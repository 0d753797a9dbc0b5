-------------------------------- MODULE Config --------------------------------
(***************************************************************************)
(* The JSON configuration loader (config.hpp): a recursive-descent parser, *)
(* whose C++ call stack is the variable stack, and dotted-path access to   *)
(* what it built.  A text is a sequence of character classes; the words    *)
(* true and null are one class each, "x" is any character without meaning. *)
(***************************************************************************)
EXTENDS Integers, Sequences, FiniteSets, SequencesExt

CONSTANTS Texts,  \* the texts to be parsed
          Paths   \* dotted paths to be looked up, as sequences of keys

Blank == {"ws"}
NumChar == {"1", "-"}  \* a digit, and a sign, which parse_number() takes anywhere
Char == {"{", "}", "[", "]", ",", ":", "quote", "esc", "n", "u", "x", "true", "null", "NUL"}
          \cup Blank \cup NumChar

ASSUME ConfigAssumption ==
  /\ \A t \in Texts : t \in Seq(Char)
  /\ \A path \in Paths : path \in Seq({path[n] : n \in DOMAIN path})

VARIABLES s,      \* the text, s_
          i,      \* the cursor i_, counted from 1
          pc,     \* what the innermost parse function does next
          stack,  \* objects and arrays under construction
          str,    \* the string under construction, and what it will be
          root    \* the document

vars == << s, i, pc, stack, str, root >>

\* JsonValue: its alternative, and what it holds.
Value(t, v) == [t |-> t, v |-> v]
Null == Value("null", << >>)
NoString == [chars |-> << >>, isKey |-> FALSE]
Frame(kind) == [kind |-> kind, members |-> << >>, key |-> << >>]

Running == {"value", "key", "string", "colon", "member", "item", "end"}
Kind == {"object", "array"}
Framed(frames) ==
  /\ frames \in Seq({frames[n] : n \in DOMAIN frames})
  /\ \A n \in DOMAIN frames :
       /\ frames[n].kind \in Kind
       /\ frames[n] = [kind |-> frames[n].kind, members |-> frames[n].members, key |-> frames[n].key]
TypeOK ==
  /\ s \in Seq(Char) /\ i \in 1 .. Len(s) + 1
  /\ pc \in Running \cup {"ok", "error"}
  /\ Framed(stack)
  /\ str = [chars |-> str.chars, isKey |-> str.isKey] /\ str.isKey \in BOOLEAN

\* peek(): past the end it answers as if the text went on with a NUL.
peek(k) == IF k <= Len(s) THEN s[k] ELSE "NUL"
\* Mutant: get() advances past the end.
After_Always(k) == k + 1
\* get() advances, but not past the end.
After(k) == IF k <= Len(s) THEN k + 1 ELSE k
\* skip_ws()
skip_ws(k) == CHOOSE m \in k .. Len(s) + 1 :
                /\ peek(m) \notin Blank
                /\ \A j \in k .. m - 1 : s[j] \in Blank

Init ==
  /\ s \in Texts /\ i = skip_ws(1)
  /\ pc = "value" /\ stack = << >> /\ str = NoString /\ root = Null
-----------------------------------------------------------------------------
(* Dotted-path access                                                      *)

Missing == Value("missing", << >>)

\* JsonValue::find(): one object after another, key by key.
Member(v, key) ==
  LET hits == IF v.t # "object" THEN {} ELSE {k \in DOMAIN v.v : v.v[k].key = key}
  IN  IF hits = {} THEN Missing ELSE v.v[CHOOSE k \in hits : TRUE].value
find(v, path) ==
  LET cur[n \in 0 .. Len(path)] == IF n = 0 THEN v ELSE Member(cur[n - 1], path[n])
  IN  cur[Len(path)]

\* get_int(), get_double(), get_bool(), get_string(): the default if there is
\* nothing at the path, or something of another type.
get(type, path, def) == IF find(root, path).t = type THEN find(root, path).v ELSE def
-----------------------------------------------------------------------------
\* Mutant: a repeated key replaces the value.
emplace_Assign(members, key, v) ==
  Append(SelectSeq(members, LAMBDA m : m.key # key), [key |-> key, value |-> v])
\* std::map::emplace: the key that is there already stays.
emplace(members, key, v) ==
  IF \E k \in DOMAIN members : members[k].key = key
  THEN members
  ELSE Append(members, [key |-> key, value |-> v])

\* A parse function returns v to its caller, which skips white space.
Return(v, outer, k) ==
  /\ i' = skip_ws(k)
  /\ IF outer = << >>
     THEN pc' = "end" /\ root' = v /\ stack' = << >>
     ELSE LET top == Last(outer)
              isObject == top.kind = "object"
          IN  /\ pc' = IF isObject THEN "member" ELSE "item"
              /\ stack' = [outer EXCEPT ![Len(outer)].members =
                             IF isObject THEN emplace(@, top.key, v) ELSE Append(@, v)]
              /\ UNCHANGED root

\* Every fail() throws out of all the calls.
Fail == pc' = "error" /\ UNCHANGED << s, i, stack, str, root >>

\* parse_object(), parse_array(): the opening bracket, perhaps the closing one.
Open(kind, open, close, next) ==
  /\ pc = "value" /\ peek(i) = open
  /\ LET k == skip_ws(After(i))
     IN  IF peek(k) = close
         THEN Return(Value(kind, << >>), stack, After(k))
         ELSE i' = k /\ pc' = next /\ stack' = Append(stack, Frame(kind)) /\ UNCHANGED root
  /\ UNCHANGED << s, str >>
OpenObject == Open("object", "{", "}", "key")
OpenArray == Open("array", "[", "]", "value")

\* parse_object(): a key, its colon, and what follows the member.
Key ==
  /\ pc = "key"
  /\ IF peek(i) # "quote" THEN Fail
     ELSE /\ pc' = "string" /\ i' = After(i) /\ str' = [chars |-> << >>, isKey |-> TRUE]
          /\ UNCHANGED << s, stack, root >>
Colon ==
  /\ pc = "colon"
  /\ IF peek(i) # ":" THEN Fail
     ELSE pc' = "value" /\ i' = skip_ws(After(i)) /\ UNCHANGED << s, stack, str, root >>

Close(kind) == Return(Value(kind, Last(stack).members), Front(stack), After(i))

\* The loop of parse_object() or parse_array() after a member or an item.
Follow(at, kind, close, next) ==
  /\ pc = at
  /\ CASE peek(i) = "," -> pc' = next /\ i' = skip_ws(After(i)) /\ UNCHANGED << s, stack, str, root >>
       [] peek(i) = close -> Close(kind) /\ UNCHANGED << s, str >>
       [] OTHER -> Fail
AfterMember == Follow("member", "object", "}", "key")
AfterItem == Follow("item", "array", "]", "value")

\* parse_string()
BeginString ==
  /\ pc = "value" /\ peek(i) = "quote"
  /\ pc' = "string" /\ i' = After(i) /\ str' = [chars |-> << >>, isKey |-> FALSE]
  /\ UNCHANGED << s, stack, root >>

\* Mutant: the letter of an escape is taken for itself.
Unescape_Letter(e) == e
\* What follows a backslash stands for itself, but for the letters of control
\* characters, of which "n" is the one in the model.
Unescape(e) == IF e = "n" THEN "newline" ELSE e

EndString ==
  /\ str' = NoString /\ UNCHANGED s
  /\ IF str.isKey
     THEN /\ pc' = "colon" /\ i' = skip_ws(After(i))
          /\ stack' = [stack EXCEPT ![Len(stack)].key = str.chars]
          /\ UNCHANGED root
     ELSE Return(Value("string", str.chars), stack, After(i))

Push(c, k) == str' = [str EXCEPT !.chars = Append(@, c)] /\ i' = k /\ UNCHANGED << s, pc, stack, root >>

\* Mutant: the end of the text is taken for a character.
StringChar_NoEnd ==
  /\ pc = "string"
  /\ CASE peek(i) = "quote" -> EndString
       [] peek(i) = "esc"   -> Push(Unescape(peek(After(i))), After(After(i)))
       [] OTHER             -> Push(peek(i), After(i))
\* Mutant: an escaped quote ends the string.
StringChar_NoEscape ==
  /\ pc = "string"
  /\ CASE peek(i) = "NUL"   -> Fail
       [] peek(i) = "quote" -> EndString
       [] OTHER             -> Push(peek(i), After(i))
StringChar ==
  /\ pc = "string"
  /\ CASE peek(i) = "NUL"   -> Fail
       [] peek(i) = "quote" -> EndString
       [] peek(i) = "esc"   -> Push(Unescape(peek(After(i))), After(After(i)))
       [] OTHER             -> Push(peek(i), After(i))

\* parse_bool(), parse_null()
Literal ==
  /\ pc = "value" /\ peek(i) \in {"true", "null"}
  /\ Return(Value(peek(i), << >>), stack, After(i))
  /\ UNCHANGED << s, str >>

\* parse_number(): all that looks like part of a number, read by std::stod,
\* which takes the longest number at its start and throws if there is none.
NumberEnd(k) == CHOOSE m \in k .. Len(s) + 1 :
                  peek(m) \notin NumChar /\ \A j \in k .. m - 1 : s[j] \in NumChar
StodEnd(k, m) == CHOOSE d \in k .. m :
                   /\ \A j \in k + 1 .. d - 1 : s[j] = "1"
                   /\ d = m \/ (d > k /\ s[d] # "1")
Number ==
  /\ pc = "value" /\ peek(i) \notin {"{", "[", "quote", "true", "null"}
  /\ LET m == NumberEnd(i)
         d == StodEnd(i, m)
     IN  IF \E j \in i .. d - 1 : s[j] = "1"
         THEN Return(Value("number", SubSeq(s, i, d - 1)), stack, m) /\ UNCHANGED << s, str >>
         ELSE Fail

\* parse_document(): nothing may follow.
EndDocument ==
  /\ pc = "end"
  /\ IF i # Len(s) + 1 THEN Fail ELSE pc' = "ok" /\ UNCHANGED << s, i, stack, str, root >>

Finished == pc \in {"ok", "error"} /\ UNCHANGED vars

Next ==
  \/ OpenObject \/ OpenArray \/ BeginString \/ Literal \/ Number
  \/ Key \/ Colon \/ AfterMember \/ AfterItem \/ StringChar
  \/ EndDocument \/ Finished

Spec == Init /\ [][Next]_vars
-----------------------------------------------------------------------------
(* The text by itself, without a parser: where strings, brackets and       *)
(* members are.                                                            *)

Opens == {"{", "["}
Closes == {"}", "]"}

\* From left to right: whether a string, or an escape in it, is open after the
\* k-th character, and how many brackets outside of strings are.
Start == [mode |-> "plain", depth |-> 0]
ModeAfter(mode, c) ==
  IF mode = "escape" THEN "string"
  ELSE IF c = "quote" THEN (IF mode = "plain" THEN "string" ELSE "plain")
  ELSE IF mode = "string" /\ c = "esc" THEN "escape"
  ELSE mode
Weight(c) == IF c \in Opens THEN 1 ELSE IF c \in Closes THEN -1 ELSE 0
ScanNext(a, c) ==
  LET mode == ModeAfter(a.mode, c)
  IN  [mode |-> mode, depth |-> IF mode = "plain" THEN a.depth + Weight(c) ELSE a.depth]
Scan(t) ==
  LET scan[k \in 0 .. Len(t)] == IF k = 0 THEN Start ELSE ScanNext(scan[k - 1], t[k])
  IN  scan

Introduces(t, k) == Scan(t)[k].mode = "escape"
InString(t, k) == Scan(t)[k].mode # "plain"
Depth(t, k) == Scan(t)[k].depth
Opening(t) == {k \in 1 .. Len(t) : t[k] \in Opens /\ ~InString(t, k)}
Closing(t) == {k \in 1 .. Len(t) : t[k] \in Closes /\ ~InString(t, k)}
\* The bracket at j has not been closed up to k; k closes it.
StaysOpen(t, j, k) == \A m \in j .. k : Depth(t, m) >= Depth(t, j)
Pairs(t, j, k) ==
  /\ j < k /\ StaysOpen(t, j, k - 1) /\ Depth(t, k) = Depth(t, j) - 1
  /\ << t[j], t[k] >> \in {<< "{", "}" >>, << "[", "]" >>}

\* What an escape adds to a string: a line break for "n", both characters of a
\* \u, which passes through unchanged, and what it introduces for all others.
Escaped(chars, c) ==
  CASE c = "n" -> Append(chars, "newline")
    [] c = "u" -> Append(Append(chars, "esc"), "u")
    [] OTHER   -> Append(chars, c)
\* The characters of the string that opens at position q, as far as each position.
Read(t, q) ==
  LET read[k \in q .. Len(t)] ==
        IF k = q THEN << >>
        ELSE IF Introduces(t, k) THEN read[k - 1]
        ELSE IF Introduces(t, k - 1) THEN Escaped(read[k - 1], t[k])
        ELSE Append(read[k - 1], t[k])
  IN  read
StringEnd(t, q) == CHOOSE k \in q + 1 .. Len(t) :
                     ~InString(t, k) /\ \A m \in q + 1 .. k - 1 : InString(t, m)
StringAt(t, q) == Read(t, q)[StringEnd(t, q) - 1]

\* No \u in a string.
NoUnicode(t) == \A k \in 1 .. Len(t) : Introduces(t, k - 1) => t[k] # "u"

\* The number that begins at position k: the longest stretch that is one digit
\* or sign, then digits, and ends with a digit.
Numeral(t, k, e) == t[k] \in NumChar /\ t[e] = "1" /\ \A m \in k + 1 .. e : t[m] = "1"
NumberAt(t, k) ==
  SubSeq(t, k, CHOOSE e \in k .. Len(t) :
                 Numeral(t, k, e) /\ \A f \in e + 1 .. Len(t) : ~Numeral(t, k, f))

\* The colons of the object that opens at position k, in which a key is the
\* string that was opened last before the colon.
Colons(t, k) ==
  {c \in k + 1 .. Len(t) : /\ t[c] = ":" /\ ~InString(t, c)
                           /\ Depth(t, c) = Depth(t, k) /\ StaysOpen(t, k, c)}
OpenedBefore(t, c) == {q \in 1 .. c - 1 : InString(t, q) /\ ~InString(t, q - 1)}
KeyAt(t, c) ==
  StringAt(t, CHOOSE q \in OpenedBefore(t, c) : \A p \in OpenedBefore(t, c) : p <= q)

\* Where the value at a path begins, 0 if there is none: always the first
\* member with the right key.
FirstInk(t, k) == CHOOSE m \in k .. Len(t) + 1 :
                    /\ m <= Len(t) => t[m] \notin Blank
                    /\ \A j \in k .. m - 1 : t[j] \in Blank
MemberAt(t, k, key) ==
  LET hits == {c \in IF k # 0 /\ t[k] = "{" THEN Colons(t, k) ELSE {} : KeyAt(t, c) = key}
  IN  IF hits = {} THEN 0
      ELSE FirstInk(t, (CHOOSE c \in hits : \A d \in hits : c <= d) + 1)
Locate(t, k, path) ==
  LET at[n \in 0 .. Len(path)] == IF n = 0 THEN k ELSE MemberAt(t, at[n - 1], path[n])
  IN  at[Len(path)]

KindAt(t, k) ==
  CASE k = 0 -> "missing"
    [] k > 0 /\ t[k] = "{" -> "object"
    [] k > 0 /\ t[k] = "[" -> "array"
    [] k > 0 /\ t[k] = "quote" -> "string"
    [] k > 0 /\ t[k] \in NumChar -> "number"
    [] OTHER -> t[k]
-----------------------------------------------------------------------------
(* Properties                                                              *)

(***************************************************************************)
(* A text that is accepted is whole: every string and every bracket is     *)
(* closed, by its own kind, and brackets in strings do not count.  So a    *)
(* configuration file that was cut off is never half applied.              *)
(***************************************************************************)
AcceptedIsBalanced ==
  pc = "ok" => /\ ~InString(s, Len(s))
               /\ \A k \in Opening(s) : \E m \in Closing(s) : Pairs(s, k, m)
               /\ \A m \in Closing(s) : \E k \in Opening(s) : Pairs(s, k, m)

(***************************************************************************)
(* What find() returns is what the text says at that path, through nested  *)
(* objects and repeated keys, of which the first one counts: its type, the *)
(* characters of a string with the escapes resolved, and the value of a    *)
(* number, which is that of the longest number at its start (1-5 is 1, as  *)
(* stod() has it).  Not for texts with a \u in a string: config.hpp:239    *)
(* says that such escapes "pass through unchanged", but parse_string()     *)
(* drops the backslash and goes on with the u.                             *)
(***************************************************************************)
FindsWhatIsWritten ==
  pc = "ok" /\ NoUnicode(s) => \A path \in Paths :
    LET at == Locate(s, FirstInk(s, 1), path)
    IN  /\ find(root, path).t = KindAt(s, at)
        /\ KindAt(s, at) = "string" => get("string", path, << >>) = StringAt(s, at)
        /\ KindAt(s, at) = "number" => get("number", path, << >>) = NumberAt(s, at)

(***************************************************************************)
(* Every step consumes part of the text or ends the parse: the loops end   *)
(* on every text, also where it breaks off, although get() and peek() go   *)
(* on answering past its end.                                              *)
(***************************************************************************)
AlwaysAdvances == [][i' > i \/ pc' \in {"ok", "error"}]_vars
-----------------------------------------------------------------------------
(* The inductive strengthening: the parser's stack and state are what the  *)
(* text up to the cursor leaves open.                                      *)

KindOf(c) == IF c = "{" THEN "object" ELSE "array"
Kinds(frames) == [n \in 1 .. Len(frames) |-> frames[n].kind]

\* After k characters the brackets of kinds K are open, and all others paired.
Tracks(t, k, K) ==
  /\ Depth(t, k) = Len(K)
  /\ \A n \in DOMAIN K : \E j \in Opening(t) : j <= k /\ StaysOpen(t, j, k) /\ Depth(t, j) = n
  /\ \A j \in Opening(t) : j <= k =>
       \/ StaysOpen(t, j, k) /\ Depth(t, j) \in DOMAIN K /\ K[Depth(t, j)] = KindOf(t[j])
       \/ \E m \in Closing(t) : m <= k /\ Pairs(t, j, m)
  /\ \A m \in Closing(t) : m <= k => \E j \in Opening(t) : Pairs(t, j, m)

\* Which call is running, by what it returns to.
InObject == stack # << >> /\ Last(stack).kind = "object"
InArray == stack # << >> /\ Last(stack).kind = "array"
Calls ==
  /\ pc \in {"key", "colon", "member"} \/ (pc = "string" /\ str.isKey) => InObject
  /\ pc = "item" => InArray
  /\ pc \in {"end", "ok"} => stack = << >>
  /\ pc = "ok" => i = Len(s) + 1

\* A string is being parsed where the text has one; an escape is taken whole.
StringsAgree ==
  /\ InString(s, i - 1) <=> pc = "string"
  /\ Introduces(s, i - 1) => i = Len(s) + 1

IInv == /\ TypeOK
        /\ pc # "error" => Calls /\ StringsAgree /\ Tracks(s, i - 1, Kinds(stack))
=============================================================================
