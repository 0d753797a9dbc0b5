------------------------------- MODULE MCConfig -------------------------------
(* TLC instances of Config: a few documents and everything that is one edit *)
(* away from one of them, a short one and everything that is two edits away.*)
EXTENDS Config

\* {"x":{"x":1},"n":"\"\n"}   {"x":-1,"x":1}   [[1],{},"\u"]
Documents ==
  {<< "{", "quote", "x", "quote", ":", "{", "quote", "x", "quote", ":", "1", "}", ",",
      "quote", "n", "quote", ":", "quote", "esc", "quote", "esc", "n", "quote", "}" >>,
   << "{", "quote", "x", "quote", ":", "-", "1", ",", "quote", "x", "quote", ":", "1", "}" >>,
   << "[", "[", "1", "]", ",", "{", "ws", "}", ",", "quote", "esc", "u", "quote", "]" >>}

Edits(t) ==
  {ReplaceAt(t, k, c) : k \in DOMAIN t, c \in Char}
    \cup {InsertAt(t, k, c) : k \in DOMAIN t, c \in Char}
    \cup {RemoveAt(t, k) : k \in DOMAIN t}
    \cup {SubSeq(t, 1, k) : k \in 0 .. Len(t)}

\* {"":1}
Short == << "{", "quote", "quote", ":", "1", "}" >>

MCTexts == UNION {Edits(t) : t \in Documents \cup Edits(Short)}
MCPaths == {<< << "x" >> >>, << << "n" >> >>, << << >> >>, << << "x" >>, << "x" >> >>}
=============================================================================
