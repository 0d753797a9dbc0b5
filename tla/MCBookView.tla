------------------------------ MODULE MCBookView ------------------------------
(* TLC instances of BookView.  Prices are whole ticks from below to above   *)
(* the window, so that every level and both out-of-range sides occur.       *)
EXTENDS BookView

MCPrice == { Base + i * Tick : i \in -1 .. NumTicks }

\* Prices between two ticks, just below the window.
MCOffTickPrice == MCPrice \cup { Base - 1 }
=============================================================================
