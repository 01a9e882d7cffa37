------------------------------ MODULE MCSeatSwap ------------------------------
(* Small instances of SeatSwap: two tokens of one email and one of another. *)
EXTENDS SeatSwap, TLC

CONSTANTS r1, r2, a1, a2, b, none

MCBorrowed == {a1, a2, b}
MCEmail    == (a1 :> "a" @@ a2 :> "a" @@ b :> "b")

MCSymmetry   == Permutations({r1, r2}) \cup Permutations({a1, a2})
MCSymmetryAB == Permutations({r1, r2})

\* Two seats with one token each, for the longer runs.
MCBorrowedAB == {a1, b}
MCEmailAB    == (a1 :> "a" @@ b :> "b")
=============================================================================
