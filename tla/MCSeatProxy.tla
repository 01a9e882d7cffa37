----------------------------- MODULE MCSeatProxy -----------------------------
(* A message and a plain request, two borrowed seats. *)
EXTENDS SeatProxy, TLC

CONSTANTS r1, r2, a, b, none

MCRequests == {r1, r2}
MCInject   == {r1}
MCBorrowed == {a, b}
=============================================================================
