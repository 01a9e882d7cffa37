--------------------------- MODULE MCClaudeLogins ---------------------------
(* Two seats, and logins of which the last two end at the same time. *)
EXTENDS ClaudeLogins

CONSTANTS sa, sb
MCClaudeSeats  == {sa, sb}
MCClaudeExpiry == [n \in 0..MaxRenewals |-> IF n = 2 THEN 1 ELSE n]
=============================================================================
