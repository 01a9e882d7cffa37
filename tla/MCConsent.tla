------------------------------ MODULE MCConsent ------------------------------
(* One session and every answer of the user, or two that race for one click, *)
(* confirmed or not, and for answers that are good for one move each.        *)
EXTENDS MCCrossings

VARIABLE part

MCChoices == {"once", "always", "confirm", "deny", "lapse", "crossing_auto", "auto_switch"}

ConsentInit == Init /\ part \in {"one", "two"}

\* The other session crashed before.
Alone == \E s \in Sessions : \A t \in Sessions \ {s} : spc[t] = "crashed"

\* What the second part leaves out is in the first.
OneClick ==
  \/ click.id = 0 /\ \E e \in Seats, confirmed \in BOOLEAN : ClickSeat(e, confirmed)
  \/ \E d \in Dirs : Approve(d, "once")
  \/ \E e \in Seats : AppHandoff(e) \/ Rest(e)

ConsentNext ==
  /\ UNCHANGED part
  /\ CASE part = "two" -> (\E s \in Sessions : Launcher(s)) \/ OneClick
       [] Alone        -> Next
       [] OTHER        -> \E s \in Sessions : Crash(s)

ConsentSpec == ConsentInit /\ [][ConsentNext]_<<vars, part>>
=============================================================================
