---------------------------- MODULE ReplayContract ----------------------------
(***************************************************************************)
(* What the docstring of acctsw/seatproxy.py promises of every request,    *)
(* seen from the two ends of the proxy: upstream receives it at most once  *)
(* on each credential, again only after upstream itself refused it, on a   *)
(* token that is not the child's own only if the request may carry one,    *)
(* and the child gets exactly one answer, after which nothing is sent.     *)
(***************************************************************************)
CONSTANTS Requests, Inject, Keys, Client, Answers

VARIABLES phase, sent, answer

contractVars == <<phase, sent, answer>>

Init ==
  /\ phase = [r \in Requests |-> "ready"]
  /\ sent = [r \in Requests |-> [k \in Keys |-> 0]]
  /\ answer = [r \in Requests |-> "none"]

\* The request goes out on a credential upstream has not seen it on.
Forward(r, k) ==
  /\ phase[r] = "ready"
  /\ sent[r][k] = 0
  /\ r \in Inject \/ k = Client
  /\ phase' = [phase EXCEPT ![r] = "sent"]
  /\ sent' = [sent EXCEPT ![r][k] = 1]
  /\ UNCHANGED answer

\* Upstream refused it on that credential; the child has seen nothing of it.
Refused(r) ==
  /\ phase[r] = "sent"
  /\ r \in Inject
  /\ phase' = [phase EXCEPT ![r] = "ready"]
  /\ UNCHANGED <<sent, answer>>

\* The child gets its one answer.
Respond(r, a) ==
  /\ phase[r] \in {"ready", "sent"}
  /\ phase' = [phase EXCEPT ![r] = "answered"]
  /\ answer' = [answer EXCEPT ![r] = a]
  /\ UNCHANGED sent

Next ==
  \E r \in Requests :
    \/ \E k \in Keys : Forward(r, k)
    \/ Refused(r)
    \/ \E a \in Answers : Respond(r, a)

Spec == Init /\ [][Next]_contractVars
=============================================================================
