------------------------------ MODULE SeatProxy ------------------------------
(***************************************************************************)
(* The per-session HTTPS proxy of acctsw/seatproxy.py.  Every decrypted    *)
(* request of the child is served by a thread of its own.  A thread sends  *)
(* its request on the credential that is bound when it starts; a usage     *)
(* limit, a 401 on a borrowed token or a model rejection is not passed on  *)
(* but replayed on another credential, chosen by the decide callback.      *)
(* decide runs on a helper thread and may answer anything, late or never;  *)
(* here it is the environment (Answer), and SeatSwap gives the real one.   *)
(***************************************************************************)
EXTENDS Naturals, FiniteSets

CONSTANTS
  Requests,   \* requests of the child, one serving thread each
  Inject,     \* those that may carry a seat token (INJECT_PATHS, OAuth login)
  Borrowed,   \* seats with a token: one member per (email, token) pair
  Home,       \* Seat(home email, None): the client's own login
  Open,       \* Seat("", None): the fail-open seat, again the client's login
  NoSeat,     \* Python's None where a Seat is expected
  MaxTries    \* MAX_TRIES

ASSUME ProxyConstants ==
  /\ Inject \subseteq Requests /\ NoSeat \notin Requests
  /\ Home \notin Borrowed /\ Open \notin Borrowed /\ NoSeat \notin Borrowed
  /\ Home # Open /\ Home # NoSeat /\ Open # NoSeat
  /\ MaxTries \in Nat \ {0}

Bindable == Borrowed \cup {Home}
Seats    == Bindable \cup {Open}
Keys     == Bindable                 \* Home stands for the key ("client",)

\* One try per credential: a seat without a token, or no seat at all, sends the
\* client's own headers.
Key(s) == IF s \in Borrowed THEN s ELSE Home

Kinds == {"limit", "auth", "model"}

\* Why upstream's answer to a request sent on s is not simply relayed.  Only a
\* request with a seat is classified, a 401 on the client's own login is the
\* client's, and a model rejection counts on borrowed tokens only.
HitKind(s, answer) ==
  IF answer \in Kinds /\ s # NoSeat /\ (answer = "limit" \/ s \in Borrowed)
  THEN answer ELSE "none"

VARIABLES
  bound,      \* _seat: what new injectable requests go out on
  pc,         \* where each request's thread is
  seat,       \* the seat the request goes out on, NoSeat when untouched
  tried,      \* the keys of the thread's tried list
  tries,      \* its length
  kind,       \* the hit the thread is handling
  fresh,      \* a broken pooled socket was already retried on a fresh one
  sends,      \* how often upstream received the request, per credential
  outcome,    \* what the client got
  decideLock, \* _decide_lock: the request holding it, or NoSeat
  box,        \* what decide answered: a seat, NoSeat, or "empty" so far
  stalled     \* _stalled_until lies ahead: ask nobody

threadVars == <<pc, seat, tried, tries, kind, fresh, sends, outcome>>
decideVars == <<decideLock, box, stalled>>
proxyVars  == <<bound, threadVars, decideVars>>

Places   == {"idle", "send", "wait", "hit", "asking", "relay", "done"}
Outcomes == {"none", "relayed", "limit", "auth", "model", "unreachable"}

ProxyInit ==
  /\ bound = Home                    \* SeatSwap.start() binds home
  /\ pc = [r \in Requests |-> "idle"]
  /\ seat = [r \in Requests |-> NoSeat]
  /\ tried = [r \in Requests |-> {}]
  /\ tries = [r \in Requests |-> 0]
  /\ kind = [r \in Requests |-> "none"]
  /\ fresh = [r \in Requests |-> FALSE]
  /\ sends = [r \in Requests |-> [k \in Keys |-> 0]]
  /\ outcome = [r \in Requests |-> "none"]
  /\ decideLock = NoSeat
  /\ box = "empty"
  /\ stalled = FALSE

-----------------------------------------------------------------------------
(* The request loop of _handle. *)

\* The request arrives; an injectable one takes the seat bound right now.
Begin(r) ==
  /\ pc[r] = "idle"
  /\ pc' = [pc EXCEPT ![r] = "send"]
  /\ IF r \in Inject
     THEN /\ seat' = [seat EXCEPT ![r] = bound]
          /\ tried' = [tried EXCEPT ![r] = {Key(bound)}]
          /\ tries' = [tries EXCEPT ![r] = 1]
     ELSE UNCHANGED <<seat, tried, tries>>
  /\ UNCHANGED <<bound, kind, fresh, sends, outcome, decideVars>>

\* conn.request() went out completely: upstream may act on the request.
Send(r) ==
  /\ pc[r] = "send"
  /\ pc' = [pc EXCEPT ![r] = "wait"]
  /\ sends' = [sends EXCEPT ![r][Key(seat[r])] = @ + 1]
  /\ UNCHANGED <<bound, seat, tried, tries, kind, fresh, outcome, decideVars>>

\* A pooled connection broke while the request was going out: once, again.
SendOnFresh(r) ==
  /\ pc[r] = "send" /\ ~fresh[r]
  /\ fresh' = [fresh EXCEPT ![r] = TRUE]
  /\ UNCHANGED <<bound, pc, seat, tried, tries, kind, sends, outcome,
                 decideVars>>

\* The response head goes out (reply.started): from here on nothing is resent.
Reply(r, how) ==
  /\ pc' = [pc EXCEPT ![r] = "relay"]
  /\ outcome' = [outcome EXCEPT ![r] = how]
  /\ kind' = [kind EXCEPT ![r] = "none"]

\* Never reached upstream: a 502.
SendFails(r) ==
  /\ pc[r] = "send"
  /\ Reply(r, "unreachable")
  /\ UNCHANGED <<bound, seat, tried, tries, fresh, sends, decideVars>>

\* A mutant: an answer that broke off is fetched once more.
AnswerLostResent(r) ==
  /\ pc[r] = "wait"
  /\ IF fresh[r] THEN Reply(r, "unreachable")
     ELSE pc' = [pc EXCEPT ![r] = "send"] /\ UNCHANGED <<outcome, kind>>
  /\ fresh' = [fresh EXCEPT ![r] = TRUE]
  /\ UNCHANGED <<bound, seat, tried, tries, sends, decideVars>>

\* Sent, then the connection broke before the answer was complete: never resent,
\* a 502.
AnswerLost(r) ==
  /\ pc[r] = "wait"
  /\ Reply(r, "unreachable")
  /\ UNCHANGED <<bound, seat, tried, tries, fresh, sends, decideVars>>

\* handle()'s net: any other exception before the reply began is a 502 too.
Fault(r) ==
  /\ pc[r] \in {"send", "wait"}
  /\ Reply(r, "unreachable")
  /\ UNCHANGED <<bound, seat, tried, tries, fresh, sends, decideVars>>

\* A mutant: with the budget spent the connection is closed without an answer.
UpstreamDrops(r, answer) ==
  /\ pc[r] = "wait"
  /\ IF HitKind(seat[r], answer) = "none"
     THEN Reply(r, IF answer \in Kinds THEN answer ELSE "relayed")
     ELSE /\ pc' = [pc EXCEPT ![r] = IF tries[r] < MaxTries THEN "hit" ELSE "done"]
          /\ kind' = [kind EXCEPT ![r] = HitKind(seat[r], answer)]
          /\ UNCHANGED outcome
  /\ UNCHANGED <<bound, seat, tried, tries, fresh, sends, decideVars>>

\* Upstream answers.  A hit is handled while the try budget lasts, everything
\* else (an exhausted budget included) is relayed to the client.
Upstream(r, answer) ==
  /\ pc[r] = "wait"
  /\ LET k == HitKind(seat[r], answer) IN
     IF k # "none" /\ tries[r] < MaxTries
     THEN /\ pc' = [pc EXCEPT ![r] = "hit"]
          /\ kind' = [kind EXCEPT ![r] = k]
          /\ UNCHANGED outcome
     ELSE Reply(r, IF answer \in Kinds THEN answer ELSE "relayed")
  /\ UNCHANGED <<bound, seat, tried, tries, fresh, sends, decideVars>>

\* The body is streamed to its end ...
RelayEnds(r) ==
  /\ pc[r] = "relay"
  /\ pc' = [pc EXCEPT ![r] = "done"]
  /\ UNCHANGED <<bound, seat, tried, tries, kind, fresh, sends, outcome,
                 decideVars>>

\* ... or breaks off: the client's connection is dropped, no second response.
RelayBreaks(r) ==
  /\ pc[r] = "relay"
  /\ pc' = [pc EXCEPT ![r] = "done"]
  /\ UNCHANGED <<bound, seat, tried, tries, kind, fresh, sends, outcome,
                 decideVars>>

-----------------------------------------------------------------------------
(* _next_seat: one thread at a time under _decide_lock. *)

\* The loop goes round once more on s.
Replay(r, s) ==
  /\ pc' = [pc EXCEPT ![r] = "send"]
  /\ seat' = [seat EXCEPT ![r] = s]
  /\ tried' = [tried EXCEPT ![r] = @ \cup {Key(s)}]
  /\ tries' = [tries EXCEPT ![r] = @ + 1]
  /\ kind' = [kind EXCEPT ![r] = "none"]
  /\ UNCHANGED <<fresh, sends, outcome>>

\* A mutant: any other binding is followed.
MovedOnAny(r) == Key(bound) # Key(seat[r])

\* A concurrent request moved the binding on since r was sent.
MovedOn(r) == Key(bound) # Key(seat[r]) /\ Key(bound) \notin tried[r]

\* A mutant: an injected 401 is passed on.
NoAnswerPasses(r) ==
  Reply(r, kind[r]) /\ UNCHANGED <<seat, tried, tries, fresh, sends>>

\* No usable answer: an injected 401 fails open, anything else passes through.
NoAnswer(r) ==
  IF kind[r] = "auth" /\ Home \notin tried[r]
  THEN Replay(r, Open)
  ELSE /\ Reply(r, kind[r])
       /\ UNCHANGED <<seat, tried, tries, fresh, sends>>

Follow(r) ==
  /\ pc[r] = "hit" /\ decideLock = NoSeat /\ MovedOn(r)
  /\ Replay(r, bound)
  /\ UNCHANGED <<bound, decideVars>>

\* The rest of a burst after a timeout asks nobody.
SkipAsk(r) ==
  /\ pc[r] = "hit" /\ decideLock = NoSeat /\ ~MovedOn(r) /\ stalled
  /\ NoAnswer(r)
  /\ UNCHANGED <<bound, decideVars>>

\* A mutant: the lock is not waited for.
AskAtOnce(r) ==
  /\ pc[r] = "hit" /\ ~MovedOn(r) /\ ~stalled
  /\ pc' = [pc EXCEPT ![r] = "asking"]
  /\ decideLock' = r
  /\ box' = "empty"
  /\ UNCHANGED <<bound, seat, tried, tries, kind, fresh, sends, outcome,
                 stalled>>

Ask(r) ==
  /\ pc[r] = "hit" /\ decideLock = NoSeat /\ ~MovedOn(r) /\ ~stalled
  /\ pc' = [pc EXCEPT ![r] = "asking"]
  /\ decideLock' = r
  /\ box' = "empty"
  /\ UNCHANGED <<bound, seat, tried, tries, kind, fresh, sends, outcome,
                 stalled>>

\* A mutant: "no seat" is taken for a seat.
TakeAnyAnswer(r) ==
  /\ pc[r] = "asking" /\ box # "empty"
  /\ decideLock' = NoSeat
  /\ IF Key(box) \notin tried[r]
     THEN bound' = box /\ Replay(r, box)
     ELSE NoAnswer(r) /\ UNCHANGED bound
  /\ UNCHANGED <<box, stalled>>

\* The helper thread got an answer before the timeout.  A seat the request has
\* not tried is bound, here by the proxy thread, and the request replayed on it.
TakeAnswer(r) ==
  /\ pc[r] = "asking" /\ box # "empty"
  /\ decideLock' = NoSeat
  /\ IF box # NoSeat /\ Key(box) \notin tried[r]
     THEN bound' = box /\ Replay(r, box)
     ELSE NoAnswer(r) /\ UNCHANGED bound
  /\ UNCHANGED <<box, stalled>>

\* A mutant: a timeout is forgotten at once.
DecideTimeoutForgotten(r) ==
  /\ pc[r] = "asking" /\ box = "empty"
  /\ decideLock' = NoSeat
  /\ NoAnswer(r)
  /\ UNCHANGED <<bound, box, stalled>>

DecideTimeout(r) ==
  /\ pc[r] = "asking" /\ box = "empty"
  /\ stalled' = TRUE
  /\ decideLock' = NoSeat
  /\ NoAnswer(r)
  /\ UNCHANGED <<bound, box>>

StallEnds ==
  /\ stalled
  /\ stalled' = FALSE
  /\ UNCHANGED <<bound, threadVars, decideLock, box>>

\* All a thread does but asking.
OwnStep(r) ==
  \/ Begin(r) \/ Send(r) \/ SendOnFresh(r) \/ SendFails(r) \/ AnswerLost(r)
  \/ Fault(r) \/ RelayEnds(r) \/ RelayBreaks(r)
  \/ \E answer \in Kinds \cup {"ok"} : Upstream(r, answer)
  \/ Follow(r) \/ SkipAsk(r) \/ TakeAnswer(r) \/ DecideTimeout(r)

ThreadStep(r) == Ask(r) \/ OwnStep(r)

-----------------------------------------------------------------------------
(* The owner of the proxy, unconstrained. *)

\* bind(): the launcher points the proxy at a seat, whatever threads are doing.
Bind(s) ==
  /\ bound' = s
  /\ UNCHANGED <<threadVars, decideVars>>

\* decide(hit) returns s, or raises or returns something else (NoSeat).
Answer(s) ==
  /\ decideLock # NoSeat /\ box = "empty"
  /\ box' = s
  /\ UNCHANGED <<bound, threadVars, decideLock, stalled>>

Owner ==
  \/ \E s \in Bindable : Bind(s)
  \/ \E s \in Bindable \cup {NoSeat} : Answer(s)

ProxyNext == (\E r \in Requests : ThreadStep(r)) \/ StallEnds \/ Owner

Spec == ProxyInit /\ [][ProxyNext]_proxyVars

\* Threads run, sockets answer or break, timers fire.  The owner may never
\* bind or answer, and the pool need not hand out a broken socket.
ThreadFairness ==
  \A r \in Requests :
    /\ WF_proxyVars(Send(r) \/ SendFails(r))
    /\ WF_proxyVars(AnswerLost(r) \/ \E a \in Kinds \cup {"ok"} : Upstream(r, a))
    /\ WF_proxyVars(RelayEnds(r) \/ RelayBreaks(r))
    /\ WF_proxyVars(Follow(r) \/ SkipAsk(r) \/ Ask(r))
    /\ WF_proxyVars(TakeAnswer(r) \/ DecideTimeout(r))

FairSpec == Spec /\ ThreadFairness

-----------------------------------------------------------------------------
(* Properties. *)

\* Every variable has its type, and at most one thread is inside _ask.
TypeOK ==
  /\ bound \in Bindable
  /\ pc \in [Requests -> Places]
  /\ seat \in [Requests -> Seats \cup {NoSeat}]
  /\ tried \in [Requests -> SUBSET Keys]
  /\ tries \in [Requests -> 0..MaxTries]
  /\ kind \in [Requests -> Kinds \cup {"none"}]
  /\ fresh \in [Requests -> BOOLEAN]
  /\ sends \in [Requests -> [Keys -> Nat]]
  /\ outcome \in [Requests -> Outcomes]
  /\ decideLock \in Requests \cup {NoSeat}
  /\ box \in Bindable \cup {NoSeat, "empty"}
  /\ stalled \in BOOLEAN

\* "at most once per seat credential": whatever decide answers, however often the
\* binding moves under the request and whichever sockets break, upstream receives
\* a request at most once on each credential.
AtMostOncePerCredential ==
  \A r \in Requests : \A k \in Keys : sends[r][k] <= 1

\* A 401 the child did not cause stays hidden from it: a request that went out on
\* a borrowed token ends in a 401 only after it was also tried on the child's own
\* login, unless the budget of MAX_TRIES ran out first.
Borrowed401FailsOpen ==
  \A r \in Inject :
    outcome[r] = "auth" => Home \in tried[r] \/ tries[r] = MaxTries

\* Threads that are inside _ask hold _decide_lock, so the launcher is asked one
\* question at a time.
OneQuestionAtATime ==
  \A r \in Requests : (pc[r] = "asking") <=> (decideLock = r)

\* decide may hang for ever and upstream may refuse everything: every request the
\* proxy took is answered and its thread ends.
EveryRequestAnswered ==
  \A r \in Requests : pc[r] # "idle" ~> pc[r] = "done" /\ outcome[r] # "none"

Phase(p) ==
  CASE p \in {"relay", "done"} -> "answered"
    [] p = "wait"              -> "sent"
    [] OTHER                   -> "ready"

\* The proxy, seen from upstream and from the child, keeps the contract of its
\* docstring (seatproxy.py:26-32).
Contract == INSTANCE ReplayContract WITH
  Client <- Home, Answers <- Outcomes \ {"none"},
  phase <- [r \in Requests |-> Phase(pc[r])], sent <- sends, answer <- outcome

KeepsReplayContract == Contract!Spec
=============================================================================
