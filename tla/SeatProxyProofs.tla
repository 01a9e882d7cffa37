--------------------------- MODULE SeatProxyProofs ---------------------------
(***************************************************************************)
(* Proofs about SeatProxy for any number of requests and seats, any        *)
(* MAX_TRIES and any behaviour of decide and of the owner of the binding.  *)
(***************************************************************************)
EXTENDS SeatProxy, TLAPS

\* Whether r is somewhere in _next_seat.
Deciding(r) == pc[r] \in {"hit", "asking"}

\* A thread in _next_seat has a hit and is below the budget.
HitInv ==
  \A r \in Requests : Deciding(r) => tries[r] < MaxTries /\ kind[r] \in Kinds

\* A request has a seat exactly when it may carry a token, from Begin on, and
\* only such a request ever reaches _next_seat.
SeatInv ==
  \A r \in Requests :
    /\ pc[r] = "idle" => seat[r] = NoSeat
    /\ pc[r] # "idle" => (seat[r] # NoSeat <=> r \in Inject)
    /\ Deciding(r) => r \in Inject

\* tried is the credentials the request went out on or is about to go out on.
TriedInv ==
  \A r \in Requests :
    /\ r \in Inject /\ pc[r] # "idle" => Key(seat[r]) \in tried[r]
    /\ r \in Inject => \A k \in Keys \ tried[r] : sends[r][k] = 0
    /\ pc[r] = "idle" \/ (pc[r] = "send" /\ r \notin Inject) =>
         \A k \in Keys : sends[r][k] = 0

\* The credential a request is about to go out on is new to it.
NextKeyIsNew ==
  \A r \in Requests : pc[r] = "send" => sends[r][Key(seat[r])] = 0

\* The child has its answer exactly from the response head on.
AnsweredInv ==
  \A r \in Requests : pc[r] \in {"relay", "done"} <=> outcome[r] # "none"

IInv ==
  /\ TypeOK /\ HitInv /\ SeatInv /\ TriedInv /\ NextKeyIsNew
  /\ AtMostOncePerCredential /\ AnsweredInv /\ OneQuestionAtATime
  /\ Borrowed401FailsOpen

\* The types of the state the threads share.
SharedOK ==
  /\ bound \in Bindable
  /\ decideLock \in Requests \cup {NoSeat}
  /\ box \in Bindable \cup {NoSeat, "empty"}
  /\ stalled \in BOOLEAN

\* Every seat has one of the keys.
LEMMA KeyType == \A s \in Seats \cup {NoSeat} : Key(s) \in Keys
  BY DEF Key, Keys, Seats, Bindable

\* The seats a thread may replay on are seats, and never None.
LEMMA SeatType ==
  /\ Bindable \subseteq Seats /\ Open \in Seats /\ NoSeat \notin Seats
  /\ Home \in Keys /\ Key(Open) = Home
  BY ProxyConstants DEF Seats, Bindable, Keys, Key

\* The initial states satisfy the inductive invariant.
LEMMA InitIInv == ProxyInit => IInv
<1> SUFFICES ASSUME ProxyInit PROVE IInv
  OBVIOUS
<1> USE ProxyConstants DEF ProxyInit
<1>1. TypeOK
  <2>1. /\ bound \in Bindable /\ pc \in [Requests -> Places]
        /\ kind \in [Requests -> Kinds \cup {"none"}]
        /\ outcome \in [Requests -> Outcomes]
    BY DEF Bindable, Places, Outcomes
  <2>2. /\ tried \in [Requests -> SUBSET Keys]
        /\ tries \in [Requests -> 0..MaxTries]
        /\ sends \in [Requests -> [Keys -> Nat]]
    OBVIOUS
  <2>3. /\ seat \in [Requests -> Seats \cup {NoSeat}]
        /\ decideLock \in Requests \cup {NoSeat}
        /\ box \in Bindable \cup {NoSeat, "empty"}
    OBVIOUS
  <2>4. /\ fresh \in [Requests -> BOOLEAN]
        /\ stalled \in BOOLEAN
    BY Zenon
  <2> QED
    BY <2>1, <2>2, <2>3, <2>4 DEF TypeOK
<1>2. HitInv /\ SeatInv
  BY DEF HitInv, SeatInv, Deciding
<1>3. TriedInv /\ NextKeyIsNew /\ AtMostOncePerCredential
  BY DEF TriedInv, NextKeyIsNew, AtMostOncePerCredential
<1>4. AnsweredInv /\ OneQuestionAtATime /\ Borrowed401FailsOpen
  BY DEF AnsweredInv, OneQuestionAtATime, Borrowed401FailsOpen
<1> QED
  BY <1>1, <1>2, <1>3, <1>4 DEF IInv

\* A replay on a credential the request has not tried, whatever the step does to
\* the shared state, keeps the invariant.
LEMMA ReplayKeeps ==
  ASSUME IInv, NEW r \in Requests, Deciding(r), NEW s \in Seats,
         Key(s) \notin tried[r], Replay(r, s), SharedOK', OneQuestionAtATime'
  PROVE  IInv'
<1> USE ProxyConstants, KeyType, SeatType DEF Replay, Deciding
<1>1. TypeOK'
  <2> USE DEF IInv, TypeOK
  <2>1. (pc \in [Requests -> Places] /\ seat \in [Requests -> Seats \cup {NoSeat}])'
    BY DEF Places
  <2>2. (tried \in [Requests -> SUBSET Keys])'
    OBVIOUS
  <2>3. (tries \in [Requests -> 0..MaxTries])'
    BY DEF HitInv
  <2>4. (kind \in [Requests -> Kinds \cup {"none"}] /\ fresh \in [Requests -> BOOLEAN]
         /\ sends \in [Requests -> [Keys -> Nat]] /\ outcome \in [Requests -> Outcomes])'
    OBVIOUS
  <2> QED
    BY <2>1, <2>2, <2>3, <2>4 DEF SharedOK
<1>2. (HitInv /\ SeatInv)'
  BY DEF IInv, TypeOK, HitInv, SeatInv
<1>3. TriedInv'
  BY DEF IInv, TypeOK, TriedInv, SeatInv
<1>4. NextKeyIsNew'
  <2> SUFFICES ASSUME NEW q \in Requests, pc'[q] = "send"
               PROVE  sends'[q][Key(seat'[q])] = 0
    BY DEF NextKeyIsNew
  <2>1. CASE q = r
    BY <2>1 DEF IInv, TypeOK, TriedInv, SeatInv
  <2>2. CASE q # r
    BY <2>2 DEF IInv, TypeOK, NextKeyIsNew
  <2> QED
    BY <2>1, <2>2
<1>5. AtMostOncePerCredential' /\ AnsweredInv'
  BY DEF IInv, TypeOK, AtMostOncePerCredential, AnsweredInv
<1>6. Borrowed401FailsOpen'
  BY DEF IInv, TypeOK, Borrowed401FailsOpen, AnsweredInv
<1> QED
  BY <1>1, <1>2, <1>3, <1>4, <1>5, <1>6 DEF IInv

\* An answer to the child keeps the invariant, provided that a 401 is the child's
\* own or the budget is spent.
LEMMA ReplyKeeps ==
  ASSUME IInv, NEW r \in Requests, pc[r] \in {"send", "wait", "hit", "asking"},
         NEW how \in Outcomes \ {"none"}, Reply(r, how),
         how = "auth" /\ r \in Inject => Home \in tried[r] \/ tries[r] = MaxTries,
         UNCHANGED <<seat, tried, tries, fresh, sends>>,
         SharedOK', OneQuestionAtATime'
  PROVE  IInv'
<1> USE ProxyConstants DEF Reply, Deciding
<1>1. TypeOK'
  BY DEF IInv, TypeOK, Places, SharedOK, Kinds
<1>2. (HitInv /\ SeatInv)'
  BY DEF IInv, TypeOK, HitInv, SeatInv
<1>3. TriedInv' /\ NextKeyIsNew'
  BY DEF IInv, TypeOK, TriedInv, NextKeyIsNew
<1>4. AtMostOncePerCredential' /\ AnsweredInv'
  BY DEF IInv, TypeOK, AtMostOncePerCredential, AnsweredInv
<1>5. Borrowed401FailsOpen'
  BY DEF IInv, TypeOK, Borrowed401FailsOpen
<1> QED
  BY <1>1, <1>2, <1>3, <1>4, <1>5 DEF IInv

\* Without a usable answer the request fails open or its answer passes through.
LEMMA NoAnswerKeeps ==
  ASSUME IInv, NEW r \in Requests, Deciding(r), NoAnswer(r),
         SharedOK', OneQuestionAtATime'
  PROVE  IInv'
<1>1. CASE kind[r] = "auth" /\ Home \notin tried[r]
  BY <1>1, ReplayKeeps, SeatType DEF NoAnswer
<1>2. CASE ~(kind[r] = "auth" /\ Home \notin tried[r])
  <2>1. kind[r] \in Outcomes \ {"none"} /\ pc[r] \in {"send", "wait", "hit", "asking"}
    BY DEF IInv, HitInv, Kinds, Outcomes, Deciding
  <2> QED
    BY <1>2, <2>1, ReplyKeeps DEF NoAnswer
<1> QED
  BY <1>1, <1>2

\* A new request takes the bound seat; upstream has seen nothing of it.
LEMMA BeginStep ==
  ASSUME IInv, NEW r \in Requests, Begin(r)
  PROVE  IInv'
<1> USE ProxyConstants, KeyType, SeatType DEF Begin, decideVars, Deciding
<1>1. TypeOK'
  <2> USE DEF IInv, TypeOK
  <2>1. Key(bound) \in Keys /\ 1 \in 0..MaxTries
    OBVIOUS
  <2>2. SharedOK' /\ (pc \in [Requests -> Places])'
        /\ UNCHANGED <<kind, fresh, sends, outcome>>
    BY DEF SharedOK, Places
  <2>3. CASE r \in Inject
    <3> HIDE DEF IInv
    <3>0. /\ seat' = [seat EXCEPT ![r] = bound]
          /\ tried' = [tried EXCEPT ![r] = {Key(bound)}]
          /\ tries' = [tries EXCEPT ![r] = 1]
      BY <2>3
    <3> HIDE DEF Begin
    <3>1. (seat \in [Requests -> Seats \cup {NoSeat}])'
      BY <3>0 DEF IInv
    <3>2. (tried \in [Requests -> SUBSET Keys] /\ tries \in [Requests -> 0..MaxTries])'
      BY <2>1, <3>0 DEF IInv
    <3> QED
      BY <2>2, <3>1, <3>2 DEF SharedOK, IInv
  <2>4. CASE r \notin Inject
    BY <2>2, <2>4 DEF SharedOK
  <2> QED
    BY <2>3, <2>4
<1>2. (HitInv /\ SeatInv)'
  <2>1. CASE r \in Inject
    BY <2>1 DEF IInv, TypeOK, HitInv, SeatInv
  <2>2. CASE r \notin Inject
    BY <2>2 DEF IInv, TypeOK, HitInv, SeatInv
  <2> QED
    BY <2>1, <2>2
<1>3. TriedInv' /\ NextKeyIsNew'
  <2>1. CASE r \in Inject
    BY <2>1 DEF IInv, TypeOK, TriedInv, NextKeyIsNew
  <2>2. CASE r \notin Inject
    BY <2>2 DEF IInv, TypeOK, TriedInv, NextKeyIsNew
  <2> QED
    BY <2>1, <2>2
<1>4. AtMostOncePerCredential' /\ AnsweredInv'
  BY DEF IInv, TypeOK, AtMostOncePerCredential, AnsweredInv
<1>5. OneQuestionAtATime'
  BY DEF IInv, TypeOK, OneQuestionAtATime
<1>6. Borrowed401FailsOpen'
  BY DEF IInv, TypeOK, Borrowed401FailsOpen, AnsweredInv
<1> QED
  BY <1>1, <1>2, <1>3, <1>4, <1>5, <1>6 DEF IInv

\* Sending uses up a credential the request had not been sent on.
LEMMA SendStep ==
  ASSUME IInv, NEW r \in Requests, Send(r)
  PROVE  IInv'
<1> USE ProxyConstants, KeyType DEF Send, decideVars, Deciding
<1>1. TypeOK'
  BY DEF IInv, TypeOK, Places
<1>2. (HitInv /\ SeatInv)'
  BY DEF IInv, TypeOK, HitInv, SeatInv
<1>3. TriedInv' /\ NextKeyIsNew'
  BY DEF IInv, TypeOK, TriedInv, NextKeyIsNew, SeatInv
<1>4. AtMostOncePerCredential' /\ AnsweredInv'
  BY DEF IInv, TypeOK, AtMostOncePerCredential, NextKeyIsNew, AnsweredInv
<1>5. OneQuestionAtATime'
  BY DEF IInv, TypeOK, OneQuestionAtATime
<1>6. Borrowed401FailsOpen'
  BY DEF IInv, TypeOK, Borrowed401FailsOpen
<1> QED
  BY <1>1, <1>2, <1>3, <1>4, <1>5, <1>6 DEF IInv

\* A retry on a fresh connection changes nothing upstream has seen.
LEMMA SendOnFreshStep ==
  ASSUME IInv, NEW r \in Requests, SendOnFresh(r)
  PROVE  IInv'
<1> USE ProxyConstants, KeyType DEF SendOnFresh, decideVars, Deciding
<1>1. TypeOK'
  BY DEF IInv, TypeOK, Places
<1>2. (HitInv /\ SeatInv)'
  BY DEF IInv, TypeOK, HitInv, SeatInv
<1>3. TriedInv' /\ NextKeyIsNew'
  BY DEF IInv, TypeOK, TriedInv, NextKeyIsNew, SeatInv
<1>4. AtMostOncePerCredential' /\ AnsweredInv'
  BY DEF IInv, TypeOK, AtMostOncePerCredential, NextKeyIsNew, AnsweredInv
<1>5. OneQuestionAtATime'
  BY DEF IInv, TypeOK, OneQuestionAtATime
<1>6. Borrowed401FailsOpen'
  BY DEF IInv, TypeOK, Borrowed401FailsOpen
<1> QED
  BY <1>1, <1>2, <1>3, <1>4, <1>5, <1>6 DEF IInv

\* A request that never reached upstream is answered with a 502.
LEMMA SendFailsStep ==
  ASSUME IInv, NEW r \in Requests, SendFails(r)
  PROVE  IInv'
<1>1. SharedOK'
  BY ProxyConstants DEF IInv, TypeOK, SharedOK, SendFails, decideVars
<1>2. OneQuestionAtATime'
  BY DEF IInv, TypeOK, OneQuestionAtATime, SendFails, Reply, decideVars
<1>3. "unreachable" \in Outcomes \ {"none"}
  BY DEF Outcomes
<1> QED
  BY <1>1, <1>2, <1>3, ReplyKeeps DEF SendFails

\* A request whose answer broke off is answered with a 502.
LEMMA AnswerLostStep ==
  ASSUME IInv, NEW r \in Requests, AnswerLost(r)
  PROVE  IInv'
<1>1. SharedOK'
  BY DEF IInv, TypeOK, SharedOK, AnswerLost, decideVars
<1>2. OneQuestionAtATime'
  BY DEF IInv, TypeOK, OneQuestionAtATime, AnswerLost, Reply, decideVars
<1>3. "unreachable" \in Outcomes \ {"none"}
  BY DEF Outcomes
<1> QED
  BY <1>1, <1>2, <1>3, ReplyKeeps DEF AnswerLost

\* So is one whose thread failed.
LEMMA FaultStep ==
  ASSUME IInv, NEW r \in Requests, Fault(r)
  PROVE  IInv'
<1>1. SharedOK'
  BY ProxyConstants DEF IInv, TypeOK, SharedOK, Fault, decideVars
<1>2. OneQuestionAtATime'
  BY DEF IInv, TypeOK, OneQuestionAtATime, Fault, Reply, decideVars
<1>3. "unreachable" \in Outcomes \ {"none"}
  BY DEF Outcomes
<1> QED
  BY <1>1, <1>2, <1>3, ReplyKeeps DEF Fault

\* The end of the relay leaves the answer as it is.
LEMMA RelayEndsStep ==
  ASSUME IInv, NEW r \in Requests, RelayEnds(r)
  PROVE  IInv'
<1> USE ProxyConstants, KeyType DEF RelayEnds, decideVars, Deciding
<1>1. TypeOK'
  BY DEF IInv, TypeOK, Places
<1>2. (HitInv /\ SeatInv)'
  BY DEF IInv, TypeOK, HitInv, SeatInv
<1>3. TriedInv' /\ NextKeyIsNew'
  BY DEF IInv, TypeOK, TriedInv, NextKeyIsNew, SeatInv
<1>4. AtMostOncePerCredential' /\ AnsweredInv'
  BY DEF IInv, TypeOK, AtMostOncePerCredential, NextKeyIsNew, AnsweredInv
<1>5. OneQuestionAtATime'
  BY DEF IInv, TypeOK, OneQuestionAtATime
<1>6. Borrowed401FailsOpen'
  BY DEF IInv, TypeOK, Borrowed401FailsOpen
<1> QED
  BY <1>1, <1>2, <1>3, <1>4, <1>5, <1>6 DEF IInv

\* A broken relay leaves the answer as it is.
LEMMA RelayBreaksStep ==
  ASSUME IInv, NEW r \in Requests, RelayBreaks(r)
  PROVE  IInv'
<1> USE ProxyConstants, KeyType DEF RelayBreaks, decideVars, Deciding
<1>1. TypeOK'
  BY DEF IInv, TypeOK, Places
<1>2. (HitInv /\ SeatInv)'
  BY DEF IInv, TypeOK, HitInv, SeatInv
<1>3. TriedInv' /\ NextKeyIsNew'
  BY DEF IInv, TypeOK, TriedInv, NextKeyIsNew, SeatInv
<1>4. AtMostOncePerCredential' /\ AnsweredInv'
  BY DEF IInv, TypeOK, AtMostOncePerCredential, NextKeyIsNew, AnsweredInv
<1>5. OneQuestionAtATime'
  BY DEF IInv, TypeOK, OneQuestionAtATime
<1>6. Borrowed401FailsOpen'
  BY DEF IInv, TypeOK, Borrowed401FailsOpen
<1> QED
  BY <1>1, <1>2, <1>3, <1>4, <1>5, <1>6 DEF IInv

\* Upstream's answer is kept for _next_seat or relayed; a relayed 401 is the
\* child's own or finds the budget spent.
LEMMA UpstreamStep ==
  ASSUME IInv, NEW r \in Requests, NEW answer \in Kinds \cup {"ok"},
         Upstream(r, answer)
  PROVE  IInv'
<1> DEFINE k == HitKind(seat[r], answer)
<1>1. SharedOK'
  BY ProxyConstants DEF IInv, TypeOK, SharedOK, Upstream, decideVars
<1>2. OneQuestionAtATime'
  BY DEF IInv, TypeOK, OneQuestionAtATime, Upstream, Reply, decideVars
<1>3. CASE k # "none" /\ tries[r] < MaxTries
  <2>1. k \in Kinds /\ seat[r] # NoSeat
    BY <1>3 DEF HitKind, Kinds
  <2>2. pc[r] = "wait" /\ pc' = [pc EXCEPT ![r] = "hit"] /\ kind' = [kind EXCEPT ![r] = k]
        /\ UNCHANGED <<seat, tried, tries, fresh, sends, outcome>>
    BY <1>3 DEF Upstream
  <2> HIDE DEF k
  <2>3. r \in Inject
    BY <2>1, <2>2 DEF IInv, TypeOK, SeatInv
  <2>4. TypeOK'
    BY <1>1, <2>1, <2>2 DEF IInv, TypeOK, SharedOK, Places
  <2>5. (HitInv /\ SeatInv)'
    BY <1>3, <2>1, <2>2, <2>3 DEF IInv, TypeOK, HitInv, SeatInv, Deciding
  <2>6. TriedInv' /\ NextKeyIsNew'
    BY <2>2 DEF IInv, TypeOK, TriedInv, NextKeyIsNew
  <2>7. AtMostOncePerCredential' /\ AnsweredInv' /\ Borrowed401FailsOpen'
    BY <2>2 DEF IInv, TypeOK, AtMostOncePerCredential, AnsweredInv, Borrowed401FailsOpen
  <2> QED
    BY <1>2, <2>4, <2>5, <2>6, <2>7 DEF IInv
<1>4. CASE ~(k # "none" /\ tries[r] < MaxTries)
  <2> DEFINE how == IF answer \in Kinds THEN answer ELSE "relayed"
  <2>1. how \in Outcomes \ {"none"}
    BY DEF Kinds, Outcomes
  <2>2. Reply(r, how) /\ pc[r] = "wait"
        /\ UNCHANGED <<seat, tried, tries, fresh, sends>>
    BY <1>4 DEF Upstream
  <2>3. how = "auth" /\ r \in Inject => Home \in tried[r] \/ tries[r] = MaxTries
    <3> SUFFICES ASSUME how = "auth", r \in Inject, tries[r] # MaxTries
                 PROVE  Home \in tried[r]
      OBVIOUS
    <3>1. tries[r] < MaxTries
      <4>1. tries[r] \in 0..MaxTries
        BY DEF IInv, TypeOK
      <4> QED
        BY <4>1, ProxyConstants
    <3>2. answer = "auth" /\ k = "none"
      BY <1>4, <3>1
    <3>3. seat[r] \notin Borrowed
      BY <3>2, ProxyConstants DEF HitKind, Kinds
    <3> QED
      BY <2>2, <3>3 DEF IInv, TriedInv, Key
  <2> HIDE DEF how
  <2> QED
    BY <1>1, <1>2, <2>1, <2>2, <2>3, ReplyKeeps
<1> QED
  BY <1>3, <1>4

\* Following the binding replays on a credential that is not tried yet.
LEMMA FollowStep ==
  ASSUME IInv, NEW r \in Requests, Follow(r)
  PROVE  IInv'
<1>1. SharedOK'
  BY DEF IInv, TypeOK, SharedOK, Follow, decideVars
<1>2. OneQuestionAtATime'
  BY DEF IInv, TypeOK, OneQuestionAtATime, Follow, Replay, decideVars
<1>3. bound \in Seats /\ Deciding(r) /\ Key(bound) \notin tried[r]
  BY SeatType DEF IInv, TypeOK, Follow, MovedOn, Deciding
<1> QED
  BY <1>1, <1>2, <1>3, ReplayKeeps DEF Follow

\* Asking takes the free _decide_lock.
LEMMA AskStep ==
  ASSUME IInv, NEW r \in Requests, Ask(r)
  PROVE  IInv'
<1> USE ProxyConstants, KeyType DEF Ask, decideVars, Deciding
<1>1. TypeOK'
  BY DEF IInv, TypeOK, Places
<1>2. (HitInv /\ SeatInv)'
  BY DEF IInv, TypeOK, HitInv, SeatInv
<1>3. TriedInv' /\ NextKeyIsNew'
  BY DEF IInv, TypeOK, TriedInv, NextKeyIsNew, SeatInv
<1>4. AtMostOncePerCredential' /\ AnsweredInv'
  BY DEF IInv, TypeOK, AtMostOncePerCredential, NextKeyIsNew, AnsweredInv
<1>5. OneQuestionAtATime'
  BY DEF IInv, TypeOK, OneQuestionAtATime
<1>6. Borrowed401FailsOpen'
  BY DEF IInv, TypeOK, Borrowed401FailsOpen
<1> QED
  BY <1>1, <1>2, <1>3, <1>4, <1>5, <1>6 DEF IInv

\* During a stall nobody is asked.
LEMMA SkipAskStep ==
  ASSUME IInv, NEW r \in Requests, SkipAsk(r)
  PROVE  IInv'
<1>1. SharedOK'
  BY DEF IInv, TypeOK, SharedOK, SkipAsk, decideVars
<1>2. OneQuestionAtATime'
  BY DEF IInv, TypeOK, OneQuestionAtATime, SkipAsk, NoAnswer, Replay, Reply, decideVars
<1> QED
  BY <1>1, <1>2, NoAnswerKeeps DEF SkipAsk, Deciding

\* An untried seat is bound and replayed on; any other answer is no answer.
LEMMA TakeAnswerStep ==
  ASSUME IInv, NEW r \in Requests, TakeAnswer(r)
  PROVE  IInv'
<1>1. SharedOK'
  BY DEF IInv, TypeOK, SharedOK, TakeAnswer
<1>2. OneQuestionAtATime'
  BY SMTT(30), ProxyConstants
  DEF IInv, TypeOK, OneQuestionAtATime, TakeAnswer, NoAnswer, Replay, Reply
<1>3. Deciding(r)
  BY DEF TakeAnswer, Deciding
<1>4. CASE box # NoSeat /\ Key(box) \notin tried[r]
  <2>1. box \in Seats
    BY <1>4, SeatType DEF IInv, TypeOK, TakeAnswer
  <2> QED
    BY <1>1, <1>2, <1>3, <1>4, <2>1, ReplayKeeps DEF TakeAnswer
<1>5. CASE ~(box # NoSeat /\ Key(box) \notin tried[r])
  BY <1>1, <1>2, <1>3, <1>5, NoAnswerKeeps DEF TakeAnswer
<1> QED
  BY <1>4, <1>5

\* A timeout starts a stall and frees the lock.
LEMMA DecideTimeoutStep ==
  ASSUME IInv, NEW r \in Requests, DecideTimeout(r)
  PROVE  IInv'
<1>1. SharedOK'
  BY DEF IInv, TypeOK, SharedOK, DecideTimeout
<1>2. OneQuestionAtATime'
  BY ProxyConstants
  DEF IInv, TypeOK, OneQuestionAtATime, DecideTimeout, NoAnswer, Replay, Reply
<1> QED
  BY <1>1, <1>2, NoAnswerKeeps DEF DecideTimeout, Deciding

\* The end of a stall and the owner change only the shared state.
LEMMA OwnerStep ==
  ASSUME IInv, StallEnds \/ Owner
  PROVE  IInv'
<1>1. UNCHANGED threadVars /\ UNCHANGED decideLock /\ SharedOK'
  BY DEF IInv, TypeOK, SharedOK, StallEnds, Owner, Bind, Answer, decideVars
<1> QED
  BY <1>1 DEF threadVars, IInv, TypeOK, SharedOK, HitInv, Deciding, SeatInv, TriedInv,
    NextKeyIsNew, AtMostOncePerCredential, AnsweredInv, OneQuestionAtATime,
    Borrowed401FailsOpen

\* A step that changes nothing.
LEMMA StutterStep ==
  ASSUME IInv, UNCHANGED proxyVars
  PROVE  IInv'
  BY DEF proxyVars, threadVars, decideVars, IInv, TypeOK, HitInv, Deciding,
    SeatInv, TriedInv, NextKeyIsNew, AtMostOncePerCredential, AnsweredInv,
    OneQuestionAtATime, Borrowed401FailsOpen

\* Every step preserves it.
LEMMA ProxyStep ==
  ASSUME IInv, [ProxyNext]_proxyVars
  PROVE  IInv'
<1>1. ASSUME NEW r \in Requests, ThreadStep(r) PROVE IInv'
  BY <1>1, BeginStep, SendStep, SendOnFreshStep, SendFailsStep, AnswerLostStep,
     FaultStep, RelayEndsStep, RelayBreaksStep, UpstreamStep, FollowStep,
     SkipAskStep, AskStep, TakeAnswerStep, DecideTimeoutStep DEF ThreadStep, OwnStep
<1> QED
  BY <1>1, OwnerStep, StutterStep DEF ProxyNext

\* The inductive invariant holds in every reachable state.
THEOREM Invariance == Spec => []IInv
<1>1. IInv /\ [ProxyNext]_proxyVars => IInv'
  BY ProxyStep
<1> QED
  BY <1>1, InitIInv, PTL DEF Spec

\* Every variable keeps its type.
THEOREM TypeCorrect == Spec => []TypeOK
  BY Invariance, PTL DEF IInv

\* seatproxy.py:26-27: upstream receives a request at most once per credential,
\* for every number of seats and requests, whatever decide answers.
THEOREM AtMostOnce == Spec => []AtMostOncePerCredential
  BY Invariance, PTL DEF IInv

\* seatproxy.py:35-37: a 401 on an injected token reaches the child only after its
\* own login was tried, or with the budget of MAX_TRIES spent.
THEOREM FailsOpen == Spec => []Borrowed401FailsOpen
  BY Invariance, PTL DEF IInv

\* The launcher is asked one question at a time (_decide_lock).
THEOREM OneQuestion == Spec => []OneQuestionAtATime
  BY Invariance, PTL DEF IInv

-----------------------------------------------------------------------------
(* The proxy implements ReplayContract. *)

\* A step that leaves pc's phase, sends and outcome alone is invisible there.
LEMMA Invisible ==
  ASSUME TypeOK, NEW r \in Requests, NEW p, pc' = [pc EXCEPT ![r] = p],
         Phase(p) = Phase(pc[r]), UNCHANGED <<sends, outcome>>
  PROVE  UNCHANGED Contract!contractVars
<1>1. ASSUME NEW q \in Requests PROVE Phase(pc'[q]) = Phase(pc[q])
  BY DEF TypeOK
<1>2. [q \in Requests |-> Phase(pc'[q])] = [q \in Requests |-> Phase(pc[q])]
  BY <1>1
<1> QED
  BY <1>2 DEF Contract!contractVars

\* Replying is the contract's Respond.
LEMMA ReplyIsRespond ==
  ASSUME IInv, NEW r \in Requests, pc[r] \in {"send", "wait", "hit", "asking"},
         NEW how \in Outcomes \ {"none"}, Reply(r, how), UNCHANGED sends
  PROVE  Contract!Next
<1>1. Phase(pc[r]) \in {"ready", "sent"}
  BY DEF Phase
<1>2. [q \in Requests |-> Phase(pc'[q])]
        = [[q \in Requests |-> Phase(pc[q])] EXCEPT ![r] = "answered"]
  BY DEF IInv, TypeOK, Reply, Phase
<1>3. Contract!Respond(r, how)
  BY <1>1, <1>2 DEF Contract!Respond, Reply
<1> QED
  BY <1>3 DEF Contract!Next

\* No usable answer is a Respond, or stays invisible until the next send.
LEMMA NoAnswerMaps ==
  ASSUME IInv, NEW r \in Requests, Deciding(r), NoAnswer(r)
  PROVE  Contract!Next \/ UNCHANGED Contract!contractVars
<1>1. CASE kind[r] = "auth" /\ Home \notin tried[r]
  <2>1. Phase("send") = Phase(pc[r])
    BY DEF Deciding, Phase
  <2> QED
    BY <1>1, <2>1, Invisible DEF NoAnswer, Replay, IInv
<1>2. CASE ~(kind[r] = "auth" /\ Home \notin tried[r])
  <2>1. kind[r] \in Outcomes \ {"none"} /\ pc[r] \in {"send", "wait", "hit", "asking"}
    BY DEF IInv, HitInv, Kinds, Outcomes, Deciding
  <2> QED
    BY <1>2, <2>1, ReplyIsRespond DEF NoAnswer
<1> QED
  BY <1>1, <1>2

\* A send is the contract's Forward on a credential that is new to the request.
LEMMA SendMaps ==
  ASSUME IInv, NEW r \in Requests, Send(r)
  PROVE  Contract!Next
<1> DEFINE k == Key(seat[r])
<1>1. k \in Keys /\ sends[r][k] = 0
  BY KeyType DEF IInv, TypeOK, NextKeyIsNew, Send
<1>2. r \in Inject \/ k = Home
  BY ProxyConstants DEF IInv, SeatInv, Send, Key
<1>3. sends' = [sends EXCEPT ![r][k] = 1]
  BY <1>1 DEF Send, IInv, TypeOK
<1>4. [q \in Requests |-> Phase(pc'[q])]
        = [[q \in Requests |-> Phase(pc[q])] EXCEPT ![r] = "sent"]
  BY DEF IInv, TypeOK, Send, Phase
<1>5. Phase(pc[r]) = "ready"
  BY DEF Send, Phase
<1> HIDE DEF k
<1>6. Contract!Forward(r, k)
  BY <1>1, <1>2, <1>3, <1>4, <1>5 DEF Contract!Forward, Send
<1> QED
  BY <1>1, <1>6 DEF Contract!Next

\* An answer of upstream is a refusal the child does not see, or its answer.
LEMMA UpstreamMaps ==
  ASSUME IInv, NEW r \in Requests, NEW answer \in Kinds \cup {"ok"},
         Upstream(r, answer)
  PROVE  Contract!Next
<1> DEFINE k == HitKind(seat[r], answer)
<1>1. CASE k # "none" /\ tries[r] < MaxTries
  <2>1. seat[r] # NoSeat /\ pc[r] = "wait" /\ pc' = [pc EXCEPT ![r] = "hit"]
        /\ UNCHANGED <<sends, outcome>>
    BY <1>1 DEF HitKind, Kinds, Upstream
  <2>2. r \in Inject /\ Phase(pc[r]) = "sent"
    BY <2>1 DEF IInv, SeatInv, Phase
  <2>3. [q \in Requests |-> Phase(pc'[q])]
          = [[q \in Requests |-> Phase(pc[q])] EXCEPT ![r] = "ready"]
    BY <2>1 DEF IInv, TypeOK, Phase
  <2>4. Contract!Refused(r)
    BY <2>1, <2>2, <2>3 DEF Contract!Refused
  <2> QED
    BY <2>4 DEF Contract!Next
<1>2. CASE ~(k # "none" /\ tries[r] < MaxTries)
  <2> DEFINE how == IF answer \in Kinds THEN answer ELSE "relayed"
  <2>1. how \in Outcomes \ {"none"}
    BY DEF Kinds, Outcomes
  <2>2. Reply(r, how) /\ pc[r] = "wait" /\ UNCHANGED sends
    BY <1>2 DEF Upstream
  <2> HIDE DEF how
  <2> QED
    BY <2>1, <2>2, ReplyIsRespond
<1> QED
  BY <1>1, <1>2

\* Every other step of a thread.
LEMMA ThreadMaps ==
  ASSUME IInv, NEW r \in Requests, ThreadStep(r)
  PROVE  Contract!Next \/ UNCHANGED Contract!contractVars
<1>1. CASE Begin(r)
  BY <1>1, Invisible DEF Begin, IInv, Phase
<1>2. CASE Send(r)
  BY <1>2, SendMaps
<1>3. CASE SendOnFresh(r)
  BY <1>3 DEF SendOnFresh, Contract!contractVars
<1>4. CASE SendFails(r) \/ AnswerLost(r) \/ Fault(r)
  <2>1. "unreachable" \in Outcomes \ {"none"}
    BY DEF Outcomes
  <2> QED
    BY <1>4, <2>1, ReplyIsRespond DEF SendFails, AnswerLost, Fault
<1>5. CASE RelayEnds(r) \/ RelayBreaks(r)
  BY <1>5, Invisible DEF RelayEnds, RelayBreaks, IInv, Phase
<1>6. CASE \E answer \in Kinds \cup {"ok"} : Upstream(r, answer)
  BY <1>6, UpstreamMaps
<1>7. CASE Follow(r)
  BY <1>7, Invisible DEF Follow, Replay, IInv, Phase
<1>8. CASE SkipAsk(r)
  BY <1>8, NoAnswerMaps DEF SkipAsk, Deciding
<1>9. CASE Ask(r)
  BY <1>9, Invisible DEF Ask, IInv, Phase
<1>10. CASE TakeAnswer(r)
  <2>1. CASE box # NoSeat /\ Key(box) \notin tried[r]
    BY <1>10, <2>1, Invisible DEF TakeAnswer, Replay, IInv, Phase
  <2>2. CASE ~(box # NoSeat /\ Key(box) \notin tried[r])
    BY <1>10, <2>2, NoAnswerMaps DEF TakeAnswer, Deciding
  <2> QED
    BY <2>1, <2>2
<1>11. CASE DecideTimeout(r)
  BY <1>11, NoAnswerMaps DEF DecideTimeout, Deciding
<1> QED
  BY <1>1, <1>2, <1>3, <1>4, <1>5, <1>6, <1>7, <1>8, <1>9, <1>10, <1>11
  DEF ThreadStep, OwnStep

\* seatproxy.py:26-32, for every value of the constants: the proxy implements the
\* contract its docstring promises upstream and the child.
THEOREM ImplementsContract == Spec => KeepsReplayContract
<1>1. ProxyInit => Contract!Init
  BY DEF ProxyInit, Contract!Init, Phase
<1>2. IInv /\ [ProxyNext]_proxyVars => [Contract!Next]_(Contract!contractVars)
  <2> SUFFICES ASSUME IInv, [ProxyNext]_proxyVars
               PROVE  Contract!Next \/ UNCHANGED Contract!contractVars
    OBVIOUS
  <2>1. ASSUME NEW r \in Requests, ThreadStep(r)
        PROVE  Contract!Next \/ UNCHANGED Contract!contractVars
    BY <2>1, ThreadMaps
  <2>2. ASSUME StallEnds \/ Owner \/ UNCHANGED proxyVars
        PROVE  UNCHANGED Contract!contractVars
    BY <2>2 DEF StallEnds, Owner, Bind, Answer, proxyVars, threadVars,
      Contract!contractVars
  <2> QED
    BY <2>1, <2>2 DEF ProxyNext
<1> QED
  BY <1>1, <1>2, Invariance, PTL DEF Spec, KeepsReplayContract, Contract!Spec
=============================================================================
