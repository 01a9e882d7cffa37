------------------------------- MODULE SeatSwap -------------------------------
(***************************************************************************)
(* The owner of the proxy: acctsw/seatswap.py and the launcher's in-place  *)
(* tick.  A hit is posted by a helper thread of the proxy and decided on   *)
(* the launcher's thread, in steps that interleave with the proxy's        *)
(* threads: read the billed seat, answer (which binds), note the hop in    *)
(* the session's heartbeat.  The user's click and the token maintenance    *)
(* bind without a hit.  Restarts of the child (set_home) are not here.     *)
(***************************************************************************)
EXTENDS SeatProxy

CONSTANTS
  Email,      \* the email of a borrowed (email, token) pair
  HomeEmail,  \* the seat the child was launched on
  MaxHops,    \* MAX_INPLACE_SWITCHES
  Moves       \* what binds without a hit: a subset of {"click", "maintain"}

ASSUME SwapConstants ==
  /\ \A s \in Borrowed : Email[s] # HomeEmail
  /\ MaxHops \in Nat
  /\ Moves \subseteq {"click", "maintain"}

\* Seat.email; the fail-open seat has none.
Mail(s) == CASE s \in Borrowed -> Email[s] [] s = Home -> HomeEmail [] OTHER -> ""

Emails == {Email[s] : s \in Borrowed} \cup {HomeEmail}

VARIABLES
  helper,     \* the proxy's decide thread: "none", "start" or "open" (waiting)
  ask,        \* its _Ask: the hit, done, and the launcher's seat
  closed,     \* _closed: stop() was called
  lpc,        \* where the launcher's thread is in its tick
  job,        \* the locals of that tick: the hit (or none), the seat to bind,
              \* whether that is a hop, the billed email before maintain()
  heartbeat,  \* the seat mark_session last recorded for this session
  hops        \* inplace["hops"]

swapVars == <<helper, ask, closed, lpc, job, heartbeat, hops>>
vars == <<proxyVars, swapVars>>

Hits   == [kind : Kinds, mail : Emails \cup {""}]
NoHit  == [kind |-> "none", mail |-> ""]
Asks   == [hit : Hits \cup {NoHit}, done : BOOLEAN, seat : Bindable \cup {NoSeat}]
NoAsk  == [hit |-> NoHit, done |-> TRUE, seat |-> NoSeat]
Jobs   == [hit : Hits \cup {NoHit}, seat : Bindable \cup {NoSeat}, hop : BOOLEAN,
           from : Emails \cup {""}]
NoJob  == [hit |-> NoHit, seat |-> NoSeat, hop |-> FALSE, from |-> ""]

SwapInit ==
  /\ ProxyInit
  /\ helper = "none" /\ ask = NoAsk /\ closed = FALSE
  /\ lpc = "idle" /\ job = NoJob
  /\ heartbeat = HomeEmail /\ hops = 0

-----------------------------------------------------------------------------
(* SeatSwap._decide, on the helper thread. *)

\* The thread that asks starts the helper.
AskHelper(r) ==
  /\ Ask(r)
  /\ helper' = "start"
  /\ ask' = [hit |-> [kind |-> kind[r], mail |-> Mail(seat[r])],
             done |-> FALSE, seat |-> NoSeat]
  /\ UNCHANGED <<closed, lpc, job, heartbeat, hops>>

\* A mutant: a late helper fills whatever box there is.
ReturnLate(s) ==
  /\ helper' = "none" /\ ask' = NoAsk
  /\ box' = s /\ UNCHANGED <<bound, threadVars, decideLock, stalled>>
  /\ UNCHANGED <<closed, lpc, job, heartbeat, hops>>

\* decide returns s and takes its ask back.  A proxy thread whose own wait timed
\* out first has left the box behind, and nobody reads it.
Return(s) ==
  /\ helper' = "none" /\ ask' = NoAsk
  /\ IF decideLock # NoSeat /\ box = "empty" THEN Answer(s) ELSE UNCHANGED proxyVars
  /\ UNCHANGED <<closed, lpc, job, heartbeat, hops>>

HelperPosts ==
  /\ helper = "start" /\ ~closed
  /\ helper' = "open"
  /\ UNCHANGED <<proxyVars, ask, closed, lpc, job, heartbeat, hops>>

HelperSeesStop == helper \in {"start", "open"} /\ closed /\ Return(NoSeat)

HelperReturns == helper = "open" /\ ask.done /\ ~closed /\ Return(ask.seat)

\* A mutant: it waits for the launcher however long that takes.
HelperNeverGivesUp == helper = "open" /\ ~ask.done /\ closed /\ Return(NoSeat)

\* Its own wait, as long as the proxy's but on a clock of its own, ends.
HelperGivesUp == helper = "open" /\ ~ask.done /\ Return(NoSeat)

Helper == HelperPosts \/ HelperSeesStop \/ HelperReturns \/ HelperGivesUp

-----------------------------------------------------------------------------
(* The launcher's thread. *)

Billed == Mail(bound)

\* In-place seats that carry the child away from the billed one: home always, any
\* other only within the budget.
Elsewhere == {s \in Bindable : Mail(s) # Billed /\ (s = Home \/ hops < MaxHops)}

\* _proxy_seat(billed): the tokens that seat may have by now, home as itself.
Current == {s \in Bindable : Mail(s) = Billed}

Decide(h, s, hop) ==
  /\ lpc' = "answer"
  /\ job' = [NoJob EXCEPT !.hit = h, !.seat = s, !.hop = hop]

\* A mutant: a hit is a hit, whichever seat the session is on by now.
DecideHitAnyway(h) ==
  \/ Decide(h, NoSeat, FALSE)
  \/ h.kind = "auth" /\ \E s \in Current : Decide(h, s, FALSE)
  \/ \E s \in Elsewhere : (h.kind = "model" => s = Home) /\ Decide(h, s, TRUE)

\* _on_hit: a hit on another seat than the one billed now is replayed there; a
\* limit hops or passes through; a 401 takes a newer token of the seat, hops, or
\* passes; a model rejection goes home or passes.
DecideHit(h) ==
  IF h.mail # Billed
  THEN \E s \in Current \cup {NoSeat} : Decide(h, s, FALSE)
  ELSE \/ Decide(h, NoSeat, FALSE)
       \/ h.kind = "auth" /\ \E s \in Current : Decide(h, s, FALSE)
       \/ \E s \in Elsewhere : (h.kind = "model" => s = Home) /\ Decide(h, s, TRUE)

TakeHit ==
  /\ lpc = "idle" /\ helper = "open" /\ ~ask.done
  /\ DecideHit(ask.hit)
  /\ UNCHANGED <<proxyVars, helper, ask, closed, heartbeat, hops>>

\* The tick goes on, or is over.
Proceed(hop) ==
  IF hop THEN lpc' = "mark" /\ UNCHANGED job ELSE lpc' = "idle" /\ job' = NoJob

\* answer(): binds and wakes the helper, unless the ask is no longer open.
AskOpen(h) == helper = "open" /\ ~ask.done /\ ask.hit = h

AnswerAccepted ==
  /\ lpc = "answer" /\ AskOpen(job.hit)
  /\ ask' = [ask EXCEPT !.done = TRUE, !.seat = job.seat]
  /\ Proceed(job.hop)
  /\ IF job.seat # NoSeat THEN Bind(job.seat) ELSE UNCHANGED proxyVars
  /\ UNCHANGED <<helper, closed, heartbeat, hops>>

\* Too late: a hop or a newer token of the seat that was hit is bound for the
\* requests still to come; a seat that was only to be followed is not.
NewerToken == job.seat # NoSeat /\ job.hit.kind = "auth" /\ job.hit.mail = Mail(job.seat)

\* A mutant: whatever was decided is bound, a pass-through included.
AnswerRefusedBinds ==
  /\ lpc = "answer" /\ ~AskOpen(job.hit)
  /\ lpc' = "bind" /\ UNCHANGED job
  /\ UNCHANGED <<proxyVars, helper, ask, closed, heartbeat, hops>>

AnswerRefused ==
  /\ lpc = "answer" /\ ~AskOpen(job.hit)
  /\ IF job.hop \/ NewerToken
     THEN lpc' = "bind" /\ UNCHANGED job
     ELSE Proceed(FALSE)
  /\ UNCHANGED <<proxyVars, helper, ask, closed, heartbeat, hops>>

\* A click, or an approved crossing: a hop without a hit.
Click ==
  /\ "click" \in Moves /\ lpc = "idle"
  /\ \E s \in Elsewhere : job' = [NoJob EXCEPT !.seat = s, !.hop = TRUE]
  /\ lpc' = "bind"
  /\ UNCHANGED <<proxyVars, helper, ask, closed, heartbeat, hops>>

BindJob ==
  /\ lpc = "bind"
  /\ Bind(job.seat)
  /\ Proceed(job.hop)
  /\ UNCHANGED <<helper, ask, closed, heartbeat, hops>>

\* A mutant: the hop is counted and not noted.
MarkHopUnnoted ==
  /\ lpc = "mark"
  /\ Proceed(FALSE)
  /\ hops' = hops + (IF job.seat = Home THEN 0 ELSE 1)
  /\ UNCHANGED <<proxyVars, helper, ask, closed, heartbeat>>

\* The end of _hop_in_place.
MarkHop ==
  /\ lpc = "mark"
  /\ Proceed(FALSE)
  /\ heartbeat' = Mail(job.seat)
  /\ hops' = hops + (IF job.seat = Home THEN 0 ELSE 1)
  /\ UNCHANGED <<proxyVars, helper, ask, closed>>

\* The rest of _tick_swap: maintain() between two looks at the billed seat.
MaintainStarts ==
  /\ "maintain" \in Moves /\ lpc = "idle" /\ ~closed
  /\ job' = [NoJob EXCEPT !.from = Billed]
  /\ lpc' = "maintain"
  /\ UNCHANGED <<proxyVars, helper, ask, closed, heartbeat, hops>>

\* A borrowed token is kept, renewed, or left for home or a third seat.
MaintainLooks ==
  /\ lpc = "maintain"
  /\ \/ lpc' = "follow" /\ UNCHANGED job
     \/ /\ bound # Home /\ lpc' = "rebind"
        /\ \E s \in Elsewhere \cup (Current \ {bound}) :
             job' = [job EXCEPT !.seat = s]
  /\ UNCHANGED <<proxyVars, helper, ask, closed, heartbeat, hops>>

MaintainRebinds ==
  /\ lpc = "rebind"
  /\ Bind(job.seat)
  /\ lpc' = "follow"
  /\ UNCHANGED <<helper, ask, closed, job, heartbeat, hops>>

\* _follow_maintain, when the billed seat is another one than before.
MaintainFollows ==
  /\ lpc = "follow"
  /\ Proceed(FALSE)
  /\ IF Billed = job.from
     THEN UNCHANGED <<heartbeat, hops>>
     ELSE /\ heartbeat' = Billed
          /\ hops' = hops + (IF bound = Home THEN 0 ELSE 1)
  /\ UNCHANGED <<proxyVars, helper, ask, closed>>

\* stop(), between two ticks: no hit is decided afterwards.
Stop ==
  /\ lpc = "idle" /\ ~closed
  /\ closed' = TRUE
  /\ lpc' = "stopped"
  /\ UNCHANGED <<proxyVars, helper, ask, job, heartbeat, hops>>

Launcher ==
  \/ TakeHit \/ AnswerAccepted \/ AnswerRefused \/ Click \/ BindJob \/ MarkHop
  \/ MaintainStarts \/ MaintainLooks \/ MaintainRebinds \/ MaintainFollows
  \/ Stop

-----------------------------------------------------------------------------
\* The stall after a timeout is as long as decide's own wait, so a helper that was
\* started before the timeout has returned when the stall ends.
SwapStallEnds == helper = "none" /\ StallEnds /\ UNCHANGED swapVars

SwapThread(r) == AskHelper(r) \/ (OwnStep(r) /\ UNCHANGED swapVars)

\* The session is over; any other state without a successor is a deadlock.
Ended ==
  /\ lpc = "stopped" /\ helper = "none" /\ ~stalled
  /\ \A r \in Requests : pc[r] = "done"
  /\ UNCHANGED vars

SwapNext ==
  \/ \E r \in Requests : SwapThread(r)
  \/ SwapStallEnds \/ Helper \/ Launcher \/ Ended

SwapSpec == SwapInit /\ [][SwapNext]_vars

\* The helper's wait has a timer.  The launcher may be busy for ever.
FairSwapSpec == SwapSpec /\ ThreadFairness /\ WF_vars(Helper)

-----------------------------------------------------------------------------
(* Properties. *)

\* Every variable of the owner has its type, and the launcher never answers a hit
\* with the fail-open seat.
SwapTypeOK ==
  /\ helper \in {"none", "start", "open"}
  /\ ask \in Asks
  /\ closed \in BOOLEAN
  /\ lpc \in {"idle", "answer", "bind", "mark", "maintain", "rebind", "follow",
              "stopped"}
  /\ job \in Jobs
  /\ job.hop \/ lpc \in {"bind", "mark", "rebind"} => job.seat # NoSeat
  /\ heartbeat \in Emails
  /\ hops \in Nat

\* The owner really is an owner as SeatProxy assumes one: it touches the proxy only
\* by binding a seat and by answering the one question that is open, so everything
\* shown of SeatProxy holds of the composition.
ImplementsProxy == Spec

\* _stalled_until keeps decide threads from piling up behind a launcher that does
\* not answer: no question is asked while the helper of an earlier one still waits.
OneHelper == decideLock = NoSeat /\ ~stalled => helper = "none"

\* A burst of requests that all hit the same limit moves the session once: a hop
\* decided for a hit leaves the very seat that was hit, even though the seat was
\* read some steps before the binding changes.
HopLeavesTheHitSeat ==
  [][lpc' = "mark" /\ lpc \in {"answer", "bind"} /\ job.hit # NoHit
       => Billed = job.hit.mail]_vars

\* "email is the seat the session is billed to" (session.py:74): with no question
\* under decision and the launcher between two ticks, the heartbeat the app, the
\* other sessions and the usage poll read names the seat requests go out on.
HeartbeatIsBilled ==
  lpc \in {"idle", "stopped"} /\ decideLock = NoSeat => heartbeat = Billed

\* Every decide call returns, whether the launcher answers, hangs or stops, so no
\* helper thread is left behind.
HelperEnds == helper # "none" ~> helper = "none"
=============================================================================
