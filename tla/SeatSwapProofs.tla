--------------------------- MODULE SeatSwapProofs ---------------------------
(***************************************************************************)
(* Proofs about SeatSwap: whatever the launcher, its helper threads and    *)
(* the proxy's threads do in whatever order, the owner keeps to what       *)
(* SeatProxy assumes of one, so that what is proved of SeatProxy holds of  *)
(* the composition.                                                        *)
(***************************************************************************)
EXTENDS SeatSwap, SeatProxyProofs

\* A helper that has answered is gone, and one that waits for an answer nobody
\* reads any more is followed by a stall at least as long.
HelperInv ==
  /\ OneHelper
  /\ decideLock # NoSeat /\ box # "empty" => helper = "none"

SwapInv == IInv /\ SwapTypeOK /\ HelperInv

\* Every seat that can be bound has the email of an account.
LEMMA MailType ==
  /\ \A s \in Bindable : Mail(s) \in Emails
  /\ \A s \in Seats \cup {NoSeat} : Mail(s) \in Emails \cup {""}
<1>1. ASSUME NEW s \in Borrowed PROVE Mail(s) \in Emails
  BY DEF Mail, Emails
<1>2. Mail(Home) \in Emails
  BY ProxyConstants DEF Mail, Emails
<1>3. Mail(Open) = "" /\ Mail(NoSeat) = ""
  BY ProxyConstants DEF Mail
<1> QED
  BY <1>1, <1>2, <1>3 DEF Bindable, Seats

\* The records of the launcher and of the helper.
LEMMA RecordTypes ==
  /\ NoAsk \in Asks /\ NoAsk.done = TRUE
  /\ NoJob \in Jobs /\ NoJob.seat = NoSeat /\ NoJob.hop = FALSE
  BY DEF NoAsk, Asks, NoJob, Jobs

\* The initial states.
LEMMA SwapInitInv == SwapInit => SwapInv
<1> SUFFICES ASSUME SwapInit PROVE SwapInv
  OBVIOUS
<1>1. IInv
  BY InitIInv DEF SwapInit
<1>2. SwapTypeOK
  BY RecordTypes DEF SwapInit, SwapTypeOK, Emails
<1>3. HelperInv
  BY DEF SwapInit, ProxyInit, HelperInv, OneHelper
<1> QED
  BY <1>1, <1>2, <1>3 DEF SwapInv

-----------------------------------------------------------------------------
(* The threads. *)

\* The helper returning is decide answering, or is seen by nobody.
LEMMA ReturnStep ==
  ASSUME SwapInv, NEW s \in Bindable \cup {NoSeat}, Return(s)
  PROVE  /\ (\E q \in Bindable \cup {NoSeat} : Answer(q)) \/ UNCHANGED proxyVars
         /\ SwapTypeOK' /\ HelperInv'
<1>1. SwapTypeOK'
  BY RecordTypes DEF SwapInv, SwapTypeOK, Return
<1>2. HelperInv'
  BY DEF SwapInv, HelperInv, OneHelper, Return, Answer, proxyVars, decideVars
<1> QED
  BY <1>1, <1>2 DEF Return

\* A helper step is one of the proxy's environment, or no step of it.
LEMMA HelperStep ==
  ASSUME SwapInv, Helper
  PROVE  [ProxyNext]_proxyVars /\ SwapTypeOK' /\ HelperInv'
<1>1. CASE HelperPosts
  <2>1. SwapTypeOK'
    BY <1>1 DEF HelperPosts, SwapInv, SwapTypeOK
  <2>2. HelperInv'
    BY <1>1 DEF HelperPosts, SwapInv, HelperInv, OneHelper, proxyVars, decideVars
  <2> QED
    BY <1>1, <2>1, <2>2 DEF HelperPosts
<1>2. ASSUME NEW s \in Bindable \cup {NoSeat}, Return(s)
      PROVE  [ProxyNext]_proxyVars /\ SwapTypeOK' /\ HelperInv'
  BY <1>2, ReturnStep DEF ProxyNext, Owner
<1>3. ask.seat \in Bindable \cup {NoSeat}
  BY DEF SwapInv, SwapTypeOK, Asks
<1> QED
  BY <1>1, <1>2, <1>3 DEF Helper, HelperSeesStop, HelperReturns, HelperGivesUp

\* Asking starts the one helper.
LEMMA AskHelperStep ==
  ASSUME SwapInv, NEW r \in Requests, AskHelper(r)
  PROVE  SwapTypeOK' /\ HelperInv'
<1>1. kind[r] \in Kinds /\ Mail(seat[r]) \in Emails \cup {""}
  BY MailType DEF SwapInv, AskHelper, Ask, IInv, HitInv, Deciding, TypeOK
<1>2. SwapTypeOK'
  BY <1>1 DEF SwapInv, AskHelper, SwapTypeOK, Hits, Asks
<1>3. HelperInv'
  BY ProxyConstants DEF SwapInv, AskHelper, Ask, HelperInv, OneHelper
<1> QED
  BY <1>2, <1>3

\* What a thread does on its own touches the question only by taking the answer
\* that is there, or by giving up on it, which stalls the next ones.
LEMMA OwnStepShared ==
  ASSUME SwapInv, NEW r \in Requests, OwnStep(r)
  PROVE  HelperInv' \/ helper' # helper
<1>1. pc[r] = "asking" => decideLock = r /\ decideLock # NoSeat
  BY ProxyConstants DEF SwapInv, IInv, OneQuestionAtATime
<1>2. CASE TakeAnswer(r)
  BY <1>1, <1>2 DEF TakeAnswer, SwapInv, HelperInv, OneHelper
<1>3. CASE DecideTimeout(r)
  BY <1>3 DEF DecideTimeout, SwapInv, HelperInv, OneHelper
<1>4. CASE UNCHANGED decideVars
  BY <1>4 DEF decideVars, SwapInv, HelperInv, OneHelper
<1>5. TakeAnswer(r) \/ DecideTimeout(r) \/ UNCHANGED decideVars
  BY DEF OwnStep, Begin, Send, SendOnFresh, SendFails, AnswerLost, Fault, RelayEnds,
    RelayBreaks, Upstream, Follow, SkipAsk, decideVars
<1> QED
  BY <1>2, <1>3, <1>4, <1>5

-----------------------------------------------------------------------------
(* The launcher. *)

\* What the launcher decides on has an email, and what it answers is bindable.
LEMMA LauncherSeats ==
  ASSUME SwapInv
  PROVE  /\ Billed \in Emails
         /\ Current \subseteq Bindable /\ Elsewhere \subseteq Bindable
         /\ NoSeat \notin Bindable
  BY MailType, ProxyConstants
  DEF SwapInv, IInv, TypeOK, Billed, Current, Elsewhere, Bindable

\* Going on with the tick, or ending it, keeps the types of its locals.
LEMMA ProceedTypes ==
  ASSUME SwapTypeOK, NEW hop \in BOOLEAN, Proceed(hop), hop => job.seat # NoSeat,
         UNCHANGED <<helper, ask, closed, heartbeat, hops>>
  PROVE  SwapTypeOK'
  BY RecordTypes DEF Proceed, SwapTypeOK

\* A launcher step is one of the proxy's owner, or no step of the proxy.
LEMMA LauncherStep ==
  ASSUME SwapInv, Launcher
  PROVE  [ProxyNext]_proxyVars /\ SwapTypeOK' /\ HelperInv'
<1> USE DEF SwapInv
<1>1. ASSUME NEW s \in Bindable, Bind(s) PROVE ProxyNext
  BY <1>1 DEF ProxyNext, Owner
<1>2. job.seat \in Bindable \cup {NoSeat} /\ job.hop \in BOOLEAN
  BY DEF SwapTypeOK, Jobs
<1>3. [ProxyNext]_proxyVars
  <2>1. CASE AnswerAccepted
    BY <1>1, <1>2, <2>1 DEF AnswerAccepted
  <2>2. CASE BindJob \/ MaintainRebinds
    BY <1>1, <1>2, <2>2 DEF BindJob, MaintainRebinds, SwapTypeOK
  <2>3. CASE UNCHANGED proxyVars
    BY <2>3
  <2> QED
    BY <2>1, <2>2, <2>3 DEF Launcher, TakeHit, AnswerRefused, Click, MarkHop,
      MaintainStarts, MaintainLooks, MaintainFollows, Stop
<1>4. UNCHANGED <<helper, decideLock, box, stalled>>
  BY DEF Launcher, TakeHit, AnswerAccepted, AnswerRefused, Click, BindJob, MarkHop,
    MaintainStarts, MaintainLooks, MaintainRebinds, MaintainFollows, Stop, Bind,
    proxyVars, decideVars
<1>5. HelperInv'
  BY <1>4 DEF HelperInv, OneHelper
<1>6. SwapTypeOK'
  <2> USE LauncherSeats, <1>2
  <2>1. CASE TakeHit
    <3>1. ask.hit \in Hits \cup {NoHit}
      BY DEF SwapTypeOK, Asks
    <3>2. PICK s \in Bindable \cup {NoSeat}, hop \in BOOLEAN :
            Decide(ask.hit, s, hop) /\ (hop => s # NoSeat)
      BY <2>1 DEF TakeHit, DecideHit
    <3>3. job' \in Jobs /\ job'.seat = s /\ job'.hop = hop
      BY <3>1, <3>2, RecordTypes DEF Decide, Jobs
    <3> QED
      BY <2>1, <3>2, <3>3 DEF TakeHit, Decide, SwapTypeOK
  <2>2. CASE AnswerAccepted
    BY <2>2, RecordTypes DEF AnswerAccepted, Proceed, SwapTypeOK, Jobs, Asks
  <2>3. CASE AnswerRefused
    BY <2>3, RecordTypes DEF AnswerRefused, NewerToken, Proceed, SwapTypeOK, Jobs, Asks
  <2>4. CASE Click
    <3>1. PICK s \in Bindable : job' = [NoJob EXCEPT !.seat = s, !.hop = TRUE]
      BY <2>4 DEF Click
    <3>2. job' \in Jobs /\ job'.seat # NoSeat
      BY <3>1, RecordTypes DEF Jobs
    <3> QED
      BY <2>4, <3>2 DEF Click, SwapTypeOK
  <2>5. CASE BindJob
    BY <2>5, ProceedTypes DEF BindJob, SwapTypeOK
  <2>6. CASE MarkHop
    <3>1. Mail(job.seat) \in Emails
      BY <2>6, MailType DEF MarkHop, SwapTypeOK
    <3>2. hops' \in Nat
      BY <2>6 DEF MarkHop, SwapTypeOK
    <3> QED
      BY <2>6, <3>1, <3>2, RecordTypes DEF MarkHop, Proceed, SwapTypeOK
  <2>7. CASE MaintainStarts
    BY <2>7, RecordTypes DEF MaintainStarts, SwapTypeOK, Jobs, Asks
  <2>8. CASE MaintainLooks
    <3>1. CASE lpc' = "follow" /\ UNCHANGED job
      BY <2>8, <3>1 DEF MaintainLooks, SwapTypeOK
    <3>2. ASSUME NEW s \in Bindable, job' = [job EXCEPT !.seat = s]
          PROVE  job' \in Jobs /\ job'.seat # NoSeat
      BY <3>2, LauncherSeats DEF SwapTypeOK, Jobs
    <3> QED
      BY <2>8, <3>1, <3>2 DEF MaintainLooks, SwapTypeOK
  <2>9. CASE MaintainRebinds
    BY <2>9 DEF MaintainRebinds, SwapTypeOK
  <2>10. CASE MaintainFollows
    <3>1. hops' \in Nat /\ heartbeat' \in Emails
      BY <2>10 DEF MaintainFollows, SwapTypeOK
    <3> QED
      BY <2>10, <3>1, RecordTypes DEF MaintainFollows, Proceed, SwapTypeOK
  <2>11. CASE Stop
    BY <2>11 DEF Stop, SwapTypeOK
  <2> QED
    BY <2>1, <2>2, <2>3, <2>4, <2>5, <2>6, <2>7, <2>8, <2>9, <2>10, <2>11
    DEF Launcher
<1> QED
  BY <1>3, <1>5, <1>6

-----------------------------------------------------------------------------
(* The composition. *)

\* A step of the composition is a step of the proxy or of its environment.
LEMMA SwapStep ==
  ASSUME SwapInv, [SwapNext]_vars
  PROVE  [ProxyNext]_proxyVars /\ SwapTypeOK' /\ HelperInv'
<1>1. ASSUME NEW r \in Requests, AskHelper(r)
      PROVE  [ProxyNext]_proxyVars /\ SwapTypeOK' /\ HelperInv'
  BY <1>1, AskHelperStep DEF AskHelper, ProxyNext, ThreadStep
<1>2. ASSUME NEW r \in Requests, OwnStep(r), UNCHANGED swapVars
      PROVE  [ProxyNext]_proxyVars /\ SwapTypeOK' /\ HelperInv'
  BY <1>2, OwnStepShared DEF ProxyNext, ThreadStep, swapVars, SwapInv, SwapTypeOK
<1>3. CASE SwapStallEnds
  BY <1>3 DEF SwapStallEnds, StallEnds, ProxyNext, swapVars, SwapInv, SwapTypeOK,
    HelperInv, OneHelper
<1>4. CASE UNCHANGED vars
  BY <1>4 DEF vars, proxyVars, decideVars, swapVars, SwapInv, SwapTypeOK, HelperInv,
    OneHelper
<1> QED
  BY <1>1, <1>2, <1>3, <1>4, HelperStep, LauncherStep DEF SwapNext, SwapThread, Ended

\* The inductive invariant holds in every reachable state.
THEOREM SwapInvariance == SwapSpec => []SwapInv
<1>1. SwapInv /\ [SwapNext]_vars => SwapInv'
  BY SwapStep, ProxyStep DEF SwapInv
<1> QED
  BY <1>1, SwapInitInv, PTL DEF SwapSpec

\* Every variable of the composition keeps its type.
THEOREM SwapTypeCorrect == SwapSpec => [](TypeOK /\ SwapTypeOK)
  BY SwapInvariance, PTL DEF SwapInv, IInv

\* Decide threads do not pile up behind a launcher that does not answer.
THEOREM OneHelperAtATime == SwapSpec => []OneHelper
  BY SwapInvariance, PTL DEF SwapInv, HelperInv

\* The launcher, its helper threads and the user are an owner as SeatProxy assumes
\* one, in every interleaving.
THEOREM SwapIsAProxyOwner == SwapSpec => ImplementsProxy
<1>1. SwapInv /\ [SwapNext]_vars => [ProxyNext]_proxyVars
  BY SwapStep
<1>2. SwapInit => ProxyInit
  BY DEF SwapInit
<1> QED
  BY <1>1, <1>2, SwapInvariance, PTL DEF SwapSpec, Spec, ImplementsProxy

\* So the docstring's promise holds of the composition: whatever the launcher
\* decides, and whenever, a request is sent at most once per credential.
COROLLARY SwapAtMostOnce == SwapSpec => []AtMostOncePerCredential
  BY SwapIsAProxyOwner, AtMostOnce DEF ImplementsProxy

-----------------------------------------------------------------------------
(* Hops. *)

\* The launcher is between a hit's decision and its binding.
HitInHand == lpc \in {"answer", "bind"} /\ job.hit # NoHit

\* The open question has an answer that its thread will bind.
Answered == decideLock # NoSeat /\ box \notin {"empty", NoSeat}

\* Meanwhile nothing of an earlier decision is still to be bound, so the seat that was hit
\* stays the billed one until the hop leaves it.
HopInv ==
  /\ HitInHand /\ job.hop => Billed = job.hit.mail
  /\ HitInHand => ~Answered
  /\ HitInHand => ~(helper = "open" /\ ask.done)
  /\ helper = "start" => ~ask.done

\* What a step of a proxy thread does to the binding: it takes the answer that is there.
LEMMA ThreadBinds ==
  ASSUME SwapInv, NEW r \in Requests, OwnStep(r)
  PROVE  /\ decideLock' \in {decideLock, NoSeat} /\ UNCHANGED box
         /\ \/ UNCHANGED bound
            \/ Answered /\ box \in Bindable /\ bound' = box
<1>1. CASE TakeAnswer(r)
  <2>1. decideLock # NoSeat
    BY <1>1, ProxyConstants DEF TakeAnswer, SwapInv, IInv, OneQuestionAtATime
  <2>2. box \in Bindable \cup {NoSeat, "empty"}
    BY DEF SwapInv, IInv, TypeOK
  <2> QED
    BY <1>1, <2>1, <2>2 DEF TakeAnswer, Answered
<1>2. CASE DecideTimeout(r)
  BY <1>2 DEF DecideTimeout
<1>3. CASE UNCHANGED <<bound, decideVars>>
  BY <1>3 DEF decideVars
<1>4. TakeAnswer(r) \/ DecideTimeout(r) \/ UNCHANGED <<bound, decideVars>>
  BY DEF OwnStep, Begin, Send, SendOnFresh, SendFails, AnswerLost, Fault, RelayEnds,
    RelayBreaks, Upstream, Follow, SkipAsk, decideVars
<1> QED
  BY <1>1, <1>2, <1>3, <1>4

\* A helper's step binds nothing, and what it puts into the box is what the launcher
\* answered it, or no seat.
LEMMA HelperBinds ==
  ASSUME SwapInv, Helper
  PROVE  /\ UNCHANGED <<bound, decideLock, lpc, job, heartbeat, hops, closed>>
         /\ \/ helper = "start" /\ helper' = "open" /\ UNCHANGED <<ask, box>>
            \/ /\ helper' = "none"
               /\ \/ box' \in {box, NoSeat}
                  \/ helper = "open" /\ ask.done /\ box' = ask.seat
<1>1. CASE HelperPosts
  BY <1>1 DEF HelperPosts, proxyVars, decideVars
<1>2. ASSUME NEW s, Return(s)
      PROVE  /\ UNCHANGED <<bound, decideLock, lpc, job, heartbeat, hops, closed>>
             /\ helper' = "none" /\ box' \in {box, s}
  BY <1>2 DEF Return, Answer, proxyVars, decideVars
<1>3. CASE HelperSeesStop \/ HelperGivesUp
  BY <1>2, <1>3 DEF HelperSeesStop, HelperGivesUp
<1>4. CASE HelperReturns
  BY <1>2, <1>4 DEF HelperReturns
<1> QED
  BY <1>1, <1>3, <1>4 DEF Helper

\* Every step of the composition keeps the hit's seat the billed one.
LEMMA HopStep ==
  ASSUME SwapInv, HopInv, [SwapNext]_vars
  PROVE  HopInv'
<1> USE DEF HopInv, HitInHand, Billed, Answered
<1>2. ASSUME NEW r \in Requests, AskHelper(r) PROVE HopInv'
  BY <1>2 DEF AskHelper, Ask
<1>3. ASSUME NEW r \in Requests, OwnStep(r), UNCHANGED swapVars PROVE HopInv'
  BY <1>3, ThreadBinds DEF swapVars
<1>4. CASE SwapStallEnds
  BY <1>4 DEF SwapStallEnds, StallEnds, swapVars
<1>5. CASE Helper
  BY <1>5, HelperBinds
<1>6. CASE UNCHANGED vars
  BY <1>6 DEF vars, proxyVars, decideVars, swapVars
<1>7. CASE TakeHit
  <2>1. decideLock # NoSeat => box = "empty"
    BY <1>7 DEF TakeHit, SwapInv, HelperInv
  <2>2. /\ UNCHANGED <<bound, decideLock, box, helper, ask>> /\ helper = "open" /\ ~ask.done
    BY <1>7 DEF TakeHit, proxyVars, decideVars
  <2>3. job'.hit = ask.hit /\ (job'.hop => ask.hit.mail = Billed)
    BY <1>7 DEF TakeHit, DecideHit, Decide, NoJob
  <2> QED
    BY <2>1, <2>2, <2>3
<1>8. CASE AnswerAccepted
  <2>1. lpc' \in {"mark", "idle"} /\ UNCHANGED helper /\ helper = "open"
    BY <1>8 DEF AnswerAccepted, Proceed, AskOpen
  <2> QED
    BY <2>1
<1>9. CASE AnswerRefused
  <2>1. /\ (lpc' = "bind" /\ UNCHANGED job) \/ lpc' = "idle"
        /\ lpc = "answer" /\ UNCHANGED <<bound, decideLock, box, helper, ask>>
    BY <1>9 DEF AnswerRefused, Proceed, proxyVars, decideVars
  <2> QED
    BY <2>1
<1>10. CASE Click
  <2>1. job'.hit = NoHit /\ UNCHANGED <<helper, ask>>
    BY <1>10 DEF Click, NoJob
  <2> QED
    BY <2>1
<1>11. CASE BindJob
  <2>1. lpc' \in {"mark", "idle"} /\ UNCHANGED <<helper, ask>>
    BY <1>11 DEF BindJob, Proceed
  <2> QED
    BY <2>1
<1>12. CASE MarkHop \/ MaintainFollows
  <2>1. lpc' = "idle" /\ UNCHANGED <<helper, ask>>
    BY <1>12 DEF MarkHop, MaintainFollows, Proceed
  <2> QED
    BY <2>1
<1>13. CASE MaintainStarts \/ MaintainLooks \/ MaintainRebinds \/ Stop
  <2>1. lpc' \in {"maintain", "follow", "rebind", "stopped"} /\ UNCHANGED <<helper, ask>>
    BY <1>13 DEF MaintainStarts, MaintainLooks, MaintainRebinds, Stop
  <2> QED
    BY <2>1
<1> QED
  BY <1>2, <1>3, <1>4, <1>5, <1>6, <1>7, <1>8, <1>9, <1>10, <1>11, <1>12, <1>13
  DEF SwapNext, SwapThread, Launcher, Ended

\* A hop decided for a hit leaves the very seat that was hit, in every interleaving of the
\* launcher with the proxy's threads, the user and the token maintenance.
THEOREM HopsLeaveTheHitSeat == SwapSpec => HopLeavesTheHitSeat
<1>1. SwapInit => HopInv
  BY DEF SwapInit, HopInv, HitInHand
<1>2. SwapInv /\ HopInv /\ [SwapNext]_vars => HopInv'
  BY HopStep
<1>3. SwapInv /\ HopInv /\ [SwapNext]_vars
        => [lpc' = "mark" /\ lpc \in {"answer", "bind"} /\ job.hit # NoHit
              => Billed = job.hit.mail]_vars
  <2> SUFFICES ASSUME SwapInv, HopInv, SwapNext,
                      lpc' = "mark", lpc \in {"answer", "bind"}, job.hit # NoHit
               PROVE  Billed = job.hit.mail
    OBVIOUS
  <2>1. CASE AnswerAccepted \/ BindJob
    <3>1. job.hop
      BY <2>1 DEF AnswerAccepted, BindJob, Proceed
    <3> QED
      BY <3>1 DEF HopInv, HitInHand
  <2>2. CASE UNCHANGED lpc
    BY <2>2
  <2>3. CASE lpc' # "mark"
    BY <2>3
  <2>4. AnswerAccepted \/ BindJob \/ UNCHANGED lpc \/ lpc' # "mark"
    BY HelperBinds
    DEF SwapNext, SwapThread, AskHelper, SwapStallEnds, Ended, vars, swapVars, Launcher,
      TakeHit, DecideHit, Decide, AnswerRefused, Click, MarkHop, MaintainStarts, MaintainLooks,
      MaintainRebinds, MaintainFollows, Stop, Proceed
  <2> QED
    BY <2>1, <2>2, <2>3, <2>4
<1> QED
  BY <1>1, <1>2, <1>3, SwapInvariance, PTL DEF SwapSpec, HopLeavesTheHitSeat

-----------------------------------------------------------------------------
(* The heartbeat of a session that only its hits move. *)

\* Every seat that is on its way to the binding, except a hop's, is of the billed email, and
\* between two hops the heartbeat names it.
MarkedInv ==
  /\ lpc \in {"idle", "answer", "bind", "mark", "stopped"}
  /\ lpc \in {"answer", "bind"} => job.hit # NoHit
  /\ helper # "none" => ask.hit # NoHit
  /\ lpc \in {"answer", "bind"} /\ ~job.hop /\ job.seat # NoSeat => Mail(job.seat) = Billed
  /\ lpc = "mark" => Mail(job.seat) = Billed
  /\ Answered => Mail(box) = Billed
  /\ helper = "open" /\ ask.done /\ ask.seat # NoSeat => Mail(ask.seat) = Billed
  /\ lpc # "mark" => heartbeat = Billed

\* Every step keeps it, when nothing but a hit moves the session.
LEMMA MarkedStep ==
  ASSUME Moves = {}, SwapInv, HopInv, MarkedInv, [SwapNext]_vars
  PROVE  MarkedInv'
<1> USE DEF MarkedInv, Billed, Answered
<1>1. ASSUME NEW r \in Requests, AskHelper(r) PROVE MarkedInv'
  <2>1. kind[r] \in Kinds
    BY <1>1 DEF SwapInv, AskHelper, Ask, IInv, HitInv, Deciding
  <2>2. ask'.hit # NoHit /\ ~ask'.done /\ helper' = "start"
    BY <1>1, <2>1 DEF AskHelper, NoHit, Kinds
  <2>3. box' = "empty" /\ UNCHANGED <<bound, lpc, job, heartbeat>>
    BY <1>1 DEF AskHelper, Ask
  <2> QED
    BY <2>2, <2>3
<1>2. ASSUME NEW r \in Requests, OwnStep(r), UNCHANGED swapVars PROVE MarkedInv'
  <2>1. Mail(bound') = Mail(bound)
    BY <1>2, ThreadBinds
  <2>2. Answered' => Answered
    BY <1>2, ThreadBinds
  <2>3. UNCHANGED <<lpc, job, helper, ask, heartbeat, box>>
    BY <1>2, ThreadBinds DEF swapVars
  <2> QED
    BY <2>1, <2>2, <2>3
<1>3. CASE SwapStallEnds
  BY <1>3 DEF SwapStallEnds, StallEnds, swapVars
<1>4. CASE Helper
  BY <1>4, HelperBinds DEF HopInv
<1>5. CASE UNCHANGED vars
  BY <1>5 DEF vars, proxyVars, decideVars, swapVars
<1>6. CASE TakeHit
  <2>1. /\ UNCHANGED <<bound, decideLock, box, helper, ask, heartbeat>>
        /\ lpc = "idle" /\ lpc' = "answer" /\ helper = "open"
    BY <1>6 DEF TakeHit, DecideHit, Decide, proxyVars, decideVars
  <2>2. job'.hit = ask.hit
    BY <1>6 DEF TakeHit, DecideHit, Decide, NoJob
  <2>3. ~job'.hop /\ job'.seat # NoSeat => Mail(job'.seat) = Mail(bound)
    <3>1. PICK s \in Bindable \cup {NoSeat}, hop \in BOOLEAN :
            Decide(ask.hit, s, hop) /\ (~hop /\ s # NoSeat => s \in Current)
      BY <1>6 DEF TakeHit, DecideHit, Current, Elsewhere
    <3>2. job'.seat = s /\ job'.hop = hop
      BY <3>1 DEF Decide, NoJob
    <3> QED
      BY <3>1, <3>2 DEF Current
  <2> QED
    BY <2>1, <2>2, <2>3
<1>7. CASE AnswerAccepted
  <2>1. job.hop => job.seat # NoSeat
    BY DEF SwapInv, SwapTypeOK
  <2>2. /\ ask' = [ask EXCEPT !.done = TRUE, !.seat = job.seat] /\ ask \in Asks
        /\ UNCHANGED <<helper, decideLock, box, heartbeat>> /\ lpc = "answer"
    BY <1>7 DEF AnswerAccepted, Bind, proxyVars, decideVars, SwapInv, SwapTypeOK
  <2>3. ask'.hit = ask.hit /\ ask'.seat = job.seat
    BY <2>2 DEF Asks
  <2>4. job.seat # NoSeat => bound' = job.seat
    BY <1>7 DEF AnswerAccepted, Bind
  <2>5. job.seat = NoSeat => UNCHANGED bound
    BY <1>7 DEF AnswerAccepted, proxyVars
  <2>6. IF job.hop THEN lpc' = "mark" /\ UNCHANGED job ELSE lpc' = "idle"
    BY <1>7 DEF AnswerAccepted, Proceed
  <2>7. ~Answered
    BY <2>2 DEF HopInv, HitInHand
  <2>8. job.seat # NoSeat => Mail(job.seat) = Mail(bound')
    BY <2>4
  <2>9. ~job.hop => Mail(bound') = Mail(bound)
    BY <2>2, <2>4, <2>5
  <2> HIDE DEF Answered
  <2>10. ~Answered'
    BY <2>2, <2>7 DEF Answered
  <2> QED
    BY <2>1, <2>2, <2>3, <2>6, <2>8, <2>9, <2>10
<1>8. CASE AnswerRefused
  <2>1. /\ (lpc' = "bind" /\ UNCHANGED job) \/ lpc' = "idle"
        /\ lpc = "answer" /\ UNCHANGED <<bound, decideLock, box, helper, ask, heartbeat>>
    BY <1>8 DEF AnswerRefused, Proceed, proxyVars, decideVars
  <2> QED
    BY <2>1
<1>9. CASE BindJob
  <2>1. /\ bound' = job.seat /\ lpc = "bind" /\ job.seat # NoSeat
        /\ UNCHANGED <<decideLock, box, helper, ask, heartbeat>>
    BY <1>9 DEF BindJob, Bind, decideVars, SwapInv, SwapTypeOK
  <2>2. IF job.hop THEN lpc' = "mark" /\ UNCHANGED job ELSE lpc' = "idle"
    BY <1>9 DEF BindJob, Proceed
  <2>3. ~Answered /\ ~(helper = "open" /\ ask.done)
    BY <2>1 DEF HopInv, HitInHand
  <2> QED
    BY <2>1, <2>2, <2>3
<1>10. CASE MarkHop
  <2>1. /\ lpc = "mark" /\ lpc' = "idle" /\ heartbeat' = Mail(job.seat)
        /\ UNCHANGED <<bound, decideLock, box, helper, ask>>
    BY <1>10 DEF MarkHop, Proceed, proxyVars, decideVars
  <2> QED
    BY <2>1
<1>11. CASE Stop
  BY <1>11 DEF Stop, proxyVars, decideVars
<1>12. CASE Click \/ MaintainStarts \/ MaintainLooks \/ MaintainRebinds \/ MaintainFollows
  BY <1>12 DEF Click, MaintainStarts, MaintainLooks, MaintainRebinds, MaintainFollows
<1> QED
  BY <1>1, <1>2, <1>3, <1>4, <1>5, <1>6, <1>7, <1>8, <1>9, <1>10, <1>11, <1>12
  DEF SwapNext, SwapThread, Launcher, Ended

\* "email is the seat the session is billed to": as long as only its own hits move a
\* session, its heartbeat names the billed seat whenever no hop is under way.  (With a click
\* or the token maintenance it does not: the run SeatSwap_overtaken shows it.)
THEOREM HeartbeatsAreBilled ==
  ASSUME Moves = {}
  PROVE  SwapSpec => []HeartbeatIsBilled
<1>1. SwapInit => HopInv /\ MarkedInv
  BY ProxyConstants
  DEF SwapInit, ProxyInit, HopInv, HitInHand, MarkedInv, Answered, Billed, Mail
<1>2. SwapInv /\ HopInv /\ MarkedInv /\ [SwapNext]_vars => HopInv' /\ MarkedInv'
  BY HopStep, MarkedStep
<1>3. MarkedInv => HeartbeatIsBilled
  BY DEF MarkedInv, HeartbeatIsBilled
<1> QED
  BY <1>1, <1>2, <1>3, SwapInvariance, PTL DEF SwapSpec
=============================================================================
