------------------------ MODULE SupervisionProofs ------------------------
(*************************************************************************)
(* What a supervisor, its child and the session it marks may rely on     *)
(* while others do as they like: another supervisor writes the store     *)
(* between two of its locks, a signal lands in the middle of a stop, an  *)
(* older engine writes the legacy session file.                          *)
(*************************************************************************)

EXTENDS RunLoop, Spawn, SessionRegistry, TLAPS

(*************************************************************************)
(* The run loop. A decision borrows the active pointer, and between two  *)
(* locks anybody may move it; `moved` remembers that somebody did. The   *)
(* invariant says, place by place, what the pointer is as long as nobody *)
(* has. It speaks of one supervisor and the store, so a step of another  *)
(* one matters only by what it writes there.                             *)
(*************************************************************************)

LoopFields ==
  {"at", "home", "next", "switches", "known", "failed", "hit", "blocked", "due", "dirty",
   "clicked", "handled", "logged", "cold", "gone", "was", "moved"}

Shaped(r) == DOMAIN r = LoopFields /\ DOMAIN r.hit = {"reason", "email", "ticked"}

\* Outside a decision the pointer is what it was; during one it may be lent to the seat the
\* child is billed to, and for a limit it is.
PointerKnown(r, p, auto) ==
  /\ r.at \in {"entering", "running", "probing", "judged"} /\ ~r.moved => p = r.was
  /\ r.at \in {"approved", "ready", "undoing"} /\ ~r.moved => p \in {r.home, r.was}
  /\ r.at \in {"approved", "ready", "stopping"} /\ r.hit.reason = "limit" /\ ~r.moved
       => p = r.home /\ auto

\* What is being decided, by place.
HitKnown(r) ==
  /\ r.at \in {"off", "running", "resting", "waiting", "landed"} => r.hit.reason = "none"
  /\ r.at = "exhausted" => r.hit.reason = "exit"
  /\ r.at = "ended" /\ r.hit.reason = "limit" => r.moved

Sound(r, p, auto) == Shaped(r) /\ PointerKnown(r, p, auto) /\ HitKnown(r)

LoopInv == DOMAIN loop = Loops /\ \A k \in Loops : Sound(loop[k], pointer, autoSwitch)

\* A supervisor that begins, and one whose decision ends in no hop.
LEMMA FreshIsSound == ASSUME NEW p, NEW auto PROVE Sound(FreshLoop, p, auto)
BY DEF Sound, Shaped, LoopFields, PointerKnown, HitKnown, FreshLoop, NoHit

\* ... if it leaves the pointer as the decision found it.
LEMMA StaysSound ==
  ASSUME NEW r, Shaped(r), NEW ticked, NEW p, NEW auto, ~r.moved => p = r.was
  PROVE  Sound(Stays(r, ticked), p, auto)
BY DEF Sound, Shaped, LoopFields, PointerKnown, HitKnown, Stays, NoHit

\* A supervisor that changes nothing but its own memory.
LEMMA AloneSound ==
  ASSUME LoopInv, NEW k \in Loops, NEW r, Sound(r, pointer, autoSwitch),
         loop' = [loop EXCEPT ![k] = r], UNCHANGED <<pointer, autoSwitch>>
  PROVE  LoopInv'
BY DEF LoopInv

\* ... nor touches the store.
LEMMA KeepSound ==
  ASSUME LoopInv, NEW k \in Loops, NEW r, Sound(r, pointer, autoSwitch), Keep(k, r)
  PROVE  LoopInv'
BY AloneSound DEF Keep, loopStore

\* A step of one supervisor that writes the store and tells the others.
LEMMA ToldSound ==
  ASSUME LoopInv, NEW k \in Loops, NEW r, Sound(r, pointer', autoSwitch'), Told(k, r)
  PROVE  LoopInv'
<1>1. DOMAIN loop' = Loops /\ loop'[k] = r
      BY DEF Told
<1>2. ASSUME NEW j \in Loops, j # k PROVE Sound(loop'[j], pointer', autoSwitch')
  <2>1. loop'[j] = [loop[j] EXCEPT !.dirty = TRUE,
                    !.moved = loop[j].moved \/ pointer' # pointer \/ autoSwitch' # autoSwitch]
        BY <1>2 DEF Told
  <2>2. Sound(loop[j], pointer, autoSwitch)
        BY DEF LoopInv
  <2>3. /\ \A f \in LoopFields \ {"dirty", "moved"} : loop'[j][f] = loop[j][f]
        /\ Shaped(loop'[j])
        /\ loop'[j].moved <=> loop[j].moved \/ pointer' # pointer \/ autoSwitch' # autoSwitch
        BY <2>1, <2>2 DEF Sound, Shaped, LoopFields
  <2>4. /\ loop'[j].at = loop[j].at /\ loop'[j].hit = loop[j].hit
        /\ loop'[j].home = loop[j].home /\ loop'[j].was = loop[j].was
        BY <2>3 DEF LoopFields
  <2>5. CASE loop'[j].moved
        BY <2>2, <2>3, <2>4, <2>5 DEF Sound, PointerKnown, HitKnown
  <2>6. CASE ~loop'[j].moved
        BY <2>2, <2>3, <2>4, <2>6 DEF Sound, PointerKnown, HitKnown
  <2> QED BY <2>5, <2>6
<1> QED BY <1>1, <1>2 DEF LoopInv

\* A decision on a limit, wherever it is called from.
LEMMA DecideLimitSound ==
  ASSUME LoopInv, NEW k \in Loops, NEW r, Shaped(r), NEW source, NEW ticked,
         DecideLimit(k, r, source, ticked)
  PROVE  LoopInv'
<1> DEFINE here == [Begun(r) EXCEPT !.dirty = TRUE]
           landings == Usable(r.failed \cup {r.home})
           approved == autoSwitch /\ landings # {} /\ r.switches < MaxSwitches
           hop(e) == [here EXCEPT !.at = IF source = "hard" THEN "approved" ELSE "ready",
                          !.hit = [reason |-> "limit", email |-> e, ticked |-> ticked]]
<1>1. Shaped(here) /\ here.was = pointer /\ ~here.moved /\ here.home = r.home
      BY DEF Shaped, LoopFields, Begun
<1>2. autoSwitch' = autoSwitch /\ pointer' = IF approved THEN r.home ELSE pointer
      BY DEF DecideLimit
<1>3. CASE ~approved
  <2>1. Told(k, Stays(here, ticked))
        BY <1>3 DEF DecideLimit
  <2>2. Sound(Stays(here, ticked), pointer', autoSwitch')
        BY <1>1, <1>2, <1>3, StaysSound
  <2> QED BY <2>1, <2>2, ToldSound
<1>4. CASE approved
  <2>1. PICK e \in landings : Told(k, hop(e))
        BY <1>4 DEF DecideLimit
  <2>2. /\ Shaped(hop(e)) /\ hop(e).at \in {"approved", "ready"}
        /\ hop(e).home = r.home
        BY <1>1 DEF Shaped, LoopFields
  <2>3. pointer' = r.home /\ autoSwitch'
        BY <1>2, <1>4
  <2>4. Sound(hop(e), pointer', autoSwitch')
        BY <2>2, <2>3 DEF Sound, PointerKnown, HitKnown
  <2> QED BY <2>1, <2>4, ToldSound
<1> QED BY <1>3, <1>4

\* A decision on dead credentials: what it lends it has saved.
LEMMA DecideDeadSound ==
  ASSUME LoopInv, NEW k \in Loops, NEW r, Shaped(r), NEW files, NEW lends, lends => files,
         DecideDead(k, r, files, lends)
  PROVE  LoopInv'
<1> DEFINE failed == r.failed \cup {r.home}
           landings == Usable(failed)
           approved == autoSwitch /\ landings # {} /\ r.switches < MaxSwitches
           saves == files \/ (~approved /\ pointer # r.home)
           here == [Begun(r) EXCEPT !.failed = failed, !.dirty = @ \/ saves]
           hop(e) == [here EXCEPT !.at = "ready",
                        !.hit = [reason |-> "auth", email |-> e, ticked |-> FALSE]]
<1>1. Shaped(here) /\ here.was = pointer /\ ~here.moved /\ here.home = r.home
      BY DEF Shaped, LoopFields, Begun
<1>2. autoSwitch' = autoSwitch /\ pointer' = IF approved /\ lends THEN r.home ELSE pointer
      BY DEF DecideDead
<1>3. PICK to : /\ Sound(to, pointer', autoSwitch')
                /\ IF saves THEN Told(k, to) ELSE loop' = [loop EXCEPT ![k] = to]
  <2>1. CASE ~approved
    <3>1. Sound(Stays(here, FALSE), pointer', autoSwitch')
          BY <1>1, <1>2, <2>1, StaysSound
    <3> QED BY <2>1, <3>1 DEF DecideDead
  <2>2. CASE approved
    <3>1. PICK e \in landings :
            IF saves THEN Told(k, hop(e)) ELSE loop' = [loop EXCEPT ![k] = hop(e)]
          BY <2>2 DEF DecideDead
    <3>2. /\ Shaped(hop(e)) /\ hop(e).at = "ready" /\ hop(e).hit.reason = "auth"
          /\ hop(e).home = r.home /\ hop(e).was = pointer
          BY <1>1 DEF Shaped, LoopFields
    <3>3. Sound(hop(e), pointer', autoSwitch')
          BY <1>2, <3>2 DEF Sound, PointerKnown, HitKnown
    <3> QED BY <3>1, <3>3
  <2> QED BY <2>1, <2>2
<1>4. CASE saves
      BY <1>3, <1>4, ToldSound
<1>5. CASE ~saves
      BY <1>2, <1>3, <1>5, AloneSound
<1> QED BY <1>4, <1>5

-----------------------------------------------------------------------------
\* The user, the provider, the clock and the polls: whoever moves the pointer or the setting
\* is seen by every supervisor.
LEMMA WorldSound ==
  ASSUME LoopInv,
         \/ Acted \/ \E s \in LoopSeats : RestEnds(s) \/ LoopPoll(s)
         \/ \E k \in Loops : BlockEnds(k) \/ Identified(k)
  PROVE  LoopInv'
<1>1. ASSUME NEW s \in LoopSeats, LoopClick(s) PROVE LoopInv'
  <2>1. ASSUME NEW j \in Loops PROVE Sound(loop'[j], pointer', autoSwitch')
    <3>1. loop'[j] = [loop[j] EXCEPT !.dirty = TRUE, !.clicked = s, !.moved = TRUE]
          BY <1>1 DEF LoopClick, LoopInv
    <3>2. Sound(loop[j], pointer, autoSwitch)
          BY DEF LoopInv
    <3> QED BY <3>1, <3>2 DEF Sound, Shaped, LoopFields, PointerKnown, HitKnown
  <2> QED BY <1>1, <2>1 DEF LoopClick, LoopInv
<1>2. ASSUME LoopToggle PROVE LoopInv'
  <2>1. ASSUME NEW j \in Loops PROVE Sound(loop'[j], pointer', autoSwitch')
    <3>1. loop'[j] = [loop[j] EXCEPT !.dirty = TRUE, !.moved = TRUE]
          BY <1>2 DEF LoopToggle, LoopInv
    <3>2. Sound(loop[j], pointer, autoSwitch)
          BY DEF LoopInv
    <3> QED BY <3>1, <3>2 DEF Sound, Shaped, LoopFields, PointerKnown, HitKnown
  <2> QED BY <1>2, <2>1 DEF LoopToggle, LoopInv
<1>3. ASSUME NEW s \in LoopSeats, LoopPoll(s) PROVE LoopInv'
  <2>1. ASSUME NEW j \in Loops PROVE Sound(loop'[j], pointer', autoSwitch')
    <3>1. loop'[j] = [loop[j] EXCEPT !.dirty = TRUE]
          BY <1>3 DEF LoopPoll, LoopInv
    <3>2. Sound(loop[j], pointer, autoSwitch) /\ pointer' = pointer /\ autoSwitch' = autoSwitch
          BY <1>3 DEF LoopInv, LoopPoll
    <3> QED BY <3>1, <3>2 DEF Sound, Shaped, LoopFields, PointerKnown, HitKnown
  <2> QED BY <1>3, <2>1 DEF LoopPoll, LoopInv
<1>4. ASSUME NEW s \in LoopSeats, Quota(s) \/ Bar(s) \/ RestEnds(s) PROVE LoopInv'
      BY <1>4 DEF Quota, Bar, RestEnds, LoopInv, loopStore
<1>5. ASSUME NEW k \in Loops, BlockEnds(k) \/ Identified(k) PROVE LoopInv'
  <2>1. Sound(loop[k], pointer, autoSwitch)
        BY DEF LoopInv
  <2>2. CASE BlockEnds(k)
    <3>1. Sound([loop[k] EXCEPT !.due = TRUE], pointer, autoSwitch)
          BY <2>1 DEF Sound, Shaped, LoopFields, PointerKnown, HitKnown
    <3> QED BY <2>2, <3>1, KeepSound DEF BlockEnds
  <2>3. CASE Identified(k)
    <3>1. Sound([loop[k] EXCEPT !.known = TRUE], pointer, autoSwitch)
          BY <2>1 DEF Sound, Shaped, LoopFields, PointerKnown, HitKnown
    <3> QED BY <2>3, <3>1, KeepSound DEF Identified
  <2> QED BY <1>5, <2>2, <2>3
<1> QED BY <1>1, <1>2, <1>3, <1>4, <1>5 DEF Acted

\* A launch, and every child's start.
LEMMA LaunchSound ==
  ASSUME LoopInv, NEW k \in Loops, LoopLaunch(k) \/ LoopEnter(k)
  PROVE  LoopInv'
<1> DEFINE r == [loop[k] EXCEPT !.moved = FALSE]
           went(s) == [r EXCEPT !.at = "entering", !.was = s]
<1>1. Sound(loop[k], pointer, autoSwitch)
      BY DEF LoopInv
<1>2. CASE LoopLaunch(k)
  <2>1. loop[k].hit.reason = "none" /\ Shaped(r) /\ r.hit.reason = "none" /\ ~r.moved
        BY <1>1, <1>2 DEF LoopLaunch, Sound, HitKnown, Shaped, LoopFields
  <2>2. ASSUME NEW s, pointer' = s, UNCHANGED <<rest, autoSwitch, away>>,
               IF s = pointer THEN loop' = [loop EXCEPT ![k] = went(s)] ELSE Told(k, went(s))
        PROVE  LoopInv'
    <3>1. Sound(went(s), s, autoSwitch)
          BY <2>1 DEF Sound, Shaped, LoopFields, PointerKnown, HitKnown
    <3>2. CASE s = pointer
          BY <2>2, <3>1, <3>2, AloneSound
    <3>3. CASE s # pointer
          BY <2>2, <3>1, <3>3, ToldSound
    <3> QED BY <3>2, <3>3
  <2>3. ASSUME Keep(k, [r EXCEPT !.at = "waiting", !.was = pointer]) PROVE LoopInv'
    <3>1. Sound([r EXCEPT !.at = "waiting", !.was = pointer], pointer, autoSwitch)
          BY <2>1 DEF Sound, Shaped, LoopFields, PointerKnown, HitKnown
    <3> QED BY <2>3, <3>1, KeepSound
  <2>4. ASSUME Keep(k, [r EXCEPT !.at = "ended"]) PROVE LoopInv'
    <3>1. Sound([r EXCEPT !.at = "ended"], pointer, autoSwitch)
          BY <2>1 DEF Sound, Shaped, LoopFields, PointerKnown, HitKnown
    <3> QED BY <2>4, <3>1, KeepSound
  <2> QED BY <1>2, <2>2, <2>3, <2>4 DEF LoopLaunch
<1>3. CASE LoopEnter(k)
  <2> DEFINE here == [loop[k] EXCEPT !.at = "running", !.next = NoPick, !.cold = FALSE, !.hit = NoHit,
       !.home = IF loop[k].next # NoPick THEN loop[k].next ELSE pointer,
       !.blocked = FALSE, !.due = TRUE, !.dirty = TRUE, !.handled = FALSE, !.logged = FALSE]
  <2>1. Keep(k, here) /\ loop[k].at = "entering"
        BY <1>3 DEF LoopEnter
  <2>2. /\ Shaped(here) /\ here.at = "running" /\ here.hit.reason = "none"
        /\ here.was = loop[k].was /\ here.moved = loop[k].moved
        BY <1>1 DEF Sound, Shaped, LoopFields, NoHit
  <2>3. Sound(here, pointer, autoSwitch)
        BY <1>1, <2>1, <2>2 DEF Sound, PointerKnown, HitKnown
  <2> QED BY <2>1, <2>3, KeepSound
<1> QED BY <1>2, <1>3

-----------------------------------------------------------------------------
\* A supervisor that files something and looks at a child that runs on.
LEMMA RunningIsSound ==
  ASSUME NEW k \in Loops, LoopInv, loop[k].at \in {"running", "probing", "judged"}
  PROVE  /\ Sound(loop[k], pointer, autoSwitch) /\ Shaped(loop[k])
         /\ ~loop[k].moved => pointer = loop[k].was
BY DEF LoopInv, Sound, PointerKnown

\* The signals of a running child.
LEMMA SignalSound ==
  ASSUME LoopInv, NEW k \in Loops,
         \/ \E reason \in {"limit", "auth"} : LoopBanner(k, reason)
         \/ HardBanner(k) \/ RevokedBanner(k) \/ Relogin(k)
         \/ \E source \in {"usage", "hard"} : LogLine(k, source)
  PROVE  LoopInv'
<1> DEFINE me == loop[k]
<1>1. ASSUME NEW reason \in {"limit", "auth"}, LoopBanner(k, reason) PROVE LoopInv'
  <2>1. me.at = "running" /\ Keep(k, [me EXCEPT !.at = "probing", !.hit.reason = reason])
        BY <1>1 DEF LoopBanner
  <2>2. Sound([me EXCEPT !.at = "probing", !.hit.reason = reason], pointer, autoSwitch)
        BY <2>1, RunningIsSound DEF Sound, Shaped, LoopFields, PointerKnown, HitKnown
  <2> QED BY <2>1, <2>2, KeepSound
<1>2. CASE HardBanner(k)
      BY <1>2, RunningIsSound, DecideLimitSound DEF HardBanner
<1>3. CASE RevokedBanner(k)
      BY <1>3, RunningIsSound, DecideDeadSound DEF RevokedBanner
<1>4. CASE Relogin(k)
  <2> DEFINE r == [me EXCEPT !.at = "stopping", !.was = pointer, !.moved = FALSE,
                     !.hit = [reason |-> "relogin", email |-> me.home, ticked |-> FALSE]]
  <2>1. me.at = "running" /\ Keep(k, r)
        BY <1>4 DEF Relogin
  <2>2. Sound(r, pointer, autoSwitch)
        BY <2>1, RunningIsSound DEF Sound, Shaped, LoopFields, PointerKnown, HitKnown
  <2> QED BY <2>1, <2>2, KeepSound
<1>5. ASSUME NEW source \in {"usage", "hard"}, LogLine(k, source) PROVE LoopInv'
  <2> DEFINE r == [me EXCEPT !.logged = TRUE]
  <2>1. Shaped(r) /\ Sound(r, pointer, autoSwitch)
        BY <1>5, RunningIsSound
           DEF LogLine, Sound, Shaped, LoopFields, PointerKnown, HitKnown
  <2>2. DecideLimit(k, r, source, TRUE) \/ Keep(k, r)
        BY <1>5 DEF LogLine
  <2> QED BY <2>1, <2>2, DecideLimitSound, KeepSound
<1> QED BY <1>1, <1>2, <1>3, <1>4, <1>5

\* The probe, the heartbeat and the child's own end.
LEMMA TickSound ==
  ASSUME LoopInv, NEW k \in Loops,
         Probed(k) \/ Judged(k) \/ TickState(k) \/ TickRecover(k) \/ ChildQuits(k)
  PROVE  LoopInv'
<1> DEFINE me == loop[k]
<1>1. CASE Probed(k)
  <2> DEFINE quiet == [Stays(me, FALSE) EXCEPT !.dirty = TRUE]
             judges(reason) == [me EXCEPT !.at = "judged", !.dirty = TRUE, !.hit.reason = reason]
  <2>1. /\ me.at = "probing" /\ Shaped(me) /\ Sound(me, pointer, autoSwitch)
        /\ ~me.moved => pointer = me.was
        BY <1>1, RunningIsSound DEF Probed
  <2>2. Sound(Stays(me, FALSE), pointer, autoSwitch)
        BY <2>1, StaysSound
  <2>3. Sound(quiet, pointer, autoSwitch)
        BY <2>2 DEF Sound, Shaped, LoopFields, PointerKnown, HitKnown
  <2>4. ASSUME NEW reason PROVE Sound(judges(reason), pointer, autoSwitch)
        BY <2>1 DEF Sound, Shaped, LoopFields, PointerKnown, HitKnown
  <2>5. /\ UNCHANGED <<pointer, autoSwitch>>
        /\ Told(k, quiet) \/ \E reason : Told(k, judges(reason))
        BY <1>1 DEF Probed
  <2> HIDE DEF quiet, judges
  <2> QED BY <2>3, <2>4, <2>5, ToldSound
<1>5. CASE Judged(k)
  <2>1. Shaped(me)
        BY <1>5, RunningIsSound DEF Judged
  <2> QED BY <1>5, <2>1, DecideLimitSound, DecideDeadSound DEF Judged
<1>2. CASE TickState(k)
  <2> DEFINE seen == [me EXCEPT !.dirty = FALSE, !.clicked = NoPick]
             r == [seen EXCEPT !.at = "stopping", !.was = pointer, !.moved = FALSE,
                    !.hit = [reason |-> "manual", email |-> pointer, ticked |-> FALSE]]
  <2>1. Shaped(seen) /\ Sound(seen, pointer, autoSwitch)
        BY <1>2, RunningIsSound
           DEF TickState, Sound, Shaped, LoopFields, PointerKnown, HitKnown
  <2>2. Shaped(r) /\ r.at = "stopping" /\ r.hit.reason = "manual"
        BY <2>1 DEF Shaped, LoopFields
  <2>3. Sound(r, pointer, autoSwitch)
        BY <2>2 DEF Sound, PointerKnown, HitKnown
  <2>4. Keep(k, r) \/ DecideLimit(k, seen, rest[me.home], TRUE) \/ Keep(k, seen)
        BY <1>2 DEF TickState
  <2> QED BY <2>1, <2>3, <2>4, KeepSound, DecideLimitSound
<1>3. CASE TickRecover(k)
  <2> DEFINE r == [me EXCEPT !.due = FALSE]
  <2>1. Shaped(me) /\ Sound(r, pointer, autoSwitch)
        BY <1>3, RunningIsSound
           DEF TickRecover, Sound, Shaped, LoopFields, PointerKnown, HitKnown
  <2>2. DecideLimit(k, me, rest[me.home], TRUE) \/ Keep(k, r)
        BY <1>3 DEF TickRecover
  <2> QED BY <2>1, <2>2, KeepSound, DecideLimitSound
<1>4. CASE ChildQuits(k)
  <2> DEFINE r == [me EXCEPT !.at = "ended", !.hit = NoHit]
             gone == [me EXCEPT !.gone = TRUE]
  <2>1. Shaped(gone) /\ Shaped(r) /\ r.at = "ended" /\ r.hit.reason = "none"
        BY <1>4, RunningIsSound DEF ChildQuits, Shaped, LoopFields, NoHit
  <2>2. Sound(r, pointer, autoSwitch)
        BY <2>1 DEF Sound, PointerKnown, HitKnown
  <2>3. Keep(k, r) \/ \E source \in {"usage", "hard"} : DecideLimit(k, gone, source, FALSE)
        BY <1>4 DEF ChildQuits
  <2> QED BY <2>1, <2>2, <2>3, KeepSound, DecideLimitSound
<1> QED BY <1>1, <1>2, <1>3, <1>4, <1>5

\* Between the decision and the stop.
LEMMA DecidedSound ==
  ASSUME LoopInv, NEW k \in Loops, Preflight(k) \/ Justify(k) \/ Undo(k)
  PROVE  LoopInv'
<1> DEFINE me == loop[k]
<1>1. Sound(me, pointer, autoSwitch)
      BY DEF LoopInv
<1>2. CASE Preflight(k)
  <2> DEFINE go(e) == [me EXCEPT !.at = "ready", !.hit.email = e]
             stop  == [me EXCEPT !.at = "undoing"]
  <2>1. /\ me.at = "approved" /\ UNCHANGED <<pointer, autoSwitch>>
        /\ (\E e : Told(k, go(e))) \/ Told(k, stop)
        BY <1>2 DEF Preflight
  <2>2. ASSUME NEW e, Told(k, go(e)) PROVE LoopInv'
    <3>1. /\ Shaped(go(e)) /\ go(e).at = "ready" /\ go(e).hit.reason = me.hit.reason
          /\ go(e).home = me.home /\ go(e).was = me.was /\ go(e).moved = me.moved
          BY <1>1 DEF Sound, Shaped, LoopFields
    <3>2. Sound(go(e), pointer', autoSwitch')
          BY <1>1, <2>1, <3>1 DEF Sound, PointerKnown, HitKnown
    <3> QED BY <2>2, <3>2, ToldSound
  <2>3. ASSUME Told(k, stop) PROVE LoopInv'
    <3>1. /\ Shaped(stop) /\ stop.at = "undoing"
          /\ stop.home = me.home /\ stop.was = me.was /\ stop.moved = me.moved
          BY <1>1 DEF Sound, Shaped, LoopFields
    <3>2. Sound(stop, pointer', autoSwitch')
          BY <1>1, <2>1, <3>1 DEF Sound, PointerKnown, HitKnown
    <3> QED BY <2>3, <3>2, ToldSound
  <2> QED BY <2>1, <2>2, <2>3
<1>3. CASE Justify(k)
  <2> DEFINE r == [me EXCEPT !.at = IF autoSwitch /\ Resumable(k) THEN "stopping" ELSE "undoing"]
  <2>1. me.at = "ready" /\ Keep(k, r)
        BY <1>3 DEF Justify
  <2>2. /\ Shaped(r) /\ r.at \in {"stopping", "undoing"} /\ r.hit = me.hit
        /\ r.home = me.home /\ r.was = me.was /\ r.moved = me.moved
        BY <1>1 DEF Sound, Shaped, LoopFields
  <2>3. Sound(r, pointer, autoSwitch)
        BY <1>1, <2>1, <2>2 DEF Sound, PointerKnown, HitKnown
  <2> QED BY <2>1, <2>3, KeepSound
<1>4. CASE Undo(k)
  <2> DEFINE r == Stays(me, me.hit.ticked)
  <2>1. /\ me.at = "undoing" /\ autoSwitch' = autoSwitch
        /\ pointer' = IF pointer = me.home THEN me.was ELSE pointer
        BY <1>4 DEF Undo
  <2>2. ~me.moved => pointer' = me.was
        BY <1>1, <2>1 DEF Sound, PointerKnown
  <2>3. Sound(r, pointer', autoSwitch')
        BY <1>1, <2>2, StaysSound DEF Sound
  <2>4. CASE pointer' # pointer
    <3>1. Told(k, [r EXCEPT !.dirty = TRUE])
          BY <1>4, <2>4 DEF Undo
    <3>2. Sound([r EXCEPT !.dirty = TRUE], pointer', autoSwitch')
          BY <2>3 DEF Sound, Shaped, LoopFields, PointerKnown, HitKnown
    <3> QED BY <3>1, <3>2, ToldSound
  <2>5. CASE pointer' = pointer
    <3>1. loop' = [loop EXCEPT ![k] = r]
          BY <1>4, <2>5 DEF Undo
    <3> QED BY <2>1, <2>3, <2>5, <3>1, AloneSound
  <2> QED BY <2>4, <2>5
<1> QED BY <1>2, <1>3, <1>4

\* After the stop: a hop that is committed starts the pointer's history anew; a stop for a
\* limit that is refused was overtaken.
LEMMA CommitSound ==
  ASSUME LoopInv, NEW k \in Loops, LoopCommit(k)
  PROVE  LoopInv'
<1> DEFINE me == loop[k]
           over == [me EXCEPT !.at = "entering", !.gone = FALSE, !.moved = FALSE]
<1>1. Sound(me, pointer, autoSwitch) /\ me.at = "stopping"
      BY DEF LoopInv, LoopCommit
<1>2. CASE me.hit.reason = "relogin"
  <2> DEFINE r == [over EXCEPT !.next = me.home, !.switches = @ + 1, !.was = pointer]
  <2>1. Keep(k, r)
        BY <1>2 DEF LoopCommit
  <2>2. Shaped(r) /\ r.at = "entering" /\ r.was = pointer
        BY <1>1 DEF Sound, Shaped, LoopFields
  <2>3. Sound(r, pointer, autoSwitch)
        BY <2>2 DEF Sound, PointerKnown, HitKnown
  <2> QED BY <2>1, <2>3, KeepSound
<1>3. CASE me.hit.reason = "manual"
  <2> DEFINE r == [over EXCEPT !.next = pointer, !.was = pointer]
  <2>1. Told(k, r) /\ UNCHANGED <<pointer, autoSwitch>>
        BY <1>3 DEF LoopCommit, loopStore
  <2>2. Shaped(r) /\ r.at = "entering" /\ r.was = pointer
        BY <1>1 DEF Sound, Shaped, LoopFields
  <2>3. Sound(r, pointer', autoSwitch')
        BY <2>1, <2>2 DEF Sound, PointerKnown, HitKnown
  <2> QED BY <2>1, <2>3, ToldSound
<1>4. CASE me.hit.reason \notin {"relogin", "manual"}
  <2>1. CASE ~autoSwitch \/ pointer # me.home
    <3> DEFINE r == [me EXCEPT !.at = "ended"]
    <3>1. Keep(k, r)
          BY <1>4, <2>1 DEF LoopCommit
    <3>2. Shaped(r) /\ r.at = "ended" /\ r.hit = me.hit /\ r.moved = me.moved
          BY <1>1 DEF Sound, Shaped, LoopFields
    <3>3. me.hit.reason = "limit" => me.moved
          BY <1>1, <2>1 DEF Sound, PointerKnown
    <3>4. Sound(r, pointer, autoSwitch)
          BY <3>2, <3>3 DEF Sound, PointerKnown, HitKnown
    <3> QED BY <3>1, <3>4, KeepSound
  <2>2. CASE autoSwitch /\ pointer = me.home
    <3> DEFINE e == me.hit.email
               r == [over EXCEPT !.next = e, !.switches = @ + 1, !.was = e]
    <3>1. Told(k, r) /\ pointer' = e
          BY <1>4, <2>2 DEF LoopCommit
    <3>2. Shaped(r) /\ r.at = "entering" /\ r.was = e
          BY <1>1 DEF Sound, Shaped, LoopFields
    <3>3. Sound(r, pointer', autoSwitch')
          BY <3>1, <3>2 DEF Sound, PointerKnown, HitKnown
    <3> QED BY <3>1, <3>3, ToldSound
  <2> QED BY <2>1, <2>2
<1> QED BY <1>2, <1>3, <1>4

\* A child that failed by itself, and the wait for a seat.
LEMMA WaitSound ==
  ASSUME LoopInv, NEW k \in Loops,
         Exhausted(k) \/ ExhaustedCommit(k) \/ BeginsWait(k) \/ Sweep(k) \/ Activate(k)
  PROVE  LoopInv'
<1> DEFINE me == loop[k]
<1>1. Sound(me, pointer, autoSwitch)
      BY DEF LoopInv
<1>2. CASE Exhausted(k)
  <2> DEFINE r == [me EXCEPT !.gone = TRUE, !.was = pointer, !.moved = FALSE]
             hop(e) == [r EXCEPT !.at = "exhausted",
                          !.hit = [reason |-> "exit", email |-> e, ticked |-> FALSE]]
             waits == [r EXCEPT !.at = "resting"]
             over  == [r EXCEPT !.at = "ended", !.hit = NoHit]
  <2>1. /\ me.at = "running" /\ UNCHANGED <<pointer, autoSwitch>>
        /\ (\E e : Told(k, hop(e))) \/ Told(k, waits) \/ Told(k, over)
        BY <1>2 DEF Exhausted
  <2>2. Shaped(r) /\ r.hit.reason = "none"
        BY <1>1, <2>1 DEF Sound, Shaped, LoopFields, HitKnown
  <2>3. Sound(waits, pointer', autoSwitch')
        BY <2>2 DEF Sound, Shaped, LoopFields, PointerKnown, HitKnown
  <2>4. Sound(over, pointer', autoSwitch')
        BY <2>2 DEF Sound, Shaped, LoopFields, PointerKnown, HitKnown, NoHit
  <2>5. ASSUME NEW e, Told(k, hop(e)) PROVE LoopInv'
    <3>1. Shaped(hop(e)) /\ hop(e).at = "exhausted" /\ hop(e).hit.reason = "exit"
          BY <2>2 DEF Shaped, LoopFields
    <3>2. Sound(hop(e), pointer', autoSwitch')
          BY <3>1 DEF Sound, PointerKnown, HitKnown
    <3> QED BY <2>5, <3>2, ToldSound
  <2> QED BY <2>1, <2>3, <2>4, <2>5, ToldSound
<1>3. CASE ExhaustedCommit(k)
  <2> DEFINE e == me.hit.email
             r == [me EXCEPT !.at = "entering", !.next = e, !.switches = @ + 1,
                           !.gone = FALSE, !.was = e, !.moved = FALSE]
             over == [me EXCEPT !.at = "ended"]
  <2>1. /\ me.at = "exhausted"
        /\ (pointer' = e /\ Told(k, r)) \/ Keep(k, over)
        BY <1>3 DEF ExhaustedCommit
  <2>2. Shaped(r) /\ r.at = "entering" /\ r.was = e
        BY <1>1 DEF Sound, Shaped, LoopFields
  <2>3. Shaped(over) /\ over.at = "ended" /\ over.hit.reason = "exit"
        BY <1>1, <2>1 DEF Sound, Shaped, LoopFields, HitKnown
  <2>4. ASSUME pointer' = e, Told(k, r) PROVE LoopInv'
    <3>1. Sound(r, pointer', autoSwitch')
          BY <2>2, <2>4 DEF Sound, PointerKnown, HitKnown
    <3> QED BY <2>4, <3>1, ToldSound
  <2>5. Sound(over, pointer, autoSwitch)
        BY <2>3 DEF Sound, PointerKnown, HitKnown
  <2> QED BY <2>1, <2>4, <2>5, KeepSound
<1>4. CASE BeginsWait(k)
  <2> DEFINE r == [me EXCEPT !.at = IF autoSwitch THEN "waiting" ELSE "ended"]
  <2>1. me.at = "resting" /\ Keep(k, r)
        BY <1>4 DEF BeginsWait
  <2>2. Shaped(r) /\ r.at \in {"waiting", "ended"} /\ r.hit.reason = "none"
        BY <1>1, <2>1 DEF Sound, Shaped, LoopFields, HitKnown
  <2>3. Sound(r, pointer, autoSwitch)
        BY <2>2 DEF Sound, PointerKnown, HitKnown
  <2> QED BY <2>1, <2>3, KeepSound
<1>5. CASE Sweep(k)
  <2> DEFINE lands(e) == [me EXCEPT !.at = "landed", !.hit.email = e]
             over == [me EXCEPT !.at = "ended", !.hit = NoHit]
  <2>1. /\ me.at = "waiting" /\ UNCHANGED <<pointer, autoSwitch>>
        /\ (\E e : Told(k, lands(e))) \/ Told(k, over) \/ Told(k, me)
        BY <1>5 DEF Sweep
  <2>2. me.hit.reason = "none"
        BY <1>1, <2>1 DEF Sound, HitKnown
  <2>3. Sound(over, pointer', autoSwitch')
        BY <1>1 DEF Sound, Shaped, LoopFields, PointerKnown, HitKnown, NoHit
  <2>4. ASSUME NEW e, Told(k, lands(e)) PROVE LoopInv'
    <3>1. Shaped(lands(e)) /\ lands(e).at = "landed" /\ lands(e).hit.reason = "none"
          BY <1>1, <2>2 DEF Sound, Shaped, LoopFields
    <3>2. Sound(lands(e), pointer', autoSwitch')
          BY <3>1 DEF Sound, PointerKnown, HitKnown
    <3> QED BY <2>4, <3>2, ToldSound
  <2> QED BY <1>1, <2>1, <2>3, <2>4, ToldSound
<1>6. CASE Activate(k)
  <2> DEFINE e == me.hit.email
             r == [me EXCEPT !.at = "entering", !.next = e, !.gone = FALSE, !.was = e,
                             !.moved = FALSE]
             over == [me EXCEPT !.at = "ended"]
  <2>1. /\ me.at = "landed"
        /\ (pointer' = e /\ Told(k, r)) \/ Keep(k, over)
        BY <1>6 DEF Activate
  <2>2. Shaped(r) /\ r.at = "entering" /\ r.was = e
        BY <1>1 DEF Sound, Shaped, LoopFields
  <2>3. Shaped(over) /\ over.at = "ended" /\ over.hit.reason = "none"
        BY <1>1, <2>1 DEF Sound, Shaped, LoopFields, HitKnown
  <2>4. ASSUME pointer' = e, Told(k, r) PROVE LoopInv'
    <3>1. Sound(r, pointer', autoSwitch')
          BY <2>2, <2>4 DEF Sound, PointerKnown, HitKnown
    <3> QED BY <2>4, <3>1, ToldSound
  <2>5. Sound(over, pointer, autoSwitch)
        BY <2>3 DEF Sound, PointerKnown, HitKnown
  <2> QED BY <2>1, <2>4, <2>5, KeepSound
<1> QED BY <1>2, <1>3, <1>4, <1>5, <1>6

-----------------------------------------------------------------------------
\* The invariant is one of every behaviour.
LEMMA LoopInvHolds == LoopSpec => []LoopInv
<1>1. LoopInit => LoopInv
      BY FreshIsSound DEF LoopInit, LoopFresh, LoopInv
<1>2. LoopInv /\ [LoopNext]_loopVars => LoopInv'
  <2> SUFFICES ASSUME LoopInv, [LoopNext]_loopVars PROVE LoopInv'
      OBVIOUS
  <2>1. CASE UNCHANGED loopVars
        BY <2>1 DEF loopVars, loopStore, LoopInv
  <2>2. CASE Acted \/ \E s \in LoopSeats : RestEnds(s) \/ LoopPoll(s)
        BY <2>2, WorldSound
  <2>3. ASSUME NEW k \in Loops,
               LoopLaunch(k) \/ BlockEnds(k) \/ Signal(k) \/ LoopTick(k) \/ Proceeds(k)
        PROVE  LoopInv'
        BY <2>3, WorldSound, LaunchSound, SignalSound, TickSound, DecidedSound, CommitSound,
           WaitSound DEF Signal, LoopTick, Proceeds
  <2> QED BY <2>1, <2>2, <2>3 DEF LoopNext
<1> QED BY <1>1, <1>2, PTL DEF LoopSpec

\* For any number of supervisors and seats, whoever clicks, polls and hops meanwhile: a child
\* that was stopped for its limit is carried on, unless somebody else has moved the pointer
\* or switched the setting (launcher.py:2402-2486, 3516-3558).
THEOREM LimitStops == LoopSpec => []LimitStopContinues
<1>1. LoopInv => LimitStopContinues
      BY DEF LoopInv, Sound, HitKnown, LimitStopContinues, Refused
<1> QED BY <1>1, LoopInvHolds, PTL

\* A pointer a decision borrowed is given back before its child runs on
\* (launcher.py:2478-2486).
THEOREM BorrowedIsReturned == LoopSpec => []BorrowedPointerIsReturned
<1>1. LoopInv => BorrowedPointerIsReturned
      BY DEF LoopInv, Sound, PointerKnown, BorrowedPointerIsReturned
<1> QED BY <1>1, LoopInvHolds, PTL

(*************************************************************************)
(* The restart budget. A supervisor counts the restarts it has           *)
(* committed, and looks at the count when it decides; the commit comes   *)
(* after other locks. What makes that safe is that a place between the   *)
(* two always has a restart left, and the seat it is to land on in hand. *)
(*************************************************************************)

Hits == [reason : Reasons, email : LoopSeats \cup {NoPick}, ticked : BOOLEAN]
LoopRecords ==
  [at : LoopPlaces, home : LoopSeats \cup {NoPick}, next : LoopSeats \cup {NoPick},
   switches : 0..MaxSwitches, known : BOOLEAN, failed : SUBSET LoopSeats,
   hit : Hits,
   blocked : BOOLEAN, due : BOOLEAN, dirty : BOOLEAN, clicked : LoopSeats \cup {NoPick},
   handled : BOOLEAN, logged : BOOLEAN, cold : BOOLEAN, gone : BOOLEAN,
   was : LoopSeats \cup {NoPick}, moved : BOOLEAN]

\* A child runs on a seat; a decision that may end in a restart has one left in the budget.
Budgeted(r) ==
  /\ r \in LoopRecords
  /\ r.at \notin {"off", "entering", "waiting", "landed", "ended"} => r.home \in LoopSeats
  /\ r.at \in {"approved", "ready", "stopping", "exhausted", "landed"} => r.hit.email \in LoopSeats
  /\ r.at \notin {"off", "ended"} => r.was \in LoopSeats
  /\ \/ r.at \in {"approved", "ready", "exhausted"}
     \/ r.at = "stopping" /\ r.hit.reason # "manual"
     => r.switches < MaxSwitches

StoreTyped ==
  /\ pointer \in LoopSeats /\ autoSwitch \in BOOLEAN
  /\ rest \in [LoopSeats -> Rests] /\ away \subseteq LoopSeats

LoopsTyped == loop \in [Loops -> LoopRecords] /\ \A k \in Loops : Budgeted(loop[k])

\* No decision, and every one there can be.
LEMMA HitTyped ==
  /\ NoHit \in Hits
  /\ \A reason \in Reasons, e \in LoopSeats \cup {NoPick}, ticked \in BOOLEAN :
       [reason |-> reason, email |-> e, ticked |-> ticked] \in Hits
BY DEF NoHit, Hits, Reasons

\* A supervisor that changes nothing but its own memory.
LEMMA AloneTyped ==
  ASSUME LoopsTyped, NEW k \in Loops, NEW r, Budgeted(r), loop' = [loop EXCEPT ![k] = r]
  PROVE  LoopsTyped'
BY DEF LoopsTyped, Budgeted

\* ... nor touches the store.
LEMMA KeepTyped ==
  ASSUME StoreTyped, LoopsTyped, NEW k \in Loops, NEW r, Budgeted(r), Keep(k, r)
  PROVE  StoreTyped' /\ LoopsTyped'
BY AloneTyped DEF Keep, loopStore, StoreTyped

\* A supervisor that hears of somebody else's write.
LEMMA HeardTyped ==
  ASSUME NEW r, Budgeted(r), NEW d \in BOOLEAN, NEW m \in BOOLEAN, NEW c \in LoopSeats \cup {NoPick}
  PROVE  /\ Budgeted([r EXCEPT !.dirty = d, !.moved = m])
         /\ Budgeted([r EXCEPT !.dirty = d, !.clicked = c, !.moved = m])
         /\ Budgeted([r EXCEPT !.dirty = d])
<1>1. Budgeted([r EXCEPT !.dirty = d, !.moved = m])
      BY ZenonT(30) DEF Budgeted, LoopRecords
<1>2. Budgeted([r EXCEPT !.dirty = d, !.clicked = c, !.moved = m])
  <2> DEFINE q == [r EXCEPT !.dirty = d, !.clicked = c, !.moved = m]
  <2>1. q \in LoopRecords
        BY DEF Budgeted, LoopRecords
  <2>2. /\ q.at = r.at /\ q.home = r.home /\ q.hit = r.hit /\ q.was = r.was
        /\ q.switches = r.switches
        BY DEF Budgeted, LoopRecords
  <2> HIDE DEF q
  <2>3. Budgeted(q)
        BY <2>1, <2>2 DEF Budgeted
  <2> QED BY <2>3 DEF q
<1>3. Budgeted([r EXCEPT !.dirty = d])
      BY DEF Budgeted, LoopRecords
<1> QED BY <1>1, <1>2, <1>3

\* A step of one supervisor that writes the store and tells the others.
LEMMA ToldTyped ==
  ASSUME LoopsTyped, NEW k \in Loops, NEW r, Budgeted(r), Told(k, r)
  PROVE  LoopsTyped'
<1> DEFINE heard(j) == [loop[j] EXCEPT !.dirty = TRUE,
                          !.moved = @ \/ pointer' # pointer \/ autoSwitch' # autoSwitch]
<1>1. ASSUME NEW j \in Loops PROVE Budgeted(heard(j))
  <2>1. Budgeted(loop[j]) /\ (loop[j].moved \/ pointer' # pointer \/ autoSwitch' # autoSwitch) \in BOOLEAN
        BY DEF LoopsTyped
  <2> QED BY <2>1, HeardTyped
<1>2. loop' = [j \in Loops |-> IF j = k THEN r ELSE heard(j)]
      BY DEF Told
<1> HIDE DEF heard
<1> QED BY <1>1, <1>2 DEF LoopsTyped, Budgeted

\* A decision that ends in no hop.
LEMMA StaysTyped ==
  ASSUME NEW r, Budgeted(r), NEW ticked \in BOOLEAN, r.home \in LoopSeats, r.was \in LoopSeats
  PROVE  Budgeted(Stays(r, ticked))
<1>1. CASE r.gone
      BY <1>1, HitTyped DEF Stays, Budgeted, LoopRecords, LoopPlaces
<1>2. CASE ~r.gone
  <2> DEFINE q == [r EXCEPT !.at = "running", !.handled = TRUE, !.hit = NoHit,
                     !.blocked = r.blocked \/ ticked, !.due = r.due /\ ~ticked]
  <2>1. (r.blocked \/ ticked) \in BOOLEAN /\ (r.due /\ ~ticked) \in BOOLEAN
        OBVIOUS
  <2>2. q \in LoopRecords
        BY <2>1, HitTyped, ZenonT(30) DEF Budgeted, LoopRecords, LoopPlaces
  <2>3. q.at = "running" /\ q.home = r.home /\ q.was = r.was
        BY DEF Budgeted, LoopRecords
  <2>4. Stays(r, ticked) = q
        BY <1>2 DEF Stays
  <2> HIDE DEF q
  <2> QED BY <2>2, <2>3, <2>4 DEF Budgeted
<1> QED BY <1>1, <1>2

\* What the usage endpoint answered has its type.
LEMMA AnsweredTyped ==
  ASSUME StoreTyped, NEW A, A \subseteq LoopSeats, Answered(A), pointer' \in LoopSeats,
         autoSwitch' \in BOOLEAN
  PROVE  StoreTyped'
BY DEF StoreTyped, Answered, Rests

\* A supervisor whose child runs on a seat, seen by a decision.
BilledTo(r) == Budgeted(r) /\ r.home \in LoopSeats

\* A decision on a limit, wherever it is called from.
LEMMA DecideLimitTyped ==
  ASSUME StoreTyped, LoopsTyped, NEW k \in Loops, NEW r, BilledTo(r), r.at \in {"running", "judged"},
         NEW source \in Rests, NEW ticked \in BOOLEAN, DecideLimit(k, r, source, ticked)
  PROVE  StoreTyped' /\ LoopsTyped'
<1> DEFINE here == [Begun(r) EXCEPT !.dirty = TRUE]
           landings == Usable(r.failed \cup {r.home})
           approved == autoSwitch /\ landings # {} /\ r.switches < MaxSwitches
           hop(e) == [here EXCEPT !.at = IF source = "hard" THEN "approved" ELSE "ready",
                          !.hit = [reason |-> "limit", email |-> e, ticked |-> ticked]]
<1>1. /\ Budgeted(here) /\ here.home = r.home /\ here.was = pointer /\ here.switches = r.switches
      /\ here.home \in LoopSeats /\ here.was \in LoopSeats
      BY DEF Begun, Budgeted, BilledTo, LoopRecords, StoreTyped
<1>2. /\ Stamp(r.home, source) /\ UNCHANGED <<autoSwitch, away>>
      /\ pointer' = IF approved THEN r.home ELSE pointer
      /\ IF ~approved THEN Told(k, Stays(here, ticked)) ELSE \E e \in landings : Told(k, hop(e))
      BY DEF DecideLimit
<1>3. StoreTyped'
      BY <1>2 DEF StoreTyped, Stamp, BilledTo
<1>4. ASSUME NEW e \in landings, r.switches < MaxSwitches PROVE Budgeted(hop(e))
  <2>1. e \in LoopSeats
        BY DEF Usable, Free
  <2> HIDE DEF here
  <2> QED BY <1>1, <1>4, <2>1, ZenonT(30) DEF Budgeted, LoopRecords, Hits, LoopPlaces, Reasons
<1>5. Budgeted(Stays(here, ticked))
      BY <1>1, StaysTyped
<1> HIDE DEF here, hop, landings
<1>6. LoopsTyped'
      BY <1>2, <1>4, <1>5, ToldTyped
<1> QED BY <1>3, <1>6

\* A decision on dead credentials.
LEMMA DecideDeadTyped ==
  ASSUME StoreTyped, LoopsTyped, NEW k \in Loops, NEW r, BilledTo(r), r.at \in {"running", "judged"},
         NEW files \in BOOLEAN, NEW lends \in BOOLEAN, DecideDead(k, r, files, lends)
  PROVE  StoreTyped' /\ LoopsTyped'
<1> DEFINE failed == r.failed \cup {r.home}
           landings == Usable(failed)
           approved == autoSwitch /\ landings # {} /\ r.switches < MaxSwitches
           saves == files \/ (~approved /\ pointer # r.home)
           here == [Begun(r) EXCEPT !.failed = failed, !.dirty = @ \/ saves]
           hop(e) == [here EXCEPT !.at = "ready",
                        !.hit = [reason |-> "auth", email |-> e, ticked |-> FALSE]]
           Write(to) == IF saves THEN Told(k, to) ELSE loop' = [loop EXCEPT ![k] = to]
<1>1. /\ Budgeted(here) /\ here.home = r.home /\ here.was = pointer /\ here.switches = r.switches
      /\ here.home \in LoopSeats /\ here.was \in LoopSeats
  <2>1. failed \subseteq LoopSeats /\ (r.dirty \/ saves) \in BOOLEAN
        BY DEF BilledTo, Budgeted, LoopRecords
  <2> HIDE DEF failed, saves
  <2> QED BY <2>1 DEF Begun, Budgeted, BilledTo, LoopRecords, StoreTyped
<1>2. /\ away' = IF files THEN away \cup {r.home} ELSE away
      /\ pointer' = (IF approved /\ lends THEN r.home ELSE pointer)
      /\ UNCHANGED <<rest, autoSwitch>>
      /\ IF ~approved THEN Write(Stays(here, FALSE)) ELSE \E e \in landings : Write(hop(e))
      BY DEF DecideDead
<1>3. StoreTyped'
      BY <1>2 DEF StoreTyped, BilledTo
<1>4. ASSUME NEW e \in landings, r.switches < MaxSwitches PROVE Budgeted(hop(e))
  <2>1. e \in LoopSeats
        BY DEF Usable, Free
  <2> HIDE DEF here
  <2> QED BY <1>1, <1>4, <2>1, ZenonT(30) DEF Budgeted, LoopRecords, Hits, LoopPlaces, Reasons
<1>5. Budgeted(Stays(here, FALSE))
      BY <1>1, StaysTyped
<1>6. ASSUME NEW to, Budgeted(to), Write(to) PROVE LoopsTyped'
      BY <1>6, ToldTyped, AloneTyped
<1> HIDE DEF here, hop, landings, Write
<1>7. LoopsTyped'
      BY <1>2, <1>4, <1>5, <1>6
<1> QED BY <1>3, <1>7

-----------------------------------------------------------------------------
\* The user, the provider, the clock and the polls.
LEMMA WorldTyped ==
  ASSUME StoreTyped, LoopsTyped,
         \/ Acted \/ \E s \in LoopSeats : RestEnds(s) \/ LoopPoll(s)
         \/ \E k \in Loops : BlockEnds(k) \/ Identified(k)
  PROVE  StoreTyped' /\ LoopsTyped'
<1>1. ASSUME NEW s \in LoopSeats, LoopClick(s) PROVE StoreTyped' /\ LoopsTyped'
  <2>1. \A j \in Loops : Budgeted([loop[j] EXCEPT !.dirty = TRUE, !.clicked = s, !.moved = TRUE])
        BY HeardTyped DEF LoopsTyped
  <2> QED BY <1>1, <2>1 DEF LoopClick, LoopsTyped, StoreTyped, Budgeted
<1>2. ASSUME LoopToggle PROVE StoreTyped' /\ LoopsTyped'
  <2>1. \A j \in Loops : Budgeted([loop[j] EXCEPT !.dirty = TRUE, !.moved = TRUE])
        BY HeardTyped DEF LoopsTyped
  <2> QED BY <1>2, <2>1 DEF LoopToggle, LoopsTyped, StoreTyped, Budgeted
<1>3. ASSUME NEW s \in LoopSeats, LoopPoll(s) PROVE StoreTyped' /\ LoopsTyped'
  <2>1. \A j \in Loops : Budgeted([loop[j] EXCEPT !.dirty = TRUE])
        BY HeardTyped DEF LoopsTyped
  <2>2. StoreTyped'
        BY <1>3, AnsweredTyped DEF LoopPoll, StoreTyped
  <2> QED BY <1>3, <2>1, <2>2 DEF LoopPoll, LoopsTyped, Budgeted
<1>4. ASSUME NEW s \in LoopSeats, Quota(s) \/ Bar(s) \/ RestEnds(s) PROVE StoreTyped' /\ LoopsTyped'
      BY <1>4 DEF Quota, Bar, RestEnds, LoopsTyped, loopStore, StoreTyped, Rests
<1>5. ASSUME NEW k \in Loops, BlockEnds(k) \/ Identified(k) PROVE StoreTyped' /\ LoopsTyped'
  <2>1. /\ Budgeted([loop[k] EXCEPT !.due = TRUE]) /\ Budgeted([loop[k] EXCEPT !.known = TRUE])
        BY ZenonT(30) DEF LoopsTyped, Budgeted, LoopRecords
  <2> QED BY <1>5, <2>1, KeepTyped DEF BlockEnds, Identified
<1> QED BY <1>1, <1>2, <1>3, <1>4, <1>5, SMTT(30) DEF Acted

\* A launch, and every child's start.
LEMMA LaunchTyped ==
  ASSUME StoreTyped, LoopsTyped, NEW k \in Loops, LoopLaunch(k) \/ LoopEnter(k)
  PROVE  StoreTyped' /\ LoopsTyped'
<1> DEFINE me == loop[k]
           r == [me EXCEPT !.moved = FALSE]
           went(s) == [r EXCEPT !.at = "entering", !.was = s]
           waits == [r EXCEPT !.at = "waiting", !.was = pointer]
           over == [r EXCEPT !.at = "ended"]
<1>1. Budgeted(me) /\ r \in LoopRecords
      BY ZenonT(30) DEF LoopsTyped, Budgeted, LoopRecords
<1>2. CASE LoopLaunch(k)
  <2>1. \A s \in LoopSeats : Budgeted(went(s))
        BY <1>1, ZenonT(30) DEF Budgeted, LoopRecords, LoopPlaces
  <2>2. Budgeted(waits)
    <3> HIDE DEF r
    <3>1. pointer \in LoopSeats /\ waits \in LoopRecords
          BY <1>1 DEF LoopRecords, LoopPlaces, StoreTyped
    <3>2. waits.at = "waiting" /\ waits.was = pointer
          BY <1>1 DEF LoopRecords
    <3> HIDE DEF waits
    <3> QED BY <3>1, <3>2 DEF Budgeted
  <2>3. Budgeted(over)
    <3> HIDE DEF r
    <3> QED BY <1>1 DEF Budgeted, LoopRecords, LoopPlaces
  <2>4. \/ \E s \in Usable({}) :
             /\ pointer' = s /\ UNCHANGED <<rest, autoSwitch, away>>
             /\ IF s = pointer THEN loop' = [loop EXCEPT ![k] = went(s)] ELSE Told(k, went(s))
        \/ Keep(k, waits) \/ Keep(k, over)
        BY <1>2 DEF LoopLaunch
  <2> HIDE DEF went, waits, over
  <2>5. ASSUME NEW s \in Usable({}), pointer' = s, UNCHANGED <<rest, autoSwitch, away>>,
               loop' = [loop EXCEPT ![k] = went(s)] \/ Told(k, went(s))
        PROVE  StoreTyped' /\ LoopsTyped'
    <3>1. s \in LoopSeats
          BY DEF Usable, Free
    <3>2. StoreTyped'
          BY <2>5, <3>1 DEF StoreTyped
    <3> QED BY <2>1, <2>5, <3>1, <3>2, AloneTyped, ToldTyped
  <2> QED BY <2>2, <2>3, <2>4, <2>5, KeepTyped
<1>3. CASE LoopEnter(k)
  <2> DEFINE here == [me EXCEPT !.at = "running", !.next = NoPick, !.cold = FALSE, !.hit = NoHit,
       !.home = IF me.next # NoPick THEN me.next ELSE pointer,
       !.blocked = FALSE, !.due = TRUE, !.dirty = TRUE, !.handled = FALSE, !.logged = FALSE]
  <2>1. me.at = "entering" /\ Keep(k, here)
        BY <1>3 DEF LoopEnter
  <2>2. (IF me.next # NoPick THEN me.next ELSE pointer) \in LoopSeats /\ me.was \in LoopSeats
        BY <1>1, <2>1 DEF Budgeted, LoopRecords, StoreTyped
  <2>3. here \in LoopRecords
    <3> DEFINE seat == IF me.next # NoPick THEN me.next ELSE pointer
               mid == [me EXCEPT !.at = "running", !.next = NoPick, !.cold = FALSE, !.hit = NoHit,
                                 !.home = seat]
    <3>1. seat \in LoopSeats
          BY <2>2
    <3> HIDE DEF seat
    <3>2. mid \in LoopRecords
          BY <1>1, <3>1, HitTyped DEF Budgeted, LoopRecords, LoopPlaces
    <3>3. here = [mid EXCEPT !.blocked = FALSE, !.due = TRUE, !.dirty = TRUE, !.handled = FALSE,
                             !.logged = FALSE]
          BY <1>1 DEF seat, Budgeted, LoopRecords
    <3> HIDE DEF mid, here
    <3> QED BY <3>2, <3>3 DEF LoopRecords
  <2>4. here.at = "running" /\ here.home \in LoopSeats /\ here.was \in LoopSeats
        BY <1>1, <2>2 DEF Budgeted, LoopRecords
  <2> HIDE DEF here
  <2>5. Budgeted(here)
        BY <2>3, <2>4 DEF Budgeted
  <2> QED BY <2>1, <2>5, KeepTyped
<1> QED BY <1>2, <1>3

-----------------------------------------------------------------------------
\* A supervisor that looks at its child.
LEMMA RunningTyped ==
  ASSUME LoopsTyped, NEW k \in Loops, loop[k].at \in {"running", "probing", "judged"}
  PROVE  BilledTo(loop[k]) /\ loop[k].was \in LoopSeats
BY DEF LoopsTyped, Budgeted, BilledTo

\* The signals of a running child.
LEMMA SignalTyped ==
  ASSUME StoreTyped, LoopsTyped, NEW k \in Loops,
         \/ \E reason \in {"limit", "auth"} : LoopBanner(k, reason)
         \/ HardBanner(k) \/ RevokedBanner(k) \/ Relogin(k)
         \/ \E source \in {"usage", "hard"} : LogLine(k, source)
  PROVE  StoreTyped' /\ LoopsTyped'
<1> DEFINE me == loop[k]
<1> USE DEF Rests
<1>1. me.at = "running" /\ BilledTo(me) /\ me.was \in LoopSeats
      BY RunningTyped DEF LoopBanner, HardBanner, RevokedBanner, Relogin, LogLine
<1>2. ASSUME NEW reason \in {"limit", "auth"}, LoopBanner(k, reason) PROVE StoreTyped' /\ LoopsTyped'
  <2>1. Budgeted([me EXCEPT !.at = "probing", !.hit.reason = reason])
        BY <1>1 DEF BilledTo, Budgeted, LoopRecords, Hits, LoopPlaces, Reasons
  <2> QED BY <1>2, <2>1, KeepTyped DEF LoopBanner
<1>3. CASE HardBanner(k)
      BY <1>1, <1>3, DecideLimitTyped DEF HardBanner
<1>4. CASE RevokedBanner(k)
      BY <1>1, <1>4, DecideDeadTyped DEF RevokedBanner
<1>5. CASE Relogin(k)
  <2> DEFINE r == [me EXCEPT !.at = "stopping", !.was = pointer, !.moved = FALSE,
                     !.hit = [reason |-> "relogin", email |-> me.home, ticked |-> FALSE]]
  <2>1. Keep(k, r) /\ me.switches < MaxSwitches
        BY <1>5 DEF Relogin
  <2>2. Budgeted(r)
        BY <1>1, <2>1, ZenonT(30) DEF BilledTo, Budgeted, LoopRecords, Hits, LoopPlaces, Reasons, StoreTyped
  <2> QED BY <2>1, <2>2, KeepTyped
<1>6. ASSUME NEW source \in {"usage", "hard"}, LogLine(k, source) PROVE StoreTyped' /\ LoopsTyped'
  <2> DEFINE r == [me EXCEPT !.logged = TRUE]
  <2>1. BilledTo(r) /\ r.at = "running"
        BY <1>1 DEF BilledTo, Budgeted, LoopRecords
  <2>2. DecideLimit(k, r, source, TRUE) \/ Keep(k, r)
        BY <1>6 DEF LogLine
  <2> HIDE DEF r
  <2> QED BY <2>1, <2>2, DecideLimitTyped, KeepTyped DEF BilledTo
<1> QED BY <1>2, <1>3, <1>4, <1>5, <1>6

\* The probe, the heartbeat and the child's own end.
LEMMA TickTyped ==
  ASSUME StoreTyped, LoopsTyped, NEW k \in Loops,
         Probed(k) \/ Judged(k) \/ TickState(k) \/ TickRecover(k) \/ ChildQuits(k)
  PROVE  StoreTyped' /\ LoopsTyped'
<1> DEFINE me == loop[k]
<1>1. me.at \in {"running", "probing", "judged"} /\ BilledTo(me) /\ me.was \in LoopSeats
      BY RunningTyped DEF Probed, Judged, TickState, TickRecover, ChildQuits
<1>2. CASE Probed(k)
  <2> DEFINE stays == Stays(me, FALSE)
             quiet == [stays EXCEPT !.dirty = TRUE]
             judges(reason) == [me EXCEPT !.at = "judged", !.dirty = TRUE, !.hit.reason = reason]
  <2>1. Budgeted(stays)
        BY <1>1, StaysTyped DEF BilledTo
  <2>2. ASSUME NEW reason \in {"limit", "auth"} PROVE Budgeted(judges(reason))
    <3>1. judges(reason) \in LoopRecords
          BY <1>1 DEF BilledTo, Budgeted, LoopRecords, Hits, LoopPlaces, Reasons
    <3>2. /\ judges(reason).at = "judged" /\ judges(reason).home = me.home
          /\ judges(reason).was = me.was
          BY <1>1 DEF BilledTo, Budgeted, LoopRecords
    <3> HIDE DEF judges
    <3> QED BY <1>1, <3>1, <3>2 DEF BilledTo, Budgeted
  <2>3. /\ UNCHANGED <<pointer, autoSwitch>>
        /\ \/ Answered({me.home})
           \/ UNCHANGED away /\ rest' = [rest EXCEPT ![me.home] = IF @ = "usage" THEN "free" ELSE @]
           \/ UNCHANGED <<rest, away>>
        /\ Told(k, quiet) \/ \E reason \in {"limit", "auth"} : Told(k, judges(reason))
        BY <1>2 DEF Probed
  <2> HIDE DEF judges, stays
  <2>4. StoreTyped'
    <3>1. CASE Answered({me.home})
          BY <1>1, <2>3, <3>1, AnsweredTyped DEF BilledTo, StoreTyped
    <3>2. CASE ~Answered({me.home})
          BY <1>1, <2>3, <3>2 DEF BilledTo, StoreTyped, Rests
    <3> QED BY <3>1, <3>2
  <2>5. Budgeted(quiet)
        BY <2>1, HeardTyped
  <2> HIDE DEF quiet
  <2> QED BY <2>2, <2>3, <2>4, <2>5, ToldTyped
<1>6. CASE Judged(k)
  <2>1. me.at = "judged"
        BY <1>6 DEF Judged
  <2>2. CASE DecideLimit(k, me, "reactive", FALSE)
        BY <1>1, <2>1, <2>2, DecideLimitTyped DEF Rests
  <2>3. CASE DecideDead(k, me, FALSE, FALSE)
        BY <1>1, <2>1, <2>3, DecideDeadTyped
  <2> QED BY <1>6, <2>2, <2>3 DEF Judged
<1>3. CASE TickState(k)
  <2> DEFINE seen == [me EXCEPT !.dirty = FALSE, !.clicked = NoPick]
             r == [seen EXCEPT !.at = "stopping", !.was = pointer, !.moved = FALSE,
                    !.hit = [reason |-> "manual", email |-> pointer, ticked |-> FALSE]]
  <2>1. /\ me.at = "running"
        /\ Keep(k, r) \/ Keep(k, seen)
           \/ (rest[me.home] \in {"usage", "hard"} /\ DecideLimit(k, seen, rest[me.home], TRUE))
        BY <1>3 DEF TickState, Stuck
  <2>2. BilledTo(seen) /\ seen.at = "running"
        BY <1>1, <2>1 DEF BilledTo, Budgeted, LoopRecords
  <2>3. Budgeted(r)
    <3> DEFINE hit == [reason |-> "manual", email |-> pointer, ticked |-> FALSE]
    <3>1. hit \in Hits /\ hit.reason = "manual" /\ hit.email \in LoopSeats
          BY HitTyped DEF StoreTyped, Reasons
    <3> HIDE DEF hit
    <3>2. [seen EXCEPT !.at = "stopping", !.was = pointer, !.moved = FALSE, !.hit = hit]
            \in LoopRecords
          BY <2>2, <3>1 DEF BilledTo, Budgeted, LoopRecords, LoopPlaces, StoreTyped
    <3>3. r.at = "stopping" /\ r.hit = hit /\ r.home \in LoopSeats /\ r.was \in LoopSeats
          BY <2>2 DEF BilledTo, Budgeted, LoopRecords, StoreTyped, hit
    <3>4. r \in LoopRecords
          BY <3>2 DEF hit
    <3> HIDE DEF r
    <3> QED BY <3>1, <3>3, <3>4 DEF Budgeted
  <2> HIDE DEF seen, r
  <2>4. ASSUME rest[me.home] \in {"usage", "hard"}, DecideLimit(k, seen, rest[me.home], TRUE)
        PROVE  StoreTyped' /\ LoopsTyped'
        BY <2>2, <2>4, DecideLimitTyped DEF Rests
  <2> QED BY <2>1, <2>2, <2>3, <2>4, KeepTyped DEF BilledTo
<1>4. CASE TickRecover(k)
  <2> DEFINE r == [me EXCEPT !.due = FALSE]
  <2>1. Budgeted(r)
        BY <1>1 DEF BilledTo, Budgeted, LoopRecords
  <2>2. /\ me.at = "running"
        /\ \/ Keep(k, r)
           \/ rest[me.home] \in {"usage", "hard"} /\ DecideLimit(k, me, rest[me.home], TRUE)
        BY <1>4 DEF TickRecover, Stuck
  <2> HIDE DEF r
  <2>3. ASSUME rest[me.home] \in {"usage", "hard"}, DecideLimit(k, me, rest[me.home], TRUE)
        PROVE  StoreTyped' /\ LoopsTyped'
        BY <1>1, <2>2, <2>3, DecideLimitTyped DEF Rests
  <2> QED BY <2>1, <2>2, <2>3, KeepTyped
<1>5. CASE ChildQuits(k)
  <2> DEFINE r == [me EXCEPT !.at = "ended", !.hit = NoHit]
             gone == [me EXCEPT !.gone = TRUE]
  <2>1. Budgeted(r)
        BY <1>1, HitTyped DEF BilledTo, Budgeted, LoopRecords, LoopPlaces
  <2>2. BilledTo(gone) /\ gone.at = "running"
        BY <1>1, <1>5 DEF ChildQuits, BilledTo, Budgeted, LoopRecords
  <2>3. Keep(k, r) \/ \E source \in {"usage", "hard"} : DecideLimit(k, gone, source, FALSE)
        BY <1>5 DEF ChildQuits
  <2> HIDE DEF r, gone
  <2>4. ASSUME NEW source \in {"usage", "hard"}, DecideLimit(k, gone, source, FALSE)
        PROVE  StoreTyped' /\ LoopsTyped'
        BY <2>2, <2>4, DecideLimitTyped DEF Rests
  <2> QED BY <2>1, <2>3, <2>4, KeepTyped
<1> QED BY <1>2, <1>3, <1>4, <1>5, <1>6

-----------------------------------------------------------------------------
\* Between the decision and the stop.
LEMMA DecidedTyped ==
  ASSUME StoreTyped, LoopsTyped, NEW k \in Loops, Preflight(k) \/ Justify(k) \/ Undo(k)
  PROVE  StoreTyped' /\ LoopsTyped'
<1> DEFINE me == loop[k]
<1>1. Budgeted(me)
      BY DEF LoopsTyped
<1>2. CASE Preflight(k)
  <2> DEFINE go(e) == [me EXCEPT !.at = "ready", !.hit.email = e]
             stop  == [me EXCEPT !.at = "undoing"]
             skip == me.failed \cup {me.home}
  <2>1. /\ me.at = "approved" /\ UNCHANGED <<pointer, autoSwitch>>
        /\ \E A \in SUBSET (LoopSeats \ skip) : Answered(A)
        /\ (\E e \in UsableNow(skip) : Told(k, go(e))) \/ Told(k, stop)
        BY <1>2 DEF Preflight
  <2>2. StoreTyped'
        BY <2>1, AnsweredTyped DEF StoreTyped
  <2>3. ASSUME NEW e \in LoopSeats PROVE Budgeted(go(e))
    <3>1. go(e) \in LoopRecords
          BY <1>1 DEF Budgeted, LoopRecords, LoopPlaces, Hits
    <3>2. /\ go(e).at = "ready" /\ go(e).home = me.home /\ go(e).hit.email = e
          /\ go(e).was = me.was /\ go(e).switches = me.switches
          BY <1>1 DEF Budgeted, LoopRecords, Hits
    <3> HIDE DEF go
    <3> QED BY <1>1, <2>1, <3>1, <3>2 DEF Budgeted
  <2>4. Budgeted(stop)
        BY <1>1, <2>1 DEF Budgeted, LoopRecords, LoopPlaces
  <2>5. UsableNow(skip) \subseteq LoopSeats
        BY DEF UsableNow, Free
  <2> HIDE DEF go, stop, skip
  <2> QED BY <2>1, <2>2, <2>3, <2>4, <2>5, ToldTyped
<1>3. CASE Justify(k)
  <2> DEFINE r == [me EXCEPT !.at = IF autoSwitch /\ Resumable(k) THEN "stopping" ELSE "undoing"]
  <2>1. me.at = "ready" /\ Keep(k, r)
        BY <1>3 DEF Justify
  <2>2. Budgeted(r)
        BY <1>1, <2>1 DEF Budgeted, LoopRecords, LoopPlaces
  <2> QED BY <2>1, <2>2, KeepTyped
<1>4. CASE Undo(k)
  <2> DEFINE r == Stays(me, me.hit.ticked)
             told == [r EXCEPT !.dirty = TRUE]
  <2>1. /\ me.at = "undoing" /\ UNCHANGED <<rest, autoSwitch, away>>
        /\ pointer' = IF pointer = me.home THEN me.was ELSE pointer
        /\ Told(k, told) \/ loop' = [loop EXCEPT ![k] = r]
        BY <1>4 DEF Undo
  <2>2. me.home \in LoopSeats /\ me.was \in LoopSeats /\ me.hit.ticked \in BOOLEAN
        BY <1>1, <2>1 DEF Budgeted, LoopRecords, Hits
  <2>3. StoreTyped'
        BY <2>1, <2>2 DEF StoreTyped
  <2>4. Budgeted(r)
        BY <1>1, <2>2, StaysTyped
  <2> HIDE DEF r
  <2>5. Budgeted(told)
        BY <2>4, HeardTyped
  <2> HIDE DEF told
  <2> QED BY <2>1, <2>3, <2>4, <2>5, ToldTyped, AloneTyped
<1> QED BY <1>2, <1>3, <1>4

\* A restart that is committed: it leaves one less.
LEMMA SpentTyped ==
  ASSUME NEW r \in LoopRecords, r.switches < MaxSwitches, NEW e \in LoopSeats, NEW s \in LoopSeats
  PROVE  Budgeted([r EXCEPT !.at = "entering", !.gone = FALSE, !.moved = FALSE, !.next = e,
                            !.switches = r.switches + 1, !.was = s])
<1> DEFINE more == r.switches + 1
           q == [r EXCEPT !.at = "entering", !.gone = FALSE, !.moved = FALSE, !.next = e,
                          !.switches = more, !.was = s]
<1>1. more \in 0..MaxSwitches
      BY LoopBounds DEF LoopRecords
<1> HIDE DEF more
<1>2. q \in LoopRecords
      BY <1>1 DEF LoopRecords, LoopPlaces
<1>3. q.at = "entering" /\ q.was \in LoopSeats
      BY DEF LoopRecords
<1> HIDE DEF q
<1>4. Budgeted(q)
      BY <1>2, <1>3 DEF Budgeted
<1> QED BY <1>4 DEF q, more

\* After the stop: the restart was in the budget when it was decided, and is one of it.
LEMMA CommitTyped ==
  ASSUME StoreTyped, LoopsTyped, NEW k \in Loops, LoopCommit(k)
  PROVE  StoreTyped' /\ LoopsTyped'
<1> DEFINE me == loop[k]
           over == [me EXCEPT !.at = "entering", !.gone = FALSE, !.moved = FALSE]
           again == [over EXCEPT !.next = me.home, !.switches = @ + 1, !.was = pointer]
           click == [over EXCEPT !.next = pointer, !.was = pointer]
           hop == [over EXCEPT !.next = me.hit.email, !.switches = @ + 1, !.was = me.hit.email]
           ends == [me EXCEPT !.at = "ended"]
<1> USE LoopBounds
<1>1. Budgeted(me) /\ me.at = "stopping" /\ me.home \in LoopSeats /\ me.hit.email \in LoopSeats
      BY DEF LoopsTyped, LoopCommit, Budgeted
<1>2. Budgeted(ends) /\ Budgeted(click)
      BY <1>1, ZenonT(30) DEF Budgeted, LoopRecords, LoopPlaces, StoreTyped
<1>3. ASSUME me.hit.reason # "manual", NEW e \in LoopSeats, NEW s \in LoopSeats
      PROVE  Budgeted([over EXCEPT !.next = e, !.switches = @ + 1, !.was = s])
  <2>1. me \in LoopRecords /\ me.switches < MaxSwitches
        BY <1>1, <1>3 DEF Budgeted
  <2>2. [over EXCEPT !.next = e, !.switches = @ + 1, !.was = s]
          = [me EXCEPT !.at = "entering", !.gone = FALSE, !.moved = FALSE, !.next = e,
                       !.switches = me.switches + 1, !.was = s]
        BY <2>1 DEF LoopRecords
  <2> QED BY <2>1, <2>2, SpentTyped
<1>4. me.hit.reason # "manual" => Budgeted(again) /\ Budgeted(hop)
      BY <1>1, <1>3 DEF StoreTyped
<1>5. \/ me.hit.reason # "manual" /\ Keep(k, again)
      \/ UNCHANGED loopStore /\ Told(k, click)
      \/ Keep(k, ends)
      \/ /\ me.hit.reason # "manual" /\ pointer' = me.hit.email
         /\ UNCHANGED <<rest, autoSwitch, away>> /\ Told(k, hop)
      BY DEF LoopCommit
<1> HIDE DEF again, click, hop, ends
<1>6. ASSUME UNCHANGED loopStore, Told(k, click) PROVE StoreTyped' /\ LoopsTyped'
      BY <1>2, <1>6, ToldTyped DEF StoreTyped, loopStore
<1>7. ASSUME me.hit.reason # "manual", pointer' = me.hit.email,
             UNCHANGED <<rest, autoSwitch, away>>, Told(k, hop)
      PROVE  StoreTyped' /\ LoopsTyped'
      BY <1>1, <1>4, <1>7, ToldTyped DEF StoreTyped
<1> QED BY <1>2, <1>4, <1>5, <1>6, <1>7, KeepTyped

\* A child that failed by itself, and the wait for a seat.
LEMMA WaitTyped ==
  ASSUME StoreTyped, LoopsTyped, NEW k \in Loops,
         Exhausted(k) \/ ExhaustedCommit(k) \/ BeginsWait(k) \/ Sweep(k) \/ Activate(k)
  PROVE  StoreTyped' /\ LoopsTyped'
<1> DEFINE me == loop[k]
<1> USE LoopBounds
<1>1. Budgeted(me)
      BY DEF LoopsTyped
<1>2. CASE Exhausted(k)
  <2> DEFINE r == [me EXCEPT !.gone = TRUE, !.was = pointer, !.moved = FALSE]
             hop(e) == [r EXCEPT !.at = "exhausted",
                          !.hit = [reason |-> "exit", email |-> e, ticked |-> FALSE]]
             waits == [r EXCEPT !.at = "resting"]
             over  == [r EXCEPT !.at = "ended", !.hit = NoHit]
             skip == me.failed \cup ({me.home} \cap barred)
  <2>1. /\ me.at = "running" /\ UNCHANGED <<pointer, autoSwitch>> /\ me.switches < MaxSwitches
        /\ \E A \in SUBSET {me.home} : Answered(A)
        /\ (\E e \in UsableNow(skip \cup {me.home}) : Told(k, hop(e))) \/ Told(k, waits) \/ Told(k, over)
        BY <1>2 DEF Exhausted
  <2>2. Budgeted(r) /\ r.at = "running" /\ r.switches = me.switches
        BY <1>1, <2>1 DEF Budgeted, LoopRecords, StoreTyped
  <2>3. StoreTyped'
    <3>1. \A A \in SUBSET {me.home} : A \subseteq LoopSeats
          BY <1>1, <2>1 DEF Budgeted
    <3> QED BY <2>1, <3>1, AnsweredTyped DEF StoreTyped
  <2> HIDE DEF r
  <2>4. \A e \in LoopSeats : Budgeted(hop(e))
        BY <2>1, <2>2 DEF Budgeted, LoopRecords, Hits, LoopPlaces, Reasons
  <2>5. Budgeted(waits) /\ Budgeted(over)
    <3>1. Budgeted(waits)
          BY <2>2 DEF Budgeted, LoopRecords, LoopPlaces
    <3>2. Budgeted(over)
          BY <2>2, HitTyped DEF Budgeted, LoopRecords, LoopPlaces
    <3> QED BY <3>1, <3>2
  <2>6. UsableNow(skip \cup {me.home}) \subseteq LoopSeats
        BY DEF UsableNow, Free
  <2> HIDE DEF hop, waits, over, skip
  <2> QED BY <2>1, <2>3, <2>4, <2>5, <2>6, ToldTyped
<1>3. CASE ExhaustedCommit(k)
  <2> DEFINE e == me.hit.email
             r == [me EXCEPT !.at = "entering", !.next = e, !.switches = @ + 1,
                           !.gone = FALSE, !.was = e, !.moved = FALSE]
             over == [me EXCEPT !.at = "ended"]
  <2>1. /\ me.at = "exhausted"
        /\ \/ pointer' = e /\ UNCHANGED <<rest, autoSwitch, away>> /\ Told(k, r)
           \/ Keep(k, over)
        BY <1>3 DEF ExhaustedCommit
  <2>2. e \in LoopSeats /\ Budgeted(r) /\ Budgeted(over)
    <3>1. e \in LoopSeats /\ me \in LoopRecords /\ me.switches < MaxSwitches
          BY <1>1, <2>1 DEF Budgeted
    <3>2. r = [me EXCEPT !.at = "entering", !.gone = FALSE, !.moved = FALSE, !.next = e,
                         !.switches = me.switches + 1, !.was = e]
          BY <3>1 DEF LoopRecords
    <3>3. Budgeted(r)
          BY <3>1, <3>2, SpentTyped
    <3>4. Budgeted(over)
          BY <1>1 DEF Budgeted, LoopRecords, LoopPlaces
    <3> QED BY <3>1, <3>3, <3>4
  <2> HIDE DEF r, over
  <2>3. ASSUME pointer' = e, UNCHANGED <<rest, autoSwitch, away>>, Told(k, r)
        PROVE  StoreTyped' /\ LoopsTyped'
        BY <2>2, <2>3, ToldTyped DEF StoreTyped
  <2> QED BY <2>1, <2>2, <2>3, KeepTyped
<1>4. CASE BeginsWait(k)
  <2> DEFINE r == [me EXCEPT !.at = IF autoSwitch THEN "waiting" ELSE "ended"]
  <2>1. me.at = "resting" /\ Keep(k, r)
        BY <1>4 DEF BeginsWait
  <2>2. Budgeted(r)
        BY <1>1, <2>1 DEF Budgeted, LoopRecords, LoopPlaces
  <2> QED BY <2>1, <2>2, KeepTyped
<1>5. CASE Sweep(k)
  <2> DEFINE lands(e) == [me EXCEPT !.at = "landed", !.hit.email = e]
             over == [me EXCEPT !.at = "ended", !.hit = NoHit]
  <2>1. /\ me.at = "waiting" /\ UNCHANGED <<pointer, autoSwitch>>
        /\ \E A \in SUBSET (LoopSeats \ me.failed) : Answered(A)
        /\ (\E e \in UsableNow(me.failed) : Told(k, lands(e))) \/ Told(k, over) \/ Told(k, me)
        BY <1>5 DEF Sweep
  <2>2. StoreTyped'
        BY <2>1, AnsweredTyped DEF StoreTyped
  <2>3. ASSUME NEW e \in LoopSeats PROVE Budgeted(lands(e))
    <3>1. lands(e) \in LoopRecords
          BY <1>1 DEF Budgeted, LoopRecords, LoopPlaces, Hits
    <3>2. /\ lands(e).at = "landed" /\ lands(e).home = me.home /\ lands(e).hit.email = e
          /\ lands(e).was = me.was /\ lands(e).switches = me.switches
          BY <1>1 DEF Budgeted, LoopRecords, Hits
    <3> HIDE DEF lands
    <3> QED BY <1>1, <2>1, <3>1, <3>2 DEF Budgeted
  <2>4. Budgeted(over)
        BY <1>1, HitTyped, ZenonT(30) DEF Budgeted, LoopRecords, LoopPlaces
  <2>5. UsableNow(me.failed) \subseteq LoopSeats
        BY DEF UsableNow, Free
  <2> HIDE DEF lands, over
  <2> QED BY <1>1, <2>1, <2>2, <2>3, <2>4, <2>5, ToldTyped
<1>6. CASE Activate(k)
  <2> DEFINE e == me.hit.email
             r == [me EXCEPT !.at = "entering", !.next = e, !.gone = FALSE, !.was = e,
                             !.moved = FALSE]
             over == [me EXCEPT !.at = "ended"]
  <2>1. /\ me.at = "landed"
        /\ \/ pointer' = e /\ UNCHANGED <<rest, autoSwitch, away>> /\ Told(k, r)
           \/ Keep(k, over)
        BY <1>6 DEF Activate
  <2>2. e \in LoopSeats /\ Budgeted(r) /\ Budgeted(over)
    <3>1. e \in LoopSeats
          BY <1>1, <2>1 DEF Budgeted
    <3>2. Budgeted(r)
      <4>1. r \in LoopRecords
            BY <1>1, <3>1 DEF Budgeted, LoopRecords, LoopPlaces
      <4>2. r.at = "entering" /\ r.was = e
            BY <1>1 DEF Budgeted, LoopRecords
      <4> HIDE DEF r
      <4> QED BY <3>1, <4>1, <4>2 DEF Budgeted
    <3>3. Budgeted(over)
          BY <1>1 DEF Budgeted, LoopRecords, LoopPlaces
    <3> QED BY <3>1, <3>2, <3>3
  <2> HIDE DEF r, over
  <2>3. ASSUME pointer' = e, UNCHANGED <<rest, autoSwitch, away>>, Told(k, r)
        PROVE  StoreTyped' /\ LoopsTyped'
        BY <2>2, <2>3, ToldTyped DEF StoreTyped
  <2> QED BY <2>1, <2>2, <2>3, KeepTyped
<1> QED BY <1>2, <1>3, <1>4, <1>5, <1>6

-----------------------------------------------------------------------------
\* What belongs to nobody here: the tool, the provider and the count of its acts.
WorldOK ==
  /\ tool \in {"codex", "claude"} /\ acts \in 0..MaxActs
  /\ out \in [LoopSeats -> BOOLEAN] /\ barred \subseteq LoopSeats

\* Only the provider changes what is the provider's.
LEMMA WorldStays ==
  ASSUME NEW k \in Loops, LoopLaunch(k) \/ BlockEnds(k) \/ Signal(k) \/ LoopTick(k) \/ Proceeds(k)
  PROVE  UNCHANGED loopWorld
<1>1. CASE LoopLaunch(k) \/ BlockEnds(k)
      BY <1>1, ZenonT(30) DEF LoopLaunch, BlockEnds
<1>2. CASE Signal(k)
      BY <1>2, ZenonT(30) DEF Signal, LoopBanner, HardBanner, RevokedBanner, Relogin, LogLine, Identified,
         ChildQuits, Exhausted, DecideLimit, DecideDead
<1>3. CASE LoopTick(k)
      BY <1>3 DEF LoopTick, TickState, TickRecover, DecideLimit
<1>4. CASE Proceeds(k)
  <2>1. CASE Probed(k) \/ Judged(k)
        BY <2>1 DEF Probed, Judged, DecideLimit, DecideDead
  <2> QED BY <1>4, <2>1 DEF Proceeds, LoopEnter, Preflight, Justify, Undo, LoopCommit, ExhaustedCommit,
             BeginsWait, Sweep, Activate
<1> QED BY <1>1, <1>2, <1>3, <1>4

\* The store, the supervisors and the world keep their types, and no supervisor restarts its
\* child more often than its budget allows, however a decision and its commit are apart
\* (launcher.py:2402-2486, 3466-3558).
THEOREM LoopTypes == LoopSpec => []LoopTypeOK
<1> DEFINE I == StoreTyped /\ LoopsTyped /\ WorldOK
<1>1. LoopInit => I
  <2> SUFFICES ASSUME LoopInit PROVE I OBVIOUS
  <2>1. Budgeted(FreshLoop)
        BY LoopBounds DEF FreshLoop, Budgeted, LoopRecords, Hits, LoopPlaces, NoHit, Reasons
  <2> HIDE DEF FreshLoop
  <2> QED BY <2>1, LoopBounds DEF LoopInit, LoopFresh, StoreTyped, LoopsTyped, WorldOK, Budgeted, Rests
<1>2. I /\ [LoopNext]_loopVars => I'
  <2> SUFFICES ASSUME I, [LoopNext]_loopVars PROVE I' OBVIOUS
  <2>1. CASE UNCHANGED loopVars
        BY <2>1 DEF loopVars, loopStore, loopWorld, StoreTyped, LoopsTyped, WorldOK
  <2>2. CASE LoopNext
    <3>1. StoreTyped' /\ LoopsTyped'
      <4>1. ASSUME NEW k \in Loops,
                   LoopLaunch(k) \/ BlockEnds(k) \/ Signal(k) \/ LoopTick(k) \/ Proceeds(k)
            PROVE  StoreTyped' /\ LoopsTyped'
            BY <4>1, WorldTyped, LaunchTyped, SignalTyped, TickTyped, DecidedTyped, CommitTyped,
               WaitTyped DEF Signal, LoopTick, Proceeds
      <4> QED BY <2>2, <4>1, WorldTyped DEF LoopNext
    <3>2. WorldOK'
      <4>1. CASE Acted
        <5>1. acts' \in 0..MaxActs /\ tool' = tool
              BY <2>2, <4>1, LoopBounds DEF LoopNext, Acted, WorldOK
        <5>2. out' \in [LoopSeats -> BOOLEAN] /\ barred' \subseteq LoopSeats
              BY <4>1 DEF Acted, WorldOK, LoopToggle, LoopClick, Quota, Bar, loopWorld
        <5> QED BY <5>1, <5>2 DEF WorldOK
      <4>2. CASE ~Acted
        <5>1. UNCHANGED <<tool, acts>> /\ UNCHANGED loopWorld
              BY <2>2, <4>2, WorldStays DEF LoopNext, RestEnds, LoopPoll
        <5> QED BY <5>1 DEF WorldOK, loopWorld
      <4> QED BY <4>1, <4>2
    <3> QED BY <3>1, <3>2
  <2> QED BY <2>1, <2>2
<1>3. I => LoopTypeOK
      BY DEF StoreTyped, LoopsTyped, WorldOK, LoopTypeOK, LoopRecords, Hits
<1> QED BY <1>1, <1>2, <1>3, PTL DEF LoopSpec

(*************************************************************************)
(* The spawn. A stop that has begun is carried through, whatever         *)
(* interrupts it. The invariant follows the stop: the handlers stay      *)
(* installed from the loop to the clean-up, so that no signal kills a    *)
(* supervisor that is stopping, and the child is further along at every  *)
(* place than the signals it was sent.                                   *)
(*************************************************************************)

Ended == {"killed", "zombie", "gone"}

HandlersStay == at \in {"loop", "stop", "stopped", "dying", "finally"} \cup Stopping => handled

StopIsOneWay ==
  /\ terminating => at \in Stopping \cup {"stopped", "dying", "finally", "returned", "dead"}
  /\ at \in Stopping \cup {"stopped", "dying"} => terminating

ChildIsTold ==
  /\ at = "term" => spawned # "runs"
  /\ at \in {"kill", "closed", "stopped", "dying"} => spawned \in Ended
  /\ at \in {"finally", "returned", "dead"} /\ terminating => spawned \in Ended

HandedBack ==
  /\ at \in {"reaping", "returned", "raised"} => (mode = "cooked" \/ noWindow) /\ ~master
  /\ at = "dead" /\ terminating => (mode = "cooked" \/ noWindow) /\ ~master
  /\ at = "returned" => spawned # "runs"

SpawnInv == SpawnTypeOK /\ HandlersStay /\ StopIsOneWay /\ ChildIsTold /\ HandedBack

\* The invariant holds of a supervisor that begins.
LEMMA SpawnInvInit == SpawnInit => SpawnInv
BY DEF SpawnInit, SpawnInv, SpawnTypeOK, HandlersStay, StopIsOneWay, ChildIsTold, HandedBack,
       Stopping, Over

\* Every step of the child, of a stop and of the loop preserves it.
LEMMA SpawnInvStep == SpawnInv /\ [SpawnNext]_spawnVars => SpawnInv'
<1> SUFFICES ASSUME SpawnInv, [SpawnNext]_spawnVars PROVE SpawnInv'
    OBVIOUS
<1> USE DEF SpawnInv, SpawnTypeOK, HandlersStay, StopIsOneWay, ChildIsTold, HandedBack,
            Stopping, Over, Ended, outside, signals, supervisor
<1>1. CASE SpawnedEnds
      BY <1>1 DEF SpawnedEnds
<1>2. CASE WindowCloses
      BY <1>2 DEF WindowCloses
<1>3. CASE Signalled
  <2>1. CASE ~handled
        BY <1>3, <2>1 DEF Signalled
  <2>2. CASE handled /\ terminating
        BY <1>3, <2>2 DEF Signalled
  <2>3. CASE handled /\ ~terminating
        BY <1>3, <2>3 DEF Signalled, StopStep
  <2> QED BY <2>1, <2>2, <2>3
<1>4. CASE BeginsRaw
      BY <1>4 DEF BeginsRaw
<1>5. CASE Installs
      BY <1>5 DEF Installs
<1>6. CASE LoopStops \/ LoopEnds
      BY <1>6 DEF LoopStops, LoopEnds
<1>18. CASE LoopRevoked
      BY <1>18 DEF LoopRevoked
<1>7. CASE Raises
      BY <1>7 DEF Raises, Cleanup, Restored
<1>8. CASE StopBegins
      BY <1>8 DEF StopBegins, StopStep
<1>9. CASE Escalates
      BY <1>9 DEF Escalates
<1>10. CASE ClosesMaster
      BY <1>10 DEF ClosesMaster
<1>11. CASE Reaps
      BY <1>11 DEF Reaps, Terminated
<1>12. CASE Abandons
      BY <1>12 DEF Abandons, Terminated
<1>13. CASE Checks
      BY <1>13 DEF Checks
<1>14. CASE DiesOfIt
      BY <1>14 DEF DiesOfIt, Restored
<1>15. CASE Finally
      BY <1>15 DEF Finally, Cleanup, Restored
<1>16. CASE WaitsForChild
      BY <1>16 DEF WaitsForChild
<1>17. CASE UNCHANGED spawnVars
      BY <1>17 DEF spawnVars
<1> QED BY <1>1, <1>2, <1>3, <1>4, <1>5, <1>6, <1>7, <1>8, <1>9, <1>10, <1>11, <1>12, <1>13,
           <1>14, <1>15, <1>16, <1>17, <1>18 DEF SpawnNext

\* The invariant is one of every behaviour.
LEMMA SpawnInvHolds == SpawnSpec => []SpawnInv
BY SpawnInvInit, SpawnInvStep, PTL DEF SpawnSpec

\* Every variable of the supervisor keeps its type (launcher.py:812-1261).
THEOREM SpawnTypeCorrect == SpawnSpec => []SpawnTypeOK
<1>1. SpawnInv => SpawnTypeOK
      BY DEF SpawnInv
<1> QED BY <1>1, SpawnInvHolds, PTL

\* A supervisor that returned, or died while it stopped its child, has handed the terminal
\* back, closed the PTY and left no child unkilled (launcher.py:886-1011, 1174-1261).
THEOREM NothingLeft == SpawnSpec => []NothingIsLeftBehind
<1>1. SpawnInv => NothingIsLeftBehind
      BY DEF SpawnInv, ChildIsTold, HandedBack, NothingIsLeftBehind, Ended
<1> QED BY <1>1, SpawnInvHolds, PTL

(*************************************************************************)
(* The session registry. A record says which life of a pid wrote it, so  *)
(* it stays true of that life: it is live only while that process is,    *)
(* and what a reader found dead is dead when it is removed. A session    *)
(* that has marked itself is in its own file, whatever becomes of the    *)
(* legacy one.                                                           *)
(*************************************************************************)

\* A process by what it is doing: only a supervisor marks and clears, and what it has marked
\* is its own file.
ProcessKnown(p) ==
  /\ proc[p].kind # "gone" => proc[p].life >= 1
  /\ proc[p].kind = "old" => p = OldPid /\ proc[p].life = 1
  /\ proc[p].at # "out" => proc[p].kind \in Supervised /\ proc[p].mark >= 1
  /\ proc[p].marked => /\ proc[p].kind \in Supervised /\ proc[p].at \in {"out", "legacy"}
                       /\ own[p].pid = p /\ own[p].life = proc[p].life
                       /\ own[p].mark = proc[p].mark

\* A pinned session that has written its one mark.
HasMarked(p) == proc[p].mark >= 1 /\ proc[p].at \notin {"check", "link", "own"}

\* A record is of a life that was, and names nothing its process has yet to do.
RecordKnown(r) ==
  /\ r.life <= proc[r.pid].life
  /\ Live(r) => /\ r.mark <= proc[r.pid].mark
                /\ proc[r.pid].kind = "pinned" => HasMarked(r.pid)
FilesKnown == RecordKnown(legacy) /\ \A p \in Pids : RecordKnown(own[p])

\* Whatever is to be pruned stays dead.
ReaderKnown == reader.at = "discard" => RecordKnown(reader.rec) /\ ~Live(reader.rec)

\* An end is asked of a launch that has marked, and of no later one.
EndKnown(x) ==
  /\ x.life \in 1..proc[x.pid].life
  /\ proc[x.pid].kind # "gone" /\ x.life = proc[x.pid].life =>
       proc[x.pid].kind = "pinned" /\ HasMarked(x.pid)
EndsKnown == (ender.at = "found" => EndKnown(ender.who)) /\ \A x \in accepted : EndKnown(x)

\* The older engine's record has its second name before anybody takes the first.
IsOld(r) == r.pid = OldPid /\ r.life = 1
OldIsKept ==
  proc[OldPid].kind = "old" =>
    \/ IsOld(own[OldPid])
    \/ /\ own[OldPid] = NoFile /\ IsOld(legacy)
       /\ \A p \in Pids : /\ proc[p].at \in {"out", "check", "link"} /\ ~proc[p].marked
                          /\ proc[p].at # "out" => IsOld(proc[p].prev)

RegistryInv ==
  /\ SessionTypeOK /\ (\A p \in Pids : ProcessKnown(p))
  /\ FilesKnown /\ ReaderKnown /\ EndsKnown /\ OldIsKept /\ EndReachesItsLaunch

\* What a process may do to what is known of its records: end, mark once more, or begin a life.
Advances(old, new) ==
  \/ /\ new.life = old.life
     /\ \/ new.kind = "gone"
        \/ /\ new.kind = old.kind /\ new.mark >= old.mark
           /\ new.kind = "pinned" /\ new.at \in {"check", "link", "own"} =>
                old.mark = 0 \/ old.at \in {"check", "link", "own"}
  \/ old.kind = "gone" /\ new.life = old.life + 1

ProcRecords == [kind: Kinds, life: Lives, at: MarkSteps, mark: 0..MaxMarks, marked: BOOLEAN,
              prev: Files]

\* The record a file without one is taken for.
LEMMA FilesTyped ==
  ASSUME NEW r \in Files
  PROVE  r.pid \in Pids /\ r.life \in Lives /\ r.mark \in 0..MaxMarks /\ (r.life >= 1 => r \in Records)
BY RegistryBounds DEF Files, Records, NoFile, Lives

\* A record stays known as long as no process goes back on what it did.
LEMMA RecordsLast ==
  ASSUME RegistryInv, NEW p \in Pids, NEW q \in ProcRecords, Advances(proc[p], q),
         proc' = [proc EXCEPT ![p] = q]
  PROVE  /\ \A r \in Files : RecordKnown(r) => RecordKnown(r)' /\ (~Live(r) => ~Live(r)')
         /\ \A x \in Launches : EndKnown(x) => EndKnown(x)'
<1>1. proc[p] \in ProcRecords /\ proc \in [Pids -> ProcRecords] BY DEF RegistryInv, SessionTypeOK, ProcRecords
<1>2. proc[p].life \in Nat /\ q.life \in Nat /\ proc[p].mark \in Nat /\ q.mark \in Nat
  BY <1>1, RegistryBounds DEF ProcRecords, Lives
<1>3. proc'[p] = q /\ \A j \in Pids \ {p} : proc'[j] = proc[j] BY <1>1
<1>4. ASSUME NEW r \in Files, RecordKnown(r) PROVE RecordKnown(r)' /\ (~Live(r) => ~Live(r)')
  <2>1. r.pid \in Pids /\ r.life \in Nat /\ r.mark \in Nat BY FilesTyped, RegistryBounds DEF Lives
  <2>2. CASE r.pid # p BY <1>3, <1>4, <2>1, <2>2 DEF RecordKnown, Live, HasMarked
  <2>3. CASE r.pid = p
    BY <1>2, <1>3, <1>4, <2>1, <2>3 DEF RecordKnown, Live, HasMarked, Advances
  <2> QED BY <2>2, <2>3
<1>5. ASSUME NEW x \in Launches, EndKnown(x) PROVE EndKnown(x)'
  <2>1. x.pid \in Pids /\ x.life \in Nat BY RegistryBounds DEF Launches, Lives
  <2>2. CASE x.pid # p BY <1>3, <1>5, <2>1, <2>2 DEF EndKnown, HasMarked
  <2>3. CASE x.pid = p
    BY <1>2, <1>3, <1>5, <2>1, <2>3 DEF EndKnown, HasMarked, Advances
  <2> QED BY <2>2, <2>3
<1> QED BY <1>4, <1>5

\* The parts of the invariant, for a step of one process that asks for no end.
LEMMA ProcessStep ==
  ASSUME RegistryInv, NEW p \in Pids, NEW q \in ProcRecords, Advances(proc[p], q),
         proc' = [proc EXCEPT ![p] = q], UNCHANGED <<reader, ender, accepted>>,
         own' \in [Pids -> Files], legacy' \in Files, RecordKnown(legacy)',
         legacy' = legacy => RecordKnown(legacy)', 
         \A j \in Pids : ProcessKnown(j)', 
         \A j \in Pids : own'[j] # own[j] => RecordKnown(own[j])',
         OldIsKept', EndReachesItsLaunch'
  PROVE  RegistryInv'
<1>1. SessionTypeOK' BY DEF RegistryInv, SessionTypeOK, ProcRecords
<1>2. /\ reader.rec \in Files /\ ender.who \in Launches /\ accepted \subseteq Launches
      /\ own \in [Pids -> Files]
  BY DEF RegistryInv, SessionTypeOK
<1>3. \A j \in Pids : RecordKnown(own[j])'
  <2> SUFFICES ASSUME NEW j \in Pids, own'[j] = own[j] PROVE RecordKnown(own[j])' OBVIOUS
  <2>1. own[j] \in Files /\ RecordKnown(own[j]) BY <1>2 DEF RegistryInv, FilesKnown
  <2>2. \A r \in Files : RecordKnown(r) => RecordKnown(r)' BY RecordsLast
  <2> QED BY <2>1, <2>2 DEF RecordKnown, Live, HasMarked
<1>4. ReaderKnown'
  <2>1. CASE reader.at = "discard"
    <3>1. RecordKnown(reader.rec) /\ ~Live(reader.rec) BY <2>1 DEF RegistryInv, ReaderKnown
    <3>2. \A r \in Files : RecordKnown(r) => RecordKnown(r)' /\ (~Live(r) => ~Live(r)') BY RecordsLast
    <3> QED BY <1>2, <3>1, <3>2 DEF ReaderKnown, RecordKnown, Live, HasMarked
  <2> QED BY <2>1 DEF ReaderKnown
<1>5. EndsKnown'
  <2>1. \A x \in Launches : EndKnown(x) => EndKnown(x)' BY RecordsLast
  <2> QED BY <1>2, <2>1 DEF RegistryInv, EndsKnown, EndKnown, HasMarked
<1> QED BY <1>1, <1>3, <1>4, <1>5 DEF RegistryInv, FilesKnown

\* The other processes stay as known while their own files stay.
LEMMA OthersStay ==
  ASSUME RegistryInv, NEW p \in Pids, NEW q \in ProcRecords, proc' = [proc EXCEPT ![p] = q],
         NEW j \in Pids \ {p}, own'[j] = own[j] \/ (own[j] = NoFile /\ ~proc[j].marked)
  PROVE  ProcessKnown(j)'
<1>1. proc[j] = proc'[j] BY DEF RegistryInv, SessionTypeOK
<1>2. ProcessKnown(j) BY DEF RegistryInv
<1> QED BY <1>1, <1>2 DEF ProcessKnown

\* A file that is linked where there was none is nobody's mark.
LEMMA UnmarkedHasNoFile ==
  ASSUME RegistryInv, NEW j \in Pids, own[j] = NoFile
  PROVE  ~proc[j].marked
<1>1. ProcessKnown(j) /\ proc[j] \in ProcRecords BY DEF RegistryInv, SessionTypeOK, ProcRecords
<1>2. NoFile.life = 0 BY DEF NoFile
<1>3. CASE proc[j].marked
  <2>1. proc[j].life = 0 /\ proc[j].kind # "gone"
    BY <1>1, <1>2, <1>3 DEF ProcessKnown, Supervised
  <2> QED BY <1>1, <2>1 DEF ProcessKnown
<1> QED BY <1>3

\* A step that leaves the files alone.
LEMMA AloneStep ==
  ASSUME RegistryInv, NEW p \in Pids, NEW q \in ProcRecords, Advances(proc[p], q),
         proc' = [proc EXCEPT ![p] = q], UNCHANGED <<own, legacy, reader, ender, accepted>>,
         q.kind # "gone" => q.life >= 1,
         q.kind = "old" => p = OldPid /\ q.life = 1,
         q.at # "out" => q.kind \in Supervised /\ q.mark >= 1,
         ~q.marked, OldIsKept'
  PROVE  RegistryInv'
<1>1. /\ own \in [Pids -> Files] /\ legacy \in Files /\ RecordKnown(legacy)
      /\ proc \in [Pids -> ProcRecords]
  BY DEF RegistryInv, SessionTypeOK, FilesKnown, ProcRecords
<1>2. RecordKnown(legacy)'
  <2>1. \A r \in Files : RecordKnown(r) => RecordKnown(r)' BY RecordsLast
  <2> QED BY <1>1, <2>1 DEF RecordKnown, Live, HasMarked
<1>3. proc'[p] = q BY <1>1
<1>4. ProcessKnown(p)' BY <1>3 DEF ProcessKnown
<1>5. \A j \in Pids : ProcessKnown(j)' BY <1>4, OthersStay
<1>6. EndReachesItsLaunch' BY <1>1, <1>3 DEF RegistryInv, EndReachesItsLaunch
<1> QED BY <1>1, <1>2, <1>5, <1>6, ProcessStep

\* What a process is, read off the invariant.
LEMMA ProcessTyped ==
  ASSUME RegistryInv, NEW p \in Pids
  PROVE  /\ proc[p] \in ProcRecords /\ ProcessKnown(p)
         /\ proc[p].kind \in Kinds /\ proc[p].life \in Nat /\ proc[p].life <= MaxLife
         /\ proc[p].mark \in Nat /\ proc[p].mark <= MaxMarks /\ proc[p].prev \in Files
         /\ proc[p].at \in MarkSteps /\ proc[p].marked \in BOOLEAN
BY RegistryBounds DEF RegistryInv, SessionTypeOK, ProcRecords, Lives

\* No process: what one that begins or ends is, but for its kind and life.
LEMMA NoProcTyped ==
  NoProc \in ProcRecords /\ NoProc.kind = "gone" /\ NoProc.at = "out" /\ ~NoProc.marked
<1>1. 0 \in 0..MaxMarks /\ 0 \in Lives /\ NoFile \in Files BY RegistryBounds DEF Files, Lives
<1> QED BY <1>1 DEF ProcRecords, NoProc, Kinds, MarkSteps

\* A process starts, of whatever kind.
LEMMA StartsStep ==
  ASSUME RegistryInv, NEW p \in Pids, NEW kind \in Supervised, Starts(p, kind)
  PROVE  RegistryInv'
<1> DEFINE l == proc[p].life + 1
           q == [NoProc EXCEPT !.kind = kind, !.life = l]
<1>1. /\ proc[p].kind = "gone" /\ proc[p].life < MaxLife /\ proc' = [proc EXCEPT ![p] = q]
      /\ UNCHANGED <<own, legacy, reader, ender, accepted>>
  BY DEF Starts
<1>2. l \in Lives /\ kind \in Kinds /\ l >= 1
  BY <1>1, ProcessTyped, RegistryBounds DEF Lives, Supervised, Kinds
<1>3. q \in ProcRecords /\ q.kind \in {kind, "gone"} /\ q.life = l /\ q.at = "out" /\ ~q.marked
  <2> HIDE DEF l
  <2> QED BY <1>2, NoProcTyped DEF ProcRecords
<1> HIDE DEF q
<1>4. Advances(proc[p], q) BY <1>1, <1>3 DEF Advances
<1>5. OldIsKept'
  BY <1>1, <1>3, ProcessTyped DEF RegistryInv, SessionTypeOK, OldIsKept, IsOld, Supervised
<1> QED BY <1>1, <1>2, <1>3, <1>4, <1>5, AloneStep DEF Supervised

\* A process dies.
LEMMA DiesStep == ASSUME RegistryInv, NEW p \in Pids, Dies(p) PROVE RegistryInv'
<1> DEFINE q == [NoProc EXCEPT !.life = proc[p].life]
<1>1. proc' = [proc EXCEPT ![p] = q] /\ UNCHANGED <<own, legacy, reader, ender, accepted>>
  BY DEF Dies
<1>2. q \in ProcRecords /\ q.kind = "gone" /\ q.life = proc[p].life /\ q.at = "out" /\ ~q.marked
  BY ProcessTyped, NoProcTyped DEF ProcRecords
<1> HIDE DEF q
<1>3. Advances(proc[p], q) BY <1>2 DEF Advances
<1>4. OldIsKept' BY <1>1, <1>2, ProcessTyped DEF RegistryInv, SessionTypeOK, OldIsKept, IsOld
<1> QED BY <1>1, <1>2, <1>3, <1>4, AloneStep

\* A supervisor begins to mark: it has read the legacy file.
LEMMA MarkReadsStep == ASSUME RegistryInv, NEW p \in Pids, MarkReads(p) PROVE RegistryInv'
<1> DEFINE q == [proc[p] EXCEPT !.at = IF legacy = NoFile \/ legacy.pid = p THEN "own" ELSE "check",
                                !.prev = IF legacy.pid = p THEN NoFile ELSE legacy,
                                !.mark = @ + 1, !.marked = FALSE]
<1>1. /\ proc[p].kind \in Supervised /\ proc[p].at = "out" /\ proc[p].mark < MaxMarks
      /\ proc[p].kind = "pinned" => proc[p].mark = 0
      /\ proc' = [proc EXCEPT ![p] = q] /\ UNCHANGED <<own, legacy, reader, ender, accepted>>
  BY DEF MarkReads
<1>2. /\ q.kind = proc[p].kind /\ q.life = proc[p].life /\ q.mark = proc[p].mark + 1 /\ ~q.marked
      /\ q.at = (IF legacy = NoFile \/ legacy.pid = p THEN "own" ELSE "check")
      /\ q.prev = (IF legacy.pid = p THEN NoFile ELSE legacy)
  BY ProcessTyped DEF ProcRecords
<1>3. q \in ProcRecords
  <2>1. proc[p].mark + 1 \in 0..MaxMarks BY <1>1, ProcessTyped, RegistryBounds
  <2>2. legacy \in Files /\ NoFile \in Files BY DEF RegistryInv, SessionTypeOK, Files
  <2>3. proc[p] \in ProcRecords BY ProcessTyped
  <2> QED BY <2>1, <2>2, <2>3 DEF ProcRecords, MarkSteps
<1> HIDE DEF q
<1>4. Advances(proc[p], q) BY <1>1, <1>2, ProcessTyped DEF Advances
<1>5. OldIsKept'
  <2>1. IsOld(legacy) /\ OldPid # p => q.at = "check" /\ q.prev = legacy
    BY <1>2 DEF IsOld, NoFile
  <2>2. proc[OldPid].kind = "old" => OldPid # p BY <1>1 DEF Supervised
  <2> QED
    BY <1>1, <1>2, <2>1, <2>2, ProcessTyped, RegistryBounds DEF RegistryInv, SessionTypeOK, OldIsKept, IsOld
<1>6. q.life >= 1 /\ q.kind \in Supervised /\ q.mark >= 1
  BY <1>1, <1>2, ProcessTyped DEF ProcessKnown, Supervised
<1> QED BY <1>1, <1>2, <1>3, <1>4, <1>5, <1>6, AloneStep DEF Supervised

\* An empty file is no record of anything.
LEMMA EmptyIsKnown ==
  ASSUME RegistryInv, proc' \in [Pids -> ProcRecords]
  PROVE  RecordKnown(NoFile)'
BY RegistryBounds DEF RecordKnown, Live, NoFile, ProcRecords, Lives

\* What a file held before the step is still known after it.
LEMMA StillKnown ==
  ASSUME RegistryInv, NEW p \in Pids, NEW q \in ProcRecords, Advances(proc[p], q),
         proc' = [proc EXCEPT ![p] = q]
  PROVE  /\ \A r \in Files : RecordKnown(r) => RecordKnown(r)'
         /\ proc' \in [Pids -> ProcRecords] /\ proc'[p] = q
         /\ own \in [Pids -> Files] /\ legacy \in Files /\ RecordKnown(legacy)
         /\ \A j \in Pids : RecordKnown(own[j])
         /\ NoFile \in Files
<1>1. proc \in [Pids -> ProcRecords] BY DEF RegistryInv, SessionTypeOK, ProcRecords
<1>2. \A r \in Files : RecordKnown(r) => RecordKnown(r)' BY RecordsLast
<1> QED BY <1>1, <1>2 DEF RegistryInv, SessionTypeOK, FilesKnown, Files

\* It prunes the legacy file of a dead owner, or finds the owner alive.
LEMMA MarkChecksStep == ASSUME RegistryInv, NEW p \in Pids, MarkChecks(p) PROVE RegistryInv'
<1>1. /\ proc[p].at = "check" /\ UNCHANGED <<own, reader, ender, accepted>>
      /\ \/ Live(proc[p].prev) /\ At(p, "link") /\ UNCHANGED legacy
         \/ ~Live(proc[p].prev) /\ Past(p) /\ legacy' \in {legacy, NoFile}
  BY DEF MarkChecks
<1>2. ~proc[p].marked /\ proc[p].kind \in Supervised /\ proc[p].mark >= 1 /\ proc[p].life >= 1
  BY <1>1, ProcessTyped DEF ProcessKnown, Supervised
<1>3. CASE Live(proc[p].prev)
  <2> DEFINE q == [proc[p] EXCEPT !.at = "link"]
  <2>1. proc' = [proc EXCEPT ![p] = q] /\ legacy' = legacy
    BY <1>1, <1>3, ProcessTyped DEF At, RegistryInv, SessionTypeOK
  <2>2. /\ q \in ProcRecords /\ q.at = "link" /\ q.kind = proc[p].kind /\ q.life = proc[p].life
        /\ q.mark = proc[p].mark /\ q.prev = proc[p].prev /\ q.marked = proc[p].marked
    BY ProcessTyped DEF ProcRecords, MarkSteps
  <2> HIDE DEF q
  <2>3. Advances(proc[p], q) BY <1>1, <2>2, ProcessTyped DEF Advances
  <2>4. OldIsKept'
    BY <1>1, <1>2, <2>1, <2>2, ProcessTyped DEF RegistryInv, SessionTypeOK, OldIsKept, IsOld, Supervised
  <2> QED BY <1>1, <1>2, <2>1, <2>2, <2>3, <2>4, AloneStep DEF Supervised
<1>4. CASE ~Live(proc[p].prev)
  <2> DEFINE q == [proc[p] EXCEPT !.at = "own", !.prev = NoFile]
  <2>1. proc' = [proc EXCEPT ![p] = q] /\ legacy' \in {legacy, NoFile}
    BY <1>1, <1>4, ProcessTyped DEF Past, RegistryInv, SessionTypeOK
  <2>2. /\ q \in ProcRecords /\ q.at = "own" /\ q.kind = proc[p].kind /\ q.life = proc[p].life
        /\ q.mark = proc[p].mark /\ q.prev = NoFile /\ q.marked = proc[p].marked
    BY ProcessTyped DEF ProcRecords, MarkSteps, Files
  <2> HIDE DEF q
  <2>3. Advances(proc[p], q) BY <1>1, <2>2, ProcessTyped DEF Advances
  <2>4. proc'[p] = q /\ legacy \in Files /\ RecordKnown(legacy) /\ NoFile \in Files
        /\ proc' \in [Pids -> ProcRecords] /\ own \in [Pids -> Files]
    BY <2>1, <2>2, <2>3, StillKnown
  <2>5. RecordKnown(legacy)'
    <3>1. \A r \in Files : RecordKnown(r) => RecordKnown(r)' BY <2>1, <2>2, <2>3, StillKnown
    <3> QED BY <2>1, <2>4, <3>1, EmptyIsKnown DEF RecordKnown, Live, HasMarked
  <2>6. ProcessKnown(p)' BY <1>1, <1>2, <2>2, <2>4 DEF ProcessKnown, Supervised
  <2>7. \A j \in Pids : ProcessKnown(j)' BY <1>1, <2>1, <2>2, <2>6, OthersStay
  <2>8. OldIsKept'
    <3>1. IsOld(own[OldPid]) \/ proc[OldPid].kind # "old"
      <4>1. IsOld(proc[p].prev) /\ proc[OldPid].kind = "old" => Live(proc[p].prev)
        BY RegistryBounds, ProcessTyped DEF IsOld, Live, ProcessKnown, NoFile
      <4> QED BY <1>1, <1>4, <4>1 DEF RegistryInv, OldIsKept
    <3>2. OldPid # p => proc'[OldPid] = proc[OldPid] BY <2>1, RegistryBounds DEF RegistryInv, SessionTypeOK
    <3> QED BY <1>1, <1>2, <2>2, <2>4, <3>1, <3>2 DEF OldIsKept, IsOld, Supervised
  <2>9. EndReachesItsLaunch'
    BY <1>1, <1>2, <2>1, <2>2, <2>4 DEF RegistryInv, SessionTypeOK, EndReachesItsLaunch
  <2>10. legacy' \in Files BY <2>1, <2>4
  <2> QED BY <1>1, <2>1, <2>2, <2>3, <2>4, <2>5, <2>7, <2>8, <2>9, <2>10, ProcessStep
<1> QED BY <1>3, <1>4

\* It gives the record of that owner a second name.
LEMMA MarkLinksStep == ASSUME RegistryInv, NEW p \in Pids, MarkLinks(p) PROVE RegistryInv'
<1> DEFINE q == [proc[p] EXCEPT !.at = "own", !.prev = NoFile]
           o == proc[p].prev.pid
<1>1. /\ proc[p].at = "link" /\ proc' = [proc EXCEPT ![p] = q]
      /\ own' = IF own[o] = NoFile THEN [own EXCEPT ![o] = legacy] ELSE own
      /\ UNCHANGED <<legacy, reader, ender, accepted>>
  BY ProcessTyped DEF MarkLinks, Past, RegistryInv, SessionTypeOK
<1>2. o \in Pids BY ProcessTyped, FilesTyped
<1>3. ~proc[p].marked /\ proc[p].kind \in Supervised /\ proc[p].mark >= 1 /\ proc[p].life >= 1
  BY <1>1, ProcessTyped DEF ProcessKnown, Supervised
<1>4. /\ q \in ProcRecords /\ q.at = "own" /\ q.kind = proc[p].kind /\ q.life = proc[p].life
      /\ q.mark = proc[p].mark /\ q.marked = proc[p].marked
  BY ProcessTyped DEF ProcRecords, MarkSteps, Files
<1> HIDE DEF q, o
<1>5. Advances(proc[p], q) BY <1>1, <1>4, ProcessTyped DEF Advances
<1>6. proc'[p] = q /\ legacy \in Files /\ RecordKnown(legacy) /\ own \in [Pids -> Files]
  BY <1>1, <1>4, <1>5, StillKnown
<1>7. own' \in [Pids -> Files] /\ \A j \in Pids : own'[j] = own[j] \/ (own[j] = NoFile /\ own'[j] = legacy)
  BY <1>1, <1>2, <1>6
<1>8. \A r \in Files : RecordKnown(r) => RecordKnown(r)' BY <1>1, <1>4, <1>5, StillKnown
<1>9. RecordKnown(legacy)' /\ \A j \in Pids : own'[j] # own[j] => RecordKnown(own[j])'
  BY <1>1, <1>6, <1>7, <1>8 DEF RecordKnown, Live, HasMarked
<1>10. ProcessKnown(p)' BY <1>3, <1>4, <1>6 DEF ProcessKnown, Supervised
<1>11. \A j \in Pids : ProcessKnown(j)' BY <1>1, <1>4, <1>7, <1>10, OthersStay, UnmarkedHasNoFile
<1>12. OldIsKept'
  <2>1. OldPid # p => proc'[OldPid] = proc[OldPid] BY <1>1, RegistryBounds DEF RegistryInv, SessionTypeOK
  <2>2. proc'[OldPid].kind = "old" => proc[OldPid].kind = "old" BY <1>4, <1>6, <2>1
  <2>3. IsOld(own[OldPid]) => IsOld(own'[OldPid]) BY <1>7, RegistryBounds DEF IsOld, NoFile
  <2>4. own[OldPid] = NoFile /\ IsOld(legacy) /\ IsOld(proc[p].prev) => IsOld(own'[OldPid])
    BY <1>1, <1>2, <1>6 DEF o, IsOld
  <2>5. proc[OldPid].kind = "old" => IsOld(own'[OldPid])
    BY <1>1, <2>3, <2>4 DEF RegistryInv, OldIsKept
  <2> QED BY <2>2, <2>5 DEF OldIsKept, IsOld
<1>13. EndReachesItsLaunch'
  <2> SUFFICES ASSUME NEW j \in Pids, proc'[j].marked
               PROVE  own'[j].end <=> [pid |-> j, life |-> proc'[j].life] \in accepted'
    BY DEF EndReachesItsLaunch
  <2>1. j # p /\ proc'[j] = proc[j] BY <1>1, <1>3, <1>4, <1>6 DEF RegistryInv, SessionTypeOK
  <2>2. own'[j] = own[j] BY <1>7, <2>1, UnmarkedHasNoFile
  <2> QED BY <1>1, <2>1, <2>2 DEF RegistryInv, EndReachesItsLaunch
<1> QED BY <1>1, <1>4, <1>5, <1>6, <1>7, <1>9, <1>11, <1>12, <1>13, ProcessStep

\* It writes its own file: the session is marked.
LEMMA MarkOwnStep == ASSUME RegistryInv, NEW p \in Pids, MarkOwn(p) PROVE RegistryInv'
<1> DEFINE q == [proc[p] EXCEPT !.at = "legacy", !.marked = TRUE]
           h == Heartbeat(p)
<1>1. /\ proc[p].at = "own" /\ proc' = [proc EXCEPT ![p] = q] /\ own' = [own EXCEPT ![p] = h]
      /\ UNCHANGED <<legacy, reader, ender, accepted>>
  BY ProcessTyped DEF MarkOwn, RegistryInv, SessionTypeOK
<1>2. proc[p].kind \in Supervised /\ proc[p].mark >= 1 /\ proc[p].life >= 1
  BY <1>1, ProcessTyped DEF ProcessKnown, Supervised
<1>3. h \in Files /\ h.pid = p /\ h.life = proc[p].life /\ h.mark = proc[p].mark /\ h.end = FALSE
  BY <1>2, ProcessTyped, RegistryBounds DEF Heartbeat, Files, Records
<1>4. /\ q \in ProcRecords /\ q.at = "legacy" /\ q.kind = proc[p].kind /\ q.life = proc[p].life
      /\ q.mark = proc[p].mark /\ q.marked
  BY ProcessTyped DEF ProcRecords, MarkSteps
<1> HIDE DEF q, h
<1>5. Advances(proc[p], q) BY <1>4, ProcessTyped DEF Advances
<1>6. proc'[p] = q /\ legacy \in Files /\ RecordKnown(legacy) /\ own \in [Pids -> Files]
  BY <1>1, <1>4, <1>5, StillKnown
<1>7. own' \in [Pids -> Files] /\ own'[p] = h /\ \A j \in Pids \ {p} : own'[j] = own[j]
  BY <1>1, <1>3, <1>6
<1>8. \A r \in Files : RecordKnown(r) => RecordKnown(r)' BY <1>1, <1>4, <1>5, StillKnown
<1>9. RecordKnown(legacy)' BY <1>1, <1>6, <1>8 DEF RecordKnown, Live, HasMarked
<1>10. RecordKnown(own[p])'
  BY <1>2, <1>3, <1>4, <1>6, <1>7, ProcessTyped DEF RecordKnown, Live, HasMarked
<1>11. ProcessKnown(p)' BY <1>2, <1>3, <1>4, <1>6, <1>7 DEF ProcessKnown, Supervised
<1>12. \A j \in Pids : ProcessKnown(j)' BY <1>1, <1>4, <1>7, <1>11, OthersStay
<1>13. OldIsKept'
  <2>1. CASE OldPid = p BY <1>2, <1>4, <1>6, <2>1 DEF OldIsKept, Supervised
  <2>2. CASE OldPid # p
    <3>1. proc'[OldPid] = proc[OldPid] /\ own'[OldPid] = own[OldPid]
      BY <1>1, <1>7, <2>2, RegistryBounds DEF RegistryInv, SessionTypeOK
    <3> QED BY <1>1, <3>1 DEF RegistryInv, OldIsKept, IsOld
  <2> QED BY <2>1, <2>2
<1>14. EndReachesItsLaunch'
  <2> SUFFICES ASSUME NEW j \in Pids, proc'[j].marked
               PROVE  own'[j].end <=> [pid |-> j, life |-> proc'[j].life] \in accepted'
    BY DEF EndReachesItsLaunch
  <2>1. CASE j # p
    <3>1. proc'[j] = proc[j] /\ own'[j] = own[j] BY <1>1, <1>7, <2>1 DEF RegistryInv, SessionTypeOK
    <3> QED BY <1>1, <3>1 DEF RegistryInv, EndReachesItsLaunch
  <2>2. [pid |-> p, life |-> proc[p].life] \notin accepted
    BY <1>1, <1>2 DEF RegistryInv, EndsKnown, EndKnown, HasMarked, Supervised
  <2> QED BY <1>1, <1>3, <1>4, <1>6, <1>7, <2>1, <2>2
<1> QED BY <1>1, <1>4, <1>5, <1>6, <1>7, <1>9, <1>10, <1>12, <1>13, <1>14, ProcessStep

\* A step that changes the legacy file but no other.
LEMMA LegacyStep ==
  ASSUME RegistryInv, NEW p \in Pids, NEW q \in ProcRecords, Advances(proc[p], q),
         proc' = [proc EXCEPT ![p] = q], UNCHANGED <<own, reader, ender, accepted>>,
         q.kind # "gone" => q.life >= 1,
         q.kind = "old" => p = OldPid /\ q.life = 1,
         q.at # "out" => q.kind \in Supervised /\ q.mark >= 1,
         q.marked => /\ proc[p].marked /\ q.life = proc[p].life /\ q.mark = proc[p].mark
                     /\ q.kind \in Supervised /\ q.at \in {"out", "legacy"},
         legacy' \in Files, RecordKnown(legacy)', OldIsKept'
  PROVE  RegistryInv'
<1>1. proc'[p] = q /\ own' \in [Pids -> Files] BY StillKnown
<1>2. ProcessKnown(p)' BY <1>1, ProcessTyped DEF ProcessKnown
<1>3. \A j \in Pids : ProcessKnown(j)' BY <1>2, OthersStay
<1>4. EndReachesItsLaunch'
  <2> SUFFICES ASSUME NEW j \in Pids, proc'[j].marked
               PROVE  own'[j].end <=> [pid |-> j, life |-> proc'[j].life] \in accepted'
    BY DEF EndReachesItsLaunch
  <2>1. proc[j].marked /\ proc'[j].life = proc[j].life BY <1>1 DEF RegistryInv, SessionTypeOK
  <2> QED BY <2>1 DEF RegistryInv, EndReachesItsLaunch
<1> QED BY <1>1, <1>3, <1>4, ProcessStep

\* It takes the legacy file.
LEMMA MarkLegacyStep == ASSUME RegistryInv, NEW p \in Pids, MarkLegacy(p) PROVE RegistryInv'
<1> DEFINE q == [proc[p] EXCEPT !.at = "out"]
           h == Heartbeat(p)
<1>1. /\ proc[p].at = "legacy" /\ proc' = [proc EXCEPT ![p] = q] /\ legacy' = h
      /\ UNCHANGED <<own, reader, ender, accepted>>
  BY ProcessTyped DEF MarkLegacy, RegistryInv, SessionTypeOK
<1>2. proc[p].kind \in Supervised /\ proc[p].mark >= 1 /\ proc[p].life >= 1
  BY <1>1, ProcessTyped DEF ProcessKnown, Supervised
<1>3. h \in Files /\ h.pid = p /\ h.life = proc[p].life /\ h.mark = proc[p].mark
  BY <1>2, ProcessTyped, RegistryBounds DEF Heartbeat, Files, Records
<1>4. /\ q \in ProcRecords /\ q.at = "out" /\ q.kind = proc[p].kind /\ q.life = proc[p].life
      /\ q.mark = proc[p].mark /\ q.marked = proc[p].marked
  BY ProcessTyped DEF ProcRecords, MarkSteps
<1> HIDE DEF q, h
<1>5. Advances(proc[p], q) BY <1>4, ProcessTyped DEF Advances
<1>6. proc'[p] = q BY <1>1, <1>4, <1>5, StillKnown
<1>7. RecordKnown(legacy)'
  BY <1>1, <1>2, <1>3, <1>4, <1>6, ProcessTyped DEF RecordKnown, Live, HasMarked
<1>8. OldIsKept'
  <2>1. proc'[OldPid].kind = "old" => OldPid # p /\ proc[OldPid].kind = "old"
    BY <1>1, <1>2, <1>4, <1>6, RegistryBounds DEF RegistryInv, SessionTypeOK, Supervised
  <2>2. proc[OldPid].kind = "old" => IsOld(own[OldPid]) BY <1>1 DEF RegistryInv, OldIsKept
  <2> QED BY <1>1, <2>1, <2>2 DEF OldIsKept, IsOld
<1>9. /\ q.kind # "gone" /\ q.kind # "old" /\ q.life >= 1 /\ q.kind \in Supervised
      /\ legacy' \in Files /\ q \in ProcRecords
  BY <1>1, <1>2, <1>3, <1>4 DEF Supervised
<1> QED BY <1>1, <1>4, <1>5, <1>7, <1>8, <1>9, LegacyStep

\* It clears the legacy file it found to be its own, and ends.
LEMMA ClearLegacyStep == ASSUME RegistryInv, NEW p \in Pids, ClearLegacy(p) PROVE RegistryInv'
<1> DEFINE q == [NoProc EXCEPT !.life = proc[p].life]
<1>1. /\ proc[p].at = "clearing" /\ proc' = [proc EXCEPT ![p] = q] /\ legacy' \in {legacy, NoFile}
      /\ UNCHANGED <<own, reader, ender, accepted>>
  BY DEF ClearLegacy
<1>2. q \in ProcRecords /\ q.kind = "gone" /\ q.life = proc[p].life /\ q.at = "out" /\ ~q.marked
  BY ProcessTyped, NoProcTyped DEF ProcRecords
<1> HIDE DEF q
<1>3. Advances(proc[p], q) BY <1>2 DEF Advances
<1>4. /\ proc'[p] = q /\ proc' \in [Pids -> ProcRecords] /\ legacy \in Files /\ NoFile \in Files
      /\ RecordKnown(legacy)
  BY <1>1, <1>2, <1>3, StillKnown
<1>5. RecordKnown(legacy)'
  <2>1. \A r \in Files : RecordKnown(r) => RecordKnown(r)' BY <1>1, <1>2, <1>3, StillKnown
  <2> QED BY <1>1, <1>4, <2>1, EmptyIsKnown DEF RecordKnown, Live, HasMarked
<1>6. OldIsKept'
  <2>1. proc'[OldPid].kind = "old" => proc[OldPid].kind = "old"
    BY <1>1, <1>2, <1>4, RegistryBounds DEF RegistryInv, SessionTypeOK
  <2>2. proc[OldPid].kind = "old" => IsOld(own[OldPid]) BY <1>1 DEF RegistryInv, OldIsKept
  <2> QED BY <1>1, <2>1, <2>2 DEF OldIsKept, IsOld
<1> QED BY <1>1, <1>2, <1>3, <1>4, <1>5, <1>6, LegacyStep

\* The older engine rewrites the legacy file.
LEMMA OldMarksStep == ASSUME RegistryInv, NEW p \in Pids, OldMarks(p) PROVE RegistryInv'
<1> DEFINE q == [proc[p] EXCEPT !.mark = @ + 1]
           h == [pid |-> p, life |-> proc[p].life, mark |-> proc[p].mark + 1, end |-> FALSE]
<1>1. proc[p].kind = "old" /\ proc[p].mark < MaxMarks /\ proc' = [proc EXCEPT ![p] = q]
  BY ProcessTyped DEF OldMarks, RegistryInv, SessionTypeOK
<1>2. /\ q.mark = proc[p].mark + 1 /\ q.at = proc[p].at /\ q.kind = "old"
      /\ q.life = proc[p].life /\ q.marked = proc[p].marked
  BY <1>1, ProcessTyped DEF ProcRecords
<1>3. q \in ProcRecords
  <2>1. proc[p].mark + 1 \in 0..MaxMarks BY <1>1, ProcessTyped, RegistryBounds
  <2> QED BY <2>1, ProcessTyped DEF ProcRecords
<1> HIDE DEF q
<1>4. Advances(proc[p], q) BY <1>1, <1>2, ProcessTyped DEF Advances
<1>5. proc'[p] = q BY <1>1, <1>3, <1>4, StillKnown
<1>6. legacy' = h /\ UNCHANGED <<own, reader, ender, accepted>> BY <1>2, <1>5 DEF OldMarks
<1>7. p = OldPid /\ proc[p].life = 1 /\ proc[p].at = "out" /\ ~proc[p].marked
  BY <1>1, ProcessTyped DEF ProcessKnown, Supervised
<1>8. h \in Files BY <1>1, <1>7, ProcessTyped, RegistryBounds DEF Files, Records
<1>9. RecordKnown(legacy)' BY <1>2, <1>5, <1>6, <1>7, ProcessTyped DEF RecordKnown, Live
<1>10. OldIsKept'
  <2>1. IsOld(legacy)' BY <1>6, <1>7 DEF IsOld
  <2>2. \A j \in Pids : /\ proc'[j].at = proc[j].at /\ proc'[j].marked = proc[j].marked
                        /\ proc[j].at # "out" => proc'[j].prev = proc[j].prev
    BY <1>1, <1>2, <1>5, <1>7 DEF RegistryInv, SessionTypeOK
  <2>3. IsOld(own'[OldPid]) = IsOld(own[OldPid]) BY <1>6 DEF IsOld
  <2> QED BY <1>1, <1>6, <1>7, <2>1, <2>2, <2>3 DEF RegistryInv, OldIsKept, IsOld
<1>11. /\ q.life >= 1 /\ q.life = 1 /\ p = OldPid /\ q.at = "out" /\ ~q.marked /\ legacy' \in Files
       /\ UNCHANGED <<own, reader, ender, accepted>>
  BY <1>2, <1>6, <1>7, <1>8
<1> QED BY <1>1, <1>3, <1>4, <1>9, <1>10, <1>11, LegacyStep

\* It removes its own file.
LEMMA ClearOwnStep == ASSUME RegistryInv, NEW p \in Pids, ClearOwn(p) PROVE RegistryInv'
<1> DEFINE q == [proc[p] EXCEPT !.at = "clearing", !.marked = FALSE,
                                !.prev = IF legacy.pid = p THEN legacy ELSE NoFile]
<1>1. /\ proc[p].kind \in Supervised /\ proc[p].at = "out" /\ proc[p].marked
      /\ proc' = [proc EXCEPT ![p] = q] /\ own' = [own EXCEPT ![p] = NoFile]
      /\ UNCHANGED <<legacy, reader, ender, accepted>>
  BY DEF ClearOwn
<1>2. legacy \in Files /\ NoFile \in Files /\ own \in [Pids -> Files]
  BY DEF RegistryInv, SessionTypeOK, Files
<1>3. /\ q \in ProcRecords /\ q.at = "clearing" /\ q.kind = proc[p].kind /\ q.life = proc[p].life
      /\ q.mark = proc[p].mark /\ ~q.marked
  BY <1>2, ProcessTyped DEF ProcRecords, MarkSteps
<1> HIDE DEF q
<1>4. proc[p].mark >= 1
  <2>1. own[p].life >= 1 /\ own[p].mark = proc[p].mark
    BY <1>1, ProcessTyped DEF ProcessKnown, Supervised
  <2> QED BY <1>2, <2>1, FilesTyped DEF Records
<1>5. Advances(proc[p], q) BY <1>3, ProcessTyped DEF Advances
<1>6. proc'[p] = q /\ proc' \in [Pids -> ProcRecords] /\ RecordKnown(legacy)
  BY <1>1, <1>3, <1>5, StillKnown
<1>7. \A r \in Files : RecordKnown(r) => RecordKnown(r)' BY <1>1, <1>3, <1>5, StillKnown
<1>8. RecordKnown(legacy)' BY <1>1, <1>2, <1>6, <1>7 DEF RecordKnown, Live, HasMarked
<1>9. /\ own' \in [Pids -> Files] /\ own'[p] = NoFile /\ \A j \in Pids \ {p} : own'[j] = own[j]
  BY <1>1, <1>2
<1>10. RecordKnown(own[p])' BY <1>6, <1>9, EmptyIsKnown DEF RecordKnown, Live, HasMarked
<1>11. ProcessKnown(p)'
  BY <1>1, <1>3, <1>4, <1>6, <1>9, ProcessTyped DEF ProcessKnown, Supervised
<1>12. \A j \in Pids : ProcessKnown(j)' BY <1>1, <1>3, <1>9, <1>11, OthersStay
<1>13. OldIsKept'
  <2>1. CASE OldPid = p BY <1>1, <1>3, <1>6, <2>1 DEF OldIsKept, Supervised
  <2>2. CASE OldPid # p
    <3>1. proc'[OldPid] = proc[OldPid] /\ own'[OldPid] = own[OldPid]
      BY <1>1, <1>9, <2>2, RegistryBounds DEF RegistryInv, SessionTypeOK
    <3> QED BY <1>1, <3>1 DEF RegistryInv, OldIsKept, IsOld
  <2> QED BY <2>1, <2>2
<1>14. EndReachesItsLaunch'
  <2> SUFFICES ASSUME NEW j \in Pids, proc'[j].marked
               PROVE  own'[j].end <=> [pid |-> j, life |-> proc'[j].life] \in accepted'
    BY DEF EndReachesItsLaunch
  <2>1. j # p BY <1>3, <1>6
  <2>2. proc'[j] = proc[j] /\ own'[j] = own[j] BY <1>1, <1>9, <2>1 DEF RegistryInv, SessionTypeOK
  <2> QED BY <1>1, <2>2 DEF RegistryInv, EndReachesItsLaunch
<1> QED
  BY <1>1, <1>2, <1>3, <1>5, <1>8, <1>9, <1>10, <1>12, <1>13, <1>14, ProcessStep

\* The parts of the invariant, for a step of a reader or of the one that asks for an end.
LEMMA ReadersStep ==
  ASSUME RegistryInv, UNCHANGED proc, SessionTypeOK', FilesKnown', ReaderKnown', EndsKnown',
         OldIsKept', EndReachesItsLaunch',
         \A p \in Pids : proc[p].marked =>
           own'[p].pid = own[p].pid /\ own'[p].life = own[p].life /\ own'[p].mark = own[p].mark
  PROVE  RegistryInv'
<1>1. \A p \in Pids : ProcessKnown(p)' BY SMTT(30) DEF RegistryInv, ProcessKnown
<1> QED BY <1>1 DEF RegistryInv

\* A reader finds the record of a process that is gone, or is another one by now.
LEMMA ReadDeadStep ==
  ASSUME RegistryInv, NEW f \in Pids \cup {"legacy"}, ReadDead(f)
  PROVE  RegistryInv'
<1>1. /\ reader' = [at |-> "discard", file |-> f, rec |-> Content(f)] /\ ~Live(Content(f))
      /\ UNCHANGED <<proc, own, legacy, ender, accepted>>
  BY DEF ReadDead
<1>2. Content(f) \in Files /\ RecordKnown(Content(f))
  BY DEF RegistryInv, SessionTypeOK, FilesKnown, Content
<1>3. reader'.rec = Content(f) BY <1>1
<1>4. SessionTypeOK' BY <1>1, <1>2 DEF RegistryInv, SessionTypeOK, ReaderAt
<1>5. ReaderKnown' BY <1>1, <1>2, <1>3 DEF ReaderKnown, RecordKnown, Live, HasMarked
<1> QED
  BY <1>1, <1>4, <1>5, ReadersStep DEF RegistryInv, FilesKnown, EndsKnown, OldIsKept,
     EndReachesItsLaunch, RecordKnown, EndKnown, HasMarked, Live, IsOld

\* A marked session's file is that of a live process.
LEMMA MarkedIsLive ==
  ASSUME RegistryInv, NEW p \in Pids, proc[p].marked
  PROVE  own[p] \in Records /\ Live(own[p])
<1>1. own[p].life = proc[p].life /\ own[p].pid = p /\ proc[p].kind # "gone" /\ proc[p].life >= 1
  BY ProcessTyped DEF ProcessKnown, Supervised
<1>2. own[p] \in Files BY DEF RegistryInv, SessionTypeOK
<1> QED BY <1>1, <1>2, FilesTyped DEF Live, NoFile

\* What names a session of the older engine is live.
LEMMA OldIsLive ==
  ASSUME RegistryInv, NEW r, IsOld(r), proc[OldPid].kind = "old"
  PROVE  Live(r)
BY ProcessTyped, RegistryBounds DEF IsOld, Live, NoFile, ProcessKnown

\* A reader removes what it found dead, which is dead still.
LEMMA DiscardStep == ASSUME RegistryInv, Discard PROVE RegistryInv'
<1> DEFINE f == reader.file
<1>1. /\ reader.at = "discard" /\ f \in Pids \cup {"legacy"} /\ reader' = NoRead
      /\ ~Live(reader.rec) /\ UNCHANGED <<proc, ender, accepted>>
  BY DEF Discard, RegistryInv, ReaderKnown, SessionTypeOK
<1>2. /\ legacy' \in {legacy, NoFile} /\ (legacy' # legacy => ~Live(legacy))
      /\ own' \in [Pids -> Files]
      /\ \A p \in Pids : own'[p] = own[p] \/ (own'[p] = NoFile /\ ~Live(own[p]))
  BY <1>1 DEF Discard, Content, RegistryInv, SessionTypeOK, Files
<1> HIDE DEF f
<1>3. SessionTypeOK'
  BY <1>1, <1>2, RegistryBounds DEF RegistryInv, SessionTypeOK, Files, NoRead, ReaderAt
<1>4. FilesKnown'
  <2>1. proc \in [Pids -> ProcRecords] BY DEF RegistryInv, SessionTypeOK, ProcRecords
  <2>2. RecordKnown(NoFile)' BY <1>1, <2>1, EmptyIsKnown
  <2> QED BY <1>1, <1>2, <2>2 DEF RegistryInv, FilesKnown, RecordKnown, Live, HasMarked
<1>5. ReaderKnown' BY <1>1 DEF ReaderKnown, NoRead
<1>6. \A p \in Pids : proc[p].marked => own'[p] = own[p] BY <1>2, MarkedIsLive
<1>7. OldIsKept'
  <2> SUFFICES ASSUME proc[OldPid].kind = "old"
               PROVE  \/ IsOld(own'[OldPid])
                      \/ /\ own'[OldPid] = NoFile /\ IsOld(legacy')
                         /\ \A p \in Pids : /\ proc[p].at \in {"out", "check", "link"} /\ ~proc[p].marked
                                            /\ proc[p].at # "out" => IsOld(proc[p].prev)
    BY <1>1 DEF OldIsKept, IsOld
  <2>1. IsOld(own[OldPid]) => own'[OldPid] = own[OldPid] BY <1>2, OldIsLive, RegistryBounds
  <2>2. IsOld(legacy) => legacy' = legacy BY <1>2, OldIsLive
  <2>3. own[OldPid] = NoFile => own'[OldPid] = NoFile BY <1>2, RegistryBounds
  <2> QED BY <2>1, <2>2, <2>3 DEF RegistryInv, OldIsKept
<1>8. EndReachesItsLaunch' BY <1>1, <1>6 DEF RegistryInv, EndReachesItsLaunch
<1>9. EndsKnown' BY <1>1, SMTT(30) DEF RegistryInv, EndsKnown, EndKnown, HasMarked
<1> QED BY <1>1, <1>3, <1>4, <1>5, <1>6, <1>7, <1>8, <1>9, ReadersStep

\* The user asks for the end of a launch: its record is found ...
LEMMA EndLooksStep == ASSUME RegistryInv, EndLooks PROVE RegistryInv'
<1>1. PICK r \in Listed : /\ Live(r) /\ proc[r.pid].kind = "pinned"
                          /\ ender' = [at |-> "found", who |-> [pid |-> r.pid, life |-> r.life]]
  BY DEF EndLooks
<1>2. UNCHANGED <<proc, own, legacy, reader, accepted>> BY DEF EndLooks
<1>3. r \in Files /\ RecordKnown(r) BY DEF Listed, RegistryInv, SessionTypeOK, FilesKnown
<1>4. [pid |-> r.pid, life |-> r.life] \in Launches BY <1>3, FilesTyped DEF Launches
<1>5. SessionTypeOK' BY <1>1, <1>2, <1>4 DEF RegistryInv, SessionTypeOK
<1>6. EndKnown([pid |-> r.pid, life |-> r.life])
  <2>1. r.pid \in Pids /\ r.life \in Nat /\ r.life = proc[r.pid].life
    BY <1>1, <1>3, FilesTyped, RegistryBounds DEF Live, Lives
  <2>2. r.life >= 1 BY <1>1, <2>1, ProcessTyped DEF ProcessKnown
  <2> QED BY <1>1, <1>3, <2>1, <2>2 DEF EndKnown, RecordKnown, Live
<1>7. EndsKnown' BY <1>1, <1>2, <1>6 DEF RegistryInv, EndsKnown, EndKnown, HasMarked
<1> QED
  BY <1>2, <1>5, <1>7, ReadersStep DEF RegistryInv, FilesKnown, ReaderKnown, OldIsKept,
     EndReachesItsLaunch, RecordKnown, HasMarked, Live, IsOld

\* ... and rewritten, if it is of that launch still.
LEMMA EndWritesStep == ASSUME RegistryInv, EndWrites PROVE RegistryInv'
<1> DEFINE x == ender.who
           p == x.pid
<1>1. /\ ender.at = "found" /\ x \in Launches /\ EndKnown(x) /\ ender' = NoEnd /\ p \in Pids
      /\ UNCHANGED <<proc, legacy, reader>>
  BY DEF EndWrites, RegistryInv, EndsKnown, SessionTypeOK, Launches
<1>2. NoEnd.at = "idle" /\ NoEnd.who \in Launches BY RegistryBounds DEF NoEnd, Launches, Lives
<1>3. own \in [Pids -> Files] /\ accepted \subseteq Launches BY SMTT(30) DEF RegistryInv, SessionTypeOK
<1>4. CASE own[p].pid # p \/ own[p].life # x.life
  <2>1. UNCHANGED <<own, accepted>> BY <1>4 DEF EndWrites
  <2>2. SessionTypeOK' BY <1>1, <1>2, <2>1 DEF RegistryInv, SessionTypeOK, NoEnd
  <2> QED
    BY <1>1, <1>2, <2>1, <2>2, ReadersStep, ZenonT(30) DEF RegistryInv, FilesKnown, ReaderKnown, OldIsKept, EndsKnown,
       EndReachesItsLaunch, RecordKnown, EndKnown, HasMarked, Live, IsOld
<1>5. CASE own[p].pid = p /\ own[p].life = x.life
  <2> DEFINE r == [own[p] EXCEPT !.end = TRUE]
  <2>1. own' = [own EXCEPT ![p] = r] /\ accepted' = accepted \cup {x}
    BY <1>1, <1>3, <1>5 DEF EndWrites
  <2>2. x.life >= 1 /\ own[p] \in Records
    BY <1>1, <1>3, <1>5, FilesTyped, ProcessTyped DEF EndKnown
  <2>3. /\ r \in Records /\ r.pid = own[p].pid /\ r.life = own[p].life /\ r.mark = own[p].mark
        /\ r.end = TRUE
    BY <2>2 DEF Records
  <2> HIDE DEF r
  <2>4. own'[p] = r /\ (\A j \in Pids \ {p} : own'[j] = own[j]) /\ own' \in [Pids -> Files]
    BY <1>1, <1>3, <2>1, <2>3 DEF Files
  <2>5. SessionTypeOK' BY <1>1, <1>2, <2>1, <2>4 DEF RegistryInv, SessionTypeOK, NoEnd
  <2>6. Live(own[p]) <=> Live(r) BY <2>2, <2>3 DEF Live, Records, NoFile
  <2>7. FilesKnown'
    <3>1. RecordKnown(own[p]) BY <1>1 DEF RegistryInv, FilesKnown
    <3>2. RecordKnown(r) BY <2>3, <2>6, <3>1 DEF RecordKnown
    <3> QED BY <1>1, <2>4, <3>2 DEF RegistryInv, FilesKnown, RecordKnown, Live, HasMarked
  <2>8. EndsKnown' BY <1>1, <1>2, <2>1 DEF RegistryInv, EndsKnown, EndKnown, HasMarked
  <2>9. ReaderKnown' BY <1>1 DEF RegistryInv, ReaderKnown, RecordKnown, Live, HasMarked
  <2>10. OldIsKept'
    <3>1. IsOld(own[OldPid]) => IsOld(own'[OldPid])
      BY <1>1, <2>3, <2>4, RegistryBounds DEF IsOld
    <3>2. own[OldPid] = NoFile => own'[OldPid] = NoFile
      BY <2>2, <2>4, RegistryBounds DEF Records, NoFile
    <3> QED BY <1>1, <3>1, <3>2 DEF RegistryInv, OldIsKept, IsOld
  <2>11. EndReachesItsLaunch'
    <3> SUFFICES ASSUME NEW j \in Pids, proc[j].marked
                 PROVE  own'[j].end <=> [pid |-> j, life |-> proc[j].life] \in accepted'
      BY <1>1 DEF EndReachesItsLaunch
    <3>1. CASE j # p
      <4>1. [pid |-> j, life |-> proc[j].life] # x BY <3>1
      <4> QED BY <2>1, <2>4, <3>1, <4>1 DEF RegistryInv, EndReachesItsLaunch
    <3>2. CASE j = p
      <4>1. x = [pid |-> j, life |-> proc[j].life]
        BY <1>1, <1>5, <3>2, ProcessTyped DEF ProcessKnown, Launches
      <4> QED BY <2>1, <2>3, <2>4, <3>2, <4>1
    <3> QED BY <3>1, <3>2
  <2> QED BY <1>1, <2>3, <2>4, <2>5, <2>7, <2>8, <2>9, <2>10, <2>11, ReadersStep
<1> QED BY <1>4, <1>5

\* Nobody but the older engine runs, and its record is the only one.
LEMMA RegistryInitially == SessionInit => RegistryInv
<1> SUFFICES ASSUME SessionInit PROVE RegistryInv OBVIOUS
<1> DEFINE q == [NoProc EXCEPT !.kind = "old", !.life = 1, !.mark = 1]
<1>1. 1 \in Lives /\ 0 \in Lives /\ 0 \in 0..MaxMarks /\ 1 \in 0..MaxMarks /\ OldPid \in Pids
  BY RegistryBounds DEF Lives
<1>2. /\ NoProc \in ProcRecords /\ NoProc.kind = "gone" /\ NoProc.at = "out" /\ ~NoProc.marked
      /\ NoProc.life = 0
  BY <1>1 DEF NoProc, ProcRecords, Kinds, MarkSteps, Files
<1>3. q \in ProcRecords /\ q.kind = "old" /\ q.at = "out" /\ ~q.marked /\ q.life = 1 /\ q.mark = 1
  BY <1>1, <1>2 DEF ProcRecords, Kinds
<1>4. \A p \in Pids : proc[p] = IF p = OldPid THEN q ELSE NoProc BY DEF SessionInit
<1> HIDE DEF q
<1>5. proc \in [Pids -> ProcRecords] BY <1>2, <1>3 DEF SessionInit, q
<1>6. legacy \in Files /\ legacy.pid = OldPid /\ legacy.life = 1 /\ legacy.mark = 1
  BY RegistryBounds DEF SessionInit, Files, Records
<1>7. own \in [Pids -> Files] /\ \A p \in Pids : own[p] = NoFile BY DEF SessionInit, Files
<1>8. SessionTypeOK
  <2>1. reader = NoRead /\ ender = NoEnd /\ accepted = {} BY DEF SessionInit
  <2>2. reader \in [at: ReaderAt, file: Pids \cup {"legacy"}, rec: Files]
    BY <2>1 DEF NoRead, ReaderAt, Files
  <2>3. ender \in [at: {"idle", "found"}, who: Launches] BY <1>1, <2>1 DEF NoEnd, Launches
  <2> QED BY <1>5, <1>6, <1>7, <2>1, <2>2, <2>3 DEF SessionTypeOK, ProcRecords
<1>9. \A p \in Pids : ProcessKnown(p)
  <2> SUFFICES ASSUME NEW p \in Pids PROVE ProcessKnown(p) OBVIOUS
  <2>1. CASE p = OldPid BY <1>3, <1>4, <2>1 DEF ProcessKnown
  <2>2. CASE p # OldPid BY <1>2, <1>4, <2>2 DEF ProcessKnown
  <2> QED BY <2>1, <2>2
<1>10. FilesKnown
  <2>1. RecordKnown(legacy) BY <1>1, <1>3, <1>4, <1>6 DEF RecordKnown
  <2>2. RecordKnown(NoFile)
    BY <1>1, <1>2, <1>3, <1>4, RegistryBounds DEF RecordKnown, Live, NoFile
  <2> QED BY <1>7, <2>1, <2>2 DEF FilesKnown
<1>11. ReaderKnown /\ EndsKnown BY DEF SessionInit, ReaderKnown, EndsKnown, NoRead, NoEnd
<1>12. OldIsKept BY <1>1, <1>2, <1>3, <1>4, <1>6, <1>7 DEF OldIsKept, IsOld
<1>13. EndReachesItsLaunch BY <1>2, <1>3, <1>4 DEF EndReachesItsLaunch
<1> QED BY <1>8, <1>9, <1>10, <1>11, <1>12, <1>13 DEF RegistryInv

\* Every step keeps the invariant.
LEMMA RegistryStep == RegistryInv /\ [SessionNext]_sessionVars => RegistryInv'
<1> SUFFICES ASSUME RegistryInv, [SessionNext]_sessionVars PROVE RegistryInv' OBVIOUS
<1>1. CASE UNCHANGED sessionVars
  <2>1. FilesKnown' /\ ReaderKnown' /\ EndsKnown'
    BY <1>1 DEF sessionVars, RegistryInv, FilesKnown, ReaderKnown, EndsKnown, RecordKnown, EndKnown,
       HasMarked, Live
  <2>2. SessionTypeOK' /\ OldIsKept' /\ EndReachesItsLaunch'
    BY <1>1 DEF sessionVars, RegistryInv, SessionTypeOK, OldIsKept, EndReachesItsLaunch, IsOld
  <2> QED BY <1>1, <2>1, <2>2, ReadersStep DEF sessionVars
<1>2. CASE SessionNext
  BY <1>2, StartsStep, DiesStep, OldMarksStep, MarkReadsStep, MarkChecksStep, MarkLinksStep,
     MarkOwnStep, MarkLegacyStep, ClearOwnStep, ClearLegacyStep, ReadDeadStep, DiscardStep,
     EndLooksStep, EndWritesStep
     DEF SessionNext, Supervised
<1> QED BY <1>1, <1>2

\* The records, the processes and the readers keep their types (session.py).
THEOREM SessionTypes == SessionSpec => []SessionTypeOK
<1>1. RegistryInv => SessionTypeOK BY DEF RegistryInv
<1> QED BY RegistryInitially, RegistryStep, <1>1, PTL DEF SessionSpec

\* The invariant shows every session that has marked itself.
LEMMA SessionIsFound == RegistryInv => SessionIsSeen
<1> SUFFICES ASSUME RegistryInv, NEW p \in Pids, proc[p].marked
             PROVE  \E r \in NewestOf(p) : r.mark = proc[p].mark
  BY DEF SessionIsSeen
<1>1. own[p] \in Records /\ Live(own[p]) BY MarkedIsLive
<1>2. own[p].pid = p /\ own[p].mark = proc[p].mark BY ProcessTyped DEF ProcessKnown
<1>3. own[p] \in RecordsOf(p) BY <1>1, <1>2 DEF RecordsOf, Listed, Live
<1>4. \A q \in RecordsOf(p) : q.mark <= own[p].mark
  BY <1>2 DEF RecordsOf, Listed, RegistryInv, FilesKnown, RecordKnown
<1> QED BY <1>2, <1>3, <1>4 DEF NewestOf

\* A marked session is found on the seat it named last, whoever prunes, links or replaces files
\* meanwhile (session.py:219-228, 233-241).
THEOREM SessionsAreSeen == SessionSpec => []SessionIsSeen
BY RegistryInitially, RegistryStep, SessionIsFound, PTL DEF SessionSpec

\* The invariant shows the session of the older engine.
LEMMA OldIsListed == RegistryInv => OldSessionIsSeen
<1> SUFFICES ASSUME RegistryInv, NEW p \in Pids, proc[p].kind = "old" PROVE RecordsOf(p) # {}
  BY DEF OldSessionIsSeen
<1>1. p = OldPid BY ProcessTyped DEF ProcessKnown
<1>2. PICK r \in Listed : IsOld(r)
  BY <1>1, RegistryBounds DEF RegistryInv, OldIsKept, Listed
<1>3. Live(r) /\ r.pid = p BY <1>1, <1>2, OldIsLive DEF IsOld
<1> QED BY <1>2, <1>3 DEF RecordsOf, Live

\* The session of an older engine stays listed when newer ones take the legacy file
\* (session.py:97-108).
THEOREM OldSessionsAreSeen == SessionSpec => []OldSessionIsSeen
BY RegistryInitially, RegistryStep, OldIsListed, PTL DEF SessionSpec

\* A pinned session is asked to end exactly if the user asked for that launch
\* (session.py:311-317).
THEOREM EndsReachTheirLaunch == SessionSpec => []EndReachesItsLaunch
<1>1. RegistryInv => EndReachesItsLaunch BY DEF RegistryInv
<1> QED BY RegistryInitially, RegistryStep, <1>1, PTL DEF SessionSpec

=============================================================================
