------------------------------- MODULE RunLoop -------------------------------
(***************************************************************************)
(* launcher.run(): one supervisor per terminal keeps a child working by    *)
(* restarting it on another seat.  A signal (a banner, a line of the       *)
(* child's own log, the store, the clock) is decided while the child still *)
(* runs: the seat is rested, a landing chosen, the landing verified, the   *)
(* conversation identified; then the child is stopped and the hop that was *)
(* decided is committed.  All supervisors, the user and the app's polls    *)
(* share the active pointer and the rests, under the lock only for moments.*)
(*                                                                         *)
(* Hops in place, crossings and paid seats are in SeatSwap, Crossings and  *)
(* Handoff; here every hop is a restart within one kind.                   *)
(***************************************************************************)
EXTENDS Integers, FiniteSets

CONSTANTS LoopSeats, Loops,
          LoopActs,              \* what the user and the provider do
          MaxSwitches, MaxActs   \* bounds: the restart budget; their acts

ASSUME LoopBounds == /\ LoopSeats # {} /\ MaxSwitches \in Nat /\ MaxActs \in Nat

VARIABLES
  tool,       \* whose sessions these are: codex follows a click, claude leaves it to the next
  pointer,    \* the active seat
  rest,       \* limited_until in the future, by its limit_source
  autoSwitch, \* the setting
  away,       \* an auth_error or a 403 on file
  out,        \* the provider: the seat has no quota left
  barred,     \* the provider: the login or the entitlement is gone
  loop,       \* the supervisors; was and moved are history
  acts

loopStore == <<pointer, rest, autoSwitch, away>>
loopWorld == <<out, barred>>
loopVars  == <<tool, loopStore, loopWorld, loop, acts>>

NoPick == "no seat"
ASSUME NoPickIsNoSeat == NoPick \notin LoopSeats
Rests   == {"free", "reactive", "usage", "hard"}
Reasons == {"none", "limit", "auth", "manual", "relogin", "exit"}
LoopPlaces == {"off", "entering", "running", "probing", "judged", "approved", "ready", "undoing",
               "stopping", "exhausted", "resting", "waiting", "landed", "ended"}
NoHit == [reason |-> "none", email |-> NoPick, ticked |-> FALSE]

\* was: the pointer when the last decision began; moved: somebody else wrote the pointer or
\* the setting since.
FreshLoop ==
  [at |-> "off", home |-> NoPick, next |-> NoPick, switches |-> 0, known |-> FALSE,
   failed |-> {}, hit |-> NoHit, blocked |-> FALSE, due |-> TRUE, dirty |-> TRUE,
   clicked |-> NoPick, handled |-> FALSE, logged |-> FALSE, cold |-> TRUE, gone |-> FALSE,
   was |-> NoPick, moved |-> FALSE]

LoopFresh ==
  /\ tool \in {"codex", "claude"} /\ autoSwitch = TRUE
  /\ rest = [s \in LoopSeats |-> "free"] /\ out = [s \in LoopSeats |-> FALSE]
  /\ barred = {} /\ away = {}
  /\ loop = [k \in Loops |-> FreshLoop] /\ acts = 0
LoopInit == pointer \in LoopSeats /\ LoopFresh

-----------------------------------------------------------------------------
(* What the operations share. *)

\* choose(): any seat that is not rested, not turned away and not excluded.
Free(rests, turned, excluded) ==
  {s \in LoopSeats \ (turned \cup excluded) : rests[s] = "free"}
Usable(excluded)  == Free(rest, away, excluded)
UsableNow(excluded) == Free(rest', away', excluded)   \* after what this step files

\* Claude's conversation must be identified before the child may be stopped; Codex resumes the
\* last one of its home.
Resumable(k) == tool = "codex" \/ loop[k].known

\* Only this supervisor's memory changes.
Keep(k, r) == loop' = [loop EXCEPT ![k] = r] /\ UNCHANGED loopStore

\* A save of the store shows on every other supervisor's next heartbeat. The caller has
\* said what it wrote.
Told(k, r) ==
  loop' = [j \in Loops |->
             IF j = k THEN r
             ELSE [loop[j] EXCEPT !.dirty = TRUE,
                    !.moved = @ \/ pointer' # pointer \/ autoSwitch' # autoSwitch]]

\* Fresh usage of the seats in S, as far as it was answered, committed: a seat that is out
\* rests, one with headroom does not, except that a hard rest waits for its hour; a 403 is
\* filed as such.
Answered(A) ==
  /\ rest' = [s \in LoopSeats |->
       IF s \notin A \ barred \/ rest[s] = "hard" THEN rest[s]
       ELSE IF out[s] THEN "usage" ELSE "free"]
  /\ away' = away \cup (A \cap barred)

-----------------------------------------------------------------------------
(* The user, the provider, the clock and the app's polls. *)

LoopClick(s) ==
  /\ s # pointer /\ pointer' = s
  /\ loop' = [j \in Loops |-> [loop[j] EXCEPT !.dirty = TRUE, !.clicked = s, !.moved = TRUE]]
  /\ UNCHANGED <<rest, autoSwitch, away, loopWorld>>
LoopToggle ==
  /\ autoSwitch' = ~autoSwitch
  /\ loop' = [j \in Loops |-> [loop[j] EXCEPT !.dirty = TRUE, !.moved = TRUE]]
  /\ UNCHANGED <<pointer, rest, away, loopWorld>>

Quota(s) == out' = [out EXCEPT ![s] = ~@] /\ UNCHANGED <<loopStore, barred, loop>>
Bar(s)   == barred' = barred \cup {s} /\ UNCHANGED <<loopStore, out, loop>>

\* A rest ends by the clock, whether or not the quota is back: nobody writes the store.
RestEnds(s) ==
  /\ rest[s] # "free"
  /\ rest' = [rest EXCEPT ![s] = "free"]
  /\ UNCHANGED <<pointer, autoSwitch, away, loopWorld, loop>>

\* The app's poll files what the usage endpoint says.
LoopPoll(s) ==
  /\ Answered({s}) /\ <<rest', away'>> # <<rest, away>>
  /\ loop' = [j \in Loops |-> [loop[j] EXCEPT !.dirty = TRUE]]
  /\ UNCHANGED <<pointer, autoSwitch, loopWorld>>

\* TICK_BLOCK_S has passed.
BlockEnds(k) ==
  /\ loop[k].at = "running" /\ ~loop[k].due
  /\ Keep(k, [loop[k] EXCEPT !.due = TRUE]) /\ UNCHANGED loopWorld

-----------------------------------------------------------------------------
(* Launching. *)

LoopLaunch(k) ==
  LET r == [loop[k] EXCEPT !.moved = FALSE]
  IN /\ loop[k].at = "off"
     /\ \/ \E s \in Usable({}) :
             /\ pointer' = s /\ UNCHANGED <<rest, autoSwitch, away>>
             /\ LET went == [r EXCEPT !.at = "entering", !.was = s]
                IN IF s = pointer THEN loop' = [loop EXCEPT ![k] = went] ELSE Told(k, went)
        \/ Usable({}) = {} /\ away # LoopSeats
             /\ Keep(k, [r EXCEPT !.at = "waiting", !.was = pointer])
        \/ away = LoopSeats /\ Keep(k, [r EXCEPT !.at = "ended"])
     /\ UNCHANGED loopWorld

\* Before every child: the seat that was committed, else the active one.
LoopEnter(k) ==
  /\ loop[k].at = "entering"
  /\ Keep(k, [loop[k] EXCEPT !.at = "running", !.next = NoPick, !.cold = FALSE, !.hit = NoHit,
       !.home = IF loop[k].next # NoPick THEN loop[k].next ELSE pointer,
       !.blocked = FALSE, !.due = TRUE, !.dirty = TRUE, !.handled = FALSE, !.logged = FALSE])
  /\ UNCHANGED loopWorld

\* The child's conversation becomes known: a transcript, a rollout of its own.
Identified(k) ==
  /\ loop[k].at = "running" /\ ~loop[k].known
  /\ Keep(k, [loop[k] EXCEPT !.known = TRUE]) /\ UNCHANGED loopWorld

-----------------------------------------------------------------------------
(* _decide_and_maybe_stop(): the first lock.  r is the supervisor as the   *)
(* caller leaves it.                                                       *)

\* Where a decision goes that ends in no hop: a live child stays, one that has exited is over.
StaysUnblocked(r, ticked) ==    \* mutant: the heartbeat is not told to look again
  IF r.gone THEN [r EXCEPT !.at = "ended", !.hit = NoHit]
  ELSE [r EXCEPT !.at = "running", !.handled = TRUE, !.hit = NoHit, !.due = @ /\ ~ticked]
Stays(r, ticked) ==
  IF r.gone THEN [r EXCEPT !.at = "ended", !.hit = NoHit]
  ELSE [r EXCEPT !.at = "running", !.handled = TRUE, !.hit = NoHit,
                 !.blocked = @ \/ ticked, !.due = @ /\ ~ticked]

Begun(r) == [r EXCEPT !.was = pointer, !.moved = FALSE, !.handled = TRUE]

\* handle_limit stamps the seat the child is billed to; a soft signal that knows no more
\* than the rest already on file leaves it.
Stamp(s, source) ==
  rest' = IF rest[s] = "free" \/ source = "hard" THEN [rest EXCEPT ![s] = source] ELSE rest

\* The pointer is lent to the seat that is billed, and given back at once unless a landing
\* is approved. Saved with the stamp.
DecideLimitUnsaved(k, r, source, ticked) ==    \* mutant: the loan is not saved
  LET s == r.home
      landings == Usable(r.failed \cup {s})
      approved == autoSwitch /\ landings # {} /\ r.switches < MaxSwitches
      here == [Begun(r) EXCEPT !.dirty = TRUE]
  IN /\ Stamp(s, source)
     /\ UNCHANGED <<pointer, autoSwitch, away, loopWorld>>
     /\ IF ~approved THEN Told(k, Stays(here, ticked))
        ELSE \E e \in landings :
               Told(k, [here EXCEPT !.at = IF source = "hard" THEN "approved" ELSE "ready",
                          !.hit = [reason |-> "limit", email |-> e, ticked |-> ticked]])
DecideLimit(k, r, source, ticked) ==
  LET s == r.home
      landings == Usable(r.failed \cup {s})
      approved == autoSwitch /\ landings # {} /\ r.switches < MaxSwitches
      here == [Begun(r) EXCEPT !.dirty = TRUE]
  IN /\ Stamp(s, source)
     /\ pointer' = IF approved THEN s ELSE pointer
     /\ UNCHANGED <<autoSwitch, away, loopWorld>>
     /\ IF ~approved THEN Told(k, Stays(here, ticked))
        ELSE \E e \in landings :
               Told(k, [here EXCEPT !.at = IF source = "hard" THEN "approved" ELSE "ready",
                          !.hit = [reason |-> "limit", email |-> e, ticked |-> ticked]])

\* The login of this seat is dead, or its entitlement: leave it. The pointer is lent in
\* memory; it reaches the store only if something else is saved (lends), or is given back.
DecideDead(k, r, files, lends) ==
  LET s == r.home
      failed == r.failed \cup {s}
      landings == Usable(failed)
      approved == autoSwitch /\ landings # {} /\ r.switches < MaxSwitches
      saves == files \/ (~approved /\ pointer # s)
      here == [Begun(r) EXCEPT !.failed = failed, !.dirty = @ \/ saves]
      Write(to) == IF saves THEN Told(k, to) ELSE loop' = [loop EXCEPT ![k] = to]
  IN /\ away' = IF files THEN away \cup {s} ELSE away
     /\ pointer' = IF approved /\ lends THEN s ELSE pointer
     /\ UNCHANGED <<rest, autoSwitch, loopWorld>>
     /\ IF ~approved THEN Write(Stays(here, FALSE))
        ELSE \E e \in landings :
               Write([here EXCEPT !.at = "ready",
                        !.hit = [reason |-> "auth", email |-> e, ticked |-> FALSE]])

-----------------------------------------------------------------------------
(* The signals of a running child. *)

\* Its output looks like a limit or like dead credentials: ask the usage endpoint first.
LoopBanner(k, reason) ==
  /\ loop[k].at = "running"
  /\ IF reason = "limit" THEN out[loop[k].home] ELSE loop[k].home \in barred
  /\ Keep(k, [loop[k] EXCEPT !.at = "probing", !.hit.reason = reason])
  /\ UNCHANGED loopWorld

\* _probe(): what the endpoint says is filed first, and a save makes this supervisor look at
\* the store as well. Unknown dismisses a limit, not a dead login; a 403 is no limit. A reading
\* near the limit confirms one without stamping a rest.
Probed(k) ==
  LET s == loop[k].home
      asked == loop[k].hit.reason
      Judges(reason) == [loop[k] EXCEPT !.at = "judged", !.dirty = TRUE, !.hit.reason = reason]
      quiet == [Stays(loop[k], FALSE) EXCEPT !.dirty = TRUE]
  IN /\ loop[k].at = "probing"
     /\ UNCHANGED <<pointer, autoSwitch, loopWorld>>
     /\ \/ /\ Answered({s})
           /\ \/ s \in barred /\ Told(k, Judges("auth"))
              \/ s \notin barred /\ out[s] /\ asked = "limit" /\ Told(k, Judges("limit"))
              \/ s \notin barred /\ ~out[s] /\ asked = "limit" /\ Told(k, quiet)
        \/ /\ rest' = [rest EXCEPT ![s] = IF @ = "usage" THEN "free" ELSE @]
           /\ s \notin barred /\ out[s] /\ asked = "limit" /\ Told(k, Judges("limit"))
           /\ UNCHANGED away
        \/ /\ UNCHANGED <<rest, away>>
           /\ Told(k, IF asked = "limit" THEN quiet ELSE Judges("auth"))

\* The decision reads the store anew, under a lock of its own: others may have written it.
Judged(k) ==
  /\ loop[k].at = "judged"
  /\ IF loop[k].hit.reason = "limit" THEN DecideLimit(k, loop[k], "reactive", FALSE)
     ELSE DecideDead(k, loop[k], FALSE, FALSE)

\* A billing stop needs no second opinion, nor does the exact revocation message.
HardBanner(k) ==
  /\ loop[k].at = "running" /\ out[loop[k].home]
  /\ DecideLimit(k, loop[k], "hard", FALSE)
RevokedBanner(k) ==
  /\ loop[k].at = "running" /\ loop[k].home \in barred
  /\ DecideDead(k, loop[k], TRUE, TRUE)

\* A limit in the child's own log: kept for its exit, acted on unless just decided.
LogLine(k, source) ==
  LET r == [loop[k] EXCEPT !.logged = TRUE]
  IN /\ loop[k].at = "running" /\ out[loop[k].home]
     /\ IF loop[k].due THEN DecideLimit(k, r, source, TRUE)
        ELSE ~loop[k].logged /\ Keep(k, r) /\ UNCHANGED loopWorld

Stuck(k) == rest[loop[k].home] \in {"usage", "hard"}

\* _tick_state(): the store has changed. Codex follows a click, a running Claude does not; a
\* rest that somebody else's evidence stamped is a limit.
TickState(k) ==
  LET seen == [loop[k] EXCEPT !.dirty = FALSE, !.clicked = NoPick]
  IN /\ loop[k].at = "running" /\ loop[k].dirty
     /\ IF tool = "codex" /\ loop[k].clicked = pointer /\ pointer # loop[k].home
        THEN /\ Keep(k, [seen EXCEPT !.at = "stopping", !.was = pointer, !.moved = FALSE,
                    !.hit = [reason |-> "manual", email |-> pointer, ticked |-> FALSE]])
             /\ UNCHANGED loopWorld
        ELSE IF Stuck(k) /\ loop[k].due
        THEN DecideLimit(k, seen, rest[loop[k].home], TRUE)
        ELSE Keep(k, seen) /\ UNCHANGED loopWorld

\* _tick_recover(): stuck on a rested seat, and by now a sibling may be back.
TickRecover(k) ==
  /\ loop[k].at = "running" /\ ~loop[k].dirty /\ loop[k].blocked /\ loop[k].due
  /\ IF /\ Stuck(k) /\ loop[k].switches < MaxSwitches
        /\ Usable(loop[k].failed \cup {loop[k].home}) # {}
     THEN DecideLimit(k, loop[k], rest[loop[k].home], TRUE)
     ELSE Keep(k, [loop[k] EXCEPT !.due = FALSE]) /\ UNCHANGED loopWorld

\* _relogin(): the login was put back where the child reads it; restart on the same seat.
Relogin(k) ==
  /\ loop[k].at = "running" /\ tool = "claude" /\ loop[k].known /\ autoSwitch
  /\ loop[k].switches < MaxSwitches
  /\ Keep(k, [loop[k] EXCEPT !.at = "stopping", !.was = pointer, !.moved = FALSE,
       !.hit = [reason |-> "relogin", email |-> loop[k].home, ticked |-> FALSE]])
  /\ UNCHANGED loopWorld

-----------------------------------------------------------------------------
(* After the first lock. *)

\* A hard limit: the landing is proven against the endpoint first, without the lock.
Preflight(k) ==
  LET skip == loop[k].failed \cup {loop[k].home}
  IN /\ loop[k].at = "approved"
     /\ \E A \in SUBSET (LoopSeats \ skip) : Answered(A)
     /\ UNCHANGED <<pointer, autoSwitch, loopWorld>>
     /\ \/ \E e \in UsableNow(skip) : Told(k, [loop[k] EXCEPT !.at = "ready", !.hit.email = e])
        \/ UsableNow(skip) = {} /\ Told(k, [loop[k] EXCEPT !.at = "undoing"])

\* The last look at the setting, and can the conversation be taken along?
Justify(k) ==
  /\ loop[k].at = "ready"
  /\ Keep(k, [loop[k] EXCEPT !.at = IF autoSwitch /\ Resumable(k) THEN "stopping"
                                    ELSE "undoing"])
  /\ UNCHANGED loopWorld

\* _undo_realign(): only what is still ours.
UndoForgotten(k) ==    \* mutant: the pointer stays lent
  /\ loop[k].at = "undoing"
  /\ Keep(k, Stays(loop[k], loop[k].hit.ticked)) /\ UNCHANGED loopWorld
Undo(k) ==
  LET r == Stays(loop[k], loop[k].hit.ticked)
  IN /\ loop[k].at = "undoing"
     /\ pointer' = IF pointer = loop[k].home THEN loop[k].was ELSE pointer
     /\ UNCHANGED <<rest, autoSwitch, away, loopWorld>>
     /\ IF pointer' # pointer THEN Told(k, [r EXCEPT !.dirty = TRUE])
        ELSE loop' = [loop EXCEPT ![k] = r]

\* The child has been stopped: commit the hop that was decided, unless the setting or the
\* pointer says otherwise by now. A click is read again.
LoopCommit(k) ==
  LET hit == loop[k].hit
      over == [loop[k] EXCEPT !.at = "entering", !.gone = FALSE, !.moved = FALSE]
  IN /\ loop[k].at = "stopping"
     /\ UNCHANGED loopWorld
     /\ CASE hit.reason = "relogin" ->
               Keep(k, [over EXCEPT !.next = loop[k].home, !.switches = @ + 1, !.was = pointer])
          [] hit.reason = "manual" ->
               /\ UNCHANGED loopStore
               /\ Told(k, [over EXCEPT !.next = pointer, !.was = pointer])
          [] OTHER ->
               IF ~autoSwitch \/ pointer # loop[k].home
               THEN Keep(k, [loop[k] EXCEPT !.at = "ended"])
               ELSE /\ pointer' = hit.email /\ UNCHANGED <<rest, autoSwitch, away>>
                    /\ Told(k, [over EXCEPT !.next = hit.email, !.switches = @ + 1,
                                  !.was = hit.email])

-----------------------------------------------------------------------------
(* A child that exits by itself. *)

\* A clean exit, an abort, a failure that was already judged: the session is over. A
\* failure behind a limit in its log is decided like any signal.
ChildQuits(k) ==
  /\ loop[k].at = "running"
  /\ \/ Keep(k, [loop[k] EXCEPT !.at = "ended", !.hit = NoHit]) /\ UNCHANGED loopWorld
     \/ /\ loop[k].logged
        /\ \E source \in {"usage", "hard"} :
             DecideLimit(k, [loop[k] EXCEPT !.gone = TRUE], source, FALSE)

\* handle_exhausted(): a failure nothing explained yet; the endpoint is asked, under the lock.
Exhausted(k) ==
  LET s == loop[k].home
      r == [loop[k] EXCEPT !.gone = TRUE, !.was = pointer, !.moved = FALSE]
      skip == loop[k].failed \cup ({s} \cap barred)
  IN /\ loop[k].at = "running" /\ ~loop[k].logged /\ ~loop[k].handled
     /\ loop[k].switches < MaxSwitches /\ autoSwitch /\ Resumable(k)
     /\ \E A \in SUBSET {s} : Answered(A)
     /\ UNCHANGED <<pointer, autoSwitch, loopWorld>>
     /\ \/ \E e \in UsableNow(skip \cup {s}) :
             /\ rest'[s] # "free" \/ s \in away'
             /\ Told(k, [r EXCEPT !.at = "exhausted",
                           !.hit = [reason |-> "exit", email |-> e, ticked |-> FALSE]])
        \/ /\ UsableNow(skip \cup {s}) = {} /\ \E e \in LoopSeats \ (away' \cup skip) : rest'[e] # "free"
           /\ Told(k, [r EXCEPT !.at = "resting"])
        \/ rest'[s] = "free" /\ s \notin away' /\ Told(k, [r EXCEPT !.at = "ended", !.hit = NoHit])

\* The second lock: everything is looked at again.
ExhaustedCommit(k) ==
  LET e == loop[k].hit.email
  IN /\ loop[k].at = "exhausted"
     /\ UNCHANGED loopWorld
     /\ IF autoSwitch /\ pointer = loop[k].home /\ e \in Usable(loop[k].failed)
        THEN /\ pointer' = e /\ UNCHANGED <<rest, autoSwitch, away>>
             /\ Told(k, [loop[k] EXCEPT !.at = "entering", !.next = e, !.switches = @ + 1,
                           !.gone = FALSE, !.was = e, !.moved = FALSE])
        ELSE Keep(k, [loop[k] EXCEPT !.at = "ended"])

\* _wait_and_activate(): not with the setting off, except at a cold start.
BeginsWait(k) ==
  /\ loop[k].at = "resting"
  /\ Keep(k, [loop[k] EXCEPT !.at = IF autoSwitch THEN "waiting" ELSE "ended"])
  /\ UNCHANGED loopWorld

\* One sweep of _wait_for_unlock(): a seat that is free, or none left to wait for.
Sweep(k) ==
  /\ loop[k].at = "waiting"
  /\ \E A \in SUBSET (LoopSeats \ loop[k].failed) : Answered(A)
  /\ UNCHANGED <<pointer, autoSwitch, loopWorld>>
  /\ \/ \E e \in UsableNow(loop[k].failed) :
          Told(k, [loop[k] EXCEPT !.at = "landed", !.hit.email = e])
     \/ /\ UsableNow(loop[k].failed) = {} /\ LoopSeats \subseteq away' \cup loop[k].failed
        /\ Told(k, [loop[k] EXCEPT !.at = "ended", !.hit = NoHit])
     \/ /\ UsableNow(loop[k].failed) = {} /\ <<rest', away'>> # <<rest, away>>
        /\ Told(k, loop[k])
Activate(k) ==
  LET e == loop[k].hit.email
      over == [loop[k] EXCEPT !.at = "entering", !.next = e, !.gone = FALSE, !.was = e,
                              !.moved = FALSE]
  IN /\ loop[k].at = "landed"
     /\ UNCHANGED loopWorld
     /\ IF loop[k].cold \/ autoSwitch
        THEN pointer' = e /\ UNCHANGED <<rest, autoSwitch, away>> /\ Told(k, over)
        ELSE Keep(k, [loop[k] EXCEPT !.at = "ended"])

-----------------------------------------------------------------------------
Acted ==
  /\ acts < MaxActs /\ acts' = acts + 1
  /\ \/ "toggle" \in LoopActs /\ LoopToggle
     \/ "click" \in LoopActs /\ \E s \in LoopSeats : LoopClick(s)
     \/ "quota" \in LoopActs /\ \E s \in LoopSeats : Quota(s)
     \/ "bar" \in LoopActs /\ \E s \in LoopSeats : Bar(s)

Signal(k) ==
  \/ \E reason \in {"limit", "auth"} : LoopBanner(k, reason)
  \/ HardBanner(k) \/ RevokedBanner(k) \/ Relogin(k)
  \/ \E source \in {"usage", "hard"} : LogLine(k, source)
  \/ Identified(k) \/ ChildQuits(k) \/ Exhausted(k)

\* The heartbeat, and what the supervisor goes on with after a lock.
LoopTick(k) == TickState(k) \/ TickRecover(k)
Proceeds(k) ==
  \/ LoopEnter(k) \/ Probed(k) \/ Judged(k) \/ Preflight(k) \/ Justify(k) \/ Undo(k)
  \/ LoopCommit(k) \/ ExhaustedCommit(k) \/ BeginsWait(k) \/ Sweep(k) \/ Activate(k)

LoopNext ==
  /\ UNCHANGED tool
  /\ \/ Acted
     \/ /\ UNCHANGED acts
        /\ \/ \E s \in LoopSeats : RestEnds(s) \/ LoopPoll(s)
           \/ \E k \in Loops :
                LoopLaunch(k) \/ BlockEnds(k) \/ Signal(k) \/ LoopTick(k) \/ Proceeds(k)

LoopSpec == LoopInit /\ [][LoopNext]_loopVars

\* The supervisor's own steps go on; the heartbeat is called every few seconds whatever the
\* child prints, and the clock runs. No user, provider, poll or child owes a step.
LoopFairness ==
  \A k \in Loops :
    /\ WF_loopVars(Proceeds(k) /\ UNCHANGED <<tool, acts>>)
    /\ WF_loopVars(BlockEnds(k) /\ UNCHANGED <<tool, acts>>)
    /\ SF_loopVars(TickState(k) /\ UNCHANGED <<tool, acts>>)
    /\ SF_loopVars(TickRecover(k) /\ UNCHANGED <<tool, acts>>)

-----------------------------------------------------------------------------
LoopTypeOK ==
  /\ tool \in {"codex", "claude"}
  /\ pointer \in LoopSeats /\ autoSwitch \in BOOLEAN /\ acts \in 0..MaxActs
  /\ rest \in [LoopSeats -> Rests] /\ out \in [LoopSeats -> BOOLEAN]
  /\ barred \subseteq LoopSeats /\ away \subseteq LoopSeats
  /\ loop \in [Loops ->
       [at : LoopPlaces, home : LoopSeats \cup {NoPick}, next : LoopSeats \cup {NoPick},
        switches : 0..MaxSwitches, known : BOOLEAN, failed : SUBSET LoopSeats,
        hit : [reason : Reasons, email : LoopSeats \cup {NoPick}, ticked : BOOLEAN],
        blocked : BOOLEAN, due : BOOLEAN, dirty : BOOLEAN, clicked : LoopSeats \cup {NoPick},
        handled : BOOLEAN, logged : BOOLEAN, cold : BOOLEAN, gone : BOOLEAN,
        was : LoopSeats \cup {NoPick}, moved : BOOLEAN]]

\* Decide before killing: a child that a decision stopped is carried on, unless somebody
\* else wrote the pointer or the setting in between.
Refused(k, reason) == loop[k].at = "ended" /\ loop[k].hit.reason = reason
StoppedChildContinues == \A k \in Loops : Refused(k, "auth") => loop[k].moved

\* The same of a child stopped for its limit.
LimitStopContinues == \A k \in Loops : Refused(k, "limit") => loop[k].moved

\* The pointer is only borrowed to decide: while the child runs on, it names the seat it
\* named before, unless somebody else has moved it.
BorrowedPointerIsReturned ==
  \A k \in Loops : loop[k].at = "running" /\ ~loop[k].moved => pointer = loop[k].was

\* A session that sits on a resting seat while a sibling is free is carried there.
CanMove(k) ==
  /\ loop[k].at = "running" /\ Stuck(k) /\ Resumable(k) /\ autoSwitch
  /\ loop[k].switches < MaxSwitches /\ Usable(loop[k].failed \cup {loop[k].home}) # {}
StuckSessionMoves == \A k \in Loops : []<>~CanMove(k)
=============================================================================
