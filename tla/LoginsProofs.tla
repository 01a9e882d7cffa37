--------------------------- MODULE LoginsProofs ---------------------------
(*************************************************************************)
(* Why no login of either tool is lost, given to another seat or wrongly *)
(* called dead, whoever renews it meanwhile, and why no choice a Claude  *)
(* home made is written over.                                            *)
(*************************************************************************)

EXTENDS CodexLogins, ClaudeLogins, ClaudeConfig, TLAPS

(*************************************************************************)
(* The Codex logins. A copy of a login is never newer than what the      *)
(* provider issued; a poll that spent a refresh token holds the login it *)
(* spent and the one it got; and a poll that found no session has been   *)
(* told of every session since. For the readings, no copy is older than  *)
(* the seat's last sign-in. Nothing else is known of the polls, which    *)
(* run without the lock.                                                 *)
(*************************************************************************)

PollFields == {"at", "seat", "added", "active", "login", "new", "running", "attempt", "current"}

PollOk(r, i, x, quiet) ==
  /\ DOMAIN r = PollFields
  /\ r.at \in {"read", "post", "renewed", "invalidated"} =>
       r.seat \in CodexSeats /\ r.login \in Int /\ r.login <= i[r.seat]
  /\ r.at = "prepared" => r.seat \in CodexSeats
  /\ r.at = "renewed" => r.new \in Int /\ r.login <= r.new /\ r.new <= i[r.seat]
  /\ r.at = "invalidated" => r.login < i[r.seat] \/ r.login \in x[r.seat]
  /\ r.at = "looked" /\ r.current => quiet

PollsOk(f, i, x, quiet) == DOMAIN f = Pollers /\ \A p \in Pollers : PollOk(f[p], i, x, quiet)

CopiesAreOld ==
  /\ issued \in [CodexSeats -> Int] /\ home \in [CodexSeats -> Int]
  /\ \A s \in CodexSeats : issued[s] >= 0 /\ home[s] <= issued[s]
  /\ mirror \in [seat: CodexSeats \cup {NoSeat}, login: Int]
  /\ mirror.seat # NoSeat => mirror.login <= issued[mirror.seat]

SupsOk ==
  /\ DOMAIN sup = Supervisors
  /\ \A k \in Supervisors : DOMAIN sup[k] = {"at", "seat", "mark"}

\* Whoever may copy the mirror into a home knows of the children that run there, but for
\* those that were marked since it looked.
LockOk ==
  /\ DOMAIN storeLock = {"by", "copy", "late"}
  /\ LockFree => ~storeLock.copy
  /\ storeLock.copy => \A s \in CodexSeats :
                         Running(s) /\ (s = active \/ storeLock.by # "switch")
                         => s \in storeLock.late

CodexInv ==
  /\ known \subseteq CodexSeats /\ active \in CodexSeats \cup {NoSeat}
  /\ DOMAIN revoked = CodexSeats
  /\ DOMAIN spurned = CodexSeats
  /\ CopiesAreOld /\ SupsOk /\ LockOk /\ PollsOk(poll, issued, spurned, NoSession)

\* What a step keeps: the login under a running child, and the proof of a revocation.
KeepsLogins ==
  \A s \in CodexSeats : Running(s) /\ s \in known' /\ s \notin storeLock.late
                       => home'[s] >= home[s]
Proves ==
  \A s \in CodexSeats : revoked'[s] /\ ~revoked[s]
                       => home[s] # issued[s] \/ home[s] \in spurned[s]
GoodStep == CodexInv' /\ KeepsLogins /\ Proves

Grows(i, j) ==
  /\ i \in [CodexSeats -> Int] /\ j \in [CodexSeats -> Int]
  /\ \A s \in CodexSeats : i[s] <= j[s]

\* A poll that does nothing keeps what it knows while logins are issued and sessions end.
LEMMA PollsKeep ==
  ASSUME NEW f, NEW i, NEW j, NEW x, NEW quiet, NEW still, PollsOk(f, i, x, quiet), Grows(i, j),
         quiet => still
  PROVE  PollsOk(f, j, x, still)
<1> SUFFICES ASSUME NEW p \in Pollers PROVE PollOk(f[p], j, x, still)
    BY DEF PollsOk
<1>1. PollOk(f[p], i, x, quiet)
      BY DEF PollsOk
<1>2. f[p].seat \in CodexSeats => i[f[p].seat] <= j[f[p].seat] /\ i[f[p].seat] \in Int
                                  /\ j[f[p].seat] \in Int
      BY DEF Grows
<1> QED BY <1>1, <1>2 DEF PollOk

\* ... and whatever it found, once it has been told of a save.
LEMMA PollsOutdated ==
  ASSUME NEW i, NEW j, NEW x, NEW quiet, NEW still, PollsOk(poll, i, x, quiet), Grows(i, j),
         quiet => still
  PROVE  PollsOk(Outdated, j, x, still)
<1>1. DOMAIN Outdated = Pollers
      BY DEF Outdated
<1>2. ASSUME NEW p \in Pollers PROVE PollOk(Outdated[p], j, x, still)
  <2>1. Outdated[p] = IF poll[p].at = "looked" THEN poll[p]
                      ELSE [poll[p] EXCEPT !.current = FALSE]
        BY DEF Outdated
  <2>2. PollOk(poll[p], i, x, quiet)
        BY DEF PollsOk
  <2>3. /\ DOMAIN Outdated[p] = PollFields
        /\ Outdated[p].at = "looked" /\ Outdated[p].current => poll[p].current
        /\ Outdated[p].at = poll[p].at /\ Outdated[p].seat = poll[p].seat
        /\ Outdated[p].login = poll[p].login /\ Outdated[p].new = poll[p].new
        BY <2>1, <2>2 DEF PollOk, PollFields
  <2>4. poll[p].seat \in CodexSeats => /\ i[poll[p].seat] <= j[poll[p].seat]
                                       /\ i[poll[p].seat] \in Int /\ j[poll[p].seat] \in Int
        BY DEF Grows
  <2> QED BY <2>2, <2>3, <2>4 DEF PollOk
<1> QED BY <1>1, <1>2 DEF PollsOk

\* ... or the provider refuses more logins.
LEMMA PollsRefused ==
  ASSUME NEW f, NEW i, NEW x, NEW y, NEW quiet, PollsOk(f, i, x, quiet),
         \A s \in CodexSeats : x[s] \subseteq y[s]
  PROVE  PollsOk(f, i, y, quiet)
BY DEF PollsOk, PollOk

\* One poll moves.
LEMMA PollMoves ==
  ASSUME NEW f, NEW i, NEW x, NEW quiet, PollsOk(f, i, x, quiet), NEW p \in Pollers,
         NEW r, PollOk(r, i, x, quiet)
  PROVE  PollsOk([f EXCEPT ![p] = r], i, x, quiet)
BY DEF PollsOk

\* A poll that is over, or past the places the invariant speaks of.
LEMMA PollIsPast ==
  ASSUME NEW r, DOMAIN r = PollFields, NEW i, NEW x, NEW quiet,
         r.at \in {"idle", "observing", "fetch", "fetched", "before", "reread"}
  PROVE  PollOk(r, i, x, quiet)
BY DEF PollOk

\* In particular one that was dropped.
LEMMA IdleIsPast == ASSUME NEW i, NEW x, NEW quiet PROVE PollOk(IdlePoll, i, x, quiet)
BY DEF PollOk, IdlePoll, PollFields

-----------------------------------------------------------------------------
(* The user and the stock tool. *)

\* A registered seat is not "no seat".
LEMMA SeatsAreSeats == NoSeat \notin CodexSeats
BY NoSeatIsNoSeat

\* sync_back never copies anything newer than what was issued, and never over a child.
LEMMA SyncIsOld ==
  ASSUME CodexInv
  PROVE  /\ Synced \in [CodexSeats -> Int]
         /\ \A s \in CodexSeats : Synced[s] <= issued[s]
         /\ \A s \in CodexSeats : Running(s) /\ s \notin storeLock.late => Synced[s] = home[s]
<1>1. mirror.seat \in CodexSeats \cup {NoSeat} /\ mirror.login \in Int
      BY DEF CodexInv, CopiesAreOld
<1>2. CASE Synced = home
      BY <1>2 DEF CodexInv, CopiesAreOld
<1>3. CASE /\ storeLock.copy /\ mirror.seat = active
           /\ Synced = [home EXCEPT ![active] = mirror.login]
      BY <1>1, <1>3, SeatsAreSeats DEF CodexInv, CopiesAreOld, LockOk
<1> QED BY <1>2, <1>3 DEF Synced

\* Issued logins only grow in a step that issues at most one.
LEMMA IssuesOne ==
  ASSUME issued \in [CodexSeats -> Int], NEW s \in CodexSeats
  PROVE  Grows(issued, [issued EXCEPT ![s] = @ + 1])
BY DEF Grows

\* ... or none.
LEMMA IssuesNone ==
  ASSUME issued \in [CodexSeats -> Int]
  PROVE  Grows(issued, issued)
BY DEF Grows

\* Sessions that run, run before as well.
Quieter == \A s \in CodexSeats : Running(s)' => Running(s)

\* A step that leaves the lock and who runs alone, or is of nobody who holds it.
LEMMA LockStays ==
  ASSUME LockOk, UNCHANGED storeLock, active' = active \/ LockFree, Quieter
  PROVE  LockOk'
BY DEF LockOk, LockFree, Quieter

\* The lock is handed back.
LEMMA LockGoes == ASSUME storeLock' = NoHolder PROVE LockOk'
BY DEF LockOk, LockFree, NoHolder

\* A step that only moves polls and the lock does no harm.
LEMMA PollsAndLock ==
  ASSUME CodexInv, UNCHANGED <<issued, home, mirror, known, active, revoked, sup, spurned>>,
         PollsOk(poll', issued, spurned, NoSession), LockOk'
  PROVE  GoodStep
<1>1. PollsOk(poll, issued, spurned, NoSession)'
      BY DEF NoSession
<1>2. CopiesAreOld' /\ SupsOk'
      BY DEF CodexInv, CopiesAreOld, SupsOk
<1>3. KeepsLogins /\ Proves
      BY DEF KeepsLogins, Proves, CodexInv, CopiesAreOld
<1> QED BY <1>1, <1>2, <1>3 DEF GoodStep, CodexInv

\* Nobody takes the lock or hands it back, and nobody starts a session.
LEMMA SameLock ==
  ASSUME CodexInv, UNCHANGED <<active, sup, storeLock>>
  PROVE  LockOk'
BY LockStays DEF CodexInv, Quieter, Running

\* A step that only moves polls does no harm.
LEMMA OnlyPolls ==
  ASSUME CodexInv,
         UNCHANGED <<issued, home, mirror, known, active, revoked, sup, spurned, storeLock>>,
         PollsOk(poll', issued, spurned, NoSession)
  PROVE  GoodStep
BY SameLock, PollsAndLock

\* sync_back takes the lock and looks.
LEMMA LooksIsGood ==
  ASSUME CodexInv, SyncLooks
  PROVE  GoodStep
<1>1. /\ UNCHANGED <<issued, home, mirror, known, active, revoked, sup, poll, spurned>>
      /\ storeLock' = [by |-> "switch", copy |-> active # NoSeat /\ ~Running(active),
                       late |-> {}]
      BY DEF SyncLooks, TakeLock, storeVars, loginVars
<1>2. LockOk'
      BY <1>1, SeatsAreSeats DEF LockOk, LockFree, Running
<1> QED BY <1>1, <1>2, PollsAndLock DEF CodexInv

\* A click.
LEMMA ClickIsGood ==
  ASSUME CodexInv, NEW s \in CodexSeats, Click(s)
  PROVE  GoodStep
<1> USE DEF Click
<1>1. Synced \in [CodexSeats -> Int] /\ (\A t \in CodexSeats : Synced[t] <= issued[t])
      /\ (\A t \in CodexSeats : Running(t) /\ t \notin storeLock.late => Synced[t] = home[t])
      BY SyncIsOld
<1>2. CopiesAreOld'
  <2>1. mirror' = mirror \/ mirror' = MirrorOf(home', s)
        OBVIOUS
  <2> QED BY <1>1, <2>1 DEF CopiesAreOld, CodexInv, MirrorOf
<1>3. PollsOk(poll, issued, spurned, NoSession) /\ Grows(issued, issued)
      BY IssuesNone DEF CodexInv, CopiesAreOld
<1>4. PollsOk(poll', issued, spurned, NoSession)
      BY <1>3, PollsOutdated
<1>5. PollsOk(poll, issued, spurned, NoSession)'
      BY <1>4 DEF NoSession
<1>6. SupsOk' /\ (known \subseteq CodexSeats /\ active \in CodexSeats \cup {NoSeat})'
      /\ DOMAIN revoked' = CodexSeats /\ DOMAIN spurned' = CodexSeats
      BY DEF CodexInv, SupsOk
<1>7. KeepsLogins
      BY <1>1 DEF KeepsLogins
<1>8. Proves
      BY DEF Proves
<1>9. LockOk'
      BY LockGoes DEF HandBack
<1> QED BY <1>2, <1>5, <1>6, <1>7, <1>8, <1>9 DEF GoodStep, CodexInv

\* A sign-in.
LEMMA SignInIsGood ==
  ASSUME CodexInv, NEW s \in CodexSeats, SignIn(s)
  PROVE  GoodStep
<1> USE DEF SignIn
<1>1. Synced \in [CodexSeats -> Int] /\ (\A t \in CodexSeats : Synced[t] <= issued[t])
      /\ (\A t \in CodexSeats : Running(t) /\ t \notin storeLock.late => Synced[t] = home[t])
      BY SyncIsOld
<1>2. issued \in [CodexSeats -> Int] /\ home \in [CodexSeats -> Int]
      /\ (\A t \in CodexSeats : issued[t] >= 0 /\ home[t] <= issued[t])
      BY DEF CodexInv, CopiesAreOld
<1>3. issued' = [issued EXCEPT ![s] = issued[s] + 1]
      /\ home' = [Synced EXCEPT ![s] = issued[s] + 1]
      BY <1>2
<1>4. CopiesAreOld'
      BY <1>1, <1>2, <1>3 DEF CopiesAreOld, MirrorOf
<1>5. Grows(issued, issued') /\ PollsOk(poll, issued, spurned, NoSession)
      BY <1>2, IssuesOne DEF CodexInv
<1>6. PollsOk(Outdated, issued', spurned', NoSession)
      BY <1>5, PollsOutdated
<1>7. PollsOk(poll, issued, spurned, NoSession)'
      BY <1>6 DEF NoSession
<1>8. SupsOk' /\ (known \subseteq CodexSeats /\ active \in CodexSeats \cup {NoSeat})'
      /\ DOMAIN revoked' = CodexSeats /\ DOMAIN spurned' = CodexSeats
      BY DEF CodexInv, SupsOk
<1>9. KeepsLogins
      BY <1>1, <1>2, <1>3 DEF KeepsLogins
<1>10. Proves
      BY DEF Proves, CodexInv
<1>11. LockOk'
      BY LockGoes DEF HandBack
<1> QED BY <1>4, <1>7, <1>8, <1>9, <1>10, <1>11 DEF GoodStep, CodexInv

\* A seat is removed with its home.
LEMMA RemoveIsGood ==
  ASSUME CodexInv, NEW s \in CodexSeats, RemoveSeat(s)
  PROVE  GoodStep
<1> USE DEF RemoveSeat
<1>1. CopiesAreOld'
      BY DEF CopiesAreOld, CodexInv, NoLogin
<1>2. PollsOk(poll, issued, spurned, NoSession) /\ Grows(issued, issued)
      BY IssuesNone DEF CodexInv, CopiesAreOld
<1>3. PollsOk(Outdated, issued, spurned, NoSession)
      BY <1>2, PollsOutdated
<1>4. PollsOk(poll, issued, spurned, NoSession)'
      BY <1>3 DEF NoSession
<1>5. SupsOk' /\ (known \subseteq CodexSeats /\ active \in CodexSeats \cup {NoSeat})'
      /\ DOMAIN revoked' = CodexSeats
      BY DEF CodexInv, SupsOk
<1>6. KeepsLogins
      BY DEF KeepsLogins, CodexInv, CopiesAreOld
<1>7. Proves
      BY DEF Proves, CodexInv
<1>8. LockOk'
      BY LockStays DEF CodexInv, Quieter, Running
<1> QED BY <1>1, <1>4, <1>5, <1>6, <1>7, <1>8 DEF GoodStep, CodexInv

\* The stock tool signs out, renews its login, or signs in.
LEMMA StockIsGood ==
  ASSUME CodexInv, StockLogout \/ StockRenews \/ \E s \in CodexSeats : StockSignIn(s)
  PROVE  GoodStep
<1>1. /\ UNCHANGED <<home, known, active, revoked, sup, storeLock, spurned>>
      /\ \/ issued' = issued /\ mirror' = Blank
         \/ \E s \in CodexSeats : /\ issued' = [issued EXCEPT ![s] = @ + 1]
                                   /\ mirror'.seat = s /\ mirror'.login = issued'[s]
                                   /\ mirror' \in [seat: CodexSeats \cup {NoSeat}, login: Int]
      /\ poll' = poll \/ poll' = Outdated
  <2>1. CASE StockLogout
        BY <2>1 DEF StockLogout, storeVars
  <2>2. CASE StockRenews
    <3>1. mirror.seat \in CodexSeats /\ mirror \in [seat: CodexSeats \cup {NoSeat}, login: Int]
          /\ issued \in [CodexSeats -> Int]
          BY <2>2 DEF StockRenews, CodexInv, CopiesAreOld
    <3>2. issued' = [issued EXCEPT ![mirror.seat] = @ + 1] /\ mirror'.seat = mirror.seat
          /\ mirror'.login = mirror.login + 1 /\ mirror.login = issued[mirror.seat]
          /\ mirror' \in [seat: CodexSeats \cup {NoSeat}, login: Int]
          BY <2>2, <3>1 DEF StockRenews
    <3>3. mirror'.login = issued'[mirror.seat]
          BY <3>1, <3>2
    <3>4. UNCHANGED <<home, known, active, revoked, sup, poll, storeLock, spurned>>
          BY <2>2 DEF StockRenews, storeVars
    <3> QED BY <3>1, <3>2, <3>3, <3>4
  <2>3. CASE \E s \in CodexSeats : StockSignIn(s)
    <3>1. PICK s \in CodexSeats : StockSignIn(s)
          BY <2>3
    <3>2. issued \in [CodexSeats -> Int]
          BY DEF CodexInv, CopiesAreOld
    <3>3. issued' = [issued EXCEPT ![s] = @ + 1]
          /\ mirror' = [seat |-> s, login |-> issued'[s]] /\ issued'[s] \in Int
          BY <3>1, <3>2 DEF StockSignIn
    <3>4. UNCHANGED <<home, known, active, revoked, sup, poll, storeLock, spurned>>
          BY <3>1 DEF StockSignIn, storeVars
    <3> QED BY <3>3, <3>4
  <2> QED BY <2>1, <2>2, <2>3
<1>2. CopiesAreOld' /\ Grows(issued, issued')
      BY <1>1 DEF CopiesAreOld, CodexInv, Grows, Blank, NoLogin
<1>3. PollsOk(poll, issued, spurned, NoSession)
      BY DEF CodexInv
<1>4. PollsOk(poll', issued', spurned', NoSession)
      BY <1>1, <1>2, <1>3, PollsOutdated, PollsKeep
<1>5. PollsOk(poll, issued, spurned, NoSession)'
      BY <1>1, <1>4 DEF NoSession
<1>6. SupsOk' /\ (known \subseteq CodexSeats /\ active \in CodexSeats \cup {NoSeat})'
      /\ DOMAIN revoked' = CodexSeats
      BY <1>1 DEF CodexInv, SupsOk
<1>7. KeepsLogins
      BY <1>1 DEF KeepsLogins, CodexInv, CopiesAreOld
<1>8. Proves
      BY <1>1 DEF Proves
<1>9. LockOk'
      BY <1>1, SameLock
<1> QED BY <1>1, <1>2, <1>5, <1>6, <1>7, <1>8, <1>9 DEF GoodStep, CodexInv

-----------------------------------------------------------------------------
(* The supervisors and what they do to the logins. *)

\* Reconciliation puts an issued login into the home of the mirror's owner; while nobody
\* runs there is no child to take one from, and it revokes nothing.
LEMMA ReconcileIsGood ==
  ASSUME CodexInv, NEW go, go => Adopts /\ storeLock.by # "switch", Reconcile(go)
  PROVE  /\ home' \in [CodexSeats -> Int]
         /\ \A s \in CodexSeats : home'[s] <= issued[s]
         /\ DOMAIN revoked' = CodexSeats
         /\ KeepsLogins /\ Proves
<1>1. mirror.seat \in CodexSeats \cup {NoSeat} /\ mirror.login \in Int
      /\ (mirror.seat # NoSeat => mirror.login <= issued[mirror.seat])
      /\ home \in [CodexSeats -> Int] /\ issued \in [CodexSeats -> Int]
      /\ known \subseteq CodexSeats
      /\ \A s \in CodexSeats : home[s] <= issued[s]
      BY DEF CodexInv, CopiesAreOld
<1>2. home' = IF go THEN [home EXCEPT ![mirror.seat] = mirror.login] ELSE home
      BY DEF Reconcile, Adopted
<1>3. home' \in [CodexSeats -> Int] /\ \A s \in CodexSeats : home'[s] <= issued[s]
      BY <1>1, <1>2, SeatsAreSeats
<1>4. DOMAIN revoked' = CodexSeats /\ Proves
      BY DEF Reconcile, Proves
<1>5. KeepsLogins
  <2>1. CASE go
        BY <1>1, <1>2, <2>1, SeatsAreSeats DEF KeepsLogins, Adopts, CodexInv, LockOk
  <2>2. CASE ~go
        BY <1>1, <1>2, <2>2 DEF KeepsLogins
  <2> QED BY <2>1, <2>2
<1> QED BY <1>3, <1>4, <1>5

\* A supervisor that ends or keeps its heartbeat starts no session.
NoNewMark(k) ==
  \E r : /\ DOMAIN r = {"at", "seat", "mark"} /\ sup' = [sup EXCEPT ![k] = r]
         /\ r.mark = NoSeat \/ r.mark = sup[k].mark

\* Whoever found no session is still right after such a step.
LEMMA SupEnds ==
  ASSUME SupsOk, NEW k \in Supervisors, NoNewMark(k)
  PROVE  SupsOk' /\ (NoSession => NoSession') /\ Quieter
<1>1. PICK r : /\ DOMAIN r = {"at", "seat", "mark"} /\ sup' = [sup EXCEPT ![k] = r]
               /\ r.mark = NoSeat \/ r.mark = sup[k].mark
      BY DEF NoNewMark
<1>2. DOMAIN sup' = Supervisors
      BY <1>1 DEF SupsOk
<1>3. \A j \in Supervisors : sup'[j] = IF j = k THEN r ELSE sup[j]
      BY <1>1 DEF SupsOk
<1> QED BY <1>1, <1>2, <1>3, SeatsAreSeats DEF SupsOk, NoSession, Quieter, Running

\* The first lock of a run: the look, ...
LEMMA LaunchLooksIsGood ==
  ASSUME CodexInv, NEW k \in Supervisors, LaunchLooks(k)
  PROVE  GoodStep
<1>1. /\ UNCHANGED <<issued, home, mirror, known, active, revoked, poll, spurned>>
      /\ storeLock' = [by |-> "launch", copy |-> NoSession, late |-> {}]
      /\ sup' = [sup EXCEPT ![k] = [@ EXCEPT !.at = "launching"]]
      BY DEF LaunchLooks, TakeLock, Goes, storeVars, loginVars
<1>2. SupsOk' /\ (NoSession => NoSession') /\ Quieter
  <2> DEFINE r == [sup[k] EXCEPT !.at = "launching"]
  <2>1. DOMAIN r = {"at", "seat", "mark"} /\ r.mark = sup[k].mark /\ sup' = [sup EXCEPT ![k] = r]
        BY <1>1 DEF CodexInv, SupsOk
  <2> HIDE DEF r
  <2>2. NoNewMark(k)
        BY <2>1 DEF NoNewMark
  <2> QED BY <2>2, SupEnds DEF CodexInv
<1>3. LockOk'
      BY <1>1, <1>2, SeatsAreSeats DEF LockOk, LockFree, NoSession, Running
<1>4. PollsOk(poll, issued, spurned, NoSession)'
  <2>1. PollsOk(poll, issued, spurned, NoSession) /\ Grows(issued, issued)
        BY IssuesNone DEF CodexInv, CopiesAreOld
  <2>2. PollsOk(poll, issued, spurned, NoSession')
        BY <1>2, <2>1, PollsKeep
  <2> QED BY <1>1, <2>2
<1>5. CopiesAreOld' /\ KeepsLogins /\ Proves
      BY <1>1 DEF CopiesAreOld, KeepsLogins, Proves, CodexInv
<1> QED BY <1>1, <1>2, <1>3, <1>4, <1>5 DEF GoodStep, CodexInv

\* ... and what follows from it.
LEMMA LaunchIsGood ==
  ASSUME CodexInv, NEW k \in Supervisors, NoLaunch(k) \/ \E s \in CodexSeats : Launch(k, s)
  PROVE  GoodStep
<1>1. /\ Reconcile(Adopts) /\ UNCHANGED <<issued, known, spurned>>
      /\ storeLock.by # "switch" /\ storeLock' = NoHolder
      /\ active' \in CodexSeats \cup {NoSeat}
      /\ mirror' = mirror \/ \E s \in CodexSeats : mirror' = MirrorOf(home', s)
      /\ poll' = poll \/ poll' = Outdated
      /\ NoNewMark(k)
  <2>1. DOMAIN sup[k] = {"at", "seat", "mark"} /\ active \in CodexSeats \cup {NoSeat}
        /\ known \subseteq CodexSeats
        BY DEF CodexInv, SupsOk
  <2>2. CASE NoLaunch(k)
    <3>1. DOMAIN IdleSup = {"at", "seat", "mark"} /\ IdleSup.mark = NoSeat
          BY DEF IdleSup
    <3>2. FloorSeat \in CodexSeats \cup {NoSeat}
          BY <2>1 DEF FloorSeat, Adopts
    <3> QED BY <2>2, <3>1, <3>2 DEF NoLaunch, HandBack, NoNewMark
  <2>3. CASE \E s \in CodexSeats : Launch(k, s)
    <3> PICK s \in CodexSeats : Launch(k, s)
        BY <2>3
    <3> DEFINE r == [sup[k] EXCEPT !.at = "launched"]
    <3>1. DOMAIN r = {"at", "seat", "mark"} /\ r.mark = sup[k].mark
          BY <2>1
    <3>2. sup' = [sup EXCEPT ![k] = r]
          BY DEF Launch, Goes
    <3> HIDE DEF r
    <3> QED BY <3>1, <3>2 DEF Launch, HandBack, NoNewMark
  <2> QED BY <2>2, <2>3
<1>2. /\ home' \in [CodexSeats -> Int] /\ (\A t \in CodexSeats : home'[t] <= issued[t])
      /\ DOMAIN revoked' = CodexSeats /\ KeepsLogins /\ Proves
      BY <1>1, ReconcileIsGood
<1>3. CopiesAreOld'
      BY <1>1, <1>2 DEF CodexInv, CopiesAreOld, MirrorOf
<1>4. SupsOk' /\ (NoSession => NoSession')
      BY <1>1, SupEnds DEF CodexInv
<1>5. PollsOk(poll, issued, spurned, NoSession) /\ Grows(issued, issued)
      BY IssuesNone DEF CodexInv, CopiesAreOld
<1>6. PollsOk(poll', issued, spurned, NoSession')
      BY <1>1, <1>4, <1>5, PollsOutdated, PollsKeep
<1>7. LockOk'
      BY <1>1, LockGoes
<1> QED BY <1>1, <1>2, <1>3, <1>4, <1>6, <1>7 DEF GoodStep, CodexInv

\* The steps of a supervisor that move no login and start no session.
LEMMA SupIsGood ==
  ASSUME CodexInv, NEW k \in Supervisors,
         Enter(k) \/ Clear(k) \/ Finish(k) \/ Killed(k) \/ \E s \in CodexSeats : Hop(k, s)
  PROVE  GoodStep
<1>1. /\ UNCHANGED <<issued, home, known, revoked, spurned>>
      /\ \/ storeLock' = NoHolder
         \/ UNCHANGED storeLock /\ (active' = active \/ LockFree)
      /\ poll' = poll \/ poll' = Outdated
      /\ mirror' = mirror \/ \E t \in CodexSeats : mirror' = MirrorOf(home, t)
      /\ active' \in CodexSeats \cup {NoSeat}
      /\ NoNewMark(k)
  <2>1. DOMAIN IdleSup = {"at", "seat", "mark"} /\ IdleSup.mark = NoSeat
        BY DEF IdleSup
  <2>2. DOMAIN sup[k] = {"at", "seat", "mark"} /\ active \in CodexSeats \cup {NoSeat}
        BY DEF CodexInv, SupsOk
  <2>3. CASE Enter(k)
    <3>1. sup' = [sup EXCEPT ![k] = IdleSup]
          \/ \E seat : sup' = [sup EXCEPT ![k] = [@ EXCEPT !.at = "starting", !.seat = seat]]
          BY <2>3 DEF Enter
    <3>2. CASE sup' = [sup EXCEPT ![k] = IdleSup]
          BY <2>1, <2>2, <2>3, <3>2 DEF Enter, storeVars, loginVars, NoNewMark
    <3>3. CASE \E seat : sup' = [sup EXCEPT ![k] = [@ EXCEPT !.at = "starting", !.seat = seat]]
      <4>1. PICK seat : sup' = [sup EXCEPT ![k] = [@ EXCEPT !.at = "starting", !.seat = seat]]
            BY <3>3
      <4> DEFINE r == [sup[k] EXCEPT !.at = "starting", !.seat = seat]
      <4>2. DOMAIN r = {"at", "seat", "mark"} /\ r.mark = sup[k].mark
            BY <2>2
      <4>3. sup' = [sup EXCEPT ![k] = r]
            BY <4>1
      <4> HIDE DEF r
      <4> QED BY <2>2, <2>3, <4>2, <4>3 DEF Enter, storeVars, loginVars, NoNewMark
    <3> QED BY <3>1, <3>2, <3>3
  <2>4. CASE Clear(k)
    <3> DEFINE r == [sup[k] EXCEPT !.at = "cleared", !.mark = NoSeat]
    <3>1. DOMAIN r = {"at", "seat", "mark"} /\ r.mark = NoSeat
          BY <2>2
    <3>2. sup' = [sup EXCEPT ![k] = r]
          BY <2>4 DEF Clear
    <3> HIDE DEF r
    <3> QED BY <2>2, <2>4, <3>1, <3>2 DEF Clear, storeVars, loginVars, NoNewMark
  <2>5. CASE Finish(k)
        BY <2>1, <2>2, <2>5 DEF Finish, storeVars, NoNewMark
  <2>6. CASE Killed(k)
        BY <2>1, <2>2, <2>6 DEF Killed, storeVars, loginVars, NoNewMark
  <2>7. CASE \E s \in CodexSeats : Hop(k, s)
    <3> PICK s \in CodexSeats : Hop(k, s)
        BY <2>7
    <3> DEFINE r == [sup[k] EXCEPT !.at = "hopping", !.seat = s]
    <3>1. DOMAIN r = {"at", "seat", "mark"} /\ r.mark = sup[k].mark
          BY <2>2
    <3>2. sup' = [sup EXCEPT ![k] = r]
          BY DEF Hop
    <3> HIDE DEF r
    <3> QED BY <2>2, <3>1, <3>2 DEF Hop, NoNewMark
  <2> QED BY <2>3, <2>4, <2>5, <2>6, <2>7
<1>2. CopiesAreOld'
      BY <1>1 DEF CodexInv, CopiesAreOld, MirrorOf
<1>3. SupsOk' /\ (NoSession => NoSession') /\ LockOk'
      BY <1>1, SupEnds, LockStays, LockGoes DEF CodexInv
<1>4. PollsOk(poll, issued, spurned, NoSession) /\ Grows(issued, issued)
      BY IssuesNone DEF CodexInv, CopiesAreOld
<1>5. PollsOk(poll', issued, spurned, NoSession')
      BY <1>1, <1>3, <1>4, PollsOutdated, PollsKeep
<1>6. KeepsLogins /\ Proves
      BY <1>1 DEF KeepsLogins, Proves, CodexInv, CopiesAreOld
<1> QED BY <1>1, <1>2, <1>3, <1>5, <1>6 DEF GoodStep, CodexInv

\* A session starts: every poll that found none is told.
LEMMA MarkIsGood ==
  ASSUME CodexInv, NEW k \in Supervisors, Mark(k)
  PROVE  GoodStep
<1>1. UNCHANGED <<issued, home, mirror, known, active, revoked, spurned>> /\ poll' = Alarmed
      /\ sup' = [sup EXCEPT ![k] = [@ EXCEPT !.at = "running", !.mark = sup[k].seat]]
      /\ storeLock' = IF storeLock.copy
                      THEN [storeLock EXCEPT !.late = @ \cup {sup[k].seat}] ELSE storeLock
      BY DEF Mark, storeVars, loginVars
<1>2. SupsOk'
      BY <1>1 DEF CodexInv, SupsOk
<1>3. PollsOk(poll, issued, spurned, NoSession)
      BY DEF CodexInv
<1>4. ASSUME NEW p \in Pollers
      PROVE  PollOk(Alarmed[p], issued, spurned, NoSession')
  <2>1. PollOk(poll[p], issued, spurned, NoSession)
        BY <1>3 DEF PollsOk
  <2>2. CASE poll[p].at = "looked"
    <3>1. Alarmed[p] = [poll[p] EXCEPT !.current = FALSE]
          BY <2>2 DEF Alarmed
    <3>2. DOMAIN Alarmed[p] = PollFields /\ ~Alarmed[p].current /\ Alarmed[p].at = "looked"
          BY <2>1, <2>2, <3>1 DEF PollOk, PollFields
    <3> QED BY <3>2 DEF PollOk
  <2>3. CASE poll[p].at # "looked"
    <3>1. Alarmed[p] = poll[p]
          BY <2>3 DEF Alarmed
    <3> QED BY <2>1, <2>3, <3>1 DEF PollOk
  <2> QED BY <2>2, <2>3
<1>5. PollsOk(poll', issued, spurned, NoSession')
      BY <1>1, <1>4 DEF PollsOk, Alarmed
<1>6. CopiesAreOld' /\ KeepsLogins /\ Proves
      BY <1>1 DEF CopiesAreOld, KeepsLogins, Proves, CodexInv
<1>7. LockOk'
  <2>1. DOMAIN storeLock = {"by", "copy", "late"} /\ LockOk
        BY DEF CodexInv, LockOk
  <2>2. CASE ~storeLock.copy
        BY <1>1, <2>1, <2>2 DEF LockOk, LockFree
  <2>3. CASE storeLock.copy
    <3>1. /\ DOMAIN storeLock' = {"by", "copy", "late"} /\ storeLock'.by = storeLock.by
          /\ storeLock'.copy = storeLock.copy
          /\ storeLock'.late = storeLock.late \cup {sup[k].seat}
          BY <1>1, <2>1, <2>3
    <3>2. \A s \in CodexSeats : Running(s)' => Running(s) \/ s = sup[k].seat
          BY <1>1 DEF Running, CodexInv, SupsOk
    <3> QED BY <1>1, <2>1, <2>3, <3>1, <3>2 DEF LockOk, LockFree
  <2> QED BY <2>2, <2>3
<1> QED BY <1>1, <1>2, <1>5, <1>6, <1>7 DEF GoodStep, CodexInv

\* A child renews: its home holds the newest login.
LEMMA ChildIsGood ==
  ASSUME CodexInv, NEW k \in Supervisors, ChildRenews(k)
  PROVE  GoodStep
<1> DEFINE s == sup[k].seat
<1>1. /\ UNCHANGED <<mirror, known, active, revoked, sup, poll, storeLock, spurned>>
      /\ issued' = [issued EXCEPT ![s] = @ + 1]
      /\ home' = [home EXCEPT ![s] = issued'[s]]
      /\ home[s] = issued[s]
      BY DEF ChildRenews, storeVars
<1>2. /\ issued \in [CodexSeats -> Int] /\ home \in [CodexSeats -> Int]
      /\ \A t \in CodexSeats : issued[t] >= 0 /\ home[t] <= issued[t]
      BY DEF CodexInv, CopiesAreOld
<1> HIDE DEF s
<1>5. LockOk'
      BY <1>1, SameLock
<1>3. CASE s \in CodexSeats
  <2>1. CopiesAreOld' /\ KeepsLogins
        BY <1>1, <1>2, <1>3 DEF CopiesAreOld, CodexInv, KeepsLogins
  <2>2. Grows(issued, issued')
        BY <1>1, <1>2, <1>3, IssuesOne
  <2>3. PollsOk(poll, issued, spurned, NoSession)
        BY DEF CodexInv
  <2>4. PollsOk(poll, issued', spurned, NoSession)
        BY <1>1, <2>2, <2>3, PollsKeep
  <2>5. PollsOk(poll, issued, spurned, NoSession)'
        BY <1>1, <2>4 DEF NoSession
  <2>6. SupsOk' /\ Proves
        BY <1>1 DEF CodexInv, SupsOk, Proves
  <2> QED BY <1>1, <2>1, <2>5, <2>6, <1>5 DEF GoodStep, CodexInv
<1>4. CASE s \notin CodexSeats
  <2>1. issued' = issued /\ home' = home
        BY <1>1, <1>2, <1>4
  <2>2. KeepsLogins
        BY <1>2, <2>1 DEF KeepsLogins
  <2>5. mirror' = mirror
        BY <1>1
  <2>6. CopiesAreOld'
        BY <2>1, <2>5 DEF CodexInv, CopiesAreOld
  <2>4. SupsOk' /\ Proves
        BY <1>1 DEF CodexInv, SupsOk, Proves
  <2>3. PollsOk(poll, issued, spurned, NoSession)'
        BY <1>1, <2>1 DEF CodexInv, NoSession
  <2> QED BY <1>1, <2>2, <2>3, <2>4, <2>6, <1>5 DEF GoodStep, CodexInv
<1> QED BY <1>3, <1>4

-----------------------------------------------------------------------------
(* The polls. *)

\* What is known of a poll.
LEMMA PollKnown ==
  ASSUME CodexInv, NEW p \in Pollers
  PROVE  PollsOk(poll, issued, spurned, NoSession) /\ PollOk(poll[p], issued, spurned, NoSession)
         /\ DOMAIN poll = Pollers /\ DOMAIN poll[p] = PollFields
BY DEF CodexInv, PollsOk, PollOk

\* A poll that is dropped.
LEMMA DropIsOk ==
  ASSUME CodexInv, NEW p \in Pollers
  PROVE  PollsOk([poll EXCEPT ![p] = IdlePoll], issued, spurned, NoSession)
BY PollKnown, PollMoves, IdleIsPast

\* A poll that goes to a place the invariant does not speak of.
LEMMA PastIsOk ==
  ASSUME CodexInv, NEW p \in Pollers, NEW r, DOMAIN r = PollFields,
         r.at \in {"idle", "observing", "fetch", "fetched", "before", "reread"}
  PROVE  PollsOk([poll EXCEPT ![p] = r], issued, spurned, NoSession)
BY PollKnown, PollMoves, PollIsPast

\* A poll that saves.
LEMMA SaverIsOk ==
  ASSUME CodexInv, NEW p \in Pollers, NEW place \in {"idle", "fetch"}
  PROVE  PollsOk(SavedBy(p, place), issued, spurned, NoSession)
<1>1. PollsOk(Outdated, issued, spurned, NoSession)
      BY IssuesNone, PollsOutdated DEF CodexInv, CopiesAreOld
<1> DEFINE r == [Outdated[p] EXCEPT !.at = place]
<1>2. DOMAIN Outdated[p] = PollFields
      BY <1>1 DEF PollsOk, PollOk
<1>3. DOMAIN r = PollFields /\ r.at = place
      BY <1>2 DEF PollFields
<1>4. PollOk(r, issued, spurned, NoSession)
  <2> HIDE DEF r
  <2> QED BY <1>3, PollIsPast
<1>5. SavedBy(p, place) = [Outdated EXCEPT ![p] = r]
      BY DEF SavedBy
<1> HIDE DEF r
<1>6. PollsOk([Outdated EXCEPT ![p] = r], issued, spurned, NoSession)
      BY <1>1, <1>4, PollMoves
<1> QED BY <1>5, <1>6

\* The steps that neither read a login nor spend one.
LEMMA EasyPollIsGood ==
  ASSUME CodexInv, NEW p \in Pollers,
         \/ Probe(p) \/ Fetch(p) \/ Before(p) \/ Reread(p) \/ Commit(p) \/ Skip(p)
         \/ \E s \in CodexSeats : Prepare(p, s)
  PROVE  GoodStep
<1> USE PollKnown, DropIsOk
<1>1. CASE Probe(p)
  <2> DEFINE r == [IdlePoll EXCEPT !.at = "looked", !.current = NoSession]
  <2>1. PollOk(r, issued, spurned, NoSession)
        BY DEF PollOk, IdlePoll, PollFields
  <2>2. poll' = [poll EXCEPT ![p] = r]
        BY <1>1 DEF Probe
  <2> HIDE DEF r
  <2>3. PollsOk(poll', issued, spurned, NoSession)
        BY <2>1, <2>2, PollMoves
  <2> QED BY <1>1, <2>3, OnlyPolls DEF Probe, storeVars, loginVars
<1>2. CASE \E s \in CodexSeats : Prepare(p, s)
  <2>1. PICK s \in CodexSeats : Prepare(p, s)
        BY <1>2
  <2> DEFINE r == [poll[p] EXCEPT !.at = "prepared", !.seat = s, !.added = added[s],
                                  !.active = (active = s)]
  <2>2. DOMAIN r = PollFields /\ r.at = "prepared" /\ r.seat = s
        BY DEF PollFields
  <2>3. poll' = [poll EXCEPT ![p] = r]
        BY <2>1 DEF Prepare
  <2> HIDE DEF r
  <2>4. PollOk(r, issued, spurned, NoSession)
        BY <2>2 DEF PollOk
  <2>5. PollsOk(poll', issued, spurned, NoSession)
        BY <2>3, <2>4, PollMoves
  <2> QED BY <2>1, <2>5, OnlyPolls DEF Prepare, storeVars, loginVars
<1>3. CASE Fetch(p)
  <2> DEFINE r == [poll[p] EXCEPT !.at = "fetched", !.attempt = attempts']
  <2>1. DOMAIN r = PollFields /\ r.at = "fetched"
        BY DEF PollFields
  <2>2. poll' = [poll EXCEPT ![p] = r]
        BY <1>3 DEF Fetch
  <2> HIDE DEF r
  <2>3. PollsOk(poll', issued, spurned, NoSession)
        BY <2>1, <2>2, PastIsOk
  <2> QED BY <1>3, <2>3, OnlyPolls DEF Fetch, storeVars, loginVars
<1>4. CASE Before(p)
  <2> DEFINE r == [poll[p] EXCEPT !.at = "before", !.active = (active = poll[p].seat),
                                  !.current = TRUE]
  <2>1. DOMAIN r = PollFields /\ r.at = "before"
        BY DEF PollFields
  <2>2. poll' = [poll EXCEPT ![p] = r]
        BY <1>4 DEF Before
  <2> HIDE DEF r
  <2>3. PollsOk(poll', issued, spurned, NoSession)
        BY <2>1, <2>2, PastIsOk
  <2> QED BY <1>4, <2>3, OnlyPolls DEF Before, storeVars, loginVars
<1>5. CASE Reread(p)
  <2> DEFINE r == [poll[p] EXCEPT !.at = "reread"]
  <2>1. DOMAIN r = PollFields /\ r.at = "reread"
        BY DEF PollFields
  <2>2. poll' = [poll EXCEPT ![p] = r] \/ poll' = [poll EXCEPT ![p] = IdlePoll]
        BY <1>5 DEF Reread, PollGoes, Drop
  <2> HIDE DEF r
  <2>3. PollsOk(poll', issued, spurned, NoSession)
        BY <2>1, <2>2, PastIsOk
  <2> QED BY <1>5, <2>3, OnlyPolls DEF Reread, storeVars, loginVars
<1>6. CASE Commit(p)
  <2>1. poll' = [SavedBy(p, "idle") EXCEPT ![p] = IdlePoll]
        \/ poll' = [poll EXCEPT ![p] = IdlePoll]
        BY <1>6 DEF Commit, Drop
  <2>2. PollsOk([SavedBy(p, "idle") EXCEPT ![p] = IdlePoll], issued, spurned, NoSession)
    <3>1. PollsOk(SavedBy(p, "idle"), issued, spurned, NoSession)
          BY SaverIsOk
    <3> QED BY <3>1, PollMoves, IdleIsPast
  <2>3. PollsOk(poll', issued, spurned, NoSession)
        BY <2>1, <2>2
  <2> QED BY <1>6, <2>3, OnlyPolls DEF Commit, loginVars
<1>7. CASE Skip(p)
  <2>1. PollsOk(poll', issued, spurned, NoSession)
        BY <1>7 DEF Skip, Drop
  <2> QED BY <1>7, <2>1, OnlyPolls DEF Skip, storeVars, loginVars
<1> QED BY <1>1, <1>2, <1>3, <1>4, <1>5, <1>6, <1>7

\* A poll reads a login, which was issued, and is asked what it may do with it.
LEMMA ReadIsGood ==
  ASSUME CodexInv, NEW p \in Pollers, ReadLogin(p) \/ Recheck(p)
  PROVE  GoodStep
<1> USE PollKnown, DropIsOk
<1>1. CASE ReadLogin(p)
  <2> DEFINE s == poll[p].seat
             d == Detached(s, poll[p].active)
             r == [poll[p] EXCEPT !.at = "read", !.running = Running(s), !.login = d]
  <2>1. s \in CodexSeats /\ d \in Int /\ d <= issued[s]
    <3>1. s \in CodexSeats
          BY <1>1 DEF ReadLogin, PollOk
    <3> QED BY <3>1, SeatsAreSeats DEF Detached, CodexInv, CopiesAreOld
  <2>2. DOMAIN r = PollFields /\ r.at = "read" /\ r.seat = s /\ r.login = d
        BY DEF PollFields
  <2>3. poll' = [poll EXCEPT ![p] = r] \/ poll' = [poll EXCEPT ![p] = IdlePoll]
        BY <1>1, ZenonT(30) DEF ReadLogin, Drop
  <2> HIDE DEF r, s, d
  <2>4. PollOk(r, issued, spurned, NoSession)
        BY <2>1, <2>2 DEF PollOk
  <2>5. PollsOk(poll', issued, spurned, NoSession)
        BY <2>3, <2>4, PollMoves
  <2> QED BY <1>1, <2>5, OnlyPolls DEF ReadLogin, storeVars, loginVars
<1>2. CASE Recheck(p)
  <2>1. ASSUME NEW place \in {"post", "fetch"}
        PROVE  PollsOk([poll EXCEPT ![p].at = place, ![p].active = FALSE,
                                    ![p].running = FALSE], issued, spurned, NoSession)
    <3> DEFINE r == [poll[p] EXCEPT !.at = place, !.active = FALSE, !.running = FALSE]
    <3>1. DOMAIN r = PollFields /\ r.at = place /\ r.seat = poll[p].seat
          /\ r.login = poll[p].login
          BY DEF PollFields
    <3>2. [poll EXCEPT ![p].at = place, ![p].active = FALSE, ![p].running = FALSE]
          = [poll EXCEPT ![p] = r]
          BY ZenonT(30)
    <3> HIDE DEF r
    <3>3. PollOk(r, issued, spurned, NoSession)
          BY <1>2, <3>1, ZenonT(30) DEF PollOk, Recheck
    <3> QED BY <3>2, <3>3, PollMoves
  <2>2. \/ poll' = [poll EXCEPT ![p] = IdlePoll]
        \/ \E place \in {"post", "fetch"} :
             poll' = [poll EXCEPT ![p].at = place, ![p].active = FALSE, ![p].running = FALSE]
        BY <1>2, ZenonT(30) DEF Recheck, Drop
  <2>3. PollsOk(poll', issued, spurned, NoSession)
        BY <2>1, <2>2
  <2> QED BY <1>2, <2>3, OnlyPolls, ZenonT(30) DEF Recheck, storeVars, loginVars
<1> QED BY <1>1, <1>2

\* A refresh token is spent, or found spent already.
LEMMA RenewIsGood ==
  ASSUME CodexInv, NEW p \in Pollers, Renew(p)
  PROVE  GoodStep
<1> USE PollKnown, DropIsOk
<1> DEFINE s == poll[p].seat
<1>1. /\ s \in CodexSeats /\ poll[p].login \in Int /\ poll[p].login <= issued[s]
      /\ issued \in [CodexSeats -> Int] /\ DOMAIN spurned = CodexSeats
      /\ UNCHANGED <<home, mirror, known, active, revoked, sup, storeLock>>
      /\ LockOk'
      BY SameLock DEF Renew, PollOk, storeVars, CodexInv, CopiesAreOld
<1>2. CASE /\ poll[p].login = issued[s]
           /\ issued' = [issued EXCEPT ![s] = @ + 1]
           /\ poll' = [poll EXCEPT ![p].at = "renewed", ![p].new = issued'[s]]
           /\ UNCHANGED spurned
  <2> DEFINE r == [poll[p] EXCEPT !.at = "renewed", !.new = issued'[s]]
  <2>1. DOMAIN r = PollFields /\ r.at = "renewed" /\ r.seat = s /\ r.new = issued'[s]
        /\ r.login = poll[p].login
        BY DEF PollFields
  <2>2. poll' = [poll EXCEPT ![p] = r]
    <3>1. \A n : [poll EXCEPT ![p].at = "renewed", ![p].new = n]
                 = [poll EXCEPT ![p] = [poll[p] EXCEPT !.at = "renewed", !.new = n]]
          OBVIOUS
    <3> QED BY <1>2, <3>1, Zenon
  <2> HIDE DEF r, s
  <2>3. issued'[s] = poll[p].login + 1
        BY <1>1, <1>2
  <2>4. PollOk(r, issued', spurned, NoSession)
        BY <1>1, <2>1, <2>3 DEF PollOk
  <2>5. Grows(issued, issued')
        BY <1>1, <1>2, IssuesOne
  <2>6. PollsOk(poll, issued', spurned, NoSession)
        BY <2>5, PollsKeep
  <2>7. PollsOk(poll', issued', spurned, NoSession)
        BY <2>2, <2>4, <2>6, PollMoves
  <2>8. PollsOk(poll, issued, spurned, NoSession)'
        BY <1>1, <1>2, <2>7 DEF NoSession
  <2>9. CopiesAreOld'
        BY <1>1, <1>2 DEF CodexInv, CopiesAreOld
  <2>10. SupsOk' /\ KeepsLogins /\ Proves
        BY <1>1 DEF SupsOk, KeepsLogins, Proves, CodexInv, CopiesAreOld
  <2> QED BY <1>1, <1>2, <2>8, <2>9, <2>10 DEF GoodStep, CodexInv
<1>3. CASE /\ issued' = issued /\ poll' = [poll EXCEPT ![p].at = "invalidated"]
           /\ spurned' = IF poll[p].login # issued[s] THEN spurned
                         ELSE [spurned EXCEPT ![s] = @ \cup {issued[s]}]
  <2> DEFINE r == [poll[p] EXCEPT !.at = "invalidated"]
  <2>1. DOMAIN r = PollFields /\ r.at = "invalidated" /\ r.seat = s
        /\ r.login = poll[p].login
        BY DEF PollFields
  <2>2. poll' = [poll EXCEPT ![p] = r]
        BY <1>3
  <2> HIDE DEF r, s
  <2>3. /\ DOMAIN spurned' = CodexSeats /\ (\A t \in CodexSeats : spurned[t] \subseteq spurned'[t])
        /\ poll[p].login < issued[s] \/ poll[p].login \in spurned'[s]
        BY <1>1, <1>3
  <2>4. PollsOk(poll, issued, spurned', NoSession)
        BY <2>3, PollsRefused
  <2>5. PollOk(r, issued, spurned', NoSession)
        BY <1>1, <2>1, <2>3 DEF PollOk
  <2>6. PollsOk(poll', issued, spurned', NoSession)
        BY <2>2, <2>4, <2>5, PollMoves
  <2>7. PollsOk(poll, issued, spurned, NoSession)'
        BY <1>1, <1>3, <2>6 DEF NoSession
  <2>8. CopiesAreOld' /\ SupsOk' /\ KeepsLogins /\ Proves
        BY <1>1, <1>3 DEF CodexInv, CopiesAreOld, SupsOk, KeepsLogins, Proves
  <2> QED BY <1>1, <2>3, <2>7, <2>8 DEF GoodStep, CodexInv
<1>4. CASE issued' = issued /\ spurned' = spurned /\ poll' = [poll EXCEPT ![p].at = "fetch"]
  <2> DEFINE r == [poll[p] EXCEPT !.at = "fetch"]
  <2>1. DOMAIN r = PollFields /\ r.at = "fetch"
        BY DEF PollFields
  <2>2. poll' = [poll EXCEPT ![p] = r]
        BY <1>4
  <2> HIDE DEF r
  <2>3. PollsOk(poll', issued, spurned, NoSession)
        BY <2>1, <2>2, PastIsOk
  <2> QED BY <1>1, <1>4, <2>3, OnlyPolls
<1> QED BY <1>2, <1>3, <1>4 DEF Renew, PollGoes

\* The new login is saved over the one that was spent, never over a newer one.
LEMMA SaveIsGood ==
  ASSUME CodexInv, NEW p \in Pollers, SaveRenewed(p)
  PROVE  GoodStep
<1> USE PollKnown, DropIsOk
<1> DEFINE s == poll[p].seat
<1>1. /\ s \in CodexSeats /\ poll[p].login \in Int /\ poll[p].new \in Int
      /\ poll[p].login <= poll[p].new /\ poll[p].new <= issued[s]
      /\ UNCHANGED <<issued, mirror, known, active, revoked, sup, storeLock, spurned>>
      /\ home' = IF home[s] = poll[p].login THEN [home EXCEPT ![s] = poll[p].new] ELSE home
      BY DEF SaveRenewed, PollOk, storeVars
<1>2. PollsOk(poll', issued, spurned, NoSession)
  <2>1. ASSUME NEW login
        PROVE  PollsOk([poll EXCEPT ![p].at = "fetch", ![p].login = login, ![p].new = NoLogin],
                       issued, spurned, NoSession)
    <3> DEFINE r == [poll[p] EXCEPT !.at = "fetch", !.login = login, !.new = NoLogin]
    <3>1. DOMAIN r = PollFields /\ r.at = "fetch"
          BY DEF PollFields
    <3>2. [poll EXCEPT ![p].at = "fetch", ![p].login = login, ![p].new = NoLogin]
          = [poll EXCEPT ![p] = r]
          OBVIOUS
    <3> HIDE DEF r
    <3> QED BY <3>1, <3>2, PastIsOk
  <2>2. \/ poll' = [poll EXCEPT ![p] = IdlePoll]
        \/ \E login : poll' = [poll EXCEPT ![p].at = "fetch", ![p].login = login,
                                          ![p].new = NoLogin]
        BY DEF SaveRenewed, Drop
  <2>3. CASE poll' = [poll EXCEPT ![p] = IdlePoll]
        BY <2>3
  <2>4. CASE \E login : poll' = [poll EXCEPT ![p].at = "fetch", ![p].login = login,
                                          ![p].new = NoLogin]
    <3>1. PICK login : poll' = [poll EXCEPT ![p].at = "fetch", ![p].login = login,
                                          ![p].new = NoLogin]
          BY <2>4
    <3>2. PollsOk([poll EXCEPT ![p].at = "fetch", ![p].login = login, ![p].new = NoLogin],
                  issued, spurned, NoSession)
          BY <2>1
    <3> QED BY ONLY <3>1, <3>2
  <2> QED BY <2>2, <2>3, <2>4
<1> HIDE DEF s
<1>3. CopiesAreOld' /\ KeepsLogins
  <2>1. CASE home' = home
        BY <1>1, <2>1 DEF CopiesAreOld, CodexInv, KeepsLogins
  <2>2. CASE home[s] = poll[p].login /\ home' = [home EXCEPT ![s] = poll[p].new]
        BY <1>1, <2>2 DEF CopiesAreOld, CodexInv, KeepsLogins
  <2> QED BY <1>1, <2>1, <2>2
<1>4. SupsOk' /\ Proves
      BY <1>1 DEF SupsOk, CodexInv, Proves
<1>5. PollsOk(poll, issued, spurned, NoSession)'
      BY <1>1, <1>2 DEF NoSession
<1>6. LockOk' /\ DOMAIN spurned' = CodexSeats
      BY <1>1, SameLock DEF CodexInv
<1> QED BY <1>1, <1>3, <1>4, <1>5, <1>6 DEF GoodStep, CodexInv

\* It cannot be saved: the home keeps what it has.
LEMMA SaveFailsIsGood ==
  ASSUME CodexInv, NEW p \in Pollers, SaveFails(p)
  PROVE  GoodStep
<1> USE PollKnown
<1> DEFINE r == [poll[p] EXCEPT !.at = "fetch", !.new = NoLogin]
<1>1. DOMAIN r = PollFields /\ r.at = "fetch"
      BY DEF PollFields
<1>2. poll' = [poll EXCEPT ![p] = r]
      BY DEF SaveFails
<1> HIDE DEF r
<1>3. PollsOk(poll', issued, spurned, NoSession)
      BY <1>1, <1>2, PastIsOk
<1> QED BY <1>3, OnlyPolls DEF SaveFails, storeVars, loginVars

\* The seat is called signed out: what it holds was tried and refused.
LEMMA RevokeIsGood ==
  ASSUME CodexInv, NEW p \in Pollers, CallRevoked(p)
  PROVE  GoodStep
<1> USE PollKnown, DropIsOk
<1> DEFINE s == poll[p].seat
<1>1. /\ s \in CodexSeats /\ poll[p].login \in Int
      /\ poll[p].login < issued[s] \/ poll[p].login \in spurned[s]
      /\ UNCHANGED <<issued, home, mirror, known, active, sup, storeLock, spurned>>
      /\ \/ revoked' = revoked /\ poll' = [poll EXCEPT ![p] = IdlePoll]
         \/ revoked' = revoked /\ poll' = [poll EXCEPT ![p].at = "fetch"]
         \/ /\ home[s] = poll[p].login /\ revoked' = [revoked EXCEPT ![s] = TRUE]
            /\ poll' = SavedBy(p, "fetch")
      BY DEF CallRevoked, PollOk, Drop, PollGoes, loginVars
<1> HIDE DEF s
<1>2. PollsOk(poll', issued, spurned, NoSession)
  <2> DEFINE r == [poll[p] EXCEPT !.at = "fetch"]
  <2>1. DOMAIN r = PollFields /\ r.at = "fetch"
        BY DEF PollFields
  <2>2. [poll EXCEPT ![p].at = "fetch"] = [poll EXCEPT ![p] = r]
        OBVIOUS
  <2> HIDE DEF r
  <2>3. PollsOk([poll EXCEPT ![p] = r], issued, spurned, NoSession)
        BY <2>1, PastIsOk
  <2> QED BY <1>1, <2>2, <2>3, SaverIsOk
<1>3. Proves /\ DOMAIN revoked' = CodexSeats
      BY <1>1 DEF Proves, CodexInv, CopiesAreOld
<1>4. CopiesAreOld' /\ SupsOk' /\ KeepsLogins
      BY <1>1 DEF CopiesAreOld, SupsOk, CodexInv, KeepsLogins
<1>5. PollsOk(poll, issued, spurned, NoSession)'
      BY <1>1, <1>2 DEF NoSession
<1>6. LockOk' /\ DOMAIN spurned' = CodexSeats
      BY <1>1, SameLock DEF CodexInv
<1> QED BY <1>1, <1>3, <1>4, <1>5, <1>6 DEF GoodStep, CodexInv

\* A poll takes the lock for a reconciliation: what it saw is still true.
LEMMA ObserveLooksIsGood ==
  ASSUME CodexInv, NEW p \in Pollers, ObserveLooks(p)
  PROVE  GoodStep
<1> USE PollKnown
<1>1. /\ UNCHANGED <<issued, home, mirror, known, active, revoked, sup, spurned>>
      /\ storeLock' = [by |-> "observe", copy |-> poll[p].current, late |-> {}]
      /\ poll[p].current => NoSession
      BY DEF ObserveLooks, TakeLock, storeVars, loginVars, PollOk
<1>2. LockOk'
      BY <1>1, SeatsAreSeats DEF LockOk, LockFree, NoSession, Running
<1> DEFINE r == [poll[p] EXCEPT !.at = "observing"]
<1>3. DOMAIN r = PollFields /\ r.at = "observing"
      BY DEF PollFields
<1>4. poll' = [poll EXCEPT ![p] = r]
      BY DEF ObserveLooks, PollGoes
<1> HIDE DEF r
<1>5. PollsOk(poll', issued, spurned, NoSession)
      BY <1>3, <1>4, PastIsOk
<1> QED BY <1>1, <1>2, <1>5, PollsAndLock

\* The reconciliation: only children that were marked since the look run.
LEMMA ObserveIsGood ==
  ASSUME CodexInv, NEW p \in Pollers, Observe(p)
  PROVE  GoodStep
<1> USE PollKnown
<1>1. /\ storeLock.by # "switch" /\ storeLock' = NoHolder
      /\ Reconcile(Adopts) /\ UNCHANGED <<issued, mirror, known, sup, spurned>>
      /\ active' = IF Adopts THEN mirror.seat ELSE active
      /\ \/ poll' = [Outdated EXCEPT ![p] = IdlePoll] \/ poll' = [poll EXCEPT ![p] = IdlePoll]
      BY DEF Observe, HandBack, FloorSeat
<1>2. /\ home' \in [CodexSeats -> Int] /\ (\A t \in CodexSeats : home'[t] <= issued[t])
      /\ DOMAIN revoked' = CodexSeats /\ KeepsLogins /\ Proves
      BY <1>1, ReconcileIsGood
<1>3. CopiesAreOld' /\ SupsOk'
      BY <1>1, <1>2 DEF CodexInv, CopiesAreOld, SupsOk
<1>4. PollsOk([Outdated EXCEPT ![p] = IdlePoll], issued, spurned, NoSession)
  <2>1. PollsOk(Outdated, issued, spurned, NoSession)
        BY IssuesNone, PollsOutdated DEF CodexInv, CopiesAreOld
  <2> QED BY <2>1, PollMoves, IdleIsPast
<1>5. PollsOk(poll', issued, spurned, NoSession)
      BY <1>1, <1>4, DropIsOk
<1>6. PollsOk(poll, issued, spurned, NoSession)'
      BY <1>1, <1>5 DEF NoSession
<1>7. (known \subseteq CodexSeats /\ active \in CodexSeats \cup {NoSeat})'
      BY <1>1 DEF CodexInv, Adopts
<1>8. LockOk' /\ DOMAIN spurned' = CodexSeats
      BY <1>1, LockGoes DEF CodexInv
<1> QED BY <1>2, <1>3, <1>6, <1>7, <1>8 DEF GoodStep, CodexInv

-----------------------------------------------------------------------------
(* Together. *)

\* Before anything happened.
LEMMA CodexStart == CodexInit => CodexInv
<1> SUFFICES ASSUME CodexInit PROVE CodexInv
    OBVIOUS
<1> USE DEF CodexInit, CodexFresh
<1>1. /\ mirror \in [seat: CodexSeats \cup {NoSeat}, login: Int]
      /\ mirror.seat \in CodexSeats /\ mirror.login = 0
      OBVIOUS
<1>2. CopiesAreOld
      BY <1>1 DEF CopiesAreOld
<1>3. SupsOk
      BY DEF SupsOk, IdleSup
<1>4. PollsOk(poll, issued, spurned, NoSession)
      BY IdleIsPast DEF PollsOk
<1>5. LockOk
      BY DEF LockOk, LockFree, NoHolder
<1> QED BY <1>1, <1>2, <1>3, <1>4, <1>5 DEF CodexInv

\* Every step keeps the invariant, the login under a child, and the proof of a revocation.
LEMMA CodexStep == CodexInv /\ [CodexNext]_codexVars => GoodStep
<1> SUFFICES ASSUME CodexInv, [CodexNext]_codexVars PROVE GoodStep
    OBVIOUS
<1>1. CASE CodexWorld
  <2>1. CASE \E s \in CodexSeats : CodexUser(s)
    <3> PICK s \in CodexSeats : CodexUser(s)
        BY <2>1
    <3> QED BY RemoveIsGood, StockIsGood DEF CodexUser
  <2> QED BY <1>1, <2>1, LooksIsGood, StockIsGood, SupIsGood DEF CodexWorld
<1>2. ASSUME NEW k \in Supervisors, CodexSup(k)
      PROVE  GoodStep
      BY <1>2, LaunchLooksIsGood, LaunchIsGood, SupIsGood, MarkIsGood, ChildIsGood DEF CodexSup
<1>3. ASSUME NEW p \in Pollers, CodexPoll(p)
      PROVE  GoodStep
      BY <1>3, EasyPollIsGood, ReadIsGood, RenewIsGood, SaveIsGood, SaveFailsIsGood, RevokeIsGood,
         ObserveLooksIsGood, ObserveIsGood DEF CodexPoll
<1>4. CASE UNCHANGED codexVars
  <2>1. UNCHANGED <<issued, home, mirror, known, active, revoked, sup, poll, storeLock, spurned>>
        BY <1>4 DEF codexVars, storeVars, loginVars
  <2>2. PollsOk(poll', issued, spurned, NoSession)
        BY <2>1 DEF CodexInv
  <2> QED BY <2>1, <2>2, OnlyPolls
<1>5. CASE CodexSwitch
      BY <1>5, ClickIsGood, SignInIsGood DEF CodexSwitch
<1> QED BY <1>1, <1>2, <1>3, <1>4, <1>5 DEF CodexNext

\* The invariant holds in every state: no copy of a login is newer than what was issued, and
\* a poll that found no session has been told of every session since (session.py:85-130).
THEOREM CopiesNeverLead == CodexSpec => []CodexInv
<1>1. CodexInv /\ [CodexNext]_codexVars => CodexInv'
      BY CodexStep DEF GoodStep
<1> QED BY <1>1, CodexStart, PTL DEF CodexSpec

\* For every number of seats, terminals and polls, and however logins are renewed, removed and
\* added anew: nobody puts an older login under a running child, unless its heartbeat came
\* between that copy and the look that allowed it (switch.py:45-50, launcher.py:2738).
THEOREM ChildIsSafe == CodexSpec => ChildKeepsItsLogin
<1>1. CodexInv /\ [CodexNext]_codexVars
      => [\A s \in CodexSeats : Running(s) /\ s \in known' /\ s \notin storeLock.late
                                => home'[s] >= home[s]]_codexVars
      BY CodexStep DEF GoodStep, KeepsLogins
<1> QED BY <1>1, CopiesNeverLead, PTL DEF CodexSpec, ChildKeepsItsLogin

\* A seat is called signed out only when the login in its home is spent, or was itself refused
\* (usage.py:1132-1135).
THEOREM RevocationIsSound == CodexSpec => RevocationIsProven
<1>1. CodexInv /\ [CodexNext]_codexVars
      => [\A s \in CodexSeats : revoked'[s] /\ ~revoked[s]
                                => home[s] # issued[s] \/ home[s] \in spurned[s]]_codexVars
      BY CodexStep DEF GoodStep, Proves
<1> QED BY <1>1, CopiesNeverLead, PTL DEF CodexSpec, RevocationIsProven

-----------------------------------------------------------------------------
(* Usage readings.  A reading is stored under the lock by a poll that has looked at the  *)
(* seat's login since the last save; what has to be known is that no copy of a login is  *)
(* older than the seat's last sign-in, which a sign-in sees to by replacing them all.    *)

ReadPlaces == {"read", "post", "renewed", "invalidated", "fetch", "fetched", "before", "reread"}

Holds(r, c) ==
  /\ r.attempt \in Int
  /\ r.at \in ReadPlaces => r.seat \in CodexSeats /\ r.login \in Int /\ r.login >= 0
  /\ r.at = "reread" /\ r.current => r.login >= c[r.seat]

HoldAll(f, c) == \A p \in Pollers : Holds(f[p], c)

CopiesAreNew ==
  /\ captured \in [CodexSeats -> Int]
  /\ \A s \in CodexSeats : /\ 0 <= captured[s] /\ captured[s] <= issued[s]
                           /\ home[s] # NoLogin => home[s] >= captured[s]
                           /\ mirror.seat = s => mirror.login >= captured[s]

ReadingsOk ==
  /\ DOMAIN reading = CodexSeats /\ DOMAIN added = CodexSeats
  /\ \A s \in CodexSeats : /\ DOMAIN reading[s] = {"attempt", "added", "login"}
                           /\ reading[s].attempt \in Int
  /\ ReadingIsTheSeats

ReadInv == attempts \in Int /\ CopiesAreNew /\ ReadingsOk /\ HoldAll(poll, captured)

AnswersInOrder ==
  \A s \in CodexSeats : reading'[s].attempt # 0 => reading'[s].attempt >= reading[s].attempt
ReadStep == ReadInv' /\ AnswersInOrder

\* A step that stores no reading and signs nobody in.
LEMMA KeepsReadings ==
  ASSUME ReadInv, UNCHANGED <<captured, added, reading>>, attempts' \in Int, CopiesAreNew',
         HoldAll(poll', captured)
  PROVE  ReadStep
<1>1. ReadingsOk' /\ AnswersInOrder
      BY DEF ReadInv, ReadingsOk, ReadingIsTheSeats, AnswersInOrder
<1>2. HoldAll(poll, captured)'
      OBVIOUS
<1> QED BY <1>1, <1>2 DEF ReadStep, ReadInv

\* A poll that was told of a save holds nothing to commit, whatever was captured since.
LEMMA OutdatedHolds ==
  ASSUME CodexInv, NEW c, NEW d, HoldAll(poll, c)
  PROVE  HoldAll(Outdated, d)
<1> SUFFICES ASSUME NEW p \in Pollers PROVE Holds(Outdated[p], d)
    BY DEF HoldAll
<1>1. Holds(poll[p], c) /\ DOMAIN poll[p] = PollFields
      BY PollKnown DEF HoldAll
<1>2. Outdated[p] = IF poll[p].at = "looked" THEN poll[p] ELSE [poll[p] EXCEPT !.current = FALSE]
      BY DEF Outdated
<1>3. /\ Outdated[p].at = "looked" \/ ~Outdated[p].current
      /\ Outdated[p].at = poll[p].at
      /\ Outdated[p].seat = poll[p].seat /\ Outdated[p].login = poll[p].login
      /\ Outdated[p].attempt = poll[p].attempt
      BY <1>1, <1>2 DEF PollFields
<1> QED BY <1>1, <1>3 DEF Holds

\* One poll moves.
LEMMA HoldMoves ==
  ASSUME NEW f, DOMAIN f = Pollers, NEW c, HoldAll(f, c), NEW p \in Pollers, NEW r, Holds(r, c)
  PROVE  HoldAll([f EXCEPT ![p] = r], c)
BY DEF HoldAll

\* A poll that is over.
LEMMA IdleHolds == ASSUME NEW c PROVE Holds(IdlePoll, c)
BY DEF Holds, IdlePoll, ReadPlaces

\* ... among others that are not.
LEMMA DropHolds ==
  ASSUME CodexInv, ReadInv, NEW p \in Pollers
  PROVE  HoldAll([poll EXCEPT ![p] = IdlePoll], captured)
BY PollKnown, HoldMoves, IdleHolds DEF ReadInv

\* What is known of the copies before a step.
LEMMA CopiesKnown ==
  ASSUME CodexInv, ReadInv
  PROVE  /\ issued \in [CodexSeats -> Int] /\ home \in [CodexSeats -> Int]
         /\ captured \in [CodexSeats -> Int]
         /\ mirror.seat \in CodexSeats \cup {NoSeat} /\ mirror.login \in Int
         /\ known \subseteq CodexSeats /\ active \in CodexSeats \cup {NoSeat}
         /\ NoSeat \notin CodexSeats
         /\ \A s \in CodexSeats : /\ 0 <= captured[s] /\ captured[s] <= issued[s]
                                  /\ home[s] <= issued[s]
                                  /\ home[s] # NoLogin => home[s] >= captured[s]
                                  /\ mirror.seat = s => mirror.login >= captured[s]
BY NoSeatIsNoSeat DEF CodexInv, ReadInv, CopiesAreOld, CopiesAreNew

\* sync_back copies nothing older than the last sign-in.
LEMMA SyncIsNew ==
  ASSUME CodexInv, ReadInv
  PROVE  \A s \in CodexSeats : Synced[s] # NoLogin => Synced[s] >= captured[s]
<1>1. CASE Synced = home
      BY <1>1, CopiesKnown
<1>2. CASE mirror.seat = active /\ Synced = [home EXCEPT ![active] = mirror.login]
      BY <1>2, CopiesKnown
<1> QED BY <1>1, <1>2 DEF Synced

\* A click.
LEMMA ClickReads ==
  ASSUME CodexInv, ReadInv, NEW s \in CodexSeats, Click(s)
  PROVE  ReadStep
<1>1. /\ UNCHANGED <<issued, captured, added, reading, attempts>> /\ home' = Synced
      /\ mirror' = mirror \/ (home'[s] # NoLogin /\ mirror' = MirrorOf(home', s))
      /\ poll' = poll \/ poll' = Outdated
      BY DEF Click
<1>2. CopiesAreNew'
      BY <1>1, CopiesKnown, SyncIsNew, SyncIsOld DEF CopiesAreNew, MirrorOf
<1>3. HoldAll(poll', captured)
      BY <1>1, OutdatedHolds DEF ReadInv
<1> QED BY <1>1, <1>2, <1>3, KeepsReadings DEF ReadInv

\* A sign-in replaces every copy, outdates every poll and forgets the reading.
LEMMA SignInReads ==
  ASSUME CodexInv, ReadInv, NEW s \in CodexSeats, SignIn(s)
  PROVE  ReadStep
<1>1. /\ issued' = [issued EXCEPT ![s] = issued[s] + 1]
      /\ captured' = [captured EXCEPT ![s] = issued[s] + 1]
      /\ home' = [Synced EXCEPT ![s] = issued[s] + 1]
      /\ mirror' = MirrorOf(home', s) /\ poll' = Outdated /\ attempts' = attempts
      BY CopiesKnown DEF SignIn
<1>2. CopiesAreNew'
  <2>1. captured' \in [CodexSeats -> Int] /\ home'[s] = issued[s] + 1
        BY <1>1, CopiesKnown, SyncIsOld
  <2>2. ASSUME NEW u \in CodexSeats
        PROVE  /\ 0 <= captured'[u] /\ captured'[u] <= issued'[u]
               /\ home'[u] # NoLogin => home'[u] >= captured'[u]
        BY <1>1, CopiesKnown, SyncIsNew, SyncIsOld
  <2>3. mirror'.seat = s /\ mirror'.login = captured'[s]
        BY <1>1, <2>1, CopiesKnown DEF MirrorOf
  <2> QED BY <2>1, <2>2, <2>3 DEF CopiesAreNew
<1>3. HoldAll(poll', captured')
      BY <1>1, OutdatedHolds DEF ReadInv
<1>4. ASSUME NEW u \in CodexSeats
      PROVE  /\ DOMAIN reading'[u] = {"attempt", "added", "login"} /\ reading'[u].attempt \in Int
             /\ u = s => reading'[u].attempt = 0
             /\ u # s => reading'[u] = reading[u] /\ added'[u] = added[u]
                         /\ captured'[u] = captured[u]
      BY <1>1, CopiesKnown DEF SignIn, ReadInv, ReadingsOk, NeverRead
<1>5. DOMAIN reading' = CodexSeats /\ DOMAIN added' = CodexSeats
      BY DEF SignIn, ReadInv, ReadingsOk
<1>6. ReadingIsTheSeats'
      BY <1>4 DEF ReadInv, ReadingsOk, ReadingIsTheSeats
<1>7. AnswersInOrder
      BY <1>4 DEF AnswersInOrder, ReadInv, ReadingsOk
<1> QED BY <1>1, <1>2, <1>3, <1>4, <1>5, <1>6, <1>7 DEF ReadStep, ReadInv, ReadingsOk

\* A seat is removed with its reading.
LEMMA RemoveReads ==
  ASSUME CodexInv, ReadInv, NEW s \in CodexSeats, RemoveSeat(s)
  PROVE  ReadStep
<1>1. /\ UNCHANGED <<issued, mirror, added, captured, attempts>> /\ poll' = Outdated
      /\ home' = [home EXCEPT ![s] = NoLogin]
      /\ reading' = [reading EXCEPT ![s] = NeverRead]
      BY DEF RemoveSeat
<1>2. CopiesAreNew'
      BY <1>1, CopiesKnown DEF CopiesAreNew, NoLogin
<1>3. HoldAll(poll', captured')
      BY <1>1, OutdatedHolds DEF ReadInv
<1>4. ASSUME NEW u \in CodexSeats
      PROVE  /\ DOMAIN reading'[u] = {"attempt", "added", "login"} /\ reading'[u].attempt \in Int
             /\ u = s => reading'[u].attempt = 0
             /\ u # s => reading'[u] = reading[u]
      BY <1>1 DEF ReadInv, ReadingsOk, NeverRead
<1>5. ReadingsOk'
      BY <1>1, <1>4 DEF ReadInv, ReadingsOk, ReadingIsTheSeats
<1>6. AnswersInOrder
      BY <1>4 DEF AnswersInOrder, ReadInv, ReadingsOk
<1> QED BY <1>1, <1>2, <1>3, <1>5, <1>6 DEF ReadStep, ReadInv

\* The stock tool signs out, renews its login, or signs in.
LEMMA StockReads ==
  ASSUME CodexInv, ReadInv, StockLogout \/ StockRenews \/ \E s \in CodexSeats : StockSignIn(s)
  PROVE  ReadStep
<1>1. /\ UNCHANGED <<home, captured, added, reading, attempts>>
      /\ \/ issued' = issued /\ mirror'.seat = NoSeat
         \/ \E s \in CodexSeats : /\ issued' = [issued EXCEPT ![s] = issued[s] + 1]
                                  /\ mirror'.seat = s /\ mirror'.login = issued[s] + 1
      /\ poll' = poll \/ poll' = Outdated
  <2>1. CASE StockLogout
        BY <2>1 DEF StockLogout, Blank
  <2>2. CASE StockRenews
    <3>1. mirror.seat \in CodexSeats /\ mirror \in [seat: CodexSeats \cup {NoSeat}, login: Int]
          BY <2>2 DEF StockRenews, CodexInv, CopiesAreOld
    <3>2. mirror'.seat = mirror.seat /\ mirror'.login = issued[mirror.seat] + 1
          BY <2>2, <3>1 DEF StockRenews
    <3> QED BY <2>2, <3>1, <3>2 DEF StockRenews, storeVars
  <2>3. CASE \E s \in CodexSeats : StockSignIn(s)
    <3>1. PICK s \in CodexSeats : StockSignIn(s)
          BY <2>3
    <3>2. issued' = [issued EXCEPT ![s] = issued[s] + 1] /\ issued'[s] = issued[s] + 1
          /\ mirror' = [seat |-> s, login |-> issued'[s]]
          BY <3>1, CopiesKnown DEF StockSignIn
    <3>3. mirror'.seat = s /\ mirror'.login = issued[s] + 1
          BY <3>2
    <3>4. UNCHANGED <<home, captured, added, reading, attempts, poll>>
          BY <3>1 DEF StockSignIn, storeVars
    <3> QED BY <3>2, <3>3, <3>4
  <2> QED BY <2>1, <2>2, <2>3
<1>2. CopiesAreNew'
      BY <1>1, CopiesKnown DEF CopiesAreNew
<1>3. HoldAll(poll', captured)
      BY <1>1, OutdatedHolds DEF ReadInv
<1> QED BY <1>1, <1>2, <1>3, KeepsReadings DEF ReadInv

\* Reconciliation copies the mirror, which is no older than the last sign-in, and at most
\* makes a reading due again.
LEMMA ReconcileReads ==
  ASSUME CodexInv, ReadInv, NEW go, go => mirror.seat \in known, Reconcile(go),
         UNCHANGED <<captured, added>>
  PROVE  /\ ReadingsOk' /\ AnswersInOrder
         /\ \A s \in CodexSeats : home'[s] # NoLogin => home'[s] >= captured[s]
<1>1. home' = (IF go THEN [home EXCEPT ![mirror.seat] = mirror.login] ELSE home)
      BY DEF Reconcile, Adopted
<1>2. \A s \in CodexSeats : home'[s] # NoLogin => home'[s] >= captured[s]
      BY <1>1, CopiesKnown
<1>3. reading' = reading \/ reading' = [reading EXCEPT ![mirror.seat].attempt = 0]
      BY DEF Reconcile
<1>4. DOMAIN reading' = CodexSeats
      BY <1>3 DEF ReadInv, ReadingsOk
<1>5. ASSUME NEW u \in CodexSeats
      PROVE  /\ DOMAIN reading'[u] = {"attempt", "added", "login"}
             /\ reading'[u].attempt = 0 \/ reading'[u] = reading[u]
      BY <1>3 DEF ReadInv, ReadingsOk
<1>6. ReadingsOk'
      BY <1>4, <1>5 DEF ReadInv, ReadingsOk, ReadingIsTheSeats
<1>7. AnswersInOrder
      BY <1>5 DEF AnswersInOrder, ReadInv, ReadingsOk
<1> QED BY <1>2, <1>6, <1>7

\* The first lock of a run.
LEMMA LaunchReads ==
  ASSUME CodexInv, ReadInv, NEW k \in Supervisors, NoLaunch(k) \/ \E s \in CodexSeats : Launch(k, s)
  PROVE  ReadStep
<1>1. /\ Reconcile(Adopts) /\ UNCHANGED <<issued, added, captured, attempts>>
      /\ mirror' = mirror \/ \E s \in CodexSeats : home'[s] # NoLogin /\ mirror' = MirrorOf(home', s)
      /\ poll' = poll \/ poll' = Outdated
  <2>1. CASE NoLaunch(k)
        BY <2>1 DEF NoLaunch
  <2>2. CASE \E s \in CodexSeats : Launch(k, s)
    <3> PICK s \in CodexSeats : Launch(k, s)
        BY <2>2
    <3>1. home'[s] # NoLogin
          BY DEF Launch, CanLaunch, Reconcile
    <3> QED BY <3>1 DEF Launch
  <2> QED BY <2>1, <2>2
<1>2. Adopts => mirror.seat \in known
      BY DEF Adopts
<1>3. /\ ReadingsOk' /\ AnswersInOrder
      /\ \A u \in CodexSeats : home'[u] # NoLogin => home'[u] >= captured[u]
      BY <1>1, <1>2, ReconcileReads
<1>5. CopiesAreNew'
      BY <1>1, <1>3, CopiesKnown DEF CopiesAreNew, MirrorOf
<1>6. HoldAll(poll', captured')
      BY <1>1, OutdatedHolds DEF ReadInv
<1>7. HoldAll(poll, captured)'
      BY <1>6
<1> QED BY <1>1, <1>3, <1>5, <1>7 DEF ReadStep, ReadInv

\* The steps of a supervisor that at most install a login in the mirror.
LEMMA SupReads ==
  ASSUME CodexInv, ReadInv, NEW k \in Supervisors,
         Enter(k) \/ Clear(k) \/ Finish(k) \/ Killed(k) \/ \E s \in CodexSeats : Hop(k, s)
  PROVE  ReadStep
<1>1. /\ UNCHANGED <<issued, home, captured, added, reading, attempts>>
      /\ poll' = poll \/ poll' = Outdated
      /\ mirror' = mirror \/ \E u \in CodexSeats : home[u] # NoLogin /\ mirror' = MirrorOf(home, u)
  <2>1. CASE Enter(k) \/ Clear(k) \/ Killed(k)
        BY <2>1 DEF Enter, Clear, Killed, storeVars, loginVars
  <2>2. CASE Finish(k)
        BY <2>2, CopiesKnown DEF Finish, storeVars
  <2>3. CASE \E s \in CodexSeats : Hop(k, s)
        BY <2>3 DEF Hop
  <2> QED BY <2>1, <2>2, <2>3
<1>2. CopiesAreNew'
      BY <1>1, CopiesKnown DEF CopiesAreNew, MirrorOf
<1>3. HoldAll(poll', captured)
      BY <1>1, OutdatedHolds DEF ReadInv
<1> QED BY <1>1, <1>2, <1>3, KeepsReadings DEF ReadInv

\* A session starts.
LEMMA MarkingReads ==
  ASSUME CodexInv, ReadInv, NEW k \in Supervisors, Mark(k)
  PROVE  ReadStep
<1>1. /\ UNCHANGED <<issued, home, mirror, captured, added, reading, attempts>>
      /\ poll' = Alarmed
      BY DEF Mark, storeVars, loginVars
<1>2. CopiesAreNew'
      BY <1>1, CopiesKnown DEF CopiesAreNew
<1>3. ASSUME NEW p \in Pollers PROVE Holds(Alarmed[p], captured)
  <2>1. Holds(poll[p], captured) /\ DOMAIN poll[p] = PollFields
        BY PollKnown DEF ReadInv, HoldAll
  <2>2. CASE poll[p].at = "looked"
    <3>1. Alarmed[p] = [poll[p] EXCEPT !.current = FALSE]
          BY <2>2 DEF Alarmed
    <3>2. Alarmed[p].at = "looked" /\ Alarmed[p].attempt = poll[p].attempt
          BY <2>1, <2>2, <3>1 DEF PollFields
    <3> QED BY <2>1, <3>2 DEF Holds, ReadPlaces
  <2>3. CASE poll[p].at # "looked"
        BY <2>1, <2>3 DEF Alarmed
  <2> QED BY <2>2, <2>3
<1>4. HoldAll(poll', captured)
      BY <1>1, <1>3 DEF HoldAll
<1> QED BY <1>1, <1>2, <1>4, KeepsReadings DEF ReadInv

\* A child renews its login.
LEMMA ChildReads ==
  ASSUME CodexInv, ReadInv, NEW k \in Supervisors, ChildRenews(k)
  PROVE  ReadStep
<1> DEFINE s == sup[k].seat
<1>1. /\ UNCHANGED <<mirror, captured, added, reading, attempts, poll>>
      /\ issued' = [issued EXCEPT ![s] = @ + 1] /\ home' = [home EXCEPT ![s] = issued'[s]]
      BY DEF ChildRenews, storeVars
<1> HIDE DEF s
<1>2. CopiesAreNew'
  <2>1. CASE s \in CodexSeats
        BY <1>1, <2>1, CopiesKnown DEF CopiesAreNew
  <2>2. CASE s \notin CodexSeats
    <3>1. issued' = issued /\ home' = home
          BY <1>1, <2>2, CopiesKnown
    <3> QED BY <1>1, <3>1, CopiesKnown DEF CopiesAreNew
  <2> QED BY <2>1, <2>2
<1>3. HoldAll(poll', captured)
      BY <1>1 DEF ReadInv
<1> QED BY <1>1, <1>2, <1>3, KeepsReadings DEF ReadInv

\* What a poll knows when it moves.
LEMMA HoldKnown ==
  ASSUME CodexInv, ReadInv, NEW p \in Pollers
  PROVE  /\ DOMAIN poll = Pollers /\ DOMAIN poll[p] = PollFields /\ Holds(poll[p], captured)
         /\ \A r : Holds(r, captured) => HoldAll([poll EXCEPT ![p] = r], captured)
<1>1. DOMAIN poll = Pollers /\ DOMAIN poll[p] = PollFields /\ HoldAll(poll, captured)
      BY PollKnown DEF ReadInv
<1> QED BY <1>1, HoldMoves DEF HoldAll

\* A step of a poll that stores nothing and moves no login.
LEMMA PollReads ==
  ASSUME CodexInv, ReadInv, UNCHANGED <<home, mirror, captured, added, reading>>,
         attempts' \in Int, issued' = issued \/ Grows(issued, issued'),
         HoldAll(poll', captured)
  PROVE  ReadStep
<1>1. CopiesAreNew'
      BY CopiesKnown DEF CopiesAreNew, Grows
<1> QED BY <1>1, KeepsReadings

\* Whoever looks at the sessions moves nothing else.
LEMMA LookReads ==
  ASSUME CodexInv, ReadInv,
         \/ SyncLooks \/ (\E k \in Supervisors : LaunchLooks(k))
         \/ \E p \in Pollers : ObserveLooks(p) \/ SaveFails(p)
  PROVE  ReadStep
<1>1. CASE SyncLooks \/ \E k \in Supervisors : LaunchLooks(k)
  <2>1. UNCHANGED <<issued, home, mirror, captured, added, reading, attempts, poll>>
        BY <1>1 DEF SyncLooks, LaunchLooks, storeVars, loginVars
  <2> QED BY <2>1, PollReads DEF ReadInv
<1>2. ASSUME NEW p \in Pollers, ObserveLooks(p) \/ SaveFails(p)
      PROVE  ReadStep
  <2>1. UNCHANGED <<issued, home, mirror, captured, added, reading, attempts>>
        BY <1>2 DEF ObserveLooks, SaveFails, storeVars, loginVars
  <2>2. ASSUME NEW r, r.attempt = poll[p].attempt, poll' = [poll EXCEPT ![p] = r],
               \/ r.at = "observing"
               \/ /\ poll[p].at = "renewed" /\ r.at = "fetch"
                  /\ r.seat = poll[p].seat /\ r.login = poll[p].login
        PROVE  HoldAll(poll', captured)
    <3>1. Holds(r, captured)
          BY <2>2, HoldKnown DEF Holds, ReadPlaces
    <3> QED BY <2>2, <3>1, HoldKnown
  <2>3. CASE ObserveLooks(p)
    <3> DEFINE r == [poll[p] EXCEPT !.at = "observing"]
    <3>1. r.at = "observing" /\ r.attempt = poll[p].attempt
          BY HoldKnown DEF PollFields
    <3>2. poll' = [poll EXCEPT ![p] = r]
          BY <2>3 DEF ObserveLooks, PollGoes
    <3> HIDE DEF r
    <3>3. HoldAll(poll', captured)
          BY <2>2, <3>1, <3>2
    <3> QED BY <2>1, <3>3, PollReads DEF ReadInv
  <2>4. CASE SaveFails(p)
    <3> DEFINE r == [poll[p] EXCEPT !.at = "fetch", !.new = NoLogin]
    <3>1. /\ r.at = "fetch" /\ r.attempt = poll[p].attempt
          /\ r.seat = poll[p].seat /\ r.login = poll[p].login
          BY HoldKnown DEF PollFields
    <3>2. poll' = [poll EXCEPT ![p] = r] /\ poll[p].at = "renewed"
          BY <2>4 DEF SaveFails
    <3> HIDE DEF r
    <3>3. HoldAll(poll', captured)
          BY <2>2, <3>1, <3>2
    <3> QED BY <2>1, <3>3, PollReads DEF ReadInv
  <2> QED BY <1>2, <2>3, <2>4
<1> QED BY <1>1, <1>2

\* The polls up to the request.
LEMMA EarlyPollReads ==
  ASSUME CodexInv, ReadInv, NEW p \in Pollers,
         \/ Probe(p) \/ ReadLogin(p) \/ Recheck(p) \/ Fetch(p) \/ Skip(p)
         \/ \E s \in CodexSeats : Prepare(p, s)
  PROVE  ReadStep
<1> USE HoldKnown, DropHolds DEF ReadInv
<1>1. CASE Probe(p)
  <2> DEFINE r == [IdlePoll EXCEPT !.at = "looked", !.current = NoSession]
  <2>1. r.at = "looked" /\ r.attempt = 0
        BY DEF IdlePoll
  <2>2. poll' = [poll EXCEPT ![p] = r]
        BY <1>1 DEF Probe
  <2> HIDE DEF r
  <2>3. Holds(r, captured)
        BY <2>1, <2>2 DEF Holds, ReadPlaces
  <2>4. HoldAll(poll', captured)
        BY <2>2, <2>3
  <2> QED BY <1>1, <2>4, PollReads DEF Probe, storeVars, loginVars
<1>2. CASE \E s \in CodexSeats : Prepare(p, s)
  <2>1. PICK s \in CodexSeats : Prepare(p, s)
        BY <1>2
  <2> DEFINE r == [poll[p] EXCEPT !.at = "prepared", !.seat = s, !.added = added[s],
                                  !.active = (active = s)]
  <2>2. r.at = "prepared" /\ r.attempt = poll[p].attempt
        BY DEF PollFields
  <2>3. poll' = [poll EXCEPT ![p] = r]
        BY <2>1 DEF Prepare
  <2> HIDE DEF r
  <2>4. HoldAll(poll', captured)
        BY <2>2, <2>3 DEF Holds, ReadPlaces
  <2> QED BY <2>1, <2>4, PollReads DEF Prepare, storeVars, loginVars
<1>3. CASE ReadLogin(p)
  <2> DEFINE s == poll[p].seat
             d == Detached(s, poll[p].active)
             r == [poll[p] EXCEPT !.at = "read", !.running = Running(s), !.login = d]
  <2>1. s \in CodexSeats
        BY <1>3, PollKnown DEF ReadLogin, PollOk
  <2>2. d # NoLogin => d \in Int /\ d >= 0
        BY <2>1, CopiesKnown DEF Detached
  <2>3. r.at = "read" /\ r.seat = s /\ r.login = d /\ r.attempt = poll[p].attempt
        BY DEF PollFields
  <2>4. \/ d # NoLogin /\ poll' = [poll EXCEPT ![p] = r]
        \/ poll' = [poll EXCEPT ![p] = IdlePoll]
        BY <1>3, ZenonT(30) DEF ReadLogin, Drop
  <2> HIDE DEF r, s, d
  <2>5. HoldAll(poll', captured)
        BY <2>1, <2>2, <2>3, <2>4 DEF Holds, ReadPlaces
  <2> QED BY <1>3, <2>5, PollReads DEF ReadLogin, storeVars, loginVars
<1>4. CASE Recheck(p)
  <2>1. ASSUME NEW place \in {"post", "fetch"}
        PROVE  HoldAll([poll EXCEPT ![p].at = place, ![p].active = FALSE,
                                    ![p].running = FALSE], captured)
    <3> DEFINE r == [poll[p] EXCEPT !.at = place, !.active = FALSE, !.running = FALSE]
    <3>1. r.at = place /\ r.seat = poll[p].seat /\ r.login = poll[p].login
          /\ r.attempt = poll[p].attempt
          BY DEF PollFields
    <3>2. [poll EXCEPT ![p].at = place, ![p].active = FALSE, ![p].running = FALSE]
          = [poll EXCEPT ![p] = r]
          BY ZenonT(30)
    <3> HIDE DEF r
    <3>3. Holds(r, captured)
          BY <1>4, <3>1, ZenonT(30) DEF Holds, Recheck, ReadPlaces
    <3> QED BY <3>2, <3>3
  <2>2. \/ poll' = [poll EXCEPT ![p] = IdlePoll]
        \/ \E place \in {"post", "fetch"} :
             poll' = [poll EXCEPT ![p].at = place, ![p].active = FALSE, ![p].running = FALSE]
        BY <1>4, ZenonT(30) DEF Recheck, Drop
  <2>3. HoldAll(poll', captured)
        BY <2>1, <2>2
  <2> QED BY <1>4, <2>3, PollReads, ZenonT(30) DEF Recheck, storeVars, loginVars
<1>5. CASE Fetch(p)
  <2> DEFINE r == [poll[p] EXCEPT !.at = "fetched", !.attempt = attempts']
  <2>1. r.at = "fetched" /\ r.seat = poll[p].seat /\ r.login = poll[p].login
        /\ r.attempt = attempts'
        BY DEF PollFields
  <2>2. poll' = [poll EXCEPT ![p] = r]
        BY <1>5 DEF Fetch
  <2>3. attempts' \in Int /\ poll[p].at = "fetch"
        BY <1>5 DEF Fetch
  <2> HIDE DEF r
  <2>4. Holds(r, captured)
    <3>1. poll[p].seat \in CodexSeats /\ poll[p].login \in Int /\ poll[p].login >= 0
          BY <2>3 DEF Holds, ReadPlaces
    <3>2. r.seat \in CodexSeats /\ r.login \in Int /\ r.login >= 0
          /\ r.attempt \in Int /\ r.at # "reread"
          BY <2>1, <2>3, <3>1
    <3> QED BY <3>2 DEF Holds
  <2>5. HoldAll(poll', captured)
        BY <2>2, <2>4
  <2>6. UNCHANGED <<home, mirror, captured, added, reading, issued>>
        BY <1>5 DEF Fetch, storeVars, loginVars
  <2> QED BY <2>5, <2>6, <2>3, PollReads
<1>6. CASE Skip(p)
        BY <1>6, PollReads DEF Skip, Drop, storeVars, loginVars
<1> QED BY <1>1, <1>2, <1>3, <1>4, <1>5, <1>6

\* A refresh token is spent: what the poll holds stays a login.
LEMMA RenewReads ==
  ASSUME CodexInv, ReadInv, NEW p \in Pollers, Renew(p)
  PROVE  ReadStep
<1> USE HoldKnown
<1>1. /\ poll[p].at = "post" /\ UNCHANGED <<home, mirror, captured, added, reading, attempts>>
      /\ poll[p].seat \in CodexSeats /\ issued \in [CodexSeats -> Int]
      BY CopiesKnown, PollKnown DEF Renew, storeVars, PollOk
<1>2. issued' = issued \/ Grows(issued, issued')
      BY <1>1, IssuesOne DEF Renew
<1>3. ASSUME NEW place \in {"invalidated", "fetch"}
      PROVE  HoldAll([poll EXCEPT ![p].at = place], captured)
  <2> DEFINE r == [poll[p] EXCEPT !.at = place]
  <2>1. r.at = place /\ r.seat = poll[p].seat /\ r.login = poll[p].login
        /\ r.attempt = poll[p].attempt
        BY DEF PollFields
  <2>2. [poll EXCEPT ![p].at = place] = [poll EXCEPT ![p] = r]
        OBVIOUS
  <2> HIDE DEF r
  <2>3. Holds(r, captured)
        BY <1>1, <2>1 DEF Holds, ReadPlaces
  <2> QED BY <2>2, <2>3
<1>4. ASSUME NEW n, poll' = [poll EXCEPT ![p].at = "renewed", ![p].new = n]
      PROVE  HoldAll(poll', captured)
  <2> DEFINE r == [poll[p] EXCEPT !.at = "renewed", !.new = n]
  <2>1. r.at = "renewed" /\ r.seat = poll[p].seat /\ r.login = poll[p].login
        /\ r.attempt = poll[p].attempt
        BY DEF PollFields
  <2>2. poll' = [poll EXCEPT ![p] = r]
        BY <1>4
  <2> HIDE DEF r
  <2>3. Holds(r, captured)
        BY <1>1, <2>1 DEF Holds, ReadPlaces
  <2> QED BY <2>2, <2>3
<1>5. \/ \E n : poll' = [poll EXCEPT ![p].at = "renewed", ![p].new = n]
      \/ \E place \in {"invalidated", "fetch"} : poll' = [poll EXCEPT ![p].at = place]
  <2>1. CASE poll' = [poll EXCEPT ![p].at = "renewed", ![p].new = issued'[poll[p].seat]]
        BY <2>1, Zenon
  <2>2. CASE poll' = [poll EXCEPT ![p].at = "invalidated"]
        BY <2>2
  <2>3. CASE poll' = [poll EXCEPT ![p].at = "fetch"]
        BY <2>3
  <2> QED BY <2>1, <2>2, <2>3 DEF Renew, PollGoes
<1>6. HoldAll(poll', captured)
      BY <1>3, <1>4, <1>5
<1>7. attempts' \in Int
      BY <1>1 DEF ReadInv
<1> QED BY <1>1, <1>2, <1>6, <1>7, PollReads

\* The new login, which is newer than the one it replaces, goes into the home.
LEMMA SaveReads ==
  ASSUME CodexInv, ReadInv, NEW p \in Pollers, SaveRenewed(p)
  PROVE  ReadStep
<1> DEFINE s == poll[p].seat
<1>1. /\ s \in CodexSeats /\ poll[p].login \in Int /\ poll[p].new \in Int
      /\ poll[p].login <= poll[p].new /\ 0 <= poll[p].login
      /\ UNCHANGED <<issued, mirror, captured, added, reading, attempts>>
      /\ home' = home \/ (home[s] = poll[p].login /\ home' = [home EXCEPT ![s] = poll[p].new])
  <2>1. poll[p].at = "renewed"
        BY DEF SaveRenewed
  <2>2. /\ s \in CodexSeats /\ poll[p].login \in Int /\ poll[p].new \in Int
        /\ poll[p].login <= poll[p].new
        BY <2>1, PollKnown DEF PollOk
  <2>3. poll[p].login >= 0
        BY <2>1, HoldKnown DEF Holds, ReadPlaces
  <2>4. /\ UNCHANGED <<issued, mirror, captured, added, reading, attempts>>
        /\ home' = home \/ (home[s] = poll[p].login /\ home' = [home EXCEPT ![s] = poll[p].new])
        BY DEF SaveRenewed, storeVars
  <2> QED BY <2>2, <2>3, <2>4
<1>2. HoldAll(poll', captured)
  <2>1. ASSUME NEW login \in {poll[p].login, poll[p].new}
        PROVE  HoldAll([poll EXCEPT ![p].at = "fetch", ![p].login = login, ![p].new = NoLogin],
                       captured)
    <3> DEFINE r == [poll[p] EXCEPT !.at = "fetch", !.login = login, !.new = NoLogin]
    <3>1. r.at = "fetch" /\ r.seat = s /\ r.login = login /\ r.attempt = poll[p].attempt
          BY HoldKnown DEF PollFields
    <3>2. [poll EXCEPT ![p].at = "fetch", ![p].login = login, ![p].new = NoLogin]
          = [poll EXCEPT ![p] = r]
          OBVIOUS
    <3>3. poll[p].attempt \in Int
          BY HoldKnown DEF Holds
    <3> HIDE DEF r, s
    <3>4. r.login \in Int /\ r.login >= 0
          BY <1>1, <3>1
    <3>5. Holds(r, captured)
          BY <1>1, <3>1, <3>3, <3>4 DEF Holds
    <3> QED BY <3>2, <3>5, HoldKnown
  <2>2. \/ poll' = [poll EXCEPT ![p] = IdlePoll]
        \/ \E login \in {poll[p].login, poll[p].new} :
             poll' = [poll EXCEPT ![p].at = "fetch", ![p].login = login, ![p].new = NoLogin]
        BY DEF SaveRenewed, Drop
  <2>3. CASE poll' = [poll EXCEPT ![p] = IdlePoll]
        BY <2>3, DropHolds
  <2>4. CASE \E login \in {poll[p].login, poll[p].new} :
             poll' = [poll EXCEPT ![p].at = "fetch", ![p].login = login, ![p].new = NoLogin]
    <3>1. PICK login \in {poll[p].login, poll[p].new} :
             poll' = [poll EXCEPT ![p].at = "fetch", ![p].login = login, ![p].new = NoLogin]
          BY <2>4
    <3>2. HoldAll([poll EXCEPT ![p].at = "fetch", ![p].login = login, ![p].new = NoLogin],
                  captured)
          BY <2>1
    <3> QED BY ONLY <3>1, <3>2
  <2> QED BY <2>2, <2>3, <2>4
<1> HIDE DEF s
<1>3. CopiesAreNew'
  <2>1. CASE home' = home
        BY <1>1, <2>1, CopiesKnown DEF CopiesAreNew
  <2>2. CASE home[s] = poll[p].login /\ home' = [home EXCEPT ![s] = poll[p].new]
        BY <1>1, <2>2, CopiesKnown DEF CopiesAreNew, NoLogin
  <2> QED BY <1>1, <2>1, <2>2
<1> QED BY <1>1, <1>2, <1>3, KeepsReadings DEF ReadInv

\* The seat is called signed out.
LEMMA RevokeReads ==
  ASSUME CodexInv, ReadInv, NEW p \in Pollers, CallRevoked(p)
  PROVE  ReadStep
<1>1. /\ UNCHANGED <<issued, home, mirror, captured, added, reading, attempts>>
      /\ poll[p].at = "invalidated"
      /\ \/ poll' = [poll EXCEPT ![p] = IdlePoll] \/ poll' = SavedBy(p, "fetch")
         \/ poll' = [poll EXCEPT ![p].at = "fetch"]
      BY DEF CallRevoked, Drop, PollGoes, loginVars
<1>2. HoldAll(SavedBy(p, "fetch"), captured)
  <2> DEFINE r == [Outdated[p] EXCEPT !.at = "fetch"]
  <2>1. HoldAll(Outdated, captured) /\ DOMAIN Outdated = Pollers
        BY OutdatedHolds, HoldKnown DEF Outdated, ReadInv
  <2>2. DOMAIN Outdated[p] = PollFields /\ Outdated[p].at = poll[p].at
        BY HoldKnown DEF Outdated, PollFields
  <2>3. r.at = "fetch" /\ r.seat = Outdated[p].seat /\ r.login = Outdated[p].login
        /\ r.attempt = Outdated[p].attempt
        BY <2>2 DEF PollFields
  <2>4. SavedBy(p, "fetch") = [Outdated EXCEPT ![p] = r]
        BY DEF SavedBy
  <2> HIDE DEF r
  <2>5. Holds(r, captured)
        BY <1>1, <2>1, <2>2, <2>3 DEF HoldAll, Holds, ReadPlaces
  <2> QED BY <2>1, <2>4, <2>5, HoldMoves
<1>5. HoldAll([poll EXCEPT ![p].at = "fetch"], captured)
  <2> DEFINE r == [poll[p] EXCEPT !.at = "fetch"]
  <2>1. r.at = "fetch" /\ r.seat = poll[p].seat /\ r.login = poll[p].login
        /\ r.attempt = poll[p].attempt
        BY HoldKnown DEF PollFields
  <2>2. [poll EXCEPT ![p].at = "fetch"] = [poll EXCEPT ![p] = r]
        OBVIOUS
  <2> HIDE DEF r
  <2>3. Holds(r, captured)
        BY <1>1, <2>1, HoldKnown DEF Holds, ReadPlaces
  <2> QED BY <2>2, <2>3, HoldKnown
<1>3. HoldAll(poll', captured)
      BY <1>1, <1>2, <1>5, DropHolds
<1>4. attempts' \in Int
      BY <1>1 DEF ReadInv
<1> QED BY <1>1, <1>3, <1>4, PollReads

\* A reconciliation from outside the lock.
LEMMA ObserveReads ==
  ASSUME CodexInv, ReadInv, NEW p \in Pollers, Observe(p)
  PROVE  ReadStep
<1>1. /\ Adopts => mirror.seat \in known
      /\ Reconcile(Adopts) /\ UNCHANGED <<issued, mirror, captured, added, attempts>>
      /\ poll' = [Outdated EXCEPT ![p] = IdlePoll] \/ poll' = [poll EXCEPT ![p] = IdlePoll]
      BY DEF Observe, Adopts
<1>2. /\ ReadingsOk' /\ AnswersInOrder
      /\ \A u \in CodexSeats : home'[u] # NoLogin => home'[u] >= captured[u]
      BY <1>1, ReconcileReads
<1>3. CopiesAreNew'
      BY <1>1, <1>2, CopiesKnown DEF CopiesAreNew
<1>4. HoldAll([Outdated EXCEPT ![p] = IdlePoll], captured)
  <2>1. HoldAll(Outdated, captured) /\ DOMAIN Outdated = Pollers
        BY OutdatedHolds, HoldKnown DEF Outdated, ReadInv
  <2> QED BY <2>1, HoldMoves, IdleHolds
<1>5. HoldAll(poll', captured')
      BY <1>1, <1>4, DropHolds
<1>6. HoldAll(poll, captured)'
      BY <1>5
<1> QED BY <1>1, <1>2, <1>3, <1>6 DEF ReadStep, ReadInv

\* The store and then the login are read again: what is read now is no older than the last
\* sign-in, and any later one makes it stale.
LEMMA RereadReads ==
  ASSUME CodexInv, ReadInv, NEW p \in Pollers, Before(p) \/ Reread(p)
  PROVE  ReadStep
<1> USE HoldKnown, DropHolds
<1>1. CASE Before(p)
  <2> DEFINE r == [poll[p] EXCEPT !.at = "before", !.active = (active = poll[p].seat),
                                  !.current = TRUE]
  <2>1. r.at = "before" /\ r.seat = poll[p].seat /\ r.login = poll[p].login
        /\ r.attempt = poll[p].attempt /\ poll[p].at = "fetched"
        BY <1>1 DEF PollFields, Before
  <2>2. poll' = [poll EXCEPT ![p] = r]
        BY <1>1 DEF Before
  <2> HIDE DEF r
  <2>3. Holds(r, captured)
        BY <2>1 DEF Holds, ReadPlaces
  <2>4. HoldAll(poll', captured)
        BY <2>2, <2>3
  <2> QED BY <1>1, <2>4, PollReads DEF Before, storeVars, loginVars, ReadInv
<1>2. CASE Reread(p)
  <2> DEFINE s == poll[p].seat
             r == [poll[p] EXCEPT !.at = "reread"]
  <2>1. r.at = "reread" /\ r.seat = s /\ r.login = poll[p].login
        /\ r.attempt = poll[p].attempt /\ poll[p].at = "before"
        BY <1>2 DEF PollFields, Reread
  <2>2. /\ s \in CodexSeats /\ poll[p].login \in Int /\ poll[p].login >= 0
        /\ poll[p].attempt \in Int
        BY <2>1 DEF Holds, ReadPlaces
  <2>3. \/ /\ Detached(s, poll[p].active) = poll[p].login
           /\ poll' = [poll EXCEPT ![p] = r]
        \/ poll' = [poll EXCEPT ![p] = IdlePoll]
        BY <1>2 DEF Reread, PollGoes, Drop
  <2> HIDE DEF r, s
  <2>4. Detached(s, poll[p].active) = poll[p].login => poll[p].login >= captured[s]
        BY <2>2, CopiesKnown DEF Detached, NoLogin
  <2>5. HoldAll(poll', captured)
        BY <2>1, <2>2, <2>3, <2>4 DEF Holds
  <2> QED BY <1>2, <2>5, PollReads DEF Reread, storeVars, loginVars, ReadInv
<1> QED BY <1>1, <1>2

\* The answer is stored: of the seat's registration, of a login since its last sign-in, and
\* of no earlier request than the reading it replaces.
LEMMA CommitReads ==
  ASSUME CodexInv, ReadInv, NEW p \in Pollers, Commit(p)
  PROVE  ReadStep
<1> DEFINE s == poll[p].seat
           new == [attempt |-> poll[p].attempt, added |-> poll[p].added,
                   login |-> poll[p].login]
<1>1. /\ UNCHANGED <<issued, home, mirror, captured, added, attempts>>
      /\ poll[p].at = "reread"
      BY DEF Commit, loginVars
<1>2. CopiesAreNew'
      BY <1>1, CopiesKnown DEF CopiesAreNew
<1>3. CASE reading' = reading /\ poll' = [poll EXCEPT ![p] = IdlePoll]
      BY <1>1, <1>2, <1>3, KeepsReadings, DropHolds DEF ReadInv
<1>4. CASE /\ poll[p].current /\ s \in known /\ added[s] = poll[p].added
           /\ poll[p].attempt >= reading[s].attempt
           /\ reading' = [reading EXCEPT ![s] = new]
           /\ poll' = [SavedBy(p, "idle") EXCEPT ![p] = IdlePoll]
  <2>1. s \in CodexSeats /\ poll[p].login >= captured[s] /\ poll[p].attempt \in Int
        BY <1>1, <1>4, HoldKnown DEF Holds, ReadPlaces
  <2>2. /\ DOMAIN new = {"attempt", "added", "login"} /\ new.attempt = poll[p].attempt
        /\ new.added = added[s] /\ new.login = poll[p].login
        BY <1>4
  <2> HIDE DEF s, new
  <2>3. DOMAIN reading' = CodexSeats
        BY <1>4 DEF ReadInv, ReadingsOk
  <2>4. \A u \in CodexSeats : reading'[u] = IF u = s THEN new ELSE reading[u]
        BY <1>4 DEF ReadInv, ReadingsOk
  <2>5. ReadingsOk'
        BY <1>1, <2>1, <2>2, <2>3, <2>4 DEF ReadInv, ReadingsOk, ReadingIsTheSeats
  <2>6. AnswersInOrder
        BY <1>4, <2>1, <2>2, <2>4 DEF AnswersInOrder, ReadInv, ReadingsOk
  <2>7. poll' = [Outdated EXCEPT ![p] = IdlePoll]
    <3>1. \A f, x, y : [[f EXCEPT ![p].at = x] EXCEPT ![p] = y] = [f EXCEPT ![p] = y]
          OBVIOUS
    <3> QED BY <1>4, <3>1 DEF SavedBy
  <2>8. HoldAll(poll', captured)
    <3>1. HoldAll(Outdated, captured) /\ DOMAIN Outdated = Pollers
          BY OutdatedHolds, HoldKnown DEF Outdated, ReadInv
    <3> QED BY <2>7, <3>1, HoldMoves, IdleHolds
  <2>9. HoldAll(poll, captured)'
        BY <1>1, <2>8
  <2> QED BY <1>1, <1>2, <2>5, <2>6, <2>9 DEF ReadStep, ReadInv
<1> QED BY <1>3, <1>4 DEF Commit, Drop

\* Before anything happened.
LEMMA ReadStart == CodexInit => ReadInv
<1> SUFFICES ASSUME CodexInit PROVE ReadInv
    OBVIOUS
<1> USE DEF CodexInit, CodexFresh
<1>1. mirror.seat \in CodexSeats /\ mirror.login = 0
      OBVIOUS
<1>2. CopiesAreNew
      BY <1>1 DEF CopiesAreNew, NoLogin
<1>3. ReadingsOk
      BY DEF ReadingsOk, ReadingIsTheSeats, NeverRead
<1>4. HoldAll(poll, captured)
      BY IdleHolds DEF HoldAll
<1> QED BY <1>2, <1>3, <1>4 DEF ReadInv

\* Every step keeps what is known of the readings, and their order.
LEMMA ReadNext == CodexInv /\ ReadInv /\ [CodexNext]_codexVars => ReadStep
<1> SUFFICES ASSUME CodexInv, ReadInv, [CodexNext]_codexVars PROVE ReadStep
    OBVIOUS
<1>1. CASE CodexWorld
  <2>1. CASE \E s \in CodexSeats : CodexUser(s)
    <3> PICK s \in CodexSeats : CodexUser(s)
        BY <2>1
    <3> QED BY RemoveReads, StockReads DEF CodexUser
  <2> QED BY <1>1, <2>1, LookReads, StockReads, SupReads DEF CodexWorld
<1>2. ASSUME NEW k \in Supervisors, CodexSup(k)
      PROVE  ReadStep
      BY <1>2, LookReads, LaunchReads, SupReads, MarkingReads, ChildReads DEF CodexSup
<1>3. ASSUME NEW p \in Pollers, CodexPoll(p)
      PROVE  ReadStep
      BY <1>3, LookReads, EarlyPollReads, RenewReads, SaveReads, RevokeReads, ObserveReads,
         RereadReads, CommitReads DEF CodexPoll
<1>4. CASE UNCHANGED codexVars
  <2>1. UNCHANGED <<issued, home, mirror, captured, added, reading, attempts, poll>>
        BY <1>4 DEF codexVars, storeVars, loginVars
  <2> QED BY <2>1, PollReads DEF ReadInv
<1>5. CASE CodexSwitch
      BY <1>5, ClickReads, SignInReads DEF CodexSwitch
<1> QED BY <1>1, <1>2, <1>3, <1>4, <1>5 DEF CodexNext

\* What is known of the readings holds in every state.
LEMMA ReadingsKnown == CodexSpec => []ReadInv
<1>1. CodexInv /\ ReadInv /\ [CodexNext]_codexVars => ReadInv'
      BY ReadNext DEF ReadStep
<1> QED BY <1>1, ReadStart, CopiesNeverLead, PTL DEF CodexSpec

\* However many polls answer in whatever order, and whatever is signed in, removed or added
\* anew meanwhile: a stored reading is of the seat's present registration and of no login
\* older than its last sign-in (usage.py:1040-1056).
THEOREM ReadingsAreCurrent == CodexSpec => []ReadingIsTheSeats
<1>1. ReadInv => ReadingIsTheSeats
      BY DEF ReadInv, ReadingsOk
<1> QED BY <1>1, ReadingsKnown, PTL

\* The answer of an earlier request never replaces that of a later one.
THEOREM LaterAnswersStay == CodexSpec => ReadingsInOrder
<1>1. CodexInv /\ ReadInv /\ [CodexNext]_codexVars
      => [\A s \in CodexSeats :
            reading'[s].attempt # 0 => reading'[s].attempt >= reading[s].attempt]_codexVars
      BY ReadNext DEF ReadStep, AnswersInOrder
<1> QED BY <1>1, ReadingsKnown, CopiesNeverLead, PTL DEF CodexSpec, ReadingsInOrder

(*************************************************************************)
(* The types of the Codex logins. A login is spent only below the bound  *)
(* of its seat, and the copies move between the homes, the mirror and    *)
(* the polls.                                                            *)
(*************************************************************************)

SupRecords  == [at: SupPlaces, seat: CodexSeats \cup {NoSeat}, mark: CodexSeats \cup {NoSeat}]
PollRecords == [at: PollPlaces, seat: CodexSeats \cup {NoSeat},
                added: 0..MaxAdded, active: BOOLEAN, login: Logins, new: Logins,
                running: BOOLEAN, attempt: 0..MaxAttempt, current: BOOLEAN]
Readings == [attempt: 0..MaxAttempt, added: 0..MaxAdded, login: Logins]

\* Who holds which login.
LoginsTyped ==
  /\ issued \in [CodexSeats -> Login] /\ home \in [CodexSeats -> Logins]
  /\ mirror \in Mirrors /\ captured \in [CodexSeats -> Login]
\* What the store knows of the seats.
SeatsTyped ==
  /\ known \subseteq CodexSeats /\ added \in [CodexSeats -> 0..MaxAdded]
  /\ active \in known \cup {NoSeat} /\ loggedOut \in BOOLEAN
  /\ revoked \in [CodexSeats -> BOOLEAN]
ReadingsTyped == reading \in [CodexSeats -> Readings] /\ attempts \in 0..MaxAttempt
PollsTyped == poll \in [Pollers -> PollRecords]
SupsTyped  == sup \in [Supervisors -> SupRecords]

LockTyped ==
  /\ storeLock \in [by: {"nobody", "switch", "launch", "observe"}, copy: BOOLEAN,
                    late: SUBSET (CodexSeats \cup {NoSeat})]
  /\ spurned \in [CodexSeats -> SUBSET Login]

AllTyped == LoginsTyped /\ SeatsTyped /\ ReadingsTyped /\ PollsTyped /\ SupsTyped

\* A registered seat's login in the mirror, and none.
LEMMA MirrorTyped ==
  /\ \A s \in CodexSeats, n \in Login : [seat |-> s, login |-> n] \in Mirrors
  /\ Blank \in Mirrors
  /\ \A m \in Mirrors : m.seat \in CodexSeats \cup {NoSeat} /\ m.login \in Logins
  /\ \A m \in Mirrors : m.seat # NoSeat => m.seat \in CodexSeats /\ m.login \in Login
BY NoSeatIsNoSeat DEF Mirrors, Blank, Logins

\* A login that is issued next.
LEMMA NextIsLogin ==
  ASSUME NEW n \in Login, n < MaxLogin
  PROVE  n + 1 \in Login
BY CodexBounds DEF Login

\* A poll and a supervisor that do nothing.
LEMMA IdleTyped == IdlePoll \in PollRecords /\ IdleSup \in SupRecords /\ NeverRead \in Readings
BY CodexBounds DEF IdlePoll, PollRecords, PollPlaces, Logins, IdleSup, SupRecords, SupPlaces,
   NeverRead, Readings

\* One poll moves.
LEMMA PollMovesTyped ==
  ASSUME PollsTyped, NEW p \in Pollers, NEW r \in PollRecords, poll' = [poll EXCEPT ![p] = r]
  PROVE  PollsTyped'
BY DEF PollsTyped

\* What polls are told.
LEMMA ToldPollsTyped ==
  ASSUME PollsTyped
  PROVE  Outdated \in [Pollers -> PollRecords] /\ Alarmed \in [Pollers -> PollRecords]
<1>1. \A r \in PollRecords : [r EXCEPT !.current = FALSE] \in PollRecords
      BY DEF PollRecords
<1> QED BY <1>1 DEF PollsTyped, Outdated, Alarmed

\* A poll that goes to its next place, alone or with a save.
LEMMA GoesTyped ==
  ASSUME PollsTyped, NEW p \in Pollers, NEW place \in PollPlaces,
         poll' = [poll EXCEPT ![p].at = place] \/ poll' = SavedBy(p, place)
  PROVE  PollsTyped'
<1>1. \A r \in PollRecords : [r EXCEPT !.at = place] \in PollRecords
      BY DEF PollRecords
<1>2. Outdated \in [Pollers -> PollRecords]
      BY ToldPollsTyped
<1> QED BY <1>1, <1>2 DEF PollsTyped, SavedBy

\* What sync_back and a reconciliation leave in the homes.
LEMMA HomesTyped ==
  ASSUME LoginsTyped
  PROVE  /\ Synced \in [CodexSeats -> Logins]
         /\ \A go \in BOOLEAN : Adopted(go) \in [CodexSeats -> Logins]
<1>1. mirror.login \in Logins
      BY MirrorTyped DEF LoginsTyped
<1> QED BY <1>1 DEF LoginsTyped, Synced, Adopted

\* A reading that is due again.
LEMMA DueTyped == \A r \in Readings : [r EXCEPT !.attempt = 0] \in Readings
BY CodexBounds DEF Readings

\* A reconciliation.
LEMMA ReconcileTyped ==
  ASSUME AllTyped, NEW go \in BOOLEAN, Reconcile(go)
  PROVE  /\ home' \in [CodexSeats -> Logins] /\ revoked' \in [CodexSeats -> BOOLEAN]
         /\ reading' \in [CodexSeats -> Readings]
<1>1. home' \in [CodexSeats -> Logins]
      BY HomesTyped DEF AllTyped, Reconcile
<1>2. revoked' \in [CodexSeats -> BOOLEAN]
      BY DEF Reconcile
<1>3. reading' \in [CodexSeats -> Readings]
      BY DueTyped DEF Reconcile, AllTyped, ReadingsTyped
<1> QED BY <1>1, <1>2, <1>3

-----------------------------------------------------------------------------
\* The user.
LEMMA UserTyped ==
  ASSUME AllTyped, NEW s \in CodexSeats, Click(s) \/ SignIn(s) \/ CodexUser(s)
  PROVE  AllTyped'
<1>1. CASE Click(s)
  <2>1. home' \in [CodexSeats -> Logins]
        BY <1>1, HomesTyped DEF Click, AllTyped
  <2>2. UNCHANGED <<issued, known, added, revoked, reading, captured, attempts, sup>>
        BY <1>1 DEF Click
  <2>3. /\ mirror' \in Mirrors /\ active' \in known \cup {NoSeat} /\ loggedOut' \in BOOLEAN
        /\ PollsTyped'
    <3>1. CASE home'[s] = NoLogin
          BY <1>1, <3>1 DEF Click, AllTyped, LoginsTyped, SeatsTyped, PollsTyped
    <3>2. CASE home'[s] # NoLogin
      <4>1. home'[s] \in Login
            BY <2>1, <3>2 DEF Logins
      <4>2. MirrorOf(home', s) \in Mirrors
            BY <4>1, MirrorTyped DEF MirrorOf
      <4> QED BY <1>1, <3>2, <4>2, ToldPollsTyped DEF Click, AllTyped, PollsTyped
    <3> QED BY <3>1, <3>2
  <2> QED BY <2>1, <2>2, <2>3 DEF AllTyped, LoginsTyped, SeatsTyped, ReadingsTyped, SupsTyped
<1>2. CASE SignIn(s)
  <2>1. issued[s] + 1 \in Login /\ issued'[s] = issued[s] + 1 /\ issued' \in [CodexSeats -> Login]
        BY <1>2, NextIsLogin DEF SignIn, AllTyped, LoginsTyped
  <2>2. /\ captured' \in [CodexSeats -> Login] /\ home' \in [CodexSeats -> Logins]
        /\ home'[s] = issued'[s]
        BY <1>2, <2>1, HomesTyped DEF SignIn, AllTyped, LoginsTyped, Logins
  <2>3. mirror' \in Mirrors
        BY <1>2, <2>1, <2>2, MirrorTyped DEF SignIn, MirrorOf
  <2>4. added' \in [CodexSeats -> 0..MaxAdded]
    <3>1. (IF s \in known THEN added[s] ELSE added[s] + 1) \in 0..MaxAdded
          BY <1>2, CodexBounds DEF SignIn, AllTyped, SeatsTyped
    <3> QED BY <1>2, <3>1 DEF SignIn, AllTyped, SeatsTyped
  <2>5. SeatsTyped'
        BY <1>2, <2>4 DEF SignIn, AllTyped, SeatsTyped
  <2>6. reading' \in [CodexSeats -> Readings]
        BY <1>2, DueTyped, IdleTyped DEF SignIn, AllTyped, ReadingsTyped
  <2>7. PollsTyped' /\ attempts' = attempts /\ sup' = sup
        BY <1>2, ToldPollsTyped DEF SignIn, AllTyped, PollsTyped
  <2> QED BY <2>1, <2>2, <2>3, <2>5, <2>6, <2>7 DEF AllTyped, LoginsTyped, ReadingsTyped, SupsTyped
<1>3. CASE RemoveSeat(s)
  <2>1. LoginsTyped' /\ SeatsTyped'
        BY <1>3 DEF RemoveSeat, AllTyped, LoginsTyped, SeatsTyped, Logins
  <2>2. ReadingsTyped'
        BY <1>3, IdleTyped DEF RemoveSeat, AllTyped, ReadingsTyped
  <2>3. PollsTyped' /\ sup' = sup
        BY <1>3, ToldPollsTyped DEF RemoveSeat, AllTyped, PollsTyped
  <2> QED BY <2>1, <2>2, <2>3 DEF AllTyped, SupsTyped
<1>4. CASE StockSignIn(s)
  <2>1. issued[s] + 1 \in Login /\ issued'[s] = issued[s] + 1 /\ issued' \in [CodexSeats -> Login]
        BY <1>4, NextIsLogin DEF StockSignIn, AllTyped, LoginsTyped
  <2>2. mirror' \in Mirrors
        BY <1>4, <2>1, MirrorTyped DEF StockSignIn
  <2> QED BY <1>4, <2>1, <2>2 DEF StockSignIn, storeVars, AllTyped, LoginsTyped, SeatsTyped,
             ReadingsTyped, PollsTyped, SupsTyped
<1> QED BY <1>1, <1>2, <1>3, <1>4 DEF CodexUser

\* The stock tool, and a terminal that is closed.
LEMMA StockTyped ==
  ASSUME AllTyped, StockLogout \/ StockRenews \/ \E k \in Supervisors : Killed(k)
  PROVE  AllTyped'
<1>1. CASE StockLogout
  <2>1. PollsTyped'
        BY <1>1, ToldPollsTyped DEF StockLogout, AllTyped, PollsTyped
  <2> QED BY <1>1, <2>1, MirrorTyped DEF StockLogout, AllTyped, LoginsTyped, SeatsTyped,
             ReadingsTyped, SupsTyped
<1>2. CASE StockRenews
  <2> DEFINE s == mirror.seat
  <2>1. s \in CodexSeats /\ mirror.login \in Login
        BY <1>2, MirrorTyped DEF StockRenews, AllTyped, LoginsTyped
  <2>2. mirror.login + 1 \in Login /\ issued[s] + 1 \in Login
        BY <1>2, <2>1, NextIsLogin DEF StockRenews
  <2>3. mirror' = [seat |-> s, login |-> mirror.login + 1]
        BY <1>2 DEF StockRenews, AllTyped, LoginsTyped, Mirrors
  <2>4. mirror' \in Mirrors /\ issued' \in [CodexSeats -> Login]
        BY <1>2, <2>1, <2>2, <2>3, MirrorTyped, ZenonT(30) DEF StockRenews, AllTyped, LoginsTyped
  <2> QED BY <1>2, <2>4 DEF StockRenews, storeVars, AllTyped, LoginsTyped, SeatsTyped,
             ReadingsTyped, PollsTyped, SupsTyped
<1>3. ASSUME NEW k \in Supervisors, Killed(k) PROVE AllTyped'
      BY <1>3, IdleTyped DEF Killed, storeVars, loginVars, AllTyped, LoginsTyped, SeatsTyped,
         ReadingsTyped, PollsTyped, SupsTyped
<1> QED BY <1>1, <1>2, <1>3

-----------------------------------------------------------------------------
\* A supervisor.
LEMMA SupTyped ==
  ASSUME AllTyped, NEW k \in Supervisors, CodexSup(k)
  PROVE  AllTyped'
<1>1. ASSUME NEW s \in CodexSeats, Launch(k, s) PROVE AllTyped'
  <2>1. /\ Reconcile(Adopts) /\ Adopted(Adopts)[s] # NoLogin /\ active' = s /\ s \in known
        /\ mirror' = mirror \/ mirror' = MirrorOf(home', s)
        /\ poll' = Outdated \/ poll' = poll
        /\ sup' = [sup EXCEPT ![k].at = "launched"]
        /\ UNCHANGED <<issued, known, added, loggedOut, captured, attempts>>
        BY <1>1 DEF Launch, CanLaunch, Goes
  <2>2. Adopts \in BOOLEAN
        BY DEF Adopts
  <2>3. /\ home' \in [CodexSeats -> Logins] /\ revoked' \in [CodexSeats -> BOOLEAN]
        /\ reading' \in [CodexSeats -> Readings]
        BY <2>1, <2>2, ReconcileTyped
  <2>4. home'[s] \in Login
        BY <2>1, <2>3 DEF Reconcile, Logins
  <2>5. MirrorOf(home', s) \in Mirrors
        BY <2>4, MirrorTyped DEF MirrorOf
  <2>6. LoginsTyped' /\ SeatsTyped' /\ ReadingsTyped'
        BY <2>1, <2>3, <2>5 DEF AllTyped, LoginsTyped, SeatsTyped, ReadingsTyped
  <2>7. PollsTyped'
        BY <2>1, ToldPollsTyped DEF AllTyped, PollsTyped
  <2>8. SupsTyped'
        BY <2>1 DEF AllTyped, SupsTyped, SupRecords, SupPlaces
  <2> QED BY <2>6, <2>7, <2>8 DEF AllTyped
<1>8. CASE NoLaunch(k)
  <2>1. /\ Reconcile(Adopts) /\ active' = FloorSeat /\ (poll' = Outdated \/ poll' = poll)
        /\ sup' = [sup EXCEPT ![k] = IdleSup]
        /\ UNCHANGED <<issued, mirror, known, added, loggedOut, captured, attempts>>
        BY <1>8 DEF NoLaunch
  <2>2. Adopts \in BOOLEAN /\ FloorSeat \in known \cup {NoSeat}
        BY DEF Adopts, FloorSeat, AllTyped, SeatsTyped
  <2>3. /\ home' \in [CodexSeats -> Logins] /\ revoked' \in [CodexSeats -> BOOLEAN]
        /\ reading' \in [CodexSeats -> Readings]
        BY <2>1, <2>2, ReconcileTyped
  <2>4. PollsTyped' /\ SupsTyped'
        BY <2>1, ToldPollsTyped, IdleTyped DEF AllTyped, PollsTyped, SupsTyped
  <2> QED BY <2>1, <2>2, <2>3, <2>4 DEF AllTyped, LoginsTyped, SeatsTyped, ReadingsTyped
<1>9. CASE LaunchLooks(k)
  <2>1. SupsTyped'
        BY <1>9 DEF LaunchLooks, Goes, AllTyped, SupsTyped, SupRecords, SupPlaces
  <2> QED BY <1>9, <2>1 DEF LaunchLooks, storeVars, loginVars, AllTyped, LoginsTyped, SeatsTyped,
             ReadingsTyped, PollsTyped
<1>2. ASSUME NEW s \in CodexSeats, Hop(k, s) PROVE AllTyped'
  <2>1. home[s] \in Login
        BY <1>2 DEF Hop, AllTyped, LoginsTyped, Logins
  <2>2. mirror' \in Mirrors
        BY <1>2, <2>1, MirrorTyped DEF Hop, MirrorOf, AllTyped, LoginsTyped
  <2>3. PollsTyped'
        BY <1>2, ToldPollsTyped DEF Hop, AllTyped, PollsTyped
  <2>4. SupsTyped'
        BY <1>2 DEF Hop, AllTyped, SupsTyped, SupRecords, SupPlaces
  <2> QED BY <1>2, <2>2, <2>3, <2>4 DEF Hop, AllTyped, LoginsTyped, SeatsTyped, ReadingsTyped
<1>3. CASE Enter(k)
  <2> DEFINE seat == IF sup[k].at = "hopping" /\ sup[k].seat \in known THEN sup[k].seat ELSE active
  <2>1. /\ sup' = [sup EXCEPT ![k] = IdleSup] \/ sup' = [sup EXCEPT ![k].at = "starting", ![k].seat = seat]
        /\ UNCHANGED <<storeVars, loginVars, attempts, poll>>
        BY <1>3 DEF Enter
  <2>2. seat \in CodexSeats \cup {NoSeat}
        BY DEF AllTyped, SeatsTyped
  <2> HIDE DEF seat
  <2>3. SupsTyped'
        BY <2>1, <2>2, IdleTyped DEF AllTyped, SupsTyped, SupRecords, SupPlaces
  <2> QED BY <2>1, <2>3 DEF storeVars, loginVars, AllTyped, LoginsTyped, SeatsTyped,
             ReadingsTyped, PollsTyped
<1>4. CASE Mark(k)
  <2>1. SupsTyped'
        BY <1>4 DEF Mark, AllTyped, SupsTyped, SupRecords, SupPlaces
  <2>2. PollsTyped'
        BY <1>4, ToldPollsTyped DEF Mark, AllTyped, PollsTyped
  <2> QED BY <1>4, <2>1, <2>2 DEF Mark, storeVars, loginVars, AllTyped, LoginsTyped, SeatsTyped,
             ReadingsTyped
<1>5. CASE ChildRenews(k)
  <2> DEFINE s == sup[k].seat
  <2>1. issued' \in [CodexSeats -> Login] /\ home' \in [CodexSeats -> Logins]
    <3>1. CASE s \in CodexSeats
      <4>1. issued[s] + 1 \in Login
            BY <1>5, <3>1, NextIsLogin DEF ChildRenews, AllTyped, LoginsTyped
      <4> QED BY <1>5, <3>1, <4>1 DEF ChildRenews, AllTyped, LoginsTyped, Logins
    <3>2. CASE s \notin CodexSeats
          BY <1>5, <3>2 DEF ChildRenews, AllTyped, LoginsTyped
    <3> QED BY <3>1, <3>2
  <2> QED BY <1>5, <2>1 DEF ChildRenews, storeVars, AllTyped, LoginsTyped, SeatsTyped,
             ReadingsTyped, PollsTyped, SupsTyped
<1>6. CASE Clear(k)
  <2>1. SupsTyped'
        BY <1>6 DEF Clear, AllTyped, SupsTyped, SupRecords, SupPlaces
  <2> QED BY <1>6, <2>1 DEF Clear, storeVars, loginVars, AllTyped, LoginsTyped, SeatsTyped,
             ReadingsTyped, PollsTyped
<1>7. CASE Finish(k)
  <2>1. mirror' \in Mirrors
    <3>1. CASE active = NoSeat \/ loggedOut \/ home[active] = NoLogin
          BY <1>7, <3>1 DEF Finish, AllTyped, LoginsTyped
    <3>2. CASE ~(active = NoSeat \/ loggedOut \/ home[active] = NoLogin)
      <4>1. active \in CodexSeats /\ home[active] \in Login
            BY <3>2 DEF AllTyped, LoginsTyped, SeatsTyped, Logins
      <4> QED BY <1>7, <3>2, <4>1, MirrorTyped DEF Finish, MirrorOf
    <3> QED BY <3>1, <3>2
  <2> QED BY <1>7, <2>1, IdleTyped DEF Finish, storeVars, AllTyped, LoginsTyped, SeatsTyped,
             ReadingsTyped, PollsTyped, SupsTyped
<1> QED BY <1>1, <1>2, <1>3, <1>4, <1>5, <1>6, <1>7, <1>8, <1>9 DEF CodexSup

-----------------------------------------------------------------------------
\* A poll that has read nothing, or has everything it asked for.
LEMMA EasyPollTyped ==
  ASSUME AllTyped, CodexInv, NEW p \in Pollers,
         \/ Probe(p) \/ (\E s \in CodexSeats : Prepare(p, s)) \/ Recheck(p)
         \/ Before(p) \/ Reread(p) \/ Skip(p)
  PROVE  AllTyped'
<1> DEFINE me == poll[p]
<1>1. me \in PollRecords
      BY DEF AllTyped, PollsTyped
<1>2. Drop(p) => PollsTyped'
      BY IdleTyped, PollMovesTyped DEF Drop, AllTyped
<1>3. CASE Probe(p)
  <2>1. [IdlePoll EXCEPT !.at = "looked", !.current = NoSession] \in PollRecords
        BY IdleTyped DEF PollRecords, PollPlaces, NoSession
  <2> QED BY <1>3, <2>1, PollMovesTyped DEF Probe, AllTyped, storeVars, loginVars, LoginsTyped,
             SeatsTyped, ReadingsTyped, SupsTyped
<1>4. ASSUME NEW s \in CodexSeats, Prepare(p, s) PROVE AllTyped'
  <2> DEFINE r == [me EXCEPT !.at = "prepared", !.seat = s, !.added = added[s],
                             !.active = (active = s)]
  <2>1. r \in PollRecords
        BY <1>1 DEF PollRecords, PollPlaces, AllTyped, SeatsTyped
  <2>2. poll' = [poll EXCEPT ![p] = r]
        BY <1>4 DEF Prepare, AllTyped, PollsTyped
  <2>3. PollsTyped'
        BY <2>1, <2>2, PollMovesTyped DEF AllTyped
  <2> QED BY <1>4, <2>3 DEF Prepare, AllTyped, storeVars, loginVars, LoginsTyped, SeatsTyped,
             ReadingsTyped, SupsTyped
<1>5. CASE Recheck(p)
  <2>1. ASSUME NEW place \in {"post", "fetch"}, poll' = [poll EXCEPT ![p].at = place,
               ![p].active = FALSE, ![p].running = FALSE]
        PROVE  PollsTyped'
    <3>1. [me EXCEPT !.at = place, !.active = FALSE, !.running = FALSE] \in PollRecords
          BY <1>1 DEF PollRecords, PollPlaces
    <3> QED BY <2>1, <3>1, PollMovesTyped DEF AllTyped, PollsTyped
  <2>2. PollsTyped'
        BY <1>2, <1>5, <2>1, ZenonT(30) DEF Recheck
  <2> QED BY <1>5, <2>2, ZenonT(30) DEF Recheck, AllTyped, storeVars, loginVars, LoginsTyped, SeatsTyped,
             ReadingsTyped, SupsTyped
<1>6. CASE Before(p)
  <2> DEFINE r == [me EXCEPT !.at = "before", !.active = (active = me.seat), !.current = TRUE]
  <2>1. r \in PollRecords
        BY <1>1 DEF PollRecords, PollPlaces
  <2>2. poll' = [poll EXCEPT ![p] = r]
        BY <1>6 DEF Before, AllTyped, PollsTyped
  <2>3. PollsTyped'
        BY <2>1, <2>2, PollMovesTyped DEF AllTyped
  <2> QED BY <1>6, <2>3 DEF Before, AllTyped, storeVars, loginVars, LoginsTyped, SeatsTyped,
             ReadingsTyped, SupsTyped
<1>7. CASE Reread(p)
  <2>1. PollsTyped'
        BY <1>2, <1>7, GoesTyped DEF Reread, PollGoes, PollPlaces, AllTyped
  <2> QED BY <1>7, <2>1 DEF Reread, AllTyped, storeVars, loginVars, LoginsTyped, SeatsTyped,
             ReadingsTyped, SupsTyped
<1>8. CASE Skip(p)
      BY <1>2, <1>8 DEF Skip, AllTyped, storeVars, loginVars, LoginsTyped, SeatsTyped,
         ReadingsTyped, SupsTyped
<1> QED BY <1>3, <1>4, <1>5, <1>6, <1>7, <1>8

\* A poll that reads a login, spends it, saves the one it got or calls the seat signed out.
LEMMA LoginPollTyped ==
  ASSUME AllTyped, CodexInv, NEW p \in Pollers,
         ReadLogin(p) \/ Renew(p) \/ SaveRenewed(p) \/ SaveFails(p) \/ CallRevoked(p)
  PROVE  AllTyped'
<1> DEFINE me == poll[p]
           s == me.seat
<1>1. me \in PollRecords
      BY DEF AllTyped, PollsTyped
<1>2. Drop(p) => PollsTyped'
      BY IdleTyped, PollMovesTyped DEF Drop, AllTyped
<1>3. me.at \in {"prepared", "read", "post", "renewed", "invalidated"} => s \in CodexSeats
      BY DEF CodexInv, PollsOk, PollOk
<1>4. CASE ReadLogin(p)
  <2> DEFINE r == [me EXCEPT !.at = "read", !.running = Running(s), !.login = Detached(s, me.active)]
  <2>1. Detached(s, me.active) \in Logins
        BY <1>3, <1>4, MirrorTyped DEF ReadLogin, Detached, AllTyped, LoginsTyped
  <2>2. Running(s) \in BOOLEAN
        BY DEF Running
  <2>3. r \in PollRecords
        BY <1>1, <2>1, <2>2 DEF PollRecords, PollPlaces
  <2>4. Drop(p) \/ poll' = [poll EXCEPT ![p] = r]
        BY <1>4 DEF ReadLogin, AllTyped, PollsTyped
  <2>5. PollsTyped'
        BY <1>2, <2>3, <2>4, PollMovesTyped DEF AllTyped
  <2> QED BY <1>4, <2>5 DEF ReadLogin, AllTyped, storeVars, loginVars, LoginsTyped, SeatsTyped,
             ReadingsTyped, SupsTyped
<1>5. CASE Renew(p)
  <2>1. issued' \in [CodexSeats -> Login] /\ PollsTyped'
    <3>1. CASE /\ issued[s] < MaxLogin /\ issued' = [issued EXCEPT ![s] = @ + 1]
               /\ poll' = [poll EXCEPT ![p].at = "renewed", ![p].new = issued'[s]]
      <4>1. issued[s] + 1 \in Login /\ s \in CodexSeats
            BY <1>3, <1>5, <3>1, NextIsLogin DEF Renew, AllTyped, LoginsTyped
      <4>2. issued' \in [CodexSeats -> Login] /\ issued'[s] \in Logins
            BY <3>1, <4>1 DEF AllTyped, LoginsTyped, Logins
      <4>3. [me EXCEPT !.at = "renewed", !.new = issued'[s]] \in PollRecords
            BY <1>1, <4>2 DEF PollRecords, PollPlaces
      <4>4. ASSUME NEW n
            PROVE  [poll EXCEPT ![p].at = "renewed", ![p].new = n]
                     = [poll EXCEPT ![p] = [me EXCEPT !.at = "renewed", !.new = n]]
            BY DEF AllTyped, PollsTyped
      <4>5. poll' = [poll EXCEPT ![p] = [me EXCEPT !.at = "renewed", !.new = issued'[s]]]
            BY <3>1, <4>4
      <4> QED BY <4>2, <4>3, <4>5, PollMovesTyped DEF AllTyped
    <3>2. CASE UNCHANGED issued /\ (PollGoes(p, "invalidated") \/ PollGoes(p, "fetch"))
          BY <3>2, GoesTyped DEF PollGoes, PollPlaces, AllTyped, LoginsTyped
    <3> QED BY <1>5, <3>1, <3>2 DEF Renew
  <2> QED BY <1>5, <2>1 DEF Renew, AllTyped, storeVars, LoginsTyped, SeatsTyped,
             ReadingsTyped, SupsTyped
<1>6. CASE SaveRenewed(p)
  <2>1. home' \in [CodexSeats -> Logins]
        BY <1>1, <1>6 DEF SaveRenewed, AllTyped, LoginsTyped, PollRecords
  <2>2. PollsTyped'
    <3>1. ASSUME NEW login \in {me.login, me.new},
                 poll' = [poll EXCEPT ![p].at = "fetch", ![p].login = login, ![p].new = NoLogin]
          PROVE  PollsTyped'
      <4>1. [me EXCEPT !.at = "fetch", !.login = login, !.new = NoLogin] \in PollRecords
            BY <1>1 DEF PollRecords, PollPlaces, Logins
      <4> QED BY <3>1, <4>1, PollMovesTyped DEF AllTyped, PollsTyped
    <3> QED BY <1>2, <1>6, <3>1 DEF SaveRenewed
  <2> QED BY <1>6, <2>1, <2>2 DEF SaveRenewed, AllTyped, storeVars, LoginsTyped, SeatsTyped,
             ReadingsTyped, SupsTyped
<1>8. CASE SaveFails(p)
  <2>1. [me EXCEPT !.at = "fetch", !.new = NoLogin] \in PollRecords
        BY <1>1 DEF PollRecords, PollPlaces, Logins
  <2>2. PollsTyped'
        BY <1>8, <2>1, PollMovesTyped DEF SaveFails, AllTyped, PollsTyped
  <2> QED BY <1>8, <2>2 DEF SaveFails, AllTyped, storeVars, loginVars, LoginsTyped, SeatsTyped,
             ReadingsTyped, SupsTyped
<1>7. CASE CallRevoked(p)
  <2>1. PollsTyped'
    <3>1. "fetch" \in PollPlaces
          BY DEF PollPlaces
    <3> QED BY <1>2, <1>7, <3>1, GoesTyped DEF CallRevoked, PollGoes, AllTyped
  <2>2. revoked' \in [CodexSeats -> BOOLEAN]
        BY <1>7 DEF CallRevoked, AllTyped, SeatsTyped
  <2> QED BY <1>7, <2>1, <2>2 DEF CallRevoked, AllTyped, loginVars, LoginsTyped, SeatsTyped,
             ReadingsTyped, SupsTyped
<1> QED BY <1>4, <1>5, <1>6, <1>7, <1>8

\* A poll that asks, commits what it was told, or reconciles.
LEMMA AskingPollTyped ==
  ASSUME AllTyped, CodexInv, NEW p \in Pollers,
         Fetch(p) \/ Commit(p) \/ ObserveLooks(p) \/ Observe(p)
  PROVE  AllTyped'
<1> DEFINE me == poll[p]
           s == me.seat
<1>1. me \in PollRecords
      BY DEF AllTyped, PollsTyped
<1>2. Drop(p) => PollsTyped'
      BY IdleTyped, PollMovesTyped DEF Drop, AllTyped
<1>3. CASE Fetch(p)
  <2> DEFINE r == [me EXCEPT !.at = "fetched", !.attempt = attempts']
  <2>1. attempts' \in 0..MaxAttempt
        BY <1>3, CodexBounds DEF Fetch, AllTyped, ReadingsTyped
  <2>2. r \in PollRecords
        BY <1>1, <2>1 DEF PollRecords, PollPlaces
  <2>3. poll' = [poll EXCEPT ![p] = r]
        BY <1>3 DEF Fetch, AllTyped, PollsTyped
  <2>4. PollsTyped'
        BY <2>2, <2>3, PollMovesTyped DEF AllTyped
  <2> QED BY <1>3, <2>1, <2>4 DEF Fetch, AllTyped, storeVars, loginVars, LoginsTyped, SeatsTyped,
             ReadingsTyped, SupsTyped
<1>4. CASE Commit(p)
  <2> DEFINE told == [attempt |-> me.attempt, added |-> me.added, login |-> me.login]
  <2>1. told \in Readings
        BY <1>1 DEF PollRecords, Readings
  <2>2. \/ Drop(p) /\ UNCHANGED reading
        \/ /\ reading' = [reading EXCEPT ![s] = told]
           /\ poll' = [SavedBy(p, "idle") EXCEPT ![p] = IdlePoll]
        BY <1>4 DEF Commit
  <2> HIDE DEF told
  <2>3. reading' \in [CodexSeats -> Readings]
        BY <2>1, <2>2 DEF AllTyped, ReadingsTyped
  <2>4. PollsTyped'
    <3>1. CASE poll' = [SavedBy(p, "idle") EXCEPT ![p] = IdlePoll]
      <4>1. poll' = [Outdated EXCEPT ![p] = IdlePoll]
            BY <3>1 DEF SavedBy, Outdated
      <4> QED BY <4>1, ToldPollsTyped, IdleTyped DEF PollsTyped, AllTyped
    <3> QED BY <1>2, <2>2, <3>1
  <2> QED BY <1>4, <2>3, <2>4 DEF Commit, AllTyped, loginVars, LoginsTyped, SeatsTyped,
             ReadingsTyped, SupsTyped
<1>6. CASE ObserveLooks(p)
  <2>1. PollsTyped'
        BY <1>6, GoesTyped DEF ObserveLooks, PollGoes, PollPlaces, AllTyped
  <2> QED BY <1>6, <2>1 DEF ObserveLooks, AllTyped, storeVars, loginVars, LoginsTyped, SeatsTyped,
             ReadingsTyped, SupsTyped
<1>5. CASE Observe(p)
  <2>1. /\ Reconcile(Adopts) /\ active' = FloorSeat
        /\ \/ poll' = [Outdated EXCEPT ![p] = IdlePoll] \/ poll' = [poll EXCEPT ![p] = IdlePoll]
        /\ UNCHANGED <<issued, mirror, known, added, loggedOut, captured, attempts, sup>>
        BY <1>5 DEF Observe
  <2>2. Adopts \in BOOLEAN /\ FloorSeat \in known \cup {NoSeat}
        BY DEF Adopts, FloorSeat, AllTyped, SeatsTyped
  <2>4. /\ home' \in [CodexSeats -> Logins] /\ revoked' \in [CodexSeats -> BOOLEAN]
        /\ reading' \in [CodexSeats -> Readings]
        BY <2>1, <2>2, ReconcileTyped
  <2>5. PollsTyped'
        BY <2>1, ToldPollsTyped, IdleTyped DEF AllTyped, PollsTyped
  <2> QED BY <2>1, <2>2, <2>4, <2>5 DEF AllTyped, LoginsTyped, SeatsTyped, ReadingsTyped, SupsTyped
<1> QED BY <1>3, <1>4, <1>5, <1>6

\* What a step leaves of the lock, and what the provider refused.
LEMMA LockSteps ==
  ASSUME [CodexNext]_codexVars
  PROVE  /\ \/ storeLock' = storeLock \/ storeLock' = NoHolder
            \/ \E who \in {"switch", "launch", "observe"} : \E may :
                 /\ storeLock' = [by |-> who, copy |-> may, late |-> {}]
                 /\ may \in BOOLEAN \/ \E p \in Pollers : may = poll[p].current
            \/ \E k \in Supervisors :
                 storeLock' = [storeLock EXCEPT !.late = @ \cup {sup[k].seat}]
         /\ \/ spurned' = spurned
            \/ \E s : spurned' = [spurned EXCEPT ![s] = @ \cup {issued[s]}]
<1>1. CASE UNCHANGED codexVars
      BY <1>1 DEF codexVars
<1>2. CASE CodexWorld
  <2>1. CASE \E s \in CodexSeats : CodexUser(s)
        BY <2>1 DEF CodexUser, RemoveSeat, StockSignIn
  <2>2. CASE SyncLooks
        BY <2>2 DEF SyncLooks, TakeLock
  <2>3. CASE StockLogout \/ StockRenews \/ \E k \in Supervisors : Killed(k)
        BY <2>3 DEF StockLogout, StockRenews, Killed
  <2> QED BY <1>2, <2>1, <2>2, <2>3 DEF CodexWorld
<1>3. CASE CodexSwitch
      BY <1>3 DEF CodexSwitch, Click, SignIn, HandBack
<1>4. ASSUME NEW k \in Supervisors, CodexSup(k)
      PROVE  /\ \/ storeLock' = storeLock \/ storeLock' = NoHolder
                \/ storeLock' = [by |-> "launch", copy |-> NoSession, late |-> {}]
                \/ storeLock' = [storeLock EXCEPT !.late = @ \cup {sup[k].seat}]
             /\ spurned' = spurned
  <2>1. CASE \E s \in CodexSeats : Launch(k, s) \/ Hop(k, s)
        BY <2>1 DEF Launch, Hop, HandBack
  <2>2. CASE LaunchLooks(k)
        BY <2>2 DEF LaunchLooks, TakeLock
  <2>3. CASE Mark(k)
        BY <2>3 DEF Mark
  <2>4. CASE NoLaunch(k) \/ Enter(k) \/ ChildRenews(k) \/ Clear(k) \/ Finish(k)
        BY <2>4 DEF NoLaunch, Enter, ChildRenews, Clear, Finish, HandBack
  <2> QED BY <1>4, <2>1, <2>2, <2>3, <2>4 DEF CodexSup
<1>5. ASSUME NEW p \in Pollers, CodexPoll(p)
      PROVE  /\ \/ storeLock' = storeLock \/ storeLock' = NoHolder
                \/ storeLock' = [by |-> "observe", copy |-> poll[p].current, late |-> {}]
             /\ \/ spurned' = spurned
                \/ \E s : spurned' = [spurned EXCEPT ![s] = @ \cup {issued[s]}]
  <2>1. CASE Probe(p) \/ (\E s \in CodexSeats : Prepare(p, s)) \/ ReadLogin(p) \/ Recheck(p)
        BY <2>1 DEF Probe, Prepare, ReadLogin, Recheck
  <2>2. CASE ObserveLooks(p) \/ Observe(p)
        BY <2>2 DEF ObserveLooks, Observe, TakeLock, HandBack
  <2>3. CASE Renew(p)
        BY <2>3 DEF Renew
  <2>4. CASE SaveRenewed(p) \/ SaveFails(p) \/ CallRevoked(p)
        BY <2>4 DEF SaveRenewed, SaveFails, CallRevoked
  <2>5. CASE Fetch(p) \/ Before(p) \/ Reread(p) \/ Commit(p) \/ Skip(p)
        BY <2>5 DEF Fetch, Before, Reread, Commit, Skip
  <2> QED BY <1>5, <2>1, <2>2, <2>3, <2>4, <2>5, SMTT(30) DEF CodexPoll
<1>6. CASE \E k \in Supervisors : CodexSup(k)
  <2> PICK k \in Supervisors : CodexSup(k)
      BY <1>6
  <2>1. NoSession \in BOOLEAN
        BY DEF NoSession
  <2> QED BY <1>4, <2>1
<1>7. CASE \E p \in Pollers : CodexPoll(p)
  <2> PICK p \in Pollers : CodexPoll(p)
      BY <1>7
  <2> QED BY <1>5
<1> QED BY <1>1, <1>2, <1>3, <1>6, <1>7 DEF CodexNext

\* The lock and the refusals keep their types.
LEMMA LockStaysTyped ==
  ASSUME AllTyped, LockTyped, [CodexNext]_codexVars
  PROVE  LockTyped'
<1>1. \A p \in Pollers : poll[p].current \in BOOLEAN
      BY DEF AllTyped, PollsTyped, PollRecords
<1>2. \A k \in Supervisors : sup[k].seat \in CodexSeats \cup {NoSeat}
      BY DEF AllTyped, SupsTyped, SupRecords
<1>3. storeLock' \in [by: {"nobody", "switch", "launch", "observe"}, copy: BOOLEAN,
                      late: SUBSET (CodexSeats \cup {NoSeat})]
  <2>1. CASE storeLock' = storeLock \/ storeLock' = NoHolder
    <3>1. NoHolder \in [by: {"nobody", "switch", "launch", "observe"}, copy: BOOLEAN,
                        late: SUBSET (CodexSeats \cup {NoSeat})]
          BY DEF NoHolder
    <3> QED BY <2>1, <3>1 DEF LockTyped
  <2>2. CASE \E who \in {"switch", "launch", "observe"} : \E may :
               /\ storeLock' = [by |-> who, copy |-> may, late |-> {}]
               /\ may \in BOOLEAN \/ \E p \in Pollers : may = poll[p].current
        BY <1>1, <2>2
  <2>3. CASE \E k \in Supervisors : storeLock' = [storeLock EXCEPT !.late = @ \cup {sup[k].seat}]
        BY <1>2, <2>3 DEF LockTyped
  <2> QED BY <2>1, <2>2, <2>3, LockSteps
<1>4. spurned' \in [CodexSeats -> SUBSET Login]
      BY LockSteps DEF LockTyped, AllTyped, LoginsTyped
<1> QED BY <1>3, <1>4 DEF LockTyped

-----------------------------------------------------------------------------
\* The logins, the store, the supervisors and the polls keep their types; a mirror that holds a
\* login says whose it is (codexhome.py, switch.py, usage.py).
THEOREM CodexTypes == CodexSpec => []CodexTypeOK
<1> DEFINE I == AllTyped /\ LockTyped /\ turns \in 0..MaxTurns
<1>1. CodexInit => I
  <2> SUFFICES ASSUME CodexInit PROVE I OBVIOUS
  <2>1. 0 \in Login /\ 0 \in Logins /\ 1 \in 0..MaxAdded /\ 0 \in 0..MaxAttempt /\ 0 \in 0..MaxTurns
        BY CodexBounds DEF Login, Logins
  <2>2. LoginsTyped
        BY <2>1, MirrorTyped DEF CodexInit, CodexFresh, LoginsTyped
  <2>3. mirror.seat \in CodexSeats
        BY DEF CodexInit
  <2>4. SeatsTyped
        BY <2>1, <2>3 DEF CodexInit, CodexFresh, SeatsTyped
  <2>5. ReadingsTyped /\ PollsTyped /\ SupsTyped
        BY <2>1, IdleTyped DEF CodexInit, CodexFresh, ReadingsTyped, PollsTyped, SupsTyped
  <2>6. LockTyped
        BY DEF CodexInit, CodexFresh, LockTyped, NoHolder
  <2> QED BY <2>1, <2>2, <2>4, <2>5, <2>6 DEF CodexInit, CodexFresh, AllTyped
<1>2. I /\ CodexInv /\ [CodexNext]_codexVars => I'
  <2> SUFFICES ASSUME I, CodexInv, [CodexNext]_codexVars PROVE I' OBVIOUS
  <2>3. LockTyped'
        BY LockStaysTyped
  <2>1. CASE UNCHANGED codexVars
        BY <2>1, <2>3 DEF codexVars, storeVars, loginVars, AllTyped, LoginsTyped, SeatsTyped,
           ReadingsTyped, PollsTyped, SupsTyped
  <2>2. CASE CodexNext
    <3>1. turns' \in 0..MaxTurns
          BY <2>2, CodexBounds DEF CodexNext
    <3>2. ASSUME CodexWorld \/ CodexSwitch PROVE AllTyped'
      <4>1. CASE SyncLooks
            BY <4>1 DEF SyncLooks, storeVars, loginVars, AllTyped, LoginsTyped, SeatsTyped,
               ReadingsTyped, PollsTyped, SupsTyped
      <4> QED BY <3>2, <4>1, UserTyped, StockTyped DEF CodexWorld, CodexSwitch
    <3>3. ASSUME NEW p \in Pollers, CodexPoll(p) PROVE AllTyped'
          BY <3>3, EasyPollTyped, LoginPollTyped, AskingPollTyped DEF CodexPoll
    <3>4. AllTyped'
          BY <2>2, <3>2, <3>3, SupTyped DEF CodexNext
    <3> QED BY <2>3, <3>1, <3>4
  <2> QED BY <2>1, <2>2
<1>3. I => CodexTypeOK
      BY DEF AllTyped, LockTyped, LoginsTyped, SeatsTyped, ReadingsTyped, PollsTyped, SupsTyped, CodexTypeOK,
         SupRecords, PollRecords, Readings
<1> QED BY <1>1, <1>2, <1>3, CopiesNeverLead, PTL DEF CodexSpec

(*************************************************************************)
(* The Claude logins. Keychain items that several sessions renew on      *)
(* their own. A convergence asks whose login each changed item is and    *)
(* writes later. What it is sure of is what it asked: the invariant      *)
(* carries the proven owner of an item from the answer to the write, and *)
(* the owner of a reconciled stock login to the sync-back's own write.   *)
(*************************************************************************)

Owned(s) == s.owner # Nobody => s.blob.owner = s.owner

SightsAreTrue == \A k \in Keys : Owned(seen[k]) /\ Owned(conv.before[k])

\* An item that was not asked about still shows what the tracker saw.
AskedIsChanged ==
  conv.at = "asking" => \A k \in Keys \ conv.changed : seen[k].blob = conv.blob[k]

OwnersAreProven ==
  conv.at \in {"asked", "writing", "following"} =>
    \A k \in Keys : conv.owner[k] # Nobody => conv.blob[k].owner = conv.owner[k]

GroupIsProven ==
  /\ conv.at \in {"writing", "following"} => \A k \in conv.group : conv.owner[k] # Nobody
  /\ conv.at = "writing" => conv.todo \subseteq conv.group
  /\ conv.at = "following" => conv.todo \subseteq ClaudeSeats

\* The item that is about to be written was looked at, and its account has a winner.
TargetWasSeen ==
  conv.target # Nobody => /\ conv.at = "writing" /\ conv.target \in conv.todo
                          /\ Winner(conv.owner[conv.target]) # {}
                          /\ conv.look = conv.blob[conv.target]

\* The lock has one holder.  Under it, the active seat is the owner of the login that was
\* reconciled; a sign-in's login is its seat's.
SwitchIsProven ==
  /\ NoConv \/ NoSwitch
  /\ op.at # "idle" => op.seat \in ClaudeSeats
  /\ op.at = "filing" => op.live \in Tokens /\ op.live.owner = floor
  /\ op.new # Empty => op.new.owner = op.seat

ClaudeInv ==
  /\ ClaudeTypeOK /\ SightsAreTrue /\ AskedIsChanged /\ OwnersAreProven /\ GroupIsProven
  /\ TargetWasSeen /\ SwitchIsProven

\* A winner is a candidate's login, and the source is a candidate that holds it.
LEMMA SourceWins ==
  ASSUME NEW o, Winner(o) # {}
  PROVE  /\ Source(o) \in conv.group /\ conv.owner[Source(o)] = o
         /\ conv.blob[Source(o)] \in Winner(o)
<1>1. PICK b \in Winner(o) : TRUE OBVIOUS
<1>2. PICK k \in Contenders(o) : conv.blob[k] = b BY <1>1 DEF Winner, Newest
<1>3. Source(o) \in Contenders(o) /\ conv.blob[Source(o)] \in Winner(o)
  BY <1>1, <1>2 DEF Source
<1> QED BY <1>3 DEF Contenders

\* It is nobody else's.
LEMMA SourceIsOwn ==
  ASSUME ClaudeInv, conv.at \in {"writing", "following"}, NEW o, Winner(o) # {}
  PROVE  /\ Source(o) \in Keys /\ o \in ClaudeSeats
         /\ conv.blob[Source(o)] \in Tokens /\ conv.blob[Source(o)].owner = o
<1>1. Source(o) \in conv.group /\ conv.owner[Source(o)] = o BY SourceWins
<1>2. Source(o) \in Keys /\ o # Nobody BY <1>1 DEF ClaudeInv, ClaudeTypeOK, GroupIsProven
<1>3. o \in ClaudeSeats /\ conv.blob[Source(o)] \in Blobs
  BY <1>1, <1>2 DEF ClaudeInv, ClaudeTypeOK
<1>4. conv.blob[Source(o)].owner = o BY <1>1, <1>2 DEF ClaudeInv, OwnersAreProven
<1> QED BY <1>2, <1>3, <1>4 DEF Blobs, Empty

\* An empty item, an unseen one and a convergence at rest have their types.
LEMMA FreshTypes ==
  /\ Empty \in Blobs /\ Unseen \in Sights \cup {Unseen} /\ Owned(Unseen)
  /\ Idle \in [at: ConvPlaces, blob: [Keys -> Blobs], owner: [Keys -> ClaudeSeats \cup {Nobody}],
               changed: SUBSET Keys, group: SUBSET Keys, todo: SUBSET Keys,
               snap: [ClaudeSeats -> Blobs], before: [Keys -> Sights \cup {Unseen}],
               target: Keys \cup {Nobody}, look: Blobs]
  /\ Idle.at = "idle" /\ Idle.target = Nobody /\ \A k \in Keys : Owned(Idle.before[k])
  /\ NoOp \in [at: {"idle", "issued", "filing", "installing"}, seat: ClaudeSeats \cup {Nobody},
               new: Blobs, live: Blobs]
  /\ NoOp.at = "idle" /\ NoOp.new = Empty /\ NoOp.live = Empty
BY DEF Idle, NoOp, Empty, Blobs, Unseen, ConvPlaces, Owned

\* Nothing is seen and nothing is asked yet.
LEMMA ClaudeInitially == ClaudeInit => ClaudeInv
<1> SUFFICES ASSUME ClaudeInit PROVE ClaudeInv OBVIOUS
<1>0. 0 \in 0..MaxRenewals BY ClaudeConstants
<1>1. /\ \A s \in ClaudeSeats : [owner |-> s, n |-> 0] \in Blobs
      /\ newestOf \in [ClaudeSeats -> 0..MaxRenewals]
  BY <1>0 DEF ClaudeInit, ClaudeFresh, Blobs, Tokens
<1>2. item \in [Keys -> Blobs] /\ snap \in [ClaudeSeats -> Blobs]
  BY <1>1, FreshTypes DEF ClaudeInit, ClaudeFresh, Keys
<1>3. seen \in [Keys -> Sights \cup {Unseen}] /\ events \in 0..MaxEvents /\ conv = Idle /\ op = NoOp
  BY FreshTypes, ClaudeConstants DEF ClaudeInit, ClaudeFresh
<1>4. stockOut \in BOOLEAN /\ mirrored \in Blobs /\ quarantined \subseteq ClaudeSeats
  BY FreshTypes DEF ClaudeInit, ClaudeFresh
<1>5. ClaudeTypeOK
  BY <1>1, <1>2, <1>3, <1>4, FreshTypes, Zenon DEF ClaudeTypeOK
<1> QED
  BY <1>5, FreshTypes DEF ClaudeInit, ClaudeFresh, ClaudeInv, SightsAreTrue, AskedIsChanged,
     OwnersAreProven, GroupIsProven, TargetWasSeen, SwitchIsProven, NoConv, NoSwitch

\* A login that is an account's next.
LEMMA NextLogin ==
  ASSUME ClaudeInv, NEW o \in ClaudeSeats, Issues(o)
  PROVE  newestOf' \in [ClaudeSeats -> 0..MaxRenewals] /\ Issued(o) \in Tokens /\ Issued(o).owner = o
BY ClaudeConstants DEF ClaudeInv, ClaudeTypeOK, Tokens, Issues, Issued

\* What Claude Code and the locked operations do to the stores is of these types.
LEMMA StoresStay ==
  ASSUME ClaudeInv, UNCHANGED <<seen, conv>>,
         newestOf' \in [ClaudeSeats -> 0..MaxRenewals], item' \in [Keys -> Blobs],
         snap' \in [ClaudeSeats -> Blobs], stockOut' \in BOOLEAN,
         mirrored' \in Blobs, quarantined' \subseteq ClaudeSeats, events' \in 0..MaxEvents,
         op' \in [at: {"idle", "issued", "filing", "installing"}, seat: ClaudeSeats \cup {Nobody},
                 new: Blobs, live: Blobs], SwitchIsProven'
  PROVE  ClaudeInv'
<1>1. ClaudeTypeOK' BY DEF ClaudeInv, ClaudeTypeOK
<1>2. TargetWasSeen' BY DEF ClaudeInv, TargetWasSeen, Winner, Contenders, Newest
<1> QED
  BY <1>1, <1>2 DEF ClaudeInv, SightsAreTrue, AskedIsChanged, OwnersAreProven, GroupIsProven, Owned

\* A login that is reconciled is its owner's, who becomes active.
LEMMA ReconciledTypes ==
  ASSUME ClaudeInv, Reconciles
  PROVE  /\ item' \in [Keys -> Blobs] /\ snap' \in [ClaudeSeats -> Blobs] /\ mirrored' \in Blobs
         /\ item[Stock] \in Tokens /\ item[Stock].owner = floor' /\ floor' \in ClaudeSeats
         /\ snap' = [snap EXCEPT ![item[Stock].owner] = item[Stock]]
         /\ UNCHANGED <<newestOf, stockOut, quarantined, seen, conv>>
<1>1. item[Stock] \in Tokens
  BY DEF Reconciles, Met, ClaudeInv, ClaudeTypeOK, Blobs, Keys
<1>2. item[Stock].owner \in ClaudeSeats /\ item[Stock] \in Blobs BY <1>1 DEF Tokens, Blobs
<1>3. item' \in [Keys -> Blobs] /\ snap' \in [ClaudeSeats -> Blobs]
  BY <1>2 DEF Reconciles, ClaudeInv, ClaudeTypeOK
<1> QED BY <1>1, <1>2, <1>3 DEF Reconciles

\* What the sessions, the user and the provider do keeps the invariant.
LEMMA WorldStep ==
  ASSUME ClaudeInv, events < MaxEvents, events' = events + 1, ClaudeWorld
  PROVE  ClaudeInv'
<1>1. events' \in 0..MaxEvents BY ClaudeConstants DEF ClaudeInv, ClaudeTypeOK
<1>0. ASSUME UNCHANGED <<op, floor, conv>> PROVE SwitchIsProven'
  BY <1>0 DEF ClaudeInv, SwitchIsProven, NoConv, NoSwitch
<1>2. ASSUME NEW k \in Keys, CliRenews(k) PROVE ClaudeInv'
  <2>1. item[k] \in Tokens BY <1>2 DEF CliRenews, ClaudeInv, ClaudeTypeOK, Blobs
  <2> DEFINE o == item[k].owner
  <2>2. o \in ClaudeSeats BY <2>1 DEF Tokens
  <2>3. /\ newestOf[o] < MaxRenewals /\ newestOf' = [newestOf EXCEPT ![o] = @ + 1]
        /\ item' = [item EXCEPT ![k].n = newestOf'[o]]
        /\ UNCHANGED <<snap, floor, stockOut, mirrored, quarantined, seen, conv, op>>
    BY <1>2 DEF CliRenews, claudeStore
  <2> HIDE DEF o
  <2>4. newestOf' \in [ClaudeSeats -> 0..MaxRenewals] /\ newestOf'[o] \in 0..MaxRenewals
    BY <2>2, <2>3, NextLogin DEF Tokens, Issues
  <2>5. [item[k] EXCEPT !.n = newestOf'[o]] \in Blobs BY <2>1, <2>4 DEF Tokens, Blobs
  <2>6. item' \in [Keys -> Blobs] BY <2>3, <2>5 DEF ClaudeInv, ClaudeTypeOK
  <2> QED BY <1>0, <1>1, <2>3, <2>4, <2>6, StoresStay DEF ClaudeInv, ClaudeTypeOK
<1>3. ASSUME NEW k \in Keys, NEW o \in ClaudeSeats, CliLogin(k, o) PROVE ClaudeInv'
  <2>1. newestOf' \in [ClaudeSeats -> 0..MaxRenewals] /\ Issued(o) \in Tokens
    BY <1>3, NextLogin DEF CliLogin
  <2>2. item' \in [Keys -> Blobs]
    BY <1>3, <2>1 DEF CliLogin, ClaudeInv, ClaudeTypeOK, Blobs
  <2> QED
    BY <1>0, <1>1, <1>3, <2>1, <2>2, StoresStay
       DEF CliLogin, claudeStore, ClaudeInv, ClaudeTypeOK
<1>4. ASSUME NEW k \in Keys, CliLogout(k) PROVE ClaudeInv'
  <2>1. item' \in [Keys -> Blobs]
    BY <1>4, FreshTypes DEF CliLogout, ClaudeInv, ClaudeTypeOK
  <2> QED
    BY <1>0, <1>1, <1>4, <2>1, StoresStay DEF CliLogout, claudeStore, ClaudeInv, ClaudeTypeOK
<1>5. CASE Restart
  BY <1>1, <1>5, FreshTypes DEF Restart, claudeItems, claudeStore, ClaudeInv, ClaudeTypeOK,
     SightsAreTrue, AskedIsChanged, OwnersAreProven, GroupIsProven, TargetWasSeen, SwitchIsProven, NoConv, NoSwitch
<1>6. CASE AdoptStock
  <2>1. SwitchIsProven'
    BY <1>6 DEF AdoptStock, Unlocked, ClaudeInv, SwitchIsProven, NoConv, NoSwitch
  <2> QED BY <1>1, <1>6, <2>1, ReconciledTypes, StoresStay DEF AdoptStock, ClaudeInv, ClaudeTypeOK
<1>7. CASE ClaudeLogout
  <2>1. item' \in [Keys -> Blobs]
    BY <1>7, FreshTypes DEF ClaudeLogout, ClaudeInv, ClaudeTypeOK
  <2> QED BY <1>0, <1>1, <1>7, <2>1, StoresStay DEF ClaudeLogout, ClaudeInv, ClaudeTypeOK
<1>8. ASSUME NEW s \in ClaudeSeats, PickSeat(s) PROVE ClaudeInv'
  <2>1. CASE Reconciles /\ op' = [NoOp EXCEPT !.at = "filing", !.seat = s, !.live = item[Stock]]
    <3>1. SwitchIsProven'
      BY <1>8, <2>1, ReconciledTypes DEF PickSeat, SwitchIsProven, NoConv, NoSwitch, NoOp
    <3>2. op' \in [at: {"idle", "issued", "filing", "installing"}, seat: ClaudeSeats \cup {Nobody},
                   new: Blobs, live: Blobs]
      BY <2>1, ReconciledTypes, FreshTypes DEF NoOp, Blobs
    <3> QED BY <1>1, <2>1, <3>1, <3>2, ReconciledTypes, StoresStay DEF ClaudeInv, ClaudeTypeOK
  <2>2. CASE /\ op' = [NoOp EXCEPT !.at = "installing", !.seat = s]
             /\ UNCHANGED <<claudeItems, claudeStore, seen, conv>>
    <3>1. SwitchIsProven' BY <1>8, <2>2 DEF PickSeat, SwitchIsProven, NoConv, NoSwitch, NoOp
    <3>2. op' \in [at: {"idle", "issued", "filing", "installing"}, seat: ClaudeSeats \cup {Nobody},
                   new: Blobs, live: Blobs]
      BY <2>2, FreshTypes DEF NoOp
    <3> QED BY <1>1, <2>2, <3>1, <3>2, StoresStay DEF claudeItems, claudeStore, ClaudeInv, ClaudeTypeOK
  <2> QED BY <1>8, <2>1, <2>2 DEF PickSeat
<1>9. ASSUME NEW s \in ClaudeSeats, SignInIssued(s) PROVE ClaudeInv'
  <2>1. newestOf' \in [ClaudeSeats -> 0..MaxRenewals] /\ Issued(s) \in Blobs /\ Issued(s).owner = s
    BY <1>9, NextLogin DEF SignInIssued, Blobs
  <2>2. op' = [NoOp EXCEPT !.at = "issued", !.seat = s, !.new = Issued(s)]
    BY <1>9 DEF SignInIssued
  <2>3. SwitchIsProven' BY <1>9, <2>1, <2>2 DEF SignInIssued, SwitchIsProven, NoConv, NoSwitch, NoOp
  <2>4. op' \in [at: {"idle", "issued", "filing", "installing"}, seat: ClaudeSeats \cup {Nobody},
                 new: Blobs, live: Blobs]
    BY <2>1, <2>2, FreshTypes DEF NoOp
  <2> QED
    BY <1>1, <1>9, <2>1, <2>3, <2>4, StoresStay
       DEF SignInIssued, claudeStore, ClaudeInv, ClaudeTypeOK
<1>10. ASSUME NEW s \in ClaudeSeats, ChildEnds(s) PROVE ClaudeInv'
  <2>1. snap' \in [ClaudeSeats -> Blobs] /\ quarantined' \subseteq ClaudeSeats
    BY <1>10 DEF ChildEnds, ClaudeInv, ClaudeTypeOK, Keys
  <2> QED
    BY <1>0, <1>1, <1>10, <2>1, StoresStay DEF ChildEnds, claudeItems, ClaudeInv, ClaudeTypeOK
<1> QED
  BY <1>2, <1>3, <1>4, <1>5, <1>6, <1>7, <1>8, <1>9, <1>10 DEF ClaudeWorld

\* A switch or a sign-in that goes on under the lock keeps the invariant.
LEMMA SwitchStep ==
  ASSUME ClaudeInv, Continues, UNCHANGED events
  PROVE  ClaudeInv'
<1> DEFINE Ops == [at: {"idle", "issued", "filing", "installing"}, seat: ClaudeSeats \cup {Nobody},
                   new: Blobs, live: Blobs]
<1>0. op \in Ops /\ events' \in 0..MaxEvents BY DEF ClaudeInv, ClaudeTypeOK
<1>1. CASE ClaudeSignIn
  <2>1. op.at = "issued" /\ op.seat \in ClaudeSeats
    BY <1>1 DEF ClaudeSignIn, ClaudeInv, SwitchIsProven, NoConv, NoSwitch
  <2>2. CASE Reconciles /\ op' = [op EXCEPT !.at = "filing", !.live = item[Stock]]
    <3>1. SwitchIsProven'
      BY <1>0, <1>1, <2>1, <2>2, ReconciledTypes
         DEF ClaudeSignIn, ClaudeInv, SwitchIsProven, NoConv, NoSwitch
    <3>2. op' \in Ops BY <1>0, <2>2, ReconciledTypes DEF Blobs
    <3> QED BY <1>0, <2>2, <3>1, <3>2, ReconciledTypes, StoresStay DEF ClaudeInv, ClaudeTypeOK
  <2>3. CASE op' = [op EXCEPT !.at = "installing"] /\ UNCHANGED <<claudeItems, claudeStore, seen, conv>>
    <3>1. SwitchIsProven'
      BY <1>0, <1>1, <2>1, <2>3 DEF ClaudeSignIn, ClaudeInv, SwitchIsProven, NoConv, NoSwitch
    <3>2. op' \in Ops BY <1>0, <2>3
    <3> QED BY <1>0, <2>3, <3>1, <3>2, StoresStay DEF claudeItems, claudeStore, ClaudeInv, ClaudeTypeOK
  <2> QED BY <1>1, <2>2, <2>3 DEF ClaudeSignIn
<1>2. CASE FilesBack
  <2>1. SwitchIsProven' /\ op' \in Ops BY <1>0, <1>2 DEF FilesBack, ClaudeInv, SwitchIsProven, NoConv, NoSwitch
  <2>2. snap' \in [ClaudeSeats -> Blobs] BY <1>2 DEF FilesBack, ClaudeInv, ClaudeTypeOK, Keys
  <2> QED BY <1>0, <1>2, <2>1, <2>2, StoresStay DEF FilesBack, claudeItems, ClaudeInv, ClaudeTypeOK
<1>3. SwitchIsProven' /\ op' \in Ops
  <2>1. CASE op' = NoOp BY <2>1, FreshTypes DEF SwitchIsProven, NoConv, NoSwitch
  <2>2. CASE ~(op' = NoOp)
    BY <1>0, <1>1, <1>2, <2>2 DEF Continues, Lands, SignedIn, ClaudeInv, ClaudeTypeOK
  <2> QED BY <2>1, <2>2
<1>4. CASE Lands
  <2>1. op.seat \in ClaudeSeats BY <1>4 DEF Lands, ClaudeInv, SwitchIsProven, NoConv, NoSwitch
  <2>2. item[op.seat] \in Blobs BY <2>1 DEF ClaudeInv, ClaudeTypeOK, Keys
  <2>3. item' \in [Keys -> Blobs] /\ mirrored' \in Blobs /\ stockOut' \in BOOLEAN
    BY <1>4, <2>2 DEF Lands, claudeItems, claudeStore, ClaudeInv, ClaudeTypeOK
  <2> QED
    BY <1>0, <1>3, <1>4, <2>3, StoresStay DEF Lands, claudeItems, claudeStore, ClaudeInv, ClaudeTypeOK
<1>5. CASE SignedIn
  <2>1. item' \in [Keys -> Blobs] /\ snap' \in [ClaudeSeats -> Blobs] /\ quarantined' \subseteq ClaudeSeats
    BY <1>0, <1>5 DEF SignedIn, ClaudeInv, ClaudeTypeOK
  <2> QED BY <1>0, <1>3, <1>5, <2>1, StoresStay DEF SignedIn, ClaudeInv, ClaudeTypeOK
<1> QED BY <1>1, <1>2, <1>4, <1>5 DEF Continues

\* A convergence changes its own record, and of the rest what it copies.
LEMMA ConvergeStep ==
  ASSUME ClaudeInv, Converge, UNCHANGED events
  PROVE  ClaudeInv'
<1> USE DEF ClaudeInv
<1>1. CASE Scan
  <2> DEFINE due == {k \in Keys \ {j \in Keys : seen[j].blob # item[j]} :
                       item[k] # Empty /\ seen[k].owner = Nobody}
  <2>1. PICK retry \in SUBSET due :
           conv' = [Idle EXCEPT !.at = "asking", !.blob = item, !.snap = snap,
             !.changed = {k \in Keys : seen[k].blob # item[k]} \cup retry, !.before = seen]
    BY <1>1 DEF Scan
  <2>2. /\ conv'.at = "asking" /\ conv'.blob = item /\ conv'.before = seen
        /\ conv'.target = Nobody
        /\ \A k \in Keys \ conv'.changed : seen[k].blob = conv'.blob[k]
    BY <2>1, SMTT(30) DEF Idle
  <2>3. ClaudeTypeOK'
    BY <1>1, <2>1, FreshTypes DEF Scan, claudeItems, claudeStore, ClaudeTypeOK, Idle, ConvPlaces
  <2> QED
    BY <1>1, <2>2, <2>3 DEF Scan, claudeItems, claudeStore, SightsAreTrue, AskedIsChanged,
       OwnersAreProven, GroupIsProven, TargetWasSeen, SwitchIsProven, NoConv, NoSwitch
<1>2. CASE Identify
  <2>1. PICK answered \in SUBSET conv.changed :
           LET owner == [k \in Keys |->
                 IF k \notin conv.changed THEN seen[k].owner
                 ELSE IF k \in answered /\ item[k] = conv.blob[k] THEN conv.blob[k].owner
                 ELSE Nobody]
           IN /\ conv' = [conv EXCEPT !.at = "asked", !.owner = owner]
              /\ seen' = [k \in Keys |-> [blob |-> conv.blob[k], owner |-> owner[k]]]
    BY <1>2 DEF Identify
  <2> DEFINE owner == [k \in Keys |->
                 IF k \notin conv.changed THEN seen[k].owner
                 ELSE IF k \in answered /\ item[k] = conv.blob[k] THEN conv.blob[k].owner
                 ELSE Nobody]
  <2>2. ASSUME NEW k \in Keys
        PROVE  /\ owner[k] \in ClaudeSeats \cup {Nobody}
               /\ owner[k] # Nobody => conv.blob[k].owner = owner[k]
    BY <1>2 DEF Identify, ClaudeTypeOK, SightsAreTrue, AskedIsChanged, Owned, Sights, Unseen,
       Blobs, Tokens, Empty
  <2>3. owner \in [Keys -> ClaudeSeats \cup {Nobody}] BY <2>2
  <2>4. conv' = [conv EXCEPT !.at = "asked", !.owner = owner] BY <2>1
  <2>5. seen' = [k \in Keys |-> [blob |-> conv.blob[k], owner |-> owner[k]]] BY <2>1
  <2>6. \A k \in Keys : owner[k] # Nobody => conv.blob[k].owner = owner[k] BY <2>2
  <2> HIDE DEF owner
  <2>7. seen' \in [Keys -> Sights \cup {Unseen}] BY <2>3, <2>5, SMTT(30) DEF ClaudeTypeOK, Sights
  <2>8. ClaudeTypeOK'
    BY <1>2, <2>3, <2>4, <2>7 DEF Identify, claudeItems, claudeStore, ClaudeTypeOK, ConvPlaces
  <2>9. conv'.at = "asked" /\ conv'.owner = owner /\ conv'.blob = conv.blob /\ conv'.before = conv.before
    BY <2>4 DEF ClaudeTypeOK
  <2> QED
    BY <1>2, <2>5, <2>6, <2>8, <2>9 DEF Identify, claudeItems, claudeStore, SightsAreTrue,
       AskedIsChanged, OwnersAreProven, GroupIsProven, TargetWasSeen, SwitchIsProven, NoConv, NoSwitch, Owned
<1>3. CASE Group
  <2> DEFINE group == {k \in Keys : conv.owner[k] # Nobody /\ item[k] = conv.blob[k]}
  <2>1. conv.at = "asked" /\ conv' = [conv EXCEPT !.at = "writing", !.group = group, !.todo = group]
    BY <1>3 DEF Group
  <2>2. group \subseteq Keys /\ \A k \in group : conv.owner[k] # Nobody OBVIOUS
  <2>3. quarantined' \subseteq ClaudeSeats BY <1>3, SMTT(30) DEF Group, ClaudeTypeOK, Keys
  <2> HIDE DEF group
  <2>4. ClaudeTypeOK'
    BY <1>3, <2>1, <2>2, <2>3, ZenonT(30) DEF Group, claudeItems, ClaudeTypeOK, ConvPlaces
  <2>5. /\ conv'.at = "writing" /\ conv'.group = group /\ conv'.todo = group
        /\ conv'.blob = conv.blob /\ conv'.owner = conv.owner /\ conv'.before = conv.before
    BY <2>1 DEF ClaudeTypeOK
  <2> QED
    BY <1>3, <2>1, <2>2, <2>4, <2>5 DEF Group, claudeItems, SightsAreTrue, AskedIsChanged,
       OwnersAreProven, GroupIsProven, TargetWasSeen, SwitchIsProven, NoConv, NoSwitch
<1>4. CASE ToSnapshots
  <2> DEFINE todo == {s \in ClaudeSeats \ quarantined : \E k \in conv.group : conv.owner[k] = s}
  <2>1. conv.at = "writing" /\ conv' = [conv EXCEPT !.at = "following", !.todo = todo]
    BY <1>4 DEF ToSnapshots
  <2>2. todo \subseteq ClaudeSeats OBVIOUS
  <2> HIDE DEF todo
  <2>3. ClaudeTypeOK'
    BY <1>4, <2>1, <2>2 DEF ToSnapshots, claudeItems, claudeStore, ClaudeTypeOK, ConvPlaces, Keys
  <2>4. /\ conv'.at = "following" /\ conv'.todo = todo /\ conv'.group = conv.group
        /\ conv'.blob = conv.blob /\ conv'.owner = conv.owner /\ conv'.before = conv.before
    BY <2>1 DEF ClaudeTypeOK
  <2> QED
    BY <1>4, <2>1, <2>2, <2>3, <2>4 DEF ToSnapshots, claudeItems, claudeStore, SightsAreTrue,
       AskedIsChanged, OwnersAreProven, GroupIsProven, TargetWasSeen, SwitchIsProven, NoConv, NoSwitch
<1>5. CASE Converged
  BY <1>5, FreshTypes DEF Converged, claudeItems, claudeStore, ClaudeTypeOK, SightsAreTrue,
     AskedIsChanged, OwnersAreProven, GroupIsProven, TargetWasSeen, SwitchIsProven, NoConv, NoSwitch
<1>6. CASE WriteFails
  BY <1>6, FreshTypes DEF WriteFails, claudeItems, claudeStore, ClaudeTypeOK, SightsAreTrue,
     AskedIsChanged, OwnersAreProven, GroupIsProven, TargetWasSeen, SwitchIsProven, NoConv, NoSwitch
<1>7. ASSUME conv.at \in {"writing", "following"}, NEW t \in conv.todo,
             conv' \in {[conv EXCEPT !.todo = @ \ {t}], [conv EXCEPT !.todo = @ \ {t}, !.target = Nobody]},
             conv.target = Nobody \/ conv'.target = Nobody,
             UNCHANGED <<newestOf, floor, stockOut, quarantined, op>>,
             item' \in [Keys -> Blobs], snap' \in [ClaudeSeats -> Blobs], mirrored' \in Blobs,
             seen' \in [Keys -> Sights \cup {Unseen}], \A k \in Keys : Owned(seen'[k])
      PROVE  ClaudeInv'
  <2>1. /\ conv'.at = conv.at /\ conv'.todo = conv.todo \ {t} /\ conv'.group = conv.group
        /\ conv'.blob = conv.blob /\ conv'.owner = conv.owner /\ conv'.before = conv.before
        /\ conv'.target = Nobody
    BY <1>7 DEF ClaudeTypeOK
  <2>2. ClaudeTypeOK'
    <3>1. conv' \in [at: ConvPlaces, blob: [Keys -> Blobs], owner: [Keys -> ClaudeSeats \cup {Nobody}],
                     changed: SUBSET Keys, group: SUBSET Keys, todo: SUBSET Keys,
                     snap: [ClaudeSeats -> Blobs], before: [Keys -> Sights \cup {Unseen}],
                     target: Keys \cup {Nobody}, look: Blobs]
      <4>1. CASE conv' = [conv EXCEPT !.todo = @ \ {t}] BY <4>1 DEF ClaudeTypeOK
      <4>2. CASE conv' = [conv EXCEPT !.todo = @ \ {t}, !.target = Nobody] BY <4>2 DEF ClaudeTypeOK
      <4> QED BY <1>7, <4>1, <4>2
    <3> QED BY <1>7, <3>1 DEF ClaudeTypeOK
  <2> QED
    BY <1>7, <2>1, <2>2 DEF SightsAreTrue, AskedIsChanged, OwnersAreProven, GroupIsProven,
       TargetWasSeen, SwitchIsProven, NoConv, NoSwitch
<1>8. ASSUME NEW k \in Keys, Looks(k) PROVE ClaudeInv'
  <2>1. conv.at = "writing" /\ conv.target = Nobody /\ k \in conv.todo /\ k # Nobody
        /\ UNCHANGED <<claudeItems, claudeStore, seen, op>>
    BY <1>8, NobodyIsNoSeat DEF Looks, Keys, Stock, Nobody
  <2>2. CASE conv' = [conv EXCEPT !.todo = @ \ {k}]
    <3>1. conv'.target = Nobody BY <2>1, <2>2 DEF ClaudeTypeOK
    <3> QED BY <1>7, <2>1, <2>2, <3>1 DEF claudeItems, claudeStore, ClaudeTypeOK, SightsAreTrue
  <2>3. CASE /\ conv' = [conv EXCEPT !.target = k, !.look = item[k]]
             /\ Winner(conv.owner[k]) # {} /\ item[k] = conv.blob[k]
    <3>1. /\ conv'.at = conv.at /\ conv'.todo = conv.todo /\ conv'.group = conv.group
          /\ conv'.blob = conv.blob /\ conv'.owner = conv.owner /\ conv'.before = conv.before
          /\ conv'.target = k /\ conv'.look = item[k] /\ conv'.changed = conv.changed
      BY <2>3 DEF ClaudeTypeOK
    <3>2. ClaudeTypeOK' BY <2>1, <2>3 DEF claudeItems, claudeStore, ClaudeTypeOK
    <3>3. TargetWasSeen'
      BY <2>1, <2>3, <3>1 DEF TargetWasSeen, Winner, Contenders, Newest
    <3> QED
      BY <2>1, <3>1, <3>2, <3>3 DEF claudeItems, claudeStore, SightsAreTrue, AskedIsChanged,
         OwnersAreProven, GroupIsProven, SwitchIsProven, NoConv, NoSwitch
  <2> QED BY <1>8, <2>2, <2>3 DEF Looks
<1>9. ASSUME NEW k \in Keys, Propagate(k) PROVE ClaudeInv'
  <2> DEFINE o   == conv.owner[k]
             new == conv.blob[Source(o)]
  <2>1. /\ conv.at = "writing" /\ k \in conv.todo /\ Winner(o) # {} /\ item' = [item EXCEPT ![k] = new]
        /\ seen' = [seen EXCEPT ![k] = [blob |-> new, owner |-> o]]
        /\ mirrored' = IF k = Stock THEN new ELSE mirrored
        /\ conv' = [conv EXCEPT !.todo = @ \ {k}, !.target = Nobody]
        /\ UNCHANGED <<newestOf, snap, floor, stockOut, quarantined, op>>
    BY <1>9, NobodyIsNoSeat DEF Propagate, TargetWasSeen, Keys, Stock, Nobody
  <2>2. new \in Blobs /\ new.owner = o /\ o \in ClaudeSeats
    BY <2>1, SourceIsOwn DEF Blobs
  <2>3. conv'.target = Nobody BY <2>1 DEF ClaudeTypeOK
  <2> HIDE DEF o, new
  <2>4. seen' \in [Keys -> Sights \cup {Unseen}] /\ \A j \in Keys : Owned(seen'[j])
    <3>1. [blob |-> new, owner |-> o] \in Sights /\ Owned([blob |-> new, owner |-> o])
      BY <2>2 DEF Sights, Owned
    <3> QED BY <2>1, <3>1 DEF ClaudeTypeOK, SightsAreTrue
  <2>5. item' \in [Keys -> Blobs] /\ mirrored' \in Blobs /\ snap' \in [ClaudeSeats -> Blobs]
    BY <2>1, <2>2 DEF ClaudeTypeOK
  <2> QED BY <1>7, <2>1, <2>3, <2>4, <2>5
<1>10. ASSUME NEW s \in ClaudeSeats, Follow(s) PROVE ClaudeInv'
  <2>1. /\ conv.at = "following" /\ s \in conv.todo /\ conv' = [conv EXCEPT !.todo = @ \ {s}]
        /\ UNCHANGED <<claudeItems, floor, stockOut, mirrored, quarantined, seen, op>>
        /\ \/ Winner(s) # {} /\ snap' = [snap EXCEPT ![s] = conv.blob[Source(s)]]
           \/ snap' = snap
    BY <1>10 DEF Follow
  <2>2. snap' \in [ClaudeSeats -> Blobs]
    BY <2>1, SourceIsOwn DEF ClaudeTypeOK, Blobs
  <2>3. conv.target = Nobody BY <2>1 DEF TargetWasSeen
  <2> QED BY <1>7, <2>1, <2>2, <2>3 DEF claudeItems, ClaudeTypeOK, SightsAreTrue
<1> HIDE DEF ClaudeInv
<1> QED BY <1>1, <1>2, <1>3, <1>4, <1>5, <1>6, <1>8, <1>9, <1>10 DEF Converge

\* So does every step of a convergence pass.
LEMMA ClaudeStep == ClaudeInv /\ [ClaudeNext]_claudeVars => ClaudeInv'
<1>1. ClaudeInv /\ UNCHANGED claudeVars => ClaudeInv'
  BY StoresStay DEF claudeVars, claudeItems, claudeStore, ClaudeInv, ClaudeTypeOK, SwitchIsProven,
     NoConv, NoSwitch
<1> QED BY <1>1, WorldStep, SwitchStep, ConvergeStep DEF ClaudeNext

\* The items, the snapshots, the tracker and a convergence keep their types (claudesync.py).
THEOREM ClaudeTypes == ClaudeSpec => []ClaudeTypeOK
<1>1. ClaudeInv => ClaudeTypeOK BY DEF ClaudeInv
<1> QED BY ClaudeInitially, ClaudeStep, <1>1, PTL DEF ClaudeSpec

\* What is filed under a seat is the seat's, unless the stock item changed under a sync-back.
LEMMA FiledIsOwn ==
  ASSUME ClaudeInv, [ClaudeNext]_claudeVars, NEW s \in ClaudeSeats, snap'[s] # snap[s],
         snap'[s].owner # s
  PROVE  op.at = "filing" /\ item[Stock] # op.live
<1>0. snap \in [ClaudeSeats -> Blobs] BY DEF ClaudeInv, ClaudeTypeOK
<1>1. ASSUME Reconciles PROVE FALSE
  BY <1>0, <1>1, ReconciledTypes
<1>2. ASSUME NEW t \in ClaudeSeats, ChildEnds(t) PROVE FALSE
  BY <1>0, <1>2 DEF ChildEnds
<1>3. ASSUME NEW t \in ClaudeSeats, Follow(t) PROVE FALSE
  <2>1. conv.at = "following" /\ Winner(t) # {} /\ snap' = [snap EXCEPT ![t] = conv.blob[Source(t)]]
    BY <1>3 DEF Follow
  <2> QED BY <1>0, <2>1, SourceIsOwn
<1>4. CASE SignedIn
  BY <1>0, <1>4 DEF SignedIn, ClaudeInv, SwitchIsProven, NoConv, NoSwitch
<1>5. CASE FilesBack
  <2>1. op.at = "filing" /\ op.live.owner = floor /\ snap' = [snap EXCEPT ![floor] = item[Stock]]
    BY <1>5, SMTT(30) DEF FilesBack, ClaudeInv, SwitchIsProven, NoConv, NoSwitch
  <2> QED BY <1>0, <2>1
<1>6. ASSUME ~Reconciles, ~FilesBack, ~SignedIn, \A t \in ClaudeSeats : ~ChildEnds(t) /\ ~Follow(t)
      PROVE  FALSE
  BY <1>6, ZenonT(30) DEF ClaudeNext, claudeVars, claudeItems, claudeStore, ClaudeWorld, Continues, Converge,
     CliRenews, CliLogout, CliLogin, Restart, AdoptStock, ClaudeLogout, PickSeat, SignInIssued,
     ClaudeSignIn, Lands, Scan, Identify, Group, ToSnapshots, Converged, WriteFails, Looks, Propagate
<1> QED BY <1>1, <1>2, <1>3, <1>4, <1>5, <1>6

\* Only a login that came into the stock item between reconciling and filing is filed under
\* another's seat (accounts.py:140-212, switch.py:51-59).
THEOREM SnapshotsGetTheirOwn == ClaudeSpec => SnapshotGetsItsOwn
<1>1. ClaudeInv /\ [ClaudeNext]_claudeVars =>
        [\A s \in ClaudeSeats :
           snap'[s] # snap[s] /\ snap'[s].owner # s
             => op.at = "filing" /\ item[Stock] # op.live]_claudeVars
  BY FiledIsOwn
<1> QED BY ClaudeInitially, ClaudeStep, <1>1, PTL DEF ClaudeSpec, SnapshotGetsItsOwn

\* A login that loses to the newest one was renewed less often.
LEMMA NewestIsNewer ==
  ASSUME NEW S \in SUBSET Tokens, NEW b \in Newest(S), NEW c \in S, b # c
  PROVE  b.n > c.n
<1>1. Expiry[b.n] > Expiry[c.n] /\ b \in Tokens /\ c \in Tokens BY DEF Newest
<1>2. Expiry[b.n] \in Nat /\ Expiry[c.n] \in Nat /\ b.n \in 0..MaxRenewals /\ c.n \in 0..MaxRenewals
  BY <1>1, ClaudeConstants DEF Tokens
<1> QED BY <1>1, <1>2, ExpiryGrows, ClaudeConstants

\* A propagation that overwrites a copy as it was seen writes a newer login of its owner.
LEMMA PropagationRenews ==
  ASSUME ClaudeInv, [ClaudeNext]_claudeVars, NEW k \in Keys, conv.target = k,
         item'[k] # item[k], events' = events, item[k] = conv.look,
         k \in conv.changed \/ conv.look # conv.blob[k]
  PROVE  item'[k].owner = item[k].owner /\ item'[k].n > item[k].n
<1> DEFINE o == conv.owner[k]
           b == conv.blob[Source(o)]
<1>1. k # Nobody BY NobodyIsNoSeat DEF Keys, Stock, Nobody
<1>2. /\ conv.at = "writing" /\ k \in conv.todo /\ Winner(o) # {} /\ item[k] = conv.blob[k]
      /\ k \in conv.changed
  BY <1>1 DEF ClaudeInv, TargetWasSeen
<1>3. Converge \/ Continues
  <2>1. events \in Nat /\ events + 1 # events BY ClaudeConstants DEF ClaudeInv, ClaudeTypeOK
  <2> QED BY <2>1 DEF ClaudeNext, claudeVars, claudeItems
<1>4. ~Continues
  <2>1. ~NoConv /\ NoSwitch BY <1>2 DEF ClaudeInv, SwitchIsProven, NoConv, NoSwitch
  <2> QED BY <2>1 DEF NoSwitch, Continues, ClaudeSignIn, FilesBack, Lands, SignedIn
<1>5. PICK j \in Keys : Propagate(j)
  BY <1>3, <1>4 DEF Converge, Scan, Identify, Group, Looks, ToSnapshots, Converged, WriteFails,
     Follow, claudeItems
<1>6. j = k /\ item'[k] = b BY <1>5 DEF Propagate, ClaudeInv, ClaudeTypeOK
<1>7. k \in conv.group /\ o # Nobody BY <1>2 DEF ClaudeInv, GroupIsProven
<1>8. k \in Contenders(o) BY <1>2, <1>7 DEF Contenders
<1>9. b \in Winner(o) /\ b.owner = o BY <1>2, SourceWins, SourceIsOwn
<1>10. ASSUME NEW i \in Contenders(o) PROVE conv.blob[i] \in Tokens /\ conv.blob[i].owner = o
  <2>1. i \in conv.group /\ conv.owner[i] = o BY <1>10 DEF Contenders
  <2>2. i \in Keys /\ conv.blob[i].owner = o
    BY <1>2, <1>7, <2>1 DEF ClaudeInv, ClaudeTypeOK, OwnersAreProven
  <2> QED BY <1>7, <2>2 DEF ClaudeInv, ClaudeTypeOK, Blobs, Empty
<1> DEFINE S == {conv.blob[i] : i \in Contenders(o)}
<1>11. S \in SUBSET Tokens /\ conv.blob[k] \in S /\ b \in Newest(S)
  BY <1>8, <1>9, <1>10 DEF Winner
<1>12. conv.blob[k].owner = o BY <1>8, <1>10
<1>13. item'[k] # conv.blob[k] BY <1>2
<1> HIDE DEF S, b
<1>14. b.n > conv.blob[k].n BY <1>6, <1>11, <1>13, NewestIsNewer
<1> QED BY <1>2, <1>6, <1>9, <1>12, <1>14

\* A copy that changed gives way only to a newer login of its own account, unless it changed
\* again between the last read and the write (claudesync.py:10-17, 193-215).
THEOREM RenewalsSurvive == ClaudeSpec => RenewalSurvives
<1>1. ClaudeInv /\ [ClaudeNext]_claudeVars =>
        [\A k \in Keys :
           /\ conv.target = k /\ item'[k] # item[k] /\ events' = events /\ item[k] = conv.look
           /\ k \in conv.changed \/ conv.look # conv.blob[k]
           => item'[k].owner = item[k].owner /\ item'[k].n > item[k].n]_claudeVars
  BY PropagationRenews
<1> QED BY ClaudeInitially, ClaudeStep, <1>1, PTL DEF ClaudeSpec, RenewalSurvives

(*************************************************************************)
(* The configuration. Choices are numbered as they are made. A merge     *)
(* writes into its home what it made of the home as it read it: a choice *)
(* made there since is pending until that write, and overrun by it. The  *)
(* canonical value is as it was read as long as the lock is held.        *)
(*************************************************************************)

\* Nobody has chosen what comes after the last choice.
NothingAhead ==
  /\ canonical <= choices
  /\ \A h \in ClaudeHomes : local[h] <= choices /\ base[h] <= choices
  /\ merge.mine <= choices /\ merge.agreed <= choices /\ merge.result <= choices

\* What was chosen in a home is settled, lost or still pending.
Accounted(h) == chosen[h] \in settled \cup overrun \/ ChoiceIsPending(h)

\* Once the merge has settled what it read, only a later choice can be pending.
MergeKnows ==
  /\ merge.at # "idle" => merge.home \in ClaudeHomes
  /\ merge.at \in {"lock", "read", "write", "unlock", "local"} /\ local[merge.home] = None
       => merge.mine = None
  /\ merge.at \in {"unlock", "local"} =>
       chosen[merge.home] \in settled \cup overrun \/ local[merge.home] # merge.mine
  /\ merge.at = "baseline" =>
       chosen[merge.home] \in settled \cup overrun \/ chosen[merge.home] # merge.result
  /\ cfglock.by = "acctsw" => merge.at \in {"read", "write", "unlock"}
  /\ merge.at = "write" /\ cfglock.by = "acctsw" => canonical = merge.seen

\* A home without a config has chosen nothing yet.
ChoicesKept ==
  \A h \in ClaudeHomes : Accounted(h) /\ (local[h] = None => chosen[h] \in settled)

ConfigInv == ConfigTypeOK /\ NothingAhead /\ MergeKnows /\ ChoicesKept

\* Homes that nobody has merged yet.
LEMMA ConfigInitially == ConfigInit => ConfigInv
BY ConfigBounds DEF ConfigInit, ConfigInv, ConfigTypeOK, NothingAhead, MergeKnows, ChoicesKept,
   Values, None, MergeAt, Homeless, NoMerge, FreeLock, ChoiceIsPending, Accounted

\* A merge writes only what nobody chose since it read, so every step keeps the invariant.
LEMMA ConfigStep == ConfigInv /\ [ConfigNext]_configVars => ConfigInv'
<1> SUFFICES ASSUME ConfigInv, [ConfigNext]_configVars PROVE ConfigInv'
  OBVIOUS
<1> USE ConfigBounds DEF ConfigInv, ConfigTypeOK, NothingAhead, MergeKnows, ChoicesKept,
   Values, None, MergeAt, Homeless, NoMerge, FreeLock, ChoiceIsPending, Accounted
<1>1. CASE ClaudeLocks   BY <1>1 DEF ClaudeLocks
<1>2. CASE ClaudeWrites  BY <1>2 DEF ClaudeWrites
<1>3. CASE ClaudeUnlocks BY <1>3 DEF ClaudeUnlocks
<1>4. CASE HolderSleeps  BY <1>4 DEF HolderSleeps
<1>5. ASSUME NEW h \in ClaudeHomes, ChildChooses(h) PROVE ConfigInv'
  BY <1>5 DEF ChildChooses
<1>6. ASSUME NEW h \in ClaudeHomes, MergeBegins(h) PROVE ConfigInv'
  <2>1. /\ merge.at = "idle" /\ UNCHANGED <<canonical, local, base, cfglock, choices, chosen, settled, overrun>>
        /\ merge' = [NoMerge EXCEPT !.at = "lock", !.home = h, !.mine = local[h], !.agreed = base[h]]
    BY <1>6 DEF MergeBegins
  <2>2. merge' = [at |-> "lock", home |-> h, mine |-> local[h], agreed |-> base[h],
                  seen |-> 0, result |-> 0]
    BY <2>1
  <2> QED BY <2>1, <2>2
<1>7. CASE MergeDefers
  <2>1. CASE merge.mine # None BY <1>7, <2>1 DEF MergeDefers
  <2>2. CASE merge.mine = None
    <3>1. /\ merge.at = "lock" /\ cfglock.by # "acctsw" /\ local[merge.home] <= choices
          /\ UNCHANGED <<canonical, local, base, cfglock, choices, chosen, settled, overrun>>
          /\ merge' = [merge EXCEPT !.at = "local", !.result = canonical]
      BY <1>7, <2>2 DEF MergeDefers
    <3>2. merge' = [at |-> "local", home |-> merge.home, mine |-> merge.mine,
                    agreed |-> merge.agreed, seen |-> merge.seen, result |-> canonical]
      BY <3>1
    <3>3. chosen[merge.home] \in settled \/ local[merge.home] # merge.mine
      BY <2>2, <3>1
    <3>4. NothingAhead' /\ ConfigTypeOK' BY <3>1, <3>2
    <3>5. MergeKnows' BY <2>2, <3>1, <3>2, <3>3
    <3> QED BY <3>1, <3>4, <3>5
  <2> QED BY <2>1, <2>2
<1>8. CASE MergeLocks BY <1>8 DEF MergeLocks
<1>9. CASE MergeReads BY <1>9 DEF MergeReads, Merged
<1>10. CASE MergeWrites BY <1>10 DEF MergeWrites
<1>11. CASE MergeUnlocks BY <1>11 DEF MergeUnlocks
<1>12. CASE MergeWritesLocal BY <1>12 DEF MergeWritesLocal
<1>13. CASE MergeWritesBaseline BY <1>13 DEF MergeWritesBaseline
<1>14. CASE MergeDies BY <1>14 DEF MergeDies
<1>15. CASE UNCHANGED configVars BY <1>15 DEF configVars
<1> HIDE DEF ConfigInv
<1> QED
  BY <1>1, <1>2, <1>3, <1>4, <1>5, <1>6, <1>7, <1>8, <1>9, <1>10, <1>11, <1>12, <1>13, <1>14,
     <1>15 DEF ConfigNext

\* The homes, the merge and its lock keep their types (claudehome.py).
THEOREM ConfigTypes == ConfigSpec => []ConfigTypeOK
<1>1. ConfigInv => ConfigTypeOK BY DEF ConfigInv
<1> QED BY ConfigInitially, ConfigStep, <1>1, PTL DEF ConfigSpec

\* What a home chose is carried over, beaten or still pending unless it was chosen while a merge
\* was between its read of the home and its write, and no merge writes over a canonical value
\* it has not read (claudehome.py:216-249).
THEOREM ChoicesAreKept == ConfigSpec => ChoicesSurvive
<1>1. ASSUME ConfigInv, ConfigInv', [ConfigNext]_configVars, merge.at = "write", merge'.at = "unlock"
      PROVE  canonical = merge.seen
  <2>1. CASE MergeWrites
    <3>1. cfglock.by = "acctsw" BY <1>1, <2>1 DEF MergeWrites, NoMerge
    <3> QED BY <1>1, <3>1 DEF ConfigInv, MergeKnows
  <2>2. ASSUME NEW h \in ClaudeHomes, ChildChooses(h) \/ MergeBegins(h) PROVE FALSE
    BY <1>1, <2>2 DEF ChildChooses, MergeBegins
  <2>3. CASE MergeDies BY <1>1, <2>3 DEF MergeDies, NoMerge
  <2> QED
    BY <1>1, <2>1, <2>2, <2>3 DEF ConfigNext, ClaudeLocks, ClaudeWrites, ClaudeUnlocks,
       HolderSleeps, MergeDefers, MergeLocks, MergeReads, MergeUnlocks, MergeWritesLocal,
       MergeWritesBaseline, configVars
<1>2. ConfigInv /\ ConfigInv' /\ [ConfigNext]_configVars =>
        [/\ \A h \in ClaudeHomes : chosen'[h] \in settled' \cup overrun' \/ ChoiceIsPending(h)'
         /\ merge.at = "write" /\ merge'.at = "unlock" => canonical = merge.seen]_configVars
  BY <1>1 DEF ConfigInv, ChoicesKept, Accounted
<1> QED BY ConfigInitially, ConfigStep, <1>2, PTL DEF ConfigSpec, ChoicesSurvive

=============================================================================
