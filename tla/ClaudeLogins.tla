---------------------------- MODULE ClaudeLogins ----------------------------
(***************************************************************************)
(* The logins of the Claude seats.  Claude Code keeps its login in one     *)
(* Keychain item per configuration directory: the stock item and one item  *)
(* per seat's private home.  Several items may hold the login of one       *)
(* account, and whichever is renewed first makes the others useless, so    *)
(* claudesync._converge copies the newest one over the rest.  The bytes do *)
(* not name their account: only the profile endpoint does, when it answers.*)
(*                                                                         *)
(* A login is its owner and a number that grows with every renewal.        *)
(* Every home has been seeded once: the migration of older stores, which    *)
(* fills homes for the first time, is left out.                             *)
(***************************************************************************)
EXTENDS Integers, FiniteSets

CONSTANTS ClaudeSeats,
          Expiry,        \* expiresAt by number of the login; two may be equal
          MaxRenewals,   \* bound: renewals per account
          MaxEvents,     \* bound: acts of Claude Code and of the user
          Unanswered     \* may the profile endpoint fail to answer?

Stock == "stock item"
Keys  == ClaudeSeats \cup {Stock}
ASSUME ClaudeConstants ==
  /\ Stock \notin ClaudeSeats /\ MaxRenewals \in Nat /\ MaxEvents \in Nat
  /\ Expiry \in [0..MaxRenewals -> Nat] /\ Unanswered \in BOOLEAN
\* A renewal never ends before the login it renews: newest() has nothing else to go by.
ASSUME ExpiryGrows == \A m, n \in 0..MaxRenewals : m <= n => Expiry[m] <= Expiry[n]

VARIABLES
  newestOf,     \* the provider: number of each account's newest login
  item,         \* the Keychain items
  snap,         \* the saved snapshot of each seat
  floor,        \* the active seat
  stockOut,     \* stock_logged_out
  mirrored,     \* captured_stock_digest: the stock login the switcher knows about
  quarantined,  \* the seats whose home was proven to hold somebody else's login
  seen,         \* the tracker, in memory: the bytes last looked at and their owner
  conv,         \* the convergence under way
  op,           \* the switch or sign-in under way, one at a time
  events

claudeItems == <<newestOf, item>>
claudeStore == <<snap, floor, stockOut, mirrored, quarantined>>
claudeVars  == <<claudeItems, claudeStore, seen, conv, op, events>>

Nobody == "nobody"
ASSUME NobodyIsNoSeat == Nobody \notin ClaudeSeats
Tokens == [owner: ClaudeSeats, n: 0..MaxRenewals]
Empty  == [owner |-> Nobody, n |-> 0]
Blobs  == Tokens \cup {Empty}
Sights == [blob: Blobs, owner: ClaudeSeats \cup {Nobody}]
Unseen == [blob |-> [owner |-> Nobody, n |-> 1], owner |-> Nobody]

Idle == [at |-> "idle", blob |-> [k \in Keys |-> Empty], owner |-> [k \in Keys |-> Nobody],
         changed |-> {}, group |-> {}, todo |-> {},
         snap |-> [s \in ClaudeSeats |-> Empty], before |-> [k \in Keys |-> Unseen],
         target |-> Nobody, look |-> Empty]
\* The seat it is for, the new login if it is a sign-in, and the stock login it reconciled.
NoOp == [at |-> "idle", seat |-> Nobody, new |-> Empty, live |-> Empty]

ClaudeFresh ==
  /\ newestOf = [s \in ClaudeSeats |-> 0]
  /\ item = [k \in Keys |-> IF k = Stock THEN Empty ELSE [owner |-> k, n |-> 0]]
  /\ snap = [s \in ClaudeSeats |-> [owner |-> s, n |-> 0]]
  /\ stockOut = FALSE /\ mirrored = Empty /\ quarantined = {}
  /\ seen = [k \in Keys |-> Unseen]
  /\ conv = Idle /\ op = NoOp /\ events = 0
ClaudeInit == floor \in ClaudeSeats /\ ClaudeFresh

\* The store lock: a propagation, a switch and a sign-in hold it over several steps.
NoConv   == conv.at \notin {"writing", "following"}
NoSwitch == op.at \notin {"filing", "installing"}
Unlocked == NoConv /\ NoSwitch

-----------------------------------------------------------------------------
(* Claude Code itself, which knows no lock. *)

\* The holder of an account's newest login renews it in place.
CliRenews(k) ==
  LET o == item[k].owner
  IN /\ item[k] # Empty /\ item[k].n = newestOf[o] /\ newestOf[o] < MaxRenewals
     /\ newestOf' = [newestOf EXCEPT ![o] = @ + 1]
     /\ item' = [item EXCEPT ![k].n = newestOf'[o]]
     /\ UNCHANGED <<claudeStore, seen, conv, op>>

Issued(o) == [owner |-> o, n |-> newestOf[o] + 1]
Issues(o) ==
  /\ newestOf[o] < MaxRenewals /\ newestOf' = [newestOf EXCEPT ![o] = @ + 1]

\* /login as any account, in the stock directory or inside a seat's home.
CliLogin(k, o) ==
  /\ Issues(o) /\ item' = [item EXCEPT ![k] = Issued(o)]
  /\ UNCHANGED <<claudeStore, seen, conv, op>>

\* /logout, or a login that was refused is cleared.
CliLogout(k) ==
  /\ item[k] # Empty /\ item' = [item EXCEPT ![k] = Empty]
  /\ UNCHANGED <<newestOf, claudeStore, seen, conv, op>>

-----------------------------------------------------------------------------
(* claudesync.converge. *)

\* The items are read; what changed since the last look, or is due for another
\* attempt at its owner, is asked about.
Scan ==
  LET changed == {k \in Keys : seen[k].blob # item[k]}
      due     == {k \in Keys \ changed : item[k] # Empty /\ seen[k].owner = Nobody}
  IN /\ conv.at = "idle"
     /\ \E retry \in SUBSET due :
          /\ changed \cup retry # {}
          /\ conv' = [Idle EXCEPT !.at = "asking", !.blob = item, !.snap = snap,
                                  !.changed = changed \cup retry, !.before = seen]
     /\ UNCHANGED <<claudeItems, claudeStore, seen, op>>

\* An answer counts for the bytes that were sent, if the item still holds them.
Identify ==
  /\ conv.at = "asking"
  /\ \E answered \in SUBSET conv.changed :
       /\ ~Unanswered => answered = conv.changed
       /\ LET owner == [k \in Keys |->
                IF k \notin conv.changed THEN seen[k].owner
                ELSE IF k \in answered /\ item[k] = conv.blob[k] THEN conv.blob[k].owner
                ELSE Nobody]
          IN /\ conv' = [conv EXCEPT !.at = "asked", !.owner = owner]
             /\ seen' = [k \in Keys |-> [blob |-> conv.blob[k], owner |-> owner[k]]]
  /\ UNCHANGED <<claudeItems, claudeStore, op>>

\* Under the lock: items that still hold the proven bytes are grouped by owner; a home
\* that holds somebody else's is quarantined, but stays in its owner's group.
Group ==
  /\ conv.at = "asked" /\ NoSwitch
  /\ LET group == {k \in Keys : conv.owner[k] # Nobody /\ item[k] = conv.blob[k]}
     IN /\ quarantined' = quarantined \cup {k \in group \ {Stock} : conv.owner[k] # k}
        /\ conv' = [conv EXCEPT !.at = "writing", !.group = group, !.todo = group]
  /\ UNCHANGED <<claudeItems, snap, floor, stockOut, mirrored, seen, op>>

\* newest(): the one login, else the one that expires last if only one does.
Newest(blobs) ==
  {b \in blobs : \A c \in blobs \ {b} : Expiry[b.n] > Expiry[c.n]}

\* The copies that changed are the candidates, or all when none of them did.
Contenders(o) ==
  LET mine == {k \in conv.group : conv.owner[k] = o}
  IN IF mine \cap conv.changed # {} THEN mine \cap conv.changed ELSE mine
Winner(o) == Newest({conv.blob[k] : k \in Contenders(o)})
Source(o) == CHOOSE k \in Contenders(o) : conv.blob[k] \in Winner(o)

\* A mutant: an item is written over without a second look at it.
LooksAway(k) ==
  LET o == conv.owner[k]
      copy == Winner(o) # {} /\ ~(k = Stock /\ stockOut) /\ item[k] # conv.blob[Source(o)]
  IN /\ conv.at = "writing" /\ conv.target = Nobody /\ k \in conv.todo
     /\ conv' = IF copy THEN [conv EXCEPT !.target = k, !.look = item[k]]
                ELSE [conv EXCEPT !.todo = @ \ {k}]
     /\ UNCHANGED <<claudeItems, claudeStore, seen, op>>

\* Source and target are read again right before the write.
Looks(k) ==
  LET o == conv.owner[k]
      copy == /\ Winner(o) # {} /\ ~(k = Stock /\ stockOut)
              /\ item[Source(o)] = conv.blob[Source(o)] /\ item[k] = conv.blob[k]
              /\ item[k] # conv.blob[Source(o)]
  IN /\ conv.at = "writing" /\ conv.target = Nobody /\ k \in conv.todo
     /\ conv' = IF copy THEN [conv EXCEPT !.target = k, !.look = item[k]]
                ELSE [conv EXCEPT !.todo = @ \ {k}]
     /\ UNCHANGED <<claudeItems, claudeStore, seen, op>>

\* Claude Code, which knows no lock, may have written the item since: the Keychain has no
\* compare-and-swap.
Propagate(k) ==
  LET o == conv.owner[k]
      new == conv.blob[Source(o)]
  IN /\ conv.at = "writing" /\ k = conv.target
     /\ item' = [item EXCEPT ![k] = new]
     /\ seen' = [seen EXCEPT ![k] = [blob |-> new, owner |-> o]]
     /\ mirrored' = IF k = Stock THEN new ELSE mirrored
     /\ conv' = [conv EXCEPT !.todo = @ \ {k}, !.target = Nobody]
     /\ UNCHANGED <<newestOf, snap, floor, stockOut, quarantined, op>>

\* A Keychain write fails: what was seen before this convergence is what was seen, so
\* the next one finds the same changes again.
WriteFails ==
  /\ ~NoConv /\ conv.todo # {}
  /\ seen' = conv.before /\ conv' = Idle
  /\ UNCHANGED <<claudeItems, claudeStore, op>>

\* Then the snapshots follow their winner, unless somebody changed them meanwhile.
ToSnapshots ==
  /\ conv.at = "writing" /\ conv.todo = {}
  /\ conv' = [conv EXCEPT !.at = "following",
       !.todo = {s \in ClaudeSeats \ quarantined : \E k \in conv.group : conv.owner[k] = s}]
  /\ UNCHANGED <<claudeItems, claudeStore, seen, op>>

Follow(s) ==
  /\ conv.at = "following" /\ s \in conv.todo
  /\ snap' = IF /\ Winner(s) # {} /\ item[Source(s)] = conv.blob[Source(s)]
                /\ snap[s] = conv.snap[s]
             THEN [snap EXCEPT ![s] = conv.blob[Source(s)]] ELSE snap
  /\ conv' = [conv EXCEPT !.todo = @ \ {s}]
  /\ UNCHANGED <<claudeItems, floor, stockOut, mirrored, quarantined, seen, op>>

Converged ==
  /\ conv.at = "following" /\ conv.todo = {}
  /\ conv' = Idle
  /\ UNCHANGED <<claudeItems, claudeStore, seen, op>>

\* The app restarts: the tracker is gone, and a switch under way if it was the app's.
Restart ==
  /\ conv' = Idle /\ seen' = [k \in Keys |-> Unseen] /\ op' \in {op, NoOp}
  /\ UNCHANGED <<claudeItems, claudeStore>>

-----------------------------------------------------------------------------
(* The locked operations. *)

\* reconcile_claude may take up the stock login: one the switcher did not write itself, whose
\* owner is a seat with nothing newer in its home.  It still may not: the profile endpoint
\* does not answer, or the tracker of this process knows the login and kept the snapshot.
Met == LET live == item[Stock]
       IN /\ live # Empty /\ mirrored # live /\ item[live.owner] \in {Empty, live}

\* A mutant: the login is filed under the active seat, whoever's it is.
ReconcilesActive ==
  /\ Met
  /\ LET live == item[Stock]
     IN /\ snap' = [snap EXCEPT ![floor] = live]
        /\ item' = [item EXCEPT ![live.owner] = live]
        /\ floor' = live.owner /\ mirrored' = live
  /\ UNCHANGED <<newestOf, stockOut, quarantined, seen, conv>>

\* It then goes into its owner's snapshot, into the home if that is empty, and selects its owner.
Reconciles ==
  /\ Met
  /\ LET live == item[Stock]
     IN /\ snap' = [snap EXCEPT ![live.owner] = live]
        /\ item' = [item EXCEPT ![live.owner] = live]
        /\ floor' = live.owner /\ mirrored' = live
  /\ UNCHANGED <<newestOf, stockOut, quarantined, seen, conv>>

\* A usage poll reconciles without switching.
AdoptStock == Unlocked /\ Reconciles /\ UNCHANGED op

\* switch(manual=True) begins with switch.sync_back, which reconciles and goes on to file the
\* stock item if that worked.
PickSeat(s) ==
  /\ NoConv /\ op.at = "idle"
  /\ \/ /\ Reconciles
        /\ op' = [NoOp EXCEPT !.at = "filing", !.seat = s, !.live = item[Stock]]
     \/ /\ op' = [NoOp EXCEPT !.at = "installing", !.seat = s]
        /\ UNCHANGED <<claudeItems, claudeStore, seen, conv>>

\* authflows.signin issues a login of its own; nothing happens unless it is the seat's.  The
\* rest is under the lock, and begins with switch.sync_back too.
SignInIssued(s) ==
  /\ op.at = "idle" /\ Issues(s)
  /\ op' = [NoOp EXCEPT !.at = "issued", !.seat = s, !.new = Issued(s)]
  /\ UNCHANGED <<item, claudeStore, seen, conv>>
ClaudeSignIn ==
  /\ NoConv /\ op.at = "issued"
  /\ \/ /\ Reconciles
        /\ op' = [op EXCEPT !.at = "filing", !.live = item[Stock]]
     \/ /\ op' = [op EXCEPT !.at = "installing"]
        /\ UNCHANGED <<claudeItems, claudeStore, seen, conv>>

\* switch.sync_back reads the stock item again and files it under the active seat.  A blob of
\* Claude's names no account, so no check of the owner stands here.
FilesBack ==
  /\ op.at = "filing"
  /\ snap' = IF item[Stock] = Empty THEN snap ELSE [snap EXCEPT ![floor] = item[Stock]]
  /\ op' = [op EXCEPT !.at = "installing"]
  /\ UNCHANGED <<claudeItems, floor, stockOut, mirrored, quarantined, seen, conv>>

\* The landing home's login goes into the stock item; a home that is quarantined or empty
\* refuses the switch, after the sync-back.
Lands ==
  LET s == op.seat
  IN /\ op.at = "installing" /\ op.new = Empty /\ op' = NoOp
     /\ IF s \in quarantined \/ item[s] = Empty THEN UNCHANGED <<claudeItems, claudeStore>>
        ELSE /\ item' = [item EXCEPT ![Stock] = item[s]]
             /\ floor' = s /\ stockOut' = FALSE /\ mirrored' = item[s]
             /\ UNCHANGED <<newestOf, snap, quarantined>>
     /\ UNCHANGED <<seen, conv>>

\* The new login goes into snapshot, home and stock item.
SignedIn ==
  LET s == op.seat
  IN /\ op.at = "installing" /\ op.new # Empty /\ op' = NoOp
     /\ snap' = [snap EXCEPT ![s] = op.new]
     /\ item' = [item EXCEPT ![s] = op.new, ![Stock] = op.new]
     /\ floor' = s /\ stockOut' = FALSE /\ mirrored' = op.new
     /\ quarantined' = quarantined \ {s}
     /\ UNCHANGED <<newestOf, seen, conv>>

\* claudehome.sync_back when a child ends, with a proof of the home's exact bytes.
ChildEnds(s) ==
  /\ Unlocked /\ item[s] # Empty
  /\ IF item[s].owner = s THEN snap' = [snap EXCEPT ![s] = item[s]] /\ UNCHANGED quarantined
     ELSE quarantined' = quarantined \cup {s} /\ UNCHANGED snap
  /\ UNCHANGED <<claudeItems, floor, stockOut, mirrored, seen, conv, op>>

\* safe_logout: a stock login that belongs to a seat is removed here only.
ClaudeLogout ==
  /\ Unlocked /\ item[Stock] # Empty
  /\ item' = [item EXCEPT ![Stock] = Empty] /\ stockOut' = TRUE
  /\ UNCHANGED <<newestOf, snap, floor, mirrored, quarantined, seen, conv, op>>

-----------------------------------------------------------------------------
ClaudeWorld ==
  \/ \E k \in Keys : CliRenews(k) \/ CliLogout(k) \/ \E o \in ClaudeSeats : CliLogin(k, o)
  \/ Restart \/ AdoptStock \/ ClaudeLogout
  \/ \E s \in ClaudeSeats : PickSeat(s) \/ SignInIssued(s) \/ ChildEnds(s)
Continues == ClaudeSignIn \/ FilesBack \/ Lands \/ SignedIn
Converge ==
  \/ Scan \/ Identify \/ Group \/ ToSnapshots \/ Converged \/ WriteFails
  \/ (\E k \in Keys : Looks(k) \/ Propagate(k)) \/ (\E s \in ClaudeSeats : Follow(s))

ClaudeNext == \/ events < MaxEvents /\ events' = events + 1 /\ ClaudeWorld
              \/ (Continues \/ Converge) /\ UNCHANGED events

ClaudeSpec == ClaudeInit /\ [][ClaudeNext]_claudeVars

ConvPlaces == {"idle", "asking", "asked", "writing", "following"}
ClaudeTypeOK ==
  /\ newestOf \in [ClaudeSeats -> 0..MaxRenewals]
  /\ item \in [Keys -> Blobs] /\ snap \in [ClaudeSeats -> Blobs]
  /\ stockOut \in BOOLEAN /\ mirrored \in Blobs
  /\ quarantined \subseteq ClaudeSeats
  /\ seen \in [Keys -> Sights \cup {Unseen}]
  /\ conv \in [at: ConvPlaces, blob: [Keys -> Blobs], owner: [Keys -> ClaudeSeats \cup {Nobody}],
               changed: SUBSET Keys, group: SUBSET Keys, todo: SUBSET Keys,
               snap: [ClaudeSeats -> Blobs], before: [Keys -> Sights \cup {Unseen}],
               target: Keys \cup {Nobody}, look: Blobs]
  /\ op \in [at: {"idle", "issued", "filing", "installing"}, seat: ClaudeSeats \cup {Nobody},
             new: Blobs, live: Blobs]
  /\ events \in 0..MaxEvents
-----------------------------------------------------------------------------
(* What the store promises of the logins. *)

\* Another account's login is filed under a seat only if it came into the stock item between
\* the check of its owner and the sync-back's own read (accounts.py:140-212, switch.py:51-59,
\* claudesync.py:231-246, claudehome.py:448-467).
SnapshotGetsItsOwn ==
  [][\A s \in ClaudeSeats :
       snap'[s] # snap[s] /\ snap'[s].owner # s
         => op.at = "filing" /\ item[Stock] # op.live]_claudeVars

\* Foreign logins never overwrite the old seat's snapshot (switch.py:29-31).  They do, in that
\* window.
SnapshotIsOwn == \A s \in ClaudeSeats : snap[s] # Empty => snap[s].owner = s

\* A renewal is lost to a propagation only in the window the Keychain leaves between the last
\* read of an item and its write (claudesync.py:13-14).  Otherwise a copy that changed since
\* the tracker last saw it, or while the convergence asked about it, gives way only to a newer
\* login of its own account (claudesync.py:10-17, 193-215).
RenewalSurvives ==
  [][\A k \in Keys :
       /\ conv.target = k /\ item'[k] # item[k] /\ events' = events /\ item[k] = conv.look
       /\ k \in conv.changed \/ conv.look # conv.blob[k]
       => item'[k].owner = item[k].owner /\ item'[k].n > item[k].n]_claudeVars
=============================================================================
