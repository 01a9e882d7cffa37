------------------------------ MODULE AppServer ------------------------------
(***************************************************************************)
(* The client of `codex app-server` (appserver.py): a reader thread queues *)
(* the server's lines, and the single caller pumps them, one at a time,    *)
(* while it waits for a response or for the next event.  What is pumped on *)
(* the way is kept: responses by their id, notifications in a buffer that  *)
(* bounds those nobody acts on and must keep those that carry a signal (a  *)
(* usage update, an error).  The server is external and sends what it      *)
(* likes; its requests are answered while they are pumped and change       *)
(* nothing here: the program's one client (keyprove.py:75) has no handler, *)
(* so none comes back to the client from within (appserver.py:258).        *)
(***************************************************************************)
EXTENDS Integers, Sequences, FiniteSets

CONSTANTS MAX_PLAIN_EVENTS,
          MaxRequests,   \* bound: requests of the caller
          MaxMessages    \* bound: lines of the server

ASSUME AppServerBounds ==
  MAX_PLAIN_EVENTS \in Nat /\ MaxRequests \in Nat /\ MaxMessages \in Nat

VARIABLES
  incoming,   \* the lines that were read and not pumped
  buffered,   \* _events, the buffered notifications
  plain,      \* _plain, the number of those without a signal
  dropped,    \* dropped_events
  nextId,     \* the ids of the requests that were written or tried
  pending, responses,
  caller,     \* what the caller is in the middle of
  open,       \* close() was not called
  sent,       \* history: the lines of the server
  taken       \* history: the events the caller got

appVars == <<incoming, buffered, plain, dropped, nextId, pending, responses, caller, open,
             sent, taken>>

Ids   == 1..MaxRequests
Notes == [kind: {"plain", "signal"}, n: 1..MaxMessages]
Lines == Notes \cup [kind: {"answer"}, n: Ids]

Waits(id) == [at |-> "waits", id |-> id]
Drains    == [at |-> "drains", id |-> 0]
Unbusy      == [at |-> "free", id |-> 0]

AppInit ==
  /\ incoming = <<>> /\ buffered = <<>> /\ plain = 0 /\ dropped = 0
  /\ nextId = 0 /\ pending = {} /\ responses = {}
  /\ caller = Unbusy /\ open = TRUE
  /\ sent = <<>> /\ taken = <<>>

-----------------------------------------------------------------------------
(* The server, and the reader thread. *)

Sends(line) ==
  /\ Len(sent) < MaxMessages
  /\ line.kind # "answer" => line.n = Len(sent) + 1
  /\ sent' = Append(sent, line) /\ incoming' = Append(incoming, line)
  /\ UNCHANGED <<buffered, plain, dropped, nextId, pending, responses, caller, open, taken>>

-----------------------------------------------------------------------------
(* The caller. *)

\* send_request(): the id is used up even when the write fails.
Requests ==
  /\ caller = Unbusy /\ open /\ nextId < MaxRequests
  /\ nextId' = nextId + 1
  /\ \/ pending' = pending \cup {nextId'}
     \/ UNCHANGED pending
  /\ UNCHANGED <<incoming, buffered, plain, dropped, responses, caller, open, sent, taken>>

\* A response may be waited for again after a timeout.
WaitsFor(id) ==
  /\ caller = Unbusy /\ id \in pending
  /\ caller' = Waits(id)
  /\ UNCHANGED <<incoming, buffered, plain, dropped, nextId, pending, responses, open, sent, taken>>

BeginsEvent ==
  /\ caller = Unbusy
  /\ caller' = Drains
  /\ UNCHANGED <<incoming, buffered, plain, dropped, nextId, pending, responses, open, sent, taken>>

Hungry == \/ caller.at = "waits" /\ caller.id \notin responses
          \/ caller.at = "drains" /\ buffered = <<>>

\* A mutant: the oldest event makes room, whatever it carries.
RecordAnyOldest(note) ==
  LET kept == Append(buffered, note)
      more == plain + (IF note.kind = "plain" THEN 1 ELSE 0)
  IN IF note.kind = "signal" \/ more <= MAX_PLAIN_EVENTS
     THEN buffered' = kept /\ plain' = more /\ UNCHANGED dropped
     ELSE buffered' = Tail(kept) /\ UNCHANGED plain /\ dropped' = dropped + 1

Without(seq, i) == [j \in 1..(Len(seq) - 1) |-> IF j < i THEN seq[j] ELSE seq[j + 1]]

\* _record(): the oldest event without a signal makes room.
Record(note) ==
  LET kept == Append(buffered, note)
      more == plain + (IF note.kind = "plain" THEN 1 ELSE 0)
  IN IF note.kind = "signal" \/ more <= MAX_PLAIN_EVENTS
     THEN buffered' = kept /\ plain' = more /\ UNCHANGED dropped
     ELSE \E i \in 1..Len(kept) :
            /\ kept[i].kind = "plain" /\ \A j \in 1..(i - 1) : kept[j].kind # "plain"
            /\ buffered' = Without(kept, i) /\ UNCHANGED plain /\ dropped' = dropped + 1

\* _pump(): an answer nobody waits for, or a second one, ends the call with an error.
Pump ==
  LET line == Head(incoming)
  IN /\ Hungry /\ open /\ incoming # <<>>
     /\ incoming' = Tail(incoming)
     /\ IF line.kind # "answer"
        THEN Record(line) /\ UNCHANGED <<responses, caller>>
        ELSE /\ IF line.n \in pending \ responses
                THEN responses' = responses \cup {line.n} /\ UNCHANGED caller
                ELSE UNCHANGED responses /\ caller' = Unbusy
             /\ UNCHANGED <<buffered, plain, dropped>>
     /\ UNCHANGED <<nextId, pending, open, sent, taken>>

\* The deadline, the lifetime or the stream ends.
GivesUp ==
  /\ Hungry /\ caller' = Unbusy
  /\ UNCHANGED <<incoming, buffered, plain, dropped, nextId, pending, responses, open, sent, taken>>

TakesResponse ==
  /\ caller.at = "waits" /\ caller.id \in responses
  /\ pending' = pending \ {caller.id} /\ responses' = responses \ {caller.id}
  /\ caller' = Unbusy
  /\ UNCHANGED <<incoming, buffered, plain, dropped, nextId, open, sent, taken>>

TakesEvent ==
  /\ caller.at = "drains" /\ buffered # <<>>
  /\ buffered' = Tail(buffered) /\ taken' = Append(taken, Head(buffered))
  /\ plain' = IF Head(buffered).kind = "plain" THEN plain - 1 ELSE plain
  /\ caller' = Unbusy
  /\ UNCHANGED <<incoming, dropped, nextId, pending, responses, open, sent>>

Closes ==
  /\ caller = Unbusy /\ open /\ open' = FALSE
  /\ UNCHANGED <<incoming, buffered, plain, dropped, nextId, pending, responses, caller, sent, taken>>

-----------------------------------------------------------------------------
AppNext ==
  \/ \E line \in Lines : Sends(line)
  \/ Requests \/ BeginsEvent \/ (\E id \in Ids : WaitsFor(id))
  \/ Pump \/ GivesUp \/ TakesResponse \/ TakesEvent \/ Closes

AppSpec == AppInit /\ [][AppNext]_appVars

AppTypeOK ==
  /\ incoming \in Seq(Lines) /\ buffered \in Seq(Notes) /\ taken \in Seq(Notes) /\ sent \in Seq(Lines)
  /\ plain \in Nat /\ dropped \in Nat /\ nextId \in 0..MaxRequests
  /\ pending \subseteq Ids /\ responses \subseteq pending
  /\ caller \in [at: {"free", "waits", "drains"}, id: 0..MaxRequests] /\ open \in BOOLEAN

-----------------------------------------------------------------------------
\* The lines of a kind; a notification's number is its place among the lines of the server.
Of(kind, seq) == {seq[i] : i \in {j \in 1..Len(seq) : seq[j].kind = kind}}
InOrder(seq)  == \A i, j \in 1..Len(seq) :
                   i < j /\ seq[i].kind # "answer" /\ seq[j].kind # "answer" => seq[i].n < seq[j].n

\* However the caller mixes waiting, draining and giving up: every signal the server sent is
\* with the caller, in the buffer or unread, once and in its order; the others are bounded, and
\* those that are missing are counted (appserver.py:275-300).
SignalsAreKept ==
  LET held == taken \o buffered \o incoming
  IN /\ InOrder(held) /\ Of("signal", held) = Of("signal", sent)
     /\ plain = Cardinality(Of("plain", buffered)) /\ plain <= MAX_PLAIN_EVENTS
     /\ Of("plain", held) \subseteq Of("plain", sent)
     /\ Cardinality(Of("plain", held)) + dropped = Cardinality(Of("plain", sent))
=============================================================================
