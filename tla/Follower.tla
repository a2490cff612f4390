------------------------------ MODULE Follower ------------------------------
(***************************************************************************)
(* A signed-in desktop following the team server's Changes: the background *)
(* thread of crates/catalog-browser/src/team/session.rs and the replica it *)
(* keeps (crates/catalog/src/replica.rs), over one realtime stream         *)
(* (crates/collaboration/src/realtime.rs).                                 *)
(*                                                                         *)
(* The server is the contract of ChangeLog, which Catalog implements.  One *)
(* action is one request of the thread, or one of its steps that others    *)
(* can see: the server and the network act between any two.                *)
(*                                                                         *)
(* What a Change saved never changes, so reading it later reads the same.  *)
(***************************************************************************)
EXTENDS Naturals, Sequences

CONSTANTS
  Parts,       \* parts of the Catalog
  Published,   \* the Changes people may publish
  MaxChanges,  \* how many of them they do (bounds the log)
  MaxFailures  \* how often a request or the stream fails (bounds the retries)

ASSUME FollowerAssumption ==
  /\ MaxChanges \in Nat
  /\ MaxFailures \in Nat
  /\ \A c \in Published :
       c \in [Parts -> [details : Nat, revision : Nat]]

VARIABLES
  log, current,        \* the server, see ChangeLog
  inFlight,            \* seqs of the notifications on their way to the desktop
  lost,                \* those of this stream that will never come
  updates,             \* Live.updates, what the person is shown
  replica,             \* Live.replica
  inStepAt,            \* Live.in_step_at_ms, as the number of Changes by then
  heard,               \* the newest Change this session was notified of
  phase,               \* where the thread is
  draft,               \* the copy of the replica it works on
  unread,              \* the parts its pages have not read yet
  listed,              \* the last Change of the list it replays
  wentLive,            \* whether this connection got as far as live updates
  failures             \* how many requests or streams failed so far

server == <<log, current>>
stream == <<inFlight, lost>>
shown == <<updates, replica, inStepAt, heard>>
thread == <<phase, draft, unread, listed, wentLive>>
vars == <<server, stream, shown, thread, failures>>

Server == INSTANCE ChangeLog

Fresh == [checkpoint |-> 0, parts |-> Server!Empty]

-----------------------------------------------------------------------------
(* The server and the network.                                             *)

\* Mutant of Listening: the desktop subscribes only once it has caught up.
ListeningOnceLive == phase \in {"live"}

\* The server notifies of each Change from the moment of the subscription.
Listening == phase \in {"starting", "reading", "listing", "replaying", "live"}

Publish ==
  /\ Len(log) < MaxChanges
  /\ \E c \in Published : Server!Publish(c)
  /\ inFlight' = inFlight \cup (IF Listening THEN {Len(log) + 1} ELSE {})
  /\ UNCHANGED <<lost, shown, thread, failures>>

\* A notification that never arrives, though the stream looks alive.
Lose(n) ==
  /\ n \in inFlight
  /\ inFlight' = inFlight \ {n}
  /\ lost' = lost \cup {n}
  /\ UNCHANGED <<server, shown, thread, failures>>

-----------------------------------------------------------------------------
(* Connecting and catching up.                                             *)

Connect ==
  /\ phase = "waiting"
  /\ phase' = "connected"
  /\ UNCHANGED <<server, stream, shown, draft, unread, listed, wentLive, failures>>

\* Mutant of Subscribe: reconnecting, it waits for notifications at once.
SubscribeOnly ==
  /\ phase = "connected"
  /\ phase' = IF replica.checkpoint = 0 THEN "starting" ELSE "replaying"
  /\ draft' = replica
  /\ UNCHANGED <<server, stream, shown, unread, listed, wentLive, failures>>

\* A replica that has applied nothing is read from the server; another one
\* catches up, on a copy.
Subscribe ==
  /\ phase = "connected"
  /\ phase' = IF replica.checkpoint = 0 THEN "starting" ELSE "listing"
  /\ draft' = replica
  /\ UNCHANGED <<server, stream, shown, unread, listed, wentLive, failures>>

\* read_from_server, step 1: the newest Change is noted before any part is read.
NoteLatest ==
  /\ phase = "starting"
  /\ phase' = "reading"
  /\ draft' = [checkpoint |-> Len(log), parts |-> Server!Empty]
  /\ unread' = Parts
  /\ UNCHANGED <<server, stream, shown, listed, wentLive, failures>>

\* Step 2: one page of parts, as they are now.  A part not added yet is read
\* as Nowhere, which also stands for one added behind the pages.
ReadPage ==
  /\ phase = "reading"
  /\ \E page \in SUBSET unread :
       /\ draft' = [draft EXCEPT !.parts =
                      [p \in Parts |-> IF p \in page THEN current[p] ELSE draft.parts[p]]]
       /\ unread' = unread \ page
  /\ phase' = IF unread' = {} THEN "listing" ELSE "reading"
  /\ UNCHANGED <<server, stream, shown, listed, wentLive, failures>>

\* Mutant of ListChanges: the list ends one Change too late.
ListOneTooMany ==
  /\ phase = "listing"
  /\ phase' = "replaying"
  /\ listed' = Len(log) + 1
  /\ UNCHANGED <<server, stream, shown, draft, unread, wentLive, failures>>

\* catch_up lists every Change after the checkpoint.
ListChanges ==
  /\ phase = "listing"
  /\ phase' = "replaying"
  /\ listed' = Len(log)
  /\ UNCHANGED <<server, stream, shown, draft, unread, wentLive, failures>>

\* Mutant of Applied: a replica that holds something newer keeps it.
AppliedUnlessOlder(state, c) ==
  [p \in Parts |->
    [details |-> IF c[p].details > state[p].details THEN c[p].details ELSE state[p].details,
     revision |-> IF c[p].revision > state[p].revision THEN c[p].revision ELSE state[p].revision]]

\* What a Change saved becomes current, whatever the replica held.
Applied(state, c) ==
  [p \in Parts |->
    [details |-> IF c[p].details = 0 THEN state[p].details ELSE c[p].details,
     revision |-> IF c[p].revision = 0 THEN state[p].revision ELSE c[p].revision]]

\* The next Change of the list is fetched and applied to the copy.
ApplyNext ==
  /\ phase = "replaying"
  /\ draft.checkpoint < listed
  /\ draft' = [checkpoint |-> draft.checkpoint + 1,
               parts |-> Applied(draft.parts, log[draft.checkpoint + 1])]
  /\ UNCHANGED <<server, stream, shown, phase, unread, listed, wentLive, failures>>

\* The finished copy takes the replica's place.  The first time on this
\* connection the desktop is now live, and in step.
Install ==
  /\ phase = "replaying"
  /\ draft.checkpoint >= listed
  /\ replica' = draft
  /\ phase' = "live"
  /\ wentLive' = TRUE
  /\ updates' = "Live"
  /\ inStepAt' = IF wentLive THEN inStepAt ELSE Len(log)
  /\ UNCHANGED <<server, stream, heard, draft, unread, listed, failures>>

-----------------------------------------------------------------------------
(* Live updates.                                                           *)

\* receive: a Change already applied is ignored, the next one is fetched, and
\* after a gap everything missing is listed first.
Receive(n) ==
  /\ phase = "live"
  /\ n \in inFlight
  /\ inFlight' = inFlight \ {n}
  /\ heard' = IF n > heard THEN n ELSE heard
  /\ draft' = replica
  /\ phase' = IF n <= replica.checkpoint THEN "live"
              ELSE IF n = replica.checkpoint + 1 THEN "replaying"
              ELSE "listing"
  /\ listed' = IF n = replica.checkpoint + 1 THEN n ELSE listed
  /\ UNCHANGED <<server, lost, updates, replica, inStepAt, unread, wentLive, failures>>

\* The stream or a request broke: the copy is dropped.  A connection that was
\* live counts as in step until now.
Broken(next) ==
  /\ phase' = next
  /\ inFlight' = {} /\ lost' = {}
  /\ draft' = Fresh /\ unread' = {} /\ listed' = 0 /\ wentLive' = FALSE
  /\ inStepAt' = IF wentLive THEN Len(log) ELSE inStepAt
  /\ UNCHANGED <<server, replica, heard>>

\* Any request may fail, and the stream may end, at any time; after a wait the
\* thread starts again with a new stream.
Fail ==
  /\ phase \notin {"waiting", "signedOut"}
  /\ failures < MaxFailures
  /\ failures' = failures + 1
  /\ updates' = "Reconnecting"
  /\ Broken("waiting")

\* The server closes a live stream, as PocketBase does after 5 quiet minutes;
\* the person is not told.
StreamCloses ==
  /\ phase = "live"
  /\ UNCHANGED <<updates, failures>>
  /\ Broken("waiting")

\* The network went away without a word: after 6 silent minutes (IDLE_LIMIT)
\* the stream counts as gone.
FallsSilent ==
  /\ phase = "live"
  /\ inFlight = {}
  /\ updates' = "Reconnecting"
  /\ UNCHANGED failures
  /\ Broken("waiting")

\* The server rejects the sign-in: the thread ends.
Rejected ==
  /\ phase \notin {"waiting", "signedOut"}
  /\ failures < MaxFailures
  /\ failures' = failures + 1
  /\ updates' = "SignInAgain"
  /\ Broken("signedOut")

\* The person signs in again: a new session, with nothing of the old one.
SignIn ==
  /\ phase = "signedOut"
  /\ phase' = "waiting"
  /\ updates' = "Connecting"
  /\ replica' = Fresh
  /\ inStepAt' = 0
  /\ heard' = 0
  /\ UNCHANGED <<server, stream, draft, unread, listed, wentLive, failures>>

-----------------------------------------------------------------------------
Init ==
  /\ Server!Init
  /\ inFlight = {} /\ lost = {}
  /\ updates = "Connecting"
  /\ replica = Fresh
  /\ inStepAt = 0 /\ heard = 0
  /\ phase = "waiting"
  /\ draft = Fresh /\ unread = {} /\ listed = 0 /\ wentLive = FALSE
  /\ failures = 0

Next ==
  \/ Publish
  \/ \E n \in 1..MaxChanges : Lose(n)
  \/ Connect \/ Subscribe \/ NoteLatest \/ ReadPage \/ ListChanges \/ ApplyNext \/ Install
  \/ \E n \in 1..MaxChanges : Receive(n)
  \/ Fail \/ StreamCloses \/ FallsSilent \/ Rejected \/ SignIn

Spec == Init /\ [][Next]_vars

\* The thread keeps running, and a live stream on which nothing comes ends
\* some time.
Fairness ==
  /\ WF_vars(Connect \/ Subscribe \/ NoteLatest \/ ReadPage \/ ListChanges
             \/ ApplyNext \/ Install)
  /\ WF_vars(\E n \in 1..MaxChanges : Receive(n))
  /\ WF_vars((inFlight = {} /\ StreamCloses) \/ FallsSilent)

FairSpec == Spec /\ Fairness

-----------------------------------------------------------------------------
(* Properties.                                                             *)

Replica == [checkpoint : Nat, parts : [Parts -> Server!Position]]

\* The desktop knows no Change the server does not have.
TypeOK ==
  /\ log \in Seq([Parts -> Server!Position])
  /\ current \in [Parts -> Server!Position]
  /\ inFlight \cup lost \subseteq 1..Len(log)
  /\ updates \in {"Connecting", "Live", "Reconnecting", "SignInAgain"}
  /\ replica \in Replica /\ draft \in Replica
  /\ {inStepAt, heard, listed} \subseteq 0..Len(log)
  /\ phase \in {"waiting", "connected", "starting", "reading", "listing", "replaying",
                "live", "signedOut"}
  /\ unread \subseteq Parts
  /\ wentLive \in BOOLEAN
  /\ failures \in Nat

\* v is what the last of the first n values said, 0 saying nothing.
SaidLast(said, n, v) ==
  IF v = 0 THEN \A k \in 1..n : said[k] = 0
  ELSE \E k \in 1..n : said[k] = v /\ \A j \in (k + 1)..n : said[j] = 0

DetailsSaid(p) == [k \in 1..Len(log) |-> log[k][p].details]
RevisionSaid(p) == [k \in 1..Len(log) |-> log[k][p].revision]

\* The parts a person sees are exactly what the Changes up to the checkpoint
\* say: none missed, applied twice or out of order, though the pages of the
\* first read saw later states (replica.rs:41).
ReplicaIsAtItsCheckpoint ==
  /\ replica.checkpoint <= Len(log)
  /\ \A p \in Parts :
       /\ SaidLast(DetailsSaid(p), replica.checkpoint, replica.parts[p].details)
       /\ SaidLast(RevisionSaid(p), replica.checkpoint, replica.parts[p].revision)

\* While the thread waits for notifications, one is on its way or lost for
\* every Change the replica lacks: subscribing comes before catching up
\* (session.rs:191).
NothingMissedWhileLive ==
  phase = "live" => \A n \in (replica.checkpoint + 1)..Len(log) : n \in inFlight \cup lost

\* Every Change gets to the desktop, whatever is lost, unless the person has
\* to sign in again.
EveryChangeArrives ==
  \A n \in 1..MaxChanges :
    Len(log) >= n ~> (replica.checkpoint >= n \/ updates = "SignInAgain")

\* The doc of in_step_at_ms: "When the replica last matched the server"
\* (session.rs:87).  While reconnecting, the person is shown that time; the
\* replica should have every Change it was told of and that was saved by then.
InStepWhenItSaysSo ==
  updates = "Reconnecting" => (heard <= inStepAt => heard <= replica.checkpoint)
=============================================================================
