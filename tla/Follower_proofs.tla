-------------------------- MODULE Follower_proofs --------------------------
(***************************************************************************)
(* A desktop's replica is always the Catalog as it was after the Change it *)
(* names as its checkpoint, for any parts, any Changes, any number of them *)
(* and any losses and failures; it never goes back; and what the desktop   *)
(* says of being in step holds but for one way a connection can end.       *)
(***************************************************************************)
EXTENDS Follower, TLAPS

-----------------------------------------------------------------------------
(* What the last of some values said.                                      *)

\* Only the first n values matter.
LEMMA SaidLastSame ==
  ASSUME NEW s, NEW t, NEW n \in Nat, NEW v,
         \A k \in 1..n : s[k] = t[k],
         SaidLast(s, n, v)
  PROVE  SaidLast(t, n, v)
BY DEF SaidLast

\* One more value says something else, or nothing.
LEMMA SaidNext ==
  ASSUME NEW s, NEW n \in Nat, NEW v, SaidLast(s, n, v)
  PROVE  SaidLast(s, n + 1, IF s[n + 1] = 0 THEN v ELSE s[n + 1])
<1>1. CASE s[n + 1] = 0
  BY <1>1 DEF SaidLast
<1>2. CASE s[n + 1] # 0
  <2>1. n + 1 \in 1..(n + 1) /\ \A j \in ((n + 1) + 1)..(n + 1) : s[j] = 0
    OBVIOUS
  <2> QED
    BY <1>2, <2>1 DEF SaidLast
<1> QED
  BY <1>1, <1>2

-----------------------------------------------------------------------------
(* The inductive invariant.                                                *)

\* A position is what some number of Changes from a to b said.
ReadBetween(p, position, a, b) ==
  /\ \E m \in a..b : SaidLast(DetailsSaid(p), m, position.details)
  /\ \E m \in a..b : SaidLast(RevisionSaid(p), m, position.revision)

\* The server stands where the whole log says.
ServerIsAtItsLog ==
  \A p \in Parts : ReadBetween(p, current[p], Len(log), Len(log))

ReplicaIsExact ==
  /\ replica.checkpoint <= Len(log)
  /\ \A p \in Parts : ReadBetween(p, replica.parts[p], replica.checkpoint, replica.checkpoint)

\* The last Change whose work the copy may show.
Seen == IF phase = "replaying" THEN listed ELSE Len(log)

\* Each part of the copy that has been read is as it was at some moment after
\* the copy's checkpoint, and no later than what will be replayed.
DraftIsFromLater ==
  phase \in {"reading", "listing", "replaying"} =>
    /\ draft.checkpoint <= Seen
    /\ \A p \in Parts \ (IF phase = "reading" THEN unread ELSE {}) :
         ReadBetween(p, draft.parts[p], draft.checkpoint, Seen)

FollowerInv == TypeOK /\ ServerIsAtItsLog /\ ReplicaIsExact /\ DraftIsFromLater

-----------------------------------------------------------------------------
(* Types.                                                                  *)

LEMMA FreshIsReplica == Fresh \in Replica
BY DEF Fresh, Replica, Server!Empty, Server!Nowhere, Server!Position

LEMMA AppliedIsTyped ==
  ASSUME NEW state \in [Parts -> Server!Position], NEW c \in [Parts -> Server!Position]
  PROVE  /\ Applied(state, c) \in [Parts -> Server!Position]
         /\ Server!Apply(state, c) \in [Parts -> Server!Position]
BY DEF Applied, Server!Apply, Server!Moved, Server!Position

LEMMA TypeInit == Init => TypeOK
<1> SUFFICES ASSUME Init PROVE TypeOK
  OBVIOUS
<1>1. log = <<>> /\ Len(log) = 0 /\ log \in Seq([Parts -> Server!Position])
  BY DEF Init, Server!Init
<1>2. current \in [Parts -> Server!Position]
  BY DEF Init, Server!Init, Server!Empty, Server!Nowhere, Server!Position
<1>3. {inStepAt, heard, listed} \subseteq 0..Len(log)
  BY <1>1 DEF Init
<1>4. inFlight \cup lost \subseteq 1..Len(log)
  BY DEF Init
<1> QED
  BY <1>1, <1>2, <1>3, <1>4, FreshIsReplica DEF Init, TypeOK

LEMMA TypeNext == TypeOK /\ [Next]_vars => TypeOK'
<1> SUFFICES ASSUME TypeOK, [Next]_vars PROVE TypeOK'
  OBVIOUS
<1> USE DEF TypeOK
<1>1. CASE Publish
  <2>1. PICK c \in Published : Server!Publish(c)
    BY <1>1 DEF Publish
  <2>2. c \in [Parts -> Server!Position]
    BY FollowerAssumption DEF Server!Position
  <2>3. log' = Append(log, c) /\ current' = Server!Apply(current, c)
    BY <2>1 DEF Server!Publish
  <2>4. log' \in Seq([Parts -> Server!Position]) /\ Len(log') = Len(log) + 1
    BY <2>2, <2>3
  <2>5. current' \in [Parts -> Server!Position]
    BY <2>2, <2>3, AppliedIsTyped
  <2> QED
    BY <1>1, <2>4, <2>5 DEF Publish, shown, thread
<1>2. CASE \E n \in 1..MaxChanges : Lose(n)
  BY <1>2 DEF Lose, server, shown, thread
<1>3. CASE Connect
  BY <1>3 DEF Connect, server, stream, shown
<1>4. CASE Subscribe
  BY <1>4 DEF Subscribe, server, stream, shown
<1>5. CASE NoteLatest
  <2>1. Server!Empty \in [Parts -> Server!Position]
    BY DEF Server!Empty, Server!Nowhere, Server!Position
  <2> QED
    BY <1>5, <2>1 DEF NoteLatest, server, stream, shown, Replica
<1>6. CASE ReadPage
  <2>1. PICK page \in SUBSET unread :
          /\ draft' = [draft EXCEPT !.parts =
                         [p \in Parts |-> IF p \in page THEN current[p] ELSE draft.parts[p]]]
          /\ unread' = unread \ page
    BY <1>6 DEF ReadPage
  <2>2. draft' \in Replica
    BY <2>1 DEF Replica
  <2> QED
    BY <1>6, <2>1, <2>2 DEF ReadPage, server, stream, shown
<1>7. CASE ListChanges
  BY <1>7 DEF ListChanges, server, stream, shown
<1>8. CASE ApplyNext
  <2>1. draft.checkpoint \in Nat /\ draft.checkpoint + 1 \in 1..Len(log)
    BY <1>8 DEF ApplyNext, Replica
  <2>2. log[draft.checkpoint + 1] \in [Parts -> Server!Position]
    BY <2>1
  <2>3. draft' \in Replica
    BY <1>8, <2>1, <2>2, AppliedIsTyped DEF ApplyNext, Replica
  <2> QED
    BY <1>8, <2>3 DEF ApplyNext, server, stream, shown
<1>9. CASE Install
  BY <1>9 DEF Install, server, stream
<1>10. CASE \E n \in 1..MaxChanges : Receive(n)
  BY <1>10 DEF Receive, server
<1>11. CASE Fail \/ StreamCloses \/ FallsSilent \/ Rejected
  <2>1. PICK next \in {"waiting", "signedOut"} : Broken(next)
    BY <1>11 DEF Fail, StreamCloses, FallsSilent, Rejected
  <2>2. failures' \in Nat /\ updates' \in {updates, "Reconnecting", "SignInAgain"}
    BY <1>11 DEF Fail, StreamCloses, FallsSilent, Rejected
  <2>3. {inStepAt', heard', listed'} \subseteq 0..Len(log')
    <3>1. Len(log) \in Nat /\ log' = log
      BY <2>1 DEF Broken, server
    <3> QED
      BY <2>1, <3>1 DEF Broken
  <2>4. UNCHANGED <<log, current, replica>> /\ inFlight' = {} /\ lost' = {} /\ unread' = {}
    BY <2>1 DEF Broken, server
  <2> QED
    BY <2>1, <2>2, <2>3, <2>4, FreshIsReplica DEF Broken
<1>12. CASE SignIn
  BY <1>12, FreshIsReplica DEF SignIn, server, stream
<1>13. CASE UNCHANGED vars
  BY <1>13 DEF vars, server, stream, shown, thread
<1> QED
  BY <1>1, <1>2, <1>3, <1>4, <1>5, <1>6, <1>7, <1>8, <1>9, <1>10, <1>11, <1>12, <1>13
  DEF Next

-----------------------------------------------------------------------------
(* The server's log only grows.                                            *)

\* What was said before a new Change stays said.
LEMMA PublishedSays ==
  ASSUME TypeOK, NEW c \in Published, Server!Publish(c)
  PROVE  /\ Len(log) \in Nat /\ Len(log') = Len(log) + 1
         /\ \A p \in Parts :
              /\ \A k \in 1..Len(log) : /\ DetailsSaid(p)'[k] = DetailsSaid(p)[k]
                                        /\ RevisionSaid(p)'[k] = RevisionSaid(p)[k]
              /\ DetailsSaid(p)'[Len(log) + 1] = c[p].details
              /\ RevisionSaid(p)'[Len(log) + 1] = c[p].revision
<1>1. c \in [Parts -> Server!Position]
  BY FollowerAssumption DEF Server!Position
<1>2. log' = Append(log, c) /\ log \in Seq([Parts -> Server!Position])
  BY DEF Server!Publish, TypeOK
<1>3. /\ Len(log) \in Nat /\ Len(log') = Len(log) + 1
      /\ \A k \in 1..Len(log) : log'[k] = log[k]
      /\ log'[Len(log) + 1] = c
  BY <1>1, <1>2
<1> QED
  BY <1>3 DEF DetailsSaid, RevisionSaid

\* So a position read earlier was read then.
LEMMA ReadStaysRead ==
  ASSUME TypeOK, NEW c \in Published, Server!Publish(c),
         NEW p \in Parts, NEW position, NEW a \in Nat, NEW b \in 0..Len(log),
         ReadBetween(p, position, a, b)
  PROVE  ReadBetween(p, position, a, b)'
<1>1. PICK m \in a..b : SaidLast(DetailsSaid(p), m, position.details)
  BY DEF ReadBetween
<1>2. PICK n \in a..b : SaidLast(RevisionSaid(p), n, position.revision)
  BY DEF ReadBetween
<1>3. SaidLast(DetailsSaid(p)', m, position.details)
  BY <1>1, PublishedSays, SaidLastSame
<1>4. SaidLast(RevisionSaid(p)', n, position.revision)
  BY <1>2, PublishedSays, SaidLastSame
<1> QED
  BY <1>3, <1>4 DEF ReadBetween

\* Publishing keeps everything about what was read, and moves the server on.
LEMMA PublishKeepsInv ==
  ASSUME FollowerInv, Publish
  PROVE  (ServerIsAtItsLog /\ ReplicaIsExact /\ DraftIsFromLater)'
<1> USE DEF FollowerInv
<1>1. PICK c \in Published : Server!Publish(c)
  BY DEF Publish
<1>2. Len(log) \in Nat /\ Len(log') = Len(log) + 1
  BY <1>1, PublishedSays
<1>3. UNCHANGED <<replica, phase, draft, unread, listed>>
  BY DEF Publish, shown, thread
<1>4. /\ replica.checkpoint \in Nat /\ draft.checkpoint \in Nat
      /\ listed \in 0..Len(log) /\ current \in [Parts -> Server!Position]
      /\ c \in [Parts -> Server!Position]
  BY FollowerAssumption DEF TypeOK, Replica, Server!Position
<1>5. ServerIsAtItsLog'
  <2> SUFFICES ASSUME NEW p \in Parts
               PROVE  ReadBetween(p, current[p], Len(log), Len(log))'
    BY DEF ServerIsAtItsLog
  <2> DEFINE n == Len(log)
  <2>1. /\ SaidLast(DetailsSaid(p), n, current[p].details)
        /\ SaidLast(RevisionSaid(p), n, current[p].revision)
    BY <1>2 DEF ServerIsAtItsLog, ReadBetween
  <2>2. /\ SaidLast(DetailsSaid(p)', n, current[p].details)
        /\ SaidLast(RevisionSaid(p)', n, current[p].revision)
    BY <1>1, <1>2, <2>1, PublishedSays, SaidLastSame
  <2>3. /\ current'[p].details = IF c[p].details = 0 THEN current[p].details ELSE c[p].details
        /\ current'[p].revision = IF c[p].revision = 0 THEN current[p].revision ELSE c[p].revision
    BY <1>1 DEF Server!Publish, Server!Apply, Server!Moved
  <2>4. /\ DetailsSaid(p)'[n + 1] = c[p].details
        /\ RevisionSaid(p)'[n + 1] = c[p].revision
    BY <1>1, PublishedSays
  <2>5. SaidLast(DetailsSaid(p)', n + 1, current'[p].details)
    BY <1>2, <2>2, <2>3, <2>4, SaidNext
  <2>6. SaidLast(RevisionSaid(p)', n + 1, current'[p].revision)
    BY <1>2, <2>2, <2>3, <2>4, SaidNext
  <2> QED
    BY <1>2, <2>5, <2>6 DEF ReadBetween
<1>6. ReplicaIsExact'
  BY <1>1, <1>2, <1>3, <1>4, ReadStaysRead DEF ReplicaIsExact
<1>7. DraftIsFromLater'
  <2> SUFFICES ASSUME phase \in {"reading", "listing", "replaying"}
               PROVE  /\ draft.checkpoint <= Seen'
                      /\ \A p \in Parts \ (IF phase = "reading" THEN unread ELSE {}) :
                           ReadBetween(p, draft.parts[p], draft.checkpoint, Seen)'
    BY <1>3 DEF DraftIsFromLater
  <2>1. Seen \in 0..Len(log) /\ Seen' \in Nat /\ Seen <= Seen'
    BY <1>2, <1>3, <1>4 DEF Seen
  <2>2. draft.checkpoint <= Seen
    BY DEF DraftIsFromLater
  <2>3. ASSUME NEW p \in Parts \ (IF phase = "reading" THEN unread ELSE {})
        PROVE  ReadBetween(p, draft.parts[p], draft.checkpoint, Seen)'
    <3>1. ReadBetween(p, draft.parts[p], draft.checkpoint, Seen)
      BY <2>3 DEF DraftIsFromLater
    <3>2. PICK m \in draft.checkpoint..Seen : SaidLast(DetailsSaid(p), m, draft.parts[p].details)
      BY <3>1 DEF ReadBetween
    <3>3. PICK n \in draft.checkpoint..Seen : SaidLast(RevisionSaid(p), n, draft.parts[p].revision)
      BY <3>1 DEF ReadBetween
    <3>4. /\ m \in 0..Len(log) /\ n \in 0..Len(log)
          /\ m \in draft.checkpoint..Seen' /\ n \in draft.checkpoint..Seen'
      BY <1>2, <1>4, <2>1
    <3>5. SaidLast(DetailsSaid(p)', m, draft.parts[p].details)
      BY <1>1, <1>2, <3>2, <3>4, PublishedSays, SaidLastSame
    <3>6. SaidLast(RevisionSaid(p)', n, draft.parts[p].revision)
      BY <1>1, <1>2, <3>3, <3>4, PublishedSays, SaidLastSame
    <3> QED
      BY <1>3, <3>4, <3>5, <3>6 DEF ReadBetween
  <2> QED
    BY <1>4, <2>1, <2>2, <2>3
<1> QED
  BY <1>5, <1>6, <1>7

-----------------------------------------------------------------------------
(* The thread's steps.                                                     *)

\* What was read is the same while the log is.
LEMMA SaidUnchanged ==
  ASSUME log' = log
  PROVE  /\ Len(log') = Len(log)
         /\ \A p \in Parts : /\ DetailsSaid(p)' = DetailsSaid(p)
                             /\ RevisionSaid(p)' = RevisionSaid(p)
BY DEF DetailsSaid, RevisionSaid

\* Nothing but Publish moves the server.
LEMMA ServerUnchanged ==
  ASSUME ServerIsAtItsLog, UNCHANGED server
  PROVE  ServerIsAtItsLog'
BY SaidUnchanged DEF ServerIsAtItsLog, ReadBetween, server

LEMMA ReplicaUnchanged ==
  ASSUME ReplicaIsExact, UNCHANGED <<server, replica>>
  PROVE  ReplicaIsExact'
BY SaidUnchanged DEF ReplicaIsExact, ReadBetween, server

\* Nothing was said before the first Change.
LEMMA FreshSaysNothing ==
  /\ Fresh.checkpoint = 0
  /\ \A p \in Parts : Fresh.parts[p].details = 0 /\ Fresh.parts[p].revision = 0
  /\ \A said : SaidLast(said, 0, 0)
BY DEF Fresh, Server!Empty, Server!Nowhere, SaidLast

\* Replaying the next Change keeps each part as it was at some moment after
\* the copy's checkpoint.
LEMMA ReplayKeepsReadBetween ==
  ASSUME NEW said, NEW n \in Nat, NEW b \in Nat, n < b, NEW v,
         NEW m \in n..b, SaidLast(said, m, v)
  PROVE  \E k \in (n + 1)..b :
           SaidLast(said, k, IF said[n + 1] = 0 THEN v ELSE said[n + 1])
<1>1. CASE m = n
  <2>1. SaidLast(said, n + 1, IF said[n + 1] = 0 THEN v ELSE said[n + 1])
    BY <1>1, SaidNext
  <2> QED
    BY <2>1
<1>2. CASE m # n /\ said[n + 1] = 0
  BY <1>2
<1>3. CASE m # n /\ said[n + 1] # 0
  <2>1. SaidLast(said, n + 1, said[n + 1])
    <3>1. n + 1 \in 1..(n + 1) /\ \A j \in ((n + 1) + 1)..(n + 1) : said[j] = 0
      OBVIOUS
    <3> QED
      BY <1>3, <3>1 DEF SaidLast
  <2> QED
    BY <1>3, <2>1
<1> QED
  BY <1>1, <1>2, <1>3

LEMMA ApplyKeepsDraft ==
  ASSUME FollowerInv, ApplyNext
  PROVE  DraftIsFromLater'
<1> USE DEF FollowerInv
<1>1. /\ UNCHANGED <<log, phase, listed, unread>> /\ phase = "replaying"
      /\ draft.checkpoint \in Nat /\ listed \in 0..Len(log) /\ Len(log) \in Nat
      /\ draft.checkpoint < listed
      /\ draft' = [checkpoint |-> draft.checkpoint + 1,
                   parts |-> Applied(draft.parts, log[draft.checkpoint + 1])]
  BY DEF ApplyNext, server, TypeOK, Replica
<1> DEFINE n == draft.checkpoint
<1>2. ASSUME NEW p \in Parts
      PROVE  ReadBetween(p, draft.parts[p], draft.checkpoint, listed)'
  <2>1. ReadBetween(p, draft.parts[p], n, listed)
    BY <1>1 DEF DraftIsFromLater, Seen
  <2>2. /\ DetailsSaid(p)[n + 1] = log[n + 1][p].details
        /\ RevisionSaid(p)[n + 1] = log[n + 1][p].revision
    BY <1>1 DEF DetailsSaid, RevisionSaid
  <2>3. /\ draft'.parts[p].details =
             IF DetailsSaid(p)[n + 1] = 0 THEN draft.parts[p].details
             ELSE DetailsSaid(p)[n + 1]
        /\ draft'.parts[p].revision =
             IF RevisionSaid(p)[n + 1] = 0 THEN draft.parts[p].revision
             ELSE RevisionSaid(p)[n + 1]
    BY <1>1, <2>2 DEF Applied
  <2>4. \E k \in (n + 1)..listed : SaidLast(DetailsSaid(p), k, draft'.parts[p].details)
    <3>1. PICK m \in n..listed : SaidLast(DetailsSaid(p), m, draft.parts[p].details)
      BY <2>1 DEF ReadBetween
    <3>2. n \in Nat /\ listed \in Nat /\ n < listed
      BY <1>1
    <3> HIDE DEF n
    <3> QED
      BY <2>3, <3>1, <3>2, ReplayKeepsReadBetween
  <2>5. \E k \in (n + 1)..listed : SaidLast(RevisionSaid(p), k, draft'.parts[p].revision)
    <3>1. PICK m \in n..listed : SaidLast(RevisionSaid(p), m, draft.parts[p].revision)
      BY <2>1 DEF ReadBetween
    <3>2. n \in Nat /\ listed \in Nat /\ n < listed
      BY <1>1
    <3> HIDE DEF n
    <3> QED
      BY <2>3, <3>1, <3>2, ReplayKeepsReadBetween
  <2> QED
    BY <1>1, <2>4, <2>5, SaidUnchanged DEF ReadBetween
<1> QED
  BY <1>1, <1>2 DEF DraftIsFromLater, Seen

\* The replica as it is makes a copy to work on.
LEMMA ReplicaMakesDraft ==
  ASSUME FollowerInv, NEW b \in Nat, replica.checkpoint <= b, NEW p \in Parts
  PROVE  ReadBetween(p, replica.parts[p], replica.checkpoint, b)
<1>1. replica.checkpoint \in Nat
  BY DEF FollowerInv, TypeOK, Replica
<1> QED
  BY <1>1 DEF FollowerInv, ReplicaIsExact, ReadBetween

LEMMA StepKeepsDraft ==
  ASSUME FollowerInv, UNCHANGED server, [Next]_vars
  PROVE  DraftIsFromLater'
<1> USE DEF FollowerInv, server
<1>1. /\ log' = log /\ current' = current /\ Len(log) \in Nat
      /\ replica.checkpoint \in Nat /\ draft.checkpoint \in Nat /\ listed \in 0..Len(log)
  BY DEF TypeOK, Replica
<1>2. CASE Publish
  BY <1>1, <1>2, PublishedSays DEF Publish
<1>3. CASE UNCHANGED thread
  BY <1>1, <1>3, SaidUnchanged DEF thread, DraftIsFromLater, Seen, ReadBetween
<1>4. CASE Connect \/ Install \/ SignIn \/ \E next \in {"waiting", "signedOut"} : Broken(next)
  BY <1>4 DEF Connect, Install, SignIn, Broken, DraftIsFromLater
<1>5. CASE Subscribe
  <2>1. CASE phase' = "starting"
    BY <2>1 DEF DraftIsFromLater
  <2>2. CASE phase' = "listing"
    BY <1>1, <1>5, <2>2, SaidUnchanged, ReplicaMakesDraft
    DEF Subscribe, DraftIsFromLater, Seen, ReplicaIsExact, ReadBetween
  <2> QED
    BY <1>5, <2>1, <2>2 DEF Subscribe
<1>6. CASE NoteLatest
  BY <1>1, <1>6 DEF NoteLatest, DraftIsFromLater, Seen
<1>7. CASE ReadPage
  <2>1. PICK page \in SUBSET unread :
          /\ draft' = [draft EXCEPT !.parts =
                         [p \in Parts |-> IF p \in page THEN current[p] ELSE draft.parts[p]]]
          /\ unread' = unread \ page
          /\ phase = "reading"
          /\ phase' = IF unread' = {} THEN "listing" ELSE "reading"
    BY <1>7 DEF ReadPage
  <2>2. /\ draft'.checkpoint = draft.checkpoint
        /\ \A p \in Parts : draft'.parts[p] = IF p \in page THEN current[p] ELSE draft.parts[p]
    BY <2>1 DEF TypeOK, Replica
  <2>3. draft.checkpoint <= Len(log)
    BY <2>1 DEF DraftIsFromLater, Seen
  <2>4. ASSUME NEW p \in Parts \ unread'
        PROVE  ReadBetween(p, draft.parts[p], draft.checkpoint, Len(log))'
    <3>1. CASE p \in page
      <4>1. /\ SaidLast(DetailsSaid(p), Len(log), current[p].details)
            /\ SaidLast(RevisionSaid(p), Len(log), current[p].revision)
        BY <1>1 DEF ServerIsAtItsLog, ReadBetween
      <4> QED
        BY <1>1, <2>2, <2>3, <3>1, <4>1, SaidUnchanged DEF ReadBetween
    <3>2. CASE p \notin page
      <4>1. ReadBetween(p, draft.parts[p], draft.checkpoint, Len(log))
        BY <2>1, <2>4, <3>2 DEF DraftIsFromLater, Seen
      <4> QED
        BY <1>1, <2>2, <3>2, <4>1, SaidUnchanged DEF ReadBetween
    <3> QED
      BY <3>1, <3>2
  <2> QED
    BY <1>1, <2>1, <2>2, <2>3, <2>4 DEF DraftIsFromLater, Seen
<1>8. CASE ListChanges
  BY <1>1, <1>8, SaidUnchanged DEF ListChanges, DraftIsFromLater, Seen, ReadBetween
<1>9. CASE ApplyNext
  BY <1>9, ApplyKeepsDraft
<1>10. CASE \E n \in 1..MaxChanges : Receive(n)
  <2>1. PICK n \in 1..MaxChanges : Receive(n)
    BY <1>10
  <2>2. n \in 1..Len(log)
    BY <2>1 DEF Receive, TypeOK
  <2>3. CASE phase' = "live"
    BY <2>3 DEF DraftIsFromLater
  <2>4. CASE phase' = "replaying"
    <3>1. n = replica.checkpoint + 1 /\ listed' = n /\ draft' = replica
      BY <2>1, <2>4 DEF Receive
    <3>2. n \in Nat /\ replica.checkpoint <= n
      BY <1>1, <2>2, <3>1
    <3>3. \A p \in Parts : ReadBetween(p, replica.parts[p], replica.checkpoint, n)
      BY <3>2, ReplicaMakesDraft
    <3> QED
      BY <1>1, <2>4, <3>1, <3>2, <3>3, SaidUnchanged DEF DraftIsFromLater, Seen, ReadBetween
  <2>5. CASE phase' = "listing"
    BY <1>1, <2>1, <2>5, SaidUnchanged, ReplicaMakesDraft
    DEF Receive, DraftIsFromLater, Seen, ReplicaIsExact, ReadBetween
  <2> QED
    BY <2>1, <2>3, <2>4, <2>5 DEF Receive
<1>11. CASE \E n \in 1..MaxChanges : Lose(n)
  BY <1>3, <1>11 DEF Lose
<1>12. CASE UNCHANGED vars
  BY <1>3, <1>12 DEF vars
<1>13. CASE Fail \/ StreamCloses \/ FallsSilent \/ Rejected
  BY <1>4, <1>13 DEF Fail, StreamCloses, FallsSilent, Rejected
<1> QED
  BY <1>2, <1>4, <1>5, <1>6, <1>7, <1>8, <1>9, <1>10, <1>11, <1>12, <1>13 DEF Next

\* Only a finished copy takes the replica's place, or a new session starts.
LEMMA StepKeepsReplica ==
  ASSUME FollowerInv, TypeOK', UNCHANGED server, [Next]_vars
  PROVE  ReplicaIsExact'
<1> USE DEF FollowerInv
<1>1. CASE Install
  <2>1. /\ UNCHANGED log /\ replica' = draft /\ phase = "replaying"
        /\ draft.checkpoint >= listed
    BY <1>1 DEF Install, server
  <2>2. draft.checkpoint \in Nat /\ listed \in 0..Len(log) /\ Len(log) \in Nat
    BY DEF TypeOK, Replica
  <2>3. /\ draft.checkpoint = listed
        /\ \A p \in Parts : ReadBetween(p, draft.parts[p], draft.checkpoint, draft.checkpoint)
    BY <2>1, <2>2 DEF DraftIsFromLater, Seen
  <2> QED
    BY <2>1, <2>2, <2>3, SaidUnchanged DEF ReplicaIsExact, ReadBetween
<1>2. CASE SignIn
  <2>1. replica' = Fresh /\ Len(log') \in Nat /\ 0 \in 0..0
    BY <1>2 DEF SignIn, TypeOK
  <2> QED
    BY <2>1, FreshSaysNothing DEF ReplicaIsExact, ReadBetween
<1>3. CASE UNCHANGED replica
  BY <1>3, ReplicaUnchanged
<1>4. CASE Fail \/ StreamCloses \/ FallsSilent \/ Rejected
  BY <1>3, <1>4 DEF Fail, StreamCloses, FallsSilent, Rejected, Broken
<1> QED
  BY <1>1, <1>2, <1>3, <1>4
  DEF Next, Publish, Lose, Connect, Subscribe, NoteLatest, ReadPage, ListChanges, ApplyNext,
      Receive, vars, shown

-----------------------------------------------------------------------------
(* The theorems.                                                           *)

LEMMA InitInv == Init => FollowerInv
<1> SUFFICES ASSUME Init PROVE FollowerInv
  OBVIOUS
<1>1. TypeOK
  BY TypeInit
<1>2. /\ Len(log) = 0 /\ current = Server!Empty /\ replica = Fresh /\ phase = "waiting"
  BY DEF Init, Server!Init
<1>3. \A p \in Parts : current[p].details = 0 /\ current[p].revision = 0
  BY <1>2 DEF Server!Empty, Server!Nowhere
<1>4. 0 \in 0..0
  OBVIOUS
<1>5. ServerIsAtItsLog
  BY <1>2, <1>3, <1>4, FreshSaysNothing DEF ServerIsAtItsLog, ReadBetween
<1>6. ReplicaIsExact
  BY <1>2, <1>4, FreshSaysNothing DEF ReplicaIsExact, ReadBetween
<1>7. DraftIsFromLater
  BY <1>2 DEF DraftIsFromLater
<1> QED
  BY <1>1, <1>5, <1>6, <1>7 DEF FollowerInv

LEMMA NextInv == FollowerInv /\ [Next]_vars => FollowerInv'
<1> SUFFICES ASSUME FollowerInv, [Next]_vars PROVE FollowerInv'
  OBVIOUS
<1>1. TypeOK'
  BY TypeNext DEF FollowerInv
<1>2. CASE Publish
  BY <1>1, <1>2, PublishKeepsInv DEF FollowerInv
<1>3. CASE UNCHANGED server
  BY <1>1, <1>3, ServerUnchanged, StepKeepsReplica, StepKeepsDraft DEF FollowerInv
<1>4. Publish \/ UNCHANGED server
  BY DEF Next, Lose, Connect, Subscribe, NoteLatest, ReadPage, ListChanges, ApplyNext, Install,
         Receive, Fail, StreamCloses, FallsSilent, Rejected, SignIn, Broken, vars
<1> QED
  BY <1>2, <1>3, <1>4

\* Every variable of the desktop and the server keeps its type, and a desktop
\* never knows of a Change the server does not have.
THEOREM TypesAreKept == Spec => []TypeOK
<1> QED
  BY TypeInit, TypeNext, PTL DEF Spec

\* Whatever the pages of the first read saw, and whatever is lost, reordered or
\* broken, the parts shown are what the Changes up to the checkpoint say.
THEOREM ReplicaAlwaysAtItsCheckpoint == Spec => []ReplicaIsAtItsCheckpoint
<1>1. FollowerInv => ReplicaIsAtItsCheckpoint
  <2> SUFFICES ASSUME FollowerInv PROVE ReplicaIsAtItsCheckpoint
    OBVIOUS
  <2>1. replica.checkpoint \in Nat
    BY DEF FollowerInv, TypeOK, Replica
  <2>2. \A n \in Nat, m \in Nat : m \in n..n => m = n
    OBVIOUS
  <2> QED
    BY <2>1, <2>2 DEF FollowerInv, ReplicaIsExact, ReadBetween, ReplicaIsAtItsCheckpoint
<1> QED
  BY <1>1, InitInv, NextInv, PTL DEF Spec

\* While a list is replayed, a notification is on its way or lost for every
\* Change after the end of the list.
NothingMissedAfterTheList ==
  phase = "replaying" => \A n \in (listed + 1)..Len(log) : n \in inFlight \cup lost

MissedInv == FollowerInv /\ NothingMissedWhileLive /\ NothingMissedAfterTheList

LEMMA NextMissed ==
  ASSUME MissedInv, [Next]_vars
  PROVE  NothingMissedWhileLive' /\ NothingMissedAfterTheList'
<1> USE DEF MissedInv, NothingMissedWhileLive, NothingMissedAfterTheList
<1>1. /\ Len(log) \in Nat /\ listed \in 0..Len(log)
      /\ replica.checkpoint \in Nat /\ replica.checkpoint <= Len(log)
      /\ draft.checkpoint \in Nat
  BY DEF FollowerInv, TypeOK, Replica, ReplicaIsExact
<1>2. CASE Publish
  <2>1. Len(log') = Len(log) + 1 /\ UNCHANGED <<phase, listed, replica, lost>>
    BY <1>2, PublishedSays DEF Publish, FollowerInv, shown, thread
  <2>2. /\ inFlight \subseteq inFlight'
        /\ phase \in {"live", "replaying"} => Len(log) + 1 \in inFlight'
    BY <1>2 DEF Publish, Listening
  <2> QED
    BY <1>1, <2>1, <2>2
<1>3. CASE Install
  <2>1. /\ UNCHANGED <<log, inFlight, lost>> /\ replica' = draft /\ phase' = "live"
        /\ phase = "replaying" /\ draft.checkpoint >= listed
    BY <1>3 DEF Install, server, stream
  <2> QED
    BY <1>1, <2>1
<1>4. CASE ListChanges
  BY <1>1, <1>4 DEF ListChanges, server, stream
<1>5. CASE \E n \in 1..MaxChanges : Receive(n)
  <2>1. PICK n \in 1..MaxChanges : Receive(n)
    BY <1>5
  <2>2. UNCHANGED <<log, lost, replica>> /\ inFlight' = inFlight \ {n} /\ phase = "live"
    BY <2>1 DEF Receive, server
  <2>3. n \in Nat
    BY <2>1 DEF Receive, FollowerInv, TypeOK
  <2>4. CASE n <= replica.checkpoint
    BY <1>1, <2>1, <2>2, <2>3, <2>4 DEF Receive
  <2>5. CASE n = replica.checkpoint + 1
    <3>1. phase' = "replaying" /\ listed' = n
      BY <1>1, <2>1, <2>5 DEF Receive
    <3> QED
      BY <1>1, <2>2, <2>5, <3>1
  <2>6. CASE n > replica.checkpoint + 1
    BY <1>1, <2>1, <2>3, <2>6 DEF Receive
  <2> QED
    BY <1>1, <2>3, <2>4, <2>5, <2>6
<1>6. CASE \E n \in 1..MaxChanges : Lose(n)
  BY <1>6 DEF Lose, server, shown, thread
<1>7. CASE Fail \/ StreamCloses \/ FallsSilent \/ Rejected
  BY <1>7 DEF Fail, StreamCloses, FallsSilent, Rejected, Broken
<1>8. CASE ApplyNext
  BY <1>8 DEF ApplyNext, server, stream, shown
<1>9. CASE Connect \/ Subscribe \/ NoteLatest \/ ReadPage \/ SignIn
  BY <1>9 DEF Connect, Subscribe, NoteLatest, ReadPage, SignIn
<1>10. CASE UNCHANGED vars
  BY <1>10 DEF vars, server, stream, shown, thread
<1> QED
  BY <1>2, <1>3, <1>4, <1>5, <1>6, <1>7, <1>8, <1>9, <1>10 DEF Next

\* Subscribing before catching up means that no Change is ever missed without
\* its notification being on its way, or lost by the stream.
THEOREM NoChangeMissedWhileLive == Spec => []NothingMissedWhileLive
<1>1. Init => MissedInv
  BY InitInv DEF Init, MissedInv, NothingMissedWhileLive, NothingMissedAfterTheList
<1>2. MissedInv /\ [Next]_vars => MissedInv'
  BY NextInv, NextMissed DEF MissedInv
<1>3. MissedInv => NothingMissedWhileLive
  BY DEF MissedInv
<1> QED
  BY <1>1, <1>2, <1>3, PTL DEF Spec

-----------------------------------------------------------------------------
(* The replica never goes back.                                            *)

\* The copy that will take the replica's place starts from it, or from the
\* server when the replica has applied nothing.
DraftIsNoOlder ==
  /\ phase \in {"starting", "reading"} => replica.checkpoint = 0
  /\ phase \in {"listing", "replaying"} => replica.checkpoint <= draft.checkpoint

OnwardInv == TypeOK /\ DraftIsNoOlder

LEMMA NextOnward == OnwardInv /\ [Next]_vars => DraftIsNoOlder'
<1> SUFFICES ASSUME OnwardInv, [Next]_vars PROVE DraftIsNoOlder'
  OBVIOUS
<1> USE DEF OnwardInv, DraftIsNoOlder
<1>1. replica.checkpoint \in Nat /\ draft.checkpoint \in Nat /\ Len(log) \in Nat
  BY DEF TypeOK, Replica
<1>2. CASE Publish \/ (\E n \in 1..MaxChanges : Lose(n)) \/ UNCHANGED vars
  BY <1>2 DEF Publish, Lose, vars, shown, thread
<1>3. CASE Connect \/ Subscribe \/ NoteLatest \/ ListChanges \/ Install \/ SignIn
  BY <1>1, <1>3 DEF Connect, Subscribe, NoteLatest, ListChanges, Install, SignIn, shown
<1>4. CASE ReadPage
  <2>1. draft'.checkpoint = draft.checkpoint
    BY <1>4 DEF ReadPage, TypeOK, Replica
  <2> QED
    BY <1>1, <1>4, <2>1 DEF ReadPage, shown
<1>5. CASE ApplyNext
  <2>1. draft'.checkpoint = draft.checkpoint + 1
    BY <1>5 DEF ApplyNext
  <2> QED
    BY <1>1, <1>5, <2>1 DEF ApplyNext, shown
<1>6. CASE \E n \in 1..MaxChanges : Receive(n)
  BY <1>1, <1>6 DEF Receive
<1>7. CASE Fail \/ StreamCloses \/ FallsSilent \/ Rejected
  BY <1>7 DEF Fail, StreamCloses, FallsSilent, Rejected, Broken
<1> QED
  BY <1>2, <1>3, <1>4, <1>5, <1>6, <1>7 DEF Next

\* Until the person signs in anew, which starts from nothing, the parts shown
\* never go back to an earlier state of the Catalog, however often the stream
\* breaks while a copy is being read or replayed (session.rs, catch_up).
THEOREM ReplicaNeverGoesBack ==
  Spec => [][replica'.checkpoint >= replica.checkpoint \/ SignIn]_vars
<1>1. Init => OnwardInv
  BY TypeInit DEF Init, OnwardInv, DraftIsNoOlder
<1>2. OnwardInv /\ [Next]_vars => OnwardInv'
  BY TypeNext, NextOnward DEF OnwardInv
<1>3. OnwardInv /\ [Next]_vars => [replica'.checkpoint >= replica.checkpoint \/ SignIn]_vars
  <2> SUFFICES ASSUME OnwardInv, Next
               PROVE  replica'.checkpoint >= replica.checkpoint \/ SignIn
    OBVIOUS
  <2>1. replica.checkpoint \in Nat /\ draft.checkpoint \in Nat
    BY DEF OnwardInv, TypeOK, Replica
  <2>2. CASE Install
    BY <2>1, <2>2 DEF Install, OnwardInv, DraftIsNoOlder
  <2>3. replica' = replica \/ Install \/ SignIn
    BY DEF Next, Publish, Lose, Connect, Subscribe, NoteLatest, ReadPage, ListChanges, ApplyNext,
           Receive, Fail, StreamCloses, FallsSilent, Rejected, Broken, shown
  <2> QED
    BY <2>1, <2>2, <2>3
<1> QED
  BY <1>1, <1>2, <1>3, PTL DEF Spec

-----------------------------------------------------------------------------
(* When in_step_at tells the truth.                                        *)

\* A Change the desktop was notified of is in its replica, or the thread of a
\* live connection is applying it.
HeardIsApplied ==
  \/ heard <= replica.checkpoint
  \/ wentLive /\ updates = "Live" /\ phase = "listing"
  \/ wentLive /\ updates = "Live" /\ phase = "replaying" /\ heard <= listed

HeardInv == TypeOK /\ HeardIsApplied /\ (phase = "live" => updates = "Live" /\ wentLive)

\* A live connection ends while a Change it was notified of is being applied.
BreaksWhileApplying == wentLive /\ phase # "live" /\ ~wentLive'

LEMMA NextHeard ==
  HeardInv /\ [Next]_vars /\ [~BreaksWhileApplying]_vars /\ OnwardInv => HeardInv'
<1> SUFFICES ASSUME HeardInv, [Next]_vars, [~BreaksWhileApplying]_vars, OnwardInv PROVE HeardInv'
  OBVIOUS
<1>1. TypeOK'
  BY TypeNext DEF HeardInv
<1> USE DEF HeardInv, HeardIsApplied
<1>2. /\ replica.checkpoint \in Nat /\ draft.checkpoint \in Nat /\ Len(log) \in Nat
      /\ heard \in Nat /\ listed \in Nat /\ heard <= Len(log)
  BY DEF TypeOK, Replica
<1>3. CASE Publish \/ (\E n \in 1..MaxChanges : Lose(n)) \/ UNCHANGED vars
  BY <1>1, <1>3 DEF Publish, Lose, vars, shown, thread
<1>4. CASE Connect \/ Subscribe \/ NoteLatest \/ ReadPage
  BY <1>1, <1>4 DEF Connect, Subscribe, NoteLatest, ReadPage, shown
<1>5. CASE ListChanges
  BY <1>1, <1>2, <1>5 DEF ListChanges, shown
<1>6. CASE ApplyNext
  BY <1>1, <1>6 DEF ApplyNext, shown
<1>7. CASE Install
  <2>1. heard <= draft.checkpoint
    BY <1>2, <1>7 DEF Install, OnwardInv, DraftIsNoOlder
  <2> QED
    BY <1>1, <1>7, <2>1 DEF Install
<1>8. CASE SignIn
  BY <1>1, <1>8 DEF SignIn, Fresh
<1>9. CASE \E n \in 1..MaxChanges : Receive(n)
  <2>1. PICK n \in 1..MaxChanges : Receive(n)
    BY <1>9
  <2>2. /\ phase = "live" /\ updates' = "Live" /\ wentLive' /\ replica' = replica
        /\ n \in Nat /\ n <= Len(log)
    BY <2>1 DEF Receive, TypeOK
  <2>3. heard <= replica.checkpoint /\ heard' = (IF n > heard THEN n ELSE heard)
    BY <2>1, <2>2 DEF Receive
  <2>4. CASE n <= replica.checkpoint
    BY <1>1, <1>2, <2>2, <2>3, <2>4
  <2>5. CASE n = replica.checkpoint + 1
    <3>1. phase' = "replaying" /\ listed' = n /\ heard' = n
      BY <1>2, <2>1, <2>2, <2>3, <2>5 DEF Receive
    <3> QED
      BY <1>1, <2>2, <3>1
  <2>6. CASE n > replica.checkpoint + 1
    <3>1. phase' = "listing"
      BY <1>2, <2>1, <2>2, <2>6 DEF Receive
    <3> QED
      BY <1>1, <2>2, <3>1
  <2> QED
    BY <1>2, <2>2, <2>4, <2>5, <2>6
<1>10. CASE Fail \/ StreamCloses \/ FallsSilent \/ Rejected
  <2>1. /\ phase' \in {"waiting", "signedOut"} /\ ~wentLive' /\ wentLive' = FALSE
        /\ UNCHANGED <<replica, heard>>
    BY <1>10 DEF Fail, StreamCloses, FallsSilent, Rejected, Broken
  <2>2. heard <= replica.checkpoint
    <3>1. CASE wentLive /\ phase # "live"
      <4>1. vars' # vars
        BY <2>1, <3>1 DEF vars, thread
      <4> QED
        BY <2>1, <3>1, <4>1 DEF BreaksWhileApplying
    <3>2. CASE ~(wentLive /\ phase # "live")
      BY <3>2
    <3> QED
      BY <3>1, <3>2
  <2> QED
    BY <1>1, <2>1, <2>2
<1> QED
  BY <1>3, <1>4, <1>5, <1>6, <1>7, <1>8, <1>9, <1>10 DEF Next

\* The time shown while reconnecting is true unless a live connection ended
\* while a Change it had been notified of was being applied: only then does
\* in_step_now() (session.rs) claim a Change the replica never had.
THEOREM InStepUnlessItBreaksWhileApplying ==
  Spec /\ [][~BreaksWhileApplying]_vars => []InStepWhenItSaysSo
<1>1. Init => OnwardInv /\ HeardInv
  BY TypeInit DEF Init, OnwardInv, DraftIsNoOlder, HeardInv, HeardIsApplied, Fresh
<1>2. OnwardInv /\ [Next]_vars => OnwardInv'
  BY TypeNext, NextOnward DEF OnwardInv
<1>3. HeardInv => InStepWhenItSaysSo
  BY DEF HeardInv, HeardIsApplied, InStepWhenItSaysSo
<1> QED
  BY <1>1, <1>2, <1>3, NextHeard, PTL DEF Spec
=============================================================================
