------------------------ MODULE PreviewQueue_proofs ------------------------
(***************************************************************************)
(* Proofs about PreviewQueue, for any requests, entries, selections and    *)
(* limit: the types, that no more turns are held than the limit, that an   *)
(* entry is never exported twice, that only a request for an older         *)
(* selection is ever replaced, and that no wake-up of a sleeping exporter  *)
(* is lost but in one case, so that the threads never all wait.            *)
(*                                                                         *)
(* The argument is about which export is listed: an exporter is listed for *)
(* its entry from joining until it ends, so there is one per entry, and    *)
(* nobody joins an export that is no longer listed.                        *)
(***************************************************************************)
EXTENDS PreviewQueue, FiniteSetTheorems, TLAPS

\* A request that runs an export is listed for its entry until it ends.
Running(r) == pc[r] \in (Exporting \ {"telling"}) \/ (pc[r] = "noting" /\ joined[r] = r)

ListedRuns ==
  /\ \A r \in Requests : Running(r) => exports[EntryOf[r]] = r
  /\ \A e \in Entries : exports[e] # NoOne =>
       EntryOf[exports[e]] = e /\ Running(exports[e])
  /\ \A r \in Requests : pc[r] \in Exporting => joined[r] = r
  /\ \A r \in Requests : pc[r] \in {"new", "hit", "joining"} => joined[r] = NoOne
  /\ \A r \in Requests : joined[r] # NoOne => joined[joined[r]] = joined[r]

\* An export knows of the newest selection that joined it.
KnowsWhoWants ==
  \A r \in Requests : joined[r] # NoOne => Selection[r] <= wantedBy[joined[r]]

\* It is given up only when that is older than the newest selection.
GivenUpWhenOutdated ==
  \A r \in Requests :
    /\ outcome[r] # "none" => outcome[r] = result[r] /\ pc[r] = "done"
    /\ result[r] = "replaced" => wantedBy[r] < newest /\ pc[r] \in {"telling", "done"}

\* It goes on only while the cache does not have its entry.
NotYetCached ==
  \A r \in Requests :
    pc[r] \in {"preparing", "turning", "deciding", "asleep", "running", "returning", "storing"}
      => EntryOf[r] \notin cached

Holders == {r \in Requests : HoldsTurn(r)}
TurnsCounted == IsFiniteSet(Holders) /\ running = Cardinality(Holders) /\ running <= MaxRunning

QueueInv ==
  /\ TypeOK /\ TurnsCounted /\ ListedRuns
  /\ KnowsWhoWants /\ GivenUpWhenOutdated /\ NotYetCached

-----------------------------------------------------------------------------
(* Turns: who holds one.                                                   *)

\* A request that moves on without taking or giving back a turn, whether it
\* wakes sleepers or not, leaves the holders of turns as they are.
LEMMA HoldersKept ==
  ASSUME TypeOK, NEW r \in Requests, NEW place,
         Goes(r, place) \/ NotifyAll(r, place),
         HoldsTurn(r) <=> place \in {"running", "returning"}
  PROVE  Holders' = Holders
PROOF
  BY DEF TypeOK, Goes, NotifyAll, Holders, HoldsTurn

\* One that takes a turn is added to them.
LEMMA HolderAdded ==
  ASSUME TypeOK, NEW r \in Requests, Goes(r, "running")
  PROVE  Holders' = Holders \cup {r}
PROOF
  BY DEF TypeOK, Goes, Holders, HoldsTurn

\* One that gives its turn back is removed.
LEMMA HolderRemoved ==
  ASSUME TypeOK, NEW r \in Requests, NEW place, place \notin {"running", "returning"},
         NotifyAll(r, place)
  PROVE  Holders' = Holders \ {r}
PROOF
  BY DEF TypeOK, NotifyAll, Holders, HoldsTurn

\* The count of turns stays right and below the limit.
LEMMA TurnsStep == TypeOK /\ TurnsCounted /\ [Next]_vars => TurnsCounted'
PROOF
<1> SUFFICES ASSUME TypeOK, TurnsCounted, [Next]_vars PROVE TurnsCounted'
  OBVIOUS
<1> USE DEF At, queue, shared, local
<1>0. ASSUME Holders' = Holders, running' = running PROVE TurnsCounted'
  BY <1>0 DEF TurnsCounted
<1>1. CASE UNCHANGED vars
  <2>1. Holders' = Holders /\ running' = running
    BY <1>1 DEF vars, Holders, HoldsTurn
  <2>2. QED
    BY <1>0, <2>1
<1>2. ASSUME NEW r \in Requests, Ask(r) PROVE TurnsCounted'
  BY <1>0, <1>2, HoldersKept DEF Ask, HoldsTurn
<1>3. ASSUME NEW r \in Requests, Join(r) PROVE TurnsCounted'
  BY <1>0, <1>3, HoldersKept DEF Join, HoldsTurn
<1>4. ASSUME NEW r \in Requests, NoteSelection(r) PROVE TurnsCounted'
  <2> DEFINE place == IF At(r, "hit") THEN "done"
                      ELSE IF joined[r] = r THEN "checking" ELSE "waiting"
  <2>1. (Goes(r, place) \/ NotifyAll(r, place)) /\ running' = running
    BY <1>4 DEF NoteSelection
  <2>2. ~HoldsTurn(r) /\ place \notin {"running", "returning"}
    BY <1>4 DEF NoteSelection, HoldsTurn
  <2> HIDE DEF place
  <2>3. Holders' = Holders
    BY <2>1, <2>2, HoldersKept
  <2>4. QED
    BY <1>0, <2>1, <2>3
<1>5. ASSUME NEW r \in Requests, Wait(r) PROVE TurnsCounted'
  BY <1>0, <1>5, HoldersKept DEF Wait, HoldsTurn
<1>6. ASSUME NEW r \in Requests, CheckAgain(r) PROVE TurnsCounted'
  BY <1>0, <1>6, HoldersKept DEF CheckAgain, HoldsTurn
<1>7. ASSUME NEW r \in Requests, Prepare(r) PROVE TurnsCounted'
  BY <1>0, <1>7, HoldersKept DEF Prepare, HoldsTurn
<1>8. ASSUME NEW r \in Requests, WaitForTurn(r) PROVE TurnsCounted'
  <2>1. CASE Goes(r, "running") /\ running' = running + 1 /\ TurnFree
    <3>1. Holders' = Holders \cup {r} /\ r \notin Holders
      BY <1>8, <2>1, HolderAdded DEF WaitForTurn, Holders, HoldsTurn
    <3>2. IsFiniteSet(Holders') /\ Cardinality(Holders') = Cardinality(Holders) + 1
      BY <3>1, FS_AddElement DEF TurnsCounted
    <3>3. running' <= MaxRunning
      BY <2>1, PreviewQueueAssumption DEF TurnFree, TypeOK
    <3>4. QED
      BY <2>1, <3>2, <3>3 DEF TurnsCounted
  <2>2. CASE (Goes(r, "deciding") \/ Goes(r, "asleep")) /\ running' = running
    BY <1>0, <1>8, <2>2, HoldersKept DEF WaitForTurn, HoldsTurn
  <2>3. QED
    BY <1>8, <2>1, <2>2 DEF WaitForTurn
<1>9. ASSUME NEW r \in Requests, Decide(r) PROVE TurnsCounted'
  BY <1>0, <1>9, HoldersKept DEF Decide, HoldsTurn
<1>10. ASSUME NEW r \in Requests, Run(r) PROVE TurnsCounted'
  BY <1>0, <1>10, HoldersKept DEF Run, HoldsTurn
<1>11. ASSUME NEW r \in Requests, ReturnTurn(r) PROVE TurnsCounted'
  <2>1. r \in Holders /\ running' = running - 1
    BY <1>11 DEF ReturnTurn, Holders, HoldsTurn
  <2>2. Holders' = Holders \ {r}
    BY <1>11, HolderRemoved DEF ReturnTurn, AfterRun
  <2>3. IsFiniteSet(Holders') /\ Cardinality(Holders') = Cardinality(Holders) - 1
    BY <2>1, <2>2, FS_RemoveElement DEF TurnsCounted
  <2>4. QED
    BY <2>1, <2>3, PreviewQueueAssumption DEF TurnsCounted, TypeOK
<1>12. ASSUME NEW r \in Requests, Store(r) PROVE TurnsCounted'
  BY <1>0, <1>12, HoldersKept DEF Store, HoldsTurn
<1>13. ASSUME NEW r \in Requests, Finish(r) PROVE TurnsCounted'
  BY <1>0, <1>13, HoldersKept DEF Finish, HoldsTurn
<1>14. ASSUME NEW r \in Requests, Tell(r) PROVE TurnsCounted'
  BY <1>0, <1>14, HoldersKept DEF Tell, HoldsTurn
<1>15. ASSUME NEW r \in Requests, WakeForNoReason(r) PROVE TurnsCounted'
  BY <1>0, <1>15, HoldersKept DEF WakeForNoReason, HoldsTurn
<1>16. QED
  BY <1>1, <1>2, <1>3, <1>4, <1>5, <1>6, <1>7, <1>8, <1>9, <1>10, <1>11, <1>12, <1>13,
     <1>14, <1>15 DEF Next, Step

-----------------------------------------------------------------------------
\* Every variable keeps its type.
LEMMA TypeStep == TypeOK /\ TurnsCounted /\ [Next]_vars => TypeOK'
PROOF
<1> SUFFICES ASSUME TypeOK, TurnsCounted, [Next]_vars PROVE TypeOK'
  OBVIOUS
<1> USE PreviewQueueAssumption DEF TypeOK, Exporting, Outcome, At, Goes, queue, shared, local
<1>1. CASE UNCHANGED vars
  BY <1>1 DEF vars
<1>2. ASSUME NEW r \in Requests, Ask(r) PROVE TypeOK'
  BY <1>2 DEF Ask
<1>3. ASSUME NEW r \in Requests, Join(r) PROVE TypeOK'
  BY <1>3 DEF Join
<1>4. ASSUME NEW r \in Requests, NoteSelection(r) PROVE TypeOK'
  BY <1>4 DEF NoteSelection, NotifyAll
<1>5. ASSUME NEW r \in Requests, Wait(r) PROVE TypeOK'
  BY <1>5 DEF Wait
<1>6. ASSUME NEW r \in Requests, CheckAgain(r) PROVE TypeOK'
  BY <1>6 DEF CheckAgain
<1>7. ASSUME NEW r \in Requests, Prepare(r) PROVE TypeOK'
  BY <1>7 DEF Prepare
<1>8. ASSUME NEW r \in Requests, WaitForTurn(r) PROVE TypeOK'
  BY <1>8 DEF WaitForTurn
<1>9. ASSUME NEW r \in Requests, Decide(r) PROVE TypeOK'
  BY <1>9 DEF Decide, Unlisted
<1>10. ASSUME NEW r \in Requests, Run(r) PROVE TypeOK'
  BY <1>10 DEF Run
<1>11. ASSUME NEW r \in Requests, ReturnTurn(r) PROVE TypeOK'
  <2>1. running' \in Nat
    <3>1. r \in Holders /\ running' = running - 1
      BY <1>11 DEF ReturnTurn, Holders, HoldsTurn
    <3>2. Holders # {} /\ IsFiniteSet(Holders) /\ running = Cardinality(Holders)
      BY <3>1 DEF TurnsCounted
    <3>3. running # 0
      BY <3>2, FS_EmptySet
    <3>4. QED
      BY <3>1, <3>3
  <2>2. QED
    BY <1>11, <2>1 DEF ReturnTurn, NotifyAll, AfterRun
<1>12. ASSUME NEW r \in Requests, Store(r) PROVE TypeOK'
  BY <1>12 DEF Store
<1>13. ASSUME NEW r \in Requests, Finish(r) PROVE TypeOK'
  BY <1>13 DEF Finish, Unlisted
<1>14. ASSUME NEW r \in Requests, Tell(r) PROVE TypeOK'
  BY <1>14 DEF Tell
<1>15. ASSUME NEW r \in Requests, WakeForNoReason(r) PROVE TypeOK'
  BY <1>15 DEF WakeForNoReason
<1>16. QED
  BY <1>1, <1>2, <1>3, <1>4, <1>5, <1>6, <1>7, <1>8, <1>9, <1>10, <1>11, <1>12, <1>13,
     <1>14, <1>15 DEF Next, Step

-----------------------------------------------------------------------------
(* Exports: which are listed, wanted, given up.                            *)

\* An exporter is listed for its entry exactly until it ends.
LEMMA ListedStep == TypeOK /\ ListedRuns /\ [Next]_vars => ListedRuns'
PROOF
<1> SUFFICES ASSUME TypeOK, ListedRuns, [Next]_vars PROVE ListedRuns'
  OBVIOUS
<1> USE PreviewQueueAssumption DEF TypeOK, At, Goes, queue, shared, local, Exporting,
    ListedRuns, Running
<1>1. CASE UNCHANGED vars
  BY <1>1 DEF vars
<1>2. ASSUME NEW r \in Requests, Ask(r) PROVE ListedRuns'
  BY <1>2 DEF Ask
<1>3. ASSUME NEW r \in Requests, Join(r) PROVE ListedRuns'
  BY <1>3 DEF Join
<1>4. ASSUME NEW r \in Requests, NoteSelection(r) PROVE ListedRuns'
  BY <1>4 DEF NoteSelection, NotifyAll
<1>5. ASSUME NEW r \in Requests, Wait(r) PROVE ListedRuns'
  BY <1>5 DEF Wait
<1>6. ASSUME NEW r \in Requests, CheckAgain(r) PROVE ListedRuns'
  BY <1>6 DEF CheckAgain
<1>7. ASSUME NEW r \in Requests, Prepare(r) PROVE ListedRuns'
  BY <1>7 DEF Prepare
<1>8. ASSUME NEW r \in Requests, WaitForTurn(r) PROVE ListedRuns'
  BY <1>8 DEF WaitForTurn
<1>9. ASSUME NEW r \in Requests, Decide(r) PROVE ListedRuns'
  BY <1>9 DEF Decide, Unlisted
<1>10. ASSUME NEW r \in Requests, Run(r) PROVE ListedRuns'
  BY <1>10 DEF Run
<1>11. ASSUME NEW r \in Requests, ReturnTurn(r) PROVE ListedRuns'
  BY <1>11 DEF ReturnTurn, NotifyAll, AfterRun
<1>12. ASSUME NEW r \in Requests, Store(r) PROVE ListedRuns'
  BY <1>12 DEF Store
<1>13. ASSUME NEW r \in Requests, Finish(r) PROVE ListedRuns'
  BY <1>13 DEF Finish, Unlisted
<1>14. ASSUME NEW r \in Requests, Tell(r) PROVE ListedRuns'
  BY <1>14 DEF Tell
<1>15. ASSUME NEW r \in Requests, WakeForNoReason(r) PROVE ListedRuns'
  BY <1>15 DEF WakeForNoReason
<1>16. QED
  BY <1>1, <1>2, <1>3, <1>4, <1>5, <1>6, <1>7, <1>8, <1>9, <1>10, <1>11, <1>12, <1>13,
     <1>14, <1>15 DEF Next, Step

\* Selections can be compared.
LEMMA SelectionsAreNumbers ==
  TypeOK => newest \in Nat /\ \A r \in Requests : wantedBy[r] \in Nat /\ Selection[r] \in Nat
PROOF
<1> SUFFICES ASSUME TypeOK
             PROVE  /\ newest \in Nat
                    /\ \A r \in Requests : wantedBy[r] \in Nat /\ Selection[r] \in Nat
  OBVIOUS
<1>1. Selections \cup {0, NoSelection} \subseteq Nat /\ Selections \cup {0} \subseteq Nat
  BY PreviewQueueAssumption
<1>2. newest \in Nat
  BY <1>1 DEF TypeOK
<1>3. ASSUME NEW r \in Requests PROVE wantedBy[r] \in Nat /\ Selection[r] \in Nat
  <2>1. wantedBy[r] \in Selections \cup {0, NoSelection}
    BY DEF TypeOK
  <2>2. Selection[r] \in Selections \cup {0, NoSelection}
    BY PreviewQueueAssumption
  <2>3. QED
    BY <1>1, <2>1, <2>2
<1>4. QED
  BY <1>2, <1>3

\* An export never forgets a selection that joined it: only joining touches what
\* it knows.
LEMMA WantedStep == TypeOK /\ ListedRuns /\ KnowsWhoWants /\ [Next]_vars => KnowsWhoWants'
PROOF
<1> SUFFICES ASSUME TypeOK, ListedRuns, KnowsWhoWants, [Next]_vars PROVE KnowsWhoWants'
  OBVIOUS
<1>1. CASE UNCHANGED <<joined, wantedBy>>
  BY <1>1 DEF KnowsWhoWants
<1>2. ASSUME NEW r \in Requests, Join(r) PROVE KnowsWhoWants'
  <2> USE <1>2, PreviewQueueAssumption, SelectionsAreNumbers
      DEF Join, At, TypeOK, ListedRuns, KnowsWhoWants
  <2>1. r # NoOne /\ joined[r] = NoOne
    OBVIOUS
  <2>2. \A s \in Requests : joined[s] # r
    BY <2>1
  <2>3. CASE exports[EntryOf[r]] = NoOne
    <3>1. /\ wantedBy' = [wantedBy EXCEPT ![r] = Selection[r]]
          /\ joined' = [joined EXCEPT ![r] = r]
      BY <2>3
    <3>2. ASSUME NEW s \in Requests, s # r, joined[s] # NoOne
          PROVE  joined'[s] = joined[s] /\ wantedBy'[joined[s]] = wantedBy[joined[s]]
      BY <2>2, <3>1, <3>2
    <3>3. joined'[r] = r /\ wantedBy'[r] = Selection[r]
      BY <3>1
    <3>4. QED
      BY <3>1, <3>2, <3>3
  <2>4. CASE exports[EntryOf[r]] # NoOne
    <3> DEFINE x == exports[EntryOf[r]]
    <3>a. x \in Requests
      <4>1. EntryOf[r] \in Entries
        OBVIOUS
      <4>2. x \in Requests \cup {NoOne}
        BY <4>1
      <4>3. QED
        BY <2>4, <4>2
    <3>b. wantedBy' = [wantedBy EXCEPT ![x] = IF @ < Selection[r] THEN Selection[r] ELSE @]
      BY <2>4
    <3>c. joined' = [joined EXCEPT ![r] = x]
      BY <2>4
    <3> HIDE DEF x
    <3>1. x \in Requests /\ joined' = [joined EXCEPT ![r] = x]
      BY <3>a, <3>c
    <3>2. \A s \in Requests : wantedBy[s] <= wantedBy'[s] /\ wantedBy'[s] \in Nat
      BY <3>1, <3>b
    <3>3. joined'[r] = x /\ Selection[r] <= wantedBy'[x]
      BY <3>1, <3>b
    <3>4. ASSUME NEW s \in Requests, s # r, joined[s] # NoOne
          PROVE  joined'[s] = joined[s] /\ Selection[s] <= wantedBy'[joined[s]]
      BY <3>1, <3>2, <3>4
    <3>5. QED
      BY <3>1, <3>3, <3>4
  <2>5. QED
    BY <2>3, <2>4
<1>3. [\E r \in Requests : Join(r)]_<<joined, wantedBy>>
  BY DEF Next, Step, vars, queue, shared, local, Ask, NoteSelection, Wait, CheckAgain, Prepare,
         WaitForTurn, Decide, Run, ReturnTurn, Store, Finish, Tell, WakeForNoReason
<1>4. QED
  BY <1>1, <1>2, <1>3

\* What an export is given up for stays newer than what it was wanted by.
LEMMA GivenUpStep ==
  TypeOK /\ ListedRuns /\ GivenUpWhenOutdated /\ [Next]_vars => GivenUpWhenOutdated'
PROOF
<1> SUFFICES ASSUME TypeOK, ListedRuns, GivenUpWhenOutdated, [Next]_vars PROVE GivenUpWhenOutdated'
  OBVIOUS
<1> USE PreviewQueueAssumption DEF TypeOK, At, Goes, queue, shared, local, Exporting,
    ListedRuns, Running, GivenUpWhenOutdated, Outdated
<1>1. CASE UNCHANGED vars
  BY <1>1 DEF vars
<1>2. ASSUME NEW r \in Requests, Ask(r) PROVE GivenUpWhenOutdated'
  BY <1>2 DEF Ask
<1>3. ASSUME NEW r \in Requests, Join(r) PROVE GivenUpWhenOutdated'
  BY <1>3 DEF Join
<1>4. ASSUME NEW r \in Requests, NoteSelection(r) PROVE GivenUpWhenOutdated'
  <2>1. newest' \in Nat /\ newest <= newest'
    BY <1>4, SelectionsAreNumbers DEF NoteSelection
  <2>2. \A s \in Requests : pc[s] \in {"telling", "done"} => pc'[s] = pc[s]
    BY <1>4 DEF NoteSelection, NotifyAll
  <2>3. UNCHANGED <<wantedBy, outcome, result>>
    BY <1>4 DEF NoteSelection
  <2>4. QED
    BY <2>1, <2>2, <2>3, SelectionsAreNumbers
<1>5. ASSUME NEW r \in Requests, Wait(r) PROVE GivenUpWhenOutdated'
  BY <1>5 DEF Wait
<1>6. ASSUME NEW r \in Requests, CheckAgain(r) PROVE GivenUpWhenOutdated'
  BY <1>6 DEF CheckAgain
<1>7. ASSUME NEW r \in Requests, Prepare(r) PROVE GivenUpWhenOutdated'
  BY <1>7 DEF Prepare
<1>8. ASSUME NEW r \in Requests, WaitForTurn(r) PROVE GivenUpWhenOutdated'
  BY <1>8 DEF WaitForTurn
<1>9. ASSUME NEW r \in Requests, Decide(r) PROVE GivenUpWhenOutdated'
  BY <1>9 DEF Decide, Unlisted
<1>10. ASSUME NEW r \in Requests, Run(r) PROVE GivenUpWhenOutdated'
  BY <1>10 DEF Run
<1>11. ASSUME NEW r \in Requests, ReturnTurn(r) PROVE GivenUpWhenOutdated'
  BY <1>11 DEF ReturnTurn, NotifyAll, AfterRun
<1>12. ASSUME NEW r \in Requests, Store(r) PROVE GivenUpWhenOutdated'
  BY <1>12 DEF Store
<1>13. ASSUME NEW r \in Requests, Finish(r) PROVE GivenUpWhenOutdated'
  BY <1>13 DEF Finish, Unlisted
<1>14. ASSUME NEW r \in Requests, Tell(r) PROVE GivenUpWhenOutdated'
  BY <1>14 DEF Tell
<1>15. ASSUME NEW r \in Requests, WakeForNoReason(r) PROVE GivenUpWhenOutdated'
  BY <1>15 DEF WakeForNoReason
<1>16. QED
  BY <1>1, <1>2, <1>3, <1>4, <1>5, <1>6, <1>7, <1>8, <1>9, <1>10, <1>11, <1>12, <1>13,
     <1>14, <1>15 DEF Next, Step

\* An export goes on only while its entry is not cached.
LEMMA CachedStep == TypeOK /\ ListedRuns /\ NotYetCached /\ [Next]_vars => NotYetCached'
PROOF
<1> SUFFICES ASSUME TypeOK, ListedRuns, NotYetCached, [Next]_vars PROVE NotYetCached'
  OBVIOUS
<1> USE PreviewQueueAssumption DEF TypeOK, At, Goes, queue, shared, local, Exporting,
    ListedRuns, Running, NotYetCached
<1>1. CASE UNCHANGED vars
  BY <1>1 DEF vars
<1>2. ASSUME NEW r \in Requests, Ask(r) PROVE NotYetCached'
  BY <1>2 DEF Ask
<1>3. ASSUME NEW r \in Requests, Join(r) PROVE NotYetCached'
  BY <1>3 DEF Join
<1>4. ASSUME NEW r \in Requests, NoteSelection(r) PROVE NotYetCached'
  BY <1>4 DEF NoteSelection, NotifyAll
<1>5. ASSUME NEW r \in Requests, Wait(r) PROVE NotYetCached'
  BY <1>5 DEF Wait
<1>6. ASSUME NEW r \in Requests, CheckAgain(r) PROVE NotYetCached'
  BY <1>6 DEF CheckAgain
<1>7. ASSUME NEW r \in Requests, Prepare(r) PROVE NotYetCached'
  BY <1>7 DEF Prepare
<1>8. ASSUME NEW r \in Requests, WaitForTurn(r) PROVE NotYetCached'
  BY <1>8 DEF WaitForTurn
<1>9. ASSUME NEW r \in Requests, Decide(r) PROVE NotYetCached'
  BY <1>9 DEF Decide, Unlisted
<1>10. ASSUME NEW r \in Requests, Run(r) PROVE NotYetCached'
  BY <1>10 DEF Run
<1>11. ASSUME NEW r \in Requests, ReturnTurn(r) PROVE NotYetCached'
  BY <1>11 DEF ReturnTurn, NotifyAll, AfterRun
<1>12. ASSUME NEW r \in Requests, Store(r) PROVE NotYetCached'
  BY <1>12 DEF Store
<1>13. ASSUME NEW r \in Requests, Finish(r) PROVE NotYetCached'
  BY <1>13 DEF Finish, Unlisted
<1>14. ASSUME NEW r \in Requests, Tell(r) PROVE NotYetCached'
  BY <1>14 DEF Tell
<1>15. ASSUME NEW r \in Requests, WakeForNoReason(r) PROVE NotYetCached'
  BY <1>15 DEF WakeForNoReason
<1>16. QED
  BY <1>1, <1>2, <1>3, <1>4, <1>5, <1>6, <1>7, <1>8, <1>9, <1>10, <1>11, <1>12, <1>13,
     <1>14, <1>15 DEF Next, Step

-----------------------------------------------------------------------------
\* QueueInv holds at first and from step to step.
LEMMA QueueInvHolds == Spec => []QueueInv
PROOF
<1>1. Init => QueueInv
  <2> SUFFICES ASSUME Init PROVE QueueInv
    OBVIOUS
  <2>1. TypeOK
    BY PreviewQueueAssumption DEF Init, TypeOK, Outcome
  <2>2. TurnsCounted
    <3>1. Holders = {} /\ running = 0
      BY DEF Init, Holders, HoldsTurn
    <3>2. QED
      BY <3>1, FS_EmptySet, PreviewQueueAssumption DEF TurnsCounted
  <2>3. ListedRuns /\ KnowsWhoWants /\ GivenUpWhenOutdated /\ NotYetCached
    BY PreviewQueueAssumption
       DEF Init, ListedRuns, Running, Exporting, KnowsWhoWants, GivenUpWhenOutdated, NotYetCached
  <2>4. QED
    BY <2>1, <2>2, <2>3 DEF QueueInv
<1>2. QueueInv /\ [Next]_vars => QueueInv'
  BY TypeStep, TurnsStep, ListedStep, WantedStep, GivenUpStep, CachedStep DEF QueueInv
<1>3. QED
  BY <1>1, <1>2, PTL DEF Spec

\* TypeOK, for any requests and entries.
THEOREM QueueTypes == Spec => []TypeOK
PROOF
<1>1. QueueInv => TypeOK
  BY DEF QueueInv
<1>2. QED
  BY <1>1, QueueInvHolds, PTL

\* No more exports run at once than MAX_RUNNING, whoever takes, waits for or
\* returns a turn.
THEOREM NeverMoreThanTheLimit == Spec => []TurnsAreLimited
PROOF
<1>1. QueueInv => TurnsAreLimited
  BY DEF QueueInv, TurnsCounted, Holders, TurnsAreLimited
<1>2. QED
  BY <1>1, QueueInvHolds, PTL

\* No two exports of one entry overlap, and none runs for a cached entry.
THEOREM ExportedOnce == Spec => []OneExportPerEntry
PROOF
<1>1. QueueInv => OneExportPerEntry
  BY DEF QueueInv, TypeOK, ListedRuns, Running, Exporting, NotYetCached, OneExportPerEntry
<1>2. QED
  BY <1>1, QueueInvHolds, PTL

\* Whoever is told it was replaced is older than the newest selection: never
\* the request for the newest one, whichever exports it joined.
THEOREM NewestIsNeverReplaced == Spec => []OnlyOlderAreReplaced
PROOF
<1>1. QueueInv => OnlyOlderAreReplaced
  <2> SUFFICES ASSUME QueueInv, NEW r \in Requests, AnswerTo(r) = "replaced"
               PROVE  Selection[r] < newest
    BY DEF OnlyOlderAreReplaced
  <2>1. joined[r] \in Requests /\ outcome[joined[r]] = "replaced"
    BY DEF AnswerTo, QueueInv, TypeOK
  <2>2. wantedBy[joined[r]] < newest
    BY <2>1 DEF QueueInv, GivenUpWhenOutdated
  <2>3. Selection[r] <= wantedBy[joined[r]]
    BY <2>1, PreviewQueueAssumption DEF QueueInv, KnowsWhoWants
  <2>4. QED
    BY <2>1, <2>2, <2>3, SelectionsAreNumbers DEF QueueInv
<1>2. QED
  BY <1>1, QueueInvHolds, PTL


-----------------------------------------------------------------------------
(* Sleeping exporters.                                                     *)

\* An export sleeps only while it is wanted.
SleepersAreWanted == \A r \in Requests : At(r, "asleep") => ~Outdated(r)

\* A selection noted, which alone can outdate an export, wakes every sleeper.
LEMMA WantedAsleepStep ==
  QueueInv /\ SleepersAreWanted /\ [Next]_vars => SleepersAreWanted'
PROOF
<1> SUFFICES ASSUME QueueInv, SleepersAreWanted, [Next]_vars PROVE SleepersAreWanted'
  OBVIOUS
<1> USE PreviewQueueAssumption DEF QueueInv, TypeOK, At, Goes, queue, shared, local,
    SleepersAreWanted, Outdated
<1>1. CASE UNCHANGED vars
  BY <1>1 DEF vars
<1>2. ASSUME NEW r \in Requests, Join(r) PROVE SleepersAreWanted'
  <2>1. UNCHANGED newest /\ \A s \in Requests : At(s, "asleep")' => At(s, "asleep")
    BY <1>2 DEF Join
  <2>2. CASE exports[EntryOf[r]] = NoOne
    <3>1. wantedBy' = [wantedBy EXCEPT ![r] = Selection[r]] /\ pc'[r] = "noting"
      BY <1>2, <2>2 DEF Join
    <3>2. QED
      BY <2>1, <3>1
  <2>3. CASE exports[EntryOf[r]] # NoOne
    <3> DEFINE x == exports[EntryOf[r]]
    <3>1. x \in Requests
      BY <2>3
    <3>2. wantedBy' = [wantedBy EXCEPT ![x] = IF @ < Selection[r] THEN Selection[r] ELSE @]
      BY <1>2, <2>3 DEF Join
    <3> HIDE DEF x
    <3>3. \A s \in Requests : wantedBy[s] <= wantedBy'[s] /\ wantedBy'[s] \in Nat
      BY <3>1, <3>2, SelectionsAreNumbers
    <3>4. QED
      BY <2>1, <3>3, SelectionsAreNumbers
  <2>4. QED
    BY <2>2, <2>3
<1>3. ASSUME NEW r \in Requests, NoteSelection(r) PROVE SleepersAreWanted'
  <2>1. CASE UNCHANGED newest
    BY <1>3, <2>1 DEF NoteSelection, NotifyAll
  <2>2. CASE newest' # newest
    BY <1>3, <2>2 DEF NoteSelection, NotifyAll
  <2>3. QED
    BY <2>1, <2>2
<1>4. ASSUME NEW r \in Requests,
             Ask(r) \/ Wait(r) \/ CheckAgain(r) \/ Prepare(r) \/ WaitForTurn(r) \/ Decide(r)
      PROVE  SleepersAreWanted'
  BY <1>4 DEF Ask, Wait, CheckAgain, Prepare, WaitForTurn, Decide
<1>5. ASSUME NEW r \in Requests,
             Run(r) \/ ReturnTurn(r) \/ Store(r) \/ Finish(r) \/ Tell(r) \/ WakeForNoReason(r)
      PROVE  SleepersAreWanted'
  BY <1>5 DEF Run, ReturnTurn, NotifyAll, AfterRun, Store, Finish, Tell, WakeForNoReason
<1>6. QED
  BY <1>1, <1>2, <1>3, <1>4, <1>5 DEF Next, Step

\* No wake-up for a newer selection is lost: an exporter whose export only older
\* selections want is not asleep, so it gives it up (queue.rs, note_selection).
THEOREM OutdatedExportsAreAwake == Spec => []SleepersAreWanted
PROOF
<1>1. Init => SleepersAreWanted
  BY DEF Init, SleepersAreWanted, At
<1>2. QED
  BY <1>1, WantedAsleepStep, QueueInvHolds, PTL DEF Spec

\* An exporter that kept its export for a newer request goes to sleep though a
\* turn is free.
SleepsBesideAFreeTurn ==
  \E r \in Requests : At(r, "deciding") /\ At(r, "asleep")' /\ TurnFree

SleepersHaveNoTurn == \A r \in Requests : At(r, "asleep") => ~TurnFree

\* A turn given back, which alone can free one, wakes every sleeper.
LEMMA NoTurnStep ==
  TypeOK /\ SleepersHaveNoTurn /\ [Next]_vars /\ [~SleepsBesideAFreeTurn]_vars
    => SleepersHaveNoTurn'
PROOF
<1> SUFFICES ASSUME TypeOK, SleepersHaveNoTurn, [Next]_vars, [~SleepsBesideAFreeTurn]_vars
             PROVE  SleepersHaveNoTurn'
  OBVIOUS
<1> USE PreviewQueueAssumption DEF TypeOK, At, Goes, queue, shared, local,
    SleepersHaveNoTurn, TurnFree
<1>1. CASE UNCHANGED vars
  BY <1>1 DEF vars
<1>2. ASSUME NEW r \in Requests,
             Ask(r) \/ Join(r) \/ NoteSelection(r) \/ Wait(r) \/ CheckAgain(r) \/ Prepare(r)
      PROVE  SleepersHaveNoTurn'
  <2>1. UNCHANGED running /\ \A s \in Requests : At(s, "asleep")' => At(s, "asleep")
    BY <1>2 DEF Ask, Join, NoteSelection, NotifyAll, Wait, CheckAgain, Prepare
  <2>2. QED
    BY <2>1
<1>3. ASSUME NEW r \in Requests, WaitForTurn(r) PROVE SleepersHaveNoTurn'
  BY <1>3 DEF WaitForTurn
<1>4. ASSUME NEW r \in Requests, Decide(r) PROVE SleepersHaveNoTurn'
  <2>1. ~ UNCHANGED vars
    BY <1>4 DEF Decide, vars
  <2>2. ~SleepsBesideAFreeTurn
    BY <2>1
  <2>3. QED
    BY <1>4, <2>2 DEF Decide, SleepsBesideAFreeTurn
<1>5. ASSUME NEW r \in Requests,
             Run(r) \/ ReturnTurn(r) \/ Store(r) \/ Finish(r) \/ Tell(r) \/ WakeForNoReason(r)
      PROVE  SleepersHaveNoTurn'
  BY <1>5 DEF Run, ReturnTurn, NotifyAll, AfterRun, Store, Finish, Tell, WakeForNoReason
<1>6. QED
  BY <1>1, <1>2, <1>3, <1>4, <1>5 DEF Next, Step

\* Requests without an export to look at have none, and outcomes are known
\* before they are shared.
OutcomesAreKnown ==
  \A r \in Requests :
    /\ pc[r] \in {"returning", "storing", "ending", "telling"} => result[r] # "none"
    /\ At(r, "done") /\ joined[r] = r => outcome[r] # "none"
    /\ At(r, "waiting") => joined[r] \notin {r, NoOne}
    /\ At(r, "noting") => joined[r] # NoOne

LEMMA OutcomesStep == TypeOK /\ ListedRuns /\ OutcomesAreKnown /\ [Next]_vars => OutcomesAreKnown'
PROOF
<1> SUFFICES ASSUME TypeOK, ListedRuns, OutcomesAreKnown, [Next]_vars PROVE OutcomesAreKnown'
  OBVIOUS
<1> USE PreviewQueueAssumption DEF TypeOK, At, Goes, queue, shared, local, OutcomesAreKnown
<1>1. CASE UNCHANGED vars
  BY <1>1 DEF vars
<1>2. ASSUME NEW r \in Requests, Ask(r) PROVE OutcomesAreKnown'
  BY <1>2 DEF Ask
<1>3. ASSUME NEW r \in Requests, Join(r) PROVE OutcomesAreKnown'
  BY <1>3 DEF Join
<1>4. ASSUME NEW r \in Requests, NoteSelection(r) PROVE OutcomesAreKnown'
  BY <1>4 DEF NoteSelection, NotifyAll, ListedRuns
<1>5. ASSUME NEW r \in Requests, Wait(r) \/ CheckAgain(r) \/ Prepare(r) PROVE OutcomesAreKnown'
  BY <1>5 DEF Wait, CheckAgain, Prepare
<1>6. ASSUME NEW r \in Requests, WaitForTurn(r) \/ Decide(r) PROVE OutcomesAreKnown'
  BY <1>6 DEF WaitForTurn, Decide
<1>7. ASSUME NEW r \in Requests, Run(r) \/ ReturnTurn(r) PROVE OutcomesAreKnown'
  BY <1>7 DEF Run, ReturnTurn, NotifyAll, AfterRun
<1>8. ASSUME NEW r \in Requests, Store(r) \/ Finish(r) \/ Tell(r) PROVE OutcomesAreKnown'
  BY <1>8 DEF Store, Finish, Tell
<1>9. ASSUME NEW r \in Requests, WakeForNoReason(r) PROVE OutcomesAreKnown'
  BY <1>9 DEF WakeForNoReason
<1>10. QED
  BY <1>1, <1>2, <1>3, <1>4, <1>5, <1>6, <1>7, <1>8, <1>9 DEF Next, Step

\* The thread of a request can take its next step: it has work to do, or the
\* lock it needs is free, or the outcome it waits for is there.
CanGoOn(r) ==
  \/ pc[r] \in {"joining", "checking", "preparing", "deciding", "running", "storing", "ending",
                "telling"}
  \/ pc[r] \in {"hit", "noting", "turning", "returning"} /\ TurnsUnlocked
  \/ At(r, "waiting") /\ outcome[joined[r]] # "none"

SomebodyGoesOn ==
  (\E r \in Requests : pc[r] \notin {"new", "done"}) => \E r \in Requests : CanGoOn(r)

\* Who sleeps waits for a turn that an exporter holds; who waits, for an
\* exporter, which does not wait itself.
LEMMA WaitingEnds ==
  QueueInv /\ SleepersHaveNoTurn /\ OutcomesAreKnown => SomebodyGoesOn
PROOF
<1> SUFFICES ASSUME QueueInv, SleepersHaveNoTurn, OutcomesAreKnown,
                    NEW r \in Requests, pc[r] \notin {"new", "done"}
             PROVE  \E s \in Requests : CanGoOn(s)
  BY DEF SomebodyGoesOn
<1>1. ASSUME NEW s \in Requests, At(s, "deciding") PROVE \E t \in Requests : CanGoOn(t)
  BY <1>1 DEF CanGoOn, At
<1>2. ASSUME TurnsUnlocked,
             NEW s \in Requests, pc[s] \notin {"new", "done", "waiting", "asleep"}
      PROVE  CanGoOn(s)
  BY <1>2 DEF CanGoOn, QueueInv, TypeOK, Exporting, TurnsUnlocked
<1>3. ASSUME TurnsUnlocked, NEW s \in Requests, At(s, "asleep")
      PROVE  \E t \in Requests : CanGoOn(t)
  <2>1. running # 0
    BY <1>3, PreviewQueueAssumption DEF SleepersHaveNoTurn, TurnFree, QueueInv, TypeOK
  <2>2. Holders # {}
    BY <2>1, FS_EmptySet DEF QueueInv, TurnsCounted
  <2>3. PICK t \in Requests : HoldsTurn(t)
    BY <2>2 DEF Holders
  <2>4. QED
    BY <1>2, <1>3, <2>3 DEF HoldsTurn
<1>4. CASE TurnsUnlocked /\ At(r, "waiting")
  <2>1. joined[r] \in Requests /\ joined[r] # r /\ joined[joined[r]] = joined[r]
    BY <1>4, PreviewQueueAssumption DEF OutcomesAreKnown, QueueInv, TypeOK, ListedRuns
  <2>2. PICK x \in Requests : x = joined[r] /\ joined[x] = x /\ x # NoOne
    BY <2>1, PreviewQueueAssumption
  <2>3. pc[x] \notin {"new", "hit", "joining", "waiting"}
    BY <2>2 DEF OutcomesAreKnown, QueueInv, ListedRuns, At
  <2>4. CASE At(x, "done")
    BY <1>4, <2>2, <2>4 DEF OutcomesAreKnown, CanGoOn
  <2>5. CASE At(x, "asleep")
    BY <1>3, <1>4, <2>5
  <2>6. CASE pc[x] \notin {"done", "asleep"}
    BY <1>2, <1>4, <2>3, <2>6
  <2>7. QED
    BY <2>4, <2>5, <2>6 DEF At
<1>5. QED
  BY <1>1, <1>2, <1>3, <1>4 DEF TurnsUnlocked, At

\* The threads never all wait for each other: while a request is unanswered,
\* one of them can go on, unless an exporter keeps its export for a newer
\* request and goes to sleep beside a free turn (queue.rs, wait_for_turn).
THEOREM NobodyWaitsInACircle == Spec /\ [][~SleepsBesideAFreeTurn]_vars => []SomebodyGoesOn
PROOF
<1>1. Init => SleepersHaveNoTurn /\ OutcomesAreKnown
  BY DEF Init, SleepersHaveNoTurn, OutcomesAreKnown, At
<1>2. QueueInv => TypeOK /\ ListedRuns
  BY DEF QueueInv
<1>3. QED
  BY <1>1, <1>2, NoTurnStep, OutcomesStep, WaitingEnds, QueueInvHolds, PTL DEF Spec
=============================================================================
