-------------------------- MODULE Libraries_proofs --------------------------
(***************************************************************************)
(* The libraries of the desktop app, for any threads, addresses, commits,  *)
(* categories, Changes and failures.  The folder of a team's KiCad         *)
(* libraries: what KiCad reads is there, what was placed is found, and     *)
(* only the server the folder records has it written.  A library repo: a   *)
(* fetch never undoes a review, files marked complete are whole, ready     *)
(* ones hold the profile unless another was reviewed over them, and git    *)
(* runs in a whole copy at the address of its own team.                    *)
(***************************************************************************)
EXTENDS KicadFolder, TLAPS

CONSTANTS
  Scans, Followers, LayoutTeams, MaxCommits, LayoutEvents,  \* of LayoutFiles
  RepoTeams, Addresses, RepoEvents                          \* of LibraryCopies

VARIABLES
  \* A library repo's reviewed layout and its files.
  scans, head, kept, writing, follower, dialog, folders, partial, writer, call,
  given, saved, layoutEvents,
  \* The app's copy of a library repo.
  linked, running, thread, change, reading, copies, origin, app, repoEvents

Layouts == INSTANCE LayoutFiles WITH
  Teams <- LayoutTeams, MaxEvents <- LayoutEvents, events <- layoutEvents

Repo == INSTANCE LibraryCopies WITH
  Teams <- RepoTeams, MaxEvents <- RepoEvents, disk <- copies, events <- repoEvents

-----------------------------------------------------------------------------
(* The inductive invariant of the folder.                                  *)

TeamNames == {"ours", "theirs"}
ServerNames == {"old", "new", "theirs"}
States == [team : TeamNames \union {"none"}, server : ServerNames \union {"none"}, layout : Nat]
CatalogRecords ==
  [seq : Nat, revisions : Nat, unreadable : SUBSET Nat, archived : SUBSET Nat,
   details : BOOLEAN, categories : SUBSET Categories, category : Categories]
Catalogs == {c \in CatalogRecords : c.category \in c.categories}
Updates ==
  {u \in [at : {"idle", "refusal", "lock", "files", "database", "groups", "state"},
          plan : Catalogs \union {NoPlan}, layout : Nat] :
     u.at # "idle" => u.plan \in Catalogs}
Schedules == [stuck : BOOLEAN, asks : ServerNames \union {"none", "nothing"}, moved : BOOLEAN]
Folders ==
  [state : States, models : SUBSET Nat, footprints : SUBSET Nat, symbols : SUBSET Nat,
   tables : SUBSET Tables, rows : [Tables -> SUBSET Nat], groups : SUBSET Tables]

FolderTypes ==
  /\ who \in [Threads -> [team : TeamNames, server : ServerNames]]
  /\ listed \subseteq Threads
  /\ catalog \in Catalogs /\ catalog.seq <= MaxChanges
  /\ disk \in Folders
  /\ lock \in Threads \union {"free"}
  /\ update \in [Threads -> Updates]
  /\ schedule \in [Threads -> Schedules]
  /\ answer \in [at : {"idle", "lock", "saved"}, by : Threads \union {"none"},
                 from : ServerNames \union {"none", "nothing"}]
  /\ answer.at # "idle" => answer.by \in Threads
  /\ kicad \in [starts : Nat, groups : SUBSET Tables, placed : SUBSET Nat]
  /\ lost \in BOOLEAN /\ faults \in Nat

\* The thread whose update is past the lock holds it, and the folder is its
\* server's.
Writes(t) == update[t].at \in {"files", "database", "groups", "state"}

WritersHoldTheLock ==
  \A t \in Threads : Writes(t) =>
    /\ lock = t
    /\ disk.state.team = who[t].team /\ disk.state.server = who[t].server

\* What an update has written so far of its plan.
WrittenSoFar ==
  \A t \in Threads :
    /\ update[t].at \in {"database", "groups", "state"} =>
         Files(update[t].plan) \subseteq disk.models \intersect disk.footprints \intersect disk.symbols
    /\ update[t].at \in {"groups", "state"} =>
         Planned(update[t].plan) \subseteq disk.tables

\* Once there are groups, two of them are always there.
Always == {"older", "archived"}

GroupsHaveTheirOwn ==
  /\ disk.groups = {} \/ Always \subseteq disk.groups
  /\ kicad.starts > 0 => Always \subseteq disk.groups
  /\ kicad.groups = {} \/ (Always \subseteq kicad.groups /\ kicad.starts > 0)
  /\ kicad.placed # {} => kicad.groups # {}

PlacedAreFound ==
  \A n \in kicad.placed :
    \E table \in kicad.groups \union Categories : n \in disk.rows[table]

\* What an update will save of the layout.
LayoutIsKnown ==
  \A t \in Threads :
    /\ update[t].at \in {"files", "database", "groups"} =>
         update[t].layout = disk.state.layout
    /\ update[t].at = "state" /\ kicad.starts > 0 /\ kicad.groups # disk.groups /\ ~lost =>
         update[t].layout >= kicad.starts

FolderInv ==
  /\ FolderTypes
  /\ WritersHoldTheLock
  /\ WrittenSoFar
  /\ NothingIsMissing
  /\ GroupsHaveTheirOwn
  /\ PlacedAreFound
  /\ LayoutIsKnown
  /\ LayoutChangeIsTold

\* What the lemmas need of the constants.
FolderAssumption ==
  "free" \notin Threads /\ Category \in Categories /\ MaxChanges \in Nat

-----------------------------------------------------------------------------
(* The folder's types.                                                     *)

\* The category of what can be read has a table, and so have the two others.
LEMMA PlannedTables ==
  ASSUME NEW c \in Catalogs
  PROVE  /\ Planned(c) \subseteq Tables /\ Always \subseteq Planned(c)
         /\ \A n : TableOf(c, n) \in Planned(c)
         /\ Read(c) \subseteq Files(c) /\ Files(c) \subseteq Nat
<1>1. c.categories \subseteq Categories /\ c.category \in c.categories /\ c.revisions \in Nat
  BY DEF Catalogs, CatalogRecords
<1>2. Planned(c) \subseteq Tables /\ Always \subseteq Planned(c)
  BY <1>1 DEF Planned, Tables, Always
<1>3. \A n : TableOf(c, n) \in Planned(c)
  BY <1>1 DEF Planned, TableOf
<1>4. Read(c) \subseteq Files(c) /\ Files(c) \subseteq Nat
  BY <1>1 DEF Read, Files
<1> QED
  BY <1>2, <1>3, <1>4

LEMMA InitTypes == FolderAssumption /\ Init => FolderTypes
<1> SUFFICES ASSUME FolderAssumption, Init PROVE FolderTypes
  OBVIOUS
<1>1. catalog \in Catalogs /\ catalog.seq <= MaxChanges
  BY DEF FolderAssumption, Init, Catalogs, CatalogRecords
<1>2. disk \in Folders
  BY DEF Init, Folders, States, NoState
<1>3. update \in [Threads -> Updates]
  BY DEF Init, Updates, Idle
<1>4. who \in [Threads -> [team : TeamNames, server : ServerNames]]
  BY DEF Init, TeamNames, ServerNames
<1>5. schedule \in [Threads -> Schedules]
  BY DEF Init, Fresh, Schedules
<1>6. kicad \in [starts : Nat, groups : SUBSET Tables, placed : SUBSET Nat]
  BY DEF Init
<1> QED
  BY <1>1, <1>2, <1>3, <1>4, <1>5, <1>6 DEF FolderTypes, Init, NoAnswer

\* What a step leaves of the updates: one stops, or goes on.
LEMMA StoppingKeepsTypes ==
  ASSUME FolderTypes, NEW t \in Threads, NEW why, Stops(t, why)
  PROVE  /\ update' = [update EXCEPT ![t] = Idle] /\ update' \in [Threads -> Updates]
         /\ lock' \in Threads \union {"free"}
         /\ schedule' \in [Threads -> Schedules]
<1>1. update' \in [Threads -> Updates]
  BY DEF FolderTypes, Stops, Idle, Updates
<1>2. lock' \in Threads \union {"free"}
  BY DEF FolderTypes, Stops, Freed
<1>3. (why \in {"taken", "question"}) \in BOOLEAN
  OBVIOUS
<1>4. (IF why = "question" THEN disk.state.server ELSE "nothing")
        \in ServerNames \union {"none", "nothing"}
  BY DEF FolderTypes, Folders, States
<1>5. \A b \in BOOLEAN, asks \in ServerNames \union {"none", "nothing"} :
        [schedule EXCEPT ![t].stuck = b, ![t].asks = asks] \in [Threads -> Schedules]
  BY DEF FolderTypes, Schedules
<1>6. schedule' \in [Threads -> Schedules]
  BY <1>3, <1>4, <1>5, Zenon DEF Stops
<1> QED
  BY <1>1, <1>2, <1>6 DEF Stops

LEMMA GoingOnKeepsTypes ==
  ASSUME FolderTypes, NEW t \in Threads, update[t].at # "idle",
         NEW at \in {"lock", "files", "database", "groups", "state"}, Goes(t, at)
  PROVE  /\ update' = [update EXCEPT ![t] = [update[t] EXCEPT !.at = at]]
         /\ update' \in [Threads -> Updates]
<1>1. update[t] \in Updates
  BY DEF FolderTypes
<1>2. [update[t] EXCEPT !.at = at] \in Updates
  BY <1>1 DEF Updates
<1>3. update' = [update EXCEPT ![t] = [update[t] EXCEPT !.at = at]]
  BY DEF FolderTypes, Goes
<1> QED
  BY <1>2, <1>3 DEF FolderTypes

LEMMA ChangeKeepsTypes ==
  ASSUME FolderAssumption, FolderTypes, Change
  PROVE  FolderTypes'
<1>1. /\ catalog \in CatalogRecords /\ catalog.category \in catalog.categories
      /\ catalog.seq + 1 <= MaxChanges
      /\ catalog.seq + 1 \in Nat /\ catalog.revisions + 1 \in Nat
  <2>1. catalog \in CatalogRecords /\ catalog.category \in catalog.categories
    BY DEF FolderTypes, Catalogs
  <2>2. catalog.seq \in Nat /\ catalog.revisions \in Nat
    BY <2>1 DEF CatalogRecords
  <2>3. catalog.seq < MaxChanges
    BY DEF Change
  <2> QED
    BY <2>1, <2>2, <2>3 DEF FolderAssumption
<1>2. catalog' \in CatalogRecords /\ catalog'.seq = catalog.seq + 1
  <2>1. CASE \E new \in {{}, {catalog.revisions + 1}} :
               catalog' = [catalog EXCEPT !.seq = @ + 1, !.revisions = @ + 1,
                                          !.unreadable = @ \union new]
    <3>1. PICK new \in {{}, {catalog.revisions + 1}} :
               catalog' = [catalog EXCEPT !.seq = @ + 1, !.revisions = @ + 1,
                                          !.unreadable = @ \union new]
      BY <2>1
    <3>2. catalog.unreadable \union new \in SUBSET Nat
      BY <1>1 DEF CatalogRecords
    <3> QED
      BY <1>1, <3>1, <3>2 DEF CatalogRecords
  <2>2. CASE \E n \in 1 .. catalog.revisions :
               catalog' = [catalog EXCEPT !.seq = @ + 1,
                             !.archived = (@ \union {n}) \ (@ \intersect {n})]
    <3>1. PICK n \in 1 .. catalog.revisions :
               catalog' = [catalog EXCEPT !.seq = @ + 1,
                             !.archived = (@ \union {n}) \ (@ \intersect {n})]
      BY <2>2
    <3>2. (catalog.archived \union {n}) \ (catalog.archived \intersect {n}) \in SUBSET Nat
      BY <1>1 DEF CatalogRecords
    <3> QED
      BY <1>1, <3>1, <3>2 DEF CatalogRecords
  <2>3. CASE \E readable \in BOOLEAN, category \in catalog.categories :
               catalog' = [catalog EXCEPT !.seq = @ + 1, !.details = readable,
                                          !.category = category]
    <3>1. PICK readable \in BOOLEAN, category \in catalog.categories :
               catalog' = [catalog EXCEPT !.seq = @ + 1, !.details = readable,
                                          !.category = category]
      BY <2>3
    <3>2. category \in Categories
      BY <1>1 DEF CatalogRecords
    <3> QED
      BY <1>1, <3>1, <3>2 DEF CatalogRecords
  <2>4. CASE \E category \in Categories \ catalog.categories :
               catalog' = [catalog EXCEPT !.seq = @ + 1,
                                          !.categories = @ \union {category}]
    <3>1. PICK category \in Categories :
               catalog' = [catalog EXCEPT !.seq = @ + 1,
                                          !.categories = @ \union {category}]
      BY <2>4
    <3>2. catalog.categories \union {category} \in SUBSET Categories
      BY <1>1 DEF CatalogRecords
    <3> QED
      BY <1>1, <3>1, <3>2 DEF CatalogRecords
  <2> QED
    BY <2>1, <2>2, <2>3, <2>4 DEF Change
<1>3. catalog'.category \in catalog'.categories
  BY <1>1 DEF Change, CatalogRecords
<1> QED
  BY <1>1, <1>2, <1>3 DEF FolderTypes, FolderAssumption, Catalogs, Change, threads, bounds

\* What an update does to the folder.
LEMMA WritingKeepsTypes ==
  ASSUME FolderTypes, NEW t \in Threads, update[t].plan \in Catalogs,
         \/ WriteFile(t) \/ WriteSymbols(t) \/ SyncDatabase(t)
         \/ WriteGroups(t) \/ SaveState(t)
  PROVE  disk' \in Folders
<1> DEFINE plan == update[t].plan
<1>1. /\ disk \in Folders /\ update[t] \in Updates
      /\ Files(plan) \subseteq Nat /\ Planned(plan) \subseteq Tables /\ Read(plan) \subseteq Nat
  BY PlannedTables DEF FolderTypes
<1>2. CASE WriteFile(t)
  <2>1. CASE \E n \in MissingModels(t) : disk' = [disk EXCEPT !.models = @ \union {n}]
    <3>1. PICK n \in Nat : disk' = [disk EXCEPT !.models = @ \union {n}]
      BY <1>1, <2>1 DEF MissingModels
    <3>2. disk.models \union {n} \in SUBSET Nat
      BY <1>1 DEF Folders
    <3> QED
      BY <1>1, <3>1, <3>2 DEF Folders
  <2>2. CASE \E n \in MissingFootprints(t) :
               disk' = [disk EXCEPT !.footprints = @ \union {n}]
    <3>1. PICK n \in Nat : disk' = [disk EXCEPT !.footprints = @ \union {n}]
      BY <1>1, <2>2 DEF MissingFootprints
    <3>2. disk.footprints \union {n} \in SUBSET Nat
      BY <1>1 DEF Folders
    <3> QED
      BY <1>1, <3>1, <3>2 DEF Folders
  <2> QED
    BY <1>2, <2>1, <2>2 DEF WriteFile
<1>3. CASE WriteSymbols(t)
  <2>1. disk' = [disk EXCEPT !.symbols = @ \union Files(plan)]
    BY <1>3 DEF WriteSymbols
  <2>2. disk.symbols \union Files(plan) \in SUBSET Nat
    BY <1>1 DEF Folders
  <2> QED
    BY <1>1, <2>1, <2>2 DEF Folders
<1>4. CASE SyncDatabase(t)
  <2>1. disk' = [disk EXCEPT !.tables = @ \union Planned(plan),
                   !.rows = [table \in Tables |-> Rows(plan, @[table], table)]]
    BY <1>4 DEF SyncDatabase
  <2>2. disk.tables \union Planned(plan) \in SUBSET Tables
    BY <1>1 DEF Folders
  <2>3. [table \in Tables |-> Rows(plan, disk.rows[table], table)] \in [Tables -> SUBSET Nat]
    BY <1>1 DEF Folders, Rows
  <2> QED
    BY <1>1, <2>1, <2>2, <2>3 DEF Folders
<1>5. CASE WriteGroups(t)
  BY <1>1, <1>5 DEF WriteGroups, Folders
<1>6. CASE SaveState(t)
  <2>1. disk' = [disk EXCEPT !.state = [team |-> who[t].team, server |-> who[t].server,
                                        layout |-> update[t].layout]]
    BY <1>6 DEF SaveState
  <2>2. [team |-> who[t].team, server |-> who[t].server, layout |-> update[t].layout] \in States
    BY <1>1 DEF FolderTypes, States, Updates
  <2> QED
    BY <1>1, <2>1, <2>2 DEF Folders
<1> QED
  BY <1>2, <1>3, <1>4, <1>5, <1>6

LEMMA UpdateKeepsTypes ==
  ASSUME FolderTypes, NEW t \in Threads, Look(t) \/ UpdateStep(t) \/ Fail(t)
  PROVE  FolderTypes'
<1>1. CASE Look(t)
  <2>1. update' \in [Threads -> Updates]
    <3>1. [update[t] EXCEPT !.at = "refusal", !.plan = catalog] \in Updates
      BY DEF FolderTypes, Updates
    <3>2. update' = [update EXCEPT ![t] = [update[t] EXCEPT !.at = "refusal", !.plan = catalog]]
      BY <1>1 DEF FolderTypes, Look
    <3> QED
      BY <3>1, <3>2 DEF FolderTypes
  <2>2. schedule' \in [Threads -> Schedules]
    BY <1>1 DEF FolderTypes, Look, Fresh, Schedules
  <2> QED
    BY <1>1, <2>1, <2>2 DEF FolderTypes, Look, threads, bounds
<1>2. CASE CheckRefusal(t)
  <2>1. update[t].at # "idle" /\ ((\E why : Stops(t, why)) \/ Goes(t, "lock"))
    BY <1>2 DEF CheckRefusal
  <2>2. /\ update' \in [Threads -> Updates] /\ lock' \in Threads \union {"free"}
        /\ schedule' \in [Threads -> Schedules]
    BY <2>1, StoppingKeepsTypes, GoingOnKeepsTypes DEF FolderTypes, Goes
  <2> QED
    BY <1>2, <2>2 DEF FolderTypes, CheckRefusal, threads, bounds
<1>3. CASE TakeLock(t)
  <2>1. CASE \E why : Stops(t, why) /\ UNCHANGED disk
    BY <1>3, <2>1, StoppingKeepsTypes DEF FolderTypes, TakeLock, threads, bounds
  <2>2. CASE /\ lock' = t
             /\ disk' = [disk EXCEPT !.state.team = who[t].team,
                                     !.state.server = who[t].server]
             /\ update' = [update EXCEPT ![t].at = "files",
                                         ![t].layout = disk.state.layout]
             /\ UNCHANGED schedule
    <3>1. disk' \in Folders
      BY <2>2 DEF FolderTypes, Folders, States
    <3>2. disk.state.layout \in Nat /\ update[t] \in Updates /\ update[t].at # "idle"
      BY <1>3 DEF FolderTypes, Folders, States, TakeLock
    <3>3. [update[t] EXCEPT !.at = "files", !.layout = disk.state.layout] \in Updates
      BY <3>2 DEF Updates
    <3>4. update' = [update EXCEPT ![t] =
                       [update[t] EXCEPT !.at = "files", !.layout = disk.state.layout]]
      BY <2>2 DEF FolderTypes
    <3> QED
      BY <1>3, <2>2, <3>1, <3>3, <3>4 DEF FolderTypes, TakeLock, threads, bounds
  <2> QED
    BY <1>3, <2>1, <2>2 DEF TakeLock
<1>4. CASE \/ WriteFile(t) \/ WriteSymbols(t) \/ SyncDatabase(t)
           \/ WriteGroups(t) \/ SaveState(t)
  <2>1. update[t].at # "idle" /\ update[t].plan \in Catalogs
    BY <1>4 DEF FolderTypes, Updates, WriteFile, WriteSymbols, SyncDatabase, WriteGroups, SaveState
  <2>2. disk' \in Folders
    BY <1>4, <2>1, WritingKeepsTypes
  <2>3. /\ update' \in [Threads -> Updates] /\ lock' \in Threads \union {"free"}
        /\ schedule' \in [Threads -> Schedules]
    <3>1. CASE WriteFile(t)
      BY <3>1 DEF WriteFile, FolderTypes
    <3>2. CASE \E at \in {"database", "groups", "state"} : Goes(t, at)
      BY <2>1, <3>2, GoingOnKeepsTypes DEF FolderTypes, Goes
    <3>3. CASE SaveState(t)
      BY <3>3, StoppingKeepsTypes DEF SaveState
    <3>4. CASE WriteGroups(t) /\ ~ Goes(t, "state")
      <4>1. Layout(t) \in Nat
        BY DEF FolderTypes, Layout, Updates
      <4>2. [update[t] EXCEPT !.at = "state", !.layout = Layout(t)] \in Updates
        BY <2>1, <4>1 DEF FolderTypes, Updates
      <4>3. update' = [update EXCEPT ![t] = [update[t] EXCEPT !.at = "state", !.layout = Layout(t)]]
        BY <3>4 DEF WriteGroups, FolderTypes
      <4> QED
        BY <3>4, <4>2, <4>3 DEF WriteGroups, FolderTypes
    <3> QED
      BY <1>4, <3>1, <3>2, <3>3, <3>4 DEF WriteSymbols, SyncDatabase
  <2> QED
    BY <1>4, <2>2, <2>3 DEF FolderTypes, WriteFile, WriteSymbols, SyncDatabase, WriteGroups,
                            SaveState, threads, bounds
<1>5. CASE Fail(t)
  BY <1>5, StoppingKeepsTypes DEF FolderTypes, Fail, Unsaved, threads
<1> QED
  BY <1>1, <1>2, <1>3, <1>4, <1>5 DEF UpdateStep

LEMMA PersonKeepsTypes ==
  ASSUME FolderTypes, PersonStep
  PROVE  FolderTypes'
<1> DEFINE Answers == [at : {"idle", "lock", "saved"}, by : Threads \union {"none"},
                       from : ServerNames \union {"none", "nothing"}]
<1>1. CASE \E t \in Threads : RemoveTeam(t)
  BY <1>1 DEF FolderTypes, RemoveTeam, bounds
<1>2. ASSUME NEW t \in Threads, AddTeam(t)
      PROVE  FolderTypes'
  <2>1. schedule' \in [Threads -> Schedules]
    BY <1>2 DEF FolderTypes, AddTeam, Fresh, Schedules
  <2> QED
    BY <1>2, <2>1 DEF FolderTypes, AddTeam, bounds
<1>3. ASSUME NEW t \in Threads, Answer(t)
      PROVE  FolderTypes'
  <2>1. schedule[t].asks \in ServerNames \union {"none", "nothing"}
    BY DEF FolderTypes, Schedules
  <2>2. answer' \in Answers /\ answer'.by \in Threads
    BY <1>3, <2>1 DEF Answer
  <2> QED
    BY <1>3, <2>2 DEF FolderTypes, Answer, threads, bounds
<1>4. CASE UseNewServer
  <2>1. NoAnswer \in Answers /\ NoAnswer.at = "idle"
    BY DEF NoAnswer
  <2>2. answer.by \in Threads
    BY <1>4 DEF UseNewServer, FolderTypes
  <2>3. CASE UNCHANGED disk /\ answer' = NoAnswer
    BY <1>4, <2>1, <2>3 DEF FolderTypes, UseNewServer, threads, bounds
  <2>4. CASE /\ disk' = [disk EXCEPT !.state.server = who[answer.by].server]
             /\ answer' = [answer EXCEPT !.at = "saved"]
    <3>1. disk' \in Folders
      BY <2>2, <2>4 DEF FolderTypes, Folders, States
    <3>2. answer' \in Answers /\ answer'.by \in Threads
      BY <2>2, <2>4 DEF FolderTypes
    <3> QED
      BY <1>4, <3>1, <3>2 DEF FolderTypes, UseNewServer, threads, bounds
  <2> QED
    BY <1>4, <2>3, <2>4 DEF UseNewServer
<1>5. CASE NotSaved
  BY <1>5 DEF FolderTypes, NotSaved, NoAnswer, threads, bounds
<1>6. CASE TellThread
  <2>1. schedule' \in [Threads -> Schedules]
    BY <1>6 DEF FolderTypes, TellThread, Schedules
  <2> QED
    BY <1>6, <2>1 DEF FolderTypes, TellThread, NoAnswer, threads, bounds
<1> QED
  BY <1>1, <1>2, <1>3, <1>4, <1>5, <1>6 DEF PersonStep

LEMMA KicadKeepsTypes ==
  ASSUME FolderTypes, StartKicad \/ Place \/ Restart
  PROVE  FolderTypes'
<1> DEFINE Kicads == [starts : Nat, groups : SUBSET Tables, placed : SUBSET Nat]
<1>1. CASE StartKicad
  <2>1. kicad.starts + 1 \in Nat /\ disk.groups \in SUBSET Tables
    BY DEF FolderTypes, Folders
  <2>2. kicad' \in Kicads
    BY <1>1, <2>1 DEF StartKicad, FolderTypes
  <2> QED
    BY <1>1, <2>2 DEF FolderTypes, StartKicad, threads, bounds
<1>2. CASE Place
  <2>1. PICK table \in kicad.groups : \E n \in disk.rows[table] :
               kicad' = [kicad EXCEPT !.placed = @ \union {n}]
    BY <1>2 DEF Place
  <2> PICK n \in disk.rows[table] : kicad' = [kicad EXCEPT !.placed = @ \union {n}]
    BY <2>1
  <2>2. kicad.placed \union {n} \in SUBSET Nat
    <3>1. table \in Tables
      BY DEF FolderTypes
    <3> QED
      BY <3>1 DEF FolderTypes, Folders
  <2>3. kicad' \in Kicads
    BY <2>2 DEF FolderTypes
  <2> QED
    BY <1>2, <2>3 DEF FolderTypes, Place, threads, bounds
<1>3. CASE Restart
  <2>1. update' \in [Threads -> Updates] /\ schedule' \in [Threads -> Schedules]
    BY <1>3 DEF Restart, Idle, Updates, Fresh, Schedules
  <2>2. lost' \in BOOLEAN
    BY <1>3 DEF Restart
  <2> QED
    BY <1>3, <2>1, <2>2 DEF FolderTypes, Restart, NoAnswer, threads
<1> QED
  BY <1>1, <1>2, <1>3

\* Types are kept by every step.
LEMMA FolderTypesKept ==
  ASSUME FolderAssumption, FolderTypes, [Next]_vars
  PROVE  FolderTypes'
<1>1. CASE UNCHANGED vars
  BY <1>1 DEF vars, threads, bounds, FolderTypes
<1> QED
  BY <1>1, ChangeKeepsTypes, PersonKeepsTypes, KicadKeepsTypes, UpdateKeepsTypes DEF Next

-----------------------------------------------------------------------------
(* The lock.                                                               *)

\* Who takes the lock finds the folder his server's, or says it is; who holds
\* it keeps it until the update ends.
LEMMA UpdatesHoldTheLock ==
  ASSUME FolderAssumption, FolderTypes, WritersHoldTheLock,
         NEW t \in Threads, Look(t) \/ UpdateStep(t) \/ Fail(t)
  PROVE  WritersHoldTheLock'
<1>1. disk \in Folders /\ update \in [Threads -> Updates] /\ who' = who
  BY DEF FolderTypes, Look, UpdateStep, Fail, CheckRefusal, TakeLock, WriteFile, WriteSymbols,
         SyncDatabase, WriteGroups, SaveState, threads
<1>2. ASSUME \E why : Stops(t, why), disk'.state = disk.state \/ Writes(t)
      PROVE  WritersHoldTheLock'
  <2>1. ASSUME NEW u \in Threads, Writes(u)'
        PROVE  u # t /\ Writes(u)
    BY <1>1, <1>2, <2>1 DEF Stops, Idle, Writes
  <2>2. ASSUME NEW u \in Threads, Writes(u)'
        PROVE  lock' = u /\ disk'.state = disk.state
    BY <1>2, <2>1, <2>2 DEF WritersHoldTheLock, Stops, Freed
  <2> QED
    BY <1>1, <2>1, <2>2 DEF WritersHoldTheLock
<1>3. CASE Look(t)
  <2>1. \A u \in Threads : Writes(u)' => Writes(u)
    BY <1>1, <1>3 DEF Look, Writes
  <2> QED
    BY <1>3, <2>1 DEF Look, WritersHoldTheLock, threads
<1>4. CASE CheckRefusal(t)
  <2>1. CASE Goes(t, "lock")
    <3>1. \A u \in Threads : Writes(u)' => Writes(u)
      BY <1>1, <2>1 DEF Goes, Writes
    <3> QED
      BY <1>4, <2>1, <3>1 DEF Goes, CheckRefusal, WritersHoldTheLock, threads
  <2> QED
    BY <1>2, <1>4, <2>1 DEF CheckRefusal
<1>5. CASE TakeLock(t)
  <2>1. CASE \E why : Stops(t, why) /\ UNCHANGED disk
    BY <1>2, <2>1
  <2>2. CASE /\ lock = "free" /\ lock' = t
             /\ disk' = [disk EXCEPT !.state.team = who[t].team,
                                     !.state.server = who[t].server]
             /\ update' = [update EXCEPT ![t].at = "files",
                                         ![t].layout = disk.state.layout]
    <3>1. \A u \in Threads : Writes(u)' => u = t
      BY <1>1, <2>2 DEF FolderAssumption, WritersHoldTheLock, Writes
    <3>2. disk'.state.team = who[t].team /\ disk'.state.server = who[t].server
      BY <1>1, <2>2 DEF Folders, States
    <3> QED
      BY <1>1, <2>2, <3>1, <3>2 DEF WritersHoldTheLock
  <2> QED
    BY <1>5, <2>1, <2>2 DEF TakeLock
<1>6. CASE WriteFile(t) \/ WriteSymbols(t) \/ SyncDatabase(t) \/ WriteGroups(t)
  <2>1. /\ \A u \in Threads : Writes(u)' => Writes(u)
        /\ lock' = lock /\ disk'.state = disk.state
    BY <1>1, <1>6 DEF WriteFile, WriteSymbols, SyncDatabase, WriteGroups, Goes, Writes, Folders
  <2> QED
    BY <1>1, <2>1 DEF WritersHoldTheLock
<1>7. CASE SaveState(t)
  BY <1>2, <1>7 DEF SaveState, Writes
<1>8. CASE Fail(t)
  BY <1>2, <1>8 DEF Fail
<1> QED
  BY <1>3, <1>4, <1>5, <1>6, <1>7, <1>8 DEF UpdateStep

LEMMA LockKept ==
  ASSUME FolderAssumption, FolderTypes, WritersHoldTheLock, [Next]_vars
  PROVE  WritersHoldTheLock'
<1>1. CASE UseNewServer
  <2>1. \A t \in Threads : ~ Writes(t)'
    BY <1>1 DEF UseNewServer, Held, FolderAssumption, WritersHoldTheLock, Writes
  <2> QED
    BY <2>1 DEF WritersHoldTheLock
<1>2. CASE Restart
  BY <1>2 DEF Restart, Idle, WritersHoldTheLock, Writes
<1>3. CASE UNCHANGED <<who, disk, lock, update>>
  BY <1>3 DEF WritersHoldTheLock, Writes
<1> QED
  BY <1>1, <1>2, <1>3, UpdatesHoldTheLock
     DEF Next, Change, PersonStep, RemoveTeam, AddTeam, Answer, NotSaved, TellThread,
         StartKicad, Place, vars, threads

-----------------------------------------------------------------------------
(* What the folder holds.                                                  *)


FilesInv == WrittenSoFar /\ NothingIsMissing /\ GroupsHaveTheirOwn /\ PlacedAreFound

\* A step that writes none of what KiCad reads, and lets no update go on
\* but to its files.
LEMMA NothingWritten ==
  ASSUME FilesInv, update \in [Threads -> Updates],
         disk'.models = disk.models, disk'.footprints = disk.footprints,
         disk'.symbols = disk.symbols, disk'.tables = disk.tables,
         disk'.rows = disk.rows, disk'.groups = disk.groups, UNCHANGED kicad,
         \A t \in Threads : update'[t].at \in {"database", "groups", "state"} =>
           update'[t].at = update[t].at /\ update'[t].plan = update[t].plan
  PROVE  FilesInv'
<1>1. WrittenSoFar'
  BY DEF FilesInv, WrittenSoFar, Files, Planned
<1>2. NothingIsMissing' /\ GroupsHaveTheirOwn' /\ PlacedAreFound'
  BY DEF FilesInv, NothingIsMissing, GroupsHaveTheirOwn, PlacedAreFound
<1> QED
  BY <1>1, <1>2 DEF FilesInv

\* What an update writes, in an order in which nothing is named too early.
LEMMA WritingKeepsFiles ==
  ASSUME FolderTypes, FilesInv, NEW t \in Threads,
         WriteFile(t) \/ WriteSymbols(t) \/ SyncDatabase(t) \/ WriteGroups(t)
  PROVE  FilesInv'
<1> DEFINE plan == update[t].plan
<1>1. update[t].at # "idle" /\ update \in [Threads -> Updates] /\ disk \in Folders
  BY DEF FolderTypes, WriteFile, WriteSymbols, SyncDatabase, WriteGroups
<1>2. plan \in Catalogs
  BY <1>1 DEF Updates
<1>3. /\ Planned(plan) \subseteq Tables /\ Always \subseteq Planned(plan)
      /\ \A n : TableOf(plan, n) \in Planned(plan)
      /\ Read(plan) \subseteq Files(plan) /\ Files(plan) \subseteq Nat
  BY <1>2, PlannedTables
<1>4. CASE WriteFile(t)
  <2>1. /\ disk'.models = disk.models \/ \E n : disk'.models = disk.models \union {n}
        /\ disk'.footprints = disk.footprints \/
             /\ disk'.models = disk.models /\ MissingModels(t) = {}
             /\ \E n \in Files(plan) : disk'.footprints = disk.footprints \union {n}
        /\ disk'.symbols = disk.symbols /\ disk'.tables = disk.tables
        /\ disk'.rows = disk.rows /\ disk'.groups = disk.groups
        /\ UNCHANGED <<update, kicad>>
    BY <1>1, <1>4 DEF WriteFile, Folders, MissingFootprints
  <2>2. disk.models \subseteq disk'.models /\ disk.footprints \subseteq disk'.footprints
    BY <2>1
  <2>3. disk'.footprints \subseteq disk'.models
    BY <2>1 DEF FilesInv, NothingIsMissing, MissingModels
  <2>4. WrittenSoFar'
    BY <2>1, <2>2 DEF FilesInv, WrittenSoFar, Files, Planned
  <2>5. NothingIsMissing'
    BY <2>1, <2>2, <2>3 DEF FilesInv, NothingIsMissing
  <2> QED
    BY <2>1, <2>4, <2>5 DEF FilesInv, GroupsHaveTheirOwn, PlacedAreFound
<1>5. CASE WriteSymbols(t)
  <2>1. /\ disk'.models = disk.models /\ disk'.footprints = disk.footprints
        /\ disk'.symbols = disk.symbols \union Files(plan) /\ disk'.tables = disk.tables
        /\ disk'.rows = disk.rows /\ disk'.groups = disk.groups
        /\ update' = [update EXCEPT ![t].at = "database"] /\ UNCHANGED kicad
    BY <1>1, <1>5 DEF WriteSymbols, Folders, Goes
  <2>2. Files(plan) \subseteq disk.models /\ Files(plan) \subseteq disk.footprints
    BY <1>5 DEF WriteSymbols, AllFilesWritten, MissingModels, MissingFootprints
  <2>3. ASSUME NEW u \in Threads
        PROVE  /\ update'[u].plan = update[u].plan
               /\ u # t => update'[u].at = update[u].at
               /\ u = t => update'[u].at = "database"
    BY <1>1, <2>1 DEF Updates
  <2>4. WrittenSoFar'
    BY <2>1, <2>2, <2>3 DEF FilesInv, WrittenSoFar, Files, Planned
  <2>5. NothingIsMissing'
    BY <2>1 DEF FilesInv, NothingIsMissing
  <2> QED
    BY <2>1, <2>4, <2>5 DEF FilesInv, GroupsHaveTheirOwn, PlacedAreFound
<1>6. CASE SyncDatabase(t)
  <2>1. /\ disk'.models = disk.models /\ disk'.footprints = disk.footprints
        /\ disk'.symbols = disk.symbols /\ disk'.groups = disk.groups
        /\ disk'.tables = disk.tables \union Planned(plan)
        /\ disk'.rows = [table \in Tables |-> Rows(plan, disk.rows[table], table)]
        /\ update' = [update EXCEPT ![t].at = "groups"] /\ UNCHANGED kicad
    BY <1>1, <1>6 DEF SyncDatabase, Folders, Goes
  <2>2. ASSUME NEW u \in Threads
        PROVE  /\ update'[u].plan = update[u].plan
               /\ u # t => update'[u].at = update[u].at
               /\ u = t => update'[u].at = "groups" /\ update[u].at = "database"
    BY <1>1, <1>6, <2>1 DEF SyncDatabase, Updates
  <2>3. Files(plan) \subseteq disk.symbols \intersect disk.footprints
    BY <1>6 DEF SyncDatabase, FilesInv, WrittenSoFar
  <2>4. WrittenSoFar'
    BY <2>1, <2>2 DEF FilesInv, WrittenSoFar, Files, Planned
  <2>5. \A table \in Tables : disk'.rows[table] \subseteq disk.rows[table] \union Files(plan)
    BY <1>3, <2>1 DEF Rows
  <2>6. NothingIsMissing'
    BY <2>1, <2>3, <2>5 DEF FilesInv, NothingIsMissing
  <2>7. ASSUME NEW n \in kicad.placed
        PROVE  \E table \in kicad.groups \union Categories : n \in disk'.rows[table]
    <3>1. PICK table \in kicad.groups \union Categories : n \in disk.rows[table]
      BY DEF FilesInv, PlacedAreFound
    <3>2. table \in Tables /\ Always \subseteq kicad.groups
      BY DEF FolderTypes, Tables, FilesInv, GroupsHaveTheirOwn
    <3>3. CASE n \in Read(plan)
      <4>1. /\ TableOf(plan, n) \in Planned(plan) /\ TableOf(plan, n) \in Tables
        BY <1>3
      <4>2. n \in disk'.rows[TableOf(plan, n)]
        BY <2>1, <3>3, <4>1 DEF Rows
      <4>3. TableOf(plan, n) \in kicad.groups \union Categories
        BY <3>2, <4>1 DEF Tables, Always
      <4> QED
        BY <4>2, <4>3
    <3>4. CASE n \notin Read(plan)
      BY <2>1, <3>1, <3>2, <3>4 DEF Rows
    <3> QED
      BY <3>3, <3>4
  <2> QED
    BY <2>1, <2>4, <2>6, <2>7 DEF FilesInv, GroupsHaveTheirOwn, PlacedAreFound
<1>7. CASE WriteGroups(t)
  <2>1. /\ disk'.models = disk.models /\ disk'.footprints = disk.footprints
        /\ disk'.symbols = disk.symbols /\ disk'.tables = disk.tables
        /\ disk'.rows = disk.rows /\ disk'.groups = Planned(plan)
        /\ UNCHANGED kicad
    BY <1>1, <1>7 DEF WriteGroups, Folders
  <2>2. ASSUME NEW u \in Threads
        PROVE  /\ update'[u].plan = update[u].plan
               /\ u # t => update'[u].at = update[u].at
               /\ u = t => update'[u].at = "state" /\ update[u].at = "groups"
    BY <1>1, <1>7 DEF WriteGroups, Goes, Updates
  <2>3. Planned(plan) \subseteq disk.tables
    BY <1>7 DEF WriteGroups, FilesInv, WrittenSoFar
  <2>4. WrittenSoFar'
    BY <2>1, <2>2 DEF FilesInv, WrittenSoFar, Files, Planned
  <2>5. NothingIsMissing'
    BY <2>1, <2>3 DEF FilesInv, NothingIsMissing
  <2> QED
    BY <1>3, <2>1, <2>4, <2>5 DEF FilesInv, GroupsHaveTheirOwn, PlacedAreFound
<1> QED
  BY <1>4, <1>5, <1>6, <1>7

LEMMA FilesKept ==
  ASSUME FolderTypes, FilesInv, [Next]_vars
  PROVE  FilesInv'
<1>1. update \in [Threads -> Updates] /\ disk \in Folders
  BY DEF FolderTypes
<1>2. ASSUME NEW t \in Threads, NEW why, Stops(t, why),
             disk' = disk \/ disk' = [disk EXCEPT !.state = disk'.state], UNCHANGED kicad
      PROVE  FilesInv'
  <2>1. \A u \in Threads : update'[u].at \in {"database", "groups", "state"} =>
          update'[u] = update[u]
    BY <1>1, <1>2 DEF Stops, Idle
  <2>2. /\ disk'.models = disk.models /\ disk'.footprints = disk.footprints
        /\ disk'.symbols = disk.symbols /\ disk'.tables = disk.tables
        /\ disk'.rows = disk.rows /\ disk'.groups = disk.groups
    BY <1>1, <1>2 DEF Folders
  <2> QED
    BY <1>1, <1>2, <2>1, <2>2, NothingWritten
<1>3. ASSUME NEW t \in Threads, Look(t) \/ UpdateStep(t) \/ Fail(t)
      PROVE  FilesInv'
  <2>1. CASE Look(t) \/ (CheckRefusal(t) /\ Goes(t, "lock"))
    <3>1. \A u \in Threads : update'[u].at \in {"database", "groups", "state"} =>
            update'[u] = update[u]
      BY <1>1, <2>1 DEF Look, Goes, Updates
    <3> QED
      BY <1>1, <2>1, <3>1, NothingWritten DEF Look, CheckRefusal
  <2>2. CASE CheckRefusal(t) /\ ~ Goes(t, "lock")
    BY <1>2, <2>2 DEF CheckRefusal
  <2>3. CASE TakeLock(t)
    <3>1. CASE \E why : Stops(t, why) /\ UNCHANGED disk
      BY <1>2, <2>3, <3>1 DEF TakeLock
    <3>2. CASE /\ disk' = [disk EXCEPT !.state.team = who[t].team,
                                       !.state.server = who[t].server]
               /\ update' = [update EXCEPT ![t].at = "files",
                                           ![t].layout = disk.state.layout]
      <4>1. \A u \in Threads : update'[u].at \in {"database", "groups", "state"} =>
              update'[u] = update[u]
        BY <1>1, <3>2 DEF Updates
      <4>2. /\ disk'.models = disk.models /\ disk'.footprints = disk.footprints
            /\ disk'.symbols = disk.symbols /\ disk'.tables = disk.tables
            /\ disk'.rows = disk.rows /\ disk'.groups = disk.groups
        BY <1>1, <3>2 DEF Folders
      <4> QED
        BY <1>1, <2>3, <4>1, <4>2, NothingWritten DEF TakeLock
    <3> QED
      BY <2>3, <3>1, <3>2 DEF TakeLock
  <2>4. CASE WriteFile(t) \/ WriteSymbols(t) \/ SyncDatabase(t) \/ WriteGroups(t)
    BY <2>4, WritingKeepsFiles
  <2>5. CASE SaveState(t)
    <3>1. disk' = [disk EXCEPT !.state = disk'.state]
      BY <1>1, <2>5 DEF SaveState, Folders
    <3> QED
      BY <1>2, <2>5, <3>1 DEF SaveState
  <2>6. CASE Fail(t)
    BY <1>2, <2>6 DEF Fail
  <2> QED
    BY <1>3, <2>1, <2>2, <2>3, <2>4, <2>5, <2>6 DEF UpdateStep
<1>4. CASE UseNewServer
  <2>1. /\ disk'.models = disk.models /\ disk'.footprints = disk.footprints
        /\ disk'.symbols = disk.symbols /\ disk'.tables = disk.tables
        /\ disk'.rows = disk.rows /\ disk'.groups = disk.groups
    BY <1>1, <1>4 DEF UseNewServer, Folders
  <2> QED
    BY <1>1, <1>4, <2>1, NothingWritten DEF UseNewServer
<1>5. CASE StartKicad
  <2>1. kicad'.groups = disk.groups /\ kicad'.starts = kicad.starts + 1
        /\ kicad'.placed = kicad.placed /\ kicad.starts \in Nat
    BY <1>5 DEF StartKicad, FolderTypes
  <2>2. Always \subseteq disk.groups /\ disk.groups # {}
    BY <1>5 DEF StartKicad, FilesInv, GroupsHaveTheirOwn
  <2>3. UNCHANGED <<disk, update>>
    BY <1>5 DEF StartKicad
  <2>4. WrittenSoFar' /\ NothingIsMissing'
    BY <2>1, <2>3 DEF FilesInv, WrittenSoFar, NothingIsMissing
  <2>5. kicad'.starts > 0
    BY <2>1
  <2>6. GroupsHaveTheirOwn'
    BY <2>1, <2>2, <2>3, <2>5 DEF GroupsHaveTheirOwn
  <2>7. PlacedAreFound'
    <3> SUFFICES ASSUME NEW n \in kicad.placed
                 PROVE  \E table \in disk.groups \union Categories : n \in disk.rows[table]
      BY <2>1, <2>3 DEF PlacedAreFound
    <3>1. PICK table \in kicad.groups \union Categories : n \in disk.rows[table]
      BY DEF FilesInv, PlacedAreFound
    <3>2. kicad.groups \subseteq Categories \union Always
      BY DEF FolderTypes, Tables, Always
    <3> QED
      BY <2>2, <3>1, <3>2
  <2> QED
    BY <2>4, <2>6, <2>7 DEF FilesInv
<1>6. CASE Place
  <2>1. PICK table \in kicad.groups : \E n \in disk.rows[table] :
               kicad' = [kicad EXCEPT !.placed = @ \union {n}]
    BY <1>6 DEF Place
  <2> PICK n \in disk.rows[table] : kicad' = [kicad EXCEPT !.placed = @ \union {n}]
    BY <2>1
  <2>2. kicad'.groups = kicad.groups /\ kicad'.starts = kicad.starts
        /\ kicad'.placed = kicad.placed \union {n} /\ kicad.groups # {}
    BY DEF FolderTypes
  <2>3. UNCHANGED <<disk, update>>
    BY <1>6 DEF Place
  <2>4. WrittenSoFar' /\ NothingIsMissing' /\ GroupsHaveTheirOwn' /\ PlacedAreFound'
    BY <2>2, <2>3 DEF FilesInv, WrittenSoFar, NothingIsMissing, GroupsHaveTheirOwn, PlacedAreFound
  <2> QED
    BY <2>4 DEF FilesInv
<1>7. CASE Restart
  <2>1. \A u \in Threads : update'[u].at \notin {"database", "groups", "state"}
    BY <1>7 DEF Restart, Idle
  <2> QED
    BY <1>1, <1>7, <2>1, NothingWritten DEF Restart
<1>8. CASE UNCHANGED <<disk, update, kicad>>
  BY <1>8 DEF FilesInv, WrittenSoFar, NothingIsMissing, GroupsHaveTheirOwn, PlacedAreFound
<1> QED
  BY <1>3, <1>4, <1>5, <1>6, <1>7, <1>8
     DEF Next, Change, PersonStep, RemoveTeam, AddTeam, Answer, NotSaved, TellThread, vars

-----------------------------------------------------------------------------
(* Whether a running KiCad is told to restart.                             *)

LayoutInv == LayoutIsKnown /\ LayoutChangeIsTold

\* Nothing is known of another layout than before.
LEMMA LayoutLeftAlone ==
  ASSUME FolderTypes, LayoutInv,
         disk'.state.layout = disk.state.layout, disk'.groups = disk.groups,
         UNCHANGED kicad, lost => lost',
         \A t \in Threads : update'[t].at \in {"files", "database", "groups"} =>
           update'[t].layout = disk.state.layout,
         \A t \in Threads : update'[t].at = "state" =>
           update'[t].at = update[t].at /\ update'[t].layout = update[t].layout,
         \A t \in Threads : update[t].at = "state" /\ update'[t].at # "state" =>
           lost' \/ update[t].layout = disk.state.layout
  PROVE  LayoutInv'
<1>1. LayoutIsKnown'
  BY DEF LayoutInv, LayoutIsKnown
<1>2. LayoutChangeIsTold'
  <2> SUFFICES ASSUME kicad.starts > 0, kicad.groups # disk.groups, ~lost',
                      \A t \in Threads : update'[t].at # "state"
               PROVE  disk.state.layout >= kicad.starts
    BY DEF LayoutChangeIsTold
  <2>1. CASE \E t \in Threads : update[t].at = "state"
    BY <2>1 DEF LayoutInv, LayoutIsKnown
  <2>2. CASE \A t \in Threads : update[t].at # "state"
    BY <2>2 DEF LayoutInv, LayoutChangeIsTold
  <2> QED
    BY <2>1, <2>2
<1> QED
  BY <1>1, <1>2 DEF LayoutInv

\* An update that ends without saving its state loses what it would have said,
\* or had nothing to say.
LEMMA LayoutAfterStopping ==
  ASSUME FolderTypes, LayoutInv, NEW t \in Threads, NEW why, Stops(t, why),
         UNCHANGED <<disk, kicad>>, lost => lost', Unsaved(t) => lost'
  PROVE  LayoutInv'
<1>1. \A u \in Threads : /\ u # t => update'[u] = update[u]
                         /\ u = t => update'[u].at = "idle"
  BY DEF FolderTypes, Stops, Idle
<1>2. \A u \in Threads : update[u].at = "state" /\ update'[u].at # "state" =>
        lost' \/ update[u].layout = disk.state.layout
  BY <1>1 DEF Unsaved
<1>3. /\ disk'.state.layout = disk.state.layout /\ disk'.groups = disk.groups
      /\ UNCHANGED kicad /\ (lost => lost')
  OBVIOUS
<1>4. \A u \in Threads : update'[u].at \in {"files", "database", "groups"} =>
        update'[u].layout = disk.state.layout
  BY <1>1 DEF LayoutInv, LayoutIsKnown
<1>5. \A u \in Threads : update'[u].at = "state" =>
        update'[u].at = update[u].at /\ update'[u].layout = update[u].layout
  BY <1>1
<1> QED
  BY <1>2, <1>3, <1>4, <1>5, LayoutLeftAlone

\* The one update that runs: the others are not past the lock.
LEMMA OneWriter ==
  ASSUME WritersHoldTheLock, NEW t \in Threads, Writes(t), NEW u \in Threads, u # t
  PROVE  ~ Writes(u)
BY DEF WritersHoldTheLock

LEMMA UpdateKeepsLayout ==
  ASSUME FolderAssumption, FolderTypes, WritersHoldTheLock, GroupsHaveTheirOwn, LayoutInv,
         NEW t \in Threads, Look(t) \/ UpdateStep(t) \/ Fail(t)
  PROVE  LayoutInv'
<1>1. update \in [Threads -> Updates] /\ disk \in Folders
  BY DEF FolderTypes
<1>2. ASSUME UNCHANGED <<kicad, lost>>,
             disk'.state.layout = disk.state.layout, disk'.groups = disk.groups,
             \A u \in Threads : u # t => update'[u] = update[u],
             update[t].at # "state", update'[t].at # "state",
             update'[t].at \in {"files", "database", "groups"} =>
               update'[t].layout = disk.state.layout
      PROVE  LayoutInv'
  <2>1. \A u \in Threads : update'[u].at \in {"files", "database", "groups"} =>
          update'[u].layout = disk.state.layout
    BY <1>2 DEF LayoutInv, LayoutIsKnown
  <2>2. \A u \in Threads : update'[u].at = "state" =>
          update'[u].at = update[u].at /\ update'[u].layout = update[u].layout
    BY <1>2
  <2>3. \A u \in Threads : update[u].at = "state" /\ update'[u].at # "state" =>
          lost' \/ update[u].layout = disk.state.layout
    BY <1>2
  <2> QED
    BY <1>2, <2>1, <2>2, <2>3, LayoutLeftAlone
<1>3. ASSUME NEW why, Stops(t, why), UNCHANGED <<disk, kicad, lost>>, update[t].at # "state"
      PROVE  LayoutInv'
  BY <1>3, LayoutAfterStopping DEF Unsaved
<1>4. CASE Look(t) \/ (CheckRefusal(t) /\ Goes(t, "lock"))
  <2>1. update[t].at # "state" /\ update'[t].at \in {"refusal", "lock"}
        /\ \A u \in Threads : u # t => update'[u] = update[u]
    BY <1>1, <1>4 DEF Look, CheckRefusal, Goes, Updates
  <2> QED
    BY <1>2, <1>4, <2>1 DEF Look, CheckRefusal, bounds
<1>5. CASE CheckRefusal(t) /\ ~ Goes(t, "lock")
  BY <1>3, <1>5 DEF CheckRefusal, bounds
<1>6. CASE TakeLock(t)
  <2>1. CASE \E why : Stops(t, why) /\ UNCHANGED disk
    BY <1>3, <1>6, <2>1 DEF TakeLock, bounds
  <2>2. CASE /\ disk' = [disk EXCEPT !.state.team = who[t].team,
                                     !.state.server = who[t].server]
             /\ update' = [update EXCEPT ![t].at = "files",
                                         ![t].layout = disk.state.layout]
    <3>1. disk'.state.layout = disk.state.layout /\ disk'.groups = disk.groups
      BY <1>1, <2>2 DEF Folders, States
    <3>2. update[t].at # "state" /\ update'[t].at = "files"
          /\ update'[t].layout = disk.state.layout
          /\ \A u \in Threads : u # t => update'[u] = update[u]
      BY <1>1, <1>6, <2>2 DEF TakeLock, Updates
    <3> QED
      BY <1>2, <1>6, <3>1, <3>2 DEF TakeLock, bounds
  <2> QED
    BY <1>6, <2>1, <2>2 DEF TakeLock
<1>7. CASE WriteFile(t) \/ WriteSymbols(t) \/ SyncDatabase(t)
  <2>1. disk'.state.layout = disk.state.layout /\ disk'.groups = disk.groups
    BY <1>1, <1>7 DEF WriteFile, WriteSymbols, SyncDatabase, Folders
  <2>2. /\ update[t].at \in {"files", "database"} /\ update'[t].at \in {"files", "database", "groups"}
        /\ update'[t].layout = update[t].layout
        /\ \A u \in Threads : u # t => update'[u] = update[u]
    BY <1>1, <1>7 DEF WriteFile, WriteSymbols, SyncDatabase, Goes, Updates
  <2>3. update[t].layout = disk.state.layout
    BY <2>2 DEF LayoutInv, LayoutIsKnown
  <2> QED
    BY <1>2, <1>7, <2>1, <2>2, <2>3 DEF WriteFile, WriteSymbols, SyncDatabase, bounds
<1>8. CASE WriteGroups(t)
  <2>1. /\ update[t].layout = disk.state.layout /\ update[t].at = "groups"
        /\ \A u \in Threads : u # t => ~ Writes(u)
    BY <1>8, OneWriter DEF WriteGroups, Writes, LayoutInv, LayoutIsKnown
  <2>2. UNCHANGED <<kicad, lost>> /\ disk'.state = disk.state
    BY <1>1, <1>8 DEF WriteGroups, bounds, Folders
  <2>3. \A u \in Threads : u # t => update'[u] = update[u] /\ ~ Writes(u)'
    BY <1>1, <1>8, <2>1 DEF WriteGroups, Goes, Writes
  <2>4. update'[t].at = "state"
    BY <1>1, <1>8 DEF WriteGroups, Goes, Updates
  <2>5. ASSUME kicad.starts > 0, kicad.groups # disk'.groups, ~lost
        PROVE  update'[t].layout >= kicad.starts
    <3>1. CASE disk.groups = Planned(update[t].plan)
      <4>1. update'[t].layout = update[t].layout /\ disk' = disk
        BY <1>1, <1>8, <3>1 DEF WriteGroups, Goes, Updates
      <4>2. \A u \in Threads : update[u].at # "state"
        BY <2>1 DEF Writes
      <4> QED
        BY <2>1, <2>5, <4>1, <4>2 DEF LayoutInv, LayoutChangeIsTold
    <3>2. CASE disk.groups # Planned(update[t].plan)
      <4>1. disk.groups # {}
        BY <2>5 DEF GroupsHaveTheirOwn, Always
      <4>2. update'[t].layout = kicad.starts
        BY <1>1, <1>8, <3>2, <4>1 DEF WriteGroups, Layout, Updates
      <4> QED
        BY <4>2 DEF FolderTypes
    <3> QED
      BY <3>1, <3>2
  <2>6. LayoutIsKnown'
    BY <2>2, <2>3, <2>4, <2>5 DEF LayoutIsKnown, Writes
  <2> QED
    BY <2>4, <2>6 DEF LayoutInv, LayoutChangeIsTold
<1>9. CASE SaveState(t)
  <2>1. \A u \in Threads : u # t => ~ Writes(u)
    BY <1>9, OneWriter DEF SaveState, Writes
  <2>2. /\ disk'.state.layout = update[t].layout /\ disk'.groups = disk.groups
        /\ UNCHANGED <<kicad, lost>>
    BY <1>1, <1>9 DEF SaveState, Folders, bounds
  <2>3. \A u \in Threads : ~ Writes(u)'
    BY <1>1, <1>9, <2>1 DEF SaveState, Stops, Idle, Writes
  <2>4. LayoutIsKnown'
    BY <2>3 DEF LayoutIsKnown, Writes
  <2>5. LayoutChangeIsTold'
    BY <1>9, <2>2 DEF LayoutInv, LayoutIsKnown, LayoutChangeIsTold, SaveState
  <2> QED
    BY <2>4, <2>5 DEF LayoutInv
<1>10. CASE Fail(t)
  BY <1>10, LayoutAfterStopping DEF Fail
<1> QED
  BY <1>4, <1>5, <1>6, <1>7, <1>8, <1>9, <1>10 DEF UpdateStep

LEMMA LayoutKept ==
  ASSUME FolderAssumption, FolderTypes, WritersHoldTheLock, GroupsHaveTheirOwn, LayoutInv,
         [Next]_vars
  PROVE  LayoutInv'
<1>1. CASE UseNewServer
  <2>1. disk'.state.layout = disk.state.layout /\ disk'.groups = disk.groups
    BY <1>1 DEF UseNewServer, FolderTypes, Folders, States
  <2>2. UNCHANGED <<kicad, lost, update>>
    BY <1>1 DEF UseNewServer, bounds
  <2> QED
    BY <2>1, <2>2 DEF LayoutInv, LayoutIsKnown, LayoutChangeIsTold
<1>2. CASE StartKicad
  <2>1. kicad'.groups = disk'.groups /\ UNCHANGED <<disk, update>>
    BY <1>2 DEF StartKicad, FolderTypes
  <2> QED
    BY <2>1 DEF LayoutInv, LayoutIsKnown, LayoutChangeIsTold
<1>3. CASE Place
  <2>1. /\ kicad'.groups = kicad.groups /\ kicad'.starts = kicad.starts
        /\ UNCHANGED <<disk, update, lost>>
    BY <1>3 DEF Place, FolderTypes, bounds
  <2> QED
    BY <2>1 DEF LayoutInv, LayoutIsKnown, LayoutChangeIsTold
<1>4. CASE Restart
  <2>1. \A u \in Threads : update'[u].at = "idle"
    BY <1>4 DEF Restart, Idle
  <2>2. \A u \in Threads : update[u].at = "state" /\ update'[u].at # "state" =>
          lost' \/ update[u].layout = disk.state.layout
    BY <1>4 DEF Restart, Unsaved
  <2> QED
    BY <1>4, <2>1, <2>2, LayoutLeftAlone DEF Restart
<1>5. CASE UNCHANGED <<disk, update, kicad, lost>>
  BY <1>5 DEF LayoutInv, LayoutIsKnown, LayoutChangeIsTold
<1> QED
  BY <1>1, <1>2, <1>3, <1>4, <1>5, UpdateKeepsLayout
     DEF Next, Change, PersonStep, RemoveTeam, AddTeam, Answer, NotSaved, TellThread, vars, bounds

-----------------------------------------------------------------------------
(* The folder's invariant, and who writes.                                 *)

LEMMA FolderInit == FolderAssumption /\ Init => FolderInv
<1> SUFFICES ASSUME FolderAssumption, Init PROVE FolderInv
  OBVIOUS
<1>1. FolderTypes
  BY InitTypes
<1>2. \A t \in Threads : update[t].at = "idle"
  BY DEF Init, Idle
<1>3. WritersHoldTheLock /\ WrittenSoFar /\ LayoutIsKnown
  BY <1>2 DEF WritersHoldTheLock, WrittenSoFar, LayoutIsKnown, Writes
<1>4. NothingIsMissing
  BY DEF Init, NothingIsMissing
<1>5. GroupsHaveTheirOwn /\ PlacedAreFound /\ LayoutChangeIsTold
  BY DEF Init, GroupsHaveTheirOwn, PlacedAreFound, LayoutChangeIsTold
<1> QED
  BY <1>1, <1>3, <1>4, <1>5 DEF FolderInv

LEMMA FolderStep == FolderAssumption /\ FolderInv /\ [Next]_vars => FolderInv'
<1> SUFFICES ASSUME FolderAssumption, FolderInv, [Next]_vars PROVE FolderInv'
  OBVIOUS
<1>1. FolderTypes /\ WritersHoldTheLock /\ FilesInv /\ LayoutInv /\ GroupsHaveTheirOwn
  BY DEF FolderInv, FilesInv, LayoutInv
<1>2. FolderTypes' /\ WritersHoldTheLock'
  BY <1>1, FolderTypesKept, LockKept
<1>3. FilesInv' /\ LayoutInv'
  BY <1>1, FilesKept, LayoutKept
<1> QED
  BY <1>2, <1>3 DEF FolderInv, FilesInv, LayoutInv

\* What the invariant says of the properties.
LEMMA FolderSays ==
  FolderInv => TypeOK /\ NothingIsMissing /\ PlacedPartsResolve
<1> SUFFICES ASSUME FolderInv PROVE TypeOK /\ NothingIsMissing /\ PlacedPartsResolve
  OBVIOUS
<1>1. TypeOK
  <2>1. catalog \in Catalogs /\ catalog.seq <= MaxChanges /\ DOMAIN disk.rows = Tables
    BY DEF FolderInv, FolderTypes, Folders
  <2>2. \A t \in Threads : update[t] \in Updates
    BY DEF FolderInv, FolderTypes
  <2> QED
    BY <2>1, <2>2 DEF FolderInv, FolderTypes, TypeOK, Catalogs, Updates
<1> QED
  BY <1>1 DEF FolderInv, PlacedPartsResolve, PlacedAreFound

\* Every step that writes to the folder is by the server it records, or is the
\* person's answer.
LEMMA FolderWrites == FolderAssumption /\ FolderInv /\ [Next]_vars => ItsServerWrites
<1> SUFFICES ASSUME FolderAssumption, FolderInv, [Next]_vars,
                    disk' # disk, disk.state # NoState
             PROVE  \/ answer.at = "lock" /\ answer'.at = "saved"
                    \/ \E t \in Threads : /\ t \in {lock, lock'}
                                         /\ who[t].team = disk.state.team
                                         /\ who[t].server = disk.state.server
  BY DEF ItsServerWrites
<1>1. ASSUME NEW t \in Threads, TakeLock(t)
      PROVE  lock' = t /\ who[t].team = disk.state.team /\ who[t].server = disk.state.server
  BY <1>1 DEF TakeLock, RefusalUnderLock, Refusal
<1>2. ASSUME NEW t \in Threads,
             \/ WriteFile(t) \/ WriteSymbols(t) \/ SyncDatabase(t)
             \/ WriteGroups(t) \/ SaveState(t)
      PROVE  lock = t /\ who[t].team = disk.state.team /\ who[t].server = disk.state.server
  BY <1>2 DEF FolderInv, WritersHoldTheLock, Writes, WriteFile, WriteSymbols, SyncDatabase,
              WriteGroups, SaveState
<1>3. CASE UseNewServer
  BY <1>3 DEF UseNewServer, FolderInv, FolderTypes
<1> QED
  BY <1>1, <1>2, <1>3
     DEF Next, Change, PersonStep, RemoveTeam, AddTeam, Answer, NotSaved, TellThread, StartKicad,
         Place, Restart, Look, UpdateStep, CheckRefusal, Fail, vars

-----------------------------------------------------------------------------
(* The reviewed layout of a library repo, and its files.                   *)

Commits == Layouts!Commits
Libraries == UNION Scans
Reviews == [commit : Commits, scan : SUBSET Libraries, profile : SUBSET Libraries,
            changed : BOOLEAN, scanned : 0 .. MaxCommits]
CommitFolders == [there : BOOLEAN, complete : BOOLEAN, holds : SUBSET Libraries,
                  for : SUBSET Libraries]

ReviewTypes ==
  /\ scans \in [Commits -> Scans]
  /\ head \in Commits /\ dialog \in 0 .. head
  /\ kept \in Reviews \union {Layouts!NoReview}
  /\ kept.profile \subseteq kept.scan /\ kept.commit <= head
  /\ writing \in Followers \union {"free"}
  /\ follower \in [Followers -> [at : {"idle", "follow", "scan"},
                                 read : Reviews \union {Layouts!NoReview},
                                 commit : 0 .. MaxCommits]]
  /\ {folders, partial} \subseteq [Commits -> CommitFolders]
  /\ writer \in [at : {"idle", "begun", "files"}, commit : 0 .. MaxCommits,
                 left : SUBSET Libraries, for : SUBSET Libraries]
  /\ call \in [at : {"idle", "team", "begin", "ready", "delete"}, teams : 0 .. LayoutTeams,
               commit : 0 .. MaxCommits, profile : SUBSET Libraries, before : 0 .. MaxCommits]
  /\ call.at # "idle" => call.teams # 0
  /\ given \in 0 .. MaxCommits
  /\ saved \in [scan : SUBSET Libraries, profile : SUBSET Libraries]
  /\ layoutEvents \in Nat

\* A follower that scans holds the lock, and what it read is still kept.
FollowersReadWhatIsKept ==
  \A f \in Followers :
    /\ (follower[f].at = "scan") = (writing = f)
    /\ follower[f].at = "scan" =>
         /\ kept # Layouts!NoReview /\ follower[f].read = kept
         /\ follower[f].commit \in 1 .. head

\* What is written and what is left are what the folder is for.
WriterHasItsFolder ==
  writer.at = "files" =>
    /\ writer.commit \in Commits /\ partial[writer.commit].for = writer.for
    /\ partial[writer.commit].holds \union writer.left = writer.for

\* Folders are deleted only while none is written.
DeletionFindsNoWriter == call.at = "delete" => writer = Layouts!NoWriter

ReviewInv ==
  /\ ReviewTypes
  /\ FollowersReadWhatIsKept
  /\ WriterHasItsFolder
  /\ DeletionFindsNoWriter
  /\ Layouts!ReviewIsKept
  /\ Layouts!CompleteFilesAreWhole

\* What the lemmas need of the constants.
ReviewAssumption ==
  {MaxCommits, LayoutTeams} \subseteq Nat \ {0} /\ "free" \notin Followers

\* Values of the types.
LEMMA ReviewValues ==
  ASSUME ReviewAssumption
  PROVE  /\ Commits = 1 .. MaxCommits /\ Commits \subseteq 0 .. MaxCommits
         /\ 0 \in 0 .. MaxCommits /\ 0 \notin Commits /\ 1 \in Commits
         /\ Layouts!NoReview \notin Reviews /\ Layouts!NoReview.commit = 0
         /\ Layouts!NoFolder \in CommitFolders /\ ~ Layouts!NoFolder.complete
         /\ Layouts!NoReview.profile = {} /\ Layouts!NoReview.scan = {}
<1>1. Commits = 1 .. MaxCommits /\ Commits \subseteq 0 .. MaxCommits
      /\ 0 \in 0 .. MaxCommits /\ 0 \notin Commits /\ 1 \in Commits
  BY DEF ReviewAssumption, Commits, Layouts!Commits
<1>2. \A r \in Reviews : r.commit \in Commits
  BY DEF Reviews
<1>3. Layouts!NoReview.commit = 0 /\ Layouts!NoReview.profile = {} /\ Layouts!NoReview.scan = {}
  BY DEF Layouts!NoReview
<1>4. Layouts!NoFolder \in CommitFolders /\ ~ Layouts!NoFolder.complete
  BY DEF Layouts!NoFolder, CommitFolders
<1> QED
  BY <1>1, <1>2, <1>3, <1>4

\* A commit's libraries.
LEMMA ScansAreLibraries ==
  ASSUME ReviewTypes, NEW c \in Commits
  PROVE  scans[c] \in SUBSET Libraries
BY DEF ReviewTypes, Libraries

LEMMA ReviewInit == ReviewAssumption /\ Layouts!Init => ReviewInv
<1> SUFFICES ASSUME ReviewAssumption, Layouts!Init PROVE ReviewInv
  OBVIOUS
<1>1. ReviewTypes
  <2>1. scans \in [Commits -> Scans] /\ head \in Commits /\ dialog \in 0 .. head
    BY ReviewValues DEF Layouts!Init, Commits
  <2>2. kept \in Reviews \union {Layouts!NoReview} /\ kept.profile \subseteq kept.scan
        /\ kept.commit <= head
    BY ReviewValues DEF Layouts!Init
  <2>3. follower \in [Followers -> [at : {"idle", "follow", "scan"},
                                 read : Reviews \union {Layouts!NoReview},
                                 commit : 0 .. MaxCommits]]
    BY ReviewValues DEF Layouts!Init, Layouts!NotFollowing
  <2>4. {folders, partial} \subseteq [Commits -> CommitFolders]
    BY ReviewValues DEF Layouts!Init, Commits
  <2>5. /\ writer \in [at : {"idle", "begun", "files"}, commit : 0 .. MaxCommits,
                       left : SUBSET Libraries, for : SUBSET Libraries]
        /\ call \in [at : {"idle", "team", "begin", "ready", "delete"}, teams : 0 .. LayoutTeams,
               commit : 0 .. MaxCommits, profile : SUBSET Libraries, before : 0 .. MaxCommits]
        /\ call.at = "idle"
    BY ReviewValues DEF Layouts!Init, Layouts!NoWriter, Layouts!NoCall, ReviewAssumption
  <2> QED
    BY <2>1, <2>2, <2>3, <2>4, <2>5, ReviewValues DEF Layouts!Init, ReviewTypes
<1>2. FollowersReadWhatIsKept /\ WriterHasItsFolder /\ DeletionFindsNoWriter
  BY DEF Layouts!Init, Layouts!NotFollowing, Layouts!NoWriter, Layouts!NoCall, ReviewAssumption,
         FollowersReadWhatIsKept, WriterHasItsFolder, DeletionFindsNoWriter
<1>3. Layouts!ReviewIsKept /\ Layouts!CompleteFilesAreWhole
  BY DEF Layouts!Init, Layouts!ReviewIsKept, Layouts!CompleteFilesAreWhole, Layouts!NoFolder
<1> QED
  BY <1>1, <1>2, <1>3 DEF ReviewInv

\* The followers, and the person who reviews.
LEMMA ReviewingKeepsTypes ==
  ASSUME ReviewAssumption, ReviewInv,
         \/ \E f \in Followers : Layouts!Fetch(f) \/ Layouts!StartFollow(f) \/ Layouts!Follow(f)
         \/ Layouts!Review \/ Layouts!UseLayout
  PROVE  ReviewTypes'
<1> DEFINE Doing == [at : {"idle", "follow", "scan"}, read : Reviews \union {Layouts!NoReview},
                     commit : 0 .. MaxCommits]
<1>1. ReviewTypes /\ FollowersReadWhatIsKept /\ follower \in [Followers -> Doing]
  BY DEF ReviewInv, ReviewTypes
<1>2. Layouts!NotFollowing \in Doing /\ [Layouts!NotFollowing EXCEPT !.at = "follow"] \in Doing
  BY ReviewValues DEF Layouts!NotFollowing
<1>3. ASSUME NEW f \in Followers, Layouts!Fetch(f)
      PROVE  ReviewTypes'
  <2>1. follower' \in [Followers -> Doing]
    BY <1>1, <1>2, <1>3 DEF Layouts!Fetch
  <2>2. head' \in Commits /\ head <= head' /\ dialog' \in 0 .. head' /\ kept'.commit <= head'
    BY <1>1, <1>3, ReviewValues DEF Layouts!Fetch, ReviewTypes, Commits, Reviews
  <2> QED
    BY <1>1, <1>3, <2>1, <2>2 DEF ReviewTypes, Layouts!Fetch, Layouts!files
<1>4. ASSUME NEW f \in Followers, Layouts!StartFollow(f)
      PROVE  ReviewTypes'
  <2>1. [at |-> "scan", read |-> kept, commit |-> head] \in Doing
    BY <1>1, ReviewValues DEF ReviewTypes
  <2>2. follower' \in [Followers -> Doing]
    BY <1>1, <1>2, <1>4, <2>1 DEF Layouts!StartFollow
  <2> QED
    BY <1>1, <1>4, <2>2 DEF ReviewTypes, Layouts!StartFollow, Layouts!files
<1>5. ASSUME NEW f \in Followers, Layouts!Follow(f)
      PROVE  ReviewTypes'
  <2>1. follower' \in [Followers -> Doing]
    BY <1>1, <1>2, <1>5 DEF Layouts!Follow
  <2>2. kept' \in Reviews \union {Layouts!NoReview} /\ kept'.profile \subseteq kept'.scan
        /\ kept'.commit <= head
    <3>1. CASE kept' = kept
      BY <1>1, <3>1 DEF ReviewTypes
    <3>2. CASE kept' = Layouts!Followed(follower[f].read, follower[f].commit)
      <4>1. follower[f].read = kept /\ kept \in Reviews /\ follower[f].commit \in 1 .. head
        BY <1>1, <1>5 DEF Layouts!Follow, FollowersReadWhatIsKept, ReviewTypes
      <4>2. follower[f].commit \in Commits /\ follower[f].commit \in 0 .. MaxCommits
            /\ follower[f].commit <= head
        BY <1>1, <4>1, ReviewValues DEF ReviewTypes
      <4> QED
        BY <1>1, <3>2, <4>1, <4>2 DEF Layouts!Followed, Reviews, ReviewTypes
    <3> QED
      BY <1>5, <3>1, <3>2 DEF Layouts!Follow
  <2>3. layoutEvents' \in Nat
    BY <1>1, <1>5 DEF Layouts!Follow, Layouts!Event, ReviewTypes
  <2> QED
    BY <1>1, <1>5, <2>1, <2>2, <2>3 DEF ReviewTypes, Layouts!Follow, Layouts!files
<1>6. CASE Layouts!Review
  BY <1>1, <1>6, ReviewValues DEF ReviewTypes, Layouts!Review, Layouts!files
<1>7. CASE Layouts!UseLayout
  <2>1. dialog \in Commits /\ dialog <= head
    <3>1. head \in 1 .. MaxCommits /\ dialog \in 0 .. head /\ dialog > 0
      BY <1>1, <1>7, ReviewValues DEF ReviewTypes, Layouts!UseLayout
    <3> QED
      BY <3>1, ReviewValues DEF ReviewAssumption
  <2>2. PICK profile \in SUBSET scans[dialog] : Layouts!KeepLayout(profile)
    BY <1>7 DEF Layouts!UseLayout
  <2>3. scans[dialog] \in SUBSET Libraries /\ profile \in SUBSET Libraries
    BY <1>1, <2>1, ScansAreLibraries
  <2>4. kept' \in Reviews /\ kept'.profile \subseteq kept'.scan /\ kept'.commit <= head
    BY <2>1, <2>2, <2>3, ReviewValues DEF Layouts!KeepLayout, Reviews
  <2>5. saved' \in [scan : SUBSET Libraries, profile : SUBSET Libraries]
    BY <2>2, <2>3 DEF Layouts!KeepLayout
  <2>6. dialog' = 0 /\ 0 \in 0 .. head
    BY <1>1, <1>7, ReviewValues DEF ReviewTypes, Layouts!UseLayout
  <2>7. layoutEvents' \in Nat
    BY <1>1, <1>7 DEF Layouts!UseLayout, Layouts!Event, ReviewTypes
  <2> QED
    BY <1>1, <1>7, <2>4, <2>5, <2>6, <2>7, Zenon
       DEF ReviewTypes, Layouts!UseLayout, Layouts!files
<1> QED
  BY <1>3, <1>4, <1>5, <1>6, <1>7

\* The writer of the files, and those who delete them.
LEMMA WritingKeepsReviewTypes ==
  ASSUME ReviewAssumption, ReviewInv, Layouts!WriterStep \/ Layouts!DeleteUnlinked
  PROVE  ReviewTypes'
<1> DEFINE Writers == [at : {"idle", "begun", "files"}, commit : 0 .. MaxCommits,
                       left : SUBSET Libraries, for : SUBSET Libraries]
<1>1. /\ ReviewTypes /\ WriterHasItsFolder /\ writer \in Writers
      /\ folders \in [Commits -> CommitFolders] /\ partial \in [Commits -> CommitFolders]
  BY DEF ReviewInv, ReviewTypes
<1>2. Layouts!NoWriter \in Writers
  BY ReviewValues DEF Layouts!NoWriter
<1>3. CASE Layouts!StartWriting
  <2>1. CASE writer' = Layouts!NoWriter /\ UNCHANGED partial
    BY <1>1, <1>2, <1>3, <2>1 DEF Layouts!StartWriting, Layouts!Write, ReviewTypes, Layouts!layout
  <2>2. CASE /\ kept # Layouts!NoReview
             /\ partial' = [partial EXCEPT ![kept.commit] =
                  [Layouts!NoFolder EXCEPT !.there = TRUE, !.for = kept.profile]]
             /\ writer' = [at |-> "files", commit |-> kept.commit, left |-> kept.profile,
                           for |-> kept.profile]
    <3>1. kept.commit \in Commits /\ kept.profile \in SUBSET Libraries
      BY <1>1, <2>2 DEF ReviewTypes, Reviews
    <3>2. [Layouts!NoFolder EXCEPT !.there = TRUE, !.for = kept.profile] \in CommitFolders
      BY <3>1, ReviewValues DEF CommitFolders
    <3>3. partial' \in [Commits -> CommitFolders]
      BY <1>1, <2>2, <3>2
    <3>4. writer' \in Writers
      BY <2>2, <3>1, ReviewValues
    <3> QED
      BY <1>1, <1>3, <3>3, <3>4 DEF Layouts!StartWriting, Layouts!Write, ReviewTypes, Layouts!layout
  <2> QED
    BY <1>3, <2>1, <2>2 DEF Layouts!StartWriting, Layouts!Write
<1>4. CASE Layouts!WriteFile
  <2>1. PICK library \in writer.left :
          /\ partial' = [partial EXCEPT ![writer.commit].there = TRUE,
                                        ![writer.commit].for = writer.for,
                                        ![writer.commit].holds = @ \union {library}]
          /\ writer' = [writer EXCEPT !.left = @ \ {library}]
    BY <1>4 DEF Layouts!WriteFile, Layouts!Write
  <2>2. writer.commit \in Commits /\ partial[writer.commit] \in CommitFolders
    BY <1>1, <1>4 DEF Layouts!WriteFile, WriterHasItsFolder
  <2>3. /\ partial[writer.commit].holds \union {library} \in SUBSET Libraries
        /\ writer.left \ {library} \in SUBSET Libraries /\ writer.for \in SUBSET Libraries
    BY <1>1, <2>2 DEF CommitFolders
  <2>4. writer' \in Writers
    BY <1>1, <2>1, <2>3
  <2>5. partial' \in [Commits -> CommitFolders]
    <3>1. [partial[writer.commit] EXCEPT !.there = TRUE, !.for = writer.for,
             !.holds = partial[writer.commit].holds \union {library}] \in CommitFolders
      BY <2>2, <2>3 DEF CommitFolders
    <3>2. partial' = [partial EXCEPT ![writer.commit] =
            [partial[writer.commit] EXCEPT !.there = TRUE, !.for = writer.for,
               !.holds = partial[writer.commit].holds \union {library}]]
      BY <1>1, <2>1, <2>2
    <3> QED
      BY <1>1, <3>1, <3>2
  <2> QED
    BY <1>1, <1>4, <2>4, <2>5 DEF Layouts!WriteFile, Layouts!Write, ReviewTypes, Layouts!layout
<1>5. CASE Layouts!Complete
  <2>1. writer.commit \in Commits /\ partial[writer.commit] \in CommitFolders
    BY <1>1, <1>5 DEF Layouts!Complete, WriterHasItsFolder
  <2>2. [partial[writer.commit] EXCEPT !.complete = TRUE] \in CommitFolders
    BY <2>1 DEF CommitFolders
  <2>3. folders' \in [Commits -> CommitFolders] /\ partial' \in [Commits -> CommitFolders]
    BY <1>1, <1>5, <2>2, ReviewValues DEF Layouts!Complete
  <2> QED
    BY <1>1, <1>2, <1>5, <2>3 DEF Layouts!Complete, Layouts!Write, ReviewTypes, Layouts!layout
<1>6. CASE Layouts!WriteFails
  <2>1. writer' \in Writers /\ layoutEvents' \in Nat
    BY <1>1, <1>2, <1>6 DEF Layouts!WriteFails, Layouts!Write, Layouts!Event, ReviewTypes
  <2> QED
    BY <1>1, <1>6, <2>1 DEF Layouts!WriteFails, Layouts!Write, ReviewTypes, Layouts!layout
<1>7. CASE Layouts!DeleteUnlinked
  <2>1. kept' \in Reviews \union {Layouts!NoReview} /\ kept'.profile \subseteq kept'.scan
        /\ kept'.commit <= head
    BY <1>1, <1>7, ReviewValues DEF Layouts!DeleteUnlinked, ReviewTypes
  <2>2. {folders', partial'} \subseteq [Commits -> CommitFolders]
    BY <1>7, ReviewValues DEF Layouts!DeleteUnlinked, Commits
  <2>3. layoutEvents' \in Nat
    BY <1>1, <1>7 DEF Layouts!DeleteUnlinked, Layouts!Event, ReviewTypes
  <2> QED
    BY <1>1, <1>7, <2>1, <2>2, <2>3 DEF Layouts!DeleteUnlinked, ReviewTypes
<1> QED
  BY <1>3, <1>4, <1>5, <1>6, <1>7 DEF Layouts!WriterStep

\* The browser's calls, and the app that ends.
LEMMA BrowsingKeepsTypes ==
  ASSUME ReviewAssumption, ReviewInv, Layouts!CallStep \/ Layouts!Restart
  PROVE  ReviewTypes'
<1> DEFINE Calls == [at : {"idle", "team", "begin", "ready", "delete"}, teams : 0 .. LayoutTeams,
               commit : 0 .. MaxCommits, profile : SUBSET Libraries, before : 0 .. MaxCommits]
           Called(c) == c \in Calls /\ (c.at # "idle" => c.teams # 0)
<1>1. ReviewTypes /\ Called(call)
  BY DEF ReviewInv, ReviewTypes
<1>2. LayoutTeams \in Nat \ {0} /\ Called(Layouts!NoCall)
      /\ Called([Layouts!NoCall EXCEPT !.at = "team", !.teams = LayoutTeams])
  <2>1. /\ LayoutTeams \in Nat \ {0} /\ 0 \in 0 .. LayoutTeams
        /\ LayoutTeams \in 0 .. LayoutTeams /\ LayoutTeams # 0
    BY DEF ReviewAssumption
  <2> QED
    BY <2>1, ReviewValues DEF Layouts!NoCall
<1>3. ASSUME call.at # "idle"
      PROVE  Called(Layouts!Next1)
  <2>1. CASE call.teams = 1
    BY <1>2, <2>1 DEF Layouts!Next1
  <2>2. CASE call.teams # 1
    <3>1. call.teams - 1 \in 0 .. LayoutTeams /\ call.teams - 1 # 0
      BY <1>1, <1>2, <1>3, <2>2
    <3> QED
      BY <1>2, <2>2, <3>1 DEF Layouts!Next1, Layouts!NoCall
  <2> QED
    BY <2>1, <2>2
<1>4. CASE Layouts!Browse
  BY <1>1, <1>2, <1>4 DEF Layouts!Browse, ReviewTypes, Layouts!layout
<1>5. CASE Layouts!Browsable
  <2>1. Called(call')
    <3>1. CASE kept = Layouts!NoReview
      BY <1>3, <1>5, <3>1 DEF Layouts!Browsable
    <3>2. CASE kept # Layouts!NoReview
      <4>1. kept.commit \in 0 .. MaxCommits /\ kept.profile \in SUBSET Libraries
        BY <1>1, <3>2, ReviewValues DEF ReviewTypes, Reviews
      <4> QED
        BY <1>1, <1>5, <3>2, <4>1 DEF Layouts!Browsable
    <3> QED
      BY <3>1, <3>2
  <2> QED
    BY <1>1, <1>5, <2>1 DEF Layouts!Browsable, ReviewTypes, Layouts!layout
<1>6. CASE Layouts!BeginWriting
  <2>1. writer' \in [at : {"idle", "begun", "files"}, commit : 0 .. MaxCommits,
                     left : SUBSET Libraries, for : SUBSET Libraries]
    BY <1>1, <1>6, ReviewValues DEF Layouts!BeginWriting, Layouts!NoWriter, ReviewTypes
  <2> QED
    BY <1>1, <1>3, <1>6, <2>1 DEF Layouts!BeginWriting, ReviewTypes, Layouts!layout
<1>7. CASE Layouts!Ready
  <2>1. Called(call') /\ given' \in 0 .. MaxCommits
    <3>1. CASE call' = Layouts!Next1
      BY <1>1, <1>3, <1>7, <3>1 DEF Layouts!Ready, ReviewTypes
    <3>2. CASE call' = [call EXCEPT !.at = "delete", !.before = given]
      BY <1>1, <1>7, <3>2 DEF Layouts!Ready, ReviewTypes
    <3> QED
      BY <1>7, <3>1, <3>2 DEF Layouts!Ready
  <2> QED
    BY <1>1, <1>7, <2>1 DEF Layouts!Ready, ReviewTypes, Layouts!layout
<1>8. CASE Layouts!DeleteOtherCommits
  <2>1. {folders', partial'} \subseteq [Commits -> CommitFolders]
    BY <1>1, <1>8, ReviewValues DEF Layouts!DeleteOtherCommits, Commits, ReviewTypes
  <2> QED
    BY <1>1, <1>3, <1>8, <2>1 DEF Layouts!DeleteOtherCommits, ReviewTypes, Layouts!layout
<1>9. CASE Layouts!Restart
  <2>1. follower' \in [Followers -> [at : {"idle", "follow", "scan"},
                                 read : Reviews \union {Layouts!NoReview},
                                 commit : 0 .. MaxCommits]]
    BY <1>9, ReviewValues DEF Layouts!Restart, Layouts!NotFollowing
  <2>2. writer' \in [at : {"idle", "begun", "files"}, commit : 0 .. MaxCommits,
                     left : SUBSET Libraries, for : SUBSET Libraries]
    BY <1>9, ReviewValues DEF Layouts!Restart, Layouts!NoWriter
  <2>3. dialog' \in 0 .. head /\ given' \in 0 .. MaxCommits /\ layoutEvents' \in Nat
    BY <1>1, <1>9, ReviewValues DEF Layouts!Restart, Layouts!Event, ReviewTypes
  <2> QED
    BY <1>1, <1>2, <1>9, <2>1, <2>2, <2>3 DEF Layouts!Restart, ReviewTypes
<1> QED
  BY <1>4, <1>5, <1>6, <1>7, <1>8, <1>9 DEF Layouts!CallStep

\* A follower that moves the layout has read what is kept, and the person
\* keeps nothing meanwhile.
LEMMA ReviewIsKeptByStep ==
  ASSUME ReviewAssumption, ReviewInv, Layouts!Next
  PROVE  FollowersReadWhatIsKept' /\ Layouts!ReviewIsKept'
<1>1. ReviewTypes /\ FollowersReadWhatIsKept /\ Layouts!ReviewIsKept
  BY DEF ReviewInv
<1>2. ASSUME NEW f \in Followers, Layouts!Fetch(f)
      PROVE  FollowersReadWhatIsKept' /\ Layouts!ReviewIsKept'
  <2>1. /\ \A g \in Followers : g # f => follower'[g] = follower[g]
        /\ follower[f].at # "scan" /\ follower'[f].at # "scan"
        /\ UNCHANGED <<kept, writing, scans, saved>>
        /\ head \in 1 .. MaxCommits /\ head' \in 1 .. MaxCommits /\ head <= head'
    BY <1>1, <1>2, ReviewValues
       DEF Layouts!Fetch, ReviewTypes, Layouts!NotFollowing, ReviewAssumption, Commits
  <2>2. FollowersReadWhatIsKept'
    BY <1>1, <2>1 DEF FollowersReadWhatIsKept, ReviewAssumption
  <2> QED
    BY <1>1, <2>1, <2>2 DEF Layouts!ReviewIsKept
<1>3. ASSUME NEW f \in Followers, Layouts!StartFollow(f)
      PROVE  FollowersReadWhatIsKept' /\ Layouts!ReviewIsKept'
  <2>1. /\ \A g \in Followers : g # f => follower'[g] = follower[g]
        /\ writing = "free" /\ UNCHANGED <<head, kept, scans, saved>>
    BY <1>1, <1>3 DEF Layouts!StartFollow, ReviewTypes
  <2>2. CASE follower'[f].at # "scan" /\ writing' = writing
    BY <1>1, <1>3, <2>1, <2>2
       DEF FollowersReadWhatIsKept, Layouts!ReviewIsKept, Layouts!StartFollow, ReviewAssumption
  <2>3. CASE follower'[f] = [at |-> "scan", read |-> kept, commit |-> head] /\ writing' = f
             /\ kept # Layouts!NoReview
    <3>1. head \in 1 .. head
      BY <1>1, ReviewValues DEF ReviewTypes, ReviewAssumption
    <3> QED
      BY <1>1, <2>1, <2>3, <3>1
         DEF FollowersReadWhatIsKept, Layouts!ReviewIsKept, ReviewAssumption
  <2> QED
    BY <1>1, <1>3, <2>2, <2>3 DEF Layouts!StartFollow, ReviewTypes, Layouts!NotFollowing
<1>4. ASSUME NEW f \in Followers, Layouts!Follow(f)
      PROVE  FollowersReadWhatIsKept' /\ Layouts!ReviewIsKept'
  <2>1. /\ \A g \in Followers : g # f => follower'[g] = follower[g] /\ follower[g].at # "scan"
        /\ follower'[f].at # "scan" /\ writing' = "free" /\ UNCHANGED <<scans, saved>>
        /\ kept # Layouts!NoReview /\ follower[f].read = kept
    BY <1>1, <1>4
       DEF Layouts!Follow, ReviewTypes, FollowersReadWhatIsKept, Layouts!NotFollowing
  <2>2. FollowersReadWhatIsKept'
    BY <2>1 DEF FollowersReadWhatIsKept, ReviewAssumption
  <2>3. CASE kept' = Layouts!Followed(kept, follower[f].commit)
    <3>1. kept \in Reviews
      BY <1>1, <2>1 DEF ReviewTypes
    <3>2. kept'.profile = kept.profile /\ kept'.scan = kept.scan
          /\ (kept'.commit = kept.commit \/ scans[kept'.commit] = kept.scan)
      BY <2>3, <3>1 DEF Layouts!Followed, Reviews
    <3> QED
      BY <1>1, <2>1, <2>2, <3>2 DEF Layouts!ReviewIsKept
  <2>4. CASE kept' = kept
    BY <1>1, <2>1, <2>2, <2>4 DEF Layouts!ReviewIsKept
  <2> QED
    BY <1>4, <2>1, <2>3, <2>4 DEF Layouts!Follow
<1>5. CASE Layouts!UseLayout
  <2>1. /\ writing = "free" /\ UNCHANGED <<follower, writing, scans, head>>
        /\ kept'.profile = saved'.profile /\ kept'.scan = scans[kept'.commit]
        /\ saved'.scan = kept'.scan
    BY <1>5 DEF Layouts!UseLayout, Layouts!KeepLayout
  <2>2. \A f \in Followers : follower[f].at # "scan"
    BY <1>1, <2>1 DEF FollowersReadWhatIsKept, ReviewAssumption
  <2> QED
    BY <1>1, <2>1, <2>2 DEF FollowersReadWhatIsKept, Layouts!ReviewIsKept
<1>6. CASE Layouts!DeleteUnlinked
  <2>1. /\ writing = "free" /\ UNCHANGED <<follower, writing, head>> /\ kept' = Layouts!NoReview
    BY <1>6 DEF Layouts!DeleteUnlinked
  <2>2. \A f \in Followers : follower[f].at # "scan"
    BY <1>1, <2>1 DEF FollowersReadWhatIsKept, ReviewAssumption
  <2> QED
    BY <1>1, <2>1, <2>2 DEF FollowersReadWhatIsKept, Layouts!ReviewIsKept
<1>7. CASE Layouts!Restart
  BY <1>1, <1>7 DEF Layouts!Restart, FollowersReadWhatIsKept, Layouts!ReviewIsKept,
                    Layouts!NotFollowing, ReviewAssumption
<1>8. CASE UNCHANGED <<follower, writing, kept, scans, head, saved>>
  BY <1>1, <1>8 DEF FollowersReadWhatIsKept, Layouts!ReviewIsKept
<1> QED
  BY <1>2, <1>3, <1>4, <1>5, <1>6, <1>7, <1>8
     DEF Layouts!Next, Layouts!Review, Layouts!WriterStep, Layouts!StartWriting,
         Layouts!WriteFile, Layouts!Complete, Layouts!WriteFails, Layouts!Write,
         Layouts!CallStep, Layouts!Browse, Layouts!Browsable, Layouts!BeginWriting,
         Layouts!Ready, Layouts!DeleteOtherCommits, Layouts!layout

\* Whoever deletes folders meanwhile.
LEMMA FilesAreWholeByStep ==
  ASSUME ReviewAssumption, ReviewInv, Layouts!Next
  PROVE  WriterHasItsFolder' /\ DeletionFindsNoWriter' /\ Layouts!CompleteFilesAreWhole'
<1>1. /\ ReviewTypes /\ WriterHasItsFolder /\ DeletionFindsNoWriter
      /\ Layouts!CompleteFilesAreWhole
      /\ folders \in [Commits -> CommitFolders] /\ partial \in [Commits -> CommitFolders]
      /\ Commits = Layouts!Commits
  BY DEF ReviewInv, ReviewTypes, Commits
<1>2. ASSUME Layouts!WriterStep
      PROVE  writer.at # "idle" /\ call' = call /\ call.at # "delete"
  <2>1. writer.at # "idle" /\ call' = call
    BY <1>2 DEF Layouts!WriterStep, Layouts!StartWriting, Layouts!WriteFile, Layouts!Complete,
                Layouts!WriteFails, Layouts!Write
  <2>2. Layouts!NoWriter.at = "idle"
    BY DEF Layouts!NoWriter
  <2> QED
    BY <1>1, <2>1, <2>2 DEF DeletionFindsNoWriter
<1>3. CASE Layouts!StartWriting
  <2>1. CASE writer' = Layouts!NoWriter /\ UNCHANGED <<partial, folders>>
    BY <1>1, <1>2, <1>3, <2>1 DEF Layouts!WriterStep, WriterHasItsFolder, DeletionFindsNoWriter,
                             Layouts!CompleteFilesAreWhole, Layouts!NoWriter
  <2>2. CASE /\ kept # Layouts!NoReview
             /\ partial' = [partial EXCEPT ![kept.commit] =
                  [Layouts!NoFolder EXCEPT !.there = TRUE, !.for = kept.profile]]
             /\ writer' = [at |-> "files", commit |-> kept.commit, left |-> kept.profile,
                           for |-> kept.profile]
             /\ UNCHANGED folders
    <3>1. kept.commit \in Commits
      BY <1>1, <2>2 DEF ReviewTypes, Reviews
    <3>2. partial'[kept.commit].for = kept.profile /\ partial'[kept.commit].holds = {}
      BY <1>1, <2>2, <3>1 DEF Layouts!NoFolder
    <3>3. WriterHasItsFolder'
      BY <2>2, <3>1, <3>2 DEF WriterHasItsFolder
    <3> QED
      BY <1>1, <1>2, <1>3, <2>2, <3>3
         DEF Layouts!WriterStep, DeletionFindsNoWriter, Layouts!CompleteFilesAreWhole
  <2> QED
    BY <1>3, <2>1, <2>2 DEF Layouts!StartWriting, Layouts!Write
<1>4. CASE Layouts!WriteFile
  <2>1. PICK library \in writer.left :
          /\ partial' = [partial EXCEPT ![writer.commit].there = TRUE,
                                        ![writer.commit].for = writer.for,
                                        ![writer.commit].holds = @ \union {library}]
          /\ writer' = [writer EXCEPT !.left = @ \ {library}]
    BY <1>4 DEF Layouts!WriteFile, Layouts!Write
  <2>2. writer.commit \in Commits /\ partial[writer.commit].holds \union writer.left = writer.for
    BY <1>1, <1>4 DEF Layouts!WriteFile, WriterHasItsFolder
  <2>3. /\ partial'[writer.commit].for = writer.for
        /\ partial'[writer.commit].holds = partial[writer.commit].holds \union {library}
    BY <1>1, <2>1, <2>2 DEF CommitFolders
  <2>4. writer'.commit = writer.commit /\ writer'.for = writer.for
        /\ writer'.left = writer.left \ {library}
    BY <1>1, <2>1 DEF ReviewTypes
  <2>5. WriterHasItsFolder'
    BY <2>2, <2>3, <2>4 DEF WriterHasItsFolder
  <2> QED
    BY <1>1, <1>2, <1>4, <2>5 DEF Layouts!WriterStep, Layouts!WriteFile, DeletionFindsNoWriter,
                                  Layouts!CompleteFilesAreWhole
<1>5. CASE Layouts!Complete
  <2>1. /\ writer.commit \in Commits /\ writer.left = {}
        /\ partial[writer.commit].holds = partial[writer.commit].for
        /\ folders' = [folders EXCEPT
             ![writer.commit] = [partial[writer.commit] EXCEPT !.complete = TRUE]]
        /\ writer' = Layouts!NoWriter
    BY <1>1, <1>5 DEF Layouts!Complete, Layouts!Write, WriterHasItsFolder
  <2>2. /\ folders'[writer.commit].holds = partial[writer.commit].holds
        /\ folders'[writer.commit].for = partial[writer.commit].for
    BY <1>1, <2>1 DEF CommitFolders
  <2>3. \A c \in Commits : c # writer.commit => folders'[c] = folders[c]
    BY <1>1, <2>1
  <2>4. Layouts!CompleteFilesAreWhole'
    BY <1>1, <2>1, <2>2, <2>3 DEF Layouts!CompleteFilesAreWhole
  <2> QED
    BY <1>2, <1>5, <2>1, <2>4 DEF Layouts!WriterStep, WriterHasItsFolder, DeletionFindsNoWriter,
                                  Layouts!NoWriter
<1>6. CASE Layouts!WriteFails
  BY <1>1, <1>2, <1>6 DEF Layouts!WriterStep, Layouts!WriteFails, Layouts!Write, Layouts!NoWriter,
                     WriterHasItsFolder, DeletionFindsNoWriter, Layouts!CompleteFilesAreWhole
<1>7. CASE Layouts!DeleteUnlinked
  <2>1. /\ writer = Layouts!NoWriter /\ UNCHANGED <<writer, call>>
        /\ \A c \in Commits : ~ folders'[c].complete
    BY <1>1, <1>7, ReviewValues DEF Layouts!DeleteUnlinked
  <2> QED
    BY <1>1, <2>1 DEF WriterHasItsFolder, DeletionFindsNoWriter, Layouts!CompleteFilesAreWhole,
                      Layouts!NoWriter
<1>8. CASE Layouts!BeginWriting
  <2>1. call'.at # "delete" /\ UNCHANGED <<folders, partial>>
    BY <1>8 DEF Layouts!BeginWriting, Layouts!Next1, Layouts!NoCall
  <2>2. writer' = writer \/ writer'.at = "begun"
    BY <1>8 DEF Layouts!BeginWriting, Layouts!NoWriter
  <2> QED
    BY <1>1, <2>1, <2>2
       DEF WriterHasItsFolder, DeletionFindsNoWriter, Layouts!CompleteFilesAreWhole
<1>9. CASE Layouts!Browse \/ Layouts!Browsable \/ Layouts!Ready
  <2>1. Layouts!Next1.at # "delete"
    BY DEF Layouts!Next1, Layouts!NoCall
  <2>2. CASE Layouts!Browse
    BY <1>1, <2>2 DEF Layouts!Browse, Layouts!NoCall, WriterHasItsFolder, DeletionFindsNoWriter,
                      Layouts!CompleteFilesAreWhole
  <2>3. CASE Layouts!Browsable
    <3>1. call' = Layouts!Next1 \/ call'.at \in {"ready", "begin"}
      BY <1>1, <2>3 DEF Layouts!Browsable, ReviewTypes
    <3> QED
      BY <1>1, <2>1, <2>3, <3>1 DEF Layouts!Browsable, WriterHasItsFolder, DeletionFindsNoWriter,
                                    Layouts!CompleteFilesAreWhole
  <2>4. CASE Layouts!Ready
    BY <1>1, <2>1, <2>4 DEF Layouts!Ready, Layouts!MayDelete, WriterHasItsFolder,
                            DeletionFindsNoWriter, Layouts!CompleteFilesAreWhole
  <2> QED
    BY <1>9, <2>2, <2>3, <2>4
<1>10. CASE Layouts!DeleteOtherCommits
  <2>1. writer = Layouts!NoWriter /\ writer' = writer /\ call'.at # "delete"
    BY <1>1, <1>10
       DEF Layouts!DeleteOtherCommits, DeletionFindsNoWriter, Layouts!Next1, Layouts!NoCall
  <2>2. \A c \in Commits : folders'[c] = folders[c] \/ ~ folders'[c].complete
    BY <1>1, <1>10, ReviewValues DEF Layouts!DeleteOtherCommits
  <2> QED
    BY <1>1, <2>1, <2>2 DEF WriterHasItsFolder, DeletionFindsNoWriter,
                            Layouts!CompleteFilesAreWhole, Layouts!NoWriter
<1>11. CASE Layouts!Restart
  BY <1>1, <1>11 DEF Layouts!Restart, WriterHasItsFolder, DeletionFindsNoWriter,
                     Layouts!CompleteFilesAreWhole, Layouts!NoWriter, Layouts!NoCall
<1>12. CASE UNCHANGED <<folders, partial, writer, call>>
  BY <1>1, <1>12 DEF WriterHasItsFolder, DeletionFindsNoWriter, Layouts!CompleteFilesAreWhole
<1> QED
  BY <1>3, <1>4, <1>5, <1>6, <1>7, <1>8, <1>9, <1>10, <1>11, <1>12
     DEF Layouts!Next, Layouts!Fetch, Layouts!StartFollow, Layouts!Follow, Layouts!Review,
         Layouts!UseLayout, Layouts!WriterStep, Layouts!CallStep, Layouts!files

LEMMA ReviewStep == ReviewAssumption /\ ReviewInv /\ [Layouts!Next]_Layouts!vars => ReviewInv'
<1> SUFFICES ASSUME ReviewAssumption, ReviewInv, [Layouts!Next]_Layouts!vars PROVE ReviewInv'
  OBVIOUS
<1>1. CASE Layouts!Next
  <2>1. ReviewTypes'
    BY <1>1, ReviewingKeepsTypes, WritingKeepsReviewTypes, BrowsingKeepsTypes DEF Layouts!Next
  <2> QED
    BY <1>1, <2>1, ReviewIsKeptByStep, FilesAreWholeByStep DEF ReviewInv
<1>2. CASE UNCHANGED Layouts!vars
  BY <1>2 DEF Layouts!vars, Layouts!layout, Layouts!files, ReviewInv, ReviewTypes,
              FollowersReadWhatIsKept, WriterHasItsFolder, DeletionFindsNoWriter,
              Layouts!ReviewIsKept, Layouts!CompleteFilesAreWhole
<1> QED
  BY <1>1, <1>2

LEMMA ReviewSays ==
  ReviewAssumption /\ ReviewInv =>
    Layouts!TypeOK /\ Layouts!ReviewIsKept /\ Layouts!CompleteFilesAreWhole
<1> SUFFICES ASSUME ReviewAssumption, ReviewInv PROVE Layouts!TypeOK
  BY DEF ReviewInv
<1>1. ReviewTypes /\ FollowersReadWhatIsKept
  BY DEF ReviewInv
<1>2. head \in Layouts!Commits /\ dialog \in 0 .. head /\ kept.commit \in 0 .. head
      /\ kept.profile \subseteq kept.scan
  BY <1>1, ReviewValues DEF ReviewTypes, Commits, Reviews, Layouts!NoReview, ReviewAssumption
<1>3. \A f \in Followers : /\ follower[f].at \in {"idle", "follow", "scan"}
                           /\ (follower[f].at = "scan") = (writing = f)
  BY <1>1 DEF ReviewTypes, FollowersReadWhatIsKept
<1>4. \A c \in Layouts!Commits : partial[c].holds \union folders[c].holds \subseteq UNION Scans
  BY <1>1 DEF ReviewTypes, Commits, CommitFolders, Libraries
<1> QED
  BY <1>1, <1>2, <1>3, <1>4 DEF ReviewTypes, Layouts!TypeOK

-----------------------------------------------------------------------------
(* When files that are ready hold the profile.                             *)

\* The person keeps a layout with other libraries than the files there, or the
\* files being written, were written for.
KeepsOverOtherFiles ==
  /\ Layouts!UseLayout
  /\ \/ \E c \in Commits : folders[c].complete /\ folders[c].for # kept'.profile
     \/ writer.at = "files" /\ writer.for # kept'.profile

\* Files are for the profile kept, and are not written where they are whole;
\* a folder found ready holds what was asked, or was deleted with the link.
FilesFitTheReview ==
  /\ kept = Layouts!NoReview =>
       writer.at # "files" /\ \A c \in Commits : ~ folders[c].complete
  /\ \A c \in Commits : folders[c].complete => folders[c].for = kept.profile
  /\ writer.at = "files" => writer.for = kept.profile /\ ~ folders[writer.commit].complete
  /\ call.at = "ready" =>
       /\ call.commit \in Commits
       /\ IF folders[call.commit].complete THEN call.profile \subseteq folders[call.commit].holds
          ELSE writer = Layouts!NoWriter

LEMMA FilesFitByStep ==
  ASSUME ReviewAssumption, ReviewInv, FilesFitTheReview, Layouts!Next, ~ KeepsOverOtherFiles
  PROVE  FilesFitTheReview'
<1>1. /\ ReviewTypes /\ WriterHasItsFolder /\ DeletionFindsNoWriter /\ FollowersReadWhatIsKept
      /\ Layouts!CompleteFilesAreWhole
      /\ folders \in [Commits -> CommitFolders] /\ partial \in [Commits -> CommitFolders]
      /\ Commits = Layouts!Commits /\ kept \in Reviews \union {Layouts!NoReview}
  BY DEF ReviewInv, ReviewTypes, Commits
<1>2. /\ Layouts!NoWriter.at = "idle" /\ Layouts!NoReview.commit = 0 /\ 0 \notin Commits
      /\ ~ Layouts!NoFolder.complete
      /\ Layouts!Next1.at \in {"idle", "team"}
  BY ReviewValues DEF Layouts!NoWriter, Layouts!Next1, Layouts!NoCall
<1>3. kept # Layouts!NoReview => kept.commit \in Commits
  BY <1>1 DEF Reviews
<1>4. ASSUME NEW f \in Followers, Layouts!Follow(f)
      PROVE  FilesFitTheReview'
  <2>1. /\ follower[f].read = kept /\ kept # Layouts!NoReview
        /\ follower[f].commit \in 1 .. head
        /\ UNCHANGED <<folders, partial, writer, call>>
    BY <1>1, <1>4 DEF Layouts!Follow, FollowersReadWhatIsKept, Layouts!files
  <2>2. kept \in Reviews
    BY <1>1, <2>1
  <2>3. kept'.profile = kept.profile /\ kept'.commit # 0
    <3>1. CASE kept' = kept
      BY <1>2, <1>3, <2>1, <3>1
    <3>2. CASE kept' = Layouts!Followed(kept, follower[f].commit)
      BY <1>2, <1>3, <2>1, <2>2, <3>2 DEF Layouts!Followed, Reviews
    <3> QED
      BY <1>4, <2>1, <3>1, <3>2 DEF Layouts!Follow
  <2> QED
    BY <1>2, <2>1, <2>3 DEF FilesFitTheReview
<1>5. CASE Layouts!UseLayout
  <2>1. kept'.commit # 0 /\ UNCHANGED <<folders, partial, writer, call>>
    BY <1>5 DEF Layouts!UseLayout, Layouts!KeepLayout, Layouts!files
  <2>2. /\ \A c \in Commits : folders[c].complete => folders[c].for = kept'.profile
        /\ writer.at = "files" => writer.for = kept'.profile
    BY <1>5 DEF KeepsOverOtherFiles
  <2> QED
    BY <1>2, <2>1, <2>2 DEF FilesFitTheReview
<1>6. CASE Layouts!DeleteUnlinked
  <2>1. /\ writer = Layouts!NoWriter /\ UNCHANGED <<writer, call>>
        /\ \A c \in Commits : ~ folders'[c].complete
    BY <1>1, <1>2, <1>6 DEF Layouts!DeleteUnlinked
  <2> QED
    BY <1>2, <2>1 DEF FilesFitTheReview
<1>7. CASE Layouts!StartWriting
  <2>1. UNCHANGED <<kept, folders, call>> /\ writer.at = "begun"
    BY <1>7 DEF Layouts!StartWriting, Layouts!Write, Layouts!layout
  <2>2. CASE writer' = Layouts!NoWriter
    BY <1>2, <2>1, <2>2 DEF FilesFitTheReview
  <2>3. CASE /\ kept # Layouts!NoReview /\ ~ folders[kept.commit].complete
             /\ writer' = [at |-> "files", commit |-> kept.commit, left |-> kept.profile,
                           for |-> kept.profile]
    <3>1. writer # Layouts!NoWriter
      BY <1>2, <2>1
    <3> QED
      BY <2>1, <2>3, <3>1 DEF FilesFitTheReview
  <2> QED
    BY <1>7, <2>2, <2>3 DEF Layouts!StartWriting, Layouts!Write
<1>8. CASE Layouts!WriteFile
  <2>1. /\ UNCHANGED <<kept, folders, call>> /\ writer.at = "files"
        /\ writer'.at = writer.at /\ writer'.commit = writer.commit /\ writer'.for = writer.for
    BY <1>1, <1>8 DEF Layouts!WriteFile, Layouts!Write, Layouts!layout, ReviewTypes
  <2> QED
    BY <1>2, <2>1 DEF FilesFitTheReview
<1>9. CASE Layouts!Complete
  <2>1. /\ writer.at = "files" /\ writer.commit \in Commits /\ partial[writer.commit].for = writer.for
        /\ folders' = [folders EXCEPT
             ![writer.commit] = [partial[writer.commit] EXCEPT !.complete = TRUE]]
        /\ writer' = Layouts!NoWriter /\ UNCHANGED <<kept, call>>
    BY <1>1, <1>9 DEF Layouts!Complete, Layouts!Write, WriterHasItsFolder, Layouts!layout
  <2>2. folders'[writer.commit].for = writer.for
    BY <1>1, <2>1 DEF CommitFolders
  <2>3. \A c \in Commits : c # writer.commit => folders'[c] = folders[c]
    BY <1>1, <2>1
  <2>4. kept # Layouts!NoReview
    BY <2>1 DEF FilesFitTheReview
  <2>5. call.at = "ready" => call.commit # writer.commit
    BY <1>2, <2>1 DEF FilesFitTheReview
  <2>6. \A c \in Commits : folders'[c].complete => folders'[c].for = kept'.profile
    BY <2>1, <2>2, <2>3 DEF FilesFitTheReview
  <2> QED
    BY <1>2, <2>1, <2>3, <2>4, <2>5, <2>6 DEF FilesFitTheReview
<1>10. CASE Layouts!WriteFails
  BY <1>2, <1>10 DEF Layouts!WriteFails, Layouts!Write, Layouts!layout, FilesFitTheReview
<1>11. CASE Layouts!Browse
  BY <1>11 DEF Layouts!Browse, Layouts!layout, Layouts!NoCall, FilesFitTheReview
<1>12. CASE Layouts!Browsable
  <2>1. UNCHANGED <<kept, folders, writer>>
    BY <1>12 DEF Layouts!Browsable, Layouts!layout
  <2>2. CASE call'.at # "ready"
    BY <2>1, <2>2 DEF FilesFitTheReview
  <2>3. CASE call'.at = "ready"
    <3>1. /\ kept # Layouts!NoReview /\ folders[kept.commit].complete
          /\ call'.commit = kept.commit /\ call'.profile = kept.profile
      BY <1>1, <1>2, <1>12, <2>3 DEF Layouts!Browsable, ReviewTypes
    <3>2. folders[kept.commit].holds = kept.profile
      BY <1>1, <1>3, <3>1 DEF FilesFitTheReview, Layouts!CompleteFilesAreWhole
    <3> QED
      BY <1>3, <2>1, <3>1, <3>2 DEF FilesFitTheReview
  <2> QED
    BY <2>2, <2>3
<1>13. CASE Layouts!BeginWriting
  <2>1. UNCHANGED <<kept, folders>> /\ call'.at # "ready"
        /\ (writer'.at = "files" => writer' = writer)
    BY <1>2, <1>13 DEF Layouts!BeginWriting, Layouts!layout, Layouts!NoWriter
  <2> QED
    BY <2>1 DEF FilesFitTheReview
<1>14. CASE Layouts!Ready
  <2>1. UNCHANGED <<kept, folders, writer>> /\ call'.at # "ready"
    BY <1>1, <1>2, <1>14 DEF Layouts!Ready, Layouts!layout, ReviewTypes
  <2> QED
    BY <2>1 DEF FilesFitTheReview
<1>15. CASE Layouts!DeleteOtherCommits
  <2>1. /\ UNCHANGED <<kept, writer>> /\ call'.at # "ready" /\ writer.at # "files"
        /\ \A c \in Commits : folders'[c] = folders[c] \/ ~ folders'[c].complete
    BY <1>1, <1>2, <1>15 DEF Layouts!DeleteOtherCommits, Layouts!layout, DeletionFindsNoWriter
  <2> QED
    BY <2>1 DEF FilesFitTheReview
<1>16. CASE Layouts!Restart
  BY <1>2, <1>16 DEF Layouts!Restart, Layouts!NoCall, FilesFitTheReview
<1>17. CASE UNCHANGED <<kept, folders, writer, call>>
  BY <1>17 DEF FilesFitTheReview
<1> QED
  BY <1>4, <1>5, <1>6, <1>7, <1>8, <1>9, <1>10, <1>11, <1>12, <1>13, <1>14, <1>15, <1>16, <1>17
     DEF Layouts!Next, Layouts!Fetch, Layouts!StartFollow, Layouts!Review, Layouts!WriterStep,
         Layouts!CallStep, Layouts!files

\* A folder given as ready holds every library of the profile unless a layout
\* with other libraries was kept while the files of an earlier one were there
\* or being written (layout/mod.rs, write_library_files asks for the commit's
\* mark only), however fetches, deletions, failures and restarts interleave.
THEOREM ReadyFilesHoldUnlessReviewedAgain ==
  ASSUME ReviewAssumption
  PROVE  Layouts!Spec /\ [][~ KeepsOverOtherFiles]_Layouts!vars
           => []Layouts!ReadyFilesHoldTheProfile
<1>1. Layouts!Init => ReviewInv /\ FilesFitTheReview
  <2>1. Layouts!Init => FilesFitTheReview
    BY DEF Layouts!Init, FilesFitTheReview, Layouts!NoFolder, Layouts!NoWriter, Layouts!NoCall,
           Commits
  <2> QED
    BY <2>1, ReviewInit
<1>2. ReviewInv /\ FilesFitTheReview /\ [Layouts!Next]_Layouts!vars
        /\ [~ KeepsOverOtherFiles]_Layouts!vars => ReviewInv' /\ FilesFitTheReview'
  <2> SUFFICES ASSUME ReviewInv, FilesFitTheReview, [Layouts!Next]_Layouts!vars,
                      [~ KeepsOverOtherFiles]_Layouts!vars
               PROVE  FilesFitTheReview'
    BY ReviewStep
  <2>1. CASE UNCHANGED Layouts!vars
    BY <2>1 DEF Layouts!vars, Layouts!layout, Layouts!files, FilesFitTheReview
  <2>2. CASE Layouts!Next /\ ~ KeepsOverOtherFiles
    BY <2>2, FilesFitByStep
  <2> QED
    BY <2>1, <2>2
<1>3. FilesFitTheReview => Layouts!ReadyFilesHoldTheProfile
  BY DEF FilesFitTheReview, Layouts!ReadyFilesHoldTheProfile
<1> QED
  BY <1>1, <1>2, <1>3, PTL DEF Layouts!Spec

-----------------------------------------------------------------------------
(* The inductive invariant of a repo's copy.  The thread that changes the  *)
(* folder holds its lock through the whole change.                         *)

CopyThreads ==
  [at : {"idle", "waiting", "read", "copy or fetch", "fetch", "clone", "move", "can write", "push",
         "scan", "scanning", "entries", "idle?", "there", "deleting"},
   entries : SUBSET Repo!Entries, entry : Repo!Entries]
CopyStates == {"none", "whole", "going", "broken"}
Copies == [copy : CopyStates, partial : CopyStates \union {"making"}]

RepoTypes ==
  /\ linked \in [RepoTeams -> Addresses \union {"none"}]
  /\ running \in [Addresses -> {"none", "check", "start"}]
  /\ change \in Repo!Threads \union {Repo!NoThread} /\ reading \subseteq Repo!Threads
  /\ thread \in [Repo!Threads -> CopyThreads]
  /\ copies \in Copies /\ app \in {"starting", "running"}

HoldersHold ==
  \A t \in Repo!Threads :
    /\ thread[t].at \in {"fetch", "clone", "move", "push", "there", "deleting"} => change = t
    /\ thread[t].at = "deleting" => reading = {}

\* A folder is on its way out only while the thread that holds the lock
\* deletes it.
GoingIsDeleted ==
  \A k \in Repo!Entries :
    copies[k] = "going" =>
      change \in Repo!Threads /\ thread[change].at = "deleting" /\ thread[change].entry = k

\* Until the deletion at start is done, nothing else runs.
StartIsAlone ==
  app = "starting" =>
    reading = {} /\ \A t \in Repo!Threads : t # Repo!Person => thread[t].at = "idle"

CopyIsHeld == HoldersHold /\ GoingIsDeleted /\ StartIsAlone /\ Repo!GitMeetsItsOwnCopy
RepoInv == RepoTypes /\ CopyIsHeld

LEMMA RepoValues ==
  /\ Repo!NoThread \notin Repo!Threads
  /\ Repo!Checks \union Repo!Callers \union {Repo!Reader} = Repo!Threads
  /\ {Repo!Person, Repo!Status, Repo!Reader} \subseteq Repo!Threads
  /\ \A t \in Repo!Checks : t \notin {Repo!Person, Repo!Status, Repo!Reader}
  /\ Repo!Person # Repo!Status /\ Repo!Person # Repo!Reader
  /\ \A t \in Repo!Checks : Repo!Address(t) \in Addresses
  /\ \A a \in Addresses : <<"check", a>> \in Repo!Checks
BY DEF Repo!NoThread, Repo!Threads, Repo!Checks, Repo!Callers, Repo!Reader, Repo!Person,
       Repo!Status, Repo!Address

LEMMA ThreadValues ==
  /\ Repo!Idle \in CopyThreads /\ Repo!Idle.at = "idle"
  /\ \A t \in Repo!Threads :
       Repo!ListEntries(t) \in CopyThreads /\ Repo!ListEntries(t).at = "entries"
BY DEF Repo!Idle, Repo!ListEntries, CopyThreads, Repo!Entries

LEMMA RepoInit == Repo!Init => RepoInv
<1> SUFFICES ASSUME Repo!Init PROVE RepoInv
  OBVIOUS
<1>1. /\ thread \in [Repo!Threads -> CopyThreads]
      /\ \A t \in Repo!Threads : /\ thread[t].at \in {"idle", "entries"}
                                 /\ t # Repo!Person => thread[t].at = "idle"
  BY ThreadValues DEF Repo!Init
<1>2. copies \in Copies /\ \A k \in Repo!Entries : copies[k] # "going"
  BY DEF Repo!Init, Copies, CopyStates, Repo!Entries
<1>3. RepoTypes
  BY <1>1, <1>2 DEF Repo!Init, RepoTypes
<1>4. CopyIsHeld
  BY <1>1, <1>2 DEF Repo!Init, CopyIsHeld, HoldersHold, GoingIsDeleted, StartIsAlone,
                    Repo!GitMeetsItsOwnCopy
<1> QED
  BY <1>3, <1>4 DEF RepoInv

LEMMA Ending ==
  ASSUME RepoTypes, NEW t \in Repo!Checks, Repo!Ends(t)
  PROVE  /\ running' \in [Addresses -> {"none", "check", "start"}]
         /\ thread' \in [Repo!Threads -> CopyThreads]
         /\ thread'[t].at \in {"idle", "entries"}
         /\ \A u \in Repo!Threads : u # t => thread'[u] = thread[u]
<1>1. t \in Repo!Threads /\ Repo!Address(t) \in Addresses
  BY RepoValues
<1> QED
  BY <1>1, ThreadValues DEF Repo!Ends, Repo!Finishes, RepoTypes

\* A thread that neither changes the folder nor deletes goes on to what is no
\* change of it either, and may leave the lock and end a read.
LEMMA ThreadGoesOn ==
  ASSUME RepoInv, NEW t \in Repo!Threads,
         thread' \in [Repo!Threads -> CopyThreads],
         \A u \in Repo!Threads : u # t => thread'[u] = thread[u],
         thread[t].at # "deleting",
         thread'[t].at \notin {"fetch", "clone", "move", "push", "there", "deleting"},
         change' = change \/ (change = t /\ change' = Repo!NoThread),
         reading' \subseteq reading, UNCHANGED <<origin, app>>,
         app = "starting" => t = Repo!Person,
         copies' = copies \/ (change = t /\ copies' = [copies EXCEPT !.partial = "none"])
  PROVE  CopyIsHeld'
<1>1. /\ RepoTypes /\ HoldersHold /\ GoingIsDeleted /\ StartIsAlone /\ Repo!GitMeetsItsOwnCopy
      /\ copies \in Copies /\ reading \subseteq Repo!Threads
  BY DEF RepoInv, CopyIsHeld, RepoTypes
<1>2. \A k \in Repo!Entries : copies'[k] = copies[k] \/ copies'[k] # "going"
  BY <1>1 DEF Copies, Repo!Entries
<1>3. copies'.copy = copies.copy /\ (change # t => copies'.partial = copies.partial)
  BY <1>1 DEF Copies
<1>4. HoldersHold'
  BY <1>1 DEF HoldersHold
<1>5. GoingIsDeleted'
  BY <1>1, <1>2 DEF GoingIsDeleted
<1>6. StartIsAlone'
  BY <1>1 DEF StartIsAlone
<1>7. Repo!GitMeetsItsOwnCopy'
  BY <1>1, <1>3 DEF Repo!GitMeetsItsOwnCopy, HoldersHold, Repo!Address
<1> QED
  BY <1>4, <1>5, <1>6, <1>7 DEF CopyIsHeld

LEMMA CheckKeepsCopy ==
  ASSUME RepoInv, NEW t \in Repo!Checks, Repo!CheckStep(t)
  PROVE  RepoInv'
<1>1. /\ RepoTypes /\ HoldersHold /\ GoingIsDeleted /\ StartIsAlone /\ Repo!GitMeetsItsOwnCopy
      /\ copies \in Copies /\ reading \subseteq Repo!Threads
      /\ thread \in [Repo!Threads -> CopyThreads]
      /\ running \in [Addresses -> {"none", "check", "start"}]
      /\ change \in Repo!Threads \union {Repo!NoThread}
      /\ t \in Repo!Threads /\ t # Repo!Person /\ Repo!NoThread \notin Repo!Threads
  BY RepoValues DEF RepoInv, CopyIsHeld, RepoTypes
<1>2. Repo!Idle \in CopyThreads /\ Repo!Idle.at = "idle"
  BY ThreadValues
<1>3. CASE Repo!FetchAtStart(t)
  <2>1. thread' = [thread EXCEPT ![t] = Repo!Idle] \/ Repo!Goes(t, "copy or fetch")
    BY <1>3 DEF Repo!FetchAtStart
  <2>2. /\ thread' \in [Repo!Threads -> CopyThreads]
        /\ \A u \in Repo!Threads : u # t => thread'[u] = thread[u]
        /\ thread'[t].at \in {"idle", "copy or fetch"}
    <3>1. CASE thread' = [thread EXCEPT ![t] = Repo!Idle]
      BY <1>1, <1>2, <3>1
    <3>2. CASE Repo!Goes(t, "copy or fetch")
      BY <1>1, <3>2 DEF Repo!Goes, CopyThreads
    <3> QED
      BY <2>1, <3>1, <3>2
  <2>3. CopyIsHeld'
    BY <1>1, <1>3, <2>2, ThreadGoesOn DEF Repo!FetchAtStart, Repo!locks
  <2> QED
    BY <1>1, <1>3, <2>2, <2>3 DEF RepoInv, RepoTypes, Repo!FetchAtStart, Repo!locks
<1>4. CASE Repo!CanRead(t)
  <2>1. /\ thread' \in [Repo!Threads -> CopyThreads]
        /\ \A u \in Repo!Threads : u # t => thread'[u] = thread[u]
        /\ thread'[t].at = "copy or fetch"
    BY <1>1, <1>4 DEF Repo!CanRead, Repo!Goes, CopyThreads
  <2>2. app # "starting"
    BY <1>1, <1>4 DEF Repo!CanRead, StartIsAlone
  <2>3. CopyIsHeld'
    BY <1>1, <1>4, <2>1, <2>2, ThreadGoesOn DEF Repo!CanRead, Repo!locks
  <2> QED
    BY <1>1, <1>4, <2>1, <2>3 DEF RepoInv, RepoTypes, Repo!CanRead, Repo!locks
<1>5. CASE Repo!CopyOrFetch(t)
  <2>1. /\ thread' \in [Repo!Threads -> CopyThreads]
        /\ \A u \in Repo!Threads : u # t => thread'[u] = thread[u]
        /\ thread'[t].at = IF Repo!IsCopied THEN "fetch" ELSE "clone"
    <3>1. CASE Repo!IsCopied /\ Repo!Goes(t, "fetch")
      BY <1>1, <3>1 DEF Repo!Goes, CopyThreads
    <3>2. CASE ~ Repo!IsCopied /\ Repo!Goes(t, "clone")
      BY <1>1, <3>2 DEF Repo!Goes, CopyThreads
    <3> QED
      BY <1>5, <3>1, <3>2 DEF Repo!CopyOrFetch
  <2>2. app # "starting" /\ change = Repo!NoThread /\ change' = t
        /\ UNCHANGED <<linked, running, reading, app>>
    BY <1>1, <1>5 DEF Repo!CopyOrFetch, StartIsAlone
  <2>3. /\ \A k \in Repo!Entries : copies[k] # "going"
        /\ \A u \in Repo!Threads :
             thread[u].at \notin {"fetch", "clone", "move", "push", "there", "deleting"}
    BY <1>1, <2>2 DEF GoingIsDeleted, HoldersHold
  <2>4. CASE Repo!IsCopied
    <3>1. copies' = copies /\ origin' = Repo!Address(t) /\ copies.copy \in {"whole", "broken"}
      BY <1>1, <1>5, <2>3, <2>4
         DEF Repo!CopyOrFetch, Repo!OwnAddress, Repo!IsCopied, Copies, CopyStates, Repo!Entries
    <3>2. Repo!GitMeetsItsOwnCopy'
      BY <1>1, <2>1, <2>2, <2>3, <2>4, <3>1 DEF Repo!GitMeetsItsOwnCopy, Repo!Address
    <3> QED
      BY <1>1, <2>1, <2>2, <2>3, <2>4, <3>1, <3>2
         DEF RepoInv, RepoTypes, CopyIsHeld, HoldersHold, GoingIsDeleted, StartIsAlone
  <2>5. CASE ~ Repo!IsCopied
    <3>1. /\ copies' = [copies EXCEPT !.partial = "making"] /\ origin' = origin
          /\ copies' \in Copies /\ copies'.partial = "making" /\ copies'.copy = copies.copy
          /\ \A k \in Repo!Entries : copies'[k] # "going"
      BY <1>1, <1>5, <2>3, <2>5 DEF Repo!CopyOrFetch, Copies, CopyStates, Repo!Entries
    <3>2. Repo!GitMeetsItsOwnCopy'
      BY <1>1, <2>1, <2>2, <2>3, <2>5, <3>1 DEF Repo!GitMeetsItsOwnCopy, Repo!Address
    <3> QED
      BY <1>1, <2>1, <2>2, <2>3, <2>5, <3>1, <3>2
         DEF RepoInv, RepoTypes, CopyIsHeld, HoldersHold, GoingIsDeleted, StartIsAlone
  <2> QED
    BY <2>4, <2>5
<1>6. CASE Repo!Fetched(t)
  <2>1. /\ thread' \in [Repo!Threads -> CopyThreads]
        /\ \A u \in Repo!Threads : u # t => thread'[u] = thread[u]
        /\ thread'[t].at \in {"can write", "scan"}
    BY <1>1, <1>6 DEF Repo!Fetched, Repo!Copied, Repo!Goes, CopyThreads
  <2>2. app # "starting" /\ change = t /\ thread[t].at # "deleting"
    BY <1>1, <1>6 DEF Repo!Fetched, StartIsAlone, HoldersHold
  <2>3. CopyIsHeld'
    BY <1>1, <1>6, <2>1, <2>2, ThreadGoesOn DEF Repo!Fetched
  <2> QED
    BY <1>1, <1>6, <2>1, <2>3 DEF RepoInv, RepoTypes, Repo!Fetched
<1>7. CASE Repo!Cloned(t)
  <2>1. /\ thread' \in [Repo!Threads -> CopyThreads]
        /\ \A u \in Repo!Threads : u # t => thread'[u] = thread[u]
        /\ thread[t].at = "clone" /\ thread'[t].at = "move"
    BY <1>1, <1>7 DEF Repo!Cloned, Repo!Goes, CopyThreads
  <2>2. /\ app # "starting" /\ change = t /\ change' = t /\ copies.partial = "making"
        /\ UNCHANGED <<linked, running, reading, origin, app>>
    BY <1>1, <1>7, <2>1 DEF Repo!Cloned, Repo!locks, StartIsAlone, HoldersHold,
                       Repo!GitMeetsItsOwnCopy
  <2>3. /\ copies' \in Copies /\ copies'.partial = "whole" /\ copies'.copy = copies.copy
        /\ \A k \in Repo!Entries : copies'[k] = copies[k] \/ copies'[k] = "whole"
    BY <1>1, <1>7, <2>2 DEF Repo!Cloned, Copies, CopyStates, Repo!Entries
  <2>4. HoldersHold' /\ GoingIsDeleted' /\ StartIsAlone'
    BY <1>1, <2>1, <2>2, <2>3 DEF HoldersHold, GoingIsDeleted, StartIsAlone
  <2>5. Repo!GitMeetsItsOwnCopy'
    BY <1>1, <2>1, <2>2, <2>3 DEF Repo!GitMeetsItsOwnCopy, HoldersHold, Repo!Address
  <2> QED
    BY <1>1, <2>1, <2>2, <2>3, <2>4, <2>5 DEF RepoInv, RepoTypes, CopyIsHeld
<1>8. CASE Repo!Move(t)
  <2>1. /\ thread' \in [Repo!Threads -> CopyThreads]
        /\ \A u \in Repo!Threads : u # t => thread'[u] = thread[u]
        /\ thread[t].at = "move" /\ thread'[t].at \in {"can write", "scan"}
    BY <1>1, <1>8 DEF Repo!Move, Repo!Copied, Repo!Goes, CopyThreads
  <2>2. /\ app # "starting" /\ change = t /\ change' = Repo!NoThread /\ reading = {}
        /\ copies.partial = "whole"
        /\ UNCHANGED <<linked, running, reading, app>>
    BY <1>1, <1>8, <2>1 DEF Repo!Move, StartIsAlone, HoldersHold, Repo!GitMeetsItsOwnCopy
  <2>3. /\ copies' \in Copies /\ copies'.partial = "none" /\ copies'.copy = "whole"
        /\ \A k \in Repo!Entries : copies'[k] # "going"
    BY <1>1, <1>8, <2>2 DEF Repo!Move, Copies, CopyStates, Repo!Entries
  <2>4. HoldersHold' /\ GoingIsDeleted' /\ StartIsAlone'
    BY <1>1, <2>1, <2>2, <2>3 DEF HoldersHold, GoingIsDeleted, StartIsAlone
  <2>5. Repo!GitMeetsItsOwnCopy'
    BY <1>1, <2>1, <2>2, <2>3 DEF Repo!GitMeetsItsOwnCopy, HoldersHold, Repo!Address
  <2> QED
    BY <1>1, <2>1, <2>2, <2>3, <2>4, <2>5 DEF RepoInv, RepoTypes, CopyIsHeld
<1>9. CASE Repo!CanWrite(t)
  <2>1. /\ thread' \in [Repo!Threads -> CopyThreads]
        /\ \A u \in Repo!Threads : u # t => thread'[u] = thread[u]
        /\ thread'[t].at \in {"push", "scan"}
    BY <1>1, <1>9 DEF Repo!CanWrite, Repo!Goes, CopyThreads
  <2>2. app # "starting" /\ change = Repo!NoThread /\ thread[t].at = "can write"
        /\ UNCHANGED <<linked, running, reading, copies, app>>
    BY <1>1, <1>9 DEF Repo!CanWrite, StartIsAlone
  <2>3. CASE Repo!Goes(t, "scan") /\ UNCHANGED <<change, origin>>
    <3>1. thread'[t].at = "scan"
      BY <1>1, <2>3 DEF Repo!Goes, CopyThreads
    <3>2. CopyIsHeld'
      BY <1>1, <2>1, <2>2, <2>3, <3>1, ThreadGoesOn
    <3> QED
      BY <1>1, <2>1, <2>2, <2>3, <3>2 DEF RepoInv, RepoTypes
  <2>4. CASE Repo!IsCopied /\ change' = t /\ origin' = Repo!OwnAddress(t)
    <3>1. /\ \A k \in Repo!Entries : copies[k] # "going"
          /\ \A u \in Repo!Threads :
               thread[u].at \notin {"fetch", "clone", "move", "push", "there", "deleting"}
      BY <1>1, <2>2 DEF GoingIsDeleted, HoldersHold
    <3>2. copies.copy \in {"whole", "broken"} /\ origin' = Repo!Address(t)
      BY <1>1, <2>4, <3>1 DEF Repo!IsCopied, Repo!OwnAddress, Copies, CopyStates, Repo!Entries
    <3>3. HoldersHold' /\ GoingIsDeleted' /\ StartIsAlone'
      BY <1>1, <2>1, <2>2, <2>4, <3>1 DEF HoldersHold, GoingIsDeleted, StartIsAlone
    <3>4. Repo!GitMeetsItsOwnCopy'
      BY <1>1, <2>1, <2>2, <2>4, <3>1, <3>2 DEF Repo!GitMeetsItsOwnCopy, Repo!Address
    <3> QED
      BY <1>1, <2>1, <2>2, <2>4, <3>3, <3>4 DEF RepoInv, RepoTypes, CopyIsHeld
  <2> QED
    BY <1>9, <2>3, <2>4 DEF Repo!CanWrite
<1>10. CASE Repo!Pushed(t)
  <2>1. /\ thread' \in [Repo!Threads -> CopyThreads]
        /\ \A u \in Repo!Threads : u # t => thread'[u] = thread[u]
        /\ thread'[t].at = "scan"
    BY <1>1, <1>10 DEF Repo!Pushed, Repo!Goes, CopyThreads
  <2>2. app # "starting" /\ change = t /\ thread[t].at # "deleting"
    BY <1>1, <1>10 DEF Repo!Pushed, StartIsAlone, HoldersHold
  <2>3. CopyIsHeld'
    BY <1>1, <1>10, <2>1, <2>2, ThreadGoesOn DEF Repo!Pushed
  <2> QED
    BY <1>1, <1>10, <2>1, <2>3 DEF RepoInv, RepoTypes, Repo!Pushed
<1>11. CASE Repo!Scan(t)
  <2>1. app # "starting" /\ thread[t].at = "scan" /\ UNCHANGED <<linked, change, copies, origin, app>>
    BY <1>1, <1>11 DEF Repo!Scan, StartIsAlone
  <2>2. CASE Repo!Ends(t) /\ UNCHANGED reading
    <3>1. CopyIsHeld'
      BY <1>1, <2>1, <2>2, Ending, ThreadGoesOn
    <3> QED
      BY <1>1, <2>1, <2>2, <3>1, Ending DEF RepoInv, RepoTypes
  <2>3. CASE /\ Repo!IsCopied /\ Repo!NothingMovesThere /\ UNCHANGED running
             /\ reading' = reading \union {t} /\ Repo!Goes(t, "scanning")
    <3>1. /\ thread' \in [Repo!Threads -> CopyThreads]
          /\ \A u \in Repo!Threads : u # t => thread'[u] = thread[u]
          /\ thread'[t].at = "scanning"
      BY <1>1, <2>3 DEF Repo!Goes, CopyThreads
    <3>2. \A u \in Repo!Threads : thread[u].at # "deleting"
      BY <2>3 DEF Repo!NothingMovesThere
    <3>3. copies.copy \in {"whole", "broken"} /\ \A k \in Repo!Entries : copies[k] # "going"
      BY <1>1, <2>3, <3>2 DEF GoingIsDeleted, Repo!IsCopied, Copies, CopyStates, Repo!Entries
    <3>4. HoldersHold' /\ GoingIsDeleted' /\ StartIsAlone'
      BY <1>1, <2>1, <2>3, <3>1, <3>2, <3>3 DEF HoldersHold, GoingIsDeleted, StartIsAlone
    <3>5. Repo!GitMeetsItsOwnCopy'
      BY <1>1, <2>1, <2>3, <3>1, <3>3 DEF Repo!GitMeetsItsOwnCopy, Repo!Address
    <3> QED
      BY <1>1, <2>1, <2>3, <3>1, <3>4, <3>5 DEF RepoInv, RepoTypes, CopyIsHeld
  <2> QED
    BY <1>11, <2>2, <2>3 DEF Repo!Scan
<1>12. CASE Repo!HostFails(t)
  <2>1. /\ thread[t].at \in {"read", "fetch", "clone", "push"}
        /\ app # "starting" /\ UNCHANGED <<linked, reading, origin, app>>
        /\ change' = IF change = t THEN Repo!NoThread ELSE change
        /\ copies' = IF thread[t].at = "clone" THEN [copies EXCEPT !.partial = "none"] ELSE copies
    BY <1>1, <1>12 DEF Repo!HostFails, StartIsAlone
  <2>2. /\ thread' \in [Repo!Threads -> CopyThreads]
        /\ running' \in [Addresses -> {"none", "check", "start"}]
        /\ \A u \in Repo!Threads : u # t => thread'[u] = thread[u]
        /\ thread'[t].at \in {"idle", "entries", "scan"}
    <3>1. CASE Repo!Goes(t, "scan") /\ UNCHANGED running
      BY <1>1, <3>1 DEF Repo!Goes, CopyThreads
    <3>2. CASE Repo!Ends(t)
      BY <1>1, <3>2, Ending
    <3> QED
      BY <1>12, <3>1, <3>2 DEF Repo!HostFails
  <2>3. copies' \in Copies /\ (copies' = copies \/ (change = t /\ copies' = [copies EXCEPT !.partial = "none"]))
    BY <1>1, <2>1 DEF Copies, CopyStates, HoldersHold
  <2>4. CopyIsHeld'
    BY <1>1, <2>1, <2>2, <2>3, ThreadGoesOn
  <2> QED
    BY <1>1, <2>1, <2>2, <2>3, <2>4 DEF RepoInv, RepoTypes
<1> QED
  BY <1>3, <1>4, <1>5, <1>6, <1>7, <1>8, <1>9, <1>10, <1>11, <1>12 DEF Repo!CheckStep

LEMMA DeletionKeepsCopy ==
  ASSUME RepoInv, NEW t \in Repo!Checks \union Repo!Callers, Repo!DeletionStep(t)
  PROVE  RepoInv'
<1>1. /\ RepoTypes /\ HoldersHold /\ GoingIsDeleted /\ StartIsAlone /\ Repo!GitMeetsItsOwnCopy
      /\ copies \in Copies /\ reading \subseteq Repo!Threads
      /\ thread \in [Repo!Threads -> CopyThreads]
      /\ running \in [Addresses -> {"none", "check", "start"}]
      /\ change \in Repo!Threads \union {Repo!NoThread}
      /\ t \in Repo!Threads /\ Repo!NoThread \notin Repo!Threads
  BY RepoValues DEF RepoInv, CopyIsHeld, RepoTypes
<1>2. Repo!Idle \in CopyThreads /\ Repo!Idle.at = "idle"
  BY ThreadValues
<1>3. app = "starting" /\ thread[t].at # "idle" => t = Repo!Person
  BY <1>1 DEF StartIsAlone
<1>4. CASE Repo!TryEntry(t)
  <2>1. PICK k \in thread[t].entries :
          IF k = "copy" /\ Repo!Wanted
            THEN thread' = [thread EXCEPT ![t].entries = @ \ {k}]
            ELSE thread' = [thread EXCEPT ![t].entries = @ \ {k}, ![t].entry = k,
                                          ![t].at = "idle?"]
    BY <1>4 DEF Repo!TryEntry
  <2>2. thread[t].at = "entries" /\ thread[t] \in CopyThreads /\ k \in Repo!Entries
        /\ thread[t].entries \ {k} \in SUBSET Repo!Entries
    BY <1>1, <1>4 DEF Repo!TryEntry, CopyThreads
  <2>3. [thread[t] EXCEPT !.entries = thread[t].entries \ {k}] \in CopyThreads
    BY <2>2 DEF CopyThreads
  <2>4. [thread[t] EXCEPT !.entries = thread[t].entries \ {k}, !.entry = k, !.at = "idle?"]
          \in CopyThreads
    BY <2>2 DEF CopyThreads
  <2>5. /\ thread' \in [Repo!Threads -> CopyThreads]
        /\ \A u \in Repo!Threads : u # t => thread'[u] = thread[u]
        /\ thread'[t].at \in {"entries", "idle?"}
    <3>1. CASE thread' = [thread EXCEPT ![t].entries = @ \ {k}]
      <4>1. thread' = [thread EXCEPT ![t] =
                         [thread[t] EXCEPT !.entries = thread[t].entries \ {k}]]
        BY <3>1
      <4> QED
        BY <1>1, <2>2, <2>3, <4>1 DEF CopyThreads
    <3>2. CASE thread' = [thread EXCEPT ![t].entries = @ \ {k}, ![t].entry = k,
                                        ![t].at = "idle?"]
      <4>1. thread' = [thread EXCEPT ![t] =
              [thread[t] EXCEPT !.entries = thread[t].entries \ {k}, !.entry = k, !.at = "idle?"]]
        BY <1>1, <2>2, <3>2
      <4> QED
        BY <1>1, <2>2, <2>4, <4>1 DEF CopyThreads
    <3> QED
      BY <2>1, <3>1, <3>2
  <2>6. UNCHANGED <<linked, running, change, reading, copies, origin, app>>
    BY <1>4 DEF Repo!TryEntry, Repo!locks
  <2>7. CopyIsHeld'
    BY <1>1, <1>3, <2>2, <2>5, <2>6, ThreadGoesOn
  <2> QED
    BY <1>1, <2>5, <2>6, <2>7 DEF RepoInv, RepoTypes
<1>5. CASE Repo!DeleteIfIdle(t)
  <2>1. thread[t].at = "idle?" /\ UNCHANGED <<linked, running, reading, copies, origin, app>>
    BY <1>5 DEF Repo!DeleteIfIdle
  <2>2. CASE Repo!Goes(t, "entries") /\ UNCHANGED change
    <3>1. /\ thread' \in [Repo!Threads -> CopyThreads]
          /\ \A u \in Repo!Threads : u # t => thread'[u] = thread[u]
          /\ thread'[t].at = "entries"
      BY <1>1, <2>2 DEF Repo!Goes, CopyThreads
    <3>2. CopyIsHeld'
      BY <1>1, <1>3, <2>1, <2>2, <3>1, ThreadGoesOn
    <3> QED
      BY <1>1, <2>1, <2>2, <3>1, <3>2 DEF RepoInv, RepoTypes
  <2>3. CASE change = Repo!NoThread /\ Repo!Goes(t, "there") /\ change' = t
    <3>1. /\ thread' \in [Repo!Threads -> CopyThreads]
          /\ \A u \in Repo!Threads : u # t => thread'[u] = thread[u]
          /\ thread'[t].at = "there"
      BY <1>1, <2>3 DEF Repo!Goes, CopyThreads
    <3>2. /\ \A k \in Repo!Entries : copies[k] # "going"
          /\ \A u \in Repo!Threads :
               thread[u].at \notin {"fetch", "clone", "move", "push", "there", "deleting"}
      BY <1>1, <2>3 DEF GoingIsDeleted, HoldersHold
    <3>3. HoldersHold' /\ GoingIsDeleted' /\ StartIsAlone'
      BY <1>1, <1>3, <2>1, <2>3, <3>1, <3>2 DEF HoldersHold, GoingIsDeleted, StartIsAlone
    <3>4. Repo!GitMeetsItsOwnCopy'
      BY <1>1, <2>1, <2>3, <3>1, <3>2 DEF Repo!GitMeetsItsOwnCopy, Repo!Address
    <3> QED
      BY <1>1, <2>1, <2>3, <3>1, <3>3, <3>4 DEF RepoInv, RepoTypes, CopyIsHeld
  <2> QED
    BY <1>5, <2>2, <2>3 DEF Repo!DeleteIfIdle, Repo!IsIdle
<1>6. CASE Repo!StartDeleting(t)
  <2>1. /\ thread' \in [Repo!Threads -> CopyThreads]
        /\ \A u \in Repo!Threads : u # t => thread'[u] = thread[u]
        /\ thread[t].at = "there" /\ thread'[t].at = "deleting"
        /\ thread'[t].entry = thread[t].entry /\ thread[t].entry \in Repo!Entries
    BY <1>1, <1>6 DEF Repo!StartDeleting, Repo!Goes, CopyThreads
  <2>2. /\ change = t /\ reading = {}
        /\ UNCHANGED <<linked, running, change, reading, origin, app>>
    BY <1>1, <1>6, <2>1 DEF Repo!StartDeleting, Repo!locks, HoldersHold
  <2>3. /\ copies' \in Copies
        /\ \A k \in Repo!Entries : k # thread[t].entry => copies'[k] = copies[k]
    <3>1. copies' = [copies EXCEPT ![thread[t].entry] =
                       IF copies[thread[t].entry] = "none" THEN "none" ELSE "going"]
      BY <1>6 DEF Repo!StartDeleting
    <3> QED
      BY <1>1, <2>1, <3>1 DEF Copies, CopyStates, Repo!Entries
  <2>4. HoldersHold' /\ GoingIsDeleted' /\ StartIsAlone'
    BY <1>1, <1>3, <2>1, <2>2, <2>3 DEF HoldersHold, GoingIsDeleted, StartIsAlone
  <2>5. \A u \in Repo!Threads :
          thread'[u].at \notin {"fetch", "clone", "move", "push"}
    BY <1>1, <2>1, <2>2 DEF HoldersHold
  <2>6. Repo!GitMeetsItsOwnCopy'
    BY <1>1, <2>2, <2>5 DEF Repo!GitMeetsItsOwnCopy
  <2> QED
    BY <1>1, <2>1, <2>2, <2>3, <2>4, <2>6 DEF RepoInv, RepoTypes, CopyIsHeld
<1>7. CASE Repo!Delete(t)
  <2>1. /\ thread' \in [Repo!Threads -> CopyThreads]
        /\ \A u \in Repo!Threads : u # t => thread'[u] = thread[u]
        /\ thread[t].at = "deleting" /\ thread'[t].at = "entries"
        /\ thread[t].entry \in Repo!Entries
    BY <1>1, <1>7 DEF Repo!Delete, Repo!Goes, CopyThreads
  <2>2. /\ change = t /\ change' = Repo!NoThread /\ reading = {}
        /\ UNCHANGED <<linked, running, reading, origin, app>>
    BY <1>1, <1>7, <2>1 DEF Repo!Delete, HoldersHold
  <2>3. copies' = [copies EXCEPT ![thread[t].entry] = "none"]
        \/ copies' = [copies EXCEPT ![thread[t].entry] = "broken"]
    BY <1>7 DEF Repo!Delete
  <2>4. copies' \in Copies
    BY <1>1, <2>1, <2>3 DEF Copies, CopyStates, Repo!Entries
  <2>5. /\ copies'[thread[t].entry] # "going"
        /\ \A k \in Repo!Entries : k # thread[t].entry => copies'[k] = copies[k]
    BY <1>1, <2>1, <2>3 DEF Copies, CopyStates, Repo!Entries
  <2>6. \A k \in Repo!Entries : copies'[k] # "going"
    BY <1>1, <2>2, <2>5 DEF GoingIsDeleted
  <2>7. \A u \in Repo!Threads :
          thread'[u].at \notin {"fetch", "clone", "move", "push", "there", "deleting"}
    BY <1>1, <2>1, <2>2 DEF HoldersHold
  <2>8. StartIsAlone'
    BY <1>1, <1>3, <2>1, <2>2 DEF StartIsAlone
  <2> QED
    BY <1>1, <2>1, <2>2, <2>4, <2>6, <2>7, <2>8
       DEF RepoInv, RepoTypes, CopyIsHeld, HoldersHold, GoingIsDeleted, Repo!GitMeetsItsOwnCopy
<1>8. CASE Repo!NoEntriesLeft(t)
  <2>1. thread[t].at = "entries" /\ app' = "running"
        /\ UNCHANGED <<linked, change, reading, copies, origin>>
    BY <1>8 DEF Repo!NoEntriesLeft, Repo!locks
  <2>2. CASE app = "running"
    <3>1. thread' = [thread EXCEPT ![t] = Repo!Idle] /\ UNCHANGED running
      BY <1>8, <2>2 DEF Repo!NoEntriesLeft
    <3>2. CopyIsHeld'
      BY <1>1, <1>2, <2>1, <2>2, <3>1, ThreadGoesOn
    <3> QED
      BY <1>1, <1>2, <2>1, <3>1, <3>2 DEF RepoInv, RepoTypes
  <2>3. CASE app = "starting"
    <3>1. /\ thread' = [u \in Repo!Threads |->
               IF u \in Repo!Checks /\ u[1] = "start"
                  /\ \E team \in RepoTeams : linked[team] = Repo!Address(u)
                 THEN [Repo!Idle EXCEPT !.at = "waiting"] ELSE Repo!Idle]
          /\ running' = [a \in Addresses |->
               IF \E team \in RepoTeams : linked[team] = a THEN "start" ELSE "none"]
      BY <1>8, <2>3 DEF Repo!NoEntriesLeft
    <3>2. [Repo!Idle EXCEPT !.at = "waiting"] \in CopyThreads
          /\ [Repo!Idle EXCEPT !.at = "waiting"].at = "waiting"
      BY DEF Repo!Idle, CopyThreads, Repo!Entries
    <3>3. thread' \in [Repo!Threads -> CopyThreads]
          /\ \A u \in Repo!Threads : thread'[u].at \in {"idle", "waiting"}
      BY <1>2, <3>1, <3>2
    <3>4. running' \in [Addresses -> {"none", "check", "start"}]
      BY <3>1
    <3>5. reading = {} /\ \A k \in Repo!Entries : copies[k] # "going"
      BY <1>1, <1>3, <2>1, <2>3 DEF StartIsAlone, GoingIsDeleted
    <3> QED
      BY <1>1, <2>1, <3>3, <3>4, <3>5
         DEF RepoInv, RepoTypes, CopyIsHeld, HoldersHold, GoingIsDeleted, StartIsAlone,
             Repo!GitMeetsItsOwnCopy
  <2> QED
    BY <1>1, <2>2, <2>3 DEF RepoTypes
<1> QED
  BY <1>4, <1>5, <1>6, <1>7, <1>8 DEF Repo!DeletionStep

LEMMA ReadingKeepsCopy ==
  ASSUME RepoInv, NEW t \in Repo!Threads, Repo!Read(t)
  PROVE  RepoInv'
<1>1. /\ RepoTypes /\ HoldersHold /\ StartIsAlone /\ reading \subseteq Repo!Threads
      /\ thread \in [Repo!Threads -> CopyThreads]
      /\ running \in [Addresses -> {"none", "check", "start"}]
  BY DEF RepoInv, CopyIsHeld, RepoTypes
<1>2. /\ t \in reading /\ reading' = reading \ {t} /\ UNCHANGED <<linked, change, copies, origin, app>>
      /\ app # "starting" /\ thread[t].at # "deleting"
  BY <1>1 DEF Repo!Read, HoldersHold, StartIsAlone
<1>3. CASE t \in Repo!Checks /\ Repo!Ends(t)
  <2>1. CopyIsHeld'
    BY <1>1, <1>2, <1>3, Ending, ThreadGoesOn
  <2> QED
    BY <1>1, <1>2, <1>3, <2>1, Ending DEF RepoInv, RepoTypes
<1>4. CASE UNCHANGED <<thread, running>>
  BY <1>1, <1>2, <1>4
     DEF RepoInv, CopyIsHeld, RepoTypes, HoldersHold, GoingIsDeleted, StartIsAlone,
         Repo!GitMeetsItsOwnCopy
<1> QED
  BY <1>3, <1>4 DEF Repo!Read

LEMMA PersonKeepsCopy ==
  ASSUME RepoInv,
         \/ \E team \in RepoTeams : Repo!CheckAgain(team) \/ Repo!Unlink(team)
                                    \/ \E a \in Addresses : Repo!Link(team, a)
         \/ Repo!NoteStatus \/ Repo!StartReading
  PROVE  RepoInv'
<1>1. /\ RepoTypes /\ HoldersHold /\ GoingIsDeleted /\ StartIsAlone /\ Repo!GitMeetsItsOwnCopy
      /\ copies \in Copies /\ reading \subseteq Repo!Threads
      /\ thread \in [Repo!Threads -> CopyThreads]
      /\ running \in [Addresses -> {"none", "check", "start"}]
      /\ linked \in [RepoTeams -> Addresses \union {"none"}]
  BY DEF RepoInv, CopyIsHeld, RepoTypes
<1>2. \/ UNCHANGED <<change, reading, copies, origin, app>> /\ app = "running"
      \/ Repo!StartReading
  BY DEF Repo!CheckAgain, Repo!Unlink, Repo!Link, Repo!NoteStatus, Repo!Acts, Repo!locks
<1>3. ASSUME NEW t \in Repo!Threads, thread[t].at = "idle",
             thread' \in [Repo!Threads -> CopyThreads],
             \A u \in Repo!Threads : u # t => thread'[u] = thread[u],
             thread'[t].at \in {"copy or fetch", "read", "entries"},
             running' \in [Addresses -> {"none", "check", "start"}],
             linked' \in [RepoTeams -> Addresses \union {"none"}],
             UNCHANGED <<change, reading, copies, origin, app>>, app = "running"
      PROVE  RepoInv'
  <2>1. CopyIsHeld'
    BY <1>1, <1>3, ThreadGoesOn
  <2> QED
    BY <1>1, <1>3, <2>1 DEF RepoInv, RepoTypes
<1>4. ASSUME NEW a \in Addresses, NEW at \in {"copy or fetch", "read"}, Repo!Begin(a, at),
             linked' \in [RepoTeams -> Addresses \union {"none"}],
             UNCHANGED <<change, reading, copies, origin, app>>, app = "running"
      PROVE  RepoInv'
  <2>1. <<"check", a>> \in Repo!Threads
    BY RepoValues
  <2>2. CASE UNCHANGED <<running, thread>>
    BY <1>1, <1>4, <2>2
       DEF RepoInv, CopyIsHeld, RepoTypes, HoldersHold, GoingIsDeleted, StartIsAlone,
           Repo!GitMeetsItsOwnCopy
  <2>3. CASE /\ thread[<<"check", a>>] = Repo!Idle
             /\ running' = [running EXCEPT ![a] = "check"]
             /\ Repo!Goes(<<"check", a>>, at)
    <3>1. thread[<<"check", a>>].at = "idle"
      BY <2>3, ThreadValues
    <3>2. /\ thread' \in [Repo!Threads -> CopyThreads]
          /\ \A u \in Repo!Threads : u # <<"check", a>> => thread'[u] = thread[u]
          /\ thread'[<<"check", a>>].at = at
      <4> DEFINE t == <<"check", a>>
      <4> HIDE DEF t
      <4>1. t \in Repo!Threads /\ Repo!Goes(t, at)
        BY <2>1, <2>3 DEF t
      <4>2. /\ thread' \in [Repo!Threads -> CopyThreads]
            /\ \A u \in Repo!Threads : u # t => thread'[u] = thread[u]
            /\ thread'[t].at = at
        BY <1>1, <4>1 DEF Repo!Goes, CopyThreads
      <4> QED
        BY <4>2 DEF t
    <3>3. running' \in [Addresses -> {"none", "check", "start"}]
      BY <1>1, <2>3
    <3> QED
      BY <1>3, <1>4, <2>1, <3>1, <3>2, <3>3
  <2> QED
    BY <1>4, <2>2, <2>3 DEF Repo!Begin
<1>5. ASSUME NEW team \in RepoTeams, Repo!CheckAgain(team)
      PROVE  RepoInv'
  <2>1. linked[team] \in Addresses /\ Repo!Begin(linked[team], "read")
    BY <1>1, <1>5 DEF Repo!CheckAgain
  <2>2. UNCHANGED <<linked, change, reading, copies, origin, app>> /\ app = "running"
    BY <1>5 DEF Repo!CheckAgain, Repo!Acts, Repo!locks
  <2> QED
    BY <1>1, <1>4, <2>1, <2>2
<1>6. ASSUME NEW team \in RepoTeams, NEW a \in Addresses, Repo!Link(team, a)
      PROVE  RepoInv'
  <2>1. linked' \in [RepoTeams -> Addresses \union {"none"}]
    BY <1>1, <1>6 DEF Repo!Link
  <2>2. UNCHANGED <<change, reading, copies, origin, app>> /\ app = "running"
        /\ Repo!Begin(a, "copy or fetch")
    BY <1>6 DEF Repo!Link, Repo!Acts, Repo!locks
  <2> QED
    BY <1>4, <2>1, <2>2
<1>7. ASSUME NEW t \in {Repo!Person, Repo!Status}, thread[t] = Repo!Idle,
             thread' = [thread EXCEPT ![t] = Repo!ListEntries(t)], running' = running,
             linked' \in [RepoTeams -> Addresses \union {"none"}],
             UNCHANGED <<change, reading, copies, origin, app>>, app = "running"
      PROVE  RepoInv'
  <2>1. t \in Repo!Threads
    BY RepoValues
  <2> QED
    BY <1>1, <1>3, <1>7, <2>1, ThreadValues
<1>8. ASSUME NEW team \in RepoTeams, Repo!Unlink(team)
      PROVE  RepoInv'
  <2>1. linked' \in [RepoTeams -> Addresses \union {"none"}]
    BY <1>1, <1>8 DEF Repo!Unlink
  <2> QED
    BY <1>7, <1>8, <2>1 DEF Repo!Unlink, Repo!Acts, Repo!locks
<1>9. CASE Repo!NoteStatus
  BY <1>1, <1>7, <1>9 DEF Repo!NoteStatus, Repo!locks
<1>10. CASE Repo!StartReading
  <2>1. /\ app = "running" /\ reading' = reading \union {Repo!Reader}
        /\ UNCHANGED <<linked, running, thread, change, copies, origin, app>>
        /\ \A u \in Repo!Threads : thread[u].at # "deleting"
    BY <1>10 DEF Repo!StartReading, Repo!NothingMovesThere
  <2>2. copies.copy \in {"whole", "broken"} /\ Repo!Reader \in Repo!Threads
    BY <1>1, <1>10, <2>1, RepoValues
       DEF Repo!StartReading, GoingIsDeleted, Repo!IsCopied, Copies, CopyStates, Repo!Entries
  <2>3. HoldersHold' /\ GoingIsDeleted' /\ StartIsAlone'
    BY <1>1, <2>1 DEF HoldersHold, GoingIsDeleted, StartIsAlone
  <2>4. Repo!GitMeetsItsOwnCopy'
    BY <1>1, <2>1, <2>2 DEF Repo!GitMeetsItsOwnCopy, Repo!Address
  <2> QED
    BY <1>1, <2>1, <2>2, <2>3, <2>4 DEF RepoInv, RepoTypes, CopyIsHeld
<1> QED
  BY <1>5, <1>6, <1>8, <1>9, <1>10

LEMMA RepoStep == RepoInv /\ [Repo!Next]_Repo!vars => RepoInv'
<1> SUFFICES ASSUME RepoInv, [Repo!Next]_Repo!vars PROVE RepoInv'
  OBVIOUS
<1>1. CASE Repo!Restart
  <2>1. /\ thread' \in [Repo!Threads -> CopyThreads]
        /\ \A t \in Repo!Threads : /\ thread'[t].at \in {"idle", "entries"}
                                   /\ t # Repo!Person => thread'[t].at = "idle"
    BY <1>1, ThreadValues DEF Repo!Restart
  <2>2. copies' \in Copies /\ \A k \in Repo!Entries : copies'[k] # "going"
    <3>1. copies \in Copies
      BY DEF RepoInv, RepoTypes
    <3>2. copies' = [k \in {"copy", "partial"} |->
                       IF copies[k] = "going" THEN "broken" ELSE copies[k]]
      BY <1>1 DEF Repo!Restart, Repo!Entries
    <3> QED
      BY <3>1, <3>2 DEF Copies, CopyStates, Repo!Entries
  <2>3. RepoTypes'
    BY <1>1, <2>1, <2>2 DEF RepoInv, RepoTypes, Repo!Restart
  <2> QED
    BY <1>1, <2>1, <2>2, <2>3
       DEF Repo!Restart, RepoInv, CopyIsHeld, HoldersHold, GoingIsDeleted, StartIsAlone,
           Repo!GitMeetsItsOwnCopy
<1>2. CASE UNCHANGED Repo!vars
  BY <1>2 DEF Repo!vars, Repo!locks, RepoInv, RepoTypes, CopyIsHeld, HoldersHold, GoingIsDeleted,
              StartIsAlone, Repo!GitMeetsItsOwnCopy
<1> QED
  BY <1>1, <1>2, CheckKeepsCopy, DeletionKeepsCopy, ReadingKeepsCopy, PersonKeepsCopy
     DEF Repo!Next

LEMMA RepoSays == RepoInv => Repo!TypeOK /\ Repo!GitMeetsItsOwnCopy
BY DEF RepoInv, RepoTypes, CopyIsHeld, Repo!TypeOK, Copies, CopyStates, CopyThreads
=============================================================================
