---------------------------- MODULE KicadFolder ----------------------------
(***************************************************************************)
(* A team's KiCad libraries: the folder, the threads that bring it to the  *)
(* catalog, the person who says the team moved, and a KiCad that reads the *)
(* folder meanwhile (crates/kicad-libraries/src/lib.rs, files.rs, team.rs, *)
(* database.rs, plan.rs; crates/catalog-browser/src/kicad_libraries).      *)
(*                                                                         *)
(* The catalog is one part with its revisions, each with a symbol, a       *)
(* footprint and a 3D model of its own.  A server that claims the team     *)
(* gives the same catalog: only who may write tells the servers apart.     *)
(***************************************************************************)
EXTENDS Naturals

CONSTANTS
  Threads,       \* the threads that update the folder
  First,         \* one of them: of the team's old server
  Categories,
  Category,      \* the part's first one
  MaxRevisions,
  MaxChanges,    \* the most Changes
  MaxFaults,     \* how often a file, a request or a transaction fails, or
                 \* the app ends
  MaxStarts      \* how often KiCad starts

VARIABLES
  who,       \* each thread's team and server
  listed,    \* the threads whose team is in the person's list
  catalog,
  disk,      \* the folder
  lock,      \* who holds it: a thread, "answer" or "free"
  update,    \* each thread's update
  schedule,  \* whether each thread waits for another code or an answer, what
             \* its panel asks, and whether it was told of an answer
  answer,    \* the answer that the team moved
  kicad,     \* a running KiCad: the groups it loaded, the entries placed
  lost,      \* an update stopped between the .kicad_dbl and its state
  faults

threads == <<who, listed>>
bounds == <<lost, faults>>
vars == <<threads, catalog, disk, lock, update, schedule, answer, kicad, bounds>>

Tables == Categories \union {"older", "archived"}
Revisions == 1 .. MaxRevisions

-----------------------------------------------------------------------------
(* plan.rs: what a reading of the catalog becomes.                         *)

Read(c) == IF c.details THEN (1 .. c.revisions) \ c.unreadable ELSE {}

IsCurrent(c, n) ==
  n \notin c.archived /\ \A m \in Read(c) \ c.archived : m <= n

TableOf(c, n) ==
  IF n \in c.archived THEN "archived"
  ELSE IF IsCurrent(c, n) THEN c.category
  ELSE "older"

\* A mutant: only the tables that have a row.
PlannedWithRows(c) == {TableOf(c, n) : n \in Read(c)}

\* Every category's table, even with no rows.
Planned(c) == c.categories \union {"older", "archived"}

\* Every CAD revision has its file, whether the part can be read or not.
Files(c) == 1 .. c.revisions

-----------------------------------------------------------------------------
(* The team changes its catalog.                                           *)

Change ==
  /\ catalog.seq < MaxChanges
  /\ \/ /\ catalog.revisions < MaxRevisions
        /\ \E new \in {{}, {catalog.revisions + 1}} :  \* this app cannot read it
             catalog' = [catalog EXCEPT !.seq = @ + 1, !.revisions = @ + 1,
                                        !.unreadable = @ \union new]
     \/ \E n \in 1 .. catalog.revisions :
          catalog' = [catalog EXCEPT !.seq = @ + 1,
                        !.archived = (@ \union {n}) \ (@ \intersect {n})]
     \/ \E readable \in BOOLEAN, category \in catalog.categories :
          catalog' = [catalog EXCEPT !.seq = @ + 1, !.details = readable,
                                     !.category = category]
     \/ \E category \in Categories \ catalog.categories :
          catalog' = [catalog EXCEPT !.seq = @ + 1,
                                     !.categories = @ \union {category}]
  /\ UNCHANGED <<threads, disk, lock, update, schedule, answer, kicad, bounds>>

-----------------------------------------------------------------------------
(* One update of the folder.                                               *)

NoPlan == [revisions |-> 0]
Idle == [at |-> "idle", plan |-> NoPlan, layout |-> 0]
Fresh == [stuck |-> FALSE, asks |-> "nothing", moved |-> FALSE]
NoState == [team |-> "none", server |-> "none", layout |-> 0]

Refusal(t) ==
  IF disk.state = NoState THEN "none"
  ELSE IF disk.state.team # who[t].team THEN "taken"
  ELSE IF disk.state.server # who[t].server THEN "question"
  ELSE "none"

Freed(t) == IF lock = t THEN "free" ELSE lock

Stops(t, why) ==
  /\ update' = [update EXCEPT ![t] = Idle]
  /\ lock' = Freed(t)
  /\ schedule' = [schedule EXCEPT
       ![t].stuck = why \in {"taken", "question"},
       ![t].asks = IF why = "question" THEN disk.state.server ELSE "nothing"]

Goes(t, at) ==
  update' = [update EXCEPT ![t].at = at] /\ UNCHANGED <<lock, schedule>>

\* The thread looks, and reads the records.  An update is due after signing
\* in, after a Change, after a failure and whenever the person asks for one.
Look(t) ==
  /\ update[t].at = "idle" /\ t \in listed
  /\ schedule[t].moved \/ ~schedule[t].stuck
  /\ update' = [update EXCEPT ![t].at = "refusal", ![t].plan = catalog]
  /\ schedule' = [schedule EXCEPT ![t] = Fresh]
  /\ UNCHANGED <<threads, catalog, disk, lock, answer, kicad, bounds>>

\* Before the lock, so that a refused folder gets no lock file.
CheckRefusal(t) ==
  /\ update[t].at = "refusal"
  /\ IF Refusal(t) # "none" THEN Stops(t, Refusal(t)) ELSE Goes(t, "lock")
  /\ UNCHANGED <<threads, catalog, disk, answer, kicad, bounds>>

\* A mutant: the refusal is not checked again.
RefusalUnderLockUnchecked(t) == "none"

RefusalUnderLock(t) == Refusal(t)

TakeLock(t) ==
  /\ update[t].at = "lock"
  /\ IF lock # "free"
       THEN Stops(t, "busy") /\ UNCHANGED disk
     ELSE IF RefusalUnderLock(t) # "none"
       THEN Stops(t, RefusalUnderLock(t)) /\ UNCHANGED disk
     ELSE /\ lock' = t
          /\ disk' = [disk EXCEPT !.state.team = who[t].team,
                                  !.state.server = who[t].server]
          /\ update' = [update EXCEPT ![t].at = "files",
                                      ![t].layout = disk.state.layout]
          /\ UNCHANGED schedule
  /\ UNCHANGED <<threads, catalog, answer, kicad, bounds>>

MissingModels(t) == Files(update[t].plan) \ disk.models
MissingFootprints(t) == Files(update[t].plan) \ disk.footprints

\* One file, if it is not there: the paths sort models before footprints.
WriteFile(t) ==
  /\ update[t].at = "files"
  /\ \/ \E n \in MissingModels(t) : disk' = [disk EXCEPT !.models = @ \union {n}]
     \/ /\ MissingModels(t) = {}
        /\ \E n \in MissingFootprints(t) :
             disk' = [disk EXCEPT !.footprints = @ \union {n}]
  /\ UNCHANGED <<threads, catalog, lock, update, schedule, answer, kicad, bounds>>

\* A mutant: the files are not waited for.
AllFilesWrittenAny(t) == TRUE

AllFilesWritten(t) == MissingModels(t) = {} /\ MissingFootprints(t) = {}

\* Entries the plan no longer has are kept.
WriteSymbols(t) ==
  /\ update[t].at = "files" /\ AllFilesWritten(t)
  /\ disk' = [disk EXCEPT !.symbols = @ \union Files(update[t].plan)]
  /\ Goes(t, "database")
  /\ UNCHANGED <<threads, catalog, answer, kicad, bounds>>

\* Rows the plan has in no table stay, and so do tables it lacks.
Rows(c, rows, table) ==
  IF table \in Planned(c)
    THEN {n \in Read(c) : TableOf(c, n) = table} \union (rows \ Read(c))
    ELSE rows

\* One transaction.
SyncDatabase(t) ==
  /\ update[t].at = "database"
  /\ LET plan == update[t].plan
     IN  disk' = [disk EXCEPT
           !.tables = @ \union Planned(plan),
           !.rows = [table \in Tables |-> Rows(plan, @[table], table)]]
  /\ Goes(t, "groups")
  /\ UNCHANGED <<threads, catalog, answer, kicad, bounds>>

\* The first groups are no change.
Layout(t) == IF disk.groups = {} THEN update[t].layout ELSE kicad.starts

\* A KiCad that has started by now still has the old groups.
WriteGroups(t) ==
  /\ update[t].at = "groups"
  /\ LET groups == Planned(update[t].plan)
     IN  IF disk.groups = groups
           THEN UNCHANGED disk /\ Goes(t, "state")
           ELSE /\ disk' = [disk EXCEPT !.groups = groups]
                /\ update' = [update EXCEPT ![t].at = "state",
                                            ![t].layout = Layout(t)]
                /\ UNCHANGED <<lock, schedule>>
  /\ UNCHANGED <<threads, catalog, answer, kicad, bounds>>

SaveState(t) ==
  /\ update[t].at = "state"
  /\ disk' = [disk EXCEPT !.state = [team |-> who[t].team,
       server |-> who[t].server, layout |-> update[t].layout]]
  /\ Stops(t, "current")
  /\ UNCHANGED <<threads, catalog, answer, kicad, bounds>>

Unsaved(t) ==
  update[t].at = "state" /\ update[t].layout # disk.state.layout

\* A request fails, or a program holds a file open, or the disk is full.
Fail(t) ==
  /\ update[t].at \notin {"idle", "refusal"}
  /\ faults < MaxFaults
  /\ faults' = faults + 1
  /\ lost' = (lost \/ Unsaved(t))
  /\ Stops(t, "failed")
  /\ UNCHANGED <<threads, catalog, disk, answer, kicad>>

UpdateStep(t) ==
  \/ CheckRefusal(t) \/ TakeLock(t) \/ WriteFile(t)
  \/ WriteSymbols(t) \/ SyncDatabase(t) \/ WriteGroups(t) \/ SaveState(t)

-----------------------------------------------------------------------------
(* The person.                                                             *)

NoAnswer == [at |-> "idle", by |-> "none", from |-> "none"]

\* An update of a removed team carries on to its end.
RemoveTeam(t) ==
  /\ t \in listed
  /\ listed' = listed \ {t}
  /\ UNCHANGED <<who, catalog, disk, lock, update, schedule, answer, kicad, bounds>>

\* The team is added, or its person signs in again: the thread starts afresh.
AddTeam(t) ==
  /\ update[t].at = "idle"
  /\ \A other \in listed \ {t} : who[other].server # who[t].server
  /\ listed' = listed \union {t}
  /\ schedule' = [schedule EXCEPT ![t] = Fresh]
  /\ UNCHANGED <<who, catalog, disk, lock, update, answer, kicad, bounds>>

\* The team moved to this server.  Refused while the old one is listed.
Answer(t) ==
  /\ answer.at = "idle" /\ t \in listed
  /\ schedule[t].asks # "nothing"
  /\ \A other \in listed : who[other].server # schedule[t].asks
  /\ answer' = [at |-> "lock", by |-> t, from |-> schedule[t].asks]
  /\ UNCHANGED <<threads, catalog, disk, lock, update, schedule, kicad, bounds>>

\* A mutant: the answer does not wait for a running update.
HeldNever == FALSE

Held == lock # "free"

UseNewServer ==
  /\ answer.at = "lock" /\ ~Held
  /\ LET t == answer.by
     IN  IF disk.state.team = who[t].team /\ disk.state.server = answer.from
           THEN /\ disk' = [disk EXCEPT !.state.server = who[t].server]
                /\ answer' = [answer EXCEPT !.at = "saved"]
           ELSE answer' = NoAnswer /\ UNCHANGED disk
  /\ UNCHANGED <<threads, catalog, lock, update, schedule, kicad, bounds>>

\* An update held the folder for five seconds.
NotSaved ==
  /\ answer.at = "lock" /\ Held
  /\ answer' = NoAnswer
  /\ UNCHANGED <<threads, catalog, disk, lock, update, schedule, kicad, bounds>>

TellThread ==
  /\ answer.at = "saved"
  /\ schedule' = [schedule EXCEPT ![answer.by].moved = TRUE,
                                  ![answer.by].asks = "nothing"]
  /\ answer' = NoAnswer
  /\ UNCHANGED <<threads, catalog, disk, lock, update, kicad, bounds>>

PersonStep ==
  \/ \E t \in Threads : RemoveTeam(t) \/ AddTeam(t) \/ Answer(t)
  \/ UseNewServer \/ NotSaved \/ TellThread

-----------------------------------------------------------------------------
(* KiCad and the app start.                                                *)

StartKicad ==
  /\ kicad.starts < MaxStarts /\ disk.groups # {}
  /\ kicad' = [kicad EXCEPT !.starts = @ + 1, !.groups = disk.groups]
  /\ UNCHANGED <<threads, catalog, disk, lock, update, schedule, answer, bounds>>

Place ==
  /\ \E table \in kicad.groups : \E n \in disk.rows[table] :
       kicad' = [kicad EXCEPT !.placed = @ \union {n}]
  /\ UNCHANGED <<threads, catalog, disk, lock, update, schedule, answer, bounds>>

\* The app ends, anywhere, and starts again.
Restart ==
  /\ faults < MaxFaults
  /\ faults' = faults + 1
  /\ lost' = (lost \/ \E t \in Threads : Unsaved(t))
  /\ lock' = "free"
  /\ update' = [t \in Threads |-> Idle]
  /\ schedule' = [t \in Threads |-> Fresh]
  /\ answer' = NoAnswer
  /\ UNCHANGED <<threads, catalog, disk, kicad>>

Init ==
  /\ who \in [Threads -> [team : {"ours"}, server : {"old", "new"}]
                          \union {[team |-> "theirs", server |-> "theirs"]}]
  /\ who[First] = [team |-> "ours", server |-> "old"]
  /\ listed \in SUBSET Threads
  /\ \A t, other \in listed : who[t].server = who[other].server => t = other
  /\ catalog = [seq |-> 0, revisions |-> 1, unreadable |-> {}, archived |-> {},
                details |-> TRUE, categories |-> {Category}, category |-> Category]
  /\ disk = [state |-> NoState, models |-> {}, footprints |-> {}, symbols |-> {},
             tables |-> {}, rows |-> [table \in Tables |-> {}], groups |-> {}]
  /\ lock = "free"
  /\ update = [t \in Threads |-> Idle]
  /\ schedule = [t \in Threads |-> Fresh]
  /\ answer = NoAnswer
  /\ kicad = [starts |-> 0, groups |-> {}, placed |-> {}]
  /\ lost = FALSE /\ faults = 0

Next ==
  \/ Change \/ PersonStep \/ StartKicad \/ Place \/ Restart
  \/ \E t \in Threads : Look(t) \/ UpdateStep(t) \/ Fail(t)

Spec == Init /\ [][Next]_vars

-----------------------------------------------------------------------------

TypeOK ==
  /\ listed \subseteq Threads
  /\ catalog.seq <= MaxChanges /\ catalog.category \in catalog.categories
  /\ lock \in Threads \union {"free"}
  /\ \A t \in Threads : update[t].at \in
       {"idle", "refusal", "lock", "files", "database", "groups", "state"}
  /\ DOMAIN disk.rows = Tables
  /\ answer.at \in {"idle", "lock", "saved"}

\* What KiCad may read is there: the files a row names, the model a
\* footprint links to, and the tables of every group, whenever an update
\* stops and whoever updates next.
NothingIsMissing ==
  /\ \A table \in Tables :
       disk.rows[table] \subseteq disk.symbols \intersect disk.footprints
  /\ disk.footprints \subseteq disk.models
  /\ disk.groups \union kicad.groups \subseteq disk.tables

\* A KiCad whose groups are no longer those of the folder is told so by the
\* state, but for an update that has still to save it, or stopped there.
LayoutChangeIsTold ==
  kicad.starts > 0 /\ kicad.groups # disk.groups /\ ~lost
    /\ (\A t \in Threads : update[t].at # "state") =>
      disk.state.layout >= kicad.starts

\* A placed part is found by the KiCad that runs, in a group it loaded, or by
\* the next one, in a category the team added since, and then KiCad is told
\* to restart.
PlacedPartsResolve ==
  /\ \A n \in kicad.placed :
       \E table \in kicad.groups \union Categories : n \in disk.rows[table]
  /\ LayoutChangeIsTold

\* A folder of a team takes writes only from the server it records, which only
\* the person changes: though a server claims the team at the same time, and
\* an update of the old server still runs when the person answers.
ItsServerWrites ==
  disk' # disk /\ disk.state # NoState =>
    \/ answer.at = "lock" /\ answer'.at = "saved"
    \/ \E t \in Threads : /\ t \in {lock, lock'}
                         /\ who[t].team = disk.state.team
                         /\ who[t].server = disk.state.server

\* Every step that writes to the folder.
OnlyItsServerWrites == [][ItsServerWrites]_vars
=============================================================================
