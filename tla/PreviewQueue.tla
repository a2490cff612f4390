---------------------------- MODULE PreviewQueue ----------------------------
(***************************************************************************)
(* Who runs kicad-cli, and when: the requests for previews that the        *)
(* desktop's threads make of one PreviewCache (cached_or_export in         *)
(* crates/kicad-integration/src/preview.rs), and the queue they meet in    *)
(* (preview/queue.rs).                                                     *)
(*                                                                         *)
(* A thread is stopped by others only between two of these actions: each   *)
(* is what it does while it holds a lock, or the work it does with none.   *)
(* Only wait_for_turn takes a lock while it holds another one, so only     *)
(* there is a lock held from one action to the next.                       *)
(*                                                                         *)
(* An export is named by the request that runs it.                         *)
(***************************************************************************)
EXTENDS Naturals, FiniteSets

CONSTANTS
  Requests,       \* the requests that may be made
  Entries,        \* the cache entries they are for
  EntryOf,        \* which entry each is for
  Selections,     \* selection numbers
  Selection,      \* which selection each is for, NoSelection for none
  NoSelection,    \* sorts after every selection: never replaced
  MaxRunning,     \* MAX_RUNNING
  NoOne           \* no request

ASSUME PreviewQueueAssumption ==
  /\ EntryOf \in [Requests -> Entries]
  /\ Selections \subseteq Nat \ {0}
  /\ NoSelection \in Nat
  /\ \A s \in Selections : s < NoSelection
  /\ Selection \in [Requests -> Selections \cup {NoSelection}]
  /\ MaxRunning \in Nat \ {0}
  /\ NoOne \notin Requests

VARIABLES
  cached,    \* the entries in the cache
  running,   \* Turns.running
  newest,    \* Turns.newest_selection
  exports,   \* Queue.exports: the export in progress for each entry
  wantedBy,  \* SharedExport.wanted_by of each export
  outcome,   \* SharedExport.outcome of each export, "none" until it ended
  pc,        \* where each request is
  joined,    \* the export each request joined
  result     \* the outcome an exporter is about to share

queue == <<running, newest, exports>>
shared == <<wantedBy, outcome>>
local == <<joined, result>>
vars == <<cached, queue, shared, pc, local>>

At(r, place) == pc[r] = place
Goes(r, place) == pc' = [pc EXCEPT ![r] = place]

\* A request sleeps on turns_changed until a notify_all, which moves it on.
NotifyAll(r, place) ==
  pc' = [s \in Requests |-> IF s = r THEN place
                            ELSE IF pc[s] = "asleep" THEN "turning" ELSE pc[s]]

\* The lock on turns is held from one action to the next only by an exporter
\* about to take the lock on exports as well.
TurnsUnlocked == \A s \in Requests : pc[s] # "deciding"

-----------------------------------------------------------------------------
(* Looking in the cache, and joining an export.                            *)

Ask(r) ==
  /\ At(r, "new")
  /\ Goes(r, IF EntryOf[r] \in cached THEN "hit" ELSE "joining")
  /\ UNCHANGED <<cached, queue, shared, local>>

\* The first request for an entry runs its export; a later one joins it, and
\* the export learns of its selection.
Join(r) ==
  LET x == exports[EntryOf[r]]
  IN /\ At(r, "joining")
     /\ IF x = NoOne
        THEN /\ exports' = [exports EXCEPT ![EntryOf[r]] = r]
             /\ wantedBy' = [wantedBy EXCEPT ![r] = Selection[r]]
             /\ joined' = [joined EXCEPT ![r] = r]
        ELSE /\ wantedBy' = [wantedBy EXCEPT ![x] = IF @ < Selection[r] THEN Selection[r] ELSE @]
             /\ joined' = [joined EXCEPT ![r] = x]
             /\ UNCHANGED exports
     /\ Goes(r, "noting")
     /\ UNCHANGED <<cached, running, newest, outcome, result>>

\* Mutant of NoteSelection: a request without a selection is noted as well.
NoteEverySelection(r) ==
  /\ At(r, "hit") \/ At(r, "noting")
  /\ TurnsUnlocked
  /\ newest' = IF newest < Selection[r] THEN Selection[r] ELSE newest
  /\ NotifyAll(r, IF At(r, "hit") THEN "done"
                  ELSE IF joined[r] = r THEN "checking" ELSE "waiting")
  /\ UNCHANGED <<cached, running, exports, shared, local>>

\* Only then is its selection noted: a newer one wakes the sleeping exports.
NoteSelection(r) ==
  /\ At(r, "hit") \/ At(r, "noting")
  /\ TurnsUnlocked
  /\ LET place == IF At(r, "hit") THEN "done"
                  ELSE IF joined[r] = r THEN "checking" ELSE "waiting"
     IN IF Selection[r] # NoSelection /\ newest < Selection[r]
        THEN newest' = Selection[r] /\ NotifyAll(r, place)
        ELSE newest' = newest /\ Goes(r, place)
  /\ UNCHANGED <<cached, running, exports, shared, local>>

\* A request that joined another's export waits for its outcome.
Wait(r) ==
  /\ At(r, "waiting")
  /\ outcome[joined[r]] # "none"
  /\ Goes(r, "done")
  /\ UNCHANGED <<cached, queue, shared, local>>

-----------------------------------------------------------------------------
(* Running an export.                                                      *)

\* Mutant of CheckAgain: the cache is not looked at again after joining.
CheckOnce(r) ==
  /\ At(r, "checking")
  /\ Goes(r, "preparing")
  /\ UNCHANGED <<cached, queue, shared, local>>

\* Another export may have finished between the look in the cache and joining.
CheckAgain(r) ==
  /\ At(r, "checking")
  /\ IF EntryOf[r] \in cached
     THEN Goes(r, "ending") /\ result' = [result EXCEPT ![r] = "ok"]
     ELSE Goes(r, "preparing") /\ UNCHANGED result
  /\ UNCHANGED <<cached, queue, shared, joined>>

\* Writing the input into a staging folder may fail.
Prepare(r) ==
  /\ At(r, "preparing")
  /\ \/ Goes(r, "turning") /\ UNCHANGED result
     \/ Goes(r, "ending") /\ result' = [result EXCEPT ![r] = "failed"]
  /\ UNCHANGED <<cached, queue, shared, joined>>

\* Only older selections than the newest want the export.
Outdated(r) == wantedBy[r] < newest

\* Mutant of TurnFree: one export too many.
TurnFreeAtTheLimit == running <= MaxRunning
TurnFree == running < MaxRunning

\* wait_for_turn, under the lock on turns: take a turn, sleep until turns
\* change, or go on to drop the export.
WaitForTurn(r) ==
  /\ At(r, "turning")
  /\ TurnsUnlocked
  /\ \/ Outdated(r) /\ Goes(r, "deciding") /\ UNCHANGED running
     \/ ~Outdated(r) /\ TurnFree /\ running' = running + 1 /\ Goes(r, "running")
     \/ ~Outdated(r) /\ ~TurnFree /\ Goes(r, "asleep") /\ UNCHANGED running
  /\ UNCHANGED <<cached, newest, exports, shared, local>>

\* The export of r is no longer the one in progress.
Unlisted(r) ==
  IF exports[EntryOf[r]] = r THEN [exports EXCEPT ![EntryOf[r]] = NoOne] ELSE exports

\* Mutant of Decide: it does not look again under both locks.
DecideWithoutLooking(r) ==
  /\ At(r, "deciding")
  /\ exports' = Unlisted(r)
  /\ result' = [result EXCEPT ![r] = "replaced"]
  /\ Goes(r, "telling")
  /\ UNCHANGED <<cached, running, newest, shared, joined>>

\* With the lock on exports as well, it looks again: if a newer request joined
\* the export meanwhile, the export is kept and sleeps.
Decide(r) ==
  /\ At(r, "deciding")
  /\ \/ /\ Outdated(r)
        /\ exports' = Unlisted(r)
        /\ result' = [result EXCEPT ![r] = "replaced"]
        /\ Goes(r, "telling")
     \/ /\ ~Outdated(r)
        /\ Goes(r, "asleep")
        /\ UNCHANGED <<exports, result>>
  /\ UNCHANGED <<cached, running, newest, shared, joined>>

\* A condition variable may wake a sleeper for no reason.
WakeForNoReason(r) ==
  /\ At(r, "asleep")
  /\ Goes(r, "turning")
  /\ UNCHANGED <<cached, queue, shared, local>>

\* kicad-cli ends, or is stopped after its time limit, or the thread panics.
Run(r) ==
  /\ At(r, "running")
  /\ \E how \in {"ok", "failed"} : result' = [result EXCEPT ![r] = how]
  /\ Goes(r, "returning")
  /\ UNCHANGED <<cached, queue, shared, joined>>

AfterRun(r) == IF result[r] = "ok" THEN "storing" ELSE "ending"

\* Mutant of ReturnTurn: no one is told of the free turn.
ReturnTurnQuietly(r) ==
  /\ At(r, "returning")
  /\ TurnsUnlocked
  /\ running' = running - 1
  /\ Goes(r, AfterRun(r))
  /\ UNCHANGED <<cached, newest, exports, shared, local>>

\* Dropping the turn gives it back.
ReturnTurn(r) ==
  /\ At(r, "returning")
  /\ TurnsUnlocked
  /\ running' = running - 1
  /\ NotifyAll(r, AfterRun(r))
  /\ UNCHANGED <<cached, newest, exports, shared, local>>

\* The output is renamed into the cache in one step, which may fail.
Store(r) ==
  /\ At(r, "storing")
  /\ \/ cached' = cached \cup {EntryOf[r]} /\ UNCHANGED result
     \/ cached' = cached /\ result' = [result EXCEPT ![r] = "failed"]
  /\ Goes(r, "ending")
  /\ UNCHANGED <<queue, shared, joined>>

\* The export ends: it is taken off the exports in progress...
Finish(r) ==
  /\ At(r, "ending")
  /\ exports' = Unlisted(r)
  /\ Goes(r, "telling")
  /\ UNCHANGED <<cached, running, newest, shared, local>>

\* ...and then its outcome is shared with every request that joined it.
Tell(r) ==
  /\ At(r, "telling")
  /\ outcome' = [outcome EXCEPT ![r] = result[r]]
  /\ Goes(r, "done")
  /\ UNCHANGED <<cached, queue, wantedBy, local>>

-----------------------------------------------------------------------------
Init ==
  /\ cached = {}
  /\ running = 0 /\ newest = 0
  /\ exports = [e \in Entries |-> NoOne]
  /\ wantedBy = [r \in Requests |-> 0]
  /\ outcome = [r \in Requests |-> "none"]
  /\ pc = [r \in Requests |-> "new"]
  /\ joined = [r \in Requests |-> NoOne]
  /\ result = [r \in Requests |-> "none"]

\* What the thread of a request does next, once it has been asked.
Step(r) ==
  \/ Join(r) \/ NoteSelection(r) \/ Wait(r) \/ CheckAgain(r) \/ Prepare(r)
  \/ WaitForTurn(r) \/ Decide(r) \/ Run(r) \/ ReturnTurn(r) \/ Store(r)
  \/ Finish(r) \/ Tell(r)

Next == \E r \in Requests : Ask(r) \/ Step(r) \/ WakeForNoReason(r)

Spec == Init /\ [][Next]_vars

\* Threads that can go on do: kicad-cli has a time limit, and a lock is held
\* only for moments.
Fairness == \A r \in Requests : WF_vars(Step(r))
FairSpec == Spec /\ Fairness

-----------------------------------------------------------------------------
(* Properties.                                                             *)

Exporting == {"checking", "preparing", "turning", "deciding", "asleep", "running",
              "returning", "storing", "ending", "telling"}
Outcome == {"none", "ok", "failed", "replaced"}

\* Only requests are in the queue, each for its own entry.
TypeOK ==
  /\ cached \subseteq Entries
  /\ running \in Nat
  /\ newest \in Selections \cup {0}
  /\ exports \in [Entries -> Requests \cup {NoOne}]
  /\ wantedBy \in [Requests -> Selections \cup {0, NoSelection}]
  /\ outcome \in [Requests -> Outcome]
  /\ pc \in [Requests -> Exporting \cup {"new", "hit", "joining", "noting", "waiting", "done"}]
  /\ joined \in [Requests -> Requests \cup {NoOne}]
  /\ result \in [Requests -> Outcome]

HoldsTurn(r) == pc[r] \in {"running", "returning"}

\* Turns are counted right, and no more are held than the limit (queue.rs:6).
TurnsAreLimited ==
  /\ running = Cardinality({r \in Requests : HoldsTurn(r)})
  /\ running <= MaxRunning

\* kicad-cli never runs twice at once for one entry, nor for an entry the
\* cache has (queue.rs:3, preview.rs:397).
OneExportPerEntry ==
  \A r \in Requests : pc[r] \in {"running", "returning", "storing"} =>
    /\ EntryOf[r] \notin cached
    /\ \A s \in Requests \ {r} :
         EntryOf[s] = EntryOf[r] => pc[s] \notin {"running", "returning", "storing"}

\* The outcome the thread of a request got, "none" while it has none.
AnswerTo(r) == IF pc[r] = "done" /\ joined[r] # NoOne THEN outcome[joined[r]] ELSE "none"

\* A request is told it was replaced only when there is a newer selection:
\* never the newest one, and never one without a selection (queue.rs:116).
OnlyOlderAreReplaced ==
  \A r \in Requests : AnswerTo(r) = "replaced" => Selection[r] < newest

\* Every request gets an answer, whatever it shares, waits for or is replaced
\* by.
EveryRequestIsAnswered == \A r \in Requests : pc[r] # "new" ~> pc[r] = "done"

\* A newer request that joins an export keeps it: the export gets its turn,
\* and the request its answer (queue.rs:306, the test
\* a_newer_request_that_joins_keeps_the_export).
JoiningKeepsTheExport ==
  \A r \in Requests : pc[r] = "waiting" /\ Selection[r] >= newest ~> pc[r] = "done"
=============================================================================
