# KiCad Parts: a TLA+ verification development

TLA+ models of the parts of KiCad Parts that are hard to test, what TLC checks of
them on small instances, and what TLAPS proves of them for every instance. Every
definition that models code is listed with its source lines in `PROJECT.json`
("map"); this file explains them.

KiCad Parts is a desktop app (Rust: Tauri shell, Leptos window) for teams that
design with KiCad. Each team has a team server, a PocketBase with JavaScript hooks,
that holds the team's Catalog: its parts, their numbered details and revisions,
and the CAD items the revisions use. The desktop follows the Catalogs of all the
teams its person is in, edits them, draws previews with `kicad-cli`, and writes
KiCad libraries.

    several people's windows      TeamColumn      (desktop-ui, catalog-browser)
            | edits, each with a correlation ID
            v
    a team server                 Catalog  ----implements---->  ChangeLog
            | Changes, in order; notifications on a stream        ^
            v                                                     | is the server of
    a desktop's replica           Follower  ----------------------+
            |
            +-- what is kept of it    SignIns, PartsKept   (catalog-browser/teams)
            |
            +-- KiCad's libraries     KicadFolder          (kicad-libraries)
            v
    previews of what is selected  PreviewQueue    (kicad-integration)
            ^
            | library files
    git repositories of libraries LibraryCopies, LayoutFiles  (library_repos)

## 1. Inventory

What each component keeps, does and meets, and what makes it correct. "Modelled",
"partly" and "not modelled" per component, with reasons, are in `PROJECT.json`.

| Component | State | Operations | What is hard | What makes it correct |
|---|---|---|---|---|
| **Catalog routes** `infra/pocketbase/pb_hooks/catalog_lib.js` | Changes, details, part revisions, CAD item revisions, archive entries, matches, categories, each part's current pointers, the answers kept by correlation ID, audit entries | publish an edit, a new part, an archive or unarchive, a category; the migration's starting categories | retries and reused correlation IDs; two people editing from the same numbers; numbering after archived revisions; CAD items shared by parts | a request is carried out once; nothing is overwritten unseen; numbering without gaps; archived designs stay away |
| **Write guards** `catalog_write_guards.pb.js` | (the same collections) | check each record saved, move the current pointers | they repeat the routes' rules: a disagreement fails a legal request | no route ever trips them; the pointers are what the records say |
| **Team settings** `team.pb.js` | team code, its audit entry | choose the code, once | shares correlation IDs with the routes | no two acts under one ID |
| **Collaboration commands** `collab_commands.pb.js` | commands, members | the same command pattern | retries | as for the Catalog |
| **Catalog replica and follower** `crates/catalog/src/replica.rs`, `crates/catalog-browser/src/team/session.rs`, `crates/collaboration/src/realtime.rs` | replica with checkpoint, what the person is shown, one stream | subscribe, read pages, catch up, receive, reconnect, sign in again | Changes published between any two requests; lost notifications, silent streams, failures half way | the replica is exactly the Changes up to its checkpoint; nothing is missed silently; every Change arrives |
| **Team catalog session** `team/mod.rs` | replica, retained histories | send edits, new parts, archives; interpret answers | answers lost or late | what is reported happened |
| **Team column** `apps/desktop-ui/src/team.rs` | what is shown, the form, the conflict, the retry slot | select, edit, save, resolve a conflict | answers that arrive after something else was selected or typed; saving again after a lost answer | what it says is saved is saved; a retry is not a second save |
| **Known parts** `team/known_parts.rs` | parts made last, with their version; the parts file shown | make, give again, show the file, forget it | the version is read before the parts, while the follower applies | parts given again are those it would make now |
| **Keeper of sign-ins** `teams/keeper.rs`, `teams/mod.rs`, `sign_ins.rs` | the list, the stored token, the session and keeper thread of each entry, its turn | carry on, renew, judge, keep; sign in, sign out, remove | judging and storing outside the turn; a store that is slow or fails; the app ending anywhere | a signed-out team stays signed out and its token is forgotten; who stays signed in has the newest token kept |
| **Parts writer and file** `teams/parts_writer.rs`, `parts_file.rs`, `saved.rs` | the last known parts on disk | write while in step, delete on sign-out | read, judged and written at three moments; deleting in between | the file never goes back, and stays deleted after signing out |
| **Library repositories** `library_repos/mod.rs`, `repo.rs`, `git.rs` | local git copies, checks under way, which address the copy has | link, check, clone, move, fetch, push, read, delete | threads of several teams and a lock per copy | git meets a whole copy at its own team's address; none is deleted in use |
| **Layouts and library files** `library_repos/layout/` | the reviewed layout, a folder of files per commit with its mark | follow, review, write, browse, delete | following while the person reviews; deleting while writing | a review is kept; a folder marked complete is whole |
| **Preview queue and cache** `crates/kicad-integration/src/preview.rs`, `preview/queue.rs`, `staging.rs`, `eviction.rs` | exports in progress, turns, newest selection, cache entries | ask, join, wait for a turn, export, store, evict | two locks and a condition variable; giving up exports nobody wants while someone joins | limited turns; one export per entry; only older requests replaced; everyone answered |
| **KiCad library folders** `crates/kicad-libraries` | files, `.kicad_dbl`, SQLite, state file, lock | update, use another server | a stop between any two files while KiCad runs; two servers that claim one team | nothing that is named is missing; a placed part resolves; only the recorded server writes |
| **Background library updates** `kicad_libraries/team.rs` | what each team's thread waits for and asks | update after Changes, answer that a team moved | teams removed and added while an update runs | one writer per folder; a refused update waits for the person |
| **Pure algorithms** `crates/catalog/src/{guess,compare,ipn,part}.rs` | none | category guess, comparison, next IPN | boundaries | agree with a reference definition |
| **File formats, drawing, 3D** `lib_table.rs`, `library_file.rs`, `drawing.rs`, `cad_file.rs`, `model3d.rs`, `glb.rs` | none | parse and draw | text processing | unit tests |
| **Shell, tooling** `apps/desktop`, `tooling/` | none of their own | pass calls on; build and test | - | - |

How they interact: the window calls the shell, the shell calls `catalog-browser`, which
calls the team server over HTTPS and keeps a background thread per team that follows
its stream. Threads share the replica, the preview cache and each team's turn under
locks. A Change is the only way anything in a Catalog moves, and everything
downstream (replica, known parts, parts file, KiCad libraries, the column) is a
function of the Changes seen so far.

The hazards of this code, each at its line and with the properties that would
catch it, are listed in `PROJECT.json` ("hazards"); those without a property say why.

## 2. The modules

### ChangeLog: what a server promises

The abstract specification: a log of Changes and each part's current details and
revision number. A Change names at most one part and moves it to the numbers it
says; nothing else moves a part. This is the contract written in
`catalog_lib.js` above `requireTransaction`, and the one thing every desktop relies
on. `Catalog` implements it (`KeepsContract`), `Follower` uses it as its server.

### Catalog: the team server

One variable per PocketBase collection (`changes`, `details`, `revisions`,
`cadRevisions`, `archiveEntries`, `matches`, `categories`, `ledger`, `audits`), the
parts' pointers (`current`) and the team code. A route runs in one transaction, so
each is one action: `PublishEdit`, `PublishCreate`, `PublishArchive`,
`PublishCategory`, `SetUpStartingCategories`, `SetTeamCode`. An action's guard is the
route's order of checks: the kept answer of the correlation ID, the conflict, the
refusals, and nothing to change. All routes that save end in `Commit`, whose guard is
that the derived IDs are free and that the write guards (`GuardsAllow`) accept every
record: if one refuses, the transaction saves nothing, so the action is not enabled.
`GuardsNeverTrip` says that this never hides a request that the route accepted.

Abstracted: an answer that saves nothing (replay, conflict, refusal) is a stuttering
step. CAD is symbols and footprints of our own libraries. Left out: 3D models, which
revisions bind through footprints; references to libraries outside the Catalog; the
excluded-from-BOM mark; reasons and wording; whether an IPN carries its category's
prefix; permissions (every actor may edit); several clues in one match. A request may
name any numbers in `Numbers`, so stale and future ones as well.

### Follower: a desktop following one team

The follower thread as `phase`: `waiting` (between streams), `connected`, `starting`
and `reading` (first read, page by page), `listing` and `replaying` (catching up on a
copy), `live`, `signedOut`. `replica`, `updates` and `inStepAt` are `Live`'s fields,
`draft` the copy, `inFlight` and `lost` the stream's notifications. Each request of the
thread is one action, and the server publishes between any two. `Receive` ignores,
applies or catches up; `Fail`, `StreamCloses`, `FallsSilent`, `Rejected` are the ways a
session breaks; `SignIn` starts a new one.

Abstracted: durations (a wait is a state; `inStepAt` counts Changes instead of
milliseconds). `Install` merges the few lock steps by which a finished copy becomes
the replica and the desktop is marked live. The content of records is not there: a
record never changes once it is saved, so only which one is current matters. Histories
that people open and the account and people lists are not modelled.

### PreviewQueue: who runs kicad-cli

Every request is a thread; `pc` says where it is. An action is what is done under one
lock, or the work done with none, so every interleaving the locks allow is a
behaviour. `wait_for_turn` is the one place that takes a lock (`exports`) while
holding another (`turns`): `WaitForTurn` stops at `deciding` with `turns` still locked
and `Decide` goes on. The condition variable is `asleep`: `NotifyAll` moves every sleeper
back to `turning`, and `WakeForNoReason` is a spurious wake-up.

Abstracted: an entry is in the cache or not. Other apps on the same cache, eviction
and cache paths are left out. A panic in an export is the outcome `failed`.

### TeamColumn: saving from the window

The column of the selected part, with its form (`draft`), its conflict, `busy` and the
retry slot that makes correlation IDs; `calls` are the saves it sent, each going
through `Compose` (what the edit sends, read from the Catalog), `Serve` (the server's
`publishEdit`), `Understand` (the answer, with the part read again), `Published` (the
column takes it in). `GiveUp` is an unreachable server or a lost answer: the request
may still arrive later. `OthersSave` is anyone else's edit; `LiveUpdate`,
`ReadRefresh` and `ShowRefresh` are the column's own reads after a Change.

Abstracted: details and revision are one record with one number and one content (the
server's two are in `Catalog`); choosing a part and the effects it sets off are one
action. `Compose` reads the Catalog once; the local library folder has every
item a form may name. IDs are counters. Left out: archiving from the history,
opening the form from Add part, signing in and out, who may edit and being offline,
chosen files and 3D models. `SelectWhileSaving` says whether the person selects another
part while a save is out; nothing in the window prevents it.

### SignIns: staying signed in

One team server and the list of teams. `store` is the one token in the system's password
store, `listed` the saved list, `entry` the team's entry; each time the team is added it
gets a new entry with a catalog (`session`, `number`) and a keeper thread of its own, and
the keeper of a removed entry goes on until it next looks (`Stopped`). `keeper[e].at` is
where the thread of `keep` (`keeper.rs`) stands: it looks in the store (`Look`), carries on
what it found (`CarryOn`, `Resumed`, `AfterResuming`), watches the session (`Watch`), asks the
server about it and renews it (`Status`, `Renewed`), and stores or forgets a token in its
turn (`TakeKeep`, `Keep`, `TakeRejected`, `Forget`). The person's calls are `SignIn` to
`SaveSignIn`, `SignOut` with `SignOutStep`, `Remove` with `RemoveStep`: signing in and removing
hold `one_at_a_time` (`person`), signing out does not (`leaving`). `Revoke` is the server
ending its tokens, `Refuse` the follower learning it, `Restart` the app ending at any step.

Abstracted: due times and retries (a keeper may look at any time), whose account it is,
several servers (teams share only the list). `unforgotten` and `forgotOther` are ghosts that
mark the two cases the properties leave out: the store failed, or the app ended, before a
token was forgotten; and a sign-out whose store is still forgetting when the team was
removed and signed in to again, which then forgets the new token. The code has three more
gaps that no property denies: signing in while signing out may end with the list saying
"in" and no session; if the store cannot forget, the person signs in again and the app ends
before the new token is stored, the next start carries on the old one; and a list that
cannot be saved is only logged (not modelled).

### PartsKept: the parts a desktop knows, and the file of them

The session's replica is the number of its newest Change (`Follower` says that is enough)
with the count of catch-ups that goes into a version. `ReadVersion` and `ReadValues` are the
two reads of `last_known_parts`, with the follower (`Follow`), sign-ins and sign-outs in
between; `known` is what is given again while the version stays. `Due`, `ReadParts`,
`CheckWorth`, `Write` are the writer's steps: it reads outside its turn, and checks in it
(`StillWorthWriting`). `SignOut`, `Leave`, `Forgotten`, `Delete` are the steps of a sign-out, of
which the last deletes the file under the same turn. `Restart` shows the file again.

Abstracted: parts are known by their newest Change; choosing the moment to write
(`WriteSchedule`) is open, and so are the minutes between refreshes; temporary files (a
write is whole or not there, for the file replaces the old one when it is on disk).
Whether the store of tokens fails is in `SignIns`. A keeper that carried a session on
while a slow sign-out had its store forget the token may have the file written once
more: `FileStaysDeleted` therefore speaks of sessions up to the newest when the person
signed out.

### KicadFolder: the libraries KiCad reads

`disk` is the folder: models, footprints, symbols, database tables with their rows, the
groups of the `.kicad_dbl`, and the state file. An update reads the catalog (`Look`), checks
whose folder it is, takes the lock and checks again (`CheckRefusal`, `TakeLock`), and writes
in the order of `update` (`lib.rs`): models, footprints (`WriteFile`), symbols
(`WriteSymbols`), rows in one transaction (`SyncDatabase`), groups (`WriteGroups`), state
(`SaveState`); `Fail` and `Restart` stop it anywhere. `Planned`, `TableOf`, `Rows` are what
`plan.rs` and `database.rs` make of a catalog. `Answer`, `UseNewServer`, `NotSaved`,
`TellThread` are the person's answer that a team moved to another server. `StartKicad` loads
the groups that are there, `Place` uses a row of a loaded group.

Abstracted: the catalog is one part with revisions, each with files of its own; both servers
have the same catalog; an update may start whenever its thread is not stuck. Not there:
placeholder categories, files changed outside, symbols this KiCad cannot read, the team's
code. Limits: (1) the lock is one that excludes, as on Windows, for which the app ships
(`FolderLock` elsewhere does not exclude another program); (2) a removed team is added again
only after its thread's update ended; otherwise its older reading may be written last;
(3) the update writes the `.kicad_dbl` before the state, and stopping between them loses that
the layout changed: `lost` marks it, and `PlacedPartsResolve` excepts it.

### LayoutFiles: a repository's layout and its library files

Commits are numbers; a scan is the set of libraries it found. `Fetch`, `StartFollow`, `Follow`
are a fetch that follows the newest commit under the lock of `writing`; `Review` and
`UseLayout` the person's dialog, which keeps the profile under the same lock. `Browse` to
`DeleteOtherCommits` are one call of `team_libraries`, which asks `browsable` once per team
that links the repository: it gives the folder of the reviewed commit if its mark is
complete, or the one given before, starts a writer, and deletes the others. `StartWriting`,
`WriteFile`, `Complete`, `WriteFails` are the writer's thread; `DeleteUnlinked` and `Restart`
come anywhere.

Abstracted: what a scan finds; names of files (a library is one file); a branch that is
forced back (`head` only grows); two commits with the same first twelve characters.

### LibraryCopies: the copy of a repository

One repository that teams may link by several addresses, so several checks meet at one
copy. `change` and `reading` are the two locks of `CopyLock`; `disk` the copy and the one
being made beside it, `origin` the address the copy fetches from. A check is `CanRead`,
`CopyOrFetch`, `Fetched` or `Cloned` and `Move`, `CanWrite`, `Pushed`, each one git run;
`FetchAtStart` a fetch of the app's start; `Scan` and `Read` the readers; `TryEntry`,
`DeleteIfIdle`, `StartDeleting`, `Delete` the deletion of folders no team links. `Link`,
`Unlink`, `CheckAgain`, `NoteStatus` are the calls that start them. A copy is `broken` when
its deletion stopped half way: nothing tells it from a whole one until git fails in it.

Abstracted: what the host answers (`HostFails` or not), results kept between starts, the
queue of two fetches per host, following an address to its clone URL, other people's
checkouts. Deletion looks which folders are wanted before it looks at the first one; a
repository linked meanwhile loses an idle copy and copies again.

## 3. The runs

All times are of a small machine. Deadlock is checked for Follower and TeamColumn; it
is not for Catalog, whose requests end when every correlation ID of the instance is
used, nor for PreviewQueue, whose threads end, nor
for the desktop's parts, where the person may do nothing more.

| Run | What it asks | Instance and why it is enough |
|---|---|---|
| `catalog_history` | After any history: are parts on their newest unarchived revision, numbers in order, edits never overwritten unseen, archived CAD away, bindings put, the guards never tripped, the contract kept? | Two parts sharing one CAD item with two contents, five correlation IDs (so five requests that change something), numbers 1-3. Creating, editing twice and archiving twice is five: enough for a part to stand on 1 while 2 and 3 are archived, and for another part to move a shared CAD item. 93 680 states. |
| `catalog_answers` | Is a request answered and carried out once, whoever sends it again and whatever shares its ID? | Every route with two people, two categories, details of two fields, and two ordinary correlation IDs beside the setup's own, which a client can send as well. |
| `follower_follows` | Is the replica always exactly its checkpoint, is anything missed silently, does every Change arrive? | Two parts, three Changes out of creating, editing, archiving back and a Change about a part's other records, one failure, any notification lost. Three Changes give one read behind the checkpoint, one notified, one lost. 387 989 states. |
| `follower_in_step` | (violated) Is the time shown as "in step" one at which the replica matched the server? | Two Changes, one failure. |
| `preview_safety` | Are turns counted, entries exported once, and only older requests replaced? | Four requests and one turn; three for one entry from an older, a newer and no selection. |
| `preview_answers` | Is every request answered? | Four requests, one turn, joined only by requests of their own selection: the other case is the next run. |
| `preview_joining` | (violated) Does a newer request that joins an export keep it? | Two entries, two selections, two turns. |
| `column_saves` | Is what the column says is saved saved, and is a save sent again unchanged answered as the first time? | A part in each of two teams with the same IPN, three contents of which one needs a CAD item, two saves, one lost request or answer, selecting the other part at any time. 1 944 625 states. |
| `column_retry` | (violated) Does a retry replay the first answer? | One part, three records, two saves, one lost answer. |
| `column_late_answer` | (violated) Does every save reach the part's own team? | As `column_saves`. |
| `desktop_parts` | Does what was signed out, deleted, refused or replaced come back, and is what is read whole? | `Desktop`: six instances of five modules that share no state in the code, so a behaviour is one of a single part, chosen at the start; each property speaks of one part. 2 372 071 states in all. |
| `layout_reviewed_again` | (violated) Do files that are ready hold the profile? | Two libraries, two commits, two events: the layout kept with one library and again with both. |

The parts of `desktop_parts` and their bounds:

| Part | Instance | States |
|---|---|---|
| `sign-ins` | Two tokens, two entries (the team added, removed and added again), four acts of the person, one failure, one end of the app: a sign-in, a sign-out that overlaps a keeper's renewal, and another sign-in fit. | 284 000 |
| `part list` | `PartsKept` read by the part list: two Changes, two sessions, one catch-up each. | 189 000 |
| `parts file` | The same with the writer, and one restart. | 639 000 |
| `folder` | Two threads (of two servers of one team, or of two teams), two revisions, two categories, one more Change, one fault, two starts of KiCad. | 780 000 |
| `layouts` | Two teams on one repository, two commits, one follower, two events. | 160 000 |
| `repo` | One team, two addresses (it may link one after the other), two events. | 319 000 |

Bounds by name: `Correlations` and `Numbers` (Catalog), `MaxChanges` and `MaxFailures`
(Follower), `Requests` (PreviewQueue), `MaxNumber`, `MaxIds`, `MaxCalls` and
`MaxFailures` (TeamColumn), `MaxTokens`, `MaxEntries`, `MaxActs`, `MaxFailures` and
`MaxCrashes` (SignIns), `MaxSeq`, `MaxCatchUps`, `MaxSessions` and `MaxRestarts` (PartsKept),
`MaxRevisions`, `MaxChanges`, `MaxFaults` and `MaxStarts` (KicadFolder), `MaxCommits` and
`MaxEvents` (LayoutFiles), `MaxEvents` (LibraryCopies). They appear only in guards or in what is enumerated. The
proofs have none of the instances' sizes: they hold for any value of the constants.
Symmetry is used in the Catalog runs only, over correlation IDs (never the setup's) and
file contents, and those runs check no liveness.

For every property of a passing run `PROJECT.json` ("mutants") names a plausible slip in
the code (a dropped check, an off-by-one, a missing notify) under which TLC finds it
violated; the mutated operators stand next to the ones they replace.

### Fairness

`Follower!Fairness`: the thread's own requests go on (HTTP requests have time limits, a
wait between connections is bounded); a notification on its way is received or lost;
and a live stream on which nothing comes ends some time (PocketBase closes it after 5
quiet minutes, `realtime.rs` gives it up after 6 silent ones). Nothing is assumed of
publishing, of losing notifications, of failures or of a person signing in again. Failures
are bounded by `MaxFailures`: a network that fails for ever delivers nothing.

`PreviewQueue!Fairness`: the thread of a request goes on whenever it can. kicad-cli is
stopped after 120 s, locks are held for moments. A spurious wake-up and the asking
itself are not assumed.

`SignIns!Fairness`: a keeper's loop goes on (it ticks every 250 ms, and its requests and the
store answer or fail), the calls of the person return once made, and a follower whose
token is refused learns it at its next request. Nothing is assumed of the person, of the
server ending tokens, of failures or of the app ending. `Desktop` repeats this fairness for
its part; the other parts are checked for safety only.

### Where the code differs from what it says

1. `follower_in_step`: `Live::in_step_at_ms` is documented as when the replica last
   matched the server (`session.rs:87`). When a live connection breaks, `in_step_now`
   sets it to now, also when it broke because a Change the server announced could not be
   fetched.
2. `preview_joining`: in `wait_for_turn` an export about to be given up looks again
   under both locks; when a request of the newest selection joined meanwhile it keeps
   the export, but waits on the condition variable without looking for a free
   turn. If no other export runs and no newer selection comes, nobody wakes it; the
   test `a_newer_request_that_joins_keeps_the_export` (`queue.rs:306`) expects a turn.
3. `column_retry`: the body of a retry is composed again. If the first try added a CAD
   item of our libraries and its answer was lost, the retry no longer sends the item, so
   the server refuses the correlation ID instead of replaying its answer (`team.rs:105`).
   `SameBodyReplays`, checked in `column_saves`, says that this is the only way: a retry
   with the same body is always answered as the first time.
4. `column_late_answer`: a save's answer is taken into the column even if a part of
   another team was selected meanwhile; `ui.team` then names the other team, and the
   next save of what is shown goes there (`team.rs:67`).
5. `layout_reviewed_again`: the mark of a complete folder of library files names its commit
   only. A layout reviewed again at the same commit, now with a library that was left out,
   is saved, but `write_library_files` returns early (`layout/files.rs:52`) and the folder is
   given as ready without that library's files, until the next commit. `library_repos/mod.rs:91`
   says that it holds the profile's libraries once written.

## 4. The proofs

TLAPS checks every theorem and lemma to the last leaf; the assumptions are the modules'
named `ASSUME`s about constants (`CatalogAssumption`, `FollowerAssumption`,
`PreviewQueueAssumption`, `TeamColumnAssumption`, `DesktopAssumption`) and, where a theorem
says so, what it assumes itself. None of them bounds a size from above. Every invariant and
every action property that a passing run checks is stated by a theorem; for each of the five
findings of section 3 a theorem more says that it needs what the run shows: without that, what
the code promises is kept (of `preview_joining`, a promise of liveness, its safety half).

**`Catalog_proofs`: `RequestsCarriedOutOnce`.** The invariant is `AnswersInv`: the types of
ledger and Changes, and `CarriedOutOnce` itself, which is inductive together with them.
`WhatAStepSaves` first reduces the six routes to four kinds of step (nothing, an answer
"changes nothing", one Change with its answer, the setup); the setup shares no answer,
so its one Change is told apart by its correlation ID.

**Records: `SchemasAreKept`, `RecordsAreNumberedInOrder`, `PartsStandOnTheNewest`.**
`CurrentIsNewest` alone is not inductive: what "newest" means depends on the numbering.
`RecordsInv` adds that every record was saved by an existing
Change, that an owner with records has a newest one, and that numbers run in order.
`FollowingKeepsOrder` is the heart: a record that follows the newest keeps an owner's
records in order and becomes the newest. Each route is shown to write what is
well-formed (`EditIsWellFormed`, ...), and `Commit` to preserve the invariant for any
well-formed writes that pass the guards.

**Guards and contract: `RoutesNeverTripTheGuards`, `ServerKeepsContract`.** The first
needs `RecordsInv` and that archive entries name existing revisions
(`EntriesNameRevisions`); it is one lemma per route. The second is the refinement: an
initial state maps to an initial state (`InitKeepsContract`), and every step either
publishes exactly the Change that its records say, or stutters (`StepKeepsContract`). The
reason is that the records naming an earlier Change never gain another one, so the log
only grows at its end.

**Designs: `NoUpdateIsLost`, `ArchivedCadIsNeverSavedAgain`, `BindingsOnlyMoveWithContent`.**
The three hold by one invariant, `DesignsInv`, on top of those before. CAD item revisions
are only added, so what a binding means never changes (`ContentStays`). `EditsStartFrom`
keeps for every saved record what its request expected, and `EditedFromEarlier` the number
it was edited from. `ForksAreArchived` is the reason that no update is lost: of two
revisions edited from the same one, the first was archived before the second was saved, as
otherwise the part would stand on the first or on a later one. That an archive entry comes
after its revision (`EntriesComeLater`) and that an answered request made one Change
(`AnswersInv`) then order the two edits. `Faithful` says what each route writes, and the
`SavesKeeps...` lemmas that a transaction writing that keeps each conjunct.

**`Follower_proofs`: `TypesAreKept`, `ReplicaAlwaysAtItsCheckpoint`,
`NoChangeMissedWhileLive`, `ReplicaNeverGoesBack`, `InStepUnlessItBreaksWhileApplying`.** The first read sees parts as they are when their page is
read, later than the checkpoint noted before. `DraftIsFromLater` says of such a copy that
each part stands where some Change between the checkpoint and the end of the list left
it; replaying the list up to its end closes the gap, whatever the pages saw, because
`Applied` takes what a Change says regardless of what the copy held. `MissedInv` adds that
while a list is replayed each Change after its end is on its way or lost. `OnwardInv` says
that a draft starts where the replica is, so installing it never takes the replica back.
`InStepUnlessItBreaksWhileApplying` assumes of a behaviour that no live connection ends
while a Change it announced is being applied; then every Change heard of is in the replica
or being applied (`HeardInv`), and `InStepWhenItSaysSo` holds: the finding
`follower_in_step` needs a connection to end just then.

**`PreviewQueue_proofs`: `QueueTypes`, `NeverMoreThanTheLimit`, `ExportedOnce`,
`NewestIsNeverReplaced`, `OutdatedExportsAreAwake`, `NobodyWaitsInACircle`.** `ListedRuns` ties `exports` to the threads: an export is listed
for its entry from joining until it ends, so there is one per entry, and nobody joins one
that ended. `TurnsCounted` equates the counter with the set of threads that hold a turn,
`KnowsWhoWants` and `GivenUpWhenOutdated` relate giving up to who joined.
The other two are the safety half of `EveryRequestIsAnswered`. No wake-up for a newer
selection is lost: who sleeps has an export that is wanted. And the threads never all wait for
each other (`SomebodyGoesOn`): a sleeper waits for a turn that an exporter holds, a request that
joined waits for an exporter, which waits for no request. The second assumes that no exporter keeps
its export for a newer request and goes to sleep beside a free turn
(`SleepsBesideAFreeTurn`), which is the step that the finding `preview_joining` takes.

**`TeamColumn_proofs`: `ColumnTypes`, `SaidIsSaved`, `SameBodyIsReplayed`,
`ItemlessRetriesAreReplayed`, `OwnTeamUnlessSelecting`.**
`WhatItSaysIsSaved` speaks of saves that are done; `SavedInv` follows each one from its
request on. A request starts from a record its part has; the number in a conflict lies
after that start, which is why finding the wanted content there (`AlreadyTheirs`) means
that it was saved meanwhile; and every command the server keeps was carried out
(`CommandsSaved`), which is why a replayed answer is as good as the first. Records are
only added (`Grows`), so what was true stays true while answers are on their way.
`SameBodyReplays` is about two saves, the one before and its retry. `RetryInv` follows the
correlation ID between them: saves of one form with the same edit have one ID
(`RetriesKeepTheirId`, which needs that the slot is of the newest form, `SlotFits`), the
server keeps one command per team and ID, and a save that was denied was denied for a
reason that stays (`DenialHolds`): another command has its ID, or the part went on from the
record it started from. A save with the same body that was carried out contradicts both.
`ItemlessRetriesAreReplayed` draws the line of the finding `column_retry`: an edit that names no
item of our libraries has the same body each time, so it is replayed as the code says.
`OwnTeamUnlessSelecting` assumes `SelectWhileSaving = FALSE` and shows that then
everything the column holds, and every save not yet taken in, is of the selected part
(`OwnInv`): the finding `column_late_answer` needs a selection while a save is out.

**`SignIns_proofs`.** `SignedOutStaysOut`, `SignedOutForgets` and `EndsOnlyRefused` speak of
moments at which nobody is signed in or a session ends; `SignInv` says what lies between.
Each entry has an invariant of its own (`EntryInv`): a keeper's numbers are of sessions up
to the newest (`Numbered`), one at a time holds the entry's turn (`TurnIsTaken`), a session
or a follower is there only for somebody signed in or signing in, or for a call or a
keeper that is about to end it (`IsWanted`), and what the server refused when a keeper
asked is refused still, as tokens are never accepted again (`JudgementHolds`). Between
entries there is the store: a token in it that the app did not fail to forget is
somebody's, or a call or keeper is on its way to forget it (`TokenIsWanted`). Each step of a
keeper has one lemma saying what it does to its entry (`...Does`) and one that it keeps
the invariant (`...Keeps`).

**`PartsKept_proofs`.** `KnownPartsAreCurrent` compares two moments of one version. Versions
carry the session's number, which is never used again, so `VersionsAreOfNow` only has to
follow the running session: what is known of it is no older than its version and no newer
than the session. For the file, `SignedOutSessionsAreOver` says that a write under way after
a sign-out is of a session that started later (`FileStaysDeleted`), and `WriterHasTheFile` that
a session which caught up has what the file has, so what the writer read of it is no older
than the file for as long as that session runs, and a write in its turn goes forward
(`FileGoesForward`).

**`Libraries_proofs`.** Three parts, each with its invariant.
`FolderInv`, of the folder KiCad reads: a thread that writes holds the lock and the folder
records its server (`WritersHoldTheLock`), each stage of an update has written all that its
plan says for the stages before (`WrittenSoFar`), so groups, written last, name only what is there;
what a running KiCad placed from its groups stays in a table that they name or that is there
for every catalog (`PlacedAreFound`), and an update knows the layout it changes (`LayoutIsKnown`).
`ReviewInv`, of a repository's layout: a follower that scans holds the lock, and what it read
before is still what is kept (`FollowersReadWhatIsKept`); what is written and what is left to
write are together what the folder is for (`WriterHasItsFolder`).
`ReadyFilesHoldUnlessReviewedAgain` assumes that no layout with other libraries is kept over
files that are there or being written, and shows that then folders are for the profile kept
(`FilesFitTheReview`) and ready files hold it: the finding `layout_reviewed_again` needs such
a review. `RepoInv`, of the app's copy of a repository: whoever runs git that writes, moves or
deletes holds `change`, readers exclude a deletion (`HoldersHold`), a folder is on its way out only
while that thread deletes it (`GoingIsDeleted`), and at the start nothing else runs
(`StartIsAlone`).

**`Desktop_proofs`: thirteen theorems,** one for each property of `desktop_parts` that is not
liveness. A behaviour of `Desktop` is one of a single part and stays one of it (`PartsMove`), so
`PartsInv` is that part's invariant. Each part is an instance of its module in `Desktop` and of its
proof module here; the `...AreProved` and `...IsProved` lemmas say, definition by definition,
that the two are the same. The constants are any that meet `DesktopAssumption`: there is a
Change to know, a commit, a team and a category, and no thread is called `"free"`, which
stands for a lock nobody holds.

**Only model-checked.** Liveness: `EveryChangeArrives`, `EveryRequestIsAnswered` and
`NewestTokenIsKept`, as reasoning about fairness and `ENABLED` is outside what TLAPS proves
here. The findings themselves are counterexamples of TLC.

## 5. Plan

The modules are written, and no invariant or action property of a passing run is left
without a theorem. What would say more:

1. That modules which describe one server agree: what the server of `TeamColumn` does with a
   save is what `Catalog` does with an edit of a part of one kind of record.
2. That the sessions `PartsKept` follows are those of `Follower`: a catch-up there is an
   `Install` here.
3. The converse of the theorems about findings, that the step they exclude can always come,
   stays with the runs: TLAPS does not show that a state can be reached.

No module has a `RECURSIVE` operator, so each can be proved about as it stands.

## 6. Not modelled, and why

Most of the repository's lines are of these kinds, which is why the modelled definitions
stand for a small share of them:

- **Data conversion.** Parsing and drawing of KiCad files, library tables, boards, 3D models
  and `glb`, scans of a repository, addresses, category guesses, comparing revisions, the
  next IPN: sequential functions over text with unit tests, and no state between calls. A
  model would repeat them.
- **Views.** Everything in `desktop-ui` but the team column: forms, lists, dialogs and
  drawings that show what they are given. `desktop-contract` and `catalog/contract` are
  declarations of messages and records.
- **I/O.** The HTTP and git clients, running kicad-cli and finding KiCad, ODBC set-up: their
  outcomes appear as success, failure or loss in the modules that use them. The shell passes
  calls on.
- **Collaboration commands** (`collab_commands.pb.js` and the replica of
  `crates/collaboration`): a provisional table with the same replay and conflict rules as the
  Catalog's routes; no window of the app uses it.
- **Preview staging and eviction.** Writing an entry aside and renaming it, deleting old
  entries at the start, other apps on the same cache: an entry that goes is exported again.
- **Upgrades of servers with data**, permissions, audit wording, archives and new parts sent
  from the window (one request whose answer is shown).
- **Tooling**, fixtures, journeys, tests and the vendored three.js are not the program.
