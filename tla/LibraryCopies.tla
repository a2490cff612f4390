--------------------------- MODULE LibraryCopies ---------------------------
(***************************************************************************)
(* The app's own copy of a library repo: the checks and the fetches at     *)
(* start that make it and bring it up to date, the reads of it, and its    *)
(* deletion once no team links the repo                                    *)
(* (crates/catalog-browser/src/library_repos/mod.rs and repo.rs).          *)
(*                                                                         *)
(* One repo, so one copy, that teams may link by different addresses.  git *)
(* and the file system are what the steps that use them do.                *)
(***************************************************************************)
EXTENDS Naturals

CONSTANTS
  Teams,
  Addresses,   \* of the repo
  MaxEvents    \* how often the person links, unlinks or checks again, a git
               \* run or a deletion fails, or the app ends

VARIABLES
  linked,   \* the address each team links, or "none"
  running,  \* Known.running, of each address
  thread,   \* what each thread does
  change,   \* CopyLock.change: the thread that holds it, or NoThread
  reading,  \* CopyLock.there: the threads that hold it to read
  disk,     \* the folder: the copy, and the one being made
  origin,   \* the address the copy's origin points at
  app,      \* "starting" until the deletion at start is done
  events

locks == <<change, reading>>
vars == <<linked, running, thread, locks, disk, origin, app, events>>

\* A whole check and a fetch at start, of each address; the person's calls
\* (also the app's start), and those that show the teams; another that reads
\* the copy: a review's scan, the writer of the library files.
Checks == {"check", "start"} \X Addresses
Person == <<"person", "none">>
Status == <<"status", "none">>
Reader == <<"reader", "none">>
NoThread == <<"none", "none">>
Callers == {Person, Status}
Threads == Checks \union Callers \union {Reader}
Entries == {"copy", "partial"}
Idle == [at |-> "idle", entries |-> {}, entry |-> "copy"]
IsCopied == disk.copy # "none"
Address(t) == t[2]
Wanted == \E t \in Teams : linked[t] # "none"

\* No thread holds CopyLock.there to write.
NothingMovesThere == \A t \in Threads : thread[t].at # "deleting"

Event == events < MaxEvents /\ events' = events + 1
Goes(t, at) == thread' = [thread EXCEPT ![t].at = at]

-----------------------------------------------------------------------------
(* Deleting the copies that no team links.                                 *)

\* The thread has the names in the folder, and looks at each.
ListEntries(t) == [Idle EXCEPT !.at = "entries",
                               !.entries = {k \in Entries : disk[k] # "none"}]

\* What is changed now is left.
TryEntry(t) ==
  /\ thread[t].at = "entries"
  /\ \E k \in thread[t].entries :
       IF k = "copy" /\ Wanted
         THEN thread' = [thread EXCEPT ![t].entries = @ \ {k}]
         ELSE thread' = [thread EXCEPT ![t].entries = @ \ {k}, ![t].entry = k,
                                       ![t].at = "idle?"]
  /\ UNCHANGED <<linked, running, locks, disk, origin, app, events>>

\* A mutant: a copy still being made has a lock of its own.
IsIdleByName(k) == k = "partial" \/ change = NoThread

IsIdle(k) == change = NoThread

DeleteIfIdle(t) ==
  /\ thread[t].at = "idle?"
  /\ IF IsIdle(thread[t].entry)
       THEN Goes(t, "there") /\ change' = t
       ELSE Goes(t, "entries") /\ UNCHANGED change
  /\ UNCHANGED <<linked, running, reading, disk, origin, app, events>>

\* Nothing reads while the folder goes, which takes a while.
StartDeleting(t) ==
  /\ thread[t].at = "there" /\ reading = {}
  /\ disk' = [disk EXCEPT ![thread[t].entry] =
                IF @ = "none" THEN "none" ELSE "going"]
  /\ Goes(t, "deleting")
  /\ UNCHANGED <<linked, running, locks, origin, app, events>>

\* A file in use stops it halfway.
Delete(t) ==
  /\ thread[t].at = "deleting"
  /\ \/ /\ disk' = [disk EXCEPT ![thread[t].entry] = "none"]
        /\ UNCHANGED events
     \/ /\ Event /\ disk[thread[t].entry] # "none"
        /\ disk' = [disk EXCEPT ![thread[t].entry] = "broken"]
  /\ Goes(t, "entries") /\ change' = NoThread
  /\ UNCHANGED <<linked, running, reading, origin, app>>

\* At the app's start, every linked address is then fetched.
NoEntriesLeft(t) ==
  /\ thread[t].at = "entries" /\ thread[t].entries = {}
  /\ IF app = "running"
       THEN /\ thread' = [thread EXCEPT ![t] = Idle]
            /\ UNCHANGED running
       ELSE /\ thread' = [u \in Threads |->
                 IF u \in Checks /\ u[1] = "start" /\ \E team \in Teams : linked[team] = Address(u)
                   THEN [Idle EXCEPT !.at = "waiting"] ELSE Idle]
            /\ running' = [a \in Addresses |->
                 IF \E team \in Teams : linked[team] = a THEN "start" ELSE "none"]
  /\ app' = "running"
  /\ UNCHANGED <<linked, locks, disk, origin, events>>

-----------------------------------------------------------------------------
(* A whole check and a fetch at start, from their own address.             *)

Finishes(t) ==
  /\ running' = [running EXCEPT ![Address(t)] = "none"]
  /\ thread' = [thread EXCEPT ![t] = ListEntries(t)]

\* Another check of the address may have taken over: nothing is said then.
Ends(t) ==
  IF t[1] = "start" /\ running[Address(t)] # "start"
    THEN thread' = [thread EXCEPT ![t] = Idle] /\ UNCHANGED running
    ELSE Finishes(t)

\* A step that reaches the host fails, with the copy's lock or without.
HostFails(t) ==
  /\ thread[t].at \in {"read", "fetch", "clone", "push"}
  /\ Event
  /\ IF thread[t].at = "push"
       THEN Goes(t, "scan") /\ UNCHANGED running
       ELSE Ends(t)
  /\ change' = IF change = t THEN NoThread ELSE change
  /\ disk' = IF thread[t].at = "clone" THEN [disk EXCEPT !.partial = "none"] ELSE disk
  /\ UNCHANGED <<linked, reading, origin, app>>

FetchAtStart(t) ==
  /\ thread[t].at = "waiting" /\ app = "running"
  /\ IF running[Address(t)] # "start"
       THEN thread' = [thread EXCEPT ![t] = Idle]
       ELSE Goes(t, "copy or fetch")
  /\ UNCHANGED <<linked, running, locks, disk, origin, app, events>>

CanRead(t) ==
  /\ thread[t].at = "read"
  /\ Goes(t, "copy or fetch")
  /\ UNCHANGED <<linked, running, locks, disk, origin, app, events>>

\* A mutant: the copy keeps the address it was made from.
OwnAddressKept(t) == origin

OwnAddress(t) == Address(t)

\* Whatever was left where the copy is made goes first.
CopyOrFetch(t) ==
  /\ thread[t].at = "copy or fetch" /\ change = NoThread
  /\ change' = t
  /\ IF IsCopied
       THEN /\ origin' = OwnAddress(t)
            /\ Goes(t, "fetch") /\ UNCHANGED disk
       ELSE /\ disk' = [disk EXCEPT !.partial = "making"]
            /\ Goes(t, "clone") /\ UNCHANGED origin
  /\ UNCHANGED <<linked, running, reading, app, events>>

Copied(t) == Goes(t, IF t[1] = "check" THEN "can write" ELSE "scan")

Fetched(t) ==
  /\ thread[t].at = "fetch"
  /\ change' = NoThread /\ Copied(t)
  /\ UNCHANGED <<linked, running, reading, disk, origin, app, events>>

Cloned(t) ==
  /\ thread[t].at = "clone"
  /\ disk' = [disk EXCEPT !.partial = IF @ = "making" THEN "whole" ELSE @]
  /\ Goes(t, "move")
  /\ UNCHANGED <<linked, running, locks, origin, app, events>>

\* The copy is moved into place while nothing reads there.
Move(t) ==
  /\ thread[t].at = "move" /\ reading = {}
  /\ disk' = [copy |-> disk.partial, partial |-> "none"]
  /\ origin' = Address(t)
  /\ change' = NoThread /\ Copied(t)
  /\ UNCHANGED <<linked, running, reading, app, events>>

\* Without a copy, or commits, no push is tried.
CanWrite(t) ==
  /\ thread[t].at = "can write" /\ change = NoThread
  /\ \/ /\ IsCopied
        /\ change' = t /\ origin' = OwnAddress(t) /\ Goes(t, "push")
     \/ Goes(t, "scan") /\ UNCHANGED <<change, origin>>
  /\ UNCHANGED <<linked, running, reading, disk, app, events>>

Pushed(t) ==
  /\ thread[t].at = "push"
  /\ change' = NoThread /\ Goes(t, "scan")
  /\ UNCHANGED <<linked, running, reading, disk, origin, app, events>>

\* follow_latest reads the copy, if there is one.
Scan(t) ==
  /\ thread[t].at = "scan"
  /\ IF IsCopied
       THEN /\ NothingMovesThere
            /\ reading' = reading \union {t} /\ Goes(t, "scanning")
            /\ UNCHANGED running
       ELSE /\ Ends(t) /\ UNCHANGED reading
  /\ UNCHANGED <<linked, change, disk, origin, app, events>>

\* A read ends.
Read(t) ==
  /\ t \in reading
  /\ reading' = reading \ {t}
  /\ IF t \in Checks THEN Ends(t) ELSE UNCHANGED <<thread, running>>
  /\ UNCHANGED <<linked, change, disk, origin, app, events>>

CheckStep(t) ==
  \/ FetchAtStart(t) \/ CanRead(t) \/ CopyOrFetch(t) \/ Fetched(t) \/ Cloned(t)
  \/ Move(t) \/ CanWrite(t) \/ Pushed(t) \/ Scan(t) \/ HostFails(t)

DeletionStep(t) ==
  \/ TryEntry(t) \/ DeleteIfIdle(t) \/ StartDeleting(t) \/ Delete(t)
  \/ NoEntriesLeft(t)

-----------------------------------------------------------------------------
(* The person links a team, checks again and unlinks it, and the app shows *)
(* the teams.  A check of an address begins unless one runs.               *)

Begin(a, at) ==
  IF running[a] = "check" THEN UNCHANGED <<running, thread>>
  ELSE /\ thread[<<"check", a>>] = Idle
       /\ running' = [running EXCEPT ![a] = "check"]
       /\ Goes(<<"check", a>>, at)

Acts == app = "running" /\ Event

\* The address was read before.
Link(team, a) ==
  /\ Acts
  /\ linked' = [linked EXCEPT ![team] = a]
  /\ Begin(a, "copy or fetch")
  /\ UNCHANGED <<locks, disk, origin, app>>

CheckAgain(team) ==
  /\ Acts /\ linked[team] # "none"
  /\ Begin(linked[team], "read")
  /\ UNCHANGED <<linked, locks, disk, origin, app>>

Unlink(team) ==
  /\ Acts /\ linked[team] # "none" /\ thread[Person] = Idle
  /\ linked' = [linked EXCEPT ![team] = "none"]
  /\ thread' = [thread EXCEPT ![Person] = ListEntries(Person)]
  /\ UNCHANGED <<running, locks, disk, origin, app>>

NoteStatus ==
  /\ app = "running" /\ thread[Status] = Idle
  /\ disk.partial # "none" \/ (disk.copy # "none" /\ ~Wanted)
  /\ thread' = [thread EXCEPT ![Status] = ListEntries(Status)]
  /\ UNCHANGED <<linked, running, locks, disk, origin, app, events>>

StartReading ==
  /\ app = "running" /\ IsCopied /\ Reader \notin reading
  /\ NothingMovesThere
  /\ reading' = reading \union {Reader}
  /\ UNCHANGED <<linked, running, thread, change, disk, origin, app, events>>

-----------------------------------------------------------------------------

\* A folder that was going is what it then is.
Restart ==
  /\ Event
  /\ disk' = [k \in Entries |-> IF disk[k] = "going" THEN "broken" ELSE disk[k]]
  /\ running' = [a \in Addresses |-> "none"]
  /\ change' = NoThread /\ reading' = {} /\ app' = "starting"
  /\ thread' = [t \in Threads |->
       IF t = Person THEN ListEntries(t) ELSE Idle]
  /\ UNCHANGED <<linked, origin>>

Init ==
  /\ linked \in [Teams -> Addresses \union {"none"}]
  /\ running = [a \in Addresses |-> "none"]
  /\ disk \in [copy : {"none", "whole"}, partial : {"none", "making"}]
  /\ origin \in Addresses
  /\ change = NoThread /\ reading = {} /\ app = "starting"
  /\ thread = [t \in Threads |-> IF t = Person THEN ListEntries(t) ELSE Idle]
  /\ events = 0

Next ==
  \/ \E t \in Checks : CheckStep(t)
  \/ \E t \in Checks \union Callers : DeletionStep(t)
  \/ \E t \in Threads : Read(t)
  \/ \E team \in Teams : CheckAgain(team) \/ Unlink(team)
                        \/ \E a \in Addresses : Link(team, a)
  \/ NoteStatus \/ StartReading \/ Restart

Spec == Init /\ [][Next]_vars

-----------------------------------------------------------------------------

TypeOK ==
  /\ linked \in [Teams -> Addresses \union {"none"}]
  /\ running \in [Addresses -> {"none", "check", "start"}]
  /\ change \in Threads \union {NoThread} /\ reading \subseteq Threads
  /\ disk.copy \in {"none", "whole", "going", "broken"}
  /\ disk.partial \in {"none", "making", "whole", "going", "broken"}
  /\ \A t \in Threads : thread[t].entries \subseteq Entries

\* git runs in a copy that is there, made whole, through the whole run, and
\* reaches the host by the address of its own team, however threads check,
\* fetch, read and delete the copy of one repo at the same time.
GitMeetsItsOwnCopy ==
  \A t \in Threads :
    /\ thread[t].at \in {"fetch", "push"} =>
         disk.copy \in {"whole", "broken"} /\ origin = Address(t)
    /\ thread[t].at = "clone" => disk.partial = "making"
    /\ thread[t].at = "move" => disk.partial = "whole"
    /\ t \in reading => disk.copy \in {"whole", "broken"}
=============================================================================
