------------------------------ MODULE Desktop ------------------------------
(***************************************************************************)
(* Parts of the desktop app that share nothing in the code, checked in one *)
(* run: a behaviour is one of the part that "part" names.  So every part   *)
(* has the same variables v1, v2, ... under its own names, and those it    *)
(* has no use for stay 0.                                                  *)
(***************************************************************************)
EXTENDS Naturals

CONSTANTS
  \* The sign-ins: see SignIns.
  MaxTokens, MaxEntries, MaxActs, MaxFailures, MaxCrashes,
  \* The part list and the parts file: see PartsKept.
  ListObservers, ListRestarts, FileObservers, FileRestarts,
  MaxSeq, MaxCatchUps, MaxSessions,
  \* The folder of a team's KiCad libraries: see KicadFolder.
  FolderThreads, FirstThread, Categories, Category, MaxRevisions, MaxChanges,
  MaxFaults, MaxStarts,
  \* The layout of a library repo and its files: see LayoutFiles.
  Scans, Followers, LayoutTeams, MaxCommits, LayoutEvents,
  \* The copy of a library repo: see LibraryCopies.
  RepoTeams, Addresses, RepoEvents

\* There is a Change to know, a commit, a team and a category, and nobody is
\* named like a turn that is free.
ASSUME DesktopAssumption ==
  /\ {MaxTokens, MaxEntries, MaxSessions, MaxChanges} \subseteq Nat
  /\ {MaxSeq, MaxCommits, LayoutTeams} \subseteq Nat \ {0}
  /\ Category \in Categories
  /\ "free" \notin FolderThreads \union Followers

VARIABLES
  part,
  v1, v2, v3, v4, v5, v6, v7, v8, v9, v10, v11, v12, v13, v14, v15, v16, v17,
  v18, v19, v20

vars == <<part, v1, v2, v3, v4, v5, v6, v7, v8, v9,
          v10, v11, v12, v13, v14, v15, v16, v17, v18, v19, v20>>

SignIns == INSTANCE SignIns WITH
  issued <- v1, accepted <- v2, store <- v3, listed <- v4,
  entry <- v5, added <- v6, kept <- v7, session <- v8, number <- v9,
  keeper <- v10, reaching <- v11, changes <- v12, turn <- v13, person <- v14,
  leaving <- v15, acts <- v16, failures <- v17, crashes <- v18,
  unforgotten <- v19, forgotOther <- v20

List == INSTANCE PartsKept WITH
  Observers <- ListObservers, MaxRestarts <- ListRestarts, seq <- v1,
  session <- v2, number <- v3, listed <- v4, reaching <- v5, keeper <- v6,
  file <- v7, shown <- v8, known <- v9, reader <- v10, writer <- v11,
  person <- v12, ended <- v13, undeleted <- v14, restarts <- v15

Writer == INSTANCE PartsKept WITH
  Observers <- FileObservers, MaxRestarts <- FileRestarts, seq <- v1,
  session <- v2, number <- v3, listed <- v4, reaching <- v5, keeper <- v6,
  file <- v7, shown <- v8, known <- v9, reader <- v10, writer <- v11,
  person <- v12, ended <- v13, undeleted <- v14, restarts <- v15

Folder == INSTANCE KicadFolder WITH
  Threads <- FolderThreads, First <- FirstThread, who <- v1, listed <- v2,
  catalog <- v3, disk <- v4, lock <- v5, update <- v6, schedule <- v7,
  answer <- v8, kicad <- v9, lost <- v10, faults <- v11

Layouts == INSTANCE LayoutFiles WITH
  Teams <- LayoutTeams, MaxEvents <- LayoutEvents, scans <- v1, head <- v2,
  kept <- v3, writing <- v4, follower <- v5, dialog <- v6, folders <- v7,
  partial <- v8, writer <- v9, call <- v10, given <- v11, saved <- v12,
  events <- v13

Repo == INSTANCE LibraryCopies WITH
  Teams <- RepoTeams, MaxEvents <- RepoEvents, linked <- v1, running <- v2,
  thread <- v3, change <- v4, reading <- v5, disk <- v6, origin <- v7,
  app <- v8, events <- v9

WithoutList == <<v16, v17, v18, v19, v20>>
WithoutFolder == <<v12, v13, v14, v15, v16, v17, v18, v19, v20>>
WithoutLayouts == <<v14, v15, v16, v17, v18, v19, v20>>
WithoutRepo == <<v10, v11, v12, v13, v14, v15, v16, v17, v18, v19, v20>>

InitAll ==
  \/ /\ part = "sign-ins" /\ SignIns!Init
  \/ /\ part = "part list" /\ List!Init
     /\ v16 = 0 /\ v17 = 0 /\ v18 = 0 /\ v19 = 0 /\ v20 = 0
  \/ /\ part = "parts file" /\ Writer!Init
     /\ v16 = 0 /\ v17 = 0 /\ v18 = 0 /\ v19 = 0 /\ v20 = 0
  \/ /\ part = "folder" /\ Folder!Init
     /\ v12 = 0 /\ v13 = 0 /\ v14 = 0 /\ v15 = 0 /\ v16 = 0 /\ v17 = 0
     /\ v18 = 0 /\ v19 = 0 /\ v20 = 0
  \/ /\ part = "layouts" /\ Layouts!Init
     /\ v14 = 0 /\ v15 = 0 /\ v16 = 0 /\ v17 = 0 /\ v18 = 0 /\ v19 = 0
     /\ v20 = 0
  \/ /\ part = "repo" /\ Repo!Init
     /\ v10 = 0 /\ v11 = 0 /\ v12 = 0 /\ v13 = 0 /\ v14 = 0 /\ v15 = 0
     /\ v16 = 0 /\ v17 = 0 /\ v18 = 0 /\ v19 = 0 /\ v20 = 0

NextAll ==
  \/ part = "sign-ins" /\ SignIns!Next /\ UNCHANGED part
  \/ part = "part list" /\ List!Next /\ UNCHANGED <<part, WithoutList>>
  \/ part = "parts file" /\ Writer!Next /\ UNCHANGED <<part, WithoutList>>
  \/ part = "folder" /\ Folder!Next /\ UNCHANGED <<part, WithoutFolder>>
  \/ part = "layouts" /\ Layouts!Next /\ UNCHANGED <<part, WithoutLayouts>>
  \/ part = "repo" /\ Repo!Next /\ UNCHANGED <<part, WithoutRepo>>

\* The fairness of SignIns.
FairnessAll ==
  /\ \A e \in SignIns!Entries :
       /\ WF_vars(part = "sign-ins" /\ SignIns!KeeperStep(e) /\ UNCHANGED part)
       /\ WF_vars(part = "sign-ins" /\ SignIns!Refuse(e) /\ UNCHANGED part)
  /\ WF_vars(part = "sign-ins" /\ SignIns!SignOutStep /\ UNCHANGED part)
  /\ WF_vars(part = "sign-ins" /\ SignIns!CallStep /\ UNCHANGED part)

SpecAll == InitAll /\ [][NextAll]_vars /\ FairnessAll

-----------------------------------------------------------------------------
(* The properties, each of one part: what its module says of it.           *)

\* The types of the part that runs.
TypeOK ==
  /\ part = "sign-ins" => SignIns!TypeOK
  /\ part = "part list" => List!TypeOK
  /\ part = "parts file" => Writer!TypeOK
  /\ part = "folder" => Folder!TypeOK
  /\ part = "layouts" => Layouts!TypeOK
  /\ part = "repo" => Repo!TypeOK

\* No session runs once the person signed out of the team or removed it.
SignedOutStaysOut == part = "sign-ins" => SignIns!SignedOutStaysOut

\* Nor is a token left that the app did not fail to forget.
SignedOutForgets == part = "sign-ins" => SignIns!SignedOutForgets

\* A keeper ends only sessions whose own token the server refuses.
OnlyRefusedEnd == [][part = "sign-ins" => SignIns!EndsOnlyRefused]_vars

\* Who stays signed in has, in the end, the newest token kept.
NewestTokenIsKept == <>[](part = "sign-ins" => SignIns!TokenIsKept)

\* The part list never keeps parts that changed since.
KnownPartsAreCurrent == part = "part list" => List!KnownPartsAreCurrent

\* No write brings the parts file back after signing out.
FileStaysDeleted == part = "parts file" => Writer!FileStaysDeleted

\* No write puts older parts in the place of newer ones.
FileNeverGoesBack == [][part = "parts file" => Writer!FileGoesForward]_vars

\* Rows, groups and footprints of a team's KiCad libraries name only what is
\* there, wherever an update stops.
NothingIsMissing == part = "folder" => Folder!NothingIsMissing

\* A running KiCad finds the parts placed from it, or is told to restart.
PlacedPartsResolve == part = "folder" => Folder!PlacedPartsResolve

\* Only the server that the folder records has it written.
OnlyItsServerWrites == [][part = "folder" => Folder!ItsServerWrites]_vars

\* A layout that follows new commits keeps what the person reviewed.
ReviewIsKept == part = "layouts" => Layouts!ReviewIsKept

\* Folders of library files marked complete are whole.
CompleteFilesAreWhole == part = "layouts" => Layouts!CompleteFilesAreWhole

\* git runs in a whole copy, at the address of the team it runs for.
GitMeetsItsOwnCopy == part = "repo" => Repo!GitMeetsItsOwnCopy
=============================================================================
