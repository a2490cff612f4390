--------------------------- MODULE Desktop_proofs ---------------------------
(***************************************************************************)
(* The properties of the parts of the desktop app, as theorems of what the *)
(* run of them checks, for every value of the constants that meets         *)
(* DesktopAssumption.  A behaviour is one of one part and stays one of it, *)
(* so each part brings the inductive invariant of its own proofs.          *)
(***************************************************************************)
EXTENDS Desktop, TLAPS

SignInsProofs == INSTANCE SignIns_proofs WITH
  issued <- v1, accepted <- v2, store <- v3, listed <- v4,
  entry <- v5, added <- v6, kept <- v7, session <- v8, number <- v9,
  keeper <- v10, reaching <- v11, changes <- v12, turn <- v13, person <- v14,
  leaving <- v15, acts <- v16, failures <- v17, crashes <- v18,
  unforgotten <- v19, forgotOther <- v20

ListProofs == INSTANCE PartsKept_proofs WITH
  Observers <- ListObservers, MaxRestarts <- ListRestarts, seq <- v1,
  session <- v2, number <- v3, listed <- v4, reaching <- v5, keeper <- v6,
  file <- v7, shown <- v8, known <- v9, reader <- v10, writer <- v11,
  person <- v12, ended <- v13, undeleted <- v14, restarts <- v15

WriterProofs == INSTANCE PartsKept_proofs WITH
  Observers <- FileObservers, MaxRestarts <- FileRestarts, seq <- v1,
  session <- v2, number <- v3, listed <- v4, reaching <- v5, keeper <- v6,
  file <- v7, shown <- v8, known <- v9, reader <- v10, writer <- v11,
  person <- v12, ended <- v13, undeleted <- v14, restarts <- v15

Libraries == INSTANCE Libraries_proofs WITH
  Threads <- FolderThreads, First <- FirstThread, who <- v1, listed <- v2,
  catalog <- v3, disk <- v4, lock <- v5, update <- v6, schedule <- v7,
  answer <- v8, kicad <- v9, lost <- v10, faults <- v11,
  scans <- v1, head <- v2, kept <- v3, writing <- v4, follower <- v5,
  dialog <- v6, folders <- v7, partial <- v8, writer <- v9, call <- v10,
  given <- v11, saved <- v12, layoutEvents <- v13,
  linked <- v1, running <- v2, thread <- v3, change <- v4, reading <- v5,
  copies <- v6, origin <- v7, app <- v8, repoEvents <- v9

-----------------------------------------------------------------------------
(* The parts and what is proved of them are the same modules.              *)

\* The sign-ins.
LEMMA SignInsAreProved ==
  /\ (SignIns!Init <=> SignInsProofs!Init)
  /\ (SignIns!Next <=> SignInsProofs!Next)
  /\ (SignIns!TypeOK <=> SignInsProofs!TypeOK)
  /\ (SignIns!SignedOutStaysOut <=> SignInsProofs!SignedOutStaysOut)
  /\ (SignIns!SignedOutForgets <=> SignInsProofs!SignedOutForgets)
  /\ (SignIns!EndsOnlyRefused <=> SignInsProofs!EndsOnlyRefused)
  /\ SignIns!vars = SignInsProofs!vars
BY DEF
    SignIns!Init, SignInsProofs!Init, SignIns!Entries, SignInsProofs!Entries, SignIns!NoSession,
    SignInsProofs!NoSession, SignIns!NoKeeper, SignInsProofs!NoKeeper, SignIns!NoCall,
    SignInsProofs!NoCall, SignIns!Next, SignInsProofs!Next, SignIns!Revoke, SignInsProofs!Revoke,
    SignIns!list, SignInsProofs!list, SignIns!catalogs, SignInsProofs!catalogs, SignIns!keepers,
    SignInsProofs!keepers, SignIns!calls, SignInsProofs!calls, SignIns!faults,
    SignInsProofs!faults, SignIns!SignIn, SignInsProofs!SignIn, SignIns!Act, SignInsProofs!Act,
    SignIns!server, SignInsProofs!server, SignIns!Remove, SignInsProofs!Remove, SignIns!SignOut,
    SignInsProofs!SignOut, SignIns!SignOutStep, SignInsProofs!SignOutStep, SignIns!TakeLeave,
    SignInsProofs!TakeLeave, SignIns!EndSession, SignInsProofs!EndSession, SignIns!LeaveStore,
    SignInsProofs!LeaveStore, SignIns!Fail, SignInsProofs!Fail, SignIns!CallStep,
    SignInsProofs!CallStep, SignIns!TrySignIn, SignInsProofs!TrySignIn, SignIns!NewSession,
    SignInsProofs!NewSession, SignIns!CheckSignIn, SignInsProofs!CheckSignIn, SignIns!TellKeeper,
    SignInsProofs!TellKeeper, SignIns!SaveSignIn, SignInsProofs!SaveSignIn, SignIns!Goes,
    SignInsProofs!Goes, SignIns!RemoveStep, SignInsProofs!RemoveStep, SignIns!Restart,
    SignInsProofs!Restart, SignIns!Opened, SignInsProofs!Opened, SignIns!Resting,
    SignInsProofs!Resting, SignIns!Refuse, SignInsProofs!Refuse, SignIns!Accepts,
    SignInsProofs!Accepts, SignIns!KeeperStep, SignInsProofs!KeeperStep, SignIns!Look,
    SignInsProofs!Look, SignIns!NothingToCarryOn, SignInsProofs!NothingToCarryOn, SignIns!Stop,
    SignInsProofs!Stop, SignIns!Stopped, SignInsProofs!Stopped, SignIns!CarryOn,
    SignInsProofs!CarryOn, SignIns!Resumed, SignInsProofs!Resumed, SignIns!AfterResuming,
    SignInsProofs!AfterResuming, SignIns!EndedMeanwhile, SignInsProofs!EndedMeanwhile,
    SignIns!StillCurrent, SignInsProofs!StillCurrent, SignIns!Watch, SignInsProofs!Watch,
    SignIns!Status, SignInsProofs!Status, SignIns!IsKept, SignInsProofs!IsKept, SignIns!Renewed,
    SignInsProofs!Renewed, SignIns!TakeKeep, SignInsProofs!TakeKeep, SignIns!StillItsToken,
    SignInsProofs!StillItsToken, SignIns!Keep, SignInsProofs!Keep, SignIns!TakeRejected,
    SignInsProofs!TakeRejected, SignIns!Judged, SignInsProofs!Judged, SignIns!Forget,
    SignInsProofs!Forget, SignIns!TypeOK, SignInsProofs!TypeOK, SignIns!SignedOutStaysOut,
    SignInsProofs!SignedOutStaysOut, SignIns!SignedOutForgets, SignInsProofs!SignedOutForgets,
    SignIns!EndsOnlyRefused, SignInsProofs!EndsOnlyRefused, SignIns!vars, SignInsProofs!vars

\* The part list.
LEMMA ListIsProved ==
  /\ (List!Init <=> ListProofs!Init)
  /\ (List!Next <=> ListProofs!Next)
  /\ (List!TypeOK <=> ListProofs!TypeOK)
  /\ (List!KnownPartsAreCurrent <=> ListProofs!KnownPartsAreCurrent)
  /\ List!vars = ListProofs!vars
BY DEF
    List!Init, ListProofs!Init, List!NoSession, ListProofs!NoSession, List!Keeping,
    ListProofs!Keeping, List!NoFile, ListProofs!NoFile, List!NoFileShown, ListProofs!NoFileShown,
    List!Nothing, ListProofs!Nothing, List!NoVersion, ListProofs!NoVersion, List!Idle,
    ListProofs!Idle, List!Next, ListProofs!Next, List!Publish, ListProofs!Publish, List!catalog,
    ListProofs!catalog, List!away, ListProofs!away, List!ghosts, ListProofs!ghosts, List!Follow,
    ListProofs!Follow, List!KeeperStep, ListProofs!KeeperStep, List!CarryOn, ListProofs!CarryOn,
    List!NothingToCarryOn, ListProofs!NothingToCarryOn, List!Ends, ListProofs!Ends, List!Resume,
    ListProofs!Resume, List!Starts, ListProofs!Starts, List!AfterResuming,
    ListProofs!AfterResuming, List!SignInAgain, ListProofs!SignInAgain, List!ReadVersion,
    ListProofs!ReadVersion, List!Source, ListProofs!Source, List!FromFile, ListProofs!FromFile,
    List!Version, ListProofs!Version, List!ReadValues, ListProofs!ReadValues, List!Made,
    ListProofs!Made, List!WriterStep, ListProofs!WriterStep, List!Due, ListProofs!Due,
    List!InStep, ListProofs!InStep, List!ReadParts, ListProofs!ReadParts, List!CheckWorth,
    ListProofs!CheckWorth, List!StillWorthWriting, ListProofs!StillWorthWriting, List!Write,
    ListProofs!Write, List!PersonStep, ListProofs!PersonStep, List!SignIn, ListProofs!SignIn,
    List!ShowFile, ListProofs!ShowFile, List!Stale, ListProofs!Stale, List!SignOut,
    ListProofs!SignOut, List!Leave, ListProofs!Leave, List!Forgotten, ListProofs!Forgotten,
    List!Delete, ListProofs!Delete, List!Restart, ListProofs!Restart, List!TypeOK,
    ListProofs!TypeOK, List!KnownPartsAreCurrent, ListProofs!KnownPartsAreCurrent, List!vars,
    ListProofs!vars

\* The parts file.
LEMMA WriterIsProved ==
  /\ (Writer!Init <=> WriterProofs!Init)
  /\ (Writer!Next <=> WriterProofs!Next)
  /\ (Writer!TypeOK <=> WriterProofs!TypeOK)
  /\ (Writer!FileStaysDeleted <=> WriterProofs!FileStaysDeleted)
  /\ (Writer!FileGoesForward <=> WriterProofs!FileGoesForward)
  /\ Writer!vars = WriterProofs!vars
BY DEF
    Writer!Init, WriterProofs!Init, Writer!NoSession, WriterProofs!NoSession, Writer!Keeping,
    WriterProofs!Keeping, Writer!NoFile, WriterProofs!NoFile, Writer!NoFileShown,
    WriterProofs!NoFileShown, Writer!Nothing, WriterProofs!Nothing, Writer!NoVersion,
    WriterProofs!NoVersion, Writer!Idle, WriterProofs!Idle, Writer!Next, WriterProofs!Next,
    Writer!Publish, WriterProofs!Publish, Writer!catalog, WriterProofs!catalog, Writer!away,
    WriterProofs!away, Writer!ghosts, WriterProofs!ghosts, Writer!Follow, WriterProofs!Follow,
    Writer!KeeperStep, WriterProofs!KeeperStep, Writer!CarryOn, WriterProofs!CarryOn,
    Writer!NothingToCarryOn, WriterProofs!NothingToCarryOn, Writer!Ends, WriterProofs!Ends,
    Writer!Resume, WriterProofs!Resume, Writer!Starts, WriterProofs!Starts, Writer!AfterResuming,
    WriterProofs!AfterResuming, Writer!SignInAgain, WriterProofs!SignInAgain, Writer!ReadVersion,
    WriterProofs!ReadVersion, Writer!Source, WriterProofs!Source, Writer!FromFile,
    WriterProofs!FromFile, Writer!Version, WriterProofs!Version, Writer!ReadValues,
    WriterProofs!ReadValues, Writer!Made, WriterProofs!Made, Writer!WriterStep,
    WriterProofs!WriterStep, Writer!Due, WriterProofs!Due, Writer!InStep, WriterProofs!InStep,
    Writer!ReadParts, WriterProofs!ReadParts, Writer!CheckWorth, WriterProofs!CheckWorth,
    Writer!StillWorthWriting, WriterProofs!StillWorthWriting, Writer!Write, WriterProofs!Write,
    Writer!PersonStep, WriterProofs!PersonStep, Writer!SignIn, WriterProofs!SignIn,
    Writer!ShowFile, WriterProofs!ShowFile, Writer!Stale, WriterProofs!Stale, Writer!SignOut,
    WriterProofs!SignOut, Writer!Leave, WriterProofs!Leave, Writer!Forgotten,
    WriterProofs!Forgotten, Writer!Delete, WriterProofs!Delete, Writer!Restart,
    WriterProofs!Restart, Writer!TypeOK, WriterProofs!TypeOK, Writer!FileStaysDeleted,
    WriterProofs!FileStaysDeleted, Writer!FileGoesForward, WriterProofs!FileGoesForward,
    Writer!vars, WriterProofs!vars

\* The folder of KiCad libraries.
LEMMA FolderIsProved ==
  /\ (Folder!Init <=> Libraries!Init)
  /\ (Folder!Next <=> Libraries!Next)
  /\ (Folder!TypeOK <=> Libraries!TypeOK)
  /\ (Folder!NothingIsMissing <=> Libraries!NothingIsMissing)
  /\ (Folder!PlacedPartsResolve <=> Libraries!PlacedPartsResolve)
  /\ (Folder!ItsServerWrites <=> Libraries!ItsServerWrites)
  /\ Folder!vars = Libraries!vars
BY DEF
    Folder!Init, Libraries!Init, Folder!NoState, Libraries!NoState, Folder!Tables,
    Libraries!Tables, Folder!Idle, Libraries!Idle, Folder!NoPlan, Libraries!NoPlan, Folder!Fresh,
    Libraries!Fresh, Folder!NoAnswer, Libraries!NoAnswer, Folder!Next, Libraries!Next,
    Folder!Change, Libraries!Change, Folder!threads, Libraries!threads, Folder!bounds,
    Libraries!bounds, Folder!PersonStep, Libraries!PersonStep, Folder!RemoveTeam,
    Libraries!RemoveTeam, Folder!AddTeam, Libraries!AddTeam, Folder!Answer, Libraries!Answer,
    Folder!UseNewServer, Libraries!UseNewServer, Folder!Held, Libraries!Held, Folder!NotSaved,
    Libraries!NotSaved, Folder!TellThread, Libraries!TellThread, Folder!StartKicad,
    Libraries!StartKicad, Folder!Place, Libraries!Place, Folder!Restart, Libraries!Restart,
    Folder!Unsaved, Libraries!Unsaved, Folder!Look, Libraries!Look, Folder!UpdateStep,
    Libraries!UpdateStep, Folder!CheckRefusal, Libraries!CheckRefusal, Folder!Refusal,
    Libraries!Refusal, Folder!Stops, Libraries!Stops, Folder!Freed, Libraries!Freed, Folder!Goes,
    Libraries!Goes, Folder!TakeLock, Libraries!TakeLock, Folder!RefusalUnderLock,
    Libraries!RefusalUnderLock, Folder!WriteFile, Libraries!WriteFile, Folder!MissingModels,
    Libraries!MissingModels, Folder!Files, Libraries!Files, Folder!MissingFootprints,
    Libraries!MissingFootprints, Folder!WriteSymbols, Libraries!WriteSymbols,
    Folder!AllFilesWritten, Libraries!AllFilesWritten, Folder!SyncDatabase,
    Libraries!SyncDatabase, Folder!Planned, Libraries!Planned, Folder!Rows, Libraries!Rows,
    Folder!Read, Libraries!Read, Folder!TableOf, Libraries!TableOf, Folder!IsCurrent,
    Libraries!IsCurrent, Folder!WriteGroups, Libraries!WriteGroups, Folder!Layout,
    Libraries!Layout, Folder!SaveState, Libraries!SaveState, Folder!Fail, Libraries!Fail,
    Folder!TypeOK, Libraries!TypeOK, Folder!NothingIsMissing, Libraries!NothingIsMissing,
    Folder!PlacedPartsResolve, Libraries!PlacedPartsResolve, Folder!LayoutChangeIsTold,
    Libraries!LayoutChangeIsTold, Folder!ItsServerWrites, Libraries!ItsServerWrites, Folder!vars,
    Libraries!vars

\* The layout of a library repo.
LEMMA LayoutsAreProved ==
  /\ (Layouts!Init <=> Libraries!Layouts!Init)
  /\ (Layouts!Next <=> Libraries!Layouts!Next)
  /\ (Layouts!TypeOK <=> Libraries!Layouts!TypeOK)
  /\ (Layouts!ReviewIsKept <=> Libraries!Layouts!ReviewIsKept)
  /\ (Layouts!CompleteFilesAreWhole <=> Libraries!Layouts!CompleteFilesAreWhole)
  /\ Layouts!vars = Libraries!Layouts!vars
BY DEF
    Layouts!Init, Libraries!Layouts!Init, Layouts!Commits, Libraries!Layouts!Commits,
    Layouts!NoReview, Libraries!Layouts!NoReview, Layouts!NotFollowing,
    Libraries!Layouts!NotFollowing, Layouts!NoFolder, Libraries!Layouts!NoFolder,
    Layouts!NoWriter, Libraries!Layouts!NoWriter, Layouts!NoCall, Libraries!Layouts!NoCall,
    Layouts!Next, Libraries!Layouts!Next, Layouts!Fetch, Libraries!Layouts!Fetch, Layouts!files,
    Libraries!Layouts!files, Layouts!StartFollow, Libraries!Layouts!StartFollow,
    Layouts!HasFollowed, Libraries!Layouts!HasFollowed, Layouts!Follow, Libraries!Layouts!Follow,
    Layouts!Followed, Libraries!Layouts!Followed, Layouts!Event, Libraries!Layouts!Event,
    Layouts!Review, Libraries!Layouts!Review, Layouts!UseLayout, Libraries!Layouts!UseLayout,
    Layouts!KeepLayout, Libraries!Layouts!KeepLayout, Layouts!DeleteUnlinked,
    Libraries!Layouts!DeleteUnlinked, Layouts!WriterStep, Libraries!Layouts!WriterStep,
    Layouts!StartWriting, Libraries!Layouts!StartWriting, Layouts!Write, Libraries!Layouts!Write,
    Layouts!layout, Libraries!Layouts!layout, Layouts!WriteFile, Libraries!Layouts!WriteFile,
    Layouts!Complete, Libraries!Layouts!Complete, Layouts!WriteFails,
    Libraries!Layouts!WriteFails, Layouts!CallStep, Libraries!Layouts!CallStep, Layouts!Browse,
    Libraries!Layouts!Browse, Layouts!Browsable, Libraries!Layouts!Browsable, Layouts!Next1,
    Libraries!Layouts!Next1, Layouts!BeginWriting, Libraries!Layouts!BeginWriting, Layouts!Ready,
    Libraries!Layouts!Ready, Layouts!MayDelete, Libraries!Layouts!MayDelete,
    Layouts!DeleteOtherCommits, Libraries!Layouts!DeleteOtherCommits, Layouts!Restart,
    Libraries!Layouts!Restart, Layouts!TypeOK, Libraries!Layouts!TypeOK, Layouts!ReviewIsKept,
    Libraries!Layouts!ReviewIsKept, Layouts!CompleteFilesAreWhole,
    Libraries!Layouts!CompleteFilesAreWhole, Layouts!vars, Libraries!Layouts!vars

\* The copy of a library repo.
LEMMA RepoIsProved ==
  /\ (Repo!Init <=> Libraries!Repo!Init)
  /\ (Repo!Next <=> Libraries!Repo!Next)
  /\ (Repo!TypeOK <=> Libraries!Repo!TypeOK)
  /\ (Repo!GitMeetsItsOwnCopy <=> Libraries!Repo!GitMeetsItsOwnCopy)
  /\ Repo!vars = Libraries!Repo!vars
BY DEF
    Repo!Init, Libraries!Repo!Init, Repo!NoThread, Libraries!Repo!NoThread, Repo!Threads,
    Libraries!Repo!Threads, Repo!Checks, Libraries!Repo!Checks, Repo!Callers,
    Libraries!Repo!Callers, Repo!Person, Libraries!Repo!Person, Repo!Status,
    Libraries!Repo!Status, Repo!Reader, Libraries!Repo!Reader, Repo!ListEntries,
    Libraries!Repo!ListEntries, Repo!Idle, Libraries!Repo!Idle, Repo!Entries,
    Libraries!Repo!Entries, Repo!Next, Libraries!Repo!Next, Repo!CheckStep,
    Libraries!Repo!CheckStep, Repo!FetchAtStart, Libraries!Repo!FetchAtStart, Repo!Address,
    Libraries!Repo!Address, Repo!Goes, Libraries!Repo!Goes, Repo!locks, Libraries!Repo!locks,
    Repo!CanRead, Libraries!Repo!CanRead, Repo!CopyOrFetch, Libraries!Repo!CopyOrFetch,
    Repo!IsCopied, Libraries!Repo!IsCopied, Repo!OwnAddress, Libraries!Repo!OwnAddress,
    Repo!Fetched, Libraries!Repo!Fetched, Repo!Copied, Libraries!Repo!Copied, Repo!Cloned,
    Libraries!Repo!Cloned, Repo!Move, Libraries!Repo!Move, Repo!CanWrite,
    Libraries!Repo!CanWrite, Repo!Pushed, Libraries!Repo!Pushed, Repo!Scan, Libraries!Repo!Scan,
    Repo!NothingMovesThere, Libraries!Repo!NothingMovesThere, Repo!Ends, Libraries!Repo!Ends,
    Repo!Finishes, Libraries!Repo!Finishes, Repo!HostFails, Libraries!Repo!HostFails, Repo!Event,
    Libraries!Repo!Event, Repo!DeletionStep, Libraries!Repo!DeletionStep, Repo!TryEntry,
    Libraries!Repo!TryEntry, Repo!Wanted, Libraries!Repo!Wanted, Repo!DeleteIfIdle,
    Libraries!Repo!DeleteIfIdle, Repo!IsIdle, Libraries!Repo!IsIdle, Repo!StartDeleting,
    Libraries!Repo!StartDeleting, Repo!Delete, Libraries!Repo!Delete, Repo!NoEntriesLeft,
    Libraries!Repo!NoEntriesLeft, Repo!Read, Libraries!Repo!Read, Repo!CheckAgain,
    Libraries!Repo!CheckAgain, Repo!Acts, Libraries!Repo!Acts, Repo!Begin, Libraries!Repo!Begin,
    Repo!Unlink, Libraries!Repo!Unlink, Repo!Link, Libraries!Repo!Link, Repo!NoteStatus,
    Libraries!Repo!NoteStatus, Repo!StartReading, Libraries!Repo!StartReading, Repo!Restart,
    Libraries!Repo!Restart, Repo!TypeOK, Libraries!Repo!TypeOK, Repo!GitMeetsItsOwnCopy,
    Libraries!Repo!GitMeetsItsOwnCopy, Repo!vars, Libraries!Repo!vars

-----------------------------------------------------------------------------
(* The inductive invariant: that of the part that runs.                    *)

PartsInv ==
  /\ part = "sign-ins" => SignInsProofs!SignInv
  /\ part = "part list" => ListProofs!KeptInv
  /\ part = "parts file" => WriterProofs!KeptInv
  /\ part = "folder" => Libraries!FolderInv
  /\ part = "layouts" => Libraries!ReviewInv
  /\ part = "repo" => Libraries!RepoInv

LEMMA PartsAssumptions ==
  /\ SignInsProofs!SignInsAssumption
  /\ ListProofs!KeptAssumption /\ WriterProofs!KeptAssumption
  /\ Libraries!FolderAssumption /\ Libraries!ReviewAssumption
BY DesktopAssumption
   DEF SignInsProofs!SignInsAssumption,
       ListProofs!KeptAssumption, WriterProofs!KeptAssumption, Libraries!FolderAssumption,
       Libraries!ReviewAssumption

LEMMA PartsInit == InitAll => PartsInv
<1> SUFFICES ASSUME InitAll PROVE PartsInv
  OBVIOUS
<1>1. part = "part list" => ListProofs!KeptInv
  BY PartsAssumptions, ListIsProved, ListProofs!KeptInit DEF InitAll
<1>2. part = "parts file" => WriterProofs!KeptInv
  BY PartsAssumptions, WriterIsProved, WriterProofs!KeptInit DEF InitAll
<1>3. part = "folder" => Libraries!FolderInv
  BY PartsAssumptions, FolderIsProved, Libraries!FolderInit DEF InitAll
<1>4. part = "layouts" => Libraries!ReviewInv
  BY PartsAssumptions, LayoutsAreProved, Libraries!ReviewInit DEF InitAll
<1>5. part = "repo" => Libraries!RepoInv
  BY RepoIsProved, Libraries!RepoInit DEF InitAll
<1>6. part = "sign-ins" => SignInsProofs!SignInv
  BY PartsAssumptions, SignInsAreProved, SignInsProofs!SignInsInit DEF InitAll
<1> QED
  BY <1>1, <1>2, <1>3, <1>4, <1>5, <1>6 DEF PartsInv

\* A step is one of the part, or changes none of its variables.
LEMMA PartsMove ==
  ASSUME [NextAll]_vars
  PROVE  /\ part' = part
         /\ part = "sign-ins" => [SignInsProofs!Next]_SignInsProofs!vars
         /\ part = "part list" => [ListProofs!Next]_ListProofs!vars
         /\ part = "parts file" => [WriterProofs!Next]_WriterProofs!vars
         /\ part = "folder" => [Libraries!Next]_Libraries!vars
         /\ part = "layouts" => [Libraries!Layouts!Next]_Libraries!Layouts!vars
         /\ part = "repo" => [Libraries!Repo!Next]_Libraries!Repo!vars
<1>1. CASE NextAll
  BY <1>1, SignInsAreProved, ListIsProved, WriterIsProved, FolderIsProved,
     LayoutsAreProved, RepoIsProved
     DEF NextAll
<1>2. CASE UNCHANGED vars
  BY <1>2 DEF vars, SignInsProofs!vars, SignInsProofs!server, SignInsProofs!list,
     SignInsProofs!catalogs, SignInsProofs!keepers, SignInsProofs!calls, SignInsProofs!faults,
     ListProofs!vars, ListProofs!catalog, ListProofs!away, ListProofs!ghosts,
     WriterProofs!vars, WriterProofs!catalog, WriterProofs!away, WriterProofs!ghosts,
     Libraries!vars, Libraries!threads, Libraries!bounds,
     Libraries!Layouts!vars, Libraries!Layouts!layout, Libraries!Layouts!files,
     Libraries!Repo!vars, Libraries!Repo!locks
<1> QED
  BY <1>1, <1>2

LEMMA PartsStep == PartsInv /\ [NextAll]_vars => PartsInv'
<1> SUFFICES ASSUME PartsInv, [NextAll]_vars PROVE PartsInv'
  OBVIOUS
<1>1. part = "part list" => ListProofs!KeptInv'
  BY PartsAssumptions, PartsMove, ListProofs!KeptStep DEF PartsInv
<1>2. part = "parts file" => WriterProofs!KeptInv'
  BY PartsAssumptions, PartsMove, WriterProofs!KeptStep DEF PartsInv
<1>3. part = "folder" => Libraries!FolderInv'
  BY PartsAssumptions, PartsMove, Libraries!FolderStep DEF PartsInv
<1>4. part = "layouts" => Libraries!ReviewInv'
  BY PartsAssumptions, PartsMove, Libraries!ReviewStep DEF PartsInv
<1>5. part = "repo" => Libraries!RepoInv'
  BY PartsMove, Libraries!RepoStep DEF PartsInv
<1>6. part = "sign-ins" => SignInsProofs!SignInv'
  BY PartsAssumptions, PartsMove, SignInsProofs!SignInsStep DEF PartsInv
<1> QED
  BY <1>1, <1>2, <1>3, <1>4, <1>5, <1>6, PartsMove DEF PartsInv

-----------------------------------------------------------------------------
(* What it says of each part.                                              *)

\* Every part keeps to its types, whichever runs.
THEOREM PartsKeepTheirTypes == SpecAll => []TypeOK
<1>1. PartsInv => TypeOK
  <2> SUFFICES ASSUME PartsInv PROVE TypeOK
    OBVIOUS
  <2>1. part = "sign-ins" => SignIns!TypeOK
    BY PartsAssumptions, SignInsAreProved, SignInsProofs!SignInsSays DEF PartsInv
  <2>2. part = "part list" => List!TypeOK
    BY ListIsProved, ListProofs!KeptSays DEF PartsInv
  <2>3. part = "parts file" => Writer!TypeOK
    BY WriterIsProved, WriterProofs!KeptSays DEF PartsInv
  <2>4. part = "folder" => Folder!TypeOK
    BY FolderIsProved, Libraries!FolderSays DEF PartsInv
  <2>5. part = "layouts" => Layouts!TypeOK
    BY PartsAssumptions, LayoutsAreProved, Libraries!ReviewSays DEF PartsInv
  <2>6. part = "repo" => Repo!TypeOK
    BY RepoIsProved, Libraries!RepoSays DEF PartsInv
  <2> QED
    BY <2>1, <2>2, <2>3, <2>4, <2>5, <2>6 DEF TypeOK
<1> QED
  BY <1>1, PartsInit, PartsStep, PTL DEF SpecAll

\* No session runs once the person signed out of the team or removed it, in
\* whatever step the calls that sign in, out and remove were, and wherever
\* the app stopped.
THEOREM SignedOutIsOut == SpecAll => []SignedOutStaysOut
<1>1. PartsInv => SignedOutStaysOut
  BY PartsAssumptions, SignInsAreProved, SignInsProofs!SignInsSays
     DEF PartsInv, SignedOutStaysOut
<1> QED
  BY <1>1, PartsInit, PartsStep, PTL DEF SpecAll

\* Nor does the store keep a token of it that the app did not fail to forget,
\* though its keeper may have been keeping a newer one meanwhile.
THEOREM SignedOutIsForgotten == SpecAll => []SignedOutForgets
<1>1. PartsInv => SignedOutForgets
  BY PartsAssumptions, SignInsAreProved, SignInsProofs!SignInsSays
     DEF PartsInv, SignedOutForgets
<1> QED
  BY <1>1, PartsInit, PartsStep, PTL DEF SpecAll

\* A keeper ends only sessions whose own token the server refuses, however
\* old its answer: never the session of a newer sign-in.
THEOREM OnlyTheRefusedEnd == SpecAll => OnlyRefusedEnd
<1>1. PartsInv /\ [NextAll]_vars => [part = "sign-ins" => SignIns!EndsOnlyRefused]_vars
  <2> SUFFICES ASSUME PartsInv, NextAll, part = "sign-ins"
               PROVE  SignIns!EndsOnlyRefused
    OBVIOUS
  <2>1. SignInsProofs!SignInv /\ SignInsProofs!Next
    BY SignInsAreProved DEF NextAll, PartsInv
  <2> QED
    BY <2>1, PartsAssumptions, SignInsAreProved, SignInsProofs!SignInsEnd
<1> QED
  BY <1>1, PartsInit, PartsStep, PTL DEF SpecAll, OnlyRefusedEnd

\* The part list is never given parts again that changed since they were
\* made, whatever the follower applied and the person did meanwhile.
THEOREM PartsAreCurrent == SpecAll => []KnownPartsAreCurrent
<1>1. PartsInv => KnownPartsAreCurrent
  BY ListIsProved, ListProofs!KeptSays DEF PartsInv, KnownPartsAreCurrent
<1> QED
  BY <1>1, PartsInit, PartsStep, PTL DEF SpecAll

\* No write of a session the person signed out of brings the parts file back.
THEOREM FileIsGone == SpecAll => []FileStaysDeleted
<1>1. PartsInv => FileStaysDeleted
  BY WriterIsProved, WriterProofs!KeptSays DEF PartsInv, FileStaysDeleted
<1> QED
  BY <1>1, PartsInit, PartsStep, PTL DEF SpecAll

\* No write puts older parts in the place of newer ones.
THEOREM FileGoesOn == SpecAll => FileNeverGoesBack
<1>1. PartsInv /\ [NextAll]_vars => [part = "parts file" => Writer!FileGoesForward]_vars
  <2> SUFFICES ASSUME PartsInv, NextAll, part = "parts file"
               PROVE  Writer!FileGoesForward
    OBVIOUS
  <2>1. WriterProofs!KeptInv /\ WriterProofs!Next
    BY WriterIsProved DEF NextAll, PartsInv
  <2> QED
    BY <2>1, WriterIsProved, WriterProofs!KeptWrites
<1> QED
  BY <1>1, PartsInit, PartsStep, PTL DEF SpecAll, FileNeverGoesBack

\* Rows, groups and footprints of a team's KiCad libraries name only what is
\* there, wherever an update stops.
THEOREM NothingGoesMissing == SpecAll => []NothingIsMissing
<1>1. PartsInv => NothingIsMissing
  BY FolderIsProved, Libraries!FolderSays DEF PartsInv, NothingIsMissing
<1> QED
  BY <1>1, PartsInit, PartsStep, PTL DEF SpecAll

\* A running KiCad finds the parts placed from it, or is told to restart.
THEOREM PlacedPartsAreFound == SpecAll => []PlacedPartsResolve
<1>1. PartsInv => PlacedPartsResolve
  BY FolderIsProved, Libraries!FolderSays DEF PartsInv, PlacedPartsResolve
<1> QED
  BY <1>1, PartsInit, PartsStep, PTL DEF SpecAll

\* Only the server that the folder records has it written, whichever threads
\* of a team's old and new servers update it.
THEOREM FolderIsItsServers == SpecAll => OnlyItsServerWrites
<1>1. PartsInv /\ [NextAll]_vars => [part = "folder" => Folder!ItsServerWrites]_vars
  <2> SUFFICES ASSUME PartsInv, NextAll, part = "folder"
               PROVE  Folder!ItsServerWrites
    OBVIOUS
  <2>1. Libraries!FolderInv /\ Libraries!Next
    BY FolderIsProved DEF NextAll, PartsInv
  <2> QED
    BY <2>1, PartsAssumptions, FolderIsProved, Libraries!FolderWrites
<1> QED
  BY <1>1, PartsInit, PartsStep, PTL DEF SpecAll, OnlyItsServerWrites

\* A fetch that follows new commits never undoes a review saved meanwhile.
THEOREM ReviewStays == SpecAll => []ReviewIsKept
<1>1. PartsInv => ReviewIsKept
  BY PartsAssumptions, LayoutsAreProved, Libraries!ReviewSays DEF PartsInv, ReviewIsKept
<1> QED
  BY <1>1, PartsInit, PartsStep, PTL DEF SpecAll

\* Folders of library files marked complete are whole, whoever deletes
\* folders meanwhile, and wherever a write stopped.
THEOREM CompleteIsWhole == SpecAll => []CompleteFilesAreWhole
<1>1. PartsInv => CompleteFilesAreWhole
  BY PartsAssumptions, LayoutsAreProved, Libraries!ReviewSays DEF PartsInv, CompleteFilesAreWhole
<1> QED
  BY <1>1, PartsInit, PartsStep, PTL DEF SpecAll

\* git runs in a whole copy through the whole run, and reaches the host by the
\* address of its own team, however many threads check, fetch, read and delete.
THEOREM GitHasItsOwnCopy == SpecAll => []GitMeetsItsOwnCopy
<1>1. PartsInv => GitMeetsItsOwnCopy
  BY RepoIsProved, Libraries!RepoSays DEF PartsInv, GitMeetsItsOwnCopy
<1> QED
  BY <1>1, PartsInit, PartsStep, PTL DEF SpecAll
=============================================================================
