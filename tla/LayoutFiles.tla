---------------------------- MODULE LayoutFiles ----------------------------
(***************************************************************************)
(* A library repo's reviewed layout, and its library files written out of  *)
(* the app's copy for the Libraries browser                                *)
(* (crates/catalog-browser/src/library_repos/layout/mod.rs, store.rs,      *)
(* files.rs; library_repos/mod.rs; libraries/browse.rs).                   *)
(*                                                                         *)
(* One repo, that every team links.  A commit is a number; what the person *)
(* reviews of its scan is the set of libraries found.  The browser's calls *)
(* run one at a time, under its own lock.                                  *)
(***************************************************************************)
EXTENDS Naturals

CONSTANTS
  Scans,       \* the sets of libraries that a commit may scan as
  Followers,   \* the threads that fetch the repo, and follow it
  Teams,       \* how many teams link the repo
  MaxCommits,
  MaxEvents    \* how often the person keeps a layout or the repo is unlinked,
               \* a file cannot be written, or the app ends

VARIABLES
  scans,     \* the libraries in each commit
  head,      \* the newest commit in the copy
  kept,      \* the reviewed layout's file, or NoReview
  writing,   \* who holds the lock to write it: a follower or "free"
  follower,  \* what each follower does, the layout it read and the commit
  dialog,    \* the commit whose scan the person reviews, or 0
  folders,   \* each commit's folder
  partial,   \* each commit's folder while it is written
  writer,    \* the thread that writes the files
  call,      \* a call of team_libraries
  given,     \* the commit whose folder was last given, or 0
  saved,     \* what the person last kept
  events

layout == <<kept, writing, follower, dialog, saved>>
files == <<folders, partial, writer, call, given>>
vars == <<scans, head, layout, files, events>>

Commits == 1 .. MaxCommits
NoReview == [commit |-> 0, scan |-> {}, profile |-> {}, changed |-> FALSE, scanned |-> 0]
NoFolder == [there |-> FALSE, complete |-> FALSE, holds |-> {}, for |-> {}]
NoCall == [at |-> "idle", teams |-> 0, commit |-> 0, profile |-> {}, before |-> 0]
NoWriter == [at |-> "idle", commit |-> 0, left |-> {}, for |-> {}]
NotFollowing == [at |-> "idle", read |-> NoReview, commit |-> 0]

Event == events < MaxEvents /\ events' = events + 1

-----------------------------------------------------------------------------
(* A fetch follows the newest commit.                                      *)

Fetch(f) ==
  /\ follower[f].at = "idle"
  /\ \E c \in {head, head + 1} \intersect Commits :
       /\ head' = c
       /\ follower' = [follower EXCEPT ![f] = [NotFollowing EXCEPT !.at = "follow"]]
  /\ UNCHANGED <<scans, kept, writing, dialog, saved, files, events>>

HasFollowed(reviewed, c) == c \in {reviewed.commit, reviewed.scanned}

\* The lock is held from reading the layout to saving it, a scan in between.
StartFollow(f) ==
  /\ follower[f].at = "follow" /\ writing = "free"
  /\ IF kept = NoReview \/ HasFollowed(kept, head)
       THEN /\ follower' = [follower EXCEPT ![f] = NotFollowing]
            /\ UNCHANGED writing
       ELSE /\ follower' = [follower EXCEPT
                 ![f] = [at |-> "scan", read |-> kept, commit |-> head]]
            /\ writing' = f
  /\ UNCHANGED <<scans, head, kept, dialog, saved, files, events>>

\* A mutant: moved to the newest commit whatever its scan.
FollowedAnyway(reviewed, c) == [reviewed EXCEPT !.commit = c, !.scanned = c]

Followed(reviewed, c) ==
  IF scans[c] = reviewed.scan
    THEN [reviewed EXCEPT !.commit = c, !.scanned = c, !.changed = FALSE]
    ELSE [reviewed EXCEPT !.scanned = c, !.changed = TRUE]

\* A scan that fails leaves the layout as it was.
Follow(f) ==
  /\ follower[f].at = "scan"
  /\ \/ /\ kept' = Followed(follower[f].read, follower[f].commit)
        /\ UNCHANGED events
     \/ Event /\ UNCHANGED kept
  /\ follower' = [follower EXCEPT ![f] = NotFollowing]
  /\ writing' = "free"
  /\ UNCHANGED <<scans, head, dialog, saved, files>>

-----------------------------------------------------------------------------
(* The person reviews the newest scan, and keeps it with their choices;    *)
(* no team links the repo any more.                                        *)

Review ==
  /\ head > 0 /\ dialog' = head /\ dialog' # dialog
  /\ UNCHANGED <<scans, head, kept, writing, follower, saved, files, events>>

\* A mutant: the layout is kept without its lock.
KeepLayoutUnlocked(profile) ==
  /\ kept' = [commit |-> dialog, scan |-> scans[dialog], profile |-> profile,
              changed |-> FALSE, scanned |-> 0]
  /\ saved' = [scan |-> scans[dialog], profile |-> profile]

KeepLayout(profile) ==
  /\ writing = "free"
  /\ kept' = [commit |-> dialog, scan |-> scans[dialog], profile |-> profile,
              changed |-> FALSE, scanned |-> 0]
  /\ saved' = [scan |-> scans[dialog], profile |-> profile]

UseLayout ==
  /\ dialog > 0 /\ Event
  /\ \E profile \in SUBSET scans[dialog] : KeepLayout(profile)
  /\ dialog' = 0
  /\ UNCHANGED <<scans, head, writing, follower, files>>

\* delete_unlinked leaves a repo whose files are being written.
DeleteUnlinked ==
  /\ Event
  /\ writing = "free" /\ kept # NoReview
  /\ writer = NoWriter
  /\ kept' = NoReview
  /\ folders' = [c \in Commits |-> NoFolder]
  /\ partial' = [c \in Commits |-> NoFolder]
  /\ UNCHANGED <<scans, head, writing, follower, dialog, saved, writer,
                 call, given>>

-----------------------------------------------------------------------------
(* The thread that writes the files.                                       *)

\* The write ends, with a problem or not: files_writing no longer has it.
Write(w) == writer' = w /\ UNCHANGED <<scans, head, layout, call, given>>

\* Nothing is written where the folder is complete.
StartWriting ==
  /\ writer.at = "begun"
  /\ UNCHANGED <<folders, events>>
  /\ LET c == kept.commit IN
     IF kept = NoReview \/ folders[c].complete
       THEN Write(NoWriter) /\ UNCHANGED partial
       ELSE /\ partial' = [partial EXCEPT ![c] = [NoFolder EXCEPT !.there = TRUE,
                                                                  !.for = kept.profile]]
            /\ Write([at |-> "files", commit |-> c, left |-> kept.profile,
                      for |-> kept.profile])

\* A file's folders are made where they are missing.
WriteFile ==
  /\ writer.at = "files"
  /\ \E library \in writer.left :
       /\ partial' = [partial EXCEPT ![writer.commit].there = TRUE,
                                     ![writer.commit].for = writer.for,
                                     ![writer.commit].holds = @ \union {library}]
       /\ Write([writer EXCEPT !.left = @ \ {library}])
  /\ UNCHANGED <<folders, events>>

\* The mark is written, which takes the folder, and it is moved into place.
Complete ==
  /\ writer.at = "files" /\ writer.left = {} /\ partial[writer.commit].there
  /\ folders' = [folders EXCEPT
       ![writer.commit] = [partial[writer.commit] EXCEPT !.complete = TRUE]]
  /\ partial' = [partial EXCEPT ![writer.commit] = NoFolder]
  /\ Write(NoWriter) /\ UNCHANGED events

WriteFails ==
  /\ writer.at = "files" /\ Event
  /\ Write(NoWriter) /\ UNCHANGED <<folders, partial>>

WriterStep == StartWriting \/ WriteFile \/ Complete \/ WriteFails

-----------------------------------------------------------------------------
(* The browser asks for every team's libraries.                            *)

Browse ==
  /\ call = NoCall /\ call' = [NoCall EXCEPT !.at = "team", !.teams = Teams]
  /\ UNCHANGED <<scans, head, layout, folders, partial, writer, given, events>>

\* The next team, or the call's end.
Next1 == IF call.teams = 1 THEN NoCall
         ELSE [NoCall EXCEPT !.at = "team", !.teams = call.teams - 1]

Browsable ==
  /\ call.at = "team"
  /\ call' = IF kept = NoReview THEN Next1
             ELSE [call EXCEPT !.commit = kept.commit, !.profile = kept.profile,
                               !.at = IF folders[kept.commit].complete
                                        THEN "ready" ELSE "begin"]
  /\ UNCHANGED <<scans, head, layout, folders, partial, writer, given, events>>

BeginWriting ==
  /\ call.at = "begin"
  /\ writer' = IF writer = NoWriter THEN [NoWriter EXCEPT !.at = "begun"] ELSE writer
  /\ call' = Next1
  /\ UNCHANGED <<scans, head, layout, folders, partial, given, events>>

\* A mutant: whether the files are being written or not.
MayDeleteAny == TRUE

MayDelete == writer = NoWriter

Ready ==
  /\ call.at = "ready"
  /\ IF MayDelete
       THEN /\ call' = [call EXCEPT !.at = "delete", !.before = given]
            /\ given' = call.commit
       ELSE /\ call' = Next1
            /\ UNCHANGED given
  /\ UNCHANGED <<scans, head, layout, folders, partial, writer, events>>

\* Every other folder goes, those stopped halfway too.
DeleteOtherCommits ==
  /\ call.at = "delete"
  /\ folders' = [c \in Commits |->
       IF c \in {call.commit, call.before} THEN folders[c] ELSE NoFolder]
  /\ partial' = [c \in Commits |-> NoFolder]
  /\ call' = Next1
  /\ UNCHANGED <<scans, head, layout, writer, given, events>>

CallStep == Browse \/ Browsable \/ BeginWriting \/ Ready \/ DeleteOtherCommits

-----------------------------------------------------------------------------

\* The app ends, anywhere, and starts again.
Restart ==
  /\ Event
  /\ writing' = "free"
  /\ follower' = [f \in Followers |-> NotFollowing]
  /\ dialog' = 0 /\ writer' = NoWriter /\ call' = NoCall /\ given' = 0
  /\ UNCHANGED <<scans, head, kept, folders, partial, saved>>

Init ==
  /\ scans \in [Commits -> Scans]
  /\ head = 1 /\ kept = NoReview /\ writing = "free"
  /\ follower = [f \in Followers |-> NotFollowing]
  /\ dialog = 0
  /\ folders = [c \in Commits |-> NoFolder]
  /\ partial = [c \in Commits |-> NoFolder]
  /\ writer = NoWriter /\ call = NoCall /\ given = 0
  /\ saved = [scan |-> {}, profile |-> {}]
  /\ events = 0

Next ==
  \/ \E f \in Followers : Fetch(f) \/ StartFollow(f) \/ Follow(f)
  \/ Review \/ UseLayout \/ DeleteUnlinked
  \/ WriterStep \/ CallStep \/ Restart

Spec == Init /\ [][Next]_vars

-----------------------------------------------------------------------------

TypeOK ==
  /\ head \in Commits /\ dialog \in 0 .. head
  /\ kept.commit \in 0 .. head /\ kept.profile \subseteq kept.scan
  /\ writing \in Followers \union {"free"}
  /\ \A f \in Followers :
       /\ follower[f].at \in {"idle", "follow", "scan"}
       /\ (follower[f].at = "scan") = (writing = f)
  /\ \A c \in Commits : partial[c].holds \union folders[c].holds \subseteq UNION Scans
  /\ writer.at \in {"idle", "begun", "files"}
  /\ call.at \in {"idle", "team", "begin", "ready", "delete"}

\* "a fetch that follows a new commit never undoes a review saved meanwhile"
\* (layout/mod.rs, Layouts.writing), and the layout moves only to a commit
\* that scans as the one reviewed did.
ReviewIsKept ==
  kept # NoReview =>
    /\ kept.profile = saved.profile
    /\ {kept.scan, scans[kept.commit]} = {saved.scan}

\* A folder marked as written whole (files.rs, the complete mark) holds every
\* library it was written for, whoever deletes folders meanwhile, wherever a
\* write of before stopped.
CompleteFilesAreWhole ==
  \A c \in Commits : folders[c].complete => folders[c].holds = folders[c].for

\* "Holds the profile's libraries at their repo paths, once written"
\* (library_repos/mod.rs, TeamLibraries.folder), unless they were deleted with
\* the link meanwhile.
ReadyFilesHoldTheProfile ==
  call.at = "ready" /\ folders[call.commit].complete =>
    call.profile \subseteq folders[call.commit].holds
=============================================================================
