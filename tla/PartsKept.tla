----------------------------- MODULE PartsKept -----------------------------
(***************************************************************************)
(* A team's last-known parts: the session's copy of the team catalog, the  *)
(* parts file an earlier run wrote, what the part list shows of them, and  *)
(* the thread that writes the file                                         *)
(* (crates/catalog-browser/src/team/known_parts.rs, team/mod.rs,           *)
(* teams/parts_writer.rs, teams/parts_file.rs, teams/mod.rs).              *)
(*                                                                         *)
(* Parts are known by the seq of the newest Change in them: Follower says  *)
(* that a replica holds exactly the Changes up to its checkpoint.  SignIns *)
(* has the store and every race for a session; here the keeper only        *)
(* carries a sign-in on, or ends a refused one, and a session it carried   *)
(* on while the person signed out runs until it has its turn.              *)
(***************************************************************************)
EXTENDS Naturals

CONSTANTS
  Observers,    \* who reads the session's parts: "list", the part list, or
                \* "writer", or both; neither sees what the other does
  MaxSeq,       \* the most Changes
  MaxCatchUps,  \* the most catch-ups of a session
  MaxSessions,  \* the most sessions of one run
  MaxRestarts   \* how often the app ends, anywhere, and starts again

VARIABLES
  seq,       \* the server's newest Change
  session,   \* the running session, or NoSession
  number,    \* the number of the newest one
  listed,    \* the saved list: "in", or "out": marked signed out
  reaching,  \* whether a kept sign-in is being carried on
  keeper,    \* the keeper: what it does, for which session, and whether the
             \* person signed in or out since it began
  file,      \* the parts file on disk
  shown,     \* FromFile: the file shown, and how many there were
  known,     \* the parts last made, and their version
  reader,    \* a call of last_known_parts
  writer,    \* the parts writer
  person,    \* the call that signs in or out
  ended,     \* the newest session when the person last signed out
  undeleted, \* the file was not deleted: that failed, or the app ended
  restarts

catalog == <<session, number>>
away == <<listed, reaching, keeper, person>>
ghosts == <<ended, undeleted, restarts>>
vars == <<seq, catalog, away, file, shown, known, reader, writer, ghosts>>

NoSession == [n |-> 0, seq |-> 0, catchUps |-> 0, live |-> "none"]
NoFile == [there |-> FALSE, n |-> 0, seq |-> 0]
NoVersion == <<0, 0, 0>>
Nothing == [v |-> NoVersion, seq |-> 0]
NoFileShown == [count |-> 0, file |-> NoFile]
Idle == [at |-> "idle", v |-> NoVersion, seq |-> 0]
Keeping == [at |-> "idle", n |-> 0, stale |-> FALSE]

-----------------------------------------------------------------------------
(* The session follows the catalog.  It may say it is live while the       *)
(* server has more.                                                        *)

Publish ==
  /\ seq < MaxSeq
  /\ seq' = seq + 1
  /\ UNCHANGED <<catalog, away, file, shown, known, reader, writer, ghosts>>

Follow ==
  /\ session.live \in {"connecting", "reconnecting", "live"}
  /\ \/ /\ session.catchUps < MaxCatchUps
        /\ session' = [session EXCEPT !.seq = seq, !.catchUps = @ + 1,
                                      !.live = "live"]
     \/ /\ session.live = "live" /\ session.seq < seq
        /\ session' = [session EXCEPT !.seq = @ + 1]
     \/ session' = [session EXCEPT !.live = "reconnecting"]
     \/ session' = [session EXCEPT !.live = "again"]
  /\ UNCHANGED <<seq, number, away, file, shown, known, reader, writer, ghosts>>

Starts ==
  /\ number < MaxSessions
  /\ number' = number + 1
  /\ session' = [n |-> number + 1, seq |-> 0, catchUps |-> 0,
                 live |-> "connecting"]

\* A mutant: the file is no longer shown, but its parts stay in memory.
EndsUnshown ==
  /\ session' = NoSession
  /\ known' = Nothing
  /\ shown' = [shown EXCEPT !.file.there = FALSE]

\* TeamCatalog.sign_out: forget_known, forget_parts_file, no session.
Ends ==
  /\ session' = NoSession
  /\ known' = Nothing
  /\ shown' = [shown EXCEPT !.file = NoFile]

CarryOn ==
  /\ reaching /\ keeper.at = "idle"
  /\ keeper' = [at |-> "asked", n |-> 0, stale |-> FALSE]
  /\ UNCHANGED <<seq, catalog, listed, reaching, person, file, shown, known,
                 reader, writer, ghosts>>

\* The store has no token, or the server refuses it.
NothingToCarryOn ==
  /\ keeper.at = "asked"
  /\ keeper' = Keeping
  /\ IF keeper.stale \/ session # NoSession
       THEN UNCHANGED <<catalog, reaching, known, shown>>
       ELSE Ends /\ number' = number /\ reaching' = FALSE
  /\ UNCHANGED <<seq, listed, person, file, reader, writer, ghosts>>

Resume ==
  /\ keeper.at = "asked"
  /\ IF session = NoSession
       THEN /\ Starts
            /\ known' = Nothing
            /\ keeper' = [keeper EXCEPT !.at = "resumed", !.n = number + 1]
       ELSE keeper' = Keeping /\ UNCHANGED <<catalog, known>>
  /\ UNCHANGED <<seq, listed, reaching, person, file, shown, reader, writer,
                 ghosts>>

AfterResuming ==
  /\ keeper.at = "resumed" /\ person.at # "forget"
  /\ reaching' = FALSE
  /\ keeper' = Keeping
  /\ IF keeper.stale /\ session.n = keeper.n
       THEN Ends
       ELSE UNCHANGED <<session, known, shown>>
  /\ UNCHANGED <<seq, number, listed, person, file, reader, writer, ghosts>>

\* TeamCatalog.sign_in_again: the file stays on disk.
SignInAgain ==
  /\ keeper.at = "idle" /\ person.at # "forget" /\ session.live = "again"
  /\ Ends
  /\ UNCHANGED <<seq, number, away, file, reader, writer, ghosts>>

KeeperStep ==
  CarryOn \/ NothingToCarryOn \/ Resume \/ AfterResuming \/ SignInAgain

-----------------------------------------------------------------------------
(* What the part list shows: TeamCatalog.last_known_parts.                 *)

\* Session versions start at 1, so a file's never equals one.
Version == <<session.n, session.seq, session.catchUps>>
FromFile == [v |-> <<0, shown.count, 0>>, seq |-> shown.file.seq]

Source ==
  IF session = NoSession
    THEN IF shown.file.there THEN FromFile ELSE Nothing
  ELSE IF session.live = "again" THEN Nothing
  ELSE IF shown.file.there /\ session.catchUps = 0 THEN FromFile
  ELSE [v |-> Version, seq |-> session.seq]

\* The version first, and the parts already made if they have it.
ReadVersion ==
  /\ "list" \in Observers /\ reader.at = "idle" /\ Source.v # NoVersion
  /\ reader' = IF known.v = Source.v THEN reader
               ELSE [at |-> "values", v |-> Source.v, seq |-> Source.seq]
  /\ shown' = IF Source.v[1] # 0 /\ session.catchUps > 0
                THEN [shown EXCEPT !.file = NoFile] ELSE shown
  /\ UNCHANGED <<seq, catalog, away, file, known, writer, ghosts>>

\* A mutant: the values were read first, the version only now.
MadeVersionLast(call) == [v |-> Source.v, seq |-> call.seq]

\* The values of a file are those of the version; a session's are read now,
\* whichever session runs.
Made(call) ==
  [v |-> call.v, seq |-> IF call.v[1] = 0 THEN call.seq ELSE session.seq]

ReadValues ==
  /\ reader.at = "values"
  /\ known' = Made(reader)
  /\ reader' = Idle
  /\ UNCHANGED <<seq, catalog, away, file, shown, writer, ghosts>>

-----------------------------------------------------------------------------
(* The parts writer.                                                       *)

InStep == session.live = "live" /\ session.catchUps > 0

\* Once the parts stayed the same for a while, or again after a while.
Due ==
  /\ "writer" \in Observers /\ writer.at = "idle" /\ InStep
  /\ writer' = [at |-> "values", v |-> Version, seq |-> 0]
  /\ UNCHANGED <<seq, catalog, away, file, shown, known, reader, ghosts>>

\* The category names may be missing: nothing is written then.
ReadParts ==
  /\ writer.at = "values"
  /\ \/ writer' = [writer EXCEPT !.at = "turn", !.seq = session.seq]
     \/ writer' = Idle
  /\ UNCHANGED <<seq, catalog, away, file, shown, known, reader, ghosts>>

\* Mutants: any session in step will do; what was in step is not checked.
StillWorthWritingAny == InStep
StillWorthWritingUnchecked == TRUE

StillWorthWriting == InStep /\ session.n = writer.v[1]

CheckWorth ==
  /\ writer.at = "turn"
  /\ writer' = IF StillWorthWriting THEN [writer EXCEPT !.at = "write"]
                                    ELSE Idle
  /\ UNCHANGED <<seq, catalog, away, file, shown, known, reader, ghosts>>

\* A temporary file takes the place of the old one at once, or the write
\* fails and the old one stays.
Write ==
  /\ writer.at = "write"
  /\ \/ file' = [there |-> TRUE, n |-> writer.v[1], seq |-> writer.seq]
     \/ UNCHANGED file
  /\ writer' = Idle
  /\ UNCHANGED <<seq, catalog, away, shown, known, reader, ghosts>>

WriterStep == Due \/ ReadParts \/ CheckWorth \/ Write

-----------------------------------------------------------------------------
(* The person signs in and out, one after the other.                       *)

Stale == [keeper EXCEPT !.stale = TRUE]

SignIn ==
  /\ person.at = "idle"
  /\ Starts
  /\ known' = Nothing
  /\ person' = [person EXCEPT !.at = "tell"]
  /\ UNCHANGED <<seq, listed, reaching, keeper, file, shown, reader, writer,
                 ghosts>>

\* Keeper.signed_in, and the parts file shows until the catch-up ends.
ShowFile ==
  /\ person.at = "tell"
  /\ reaching' = FALSE /\ keeper' = Stale
  /\ shown' = IF file.there THEN [count |-> shown.count + 1, file |-> file]
                            ELSE shown
  /\ listed' = "in"
  /\ person' = Idle
  /\ UNCHANGED <<seq, catalog, file, known, reader, writer, ghosts>>

SignOut ==
  /\ person.at = "idle" /\ listed = "in"
  /\ listed' = "out"
  /\ person' = [person EXCEPT !.at = "leave"]
  /\ UNCHANGED <<seq, catalog, reaching, keeper, file, shown, known, reader,
                 writer, ghosts>>

Leave ==
  /\ person.at = "leave"
  /\ reaching' = FALSE /\ keeper' = Stale
  /\ Ends
  /\ ended' = number
  /\ person' = [person EXCEPT !.at = "forget"]
  /\ UNCHANGED <<seq, number, listed, file, reader, writer, undeleted, restarts>>

\* The store has forgotten the token; the turn is free again.
Forgotten ==
  /\ person.at = "forget"
  /\ person' = [person EXCEPT !.at = "delete"]
  /\ UNCHANGED <<seq, catalog, listed, reaching, keeper, file, shown, known,
                 reader, writer, ghosts>>

\* In the writer's turn.
Delete ==
  /\ person.at = "delete" /\ writer.at # "write"
  /\ \/ file' = NoFile /\ undeleted' = FALSE
     \/ UNCHANGED file /\ undeleted' = file.there
  /\ person' = Idle
  /\ UNCHANGED <<seq, catalog, listed, reaching, keeper, shown, known, reader,
                 writer, ended, restarts>>

PersonStep == SignIn \/ ShowFile \/ SignOut \/ Leave \/ Forgotten \/ Delete

-----------------------------------------------------------------------------
(* The app ends and starts again: Teams.open.                              *)

Restart ==
  /\ restarts < MaxRestarts
  /\ restarts' = restarts + 1
  /\ session' = NoSession /\ number' = 0
  /\ reaching' = (listed = "in")
  /\ keeper' = Keeping
  /\ file' = [file EXCEPT !.n = 0]
  /\ shown' = IF listed = "in" /\ file.there
                THEN [count |-> 1, file |-> file'] ELSE NoFileShown
  /\ known' = Nothing
  /\ reader' = Idle /\ writer' = Idle
  /\ undeleted' = (undeleted \/ person.at # "idle"
                               \/ (listed = "out" /\ file.there))
  /\ ended' = 0
  /\ person' = Idle
  /\ UNCHANGED <<seq, listed>>

\* A run of before may have left a parts file.
Init ==
  /\ seq \in 0 .. 1 /\ session = NoSession /\ number = 0
  /\ listed = "in" /\ reaching = TRUE /\ keeper = Keeping
  /\ \/ file = NoFile /\ shown = NoFileShown
     \/ /\ file \in [there : {TRUE}, n : {0}, seq : 0 .. seq]
        /\ shown = [count |-> 1, file |-> file]
  /\ known = Nothing
  /\ reader = Idle /\ writer = Idle /\ person = Idle
  /\ ended = 0 /\ undeleted = FALSE /\ restarts = 0

Next ==
  \/ Publish \/ Follow \/ KeeperStep \/ ReadVersion \/ ReadValues \/ WriterStep
  \/ PersonStep \/ Restart

Spec == Init /\ [][Next]_vars

-----------------------------------------------------------------------------

TypeOK ==
  /\ seq \in 0 .. MaxSeq /\ number \in 0 .. MaxSessions
  /\ session.n \in {0, number} /\ session.seq <= seq
  /\ session.live \in {"none", "connecting", "live", "reconnecting", "again"}
  /\ listed \in {"in", "out"} /\ {reaching, undeleted} \subseteq BOOLEAN
  /\ keeper.at \in {"idle", "asked", "resumed"}
  /\ \A f \in {file, shown.file} : f.seq <= seq /\ (f.there \/ f = [NoFile EXCEPT !.n = f.n])
  /\ reader.at \in {"idle", "values"}
  /\ writer.at \in {"idle", "values", "turn", "write"}
  /\ person.at \in {"idle", "tell", "leave", "forget", "delete"}

\* What the part list is given again without being made again is what it
\* would be made of now: parts are never kept stale, though their version is
\* read before them while the follower applies Changes, and the person signs
\* in and out.
KnownPartsAreCurrent ==
  known.v # NoVersion /\ known.v = Source.v => known.seq = Source.seq

\* Signing out deletes the file for good: no write of a session that the
\* person signed out of brings it back.
FileStaysDeleted ==
  listed = "out" /\ person.at = "idle" /\ ~undeleted =>
    ~file.there \/ file.n > ended

\* The file never goes back to older parts: not those of a session that
\* ended, nor those of one that has still to catch up.
FileGoesForward == file.there /\ file'.there => file'.seq >= file.seq

\* Every write and deletion of the file.
FileNeverGoesBack == [][FileGoesForward]_vars
=============================================================================
