-------------------------- MODULE PartsKept_proofs --------------------------
(***************************************************************************)
(* The parts of a team's catalog that are kept, for any number of Changes, *)
(* catch-ups, sessions and restarts: what the part list is given again is  *)
(* what it would be made of now, signing out deletes the file for good,    *)
(* and the file never goes back to older parts.                            *)
(***************************************************************************)
EXTENDS PartsKept, TLAPS

\* What the lemmas need of the constants: a run may begin with one Change.
KeptAssumption == MaxSeq \in Nat \ {0} /\ MaxSessions \in Nat

-----------------------------------------------------------------------------
(* The inductive invariant.                                                *)

Versions == Nat \X Nat \X Nat
Sessions == [n : Nat, seq : Nat, catchUps : Nat,
             live : {"none", "connecting", "live", "reconnecting", "again"}]
Files == [there : BOOLEAN, n : Nat, seq : Nat]
Calls == [at : {"idle", "values", "turn", "write"}, v : Versions, seq : Nat]

KeptTypes ==
  /\ seq \in 0 .. MaxSeq /\ number \in 0 .. MaxSessions /\ ended \in 0 .. number
  /\ session \in Sessions /\ session.seq <= seq
  /\ session = NoSession \/ (session.n = number /\ number > 0)
  /\ file \in Files /\ shown \in [count : Nat, file : Files]
  /\ known \in [v : Versions, seq : Nat]
  /\ reader \in Calls /\ reader.at \in {"idle", "values"}
  /\ writer \in Calls /\ writer.seq <= seq
  /\ person \in [at : {"idle", "tell", "leave", "forget", "delete"}, v : Versions, seq : Nat]
  /\ keeper \in [at : {"idle", "asked", "resumed"}, n : Nat, stale : BOOLEAN]
  /\ listed \in {"in", "out"} /\ reaching \in BOOLEAN /\ undeleted \in BOOLEAN

FilesAreNoNewer ==
  \A f \in {file, shown.file} : f.seq <= seq /\ (f.there \/ f.seq = 0)

\* Versions are never used again.  Of the running session, what is read or
\* known is no newer than it; what is known is no older than its version.
VersionsAreOfNow ==
  /\ \A c \in {reader, known} : c.v[1] <= number /\ (c.v[1] = 0 => c.v[2] <= shown.count)
  /\ \A c \in {reader, known} :
       c.v[1] = 0 /\ c.v[2] = shown.count /\ shown.file.there => c.seq = shown.file.seq
  /\ reader.v[1] # 0 /\ reader.v[1] = session.n => reader.v[2] <= session.seq
  /\ known.v[1] # 0 /\ known.v[1] = session.n =>
       known.v[2] <= known.seq /\ known.seq <= session.seq
  /\ shown.file.there => shown.count > 0

\* Once the person signed out, what runs, and what is being written, is of a
\* session that started later.
SignedOutSessionsAreOver ==
  /\ person.at \in {"leave", "forget", "delete"} => listed = "out"
  /\ listed = "out" /\ person.at # "leave" => session.n = 0 \/ session.n > ended
  /\ writer.at # "idle" => writer.v[1] \in 1 .. number
  /\ listed = "out" /\ person.at \in {"idle", "tell"} /\ writer.at = "write" =>
       writer.v[1] > ended

\* A session that caught up has what the file has; so has what the writer
\* read of it, for as long as that session runs.
WriterHasTheFile ==
  /\ session.catchUps > 0 => writer.seq <= session.seq
  /\ session.catchUps > 0 /\ file.there => file.seq <= session.seq
  /\ writer.at = "values" /\ session.n = writer.v[1] => session.catchUps > 0
  /\ writer.at = "turn" /\ session.n = writer.v[1] /\ file.there => file.seq <= writer.seq
  /\ writer.at = "write" /\ file.there => file.seq <= writer.seq

KeptInv ==
  /\ KeptTypes
  /\ FilesAreNoNewer
  /\ VersionsAreOfNow
  /\ SignedOutSessionsAreOver
  /\ WriterHasTheFile
  /\ FileStaysDeleted

LEMMA KeptValues ==
  /\ NoSession \in Sessions /\ NoSession.n = 0 /\ NoSession.seq = 0 /\ NoSession.catchUps = 0
  /\ NoFile \in Files /\ NoFile.there = FALSE /\ NoFile.seq = 0
  /\ NoVersion \in Versions /\ NoVersion[1] = 0 /\ NoVersion[2] = 0
  /\ Nothing \in [v : Versions, seq : Nat] /\ Nothing.v = NoVersion
  /\ NoFileShown \in [count : Nat, file : Files]
  /\ Idle \in Calls /\ Idle.at = "idle" /\ Idle.v = NoVersion /\ Idle.seq = 0
  /\ Idle \in [at : {"idle", "tell", "leave", "forget", "delete"}, v : Versions, seq : Nat]
  /\ Keeping \in [at : {"idle", "asked", "resumed"}, n : Nat, stale : BOOLEAN]
BY DEF NoSession, Sessions, NoFile, Files, NoVersion, Versions, Nothing, NoFileShown, Idle, Calls,
       Keeping

\* What the reader and the writer find out of the session, or of the file.
LEMMA SourceValues ==
  ASSUME KeptTypes
  PROVE  /\ Version \in Versions /\ Version[1] = session.n /\ Version[2] = session.seq
         /\ Source \in [v : Versions, seq : Nat]
         /\ Source.v # NoVersion =>
              \/ (Source.v = Version /\ Source.seq = session.seq /\ session # NoSession)
              \/ (Source = FromFile /\ shown.file.there)
<1>1. session \in Sessions /\ shown \in [count : Nat, file : Files]
  BY DEF KeptTypes
<1>2. Version \in Versions /\ Version[1] = session.n /\ Version[2] = session.seq
  BY <1>1 DEF Version, Versions, Sessions
<1>3. FromFile \in [v : Versions, seq : Nat]
  BY <1>1 DEF FromFile, Versions, Files
<1>4. Nothing \in [v : Versions, seq : Nat] /\ Nothing.v = NoVersion
  BY KeptValues
<1>5. \/ Source = Nothing \/ (Source = FromFile /\ shown.file.there)
      \/ (Source = [v |-> Version, seq |-> session.seq] /\ session # NoSession)
  BY DEF Source
<1>6. [v |-> Version, seq |-> session.seq] \in [v : Versions, seq : Nat]
  BY <1>1, <1>2 DEF Sessions
<1> QED
  BY <1>2, <1>3, <1>4, <1>5, <1>6

LEMMA KeptInit == KeptAssumption /\ Init => KeptInv
<1> SUFFICES ASSUME KeptAssumption, Init PROVE KeptInv
  OBVIOUS
<1>1. seq \in 0 .. 1 /\ seq \in 0 .. MaxSeq /\ 0 \in 0 .. MaxSessions
  BY DEF Init, KeptAssumption
<1>2. /\ file \in Files /\ shown \in [count : Nat, file : Files]
      /\ FilesAreNoNewer /\ (shown.file.there => shown.count > 0)
  <2>1. CASE file = NoFile /\ shown = NoFileShown
    BY <1>1, <2>1 DEF NoFile, Files, NoFileShown, FilesAreNoNewer
  <2>2. CASE /\ file \in [there : {TRUE}, n : {0}, seq : 0 .. seq]
             /\ shown = [count |-> 1, file |-> file]
    <3>1. file.there = TRUE /\ file.seq \in 0 .. seq /\ file \in Files
      <4>1. TRUE \in BOOLEAN /\ 0 \in Nat /\ 0 .. seq \subseteq Nat
        BY <1>1
      <4>2. file \in [there : BOOLEAN, n : Nat, seq : Nat]
        BY <2>2, <4>1, Zenon
      <4>3. file.there = TRUE /\ file.seq \in 0 .. seq
        BY <2>2, Zenon
      <4> QED
        BY <4>2, <4>3, Zenon DEF Files
    <3>2. shown.file = file /\ shown.count = 1 /\ shown \in [count : Nat, file : Files]
      BY <2>2, <3>1
    <3> QED
      BY <1>1, <3>1, <3>2 DEF FilesAreNoNewer
  <2> QED
    BY <2>1, <2>2 DEF Init
<1>3. KeptTypes
  <2>1. reaching \in BOOLEAN /\ undeleted \in BOOLEAN
    BY DEF Init
  <2>2. 0 <= seq
    BY <1>1
  <2> QED
    BY <1>1, <1>2, <2>1, <2>2, KeptValues DEF Init, KeptTypes
<1>4. VersionsAreOfNow
  BY <1>1, <1>2, KeptValues DEF Init, VersionsAreOfNow
<1>5. SignedOutSessionsAreOver /\ WriterHasTheFile /\ FileStaysDeleted
  BY <1>1, KeptValues
     DEF Init, SignedOutSessionsAreOver, WriterHasTheFile, FileStaysDeleted
<1> QED
  BY <1>2, <1>3, <1>4, <1>5 DEF KeptInv, FilesAreNoNewer

\* What the follower does to the session.
Follows ==
  /\ session' \in Sessions /\ session # NoSession /\ session'.n = session.n /\ number' = number
  /\ session'.catchUps \in {session.catchUps, session.catchUps + 1}
  /\ session.seq <= session'.seq /\ session'.seq <= seq
  /\ (session'.catchUps = session.catchUps \/ session'.seq = seq)

LEMMA Following == KeptTypes /\ Follow => Follows
<1> SUFFICES ASSUME KeptTypes, Follow PROVE Follows
  OBVIOUS
<1>1. /\ session \in Sessions /\ session.n \in Nat /\ session.seq \in Nat /\ session.catchUps \in Nat
      /\ seq \in Nat /\ session.seq <= seq
      /\ session.seq + 1 \in Nat /\ session.catchUps + 1 \in Nat
  BY DEF KeptTypes, Sessions
<1>2. session # NoSession /\ number' = number
  BY DEF Follow, NoSession
<1>3. CASE session' = [session EXCEPT !.seq = seq, !.catchUps = session.catchUps + 1,
                                      !.live = "live"]
  <2>1. /\ session' \in Sessions /\ session'.n = session.n /\ session'.seq = seq
        /\ session'.catchUps = session.catchUps + 1
    BY <1>1, <1>3 DEF Sessions
  <2> QED
    BY <1>1, <1>2, <2>1 DEF Follows
<1>4. CASE session.seq < seq /\ session' = [session EXCEPT !.seq = session.seq + 1]
  BY <1>1, <1>2, <1>4 DEF Follows, Sessions
<1>5. CASE session' = [session EXCEPT !.live = "reconnecting"]
  BY <1>1, <1>2, <1>5 DEF Follows, Sessions
<1>6. CASE session' = [session EXCEPT !.live = "again"]
  BY <1>1, <1>2, <1>6 DEF Follows, Sessions
<1> QED
  BY <1>3, <1>4, <1>5, <1>6 DEF Follow

LEMMA Starting ==
  ASSUME KeptAssumption, KeptTypes, Starts
  PROVE  /\ session' \in Sessions /\ session'.n = number' /\ session'.seq = 0
         /\ session'.catchUps = 0
         /\ number' = number + 1 /\ number' \in 0 .. MaxSessions
<1>1. number \in Nat /\ number + 1 \in Nat /\ MaxSessions \in Nat
  BY DEF KeptTypes, KeptAssumption
<1> QED
  BY <1>1 DEF Starts, Sessions

LEMMA Ending ==
  ASSUME KeptTypes, Ends
  PROVE  /\ session' = NoSession /\ known' = Nothing
         /\ shown' = [count |-> shown.count, file |-> NoFile]
         /\ shown' \in [count : Nat, file : Files]
BY KeptValues DEF KeptTypes, Ends

-----------------------------------------------------------------------------
(* Types.                                                                  *)

LEMMA SessionKeepsTypes ==
  ASSUME KeptAssumption, KeptTypes, Publish \/ Follow \/ KeeperStep
  PROVE  KeptTypes'
<1>1. /\ seq \in 0 .. MaxSeq /\ number \in 0 .. MaxSessions /\ ended \in 0 .. number
      /\ MaxSeq \in Nat /\ MaxSessions \in Nat
      /\ keeper \in [at : {"idle", "asked", "resumed"}, n : Nat, stale : BOOLEAN]
  BY DEF KeptTypes, KeptAssumption
<1>2. CASE Publish
  <2>1. seq' = seq + 1 /\ seq' \in 0 .. MaxSeq
    BY <1>1, <1>2 DEF Publish
  <2>2. session.seq \in Nat /\ writer.seq \in Nat
    BY DEF KeptTypes, Sessions, Calls
  <2>3. session.seq <= seq' /\ writer.seq <= seq'
    BY <1>1, <2>1, <2>2 DEF KeptTypes
  <2> QED
    BY <1>1, <1>2, <2>1, <2>3 DEF KeptTypes, Publish, catalog, away, ghosts
<1>3. CASE Follow
  <2>1. Follows
    BY <1>3, Following
  <2> QED
    BY <1>1, <1>3, <2>1 DEF KeptTypes, Follow, Follows, away, ghosts
<1>4. CASE CarryOn \/ SignInAgain
  <2>1. CASE CarryOn
    BY <1>1, <2>1 DEF KeptTypes, CarryOn, catalog, ghosts
  <2>2. CASE SignInAgain
    <3>1. UNCHANGED <<seq, number, listed, reaching, keeper, person, file, reader, writer,
                      ended, undeleted>>
      BY <2>2 DEF SignInAgain, away, ghosts
    <3> QED
      BY <1>1, <2>2, <3>1, Ending, KeptValues DEF KeptTypes, SignInAgain
  <2> QED
    BY <1>4, <2>1, <2>2
<1>5. CASE NothingToCarryOn
  <2>1. /\ keeper' \in [at : {"idle", "asked", "resumed"}, n : Nat, stale : BOOLEAN]
        /\ UNCHANGED <<seq, listed, person, file, reader, writer, ended, undeleted, number>>
    BY <1>5, KeptValues DEF NothingToCarryOn, catalog, ghosts
  <2>2. CASE UNCHANGED <<catalog, reaching, known, shown>>
    BY <1>1, <2>1, <2>2 DEF KeptTypes, catalog
  <2>3. CASE Ends /\ reaching' = FALSE
    <3>1. Ends /\ reaching' \in BOOLEAN
      BY <2>3
    <3> QED
      BY <1>1, <2>1, <3>1, Ending, KeptValues DEF KeptTypes
  <2> QED
    BY <1>5, <2>2, <2>3 DEF NothingToCarryOn
<1>6. CASE Resume
  <2>1. CASE Starts /\ known' = Nothing /\ keeper' = [keeper EXCEPT !.at = "resumed", !.n = number + 1]
    <3>1. keeper' \in [at : {"idle", "asked", "resumed"}, n : Nat, stale : BOOLEAN]
      <4>1. number + 1 \in Nat
        BY <1>1
      <4> QED
        BY <1>1, <2>1, <4>1
    <3>2. UNCHANGED <<seq, listed, reaching, person, file, shown, reader, writer, ended, undeleted>>
      BY <1>6 DEF Resume, ghosts
    <3>3. session'.seq <= seq /\ number' > 0 /\ ended \in 0 .. number'
      BY <1>1, <2>1, Starting
    <3> QED
      BY <1>1, <2>1, <3>1, <3>2, <3>3, Starting, KeptValues DEF KeptTypes
  <2>2. CASE keeper' = Keeping /\ UNCHANGED <<catalog, known>>
    BY <1>1, <1>6, <2>2, KeptValues DEF KeptTypes, Resume, catalog, ghosts
  <2> QED
    BY <1>6, <2>1, <2>2 DEF Resume
<1>7. CASE AfterResuming
  <2>1. UNCHANGED <<seq, number, listed, person, file, reader, writer, ended, undeleted>>
        /\ keeper' = Keeping /\ reaching' \in BOOLEAN
    BY <1>7 DEF AfterResuming, ghosts
  <2>2. CASE Ends
    BY <1>1, <2>1, <2>2, Ending, KeptValues DEF KeptTypes
  <2>3. CASE UNCHANGED <<session, known, shown>>
    BY <1>1, <2>1, <2>3, KeptValues DEF KeptTypes
  <2> QED
    BY <1>7, <2>2, <2>3 DEF AfterResuming
<1> QED
  BY <1>2, <1>3, <1>4, <1>5, <1>6, <1>7 DEF KeeperStep

LEMMA CallsKeepTypes ==
  ASSUME KeptAssumption, KeptTypes, ReadVersion \/ ReadValues \/ WriterStep
  PROVE  KeptTypes'
<1>1. /\ session \in Sessions /\ session.seq \in Nat /\ seq \in Nat
      /\ reader \in Calls /\ writer \in Calls /\ file \in Files
      /\ shown \in [count : Nat, file : Files] /\ known \in [v : Versions, seq : Nat]
  BY DEF KeptTypes, Sessions
<1>2. CASE ReadVersion
  <2>1. reader' \in Calls /\ reader'.at \in {"idle", "values"}
    BY <1>1, <1>2, SourceValues DEF ReadVersion, Calls, KeptTypes
  <2>2. shown' \in [count : Nat, file : Files]
    BY <1>1, <1>2, KeptValues DEF ReadVersion
  <2> QED
    BY <1>2, <2>1, <2>2 DEF KeptTypes, ReadVersion, catalog, away, ghosts
<1>3. CASE ReadValues
  <2>1. known' \in [v : Versions, seq : Nat]
    BY <1>1, <1>3 DEF ReadValues, Made, Calls
  <2> QED
    BY <1>3, <2>1, KeptValues DEF KeptTypes, ReadValues, catalog, away, ghosts
<1>4. CASE Due
  <2>1. writer' \in Calls /\ writer'.seq = 0
    BY <1>1, <1>4, SourceValues DEF Due, Calls
  <2> QED
    BY <1>1, <1>4, <2>1 DEF KeptTypes, Due, catalog, away, ghosts
<1>5. CASE ReadParts
  <2>1. writer' \in Calls /\ writer'.seq <= seq
    <3>1. CASE writer' = [writer EXCEPT !.at = "turn", !.seq = session.seq]
      BY <1>1, <1>5, <3>1 DEF ReadParts, Calls, KeptTypes
    <3>2. CASE writer' = Idle
      BY <1>1, <1>5, <3>2, KeptValues DEF ReadParts
    <3> QED
      BY <1>5, <3>1, <3>2 DEF ReadParts
  <2> QED
    BY <1>5, <2>1 DEF KeptTypes, ReadParts, catalog, away, ghosts
<1>6. CASE CheckWorth
  <2>1. writer' \in Calls /\ writer'.seq <= seq
    <3>1. CASE writer' = [writer EXCEPT !.at = "write"]
      BY <1>1, <1>6, <3>1 DEF CheckWorth, Calls, KeptTypes
    <3>2. CASE writer' = Idle
      BY <1>1, <1>6, <3>2, KeptValues DEF CheckWorth
    <3> QED
      BY <1>6, <3>1, <3>2 DEF CheckWorth
  <2>2. UNCHANGED <<seq, catalog, away, file, shown, known, reader, ghosts>>
    BY <1>6 DEF CheckWorth
  <2> QED
    BY <2>1, <2>2 DEF KeptTypes, catalog, away, ghosts
<1>7. CASE Write
  <2>1. file' \in Files
    <3>1. writer.v[1] \in Nat /\ writer.seq \in Nat /\ TRUE \in BOOLEAN
      BY <1>1 DEF Calls, Versions
    <3>2. CASE file' = [there |-> TRUE, n |-> writer.v[1], seq |-> writer.seq]
      BY <3>1, <3>2, Zenon DEF Files
    <3> QED
      BY <1>1, <1>7, <3>2 DEF Write
  <2> QED
    BY <1>1, <1>7, <2>1, KeptValues DEF KeptTypes, Write, catalog, away, ghosts
<1> QED
  BY <1>2, <1>3, <1>4, <1>5, <1>6, <1>7 DEF WriterStep

LEMMA PersonKeepsTypes ==
  ASSUME KeptAssumption, KeptTypes, PersonStep \/ Restart
  PROVE  KeptTypes'
<1> DEFINE Persons == [at : {"idle", "tell", "leave", "forget", "delete"}, v : Versions, seq : Nat]
<1> DEFINE Keepers == [at : {"idle", "asked", "resumed"}, n : Nat, stale : BOOLEAN]
<1>1. /\ seq \in 0 .. MaxSeq /\ number \in 0 .. MaxSessions /\ ended \in 0 .. number
      /\ MaxSeq \in Nat /\ MaxSessions \in Nat
      /\ keeper \in Keepers /\ person \in Persons /\ file \in Files /\ writer \in Calls
      /\ shown \in [count : Nat, file : Files] /\ shown.count + 1 \in Nat
  BY DEF KeptTypes, KeptAssumption
<1>2. Stale \in Keepers
  BY <1>1 DEF Stale
<1>3. CASE SignIn
  <2>1. person' \in Persons
    BY <1>1, <1>3 DEF SignIn
  <2>2. session'.seq <= seq /\ number' > 0 /\ ended \in 0 .. number'
    BY <1>1, <1>3, Starting DEF SignIn
  <2> QED
    BY <1>1, <1>3, <2>1, <2>2, Starting, KeptValues DEF KeptTypes, SignIn, ghosts
<1>4. CASE ShowFile
  <2>1. shown' \in [count : Nat, file : Files]
    BY <1>1, <1>4 DEF ShowFile
  <2>2. /\ UNCHANGED <<seq, session, number, file, known, reader, writer, ended, undeleted>>
        /\ reaching' \in BOOLEAN /\ listed' \in {"in", "out"}
        /\ keeper' = Stale /\ person' = Idle
    BY <1>4 DEF ShowFile, catalog, ghosts
  <2> QED
    BY <1>1, <1>2, <2>1, <2>2, KeptValues DEF KeptTypes
<1>5. CASE SignOut \/ Forgotten
  <2>1. person' \in Persons /\ listed' \in {"in", "out"}
    BY <1>1, <1>5 DEF SignOut, Forgotten, KeptTypes
  <2> QED
    BY <1>1, <1>5, <2>1 DEF KeptTypes, SignOut, Forgotten, catalog, ghosts
<1>6. CASE Leave
  <2>1. person' \in Persons
    BY <1>1, <1>6 DEF Leave
  <2>2. /\ UNCHANGED <<seq, number, listed, file, reader, writer, undeleted>>
        /\ reaching' \in BOOLEAN /\ ended' \in 0 .. number /\ keeper' = Stale /\ Ends
    <3>1. reaching' \in BOOLEAN
      BY <1>6 DEF Leave
    <3> QED
      BY <1>1, <1>6, <3>1 DEF Leave
  <2> QED
    BY <1>1, <1>2, <2>1, <2>2, Ending, KeptValues DEF KeptTypes
<1>7. CASE Delete
  <2>1. undeleted' \in BOOLEAN
    <3>1. file.there \in BOOLEAN
      BY <1>1 DEF Files
    <3> QED
      BY <1>7, <3>1, Zenon DEF Delete
  <2>2. file' \in Files /\ person' = Idle
    BY <1>1, <1>7, KeptValues DEF Delete
  <2> QED
    BY <1>1, <1>7, <2>1, <2>2, KeptValues DEF KeptTypes, Delete, catalog
<1>8. CASE Restart
  <2>1. reaching' \in BOOLEAN /\ undeleted' \in BOOLEAN
    <3>1. (undeleted \/ person.at # "idle" \/ (listed = "out" /\ file.there)) \in BOOLEAN
      BY Zenon
    <3> QED
      BY <1>8, <3>1, Zenon DEF Restart
  <2>2. file' \in Files
    BY <1>1, <1>8 DEF Restart, Files
  <2>3. shown' \in [count : Nat, file : Files]
    BY <1>1, <1>8, <2>2, KeptValues DEF Restart
  <2>4. /\ UNCHANGED <<seq, listed>> /\ session' = NoSession /\ number' = 0 /\ ended' = 0
        /\ keeper' = Keeping /\ known' = Nothing
        /\ reader' = Idle /\ writer' = Idle /\ person' = Idle
    BY <1>8 DEF Restart
  <2> QED
    BY <1>1, <2>1, <2>2, <2>3, <2>4, KeptValues DEF KeptTypes
<1> QED
  BY <1>3, <1>4, <1>5, <1>6, <1>7, <1>8 DEF PersonStep

-----------------------------------------------------------------------------
(* What each part of the invariant comes to, action by action.             *)

LEMMA FilesKeepNoNewer ==
  ASSUME KeptTypes, FilesAreNoNewer, Next
  PROVE  FilesAreNoNewer'
<1>1. /\ seq \in Nat /\ file \in Files /\ shown \in [count : Nat, file : Files]
      /\ writer \in Calls /\ writer.seq <= seq
      /\ file.seq \in Nat /\ shown.file.seq \in Nat
  BY DEF KeptTypes, Files
<1>2. CASE UNCHANGED <<file, shown, seq>> \/ Publish
  BY <1>1, <1>2 DEF FilesAreNoNewer, Publish
<1>3. CASE UNCHANGED <<file, seq>> /\ (shown' = shown \/ Ends)
  BY <1>1, <1>3, Ending, KeptValues DEF FilesAreNoNewer
<1>4. CASE ReadVersion
  <2>1. UNCHANGED <<file, seq>> /\ (shown' = shown \/ shown' = [shown EXCEPT !.file = NoFile])
    BY <1>4 DEF ReadVersion
  <2> QED
    BY <1>1, <2>1, KeptValues DEF FilesAreNoNewer
<1>5. CASE Write
  <2>1. /\ UNCHANGED <<seq, shown>>
        /\ file' = file \/ (file'.there /\ file'.seq = writer.seq)
    BY <1>5 DEF Write
  <2> QED
    BY <1>1, <2>1 DEF FilesAreNoNewer
<1>6. CASE ShowFile
  <2>1. UNCHANGED <<file, seq>> /\ shown'.file \in {file, shown.file}
    BY <1>6 DEF ShowFile
  <2> QED
    BY <1>1, <2>1 DEF FilesAreNoNewer
<1>7. CASE Delete
  <2>1. UNCHANGED <<seq, shown>> /\ file' \in {file, NoFile}
    BY <1>7 DEF Delete
  <2> QED
    BY <1>1, <2>1, KeptValues DEF FilesAreNoNewer
<1>8. CASE Restart
  <2>1. seq' = seq /\ file'.there = file.there /\ file'.seq = file.seq
    BY <1>1, <1>8 DEF Restart, Files
  <2>2. shown'.file \in {file', NoFile}
    BY <1>8 DEF Restart, NoFileShown
  <2> QED
    BY <1>1, <2>1, <2>2, KeptValues DEF FilesAreNoNewer
<1> QED
  BY <1>2, <1>3, <1>4, <1>5, <1>6, <1>7, <1>8
     DEF Next, Follow, KeeperStep, CarryOn, NothingToCarryOn, Resume, AfterResuming, SignInAgain,
         ReadValues, WriterStep, Due, ReadParts, CheckWorth, PersonStep, SignIn, SignOut, Leave,
         Forgotten

LEMMA VersionsStayOfNow ==
  ASSUME KeptAssumption, KeptTypes, VersionsAreOfNow, Next
  PROVE  VersionsAreOfNow'
<1>1. /\ session \in Sessions /\ session.n \in Nat /\ session.seq \in Nat
      /\ shown \in [count : Nat, file : Files] /\ shown.count \in Nat /\ number \in Nat
      /\ reader.v \in Versions /\ known.v \in Versions /\ reader.seq \in Nat /\ known.seq \in Nat
      /\ reader.v[1] \in Nat /\ known.v[1] \in Nat /\ reader.v[2] \in Nat /\ known.v[2] \in Nat
      /\ session.n <= number
  BY DEF KeptTypes, Sessions, Calls, Versions, NoSession
<1>2. CASE UNCHANGED <<session, number, shown, known, reader>>
  BY <1>2 DEF VersionsAreOfNow
<1>3. CASE UNCHANGED <<number, reader>> /\ Ends
  BY <1>1, <1>3, Ending, KeptValues DEF VersionsAreOfNow
<1>4. CASE Follow
  <2>1. Follows /\ UNCHANGED <<number, shown, known, reader>> /\ session'.seq \in Nat
    BY <1>4, Following DEF Follow, Follows, Sessions
  <2>2. session'.n = session.n /\ session.seq <= session'.seq
    BY <2>1 DEF Follows
  <2>3. known.v[1] # 0 /\ known.v[1] = session.n => known.seq <= session'.seq
    BY <1>1, <2>1, <2>2 DEF VersionsAreOfNow
  <2>4. reader.v[1] # 0 /\ reader.v[1] = session.n => reader.v[2] <= session'.seq
    BY <1>1, <2>1, <2>2 DEF VersionsAreOfNow
  <2> QED
    BY <1>1, <2>1, <2>2, <2>3, <2>4 DEF VersionsAreOfNow
<1>5. CASE Starts /\ known' = Nothing /\ UNCHANGED <<shown, reader>>
  BY <1>1, <1>5, Starting, KeptValues DEF VersionsAreOfNow
<1>6. CASE ReadVersion
  <2>1. UNCHANGED <<session, number, known>>
    BY <1>6 DEF ReadVersion, catalog
  <2>2. /\ shown'.count = shown.count
        /\ shown'.file = shown.file \/ shown'.file = NoFile
    BY <1>1, <1>6 DEF ReadVersion
  <2>3. \/ reader' = reader
        \/ reader'.v = Source.v /\ reader'.seq = Source.seq /\ Source.v # NoVersion
    BY <1>6 DEF ReadVersion
  <2>4. CASE reader' = reader
    BY <1>1, <2>1, <2>2, <2>4, KeptValues DEF VersionsAreOfNow
  <2>5. CASE reader'.v = Version
    BY <1>1, <2>1, <2>2, <2>5, KeptValues, SourceValues DEF VersionsAreOfNow, KeptTypes
  <2>6. CASE reader'.v = FromFile.v /\ reader'.seq = FromFile.seq
    <3>1. /\ reader'.v[1] = 0 /\ reader'.v[2] = shown.count /\ reader'.seq = shown.file.seq
      BY <2>6 DEF FromFile
    <3> QED
      BY <1>1, <2>1, <2>2, <3>1, KeptValues DEF VersionsAreOfNow
  <2> QED
    BY <2>3, <2>4, <2>5, <2>6, SourceValues
<1>7. CASE ReadValues
  <2>1. UNCHANGED <<session, number, shown>> /\ reader' = Idle /\ known' = Made(reader)
    BY <1>7 DEF ReadValues, catalog
  <2>2. known'.v = reader.v
        /\ known'.seq = IF reader.v[1] = 0 THEN reader.seq ELSE session.seq
    BY <2>1 DEF Made
  <2> QED
    BY <1>1, <2>1, <2>2, KeptValues DEF VersionsAreOfNow
<1>8. CASE ShowFile
  <2>1. UNCHANGED <<session, number, known, reader>>
    BY <1>8 DEF ShowFile, catalog
  <2>2. shown' = shown \/ shown'.count = shown.count + 1
    BY <1>8 DEF ShowFile
  <2> QED
    BY <1>1, <2>1, <2>2 DEF VersionsAreOfNow
<1>9. CASE Restart
  <2>1. /\ session' = NoSession /\ number' = 0 /\ known' = Nothing /\ reader' = Idle
        /\ shown'.file.there => shown'.count = 1
    BY <1>9 DEF Restart, NoFileShown, NoFile
  <2>2. shown'.count \in Nat
    BY <1>9 DEF Restart, NoFileShown
  <2> QED
    BY <2>1, <2>2, KeptValues DEF VersionsAreOfNow
<1> QED
  BY <1>2, <1>3, <1>4, <1>5, <1>6, <1>7, <1>8, <1>9
     DEF Next, Publish, KeeperStep, CarryOn, NothingToCarryOn, Resume, AfterResuming, SignInAgain,
         WriterStep, Due, ReadParts, CheckWorth, Write, PersonStep, SignIn, SignOut, Leave,
         Forgotten, Delete, catalog

LEMMA SignedOutSessionsStayOver ==
  ASSUME KeptAssumption, KeptTypes, SignedOutSessionsAreOver, Next
  PROVE  SignedOutSessionsAreOver'
<1>1. /\ session \in Sessions /\ session.n \in Nat /\ number \in Nat /\ ended \in 0 .. number
      /\ session.n <= number /\ writer \in Calls /\ writer.v[1] \in Nat
      /\ person \in [at : {"idle", "tell", "leave", "forget", "delete"}, v : Versions, seq : Nat]
      /\ listed \in {"in", "out"}
  BY DEF KeptTypes, Sessions, Calls, Versions, NoSession
<1>2. CASE session'.n = session.n /\ UNCHANGED <<number, listed, person, writer, ended>>
  BY <1>2 DEF SignedOutSessionsAreOver
<1>3. CASE Ends /\ UNCHANGED <<number, listed, person, writer, ended>>
  BY <1>1, <1>3, Ending, KeptValues DEF SignedOutSessionsAreOver
<1>4. CASE Starts /\ UNCHANGED <<listed, writer, ended>> /\ person'.at \in {person.at, "tell"}
           /\ (person' = person \/ person.at = "idle")
  BY <1>1, <1>4, Starting DEF SignedOutSessionsAreOver
<1>5. CASE WriterStep
  <2>1. UNCHANGED <<session, number, listed, person, ended>>
    BY <1>5 DEF WriterStep, Due, ReadParts, CheckWorth, Write, catalog, away, ghosts
  <2>2. CASE Due
    <3>1. writer'.at = "values" /\ writer'.v[1] = session.n /\ session.n = number /\ number > 0
      BY <2>2, SourceValues DEF Due, InStep, KeptTypes, NoSession
    <3> QED
      BY <1>1, <2>1, <3>1 DEF SignedOutSessionsAreOver
  <2>3. CASE ReadParts
    <3>1. writer' = Idle \/ (writer'.at = "turn" /\ writer'.v = writer.v)
      BY <1>1, <2>3 DEF ReadParts, Calls
    <3> QED
      BY <1>1, <2>1, <2>3, <3>1, KeptValues DEF SignedOutSessionsAreOver, ReadParts
  <2>4. CASE CheckWorth
    <3>1. \/ writer' = Idle
          \/ (writer'.at = "write" /\ writer'.v = writer.v /\ session.n = writer.v[1])
      BY <1>1, <2>4 DEF CheckWorth, StillWorthWriting, Calls
    <3> QED
      BY <1>1, <2>1, <2>4, <3>1, KeptValues DEF SignedOutSessionsAreOver, CheckWorth
  <2>5. CASE Write
    BY <1>1, <2>1, <2>5, KeptValues DEF SignedOutSessionsAreOver, Write
  <2> QED
    BY <1>5, <2>2, <2>3, <2>4, <2>5 DEF WriterStep
<1>6. CASE ShowFile
  BY <1>1, <1>6, KeptValues DEF ShowFile, SignedOutSessionsAreOver, catalog, ghosts
<1>7. CASE SignOut
  BY <1>1, <1>7 DEF SignOut, SignedOutSessionsAreOver, catalog, ghosts
<1>8. CASE Leave
  <2>1. person'.at = "forget" /\ listed' = listed /\ writer' = writer /\ number' = number
    BY <1>1, <1>8 DEF Leave
  <2>2. session'.n = 0
    BY <1>8, Ending, KeptValues DEF Leave
  <2> QED
    BY <1>1, <1>8, <2>1, <2>2 DEF SignedOutSessionsAreOver, Leave
<1>9. CASE Forgotten
  BY <1>1, <1>9 DEF Forgotten, SignedOutSessionsAreOver, catalog, ghosts
<1>10. CASE Delete
  BY <1>1, <1>10, KeptValues DEF Delete, SignedOutSessionsAreOver, catalog
<1>11. CASE Restart
  BY <1>11, KeptValues DEF Restart, SignedOutSessionsAreOver
<1>12. CASE Follow
  BY <1>2, <1>12, Following DEF Follow, Follows, away, ghosts
<1> QED
  BY <1>2, <1>3, <1>4, <1>5, <1>6, <1>7, <1>8, <1>9, <1>10, <1>11, <1>12, <1>1
     DEF Next, Publish, KeeperStep, CarryOn, NothingToCarryOn, Resume, AfterResuming, SignInAgain,
         ReadVersion, ReadValues, PersonStep, SignIn, catalog, away, ghosts

LEMMA FileStaysDeletedByStep ==
  ASSUME KeptTypes, SignedOutSessionsAreOver, FileStaysDeleted, Next
  PROVE  FileStaysDeleted'
<1>1. /\ person \in [at : {"idle", "tell", "leave", "forget", "delete"}, v : Versions, seq : Nat]
      /\ listed \in {"in", "out"} /\ file \in Files
  BY DEF KeptTypes
<1>2. CASE UNCHANGED <<listed, person, file, undeleted, ended>>
  BY <1>2 DEF FileStaysDeleted
<1>3. CASE Write
  <2>1. file' = file \/ (writer.at = "write" /\ file'.n = writer.v[1])
    BY <1>3 DEF Write
  <2> QED
    BY <1>3, <2>1 DEF Write, away, ghosts, FileStaysDeleted, SignedOutSessionsAreOver
<1>4. CASE PersonStep
  <2>1. CASE person'.at # "idle" \/ listed' = "in"
    BY <2>1 DEF FileStaysDeleted
  <2>2. CASE Delete
    BY <2>2, KeptValues DEF Delete, FileStaysDeleted
  <2> QED
    BY <1>1, <1>4, <2>1, <2>2 DEF PersonStep, SignIn, ShowFile, SignOut, Leave, Forgotten
<1>5. CASE Restart
  <2>1. file'.there = file.there
    BY <1>1, <1>5 DEF Restart, Files
  <2> QED
    BY <1>5, <2>1 DEF Restart, FileStaysDeleted
<1> QED
  BY <1>2, <1>3, <1>4, <1>5
     DEF Next, Publish, Follow, KeeperStep, CarryOn, NothingToCarryOn, Resume, AfterResuming,
         SignInAgain, ReadVersion, ReadValues, WriterStep, Due, ReadParts, CheckWorth,
         catalog, away, ghosts

LEMMA WriterKeepsTheFile ==
  ASSUME KeptAssumption, KeptTypes, FilesAreNoNewer, SignedOutSessionsAreOver, WriterHasTheFile,
         Next
  PROVE  WriterHasTheFile'
<1>1. /\ session \in Sessions /\ session.n \in Nat /\ number \in Nat /\ seq \in Nat
      /\ session.seq \in Nat /\ session.catchUps \in Nat /\ session.seq <= seq
      /\ session.n <= number /\ writer \in Calls /\ writer.v[1] \in Nat
      /\ file \in Files /\ file.seq \in Nat /\ file.seq <= seq
      /\ writer.seq \in Nat /\ writer.seq <= seq
      /\ (writer.at # "idle" => writer.v[1] \in 1 .. number)
  BY DEF KeptTypes, Sessions, Calls, Versions, NoSession, Files, FilesAreNoNewer,
         SignedOutSessionsAreOver
<1>2. CASE UNCHANGED <<session, writer, file>>
  BY <1>2 DEF WriterHasTheFile
<1>3. CASE Ends /\ UNCHANGED <<writer, file>>
  BY <1>1, <1>3, Ending, KeptValues DEF WriterHasTheFile
<1>4. CASE Starts /\ UNCHANGED <<writer, file>>
  BY <1>1, <1>4, Starting DEF WriterHasTheFile
<1>5. CASE Follow
  <2>1. /\ UNCHANGED <<writer, file>> /\ session'.n = session.n
        /\ session'.seq \in Nat /\ session'.catchUps \in Nat
        /\ session.seq <= session'.seq /\ session'.seq <= seq
        /\ session'.catchUps \in {session.catchUps, session.catchUps + 1}
        /\ (session'.catchUps = session.catchUps \/ session'.seq = seq)
    BY <1>5, Following DEF Follow, Follows, Sessions
  <2> QED
    BY <1>1, <2>1 DEF WriterHasTheFile
<1>6. CASE Due
  <2>1. /\ UNCHANGED <<session, file>> /\ session.catchUps > 0
        /\ writer'.at = "values" /\ writer'.seq = 0
    BY <1>6 DEF Due, InStep, catalog
  <2> QED
    BY <1>1, <2>1 DEF WriterHasTheFile
<1>7. CASE ReadParts
  <2>1. /\ UNCHANGED <<session, file>> /\ writer.at = "values"
        /\ \/ writer' = Idle
           \/ writer'.at = "turn" /\ writer'.v = writer.v /\ writer'.seq = session.seq
    BY <1>1, <1>7 DEF ReadParts, Calls, catalog
  <2> QED
    BY <1>1, <2>1, KeptValues DEF WriterHasTheFile
<1>8. CASE CheckWorth
  <2>1. /\ UNCHANGED <<session, file>> /\ writer.at = "turn"
        /\ \/ writer' = Idle
           \/ /\ writer'.at = "write" /\ writer'.v = writer.v /\ writer'.seq = writer.seq
              /\ session.n = writer.v[1]
    BY <1>1, <1>8 DEF CheckWorth, StillWorthWriting, Calls, catalog
  <2> QED
    BY <1>1, <2>1, KeptValues DEF WriterHasTheFile
<1>9. CASE Write
  <2>1. /\ session' = session /\ writer.at = "write" /\ writer' = Idle
        /\ file' = file \/ (file'.there /\ file'.seq = writer.seq)
    BY <1>9 DEF Write, catalog
  <2> QED
    BY <1>1, <2>1, KeptValues DEF WriterHasTheFile
<1>10. CASE Delete
  <2>1. UNCHANGED <<session, writer>> /\ (file' = file \/ file' = NoFile)
    BY <1>10 DEF Delete, catalog
  <2> QED
    BY <1>1, <2>1, KeptValues DEF WriterHasTheFile
<1>11. CASE Restart
  BY <1>11, KeptValues DEF Restart, WriterHasTheFile
<1> QED
  BY <1>2, <1>3, <1>4, <1>5, <1>6, <1>7, <1>8, <1>9, <1>10, <1>11
     DEF Next, Publish, KeeperStep, CarryOn, NothingToCarryOn, Resume, AfterResuming, SignInAgain,
         ReadVersion, ReadValues, WriterStep, PersonStep, SignIn, ShowFile, SignOut, Leave,
         Forgotten, catalog, away, ghosts

LEMMA KeptStep == KeptAssumption /\ KeptInv /\ [Next]_vars => KeptInv'
<1> SUFFICES ASSUME KeptAssumption, KeptInv, [Next]_vars PROVE KeptInv'
  OBVIOUS
<1>1. CASE Next
  BY <1>1, SessionKeepsTypes, CallsKeepTypes, PersonKeepsTypes, FilesKeepNoNewer,
     VersionsStayOfNow, SignedOutSessionsStayOver, FileStaysDeletedByStep, WriterKeepsTheFile
     DEF KeptInv, Next
<1>2. CASE UNCHANGED vars
  BY <1>2 DEF vars, catalog, away, ghosts, KeptInv, KeptTypes, FilesAreNoNewer, VersionsAreOfNow,
              SignedOutSessionsAreOver, WriterHasTheFile, FileStaysDeleted
<1> QED
  BY <1>1, <1>2

-----------------------------------------------------------------------------
(* What it says.                                                           *)

LEMMA KeptSays == KeptInv => TypeOK /\ KnownPartsAreCurrent /\ FileStaysDeleted
<1> SUFFICES ASSUME KeptInv PROVE TypeOK /\ KnownPartsAreCurrent
  BY DEF KeptInv
<1>1. KeptTypes /\ FilesAreNoNewer /\ VersionsAreOfNow
  BY DEF KeptInv
<1>2. TypeOK
  <2>1. \A f \in {file, shown.file} :
          f \in Files /\ f.seq <= seq /\ (f.there \/ f.seq = 0)
    BY <1>1 DEF KeptTypes, FilesAreNoNewer
  <2>2. \A f \in {file, shown.file} : f.there \/ f = [NoFile EXCEPT !.n = f.n]
    <3>1. ASSUME NEW f \in Files, ~ f.there, f.seq = 0
          PROVE  f = [NoFile EXCEPT !.n = f.n]
      <4>1. f = [there |-> f.there, n |-> f.n, seq |-> f.seq] /\ f.there \in BOOLEAN
        <5>1. f.there \in BOOLEAN
          BY DEF Files
        <5>2. f = [there |-> f.there, n |-> f.n, seq |-> f.seq]
          BY DEF Files
        <5> QED
          BY <5>1, <5>2
      <4>2. CASE f.there = TRUE
        BY <3>1, <4>2, Zenon
      <4>3. CASE f.there = FALSE
        <5> DEFINE g == [NoFile EXCEPT !.n = f.n]
        <5>1. g \in Files /\ g.n = f.n /\ g.seq = 0
          BY DEF NoFile, Files
        <5>2. g.there = FALSE
          BY DEF NoFile
        <5>3. g = [there |-> g.there, n |-> g.n, seq |-> g.seq]
          BY <5>1 DEF Files
        <5> HIDE DEF g
        <5>4. f = g
          BY <3>1, <4>1, <4>3, <5>1, <5>2, <5>3, Zenon
        <5> QED
          BY <5>4 DEF g
      <4> QED
        BY <4>1, <4>2, <4>3, Zenon
    <3> QED
      BY <2>1, <3>1
  <2>3. session.n \in {0, number} /\ session.seq <= seq
        /\ session.live \in {"none", "connecting", "live", "reconnecting", "again"}
    BY <1>1 DEF KeptTypes, Sessions, NoSession
  <2>4. {reaching, undeleted} \subseteq BOOLEAN
    BY <1>1 DEF KeptTypes
  <2> QED
    BY <1>1, <2>1, <2>2, <2>3, <2>4 DEF KeptTypes, TypeOK, Calls
<1>3. KnownPartsAreCurrent
  <2> SUFFICES ASSUME known.v # NoVersion, known.v = Source.v PROVE known.seq = Source.seq
    BY DEF KnownPartsAreCurrent
  <2>1. CASE Source.v = Version /\ Source.seq = session.seq /\ session # NoSession
    <3>1. /\ known.v[1] = session.n /\ known.v[2] = session.seq /\ session.n # 0
          /\ session.seq \in Nat /\ known.seq \in Nat
      BY <1>1, <2>1, SourceValues DEF KeptTypes, Sessions
    <3> QED
      BY <1>1, <2>1, <3>1 DEF VersionsAreOfNow
  <2>2. CASE Source = FromFile /\ shown.file.there
    <3>1. known.v[1] = 0 /\ known.v[2] = shown.count /\ Source.seq = shown.file.seq
      BY <2>2 DEF FromFile
    <3> QED
      BY <1>1, <2>2, <3>1 DEF VersionsAreOfNow
  <2> QED
    BY <1>1, <2>1, <2>2, SourceValues
<1> QED
  BY <1>2, <1>3

LEMMA KeptWrites == KeptInv /\ [Next]_vars => FileGoesForward
<1> SUFFICES ASSUME KeptInv, [Next]_vars PROVE FileGoesForward
  OBVIOUS
<1>1. file \in Files /\ file.seq \in Nat /\ WriterHasTheFile
  BY DEF KeptInv, KeptTypes, Files
<1>2. CASE Write
  <2>1. file' = file \/ (writer.at = "write" /\ file'.seq = writer.seq)
    BY <1>2 DEF Write
  <2> QED
    BY <1>1, <2>1 DEF FileGoesForward, WriterHasTheFile
<1>3. CASE Delete
  <2>1. file' = file \/ ~ file'.there
    BY <1>3 DEF Delete, NoFile
  <2> QED
    BY <1>1, <2>1 DEF FileGoesForward
<1>4. CASE Restart
  <2>1. file'.seq = file.seq
    BY <1>1, <1>4 DEF Restart, Files
  <2> QED
    BY <1>1, <2>1 DEF FileGoesForward
<1>5. CASE file' = file
  BY <1>1, <1>5 DEF FileGoesForward
<1> QED
  BY <1>2, <1>3, <1>4, <1>5
     DEF Next, Publish, Follow, KeeperStep, CarryOn, NothingToCarryOn, Resume, AfterResuming,
         SignInAgain, ReadVersion, ReadValues, WriterStep, Due, ReadParts, CheckWorth,
         PersonStep, SignIn, ShowFile, SignOut, Leave, Forgotten, away, vars
=============================================================================
