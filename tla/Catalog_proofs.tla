--------------------------- MODULE Catalog_proofs ---------------------------
(***************************************************************************)
(* What the team server keeps true of its Catalog, for any parts, CAD      *)
(* items, requests and correlation IDs: each request is carried out once,  *)
(* each owner's records run 1, 2, 3, ..., a part stands on its newest      *)
(* details and its newest revision not archived, the routes never write    *)
(* what the write guards refuse, the Catalog implements the contract the   *)
(* desktops rely on (ChangeLog), no edit is lost, and CAD is bound by its  *)
(* content: archived CAD is never saved again, bindings move with files.   *)
(***************************************************************************)
EXTENDS Catalog, TLAPS

-----------------------------------------------------------------------------
(* Answers.  Only the ledger and the Changes matter.                       *)

\* Every action on the server saves nothing but the team code, or keeps the
\* answer "changes nothing", or publishes one Change under a correlation ID
\* with no kept answer, or is the setup.
LEMMA WhatAStepSaves ==
  ASSUME Next
  PROVE  \/ UNCHANGED <<changes, ledger>>
         \/ \E actor \in Actors, corr \in Correlations, request \in Request :
              /\ Prior(corr) = {}
              /\ \/ AnswerNoop(actor, corr, request)
                 \/ \E w : Publish(actor, corr, request, w)
         \/ SetUpStartingCategories
<1>1. CASE SetUpStartingCategories
  BY <1>1
<1>2. ASSUME NEW actor \in Actors, NEW corr \in Correlations, Requested(actor, corr)
      PROVE  \/ UNCHANGED <<changes, ledger>>
             \/ \E request \in Request :
                  /\ Prior(corr) = {}
                  /\ \/ AnswerNoop(actor, corr, request)
                     \/ \E w : Publish(actor, corr, request, w)
  <2>1. CASE \E request \in EditRequest : PublishEdit(actor, corr, request)
    BY <2>1 DEF PublishEdit, Request
  <2>2. CASE \E request \in CreateRequest : PublishCreate(actor, corr, request)
    BY <2>2 DEF PublishCreate, Request
  <2>3. CASE \E request \in ArchiveRequest : PublishArchive(actor, corr, request)
    BY <2>3 DEF PublishArchive, Request
  <2>4. CASE \E request \in CategoryRequest : PublishCategory(actor, corr, request)
    BY <2>4 DEF PublishCategory, Request
  <2>5. CASE \E code \in Codes : SetTeamCode(corr, code)
    BY <2>5 DEF SetTeamCode
  <2> QED
    BY <1>2, <2>1, <2>2, <2>3, <2>4, <2>5 DEF Requested
<1> QED
  BY <1>1, <1>2 DEF Next

\* A Change and an answer are what their collections hold.
AnswersTyped ==
  /\ changes \in Seq(ChangeRecord)
  /\ ledger \subseteq LedgerRow

\* CarriedOutOnce needs no strengthening beyond the types.
AnswersInv == AnswersTyped /\ CarriedOutOnce

LEMMA InitAnswers == Init => AnswersInv
BY DEF Init, AnswersInv, AnswersTyped, CarriedOutOnce

\* A request asks for one of the five kinds of Change.
LEMMA RequestKind ==
  ASSUME NEW request \in Request
  PROVE  request.kind \in Kind
BY DEF Request, EditRequest, CreateRequest, ArchiveRequest, CategoryRequest, Kind

\* Publishing under a correlation ID that has no kept answer and no Change.
LEMMA PublishKeepsAnswers ==
  ASSUME AnswersInv,
         NEW actor \in Actors, NEW corr \in Correlations, NEW request \in Request, NEW w,
         Prior(corr) = {},
         Publish(actor, corr, request, w)
  PROVE  AnswersInv'
<1> DEFINE change == [correlation |-> corr, actor |-> actor, kind |-> request.kind]
           row == [correlation |-> corr, actor |-> actor, request |-> request,
                   seq |-> Len(changes) + 1]
<1>1. /\ changes' = Append(changes, change)
      /\ ledger' = ledger \cup {row}
      /\ \A i \in 1..Len(changes) : changes[i].correlation # corr
  BY DEF Publish, Commit, IdsFree, Row, NewSeq
<1>2. \A a \in ledger : a.correlation # corr
  BY DEF Prior
<1>3. /\ Len(changes) \in Nat
      /\ \A a \in ledger : a.seq \in Nat
      /\ changes \in Seq(ChangeRecord)
  BY DEF AnswersInv, AnswersTyped, LedgerRow
<1>4. change \in ChangeRecord /\ row \in LedgerRow
  BY RequestKind, <1>3 DEF ChangeRecord, LedgerRow
<1>5. /\ Len(changes') = Len(changes) + 1
      /\ \A i \in 1..Len(changes) : changes'[i] = changes[i]
      /\ changes'[Len(changes) + 1] = change
      /\ changes' \in Seq(ChangeRecord)
  BY <1>1, <1>3, <1>4
<1>6. AnswersTyped'
  BY <1>1, <1>4, <1>5 DEF AnswersInv, AnswersTyped
<1>7. \A a, b \in ledger' : a.correlation = b.correlation => a = b
  BY <1>1, <1>2 DEF AnswersInv, CarriedOutOnce
<1>8. ASSUME NEW a \in ledger', a.seq > 0
      PROVE  /\ a.seq <= Len(changes')
             /\ changes'[a.seq] = [correlation |-> a.correlation, actor |-> a.actor,
                                   kind |-> a.request.kind]
  <2>1. CASE a = row
    BY <1>3, <1>5, <2>1
  <2>2. CASE a \in ledger
    BY <1>3, <1>5, <1>8, <2>2 DEF AnswersInv, CarriedOutOnce
  <2> QED
    BY <1>1, <2>1, <2>2
<1>9. ASSUME NEW n \in 1..Len(changes'), changes'[n].correlation # SetupCorrelation
      PROVE  \E a \in ledger' : a.seq = n
  <2>1. CASE n = Len(changes) + 1
    <3>1. row \in ledger' /\ row.seq = n
      BY <1>1, <2>1
    <3> QED
      BY <3>1
  <2>2. CASE n \in 1..Len(changes)
    BY <1>1, <1>5, <1>9, <2>2 DEF AnswersInv, CarriedOutOnce
  <2> QED
    BY <1>3, <1>5, <2>1, <2>2
<1>10. ASSUME NEW k \in 1..Len(changes'), NEW n \in 1..Len(changes'),
              changes'[k].correlation = changes'[n].correlation
       PROVE  k = n
  <2>1. ASSUME NEW i \in 1..Len(changes'), changes'[i].correlation = corr
        PROVE  i = Len(changes) + 1
    BY <1>1, <1>3, <1>5, <2>1
  <2>2. changes'[Len(changes) + 1].correlation = corr
    BY <1>5
  <2>3. CASE changes'[k].correlation = corr
    BY <1>10, <2>1, <2>3
  <2>4. CASE changes'[k].correlation # corr
    <3>1. k \in 1..Len(changes) /\ n \in 1..Len(changes)
      BY <1>3, <1>5, <1>10, <2>2, <2>4
    <3> QED
      BY <1>5, <1>10, <3>1 DEF AnswersInv, CarriedOutOnce
  <2> QED
    BY <2>3, <2>4
<1> QED
  BY <1>6, <1>7, <1>8, <1>9, <1>10 DEF AnswersInv, CarriedOutOnce

LEMMA NoopKeepsAnswers ==
  ASSUME AnswersInv,
         NEW actor \in Actors, NEW corr \in Correlations, NEW request \in Request,
         Prior(corr) = {},
         AnswerNoop(actor, corr, request)
  PROVE  AnswersInv'
<1> DEFINE row == [correlation |-> corr, actor |-> actor, request |-> request, seq |-> 0]
<1>1. /\ ledger' = ledger \cup {row}
      /\ changes' = changes
      /\ row \in LedgerRow
  BY DEF AnswerNoop, Row, LedgerRow
<1>2. \A a \in ledger : a.correlation # corr
  BY DEF Prior
<1>3. AnswersTyped'
  BY <1>1 DEF AnswersInv, AnswersTyped
<1>4. CarriedOutOnce'
  BY <1>1, <1>2 DEF AnswersInv, CarriedOutOnce
<1> QED
  BY <1>3, <1>4 DEF AnswersInv

LEMMA SetupKeepsAnswers ==
  ASSUME AnswersInv, SetUpStartingCategories
  PROVE  AnswersInv'
<1> DEFINE change == [correlation |-> SetupCorrelation, actor |-> SetupActor,
                      kind |-> "category"]
<1>1. changes = <<>> /\ changes' = Append(changes, change) /\ ledger' = ledger
  BY DEF SetUpStartingCategories, Commit
<1>2. change \in ChangeRecord
  BY DEF ChangeRecord, Kind
<1>3. changes' = <<change>> /\ Len(changes') = 1 /\ changes'[1] = change
  BY <1>1, <1>2
<1>4. AnswersTyped'
  BY <1>1, <1>2, <1>3 DEF AnswersInv, AnswersTyped
<1>5. ASSUME NEW a \in ledger, a.seq > 0
      PROVE  FALSE
  <2>1. Len(changes) = 0 /\ a.seq \in Nat
    BY <1>1 DEF AnswersInv, AnswersTyped, LedgerRow
  <2>2. a.seq <= Len(changes)
    BY <1>5 DEF AnswersInv, CarriedOutOnce
  <2> QED
    BY <1>5, <2>1, <2>2
<1>6. \A n \in 1..Len(changes') : n = 1
  BY <1>3
<1>7. CarriedOutOnce'
  BY <1>1, <1>3, <1>5, <1>6 DEF AnswersInv, CarriedOutOnce
<1> QED
  BY <1>4, <1>7 DEF AnswersInv

LEMMA NextAnswers == AnswersInv /\ [Next]_vars => AnswersInv'
<1> SUFFICES ASSUME AnswersInv, [Next]_vars PROVE AnswersInv'
  OBVIOUS
<1>1. CASE UNCHANGED <<changes, ledger>>
  BY <1>1 DEF AnswersInv, AnswersTyped, CarriedOutOnce
<1>2. CASE Next
  BY <1>1, <1>2, WhatAStepSaves, PublishKeepsAnswers, NoopKeepsAnswers, SetupKeepsAnswers
<1>3. CASE UNCHANGED vars
  BY <1>1, <1>3 DEF vars
<1> QED
  BY <1>2, <1>3

\* However often and by whomever requests are sent, under whatever correlation
\* IDs, each is carried out at most once and its answer names its Change.
THEOREM RequestsCarriedOutOnce == Spec => []CarriedOutOnce
<1>1. AnswersInv => CarriedOutOnce
  BY DEF AnswersInv
<1> QED
  BY <1>1, InitAnswers, NextAnswers, PTL DEF Spec

-----------------------------------------------------------------------------
(* Numbered records.                                                       *)

HasNewest(S) == S # {} => Newest(S) # {}

\* The number of the newest record is one of the set's, and the largest.
LEMMA NewestNumberIsLargest ==
  ASSUME NEW S, \A r \in S : r.number \in Nat \ {0}
  PROVE  /\ NewestNumber(S) \in Nat
         /\ HasNewest(S) => \A r \in S : r.number <= NewestNumber(S)
         /\ HasNewest(S) /\ S # {} => NewestNumber(S) # 0
<1>1. CASE Newest(S) = {}
  BY <1>1 DEF NewestNumber, HasNewest
<1>2. CASE Newest(S) # {}
  <2>1. PICK r \in Newest(S) : NewestNumber(S) = r.number
    BY <1>2 DEF NewestNumber
  <2> QED
    BY <2>1 DEF Newest
<1> QED
  BY <1>1, <1>2

\* A record that follows the newest of its owner keeps them in order, and is
\* the newest now.
LEMMA FollowingKeepsOrder ==
  ASSUME NEW S, NEW n \in Nat, NEW r,
         \A s \in S : s.number \in Nat \ {0} /\ s.change \in Nat /\ s.change <= n,
         HasNewest(S), InOrder(S), FollowsNewest(r, S), r.change = n + 1
  PROVE  InOrder(S \cup {r}) /\ Newest(S \cup {r}) = {r} /\ HasNewest(S \cup {r})
<1> DEFINE last == NewestNumber(S)
<1>1. /\ last \in Nat /\ r.number = last + 1 /\ r.predecessor = last
      /\ \A s \in S : s.number <= last
  BY NewestNumberIsLargest DEF FollowsNewest
<1>2. last # 0 => \E s \in S : s.number = last
  <2>1. ASSUME last # 0 PROVE Newest(S) # {} /\ last = (CHOOSE x \in Newest(S) : TRUE).number
    BY <2>1 DEF NewestNumber
  <2> QED
    BY <2>1 DEF Newest
<1> HIDE DEF last
<1>3. \A s \in S : s.number < r.number /\ s.change < r.change
  BY <1>1
<1>4. Newest(S \cup {r}) = {r}
  BY <1>1, <1>3 DEF Newest
<1>5. InOrder(S \cup {r})
  <2> SUFFICES ASSUME NEW x \in S \cup {r}
               PROVE  /\ \A s \in S \cup {r} : s.number = x.number => s = x
                      /\ x.predecessor + 1 = x.number
                      /\ x.predecessor # 0 =>
                           \E s \in S \cup {r} : s.number = x.predecessor /\ s.change < x.change
    BY DEF InOrder
  <2>1. CASE x = r
    BY <1>1, <1>2, <1>3, <2>1
  <2>2. CASE x \in S
    BY <1>1, <1>3, <2>2 DEF InOrder
  <2> QED
    BY <2>1, <2>2
<1> QED
  BY <1>4, <1>5 DEF HasNewest

-----------------------------------------------------------------------------
(* The inductive invariant.                                                *)

\* Everything saved names a Change there is.
SavedByChanges ==
  /\ \A d \in details : d.change <= Len(changes)
  /\ \A r \in revisions : r.change <= Len(changes)
  /\ \A c \in cadRevisions : c.change <= Len(changes)
  /\ \A e \in archiveEntries : e.seq <= Len(changes)

\* Whoever has records has a newest one.
NewestExist ==
  /\ \A p \in Parts : HasNewest(DetailsOf(p)) /\ HasNewest(RevisionsOf(p))
  /\ \A i \in Items : HasNewest(CadRevisionsOf(i))

RecordsInv == TypeOK /\ SavedByChanges /\ NewestExist /\ NumberedInOrder /\ CurrentIsNewest

-----------------------------------------------------------------------------
(* What the routes write.                                                  *)

WritesTyped(w) ==
  /\ w.details \subseteq DetailsRecord
  /\ \A r \in w.revisions :
       DOMAIN r.binds \subseteq Items /\ r \in RevisionRecord(DOMAIN r.binds)
  /\ w.cad \subseteq CadRevisionRecord
  /\ w.entries \subseteq EntryRecord
  /\ w.matches \subseteq MatchRecord
  /\ w.categories \subseteq Categories

\* New records name the Change saved with them, one for each owner.
OneForEach(w) ==
  /\ \A d \in w.details : d.change = NewSeq
  /\ \A r \in w.revisions : r.change = NewSeq
  /\ \A c \in w.cad : c.change = NewSeq
  /\ \A e \in w.entries : e.seq = NewSeq
  /\ \A a, b \in w.details : a.part = b.part => a = b
  /\ \A a, b \in w.revisions : a.part = b.part => a = b
  /\ \A a, b \in w.cad : a.item = b.item => a = b
  /\ \A a, b \in w.entries : a = b

\* A part enters the Catalog with details and a revision, and nothing else is
\* saved with an archive entry.
EntersWhole(w) ==
  /\ \A d \in w.details : InCatalog(d.part) \/ \E r \in w.revisions : r.part = d.part
  /\ \A r \in w.revisions : InCatalog(r.part) \/ \E d \in w.details : d.part = r.part
  /\ w.entries = {} \/ (w.details = {} /\ w.revisions = {})

WellFormed(w) == WritesTyped(w) /\ OneForEach(w) /\ EntersWhole(w)
-----------------------------------------------------------------------------
(* A transaction keeps the invariant.                                      *)

LEMMA OwnedAreTyped ==
  ASSUME TypeOK, SavedByChanges
  PROVE  /\ Len(changes) \in Nat
         /\ \A p \in Parts : \A d \in DetailsOf(p) :
              d.number \in Nat \ {0} /\ d.change \in Nat /\ d.change <= Len(changes)
         /\ \A p \in Parts : \A r \in RevisionsOf(p) :
              r.number \in Nat \ {0} /\ r.change \in Nat /\ r.change <= Len(changes)
         /\ \A i \in Items : \A c \in CadRevisionsOf(i) :
              c.number \in Nat \ {0} /\ c.change \in Nat /\ c.change <= Len(changes)
<1>1. Len(changes) \in Nat
  BY DEF TypeOK
<1>2. \A d \in details : d.number \in Nat \ {0} /\ d.change \in Nat
  BY DEF TypeOK, DetailsRecord, Positive
<1>3. \A r \in revisions : r.number \in Nat \ {0} /\ r.change \in Nat
  BY DEF TypeOK, RevisionRecord, Positive
<1>4. \A c \in cadRevisions : c.number \in Nat \ {0} /\ c.change \in Nat
  BY DEF TypeOK, CadRevisionRecord, Positive
<1> QED
  BY <1>1, <1>2, <1>3, <1>4 DEF SavedByChanges, DetailsOf, RevisionsOf, CadRevisionsOf

\* Where a part stands after a transaction, for each of its two pointers.
LEMMA MovedIsTyped ==
  ASSUME NEW old \in Nat, NEW moves \in SUBSET Nat
  PROVE  /\ Moved(old, moves) \in Nat
         /\ moves = {} => Moved(old, moves) = old
         /\ \A n : moves = {n} => Moved(old, moves) = n
BY DEF Moved

LEMMA CommitKeepsTypes ==
  ASSUME RecordsInv, NEW w, WellFormed(w),
         NEW actor \in Actors \cup {SetupActor},
         NEW corr \in Correlations \cup {SetupCorrelation},
         NEW kind \in Kind, NEW rows \in SUBSET LedgerRow,
         Commit(actor, corr, kind, w, rows)
  PROVE  TypeOK'
<1>0. TypeOK /\ WritesTyped(w)
  BY DEF RecordsInv, WellFormed
<1>1. changes' \in Seq(ChangeRecord)
  <2>1. [correlation |-> corr, actor |-> actor, kind |-> kind] \in ChangeRecord
    BY DEF ChangeRecord
  <2>2. changes \in Seq(ChangeRecord)
    BY <1>0 DEF TypeOK
  <2>3. changes' = Append(changes, [correlation |-> corr, actor |-> actor, kind |-> kind])
    BY DEF Commit
  <2> QED
    BY <2>1, <2>2, <2>3
<1>2. current' \in [Parts -> [details : Nat, revision : Nat]]
  <2>1. ASSUME NEW p \in Parts
        PROVE  /\ Moved(current[p].details,
                        {d.number : d \in {d \in w.details : d.part = p}}) \in Nat
               /\ Moved(current[p].revision,
                        {r.number : r \in {r \in w.revisions : r.part = p}}
                        \cup {e.after : e \in {e \in w.entries : e.part = p}}) \in Nat
    <3>1. {d.number : d \in {d \in w.details : d.part = p}} \in SUBSET Nat
      BY <1>0 DEF WritesTyped, DetailsRecord, Positive
    <3>2. {r.number : r \in {r \in w.revisions : r.part = p}} \in SUBSET Nat
      BY <1>0 DEF WritesTyped, RevisionRecord, Positive
    <3>3. {e.after : e \in {e \in w.entries : e.part = p}} \in SUBSET Nat
      BY <1>0 DEF WritesTyped, EntryRecord, Positive
    <3>4. current[p].details \in Nat /\ current[p].revision \in Nat
      BY <1>0 DEF TypeOK
    <3> QED
      BY <3>1, <3>2, <3>3, <3>4, MovedIsTyped
  <2>2. current' = CurrentAfter(w)
    BY DEF Commit
  <2> QED
    BY <2>1, <2>2 DEF CurrentAfter
<1>3. /\ details' \subseteq DetailsRecord
      /\ cadRevisions' \subseteq CadRevisionRecord
      /\ archiveEntries' \subseteq EntryRecord
      /\ matches' \subseteq MatchRecord
      /\ categories' \subseteq Categories
      /\ ledger' \subseteq LedgerRow
      /\ audits' \subseteq Correlations \cup {SetupCorrelation}
      /\ teamCode' \in Codes \cup {NoCode}
  <2>1. /\ details' = details \cup w.details
        /\ cadRevisions' = cadRevisions \cup w.cad
        /\ archiveEntries' = archiveEntries \cup w.entries
        /\ matches' = matches \cup w.matches
        /\ categories' = categories \cup w.categories
        /\ ledger' = ledger \cup rows
        /\ audits' = audits \cup {corr}
        /\ teamCode' = teamCode
    BY DEF Commit
  <2> QED
    BY <1>0, <2>1 DEF TypeOK, WritesTyped
<1>4. \A r \in revisions' :
        DOMAIN r.binds \subseteq Items /\ r \in RevisionRecord(DOMAIN r.binds)
  <2>1. revisions' = revisions \cup w.revisions
    BY DEF Commit
  <2>2. \A r \in revisions :
          DOMAIN r.binds \subseteq Items /\ r \in RevisionRecord(DOMAIN r.binds)
    BY <1>0 DEF TypeOK
  <2>3. \A r \in w.revisions :
          DOMAIN r.binds \subseteq Items /\ r \in RevisionRecord(DOMAIN r.binds)
    BY <1>0 DEF WritesTyped
  <2> QED
    BY <2>1, <2>2, <2>3
<1> QED
  BY <1>1, <1>2, <1>3, <1>4 DEF TypeOK

\* What one transaction adds to a set of numbered records.
LEMMA AddedKeepsOrder ==
  ASSUME NEW S, NEW new, NEW n \in Nat,
         \A s \in S : s.number \in Nat \ {0} /\ s.change \in Nat /\ s.change <= n,
         HasNewest(S), InOrder(S),
         \A a, b \in new : a = b,
         \A r \in new : FollowsNewest(r, S) /\ r.change = n + 1
  PROVE  /\ InOrder(S \cup new) /\ HasNewest(S \cup new)
         /\ \A r \in new : Newest(S \cup new) = {r}
<1>1. CASE new = {}
  <2>1. S \cup new = S
    BY <1>1
  <2> QED
    BY <1>1, <2>1
<1>2. CASE new # {}
  <2>1. PICK r : r \in new
    BY <1>2
  <2>2. new = {r}
    BY <2>1
  <2> QED
    BY <2>2, FollowingKeepsOrder
<1> QED
  BY <1>1, <1>2

NewDetailsOf(w, p) == {d \in w.details : d.part = p}
NewRevisionsOf(w, p) == {r \in w.revisions : r.part = p}
NewCadOf(w, i) == {c \in w.cad : c.item = i}

LEMMA CommitKeepsOrder ==
  ASSUME RecordsInv, NEW w, WellFormed(w), NEW actor, NEW corr, NEW kind, NEW rows,
         Commit(actor, corr, kind, w, rows)
  PROVE  /\ SavedByChanges' /\ NewestExist' /\ NumberedInOrder'
         /\ \A p \in Parts : \A d \in NewDetailsOf(w, p) : Newest(DetailsOf(p)') = {d}
<1>1. /\ TypeOK /\ SavedByChanges /\ NewestExist /\ NumberedInOrder
      /\ OneForEach(w) /\ GuardsAllow(w)
  BY DEF RecordsInv, WellFormed, Commit
<1>2. /\ details' = details \cup w.details
      /\ revisions' = revisions \cup w.revisions
      /\ cadRevisions' = cadRevisions \cup w.cad
      /\ archiveEntries' = archiveEntries \cup w.entries
  BY DEF Commit
<1>3. Len(changes) \in Nat /\ Len(changes') = Len(changes) + 1
  <2>1. changes \in Seq(ChangeRecord)
    BY <1>1 DEF TypeOK
  <2> QED
    BY <2>1 DEF Commit
<1>4. SavedByChanges'
  <2>1. /\ \A d \in details : d.change \in Nat
        /\ \A r \in revisions : r.change \in Nat
        /\ \A c \in cadRevisions : c.change \in Nat
        /\ \A e \in archiveEntries : e.seq \in Nat
    <3>1. \A r \in revisions : r.change \in Nat
      BY <1>1 DEF TypeOK, RevisionRecord, Positive
    <3> QED
      BY <1>1, <3>1 DEF TypeOK, DetailsRecord, CadRevisionRecord, EntryRecord, Positive
  <2> QED
    BY <1>1, <1>2, <1>3, <2>1 DEF SavedByChanges, OneForEach, NewSeq
<1>5. ASSUME NEW p \in Parts
      PROVE  /\ InOrder(DetailsOf(p)') /\ HasNewest(DetailsOf(p)')
             /\ \A d \in NewDetailsOf(w, p) : Newest(DetailsOf(p)') = {d}
  <2>1. DetailsOf(p)' = DetailsOf(p) \cup NewDetailsOf(w, p)
    BY <1>2 DEF DetailsOf, NewDetailsOf
  <2>2. InOrder(DetailsOf(p)) /\ HasNewest(DetailsOf(p))
    BY <1>1 DEF NumberedInOrder, NewestExist, DetailsOf
  <2>3. /\ \A a, b \in NewDetailsOf(w, p) : a = b
        /\ \A d \in NewDetailsOf(w, p) :
             FollowsNewest(d, DetailsOf(p)) /\ d.change = Len(changes) + 1
    BY <1>1 DEF NewDetailsOf, OneForEach, NewSeq, GuardsAllow, DetailsAllowed
  <2>4. \A s \in DetailsOf(p) :
          s.number \in Nat \ {0} /\ s.change \in Nat /\ s.change <= Len(changes)
    BY <1>1, OwnedAreTyped
  <2>5. /\ InOrder(DetailsOf(p) \cup NewDetailsOf(w, p))
        /\ HasNewest(DetailsOf(p) \cup NewDetailsOf(w, p))
        /\ \A d \in NewDetailsOf(w, p) : Newest(DetailsOf(p) \cup NewDetailsOf(w, p)) = {d}
    BY <1>3, <2>2, <2>3, <2>4, AddedKeepsOrder
  <2> QED
    BY <2>1, <2>5
<1>6. ASSUME NEW p \in Parts
      PROVE  InOrder(RevisionsOf(p)') /\ HasNewest(RevisionsOf(p)')
  <2>1. RevisionsOf(p)' = RevisionsOf(p) \cup NewRevisionsOf(w, p)
    BY <1>2 DEF RevisionsOf, NewRevisionsOf
  <2>2. InOrder(RevisionsOf(p)) /\ HasNewest(RevisionsOf(p))
    BY <1>1 DEF NumberedInOrder, NewestExist, RevisionsOf
  <2>3. /\ \A a, b \in NewRevisionsOf(w, p) : a = b
        /\ \A r \in NewRevisionsOf(w, p) :
             FollowsNewest(r, RevisionsOf(p)) /\ r.change = Len(changes) + 1
    BY <1>1 DEF NewRevisionsOf, OneForEach, NewSeq, GuardsAllow, RevisionAllowed
  <2>4. \A s \in RevisionsOf(p) :
          s.number \in Nat \ {0} /\ s.change \in Nat /\ s.change <= Len(changes)
    BY <1>1, OwnedAreTyped
  <2>5. /\ InOrder(RevisionsOf(p) \cup NewRevisionsOf(w, p))
        /\ HasNewest(RevisionsOf(p) \cup NewRevisionsOf(w, p))
    BY <1>3, <2>2, <2>3, <2>4, AddedKeepsOrder
  <2> QED
    BY <2>1, <2>5
<1>7. ASSUME NEW i \in Items
      PROVE  InOrder(CadRevisionsOf(i)') /\ HasNewest(CadRevisionsOf(i)')
  <2>1. CadRevisionsOf(i)' = CadRevisionsOf(i) \cup NewCadOf(w, i)
    BY <1>2 DEF CadRevisionsOf, NewCadOf
  <2>2. InOrder(CadRevisionsOf(i)) /\ HasNewest(CadRevisionsOf(i))
    BY <1>1 DEF NumberedInOrder, NewestExist, CadRevisionsOf
  <2>3. /\ \A a, b \in NewCadOf(w, i) : a = b
        /\ \A c \in NewCadOf(w, i) :
             FollowsNewest(c, CadRevisionsOf(i)) /\ c.change = Len(changes) + 1
    BY <1>1 DEF NewCadOf, OneForEach, NewSeq, GuardsAllow, CadRevisionAllowed
  <2>4. \A s \in CadRevisionsOf(i) :
          s.number \in Nat \ {0} /\ s.change \in Nat /\ s.change <= Len(changes)
    BY <1>1, OwnedAreTyped
  <2>5. /\ InOrder(CadRevisionsOf(i) \cup NewCadOf(w, i))
        /\ HasNewest(CadRevisionsOf(i) \cup NewCadOf(w, i))
    BY <1>3, <2>2, <2>3, <2>4, AddedKeepsOrder
  <2> QED
    BY <2>1, <2>5
<1>8. NewestExist' /\ NumberedInOrder'
  BY <1>5, <1>6, <1>7
  DEF NewestExist, NumberedInOrder, DetailsOf, RevisionsOf, CadRevisionsOf
<1> QED
  BY <1>4, <1>5, <1>8

\* A part with records of either kind is in the Catalog.
LEMMA RecordsAreInCatalog ==
  ASSUME CurrentIsNewest, NEW p \in Parts
  PROVE  DetailsOf(p) # {} \/ RevisionsOf(p) # {} => InCatalog(p)
BY DEF CurrentIsNewest

\* Archive entries of other parts do not matter to a part.
LEMMA ArchivedIsByPart ==
  ASSUME NEW p, NEW new, \A e \in new : e.part # p
  PROVE  ArchivedIn(archiveEntries \cup new, p) = Archived(p)
BY DEF ArchivedIn, Archived

LEMMA CommitKeepsCurrent ==
  ASSUME RecordsInv, NEW w, WellFormed(w), NEW actor, NEW corr, NEW kind, NEW rows,
         Commit(actor, corr, kind, w, rows)
  PROVE  CurrentIsNewest'
<1> SUFFICES ASSUME NEW p \in Parts
             PROVE  (IF InCatalog(p)
                     THEN /\ {d.number : d \in Newest(DetailsOf(p))} = {current[p].details}
                          /\ {r.number : r \in NewestNotArchived(p, Archived(p))}
                               = {current[p].revision}
                     ELSE DetailsOf(p) = {} /\ RevisionsOf(p) = {} /\ current[p].revision = 0)'
  BY DEF CurrentIsNewest
<1> DEFINE newDetails == NewDetailsOf(w, p)
           newRevisions == NewRevisionsOf(w, p)
           newEntries == {e \in w.entries : e.part = p}
           detailsMoves == {d.number : d \in newDetails}
           revisionMoves == {r.number : r \in newRevisions} \cup {e.after : e \in newEntries}
<1>1. /\ CurrentIsNewest /\ OneForEach(w) /\ EntersWhole(w) /\ GuardsAllow(w)
      /\ current[p].details \in Nat /\ current[p].revision \in Nat
  BY DEF RecordsInv, WellFormed, Commit, TypeOK
<1>2. /\ DetailsOf(p)' = DetailsOf(p) \cup newDetails
      /\ RevisionsOf(p)' = RevisionsOf(p) \cup newRevisions
      /\ Archived(p)' = ArchivedIn(archiveEntries \cup w.entries, p)
  BY DEF Commit, DetailsOf, RevisionsOf, Archived, NewDetailsOf, NewRevisionsOf
<1>3. /\ current'[p].details = Moved(current[p].details, detailsMoves)
      /\ current'[p].revision = Moved(current[p].revision, revisionMoves)
  BY DEF Commit, CurrentAfter, NewDetailsOf, NewRevisionsOf
<1>4. \A d \in newDetails : Newest(DetailsOf(p)') = {d}
  BY CommitKeepsOrder
<1>5. \A d \in newDetails : d.number \in Nat \ {0}
  BY DEF WellFormed, WritesTyped, NewDetailsOf, DetailsRecord, Positive
<1> DEFINE detailsRight == {d.number : d \in Newest(DetailsOf(p))} = {current[p].details}
           revisionRight ==
             {r.number : r \in NewestNotArchived(p, Archived(p))} = {current[p].revision}
<1>6. newDetails = {} => UNCHANGED <<DetailsOf(p), current[p].details>>
  BY <1>2, <1>3 DEF Moved
<1>7. ASSUME newDetails # {}
      PROVE  detailsRight' /\ InCatalog(p)'
  <2>1. PICK d : d \in newDetails
    BY <1>7
  <2>2. newDetails = {d}
    BY <1>1, <2>1 DEF OneForEach, NewDetailsOf
  <2>3. detailsMoves = {d.number}
    BY <2>2
  <2>4. current'[p].details = d.number
    BY <1>3, <2>3 DEF Moved
  <2> QED
    BY <1>4, <1>5, <2>1, <2>4 DEF InCatalog
<1>8. newEntries = {} => Archived(p)' = Archived(p)
  <2>1. ASSUME newEntries = {}
        PROVE  ArchivedIn(archiveEntries \cup w.entries, p) = Archived(p)
    <3>1. \A e \in w.entries : e.part # p
      BY <2>1
    <3> QED
      BY <3>1, ArchivedIsByPart
  <2> QED
    BY <1>2, <2>1
<1>9. newRevisions = {} /\ newEntries = {} =>
        UNCHANGED <<RevisionsOf(p), Archived(p), current[p].revision>>
  BY <1>2, <1>3, <1>8 DEF Moved
<1>10. ASSUME newRevisions # {}
       PROVE  revisionRight' /\ newEntries = {}
  <2>1. PICK r : r \in newRevisions
    BY <1>10
  <2>2. newRevisions = {r} /\ newEntries = {} /\ r \in w.revisions /\ r.part = p
    BY <1>1, <2>1 DEF OneForEach, NewRevisionsOf, EntersWhole
  <2>3. revisionMoves = {r.number}
    BY <2>2
  <2>4. current'[p].revision = r.number
    BY <1>3, <2>3 DEF Moved
  <2>5. Newest({s \in RevisionsOf(p) \cup {r} : s.number \notin Archived(p)}) = {r}
    BY <1>1, <2>2 DEF GuardsAllow, RevisionAllowed
  <2>6. NewestNotArchived(p, Archived(p))' = {r}
    BY <1>2, <1>8, <2>2, <2>5 DEF NewestNotArchived
  <2> QED
    BY <2>2, <2>4, <2>6
<1>11. ASSUME newEntries # {}
       PROVE  revisionRight' /\ InCatalog(p) /\ newDetails = {}
  <2>1. PICK e : e \in newEntries
    BY <1>11
  <2>2. /\ w.entries = {e} /\ newEntries = {e} /\ e.part = p
        /\ newRevisions = {} /\ newDetails = {}
    BY <1>1, <2>1 DEF OneForEach, NewRevisionsOf, NewDetailsOf, EntersWhole
  <2>3. revisionMoves = {e.after}
    BY <2>2
  <2>4. current'[p].revision = e.after
    BY <1>3, <2>3 DEF Moved
  <2>5. EntryAllowed(e)
    BY <1>1, <2>2 DEF GuardsAllow
  <2>6. InCatalog(p)
    BY <1>1, <2>2, <2>5, RecordsAreInCatalog DEF EntryAllowed
  <2>7. NewestNotArchived(p, Archived(p))'
          = NewestNotArchived(p, ArchivedIn(archiveEntries \cup {e}, p))
    BY <1>2, <2>2 DEF NewestNotArchived
  <2> QED
    BY <2>2, <2>4, <2>5, <2>6, <2>7 DEF EntryAllowed
<1>12. CASE InCatalog(p)
  <2>1. detailsRight' /\ InCatalog(p)'
    BY <1>1, <1>6, <1>7, <1>12 DEF CurrentIsNewest, InCatalog
  <2>2. revisionRight'
    BY <1>1, <1>9, <1>10, <1>11, <1>12 DEF CurrentIsNewest, NewestNotArchived
  <2> QED
    BY <2>1, <2>2
<1>13. CASE ~InCatalog(p)
  <2>1. newEntries = {}
    BY <1>11, <1>13
  <2>2. newDetails = {} <=> newRevisions = {}
    BY <1>1, <1>13 DEF EntersWhole, NewDetailsOf, NewRevisionsOf
  <2>3. CASE newDetails = {}
    BY <1>1, <1>6, <1>9, <1>13, <2>1, <2>2, <2>3 DEF CurrentIsNewest, InCatalog
  <2>4. CASE newDetails # {}
    BY <1>7, <1>10, <2>2, <2>4
  <2> QED
    BY <2>3, <2>4
<1> QED
  BY <1>12, <1>13

-----------------------------------------------------------------------------
(* What a request may hold, and the records a route makes of it.           *)

LEMMA OptionalIsOne ==
  ASSUME NEW S, NEW x \in Optional(S)
  PROVE  /\ \A y \in x : y \in S
         /\ \A y, z \in x : y = z
BY DEF Optional

LEMMA NewSeqIsNext ==
  ASSUME TypeOK
  PROVE  NewSeq \in Positive
<1>1. Len(changes) \in Nat
  BY DEF TypeOK
<1> QED
  BY <1>1 DEF NewSeq, Positive

LEMMA UploadsAreFiles ==
  ASSUME NEW cad \in CadFields
  PROVE  /\ cad.names \subseteq Items
         /\ \A i \in DOMAIN cad.uploads : i \in cad.names /\ cad.uploads[i] \in Contents
BY DEF CadFields, PartialFunctions

\* A CAD item's newest number counts its records, if any.
LEMMA CadNewestNumber ==
  ASSUME RecordsInv, NEW i \in Items
  PROVE  /\ NewestNumber(CadRevisionsOf(i)) \in Nat
         /\ CadRevisionsOf(i) # {} => NewestNumber(CadRevisionsOf(i)) # 0
<1>1. \A r \in CadRevisionsOf(i) : r.number \in Nat \ {0}
  BY OwnedAreTyped DEF RecordsInv
<1>2. HasNewest(CadRevisionsOf(i))
  BY DEF RecordsInv, NewestExist
<1> QED
  BY <1>1, <1>2, NewestNumberIsLargest

LEMMA NewCadIsWellFormed ==
  ASSUME RecordsInv, NEW cad \in CadFields
  PROVE  /\ NewCadRevisions(cad) \subseteq CadRevisionRecord
         /\ \A c \in NewCadRevisions(cad) : c.change = NewSeq
         /\ \A a, b \in NewCadRevisions(cad) : a.item = b.item => a = b
<1>1. \A i \in DOMAIN cad.uploads :
        /\ i \in Items /\ cad.uploads[i] \in Contents
        /\ NewestNumber(CadRevisionsOf(i)) \in Nat
  BY UploadsAreFiles, CadNewestNumber
<1>2. NewSeq \in Positive
  BY NewSeqIsNext DEF RecordsInv
<1> QED
  BY <1>1, <1>2 DEF NewCadRevisions, CadRevisionRecord, Positive

\* What a part binds are numbers of CAD item revisions.
LEMMA BindsAreTyped ==
  ASSUME RecordsInv, NEW cad \in CadFields, NEW old, CadKnown(cad, old),
         \A i \in DOMAIN old : old[i] \in Positive
  PROVE  /\ Binds(cad, old) \in [cad.names -> Positive]
         /\ DOMAIN Binds(cad, old) = cad.names
<1>1. ASSUME NEW i \in cad.names
      PROVE  Binding(cad, old, i) \in Positive
  <2>1. i \in Items
    BY UploadsAreFiles
  <2>2. /\ NewestNumber(CadRevisionsOf(i)) \in Nat
        /\ CadRevisionsOf(i) # {} => NewestNumber(CadRevisionsOf(i)) # 0
    BY <2>1, CadNewestNumber
  <2>3. CASE MakesNew(cad, i)
    BY <2>2, <2>3 DEF Binding, Positive
  <2>4. CASE ~MakesNew(cad, i) /\ i \in DOMAIN old
               /\ (Sent(cad, i) => CadContent(i, old[i]) = cad.uploads[i])
    BY <2>4 DEF Binding
  <2>5. CASE ~MakesNew(cad, i) /\ ~(i \in DOMAIN old
               /\ (Sent(cad, i) => CadContent(i, old[i]) = cad.uploads[i]))
    <3>1. CadRevisionsOf(i) # {}
      BY <2>5 DEF MakesNew, CadKnown, Newest
    <3>2. Binding(cad, old, i) = NewestNumber(CadRevisionsOf(i))
      BY <2>5 DEF Binding
    <3> QED
      BY <2>2, <3>1, <3>2 DEF Positive
  <2> QED
    BY <2>3, <2>4, <2>5
<1> QED
  BY <1>1 DEF Binds

\* The current revision of a part in the Catalog is one of its revisions.
LEMMA CurrentRevisionIsSaved ==
  ASSUME RecordsInv, NEW p \in Parts, InCatalog(p)
  PROVE  /\ CurrentRevision(p) \in revisions
         /\ \A i \in DOMAIN CurrentRevision(p).binds : CurrentRevision(p).binds[i] \in Positive
<1>1. {r.number : r \in NewestNotArchived(p, Archived(p))} = {current[p].revision}
  BY DEF RecordsInv, CurrentIsNewest
<1>2. \E r \in RevisionsOf(p) : r.number = current[p].revision
  BY <1>1 DEF NewestNotArchived, Newest
<1>3. CurrentRevision(p) \in revisions
  BY <1>2 DEF CurrentRevision, RevisionsOf
<1>4. CurrentRevision(p) \in RevisionRecord(DOMAIN CurrentRevision(p).binds)
  BY <1>3 DEF RecordsInv, TypeOK
<1>5. CurrentRevision(p).binds \in [DOMAIN CurrentRevision(p).binds -> Positive]
  BY <1>4 DEF RevisionRecord
<1> QED
  BY <1>3, <1>5

LEMMA NewestRevisionNumber ==
  ASSUME RecordsInv, NEW p \in Parts
  PROVE  NewestNumber(RevisionsOf(p)) \in Nat
<1>1. \A r \in RevisionsOf(p) : r.number \in Nat \ {0}
  BY OwnedAreTyped DEF RecordsInv
<1> QED
  BY <1>1, NewestNumberIsLargest

LEMMA EditIsWellFormed ==
  ASSUME RecordsInv, NEW request \in EditRequest, EditAccepted(request)
  PROVE  WellFormed(EditWrites(request))
<1> DEFINE p == request.part
           w == EditWrites(request)
<1>1. /\ p \in Parts /\ InCatalog(p)
      /\ request.details \in Optional(DetailsSection)
      /\ request.cad \in Optional(CadSection)
  BY DEF EditRequest, EditAccepted
<1>2. /\ current[p].details \in Nat /\ current[p].revision \in Nat
      /\ NewSeq \in Positive
  BY <1>1, NewSeqIsNext DEF RecordsInv, TypeOK
<1>3. /\ w.details = EditedDetails(request)
      /\ w.revisions = EditedRevision(request)
      /\ w.cad = UNION {NewCadRevisions(s.cad) : s \in ChangedCad(request)}
      /\ w.matches = EditedMatches(request)
      /\ w.entries = {} /\ w.categories = {}
  BY DEF EditWrites, NoWrites
<1>4. /\ \A s \in request.details : s \in DetailsSection
      /\ \A s, t \in request.details : s = t
      /\ \A s \in request.cad : s \in CadSection
      /\ \A s, t \in request.cad : s = t
  BY <1>1, OptionalIsOne
<1>5. /\ w.details \subseteq DetailsRecord
      /\ \A d \in w.details : d.change = NewSeq /\ d.part = p
      /\ \A a, b \in w.details : a = b
  BY <1>1, <1>2, <1>3, <1>4 DEF EditedDetails, DetailsSection, DetailsRecord, Positive
<1>6. ASSUME NEW s \in ChangedCad(request)
      PROVE  /\ s \in request.cad /\ s.cad \in CadFields
             /\ LET binds == Binds(s.cad, CurrentRevision(p).binds)
                IN /\ DOMAIN binds \subseteq Items
                   /\ binds \in [DOMAIN binds -> Positive]
  <2>1. s \in request.cad /\ s.cad \in CadFields
    BY <1>4 DEF ChangedCad, CadSection
  <2>2. CadKnown(s.cad, CurrentRevision(p).binds)
    BY <2>1 DEF EditAccepted
  <2> QED
    BY <1>1, <2>1, <2>2, UploadsAreFiles, CurrentRevisionIsSaved, BindsAreTyped
<1>7. /\ \A r \in w.revisions :
           DOMAIN r.binds \subseteq Items /\ r \in RevisionRecord(DOMAIN r.binds)
      /\ \A r \in w.revisions : r.change = NewSeq /\ r.part = p
      /\ \A a, b \in w.revisions : a = b
  <2>1. NewestNumber(RevisionsOf(p)) \in Nat
    BY <1>1, NewestRevisionNumber
  <2>2. ASSUME NEW r \in w.revisions
        PROVE  /\ DOMAIN r.binds \subseteq Items /\ r \in RevisionRecord(DOMAIN r.binds)
               /\ r.change = NewSeq /\ r.part = p
    <3>1. PICK s \in ChangedCad(request) :
            r = [part |-> p, number |-> NewestNumber(RevisionsOf(p)) + 1,
                 predecessor |-> NewestNumber(RevisionsOf(p)), from |-> current[p].revision,
                 binds |-> Binds(s.cad, CurrentRevision(p).binds), change |-> NewSeq]
      BY <1>3 DEF EditedRevision
    <3> QED
      BY <1>1, <1>2, <1>6, <2>1, <3>1 DEF RevisionRecord, Positive
  <2>3. \A a, b \in w.revisions : a = b
    BY <1>3, <1>4, <1>6 DEF EditedRevision
  <2> QED
    BY <2>2, <2>3
<1>8. /\ w.cad \subseteq CadRevisionRecord
      /\ \A c \in w.cad : c.change = NewSeq
      /\ \A a, b \in w.cad : a.item = b.item => a = b
  BY <1>3, <1>4, <1>6, NewCadIsWellFormed
<1>9. w.matches \subseteq MatchRecord
  BY <1>1, <1>2, <1>3, <1>5 DEF EditedMatches, MatchRecord, DetailsRecord, DetailsDoc
<1>10. WritesTyped(w)
  BY <1>3, <1>5, <1>7, <1>8, <1>9 DEF WritesTyped
<1>11. OneForEach(w)
  BY <1>3, <1>5, <1>7, <1>8 DEF OneForEach
<1>12. EntersWhole(w)
  BY <1>1, <1>3, <1>5, <1>7 DEF EntersWhole
<1> QED
  BY <1>10, <1>11, <1>12 DEF WellFormed

LEMMA CreateIsWellFormed ==
  ASSUME RecordsInv, NEW request \in CreateRequest, CreateAccepted(request)
  PROVE  WellFormed(CreateWrites(request))
<1> DEFINE p == request.part
           w == CreateWrites(request)
           binds == Binds(request.newCad, NoBinds)
<1>1. p \in Parts /\ request.doc \in DetailsDoc /\ request.newCad \in CadFields
  BY DEF CreateRequest
<1>2. NewSeq \in Positive
  BY NewSeqIsNext DEF RecordsInv
<1>3. /\ w.details = {[part |-> p, number |-> 1, predecessor |-> 0, doc |-> request.doc,
                       change |-> NewSeq]}
      /\ w.revisions = {[part |-> p, number |-> 1, predecessor |-> 0, from |-> 0,
                         binds |-> binds, change |-> NewSeq]}
      /\ w.cad = NewCadRevisions(request.newCad)
      /\ w.matches = {[part |-> p, category |-> request.doc.category, change |-> NewSeq]}
      /\ w.entries = {} /\ w.categories = {}
  BY DEF CreateWrites, NoWrites
<1>4. binds \in [DOMAIN binds -> Positive] /\ DOMAIN binds \subseteq Items
  <2>1. CadKnown(request.newCad, NoBinds)
    BY DEF CreateAccepted
  <2>2. \A i \in DOMAIN NoBinds : NoBinds[i] \in Positive
    BY DEF NoBinds
  <2> QED
    BY <1>1, <2>1, <2>2, UploadsAreFiles, BindsAreTyped
<1>5. WritesTyped(w)
  <2>1. w.details \subseteq DetailsRecord /\ w.matches \subseteq MatchRecord
    BY <1>1, <1>2, <1>3 DEF DetailsRecord, MatchRecord, DetailsDoc, Positive
  <2>2. \A r \in w.revisions :
          DOMAIN r.binds \subseteq Items /\ r \in RevisionRecord(DOMAIN r.binds)
    BY <1>1, <1>2, <1>3, <1>4 DEF RevisionRecord, Positive
  <2>3. w.cad \subseteq CadRevisionRecord
    BY <1>1, <1>3, NewCadIsWellFormed
  <2> QED
    BY <1>3, <2>1, <2>2, <2>3 DEF WritesTyped
<1>6. OneForEach(w)
  BY <1>1, <1>3, NewCadIsWellFormed DEF OneForEach
<1>7. EntersWhole(w)
  BY <1>3 DEF EntersWhole
<1> QED
  BY <1>5, <1>6, <1>7 DEF WellFormed

LEMMA ArchiveIsWellFormed ==
  ASSUME RecordsInv, NEW request \in ArchiveRequest, ArchiveAccepted(request)
  PROVE  WellFormed(ArchiveWrites(request))
<1> DEFINE p == request.part
           w == ArchiveWrites(request)
           archived == IF Archives(request) THEN Archived(p) \cup {request.revision}
                       ELSE Archived(p) \ {request.revision}
<1>1. /\ p \in Parts /\ request.revision \in Positive /\ Archives(request) \in BOOLEAN
  BY CatalogAssumption DEF ArchiveRequest, Archives, Positive
<1>2. NewSeq \in Positive
  BY NewSeqIsNext DEF RecordsInv
<1>3. /\ w.entries = {[part |-> p, number |-> request.revision, archived |-> Archives(request),
                       seq |-> NewSeq, after |-> r.number] : r \in NewestNotArchived(p, archived)}
      /\ w.details = {} /\ w.revisions = {} /\ w.cad = {} /\ w.matches = {} /\ w.categories = {}
  BY DEF ArchiveWrites, NoWrites
<1> HIDE DEF archived
<1>4. \A r \in NewestNotArchived(p, archived) : r.number \in Positive
  BY <1>1, OwnedAreTyped DEF NewestNotArchived, Newest, RecordsInv, Positive
<1>5. \A r, s \in NewestNotArchived(p, archived) : r.number = s.number
  BY <1>4 DEF NewestNotArchived, Newest, Positive
<1>6. WritesTyped(w)
  BY <1>1, <1>2, <1>3, <1>4 DEF WritesTyped, EntryRecord
<1>7. OneForEach(w)
  BY <1>3, <1>5 DEF OneForEach
<1> QED
  BY <1>3, <1>6, <1>7 DEF WellFormed, EntersWhole

LEMMA CategoryIsWellFormed ==
  ASSUME NEW codes \in SUBSET Categories
  PROVE  WellFormed([NoWrites EXCEPT !.categories = codes])
BY DEF NoWrites, WellFormed, WritesTyped, OneForEach, EntersWhole

-----------------------------------------------------------------------------
(* The theorems.                                                           *)

\* A transaction of well-formed records keeps the invariant.
LEMMA CommitKeepsInv ==
  ASSUME RecordsInv, NEW w, WellFormed(w),
         NEW actor \in Actors \cup {SetupActor},
         NEW corr \in Correlations \cup {SetupCorrelation},
         NEW kind \in Kind, NEW rows \in SUBSET LedgerRow,
         Commit(actor, corr, kind, w, rows)
  PROVE  RecordsInv'
BY CommitKeepsTypes, CommitKeepsOrder, CommitKeepsCurrent DEF RecordsInv

LEMMA PublishKeepsInv ==
  ASSUME RecordsInv, NEW w, WellFormed(w),
         NEW actor \in Actors, NEW corr \in Correlations, NEW request \in Request,
         Publish(actor, corr, request, w)
  PROVE  RecordsInv'
<1>1. request.kind \in Kind
  BY DEF Request, EditRequest, CreateRequest, ArchiveRequest, CategoryRequest, Kind
<1>2. Row(actor, corr, request, NewSeq) \in LedgerRow
  BY NewSeqIsNext DEF Row, LedgerRow, RecordsInv, Positive
<1>3. Commit(actor, corr, request.kind, w, {Row(actor, corr, request, NewSeq)})
  BY DEF Publish
<1> QED
  BY <1>1, <1>2, <1>3, CommitKeepsInv

\* Saving no record but an answer or an audit entry changes nothing here.
LEMMA NothingSavedKeepsInv ==
  ASSUME RecordsInv, TypeOK',
         UNCHANGED <<changes, details, revisions, cadRevisions, archiveEntries, current>>
  PROVE  RecordsInv'
BY DEF RecordsInv, SavedByChanges, NewestExist, NumberedInOrder, CurrentIsNewest,
       DetailsOf, RevisionsOf, CadRevisionsOf, InCatalog, NewestNotArchived, Archived

LEMMA NoopKeepsInv ==
  ASSUME RecordsInv, NEW actor \in Actors, NEW corr \in Correlations, NEW request \in Request,
         AnswerNoop(actor, corr, request)
  PROVE  RecordsInv'
<1>1. Row(actor, corr, request, 0) \in LedgerRow
  BY DEF Row, LedgerRow
<1>2. TypeOK'
  BY <1>1 DEF RecordsInv, TypeOK, AnswerNoop
<1> QED
  BY <1>2, NothingSavedKeepsInv DEF AnswerNoop

LEMMA RequestedKeepsInv ==
  ASSUME RecordsInv, NEW actor \in Actors, NEW corr \in Correlations, Requested(actor, corr)
  PROVE  RecordsInv'
<1>1. ASSUME NEW request \in EditRequest, PublishEdit(actor, corr, request)
      PROVE  RecordsInv'
  BY <1>1, NoopKeepsInv, EditIsWellFormed, PublishKeepsInv DEF PublishEdit, Request
<1>2. ASSUME NEW request \in CreateRequest, PublishCreate(actor, corr, request)
      PROVE  RecordsInv'
  BY <1>2, CreateIsWellFormed, PublishKeepsInv DEF PublishCreate, Request
<1>3. ASSUME NEW request \in ArchiveRequest, PublishArchive(actor, corr, request)
      PROVE  RecordsInv'
  BY <1>3, NoopKeepsInv, ArchiveIsWellFormed, PublishKeepsInv DEF PublishArchive, Request
<1>4. ASSUME NEW request \in CategoryRequest, PublishCategory(actor, corr, request)
      PROVE  RecordsInv'
  <2>1. {request.category} \in SUBSET Categories
    BY DEF CategoryRequest
  <2> QED
    BY <1>4, <2>1, CategoryIsWellFormed, PublishKeepsInv DEF PublishCategory, Request
<1>5. ASSUME NEW code \in Codes, SetTeamCode(corr, code)
      PROVE  RecordsInv'
  <2>1. TypeOK'
    BY <1>5 DEF RecordsInv, TypeOK, SetTeamCode
  <2> QED
    BY <1>5, <2>1, NothingSavedKeepsInv DEF SetTeamCode
<1> QED
  BY <1>1, <1>2, <1>3, <1>4, <1>5 DEF Requested

LEMMA SetupKeepsInv ==
  ASSUME RecordsInv, SetUpStartingCategories
  PROVE  RecordsInv'
<1>1. "category" \in Kind
  BY DEF Kind
<1>2. WellFormed([NoWrites EXCEPT !.categories = StartingCategories])
  BY CatalogAssumption, CategoryIsWellFormed
<1> QED
  BY <1>1, <1>2, CommitKeepsInv DEF SetUpStartingCategories

LEMMA InitRecords == Init => RecordsInv
<1> SUFFICES ASSUME Init PROVE RecordsInv
  OBVIOUS
<1>1. changes \in Seq(ChangeRecord) /\ current \in [Parts -> [details : Nat, revision : Nat]]
  BY DEF Init
<1>2. TypeOK
  BY <1>1 DEF Init, TypeOK
<1>3. SavedByChanges /\ NewestExist /\ NumberedInOrder
  BY DEF Init, SavedByChanges, NewestExist, HasNewest, NumberedInOrder, InOrder,
         DetailsOf, RevisionsOf, CadRevisionsOf
<1>4. CurrentIsNewest
  BY DEF Init, CurrentIsNewest, InCatalog, DetailsOf, RevisionsOf
<1> QED
  BY <1>2, <1>3, <1>4 DEF RecordsInv

LEMMA NextRecords == RecordsInv /\ [Next]_vars => RecordsInv'
<1> SUFFICES ASSUME RecordsInv, [Next]_vars PROVE RecordsInv'
  OBVIOUS
<1>1. CASE Next
  BY <1>1, SetupKeepsInv, RequestedKeepsInv DEF Next
<1>2. CASE UNCHANGED vars
  <2>1. TypeOK'
    BY <1>2 DEF RecordsInv, TypeOK, vars
  <2> QED
    BY <1>2, <2>1, NothingSavedKeepsInv DEF vars
<1> QED
  BY <1>1, <1>2

\* Every collection only ever holds records of its schema.
THEOREM SchemasAreKept == Spec => []TypeOK
BY InitRecords, NextRecords, PTL DEF Spec, RecordsInv

\* Every owner's records run 1, 2, 3, ... in the order their Changes saved
\* them, however many requests race, and no number is used twice.
THEOREM RecordsAreNumberedInOrder == Spec => []NumberedInOrder
BY InitRecords, NextRecords, PTL DEF Spec, RecordsInv

\* A part stands on its newest details and its newest revision that is not
\* archived, and always has one.
THEOREM PartsStandOnTheNewest == Spec => []CurrentIsNewest
BY InitRecords, NextRecords, PTL DEF Spec, RecordsInv

-----------------------------------------------------------------------------
(* The write guards.                                                       *)

\* Archive entries are about revisions there are.
EntriesNameRevisions ==
  \A e \in archiveEntries : \E r \in RevisionsOf(e.part) : r.number = e.number

GuardsInv == RecordsInv /\ EntriesNameRevisions

\* The current details are the newest.
LEMMA CurrentDetailsAreNewest ==
  ASSUME RecordsInv, NEW p \in Parts
  PROVE  /\ InCatalog(p) => /\ CurrentDetails(p) \in DetailsOf(p)
                            /\ CurrentDetails(p).number = current[p].details
         /\ NewestNumber(DetailsOf(p)) = current[p].details
<1>1. /\ current[p].details \in Nat
      /\ \A d \in DetailsOf(p) : d.number \in Nat \ {0}
  BY OwnedAreTyped DEF RecordsInv, TypeOK
<1>2. CASE InCatalog(p)
  <2>1. {d.number : d \in Newest(DetailsOf(p))} = {current[p].details}
    BY <1>2 DEF RecordsInv, CurrentIsNewest
  <2>2. \A d \in Newest(DetailsOf(p)) : d \in DetailsOf(p) /\ d.number = current[p].details
    BY <2>1 DEF Newest
  <2>3. Newest(DetailsOf(p)) # {}
    BY <2>1
  <2>4. NewestNumber(DetailsOf(p)) = current[p].details
    BY <2>2, <2>3 DEF NewestNumber
  <2>5. \E d \in DetailsOf(p) : d.number = current[p].details
    BY <2>2, <2>3
  <2> QED
    BY <2>4, <2>5 DEF CurrentDetails
<1>3. CASE ~InCatalog(p)
  <2>1. DetailsOf(p) = {} /\ current[p].details = 0
    BY <1>3 DEF RecordsInv, CurrentIsNewest, InCatalog
  <2> QED
    BY <1>3, <2>1 DEF NewestNumber, Newest
<1> QED
  BY <1>2, <1>3

\* The revision after a part's newest one is the newest not archived.
LEMMA NextRevisionIsAllowed ==
  ASSUME GuardsInv, NEW r, r.part \in Parts,
         r.number = NewestNumber(RevisionsOf(r.part)) + 1,
         r.predecessor = NewestNumber(RevisionsOf(r.part))
  PROVE  RevisionAllowed(r)
<1> DEFINE p == r.part
           last == NewestNumber(RevisionsOf(p))
<1>1. /\ \A s \in RevisionsOf(p) : s.number \in Nat \ {0} /\ s.number <= last
      /\ last \in Nat
  <2>1. \A s \in RevisionsOf(p) : s.number \in Nat \ {0}
    BY OwnedAreTyped DEF GuardsInv, RecordsInv
  <2>2. HasNewest(RevisionsOf(p))
    BY DEF GuardsInv, RecordsInv, NewestExist
  <2> QED
    BY <2>1, <2>2, NewestNumberIsLargest
<1>2. r.number \notin Archived(p)
  <2>1. ASSUME r.number \in Archived(p) PROVE FALSE
    <3>1. PICK e \in archiveEntries : e.part = p /\ e.number = r.number
      BY <2>1 DEF Archived, ArchivedIn
    <3>2. PICK s \in RevisionsOf(p) : s.number = r.number
      BY <3>1 DEF GuardsInv, EntriesNameRevisions
    <3> QED
      BY <1>1, <3>2
  <2> QED
    BY <2>1
<1> HIDE DEF last
<1>3. /\ r.number = last + 1
      /\ \A s \in RevisionsOf(p) : s.number < r.number /\ s # r
  BY <1>1 DEF last
<1>4. Newest({s \in RevisionsOf(p) \cup {r} : s.number \notin Archived(p)}) = {r}
  BY <1>1, <1>2, <1>3 DEF Newest
<1> QED
  BY <1>4 DEF RevisionAllowed, FollowsNewest

LEMMA NextCadIsAllowed ==
  ASSUME NEW cad, NEW c \in NewCadRevisions(cad)
  PROVE  CadRevisionAllowed(c)
BY DEF NewCadRevisions, CadRevisionAllowed, FollowsNewest

LEMMA EditPassesGuards ==
  ASSUME GuardsInv, NEW request \in EditRequest, EditAccepted(request)
  PROVE  GuardsAllow(EditWrites(request))
<1> DEFINE p == request.part
           w == EditWrites(request)
<1>1. p \in Parts /\ InCatalog(p) /\ RecordsInv
  BY DEF EditRequest, EditAccepted, GuardsInv
<1>2. /\ w.details = EditedDetails(request)
      /\ w.revisions = EditedRevision(request)
      /\ w.cad = UNION {NewCadRevisions(s.cad) : s \in ChangedCad(request)}
      /\ w.matches = EditedMatches(request)
      /\ w.entries = {}
  BY DEF EditWrites, NoWrites
<1>3. /\ NewestNumber(DetailsOf(p)) = current[p].details
      /\ CurrentDetails(p) \in DetailsOf(p)
      /\ CurrentDetails(p).number = current[p].details
  BY <1>1, CurrentDetailsAreNewest
<1>4. ASSUME NEW d \in w.details
      PROVE  /\ d.part = p /\ d.number = current[p].details + 1
             /\ d.predecessor = current[p].details
  BY <1>2 DEF EditedDetails
<1>5. \A d \in w.details : DetailsAllowed(d)
  BY <1>3, <1>4 DEF DetailsAllowed, FollowsNewest
<1>6. ASSUME NEW r \in w.revisions
      PROVE  RevisionAllowed(r)
  <2>1. /\ r.part = p /\ r.number = NewestNumber(RevisionsOf(p)) + 1
        /\ r.predecessor = NewestNumber(RevisionsOf(p))
    BY <1>2 DEF EditedRevision
  <2> QED
    BY <1>1, <2>1, NextRevisionIsAllowed
<1>7. \A c \in w.cad : CadRevisionAllowed(c)
  BY <1>2, NextCadIsAllowed
<1>8. ASSUME NEW m \in w.matches
      PROVE  MatchAllowed(m, w)
  <2>1. PICK d \in EditedDetails(request) :
          /\ d.doc.category # CurrentDetails(p).doc.category
          /\ m = [part |-> p, category |-> d.doc.category, change |-> NewSeq]
    BY <1>2 DEF EditedMatches
  <2> QED
    BY <1>2, <1>3, <1>4, <2>1 DEF MatchAllowed
<1> QED
  BY <1>2, <1>5, <1>6, <1>7, <1>8 DEF GuardsAllow

LEMMA CreatePassesGuards ==
  ASSUME GuardsInv, NEW request \in CreateRequest, CreateAccepted(request)
  PROVE  GuardsAllow(CreateWrites(request))
<1> DEFINE p == request.part
           w == CreateWrites(request)
           d == [part |-> p, number |-> 1, predecessor |-> 0, doc |-> request.doc,
                 change |-> NewSeq]
           r == [part |-> p, number |-> 1, predecessor |-> 0, from |-> 0,
                 binds |-> Binds(request.newCad, NoBinds), change |-> NewSeq]
<1>1. p \in Parts /\ ~InCatalog(p) /\ RecordsInv
  BY DEF CreateRequest, CreateAccepted, GuardsInv
<1>2. /\ w.details = {d} /\ w.revisions = {r} /\ w.entries = {}
      /\ w.cad = NewCadRevisions(request.newCad)
      /\ w.matches = {[part |-> p, category |-> request.doc.category, change |-> NewSeq]}
  BY DEF CreateWrites, NoWrites
<1>3. /\ NewestNumber(DetailsOf(p)) = 0 /\ current[p].details = 0
      /\ NewestNumber(RevisionsOf(p)) = 0
  <2>1. DetailsOf(p) = {} /\ RevisionsOf(p) = {} /\ current[p].details = 0
    BY <1>1 DEF RecordsInv, CurrentIsNewest, InCatalog
  <2> QED
    BY <2>1 DEF NewestNumber, Newest
<1>4. DetailsAllowed(d)
  BY <1>3 DEF DetailsAllowed, FollowsNewest
<1>5. RevisionAllowed(r)
  BY <1>1, <1>3, NextRevisionIsAllowed
<1>6. \A c \in w.cad : CadRevisionAllowed(c)
  BY <1>2, NextCadIsAllowed
<1>7. \A m \in w.matches : MatchAllowed(m, w)
  BY <1>2 DEF MatchAllowed
<1> QED
  BY <1>2, <1>4, <1>5, <1>6, <1>7 DEF GuardsAllow

\* The latest entry of a revision says whether it is archived, and a new entry
\* is the latest there is.
LEMMA NewEntryDecides ==
  ASSUME TypeOK, SavedByChanges, NEW e, e.seq = NewSeq, e.archived \in BOOLEAN
  PROVE  ArchivedIn(archiveEntries \cup {e}, e.part) =
           (IF e.archived THEN Archived(e.part) \cup {e.number}
            ELSE Archived(e.part) \ {e.number})
<1> DEFINE p == e.part
           all == archiveEntries \cup {e}
           Latest(S, g) == \A f \in S : f.part = p /\ f.number = g.number => f.seq <= g.seq
<1>1. Len(changes) \in Nat /\ e.seq = Len(changes) + 1
  BY DEF TypeOK, NewSeq
<1>2. \A f \in archiveEntries : f.seq \in Nat /\ f.seq <= Len(changes)
  BY DEF TypeOK, EntryRecord, Positive, SavedByChanges
<1>3. \A f \in archiveEntries : f.seq < e.seq /\ ~(e.seq <= f.seq) /\ f.seq <= e.seq
  BY <1>1, <1>2
<1>4. e.seq <= e.seq
  BY <1>1
<1>5. ASSUME NEW n
      PROVE  n \in ArchivedIn(all, p) <=>
               \E g \in all : g.part = p /\ g.archived /\ g.number = n /\ Latest(all, g)
  BY DEF ArchivedIn
<1>6. ASSUME NEW n
      PROVE  n \in Archived(p) <=>
               \E g \in archiveEntries :
                 g.part = p /\ g.archived /\ g.number = n /\ Latest(archiveEntries, g)
  BY DEF ArchivedIn, Archived
<1>7. Latest(all, e)
  BY <1>3, <1>4
<1>8. ASSUME NEW g \in archiveEntries
      PROVE  /\ g.number = e.number => ~Latest(all, g)
             /\ g.number # e.number => (Latest(all, g) <=> Latest(archiveEntries, g))
  BY <1>3
<1> HIDE DEF Latest
<1>9. ASSUME NEW n, n # e.number
      PROVE  n \in ArchivedIn(all, p) <=> n \in Archived(p)
  BY <1>5, <1>6, <1>8, <1>9
<1>10. e.number \in ArchivedIn(all, p) <=> e.archived
  BY <1>5, <1>7, <1>8
<1>11. CASE e.archived
  BY <1>9, <1>10, <1>11
<1>12. CASE ~e.archived
  BY <1>9, <1>10, <1>12
<1> QED
  BY <1>11, <1>12

LEMMA ArchivePassesGuards ==
  ASSUME RecordsInv, NEW request \in ArchiveRequest, ArchiveAccepted(request)
  PROVE  GuardsAllow(ArchiveWrites(request))
<1> DEFINE p == request.part
           w == ArchiveWrites(request)
           archived == IF Archives(request) THEN Archived(p) \cup {request.revision}
                       ELSE Archived(p) \ {request.revision}
<1>1. p \in Parts /\ Archives(request) \in BOOLEAN
  BY DEF ArchiveRequest, Archives
<1>2. /\ w.entries = {[part |-> p, number |-> request.revision, archived |-> Archives(request),
                       seq |-> NewSeq, after |-> r.number] : r \in NewestNotArchived(p, archived)}
      /\ w.details = {} /\ w.revisions = {} /\ w.cad = {} /\ w.matches = {}
  BY DEF ArchiveWrites, NoWrites
<1>3. ASSUME NEW e \in w.entries
      PROVE  EntryAllowed(e)
  <2>1. PICK r \in NewestNotArchived(p, archived) :
          e = [part |-> p, number |-> request.revision, archived |-> Archives(request),
               seq |-> NewSeq, after |-> r.number]
    BY <1>2
  <2>2. /\ e.part = p /\ e.number = request.revision /\ e.archived = Archives(request)
        /\ e.seq = NewSeq /\ e.after = r.number
    BY <2>1
  <2>3. ArchivedIn(archiveEntries \cup {e}, p) = archived
    <3>1. TypeOK /\ SavedByChanges
      BY DEF RecordsInv
    <3>2. e.archived \in BOOLEAN
      BY <1>1, <2>2
    <3>3. ArchivedIn(archiveEntries \cup {e}, e.part) =
            (IF e.archived THEN Archived(e.part) \cup {e.number}
             ELSE Archived(e.part) \ {e.number})
      BY <2>2, <3>1, <3>2, NewEntryDecides
    <3> QED
      BY <2>2, <3>3
  <2>4. \E s \in RevisionsOf(p) : s.number = e.number
    BY <2>2 DEF ArchiveAccepted, ArchiveFound
  <2>5. e.archived # (e.number \in Archived(p))
    BY <1>1, <2>2 DEF ArchiveAccepted, ArchiveNothing
  <2> HIDE DEF archived
  <2>6. \A s \in NewestNotArchived(p, archived) : s.number = e.after
    <3>1. \A s \in RevisionsOf(p) : s.number \in Nat
      BY <1>1, OwnedAreTyped DEF RecordsInv
    <3> QED
      BY <2>1, <2>2, <3>1 DEF NewestNotArchived, Newest
  <2> QED
    BY <2>1, <2>2, <2>3, <2>4, <2>5, <2>6 DEF EntryAllowed
<1> QED
  BY <1>2, <1>3 DEF GuardsAllow

\* Archive entries stay about revisions there are.
LEMMA CommitKeepsEntries ==
  ASSUME EntriesNameRevisions, NEW w, NEW actor, NEW corr, NEW kind, NEW rows,
         Commit(actor, corr, kind, w, rows)
  PROVE  EntriesNameRevisions'
<1>1. /\ archiveEntries' = archiveEntries \cup w.entries
      /\ revisions' = revisions \cup w.revisions
      /\ \A e \in w.entries : EntryAllowed(e)
  BY DEF Commit, GuardsAllow
<1>2. \A e \in archiveEntries' : \E r \in RevisionsOf(e.part) : r.number = e.number
  BY <1>1 DEF EntriesNameRevisions, EntryAllowed
<1>3. \A e \in archiveEntries' : \E r \in revisions' : r.part = e.part /\ r.number = e.number
  BY <1>1, <1>2 DEF RevisionsOf
<1> QED
  BY <1>3 DEF EntriesNameRevisions, RevisionsOf

LEMMA NextEntries == EntriesNameRevisions /\ [Next]_vars => EntriesNameRevisions'
<1> SUFFICES ASSUME EntriesNameRevisions, [Next]_vars PROVE EntriesNameRevisions'
  OBVIOUS
<1>1. ASSUME UNCHANGED <<archiveEntries, revisions>>
      PROVE  EntriesNameRevisions'
  BY <1>1 DEF EntriesNameRevisions, RevisionsOf
<1>2. ASSUME NEW actor, NEW corr, NEW request, AnswerNoop(actor, corr, request)
      PROVE  EntriesNameRevisions'
  BY <1>1, <1>2 DEF AnswerNoop
<1>3. ASSUME NEW actor, NEW corr, NEW request, NEW w, Publish(actor, corr, request, w)
      PROVE  EntriesNameRevisions'
  BY <1>3, CommitKeepsEntries DEF Publish
<1>4. CASE SetUpStartingCategories
  BY <1>4, CommitKeepsEntries DEF SetUpStartingCategories
<1>5. ASSUME NEW actor \in Actors, NEW corr \in Correlations, Requested(actor, corr)
      PROVE  EntriesNameRevisions'
  BY <1>1, <1>2, <1>3, <1>5
  DEF Requested, PublishEdit, PublishCreate, PublishArchive, PublishCategory, SetTeamCode
<1>6. CASE UNCHANGED vars
  BY <1>1, <1>6 DEF vars
<1> QED
  BY <1>4, <1>5, <1>6 DEF Next

LEMMA GuardsInvAllows == GuardsInv => GuardsNeverTrip
BY EditPassesGuards, CreatePassesGuards, ArchivePassesGuards DEF GuardsNeverTrip, GuardsInv

\* No request an editor can send makes a route write what the write guards
\* refuse, whatever was published before it.
THEOREM RoutesNeverTripTheGuards == Spec => []GuardsNeverTrip
<1>1. Init => EntriesNameRevisions
  BY DEF Init, EntriesNameRevisions
<1> QED
  BY <1>1, InitRecords, NextRecords, NextEntries, GuardsInvAllows, PTL DEF Spec, GuardsInv

-----------------------------------------------------------------------------
(* The contract.                                                           *)

\* What a transaction saves is about one part.
OnePart(w) == \A a, b \in w.details \cup w.revisions \cup w.entries : a.part = b.part

LEMMA WritesAreAboutOnePart ==
  /\ \A request \in EditRequest : OnePart(EditWrites(request))
  /\ \A request \in CreateRequest : OnePart(CreateWrites(request))
  /\ \A request \in ArchiveRequest : OnePart(ArchiveWrites(request))
  /\ \A codes : OnePart([NoWrites EXCEPT !.categories = codes])
<1>1. ASSUME NEW request PROVE OnePart(EditWrites(request))
  BY DEF OnePart, EditWrites, NoWrites, EditedDetails, EditedRevision
<1>2. ASSUME NEW request PROVE OnePart(CreateWrites(request))
  BY DEF OnePart, CreateWrites, NoWrites
<1>3. ASSUME NEW request PROVE OnePart(ArchiveWrites(request))
  BY DEF OnePart, ArchiveWrites, NoWrites
<1> QED
  BY <1>1, <1>2, <1>3 DEF OnePart, NoWrites

\* What Change n says of part p, as the sets of numbers it is read from.
DetailsSaid(n, p) == {d.number : d \in {d \in details : d.part = p /\ d.change = n}}
RevisionSaid(n, p) ==
  {r.number : r \in {r \in revisions : r.part = p /\ r.change = n}}
  \cup {e.after : e \in {e \in archiveEntries : e.part = p /\ e.seq = n}}

\* The Change a transaction saves says where its records move each part, and
\* the earlier Changes go on saying what they said.
LEMMA CommitSays ==
  ASSUME RecordsInv, NEW w, WellFormed(w), NEW actor, NEW corr, NEW kind, NEW rows,
         Commit(actor, corr, kind, w, rows), NEW seq, seq = NewSeq
  PROVE  /\ \A n \in 1..Len(changes) : SaidBy(n)' = SaidBy(n)
         /\ \A p \in Parts :
              /\ DetailsSaid(seq, p)' = {d.number : d \in {d \in w.details : d.part = p}}
              /\ RevisionSaid(seq, p)' =
                   {r.number : r \in {r \in w.revisions : r.part = p}}
                   \cup {e.after : e \in {e \in w.entries : e.part = p}}
<1>1. /\ details' = details \cup w.details
      /\ revisions' = revisions \cup w.revisions
      /\ archiveEntries' = archiveEntries \cup w.entries
      /\ OneForEach(w) /\ TypeOK /\ SavedByChanges
  BY DEF Commit, RecordsInv, WellFormed
<1>2. Len(changes) \in Nat /\ NewSeq = Len(changes) + 1
  BY <1>1 DEF TypeOK, NewSeq
<1>3. /\ \A d \in details : d.change # NewSeq
      /\ \A r \in revisions : r.change # NewSeq
      /\ \A e \in archiveEntries : e.seq # NewSeq
  <2>1. /\ \A d \in details : d.change \in Nat
        /\ \A e \in archiveEntries : e.seq \in Nat
    BY <1>1 DEF TypeOK, DetailsRecord, EntryRecord, Positive
  <2>2. \A r \in revisions : r.change \in Nat
    BY <1>1 DEF TypeOK, RevisionRecord, Positive
  <2> QED
    BY <1>1, <1>2, <2>1, <2>2 DEF SavedByChanges
<1>4. /\ \A d \in w.details : d.change = NewSeq
      /\ \A r \in w.revisions : r.change = NewSeq
      /\ \A e \in w.entries : e.seq = NewSeq
  BY <1>1 DEF OneForEach
<1>5. ASSUME NEW n \in 1..Len(changes)
      PROVE  SaidBy(n)' = SaidBy(n)
  <2>1. n # NewSeq
    BY <1>2
  <2>2. ASSUME NEW p \in Parts
        PROVE  /\ {d \in details' : d.part = p /\ d.change = n}
                    = {d \in details : d.part = p /\ d.change = n}
               /\ {r \in revisions' : r.part = p /\ r.change = n}
                    = {r \in revisions : r.part = p /\ r.change = n}
               /\ {e \in archiveEntries' : e.part = p /\ e.seq = n}
                    = {e \in archiveEntries : e.part = p /\ e.seq = n}
    BY <1>1, <1>4, <2>1
  <2> QED
    BY <2>2 DEF SaidBy
<1>6. ASSUME NEW p \in Parts
      PROVE  /\ DetailsSaid(seq, p)' = {d.number : d \in {d \in w.details : d.part = p}}
             /\ RevisionSaid(seq, p)' =
                  {r.number : r \in {r \in w.revisions : r.part = p}}
                  \cup {e.after : e \in {e \in w.entries : e.part = p}}
  <2>1. /\ {d \in details' : d.part = p /\ d.change = seq} = {d \in w.details : d.part = p}
        /\ {r \in revisions' : r.part = p /\ r.change = seq} = {r \in w.revisions : r.part = p}
        /\ {e \in archiveEntries' : e.part = p /\ e.seq = seq} = {e \in w.entries : e.part = p}
    BY <1>1, <1>3, <1>4
  <2> QED
    BY <2>1 DEF DetailsSaid, RevisionSaid
<1> QED
  BY <1>5, <1>6

\* A transaction is a step of the contract: what its Change says moves the
\* part it is about, and nothing else moves.
LEMMA CommitKeepsContract ==
  ASSUME RecordsInv, NEW w, WellFormed(w), OnePart(w), NEW actor, NEW corr, NEW kind, NEW rows,
         Commit(actor, corr, kind, w, rows), NEW seq, seq = NewSeq
  PROVE  Contract!Next
<1> DEFINE detailsMoves(p) == {d.number : d \in {d \in w.details : d.part = p}}
           revisionMoves(p) == {r.number : r \in {r \in w.revisions : r.part = p}}
                               \cup {e.after : e \in {e \in w.entries : e.part = p}}
<1>0. PICK said : said = SaidBy(seq)'
  OBVIOUS
<1>1. /\ changes' = Append(changes, [correlation |-> corr, actor |-> actor, kind |-> kind])
      /\ current' = CurrentAfter(w)
      /\ TypeOK /\ WritesTyped(w)
  BY DEF Commit, RecordsInv, WellFormed
<1>2. /\ Len(changes) \in Nat /\ Len(changes') = Len(changes) + 1 /\ seq = Len(changes) + 1
  <2>1. changes \in Seq(ChangeRecord)
    BY <1>1 DEF TypeOK
  <2> QED
    BY <1>1, <2>1 DEF NewSeq
<1>3. ASSUME NEW p \in Parts
      PROVE  said[p] = [details |-> NumberIn(detailsMoves(p)),
                        revision |-> NumberIn(revisionMoves(p))]
  <2>1. /\ DetailsSaid(seq, p)' = detailsMoves(p)
        /\ RevisionSaid(seq, p)' = revisionMoves(p)
    BY CommitSays
  <2>2. said[p] = [details |-> NumberIn(DetailsSaid(seq, p)'),
                   revision |-> NumberIn(RevisionSaid(seq, p)')]
    BY <1>0 DEF SaidBy, DetailsSaid, RevisionSaid, NumberIn
  <2> QED
    BY <2>1, <2>2
<1>4. ASSUME NEW p \in Parts
      PROVE  detailsMoves(p) \subseteq Positive /\ revisionMoves(p) \subseteq Positive
  <2>1. /\ \A d \in w.details : d.number \in Positive
        /\ \A e \in w.entries : e.after \in Positive
    BY <1>1 DEF WritesTyped, DetailsRecord, EntryRecord
  <2>2. \A r \in w.revisions : r.number \in Positive
    BY <1>1 DEF WritesTyped, RevisionRecord
  <2> QED
    BY <2>1, <2>2
<1>5. ASSUME NEW p \in Parts,
             w.details \cup w.revisions \cup w.entries = {}
               \/ \E a \in w.details \cup w.revisions \cup w.entries : a.part # p
      PROVE  detailsMoves(p) = {} /\ revisionMoves(p) = {}
  BY <1>5 DEF OnePart
<1>6. said = [p \in Parts |-> said[p]]
  BY <1>0 DEF SaidBy
<1> HIDE DEF detailsMoves, revisionMoves
<1>7. ASSUME NEW S \in SUBSET Positive, NEW old \in Nat
      PROVE  /\ NumberIn(S) \in Nat
             /\ S = {} => NumberIn(S) = 0
             /\ Moved(old, S) = Contract!Moved(old, NumberIn(S))
  <2>1. CASE S = {}
    BY <2>1 DEF NumberIn, Moved, Contract!Moved
  <2>2. CASE S # {}
    <3>1. (CHOOSE n \in S : TRUE) \in S
      BY <2>2
    <3>2. NumberIn(S) = (CHOOSE n \in S : TRUE) /\ Moved(old, S) = (CHOOSE n \in S : TRUE)
      BY <2>2 DEF NumberIn, Moved
    <3> QED
      BY <2>2, <3>1, <3>2 DEF Contract!Moved, Positive
  <2> QED
    BY <2>1, <2>2
<1>8. said \in Contract!Change
  <2>1. said \in [Parts -> Contract!Position]
    <3>1. ASSUME NEW p \in Parts PROVE said[p] \in Contract!Position
      <4>1. said[p] = [details |-> NumberIn(detailsMoves(p)),
                       revision |-> NumberIn(revisionMoves(p))]
        BY <1>3
      <4>2. NumberIn(detailsMoves(p)) \in Nat /\ NumberIn(revisionMoves(p)) \in Nat
        BY <1>4, <1>7
      <4> QED
        BY <4>1, <4>2 DEF Contract!Position
    <3> QED
      BY <1>6, <3>1
  <2>2. ASSUME NEW p \in Parts, NEW q \in Parts, said[p] # Contract!Nowhere,
               said[q] # Contract!Nowhere
        PROVE  p = q
    <3>1. ASSUME NEW x \in Parts, said[x] # Contract!Nowhere
          PROVE  \E a \in w.details \cup w.revisions \cup w.entries :
                   \A b \in w.details \cup w.revisions \cup w.entries : b.part = x
      <4>1. ~(detailsMoves(x) = {} /\ revisionMoves(x) = {})
        BY <1>3, <1>4, <1>7, <3>1 DEF Contract!Nowhere
      <4> QED
        BY <1>5, <4>1
    <3> QED
      BY <2>2, <3>1
  <2> QED
    BY <2>1, <2>2 DEF Contract!Change
<1>9. current' = Contract!Apply(current, said)
  <2>1. ASSUME NEW p \in Parts
        PROVE  /\ Moved(current[p].details, detailsMoves(p))
                    = Contract!Moved(current[p].details, said[p].details)
               /\ Moved(current[p].revision, revisionMoves(p))
                    = Contract!Moved(current[p].revision, said[p].revision)
    <3>1. current[p].details \in Nat /\ current[p].revision \in Nat
      BY <1>1 DEF TypeOK
    <3>2. /\ said[p].details = NumberIn(detailsMoves(p))
          /\ said[p].revision = NumberIn(revisionMoves(p))
      <4>1. said[p] = [details |-> NumberIn(detailsMoves(p)),
                       revision |-> NumberIn(revisionMoves(p))]
        BY <1>3
      <4> QED
        BY <4>1
    <3> QED
      BY <1>4, <1>7, <3>1, <3>2
  <2>2. CurrentAfter(w) =
          [p \in Parts |-> [details |-> Moved(current[p].details, detailsMoves(p)),
                            revision |-> Moved(current[p].revision, revisionMoves(p))]]
    BY DEF CurrentAfter, detailsMoves, revisionMoves
  <2> QED
    BY <1>1, <2>1, <2>2 DEF Contract!Apply
<1>10. Log' = Append(Log, said) /\ Len(Log) = Len(changes) /\ Len(Log') = Len(changes) + 1
      /\ Log'[Len(Log) + 1] = said
  <2>1. \A n \in 1..Len(changes) : SaidBy(n)' = SaidBy(n)
    BY CommitSays
  <2>2. Log = [n \in 1..Len(changes) |-> SaidBy(n)]
    BY DEF Log
  <2>3. Log' = [n \in 1..(Len(changes) + 1) |-> SaidBy(n)']
    BY <1>2 DEF Log
  <2> QED
    BY <1>0, <1>2, <2>1, <2>2, <2>3
<1> QED
  BY <1>8, <1>9, <1>10 DEF Contract!Next, Contract!Publish

LEMMA StepKeepsContract ==
  RecordsInv /\ [Next]_vars => [Contract!Next]_(Contract!vars)
<1> SUFFICES ASSUME RecordsInv, [Next]_vars PROVE [Contract!Next]_(Contract!vars)
  OBVIOUS
<1>1. ASSUME UNCHANGED <<changes, details, revisions, archiveEntries, current>>
      PROVE  UNCHANGED Contract!vars
  BY <1>1 DEF Contract!vars, Log, SaidBy
<1>2. ASSUME NEW actor, NEW corr, NEW kind, NEW w, NEW rows,
             WellFormed(w), OnePart(w), Commit(actor, corr, kind, w, rows)
      PROVE  Contract!Next
  BY <1>2, CommitKeepsContract
<1>3. ASSUME NEW actor, NEW corr, NEW request, AnswerNoop(actor, corr, request)
      PROVE  UNCHANGED Contract!vars
  BY <1>1, <1>3 DEF AnswerNoop
<1>4. ASSUME NEW actor, NEW corr, NEW request, NEW w,
             WellFormed(w), OnePart(w), Publish(actor, corr, request, w)
      PROVE  Contract!Next
  BY <1>2, <1>4 DEF Publish
<1>5. CASE SetUpStartingCategories
  <2>1. WellFormed([NoWrites EXCEPT !.categories = StartingCategories])
    BY CatalogAssumption, CategoryIsWellFormed
  <2> QED
    BY <1>2, <1>5, <2>1, WritesAreAboutOnePart DEF SetUpStartingCategories
<1>6. ASSUME NEW actor \in Actors, NEW corr \in Correlations, Requested(actor, corr)
      PROVE  Contract!Next \/ UNCHANGED Contract!vars
  <2>1. ASSUME NEW request \in EditRequest, PublishEdit(actor, corr, request)
        PROVE  Contract!Next \/ UNCHANGED Contract!vars
    BY <1>3, <1>4, <2>1, EditIsWellFormed, WritesAreAboutOnePart DEF PublishEdit
  <2>2. ASSUME NEW request \in CreateRequest, PublishCreate(actor, corr, request)
        PROVE  Contract!Next
    BY <1>4, <2>2, CreateIsWellFormed, WritesAreAboutOnePart DEF PublishCreate
  <2>3. ASSUME NEW request \in ArchiveRequest, PublishArchive(actor, corr, request)
        PROVE  Contract!Next \/ UNCHANGED Contract!vars
    BY <1>3, <1>4, <2>3, ArchiveIsWellFormed, WritesAreAboutOnePart DEF PublishArchive
  <2>4. ASSUME NEW request \in CategoryRequest, PublishCategory(actor, corr, request)
        PROVE  Contract!Next
    <3>1. {request.category} \in SUBSET Categories
      BY DEF CategoryRequest
    <3>2. WellFormed([NoWrites EXCEPT !.categories = {request.category}])
      BY <3>1, CategoryIsWellFormed
    <3> QED
      BY <1>4, <2>4, <3>2, WritesAreAboutOnePart DEF PublishCategory
  <2>5. ASSUME NEW code \in Codes, SetTeamCode(corr, code)
        PROVE  UNCHANGED Contract!vars
    BY <1>1, <2>5 DEF SetTeamCode
  <2> QED
    BY <1>6, <2>1, <2>2, <2>3, <2>4, <2>5 DEF Requested
<1>7. CASE UNCHANGED vars
  BY <1>1, <1>7 DEF vars
<1> QED
  BY <1>5, <1>6, <1>7 DEF Next

LEMMA InitKeepsContract == Init => Contract!Init
<1> SUFFICES ASSUME Init PROVE Contract!Init
  OBVIOUS
<1>1. Log = <<>>
  BY DEF Init, Log
<1>2. current = Contract!Empty
  BY DEF Init, Contract!Empty, Contract!Nowhere
<1> QED
  BY <1>1, <1>2 DEF Contract!Init

\* The server keeps its promise to the desktops: every step is a Change whose
\* records say where its part moves, and nothing moves a part without one.
THEOREM ServerKeepsContract == Spec => KeepsContract
BY InitRecords, NextRecords, InitKeepsContract, StepKeepsContract, PTL
DEF Spec, KeepsContract, Contract!Spec

-----------------------------------------------------------------------------
(* CAD item revisions, which are only ever added.                          *)

UniqueCad(cads) == \A a, b \in cads : a.item = b.item /\ a.number = b.number => a = b

ContentAt(cads, i, n) == (CHOOSE c \in cads : c.item = i /\ c.number = n).content

\* Numbered in order, no two of a CAD item's revisions have one number.
LEMMA InOrderIsUnique ==
  ASSUME NEW cads \in SUBSET CadRevisionRecord,
         \A i \in Items : InOrder({c \in cads : c.item = i})
  PROVE  UniqueCad(cads)
<1>1. SUFFICES ASSUME NEW a \in cads, NEW b \in cads, a.item = b.item, a.number = b.number
               PROVE  a = b
  BY DEF UniqueCad
<1>2. a.item \in Items
  BY DEF CadRevisionRecord
<1>3. InOrder({c \in cads : c.item = a.item})
  BY <1>2
<1> QED
  BY <1>1, <1>3 DEF InOrder

\* What a CAD item revision holds is found by its number, whatever is added.
LEMMA ContentIsFound ==
  ASSUME NEW cads, UniqueCad(cads), NEW c \in cads
  PROVE  ContentAt(cads, c.item, c.number) = c.content
<1> DEFINE x == CHOOSE x \in cads : x.item = c.item /\ x.number = c.number
<1>1. x \in cads /\ x.item = c.item /\ x.number = c.number
  OBVIOUS
<1>2. x = c
  BY <1>1 DEF UniqueCad
<1> QED
  BY <1>2 DEF ContentAt

LEMMA ContentStays ==
  ASSUME NEW cads, NEW all, cads \subseteq all, UniqueCad(all),
         NEW i, NEW n, \E c \in cads : c.item = i /\ c.number = n
  PROVE  ContentAt(all, i, n) = ContentAt(cads, i, n)
<1>1. UniqueCad(cads)
  BY DEF UniqueCad
<1>2. PICK c \in cads : c.item = i /\ c.number = n
  OBVIOUS
<1>3. ContentAt(cads, c.item, c.number) = c.content
  BY <1>1, ContentIsFound
<1>4. ContentAt(all, c.item, c.number) = c.content
  BY ContentIsFound
<1> QED
  BY <1>2, <1>3, <1>4

\* The newest of some numbered records carry the newest number.
LEMMA NewestCarryIt ==
  ASSUME NEW S, \A r \in S : r.number \in Nat \ {0}, NEW c \in Newest(S)
  PROVE  c \in S /\ c.number = NewestNumber(S)
<1> DEFINE x == CHOOSE x \in Newest(S) : TRUE
<1>1. x \in Newest(S) /\ NewestNumber(S) = x.number
  BY DEF NewestNumber
<1>2. x \in S /\ c \in S /\ x.number <= c.number /\ c.number <= x.number
  BY <1>1 DEF Newest
<1>3. x.number \in Nat /\ c.number \in Nat
  BY <1>2
<1> QED
  BY <1>1, <1>2, <1>3

-----------------------------------------------------------------------------
(* What a new revision binds.                                              *)

\* The revision a file makes of its CAD item.
MadeOf(cad, i) ==
  [item |-> i, number |-> NewestNumber(CadRevisionsOf(i)) + 1,
   predecessor |-> NewestNumber(CadRevisionsOf(i)),
   content |-> cad.uploads[i], change |-> NewSeq]

\* A binding is the one the file makes; or the part's own; or the CAD item's
\* current one, of the file's content if one is sent, and never instead of
\* the part's own unless the file has other content.
LEMMA BindingMeans ==
  ASSUME RecordsInv, NEW cad \in CadFields, NEW old, CadKnown(cad, old), NEW i \in cad.names
  PROVE  \/ /\ MakesNew(cad, i) /\ MadeOf(cad, i) \in NewCadRevisions(cad)
            /\ Binding(cad, old, i) = MadeOf(cad, i).number
         \/ ~MakesNew(cad, i) /\ i \in DOMAIN old /\ Binding(cad, old, i) = old[i]
         \/ /\ ~MakesNew(cad, i)
            /\ \E c \in CadRevisionsOf(i) :
                 /\ c.number = Binding(cad, old, i)
                 /\ Sent(cad, i) => c.content = cad.uploads[i]
            /\ i \in DOMAIN old => Sent(cad, i) /\ CadContent(i, old[i]) # cad.uploads[i]
<1> DEFINE kept == i \in DOMAIN old /\ (Sent(cad, i) => CadContent(i, old[i]) = cad.uploads[i])
           newest == NewestNumber(CadRevisionsOf(i))
<1>1. CASE MakesNew(cad, i)
  <2>1. i \in DOMAIN cad.uploads /\ MadeOf(cad, i) \in NewCadRevisions(cad)
    BY <1>1 DEF MakesNew, Sent, NewCadRevisions, MadeOf
  <2>2. Binding(cad, old, i) = newest + 1
    BY <1>1 DEF Binding
  <2> QED
    BY <1>1, <2>1, <2>2 DEF MadeOf
<1>2. CASE ~MakesNew(cad, i) /\ kept
  BY <1>2 DEF Binding
<1>3. CASE ~MakesNew(cad, i) /\ ~kept
  <2>1. Binding(cad, old, i) = newest
    BY <1>3 DEF Binding
  <2>2. i \in Items
    BY UploadsAreFiles
  <2>3. \A r \in CadRevisionsOf(i) : r.number \in Nat \ {0}
    BY <2>2, OwnedAreTyped DEF RecordsInv
  <2>4. CASE Sent(cad, i)
    <3>1. PICK c \in Newest(CadRevisionsOf(i)) : c.content = cad.uploads[i]
      BY <1>3, <2>4 DEF MakesNew
    <3>2. c \in CadRevisionsOf(i) /\ c.number = newest
      BY <2>3, NewestCarryIt
    <3> QED
      BY <1>3, <2>1, <2>4, <3>1, <3>2
  <2>5. CASE ~Sent(cad, i)
    <3>1. i \notin DOMAIN old
      BY <1>3, <2>5
    <3>2. CadRevisionsOf(i) # {}
      BY <2>5, <3>1 DEF CadKnown
    <3>3. PICK c : c \in Newest(CadRevisionsOf(i))
      BY <2>2, <3>2 DEF RecordsInv, NewestExist, HasNewest
    <3>4. c \in CadRevisionsOf(i) /\ c.number = newest
      BY <2>3, <3>3, NewestCarryIt
    <3> QED
      BY <1>3, <2>1, <2>5, <3>1, <3>4
  <2> QED
    BY <2>4, <2>5
<1> QED
  BY <1>1, <1>2, <1>3

-----------------------------------------------------------------------------
(* What the invariants of the designs ask of a transaction.                *)

\* A part revision binds CAD item revisions that exist, saved no later.
BoundIn(cads, r) ==
  \A i \in DOMAIN r.binds :
    \E c \in cads : c.item = i /\ c.number = r.binds[i] /\ c.change <= r.change

ContentIn(cads, binds) == [i \in DOMAIN binds |-> ContentAt(cads, i, binds[i])]

\* The edit of this request moved the bindings it moved with their content.
MovesWith(cads, request, r, old) ==
  \A s \in request.cad, i \in DOMAIN r.binds \cap DOMAIN old.binds :
    r.binds[i] # old.binds[i] =>
      /\ Sent(s.cad, i)
      /\ \/ ContentAt(cads, i, r.binds[i]) # ContentAt(cads, i, old.binds[i])
         \/ \E c \in cads : c.item = i /\ c.number = r.binds[i] /\ c.change = r.change

\* A record an edit saved starts from what the request expected.
DetailsStart(request, d) ==
  request.kind = "edit" =>
    \A s \in request.details : d.part = request.part /\ d.predecessor = s.expected
RevisionStart(request, r) ==
  request.kind = "edit" =>
    \A s \in request.cad : r.part = request.part /\ r.from = s.expected

\* The revisions of part p archived now.
ArchivedOf(p) == {r \in RevisionsOf(p) : r.number \in Archived(p)}

Faithful(w, rows) ==
  LET cads == cadRevisions \cup w.cad
  IN /\ \A r \in w.revisions :
          /\ BoundIn(cads, r)
          /\ r.from = current[r.part].revision
          /\ \A old \in ArchivedOf(r.part) : ContentIn(cads, old.binds) # ContentIn(cads, r.binds)
     /\ rows \subseteq LedgerRow
     /\ \A row \in rows :
          /\ row.seq = NewSeq
          /\ \A d \in w.details : DetailsStart(row.request, d)
          /\ \A r \in w.revisions :
               /\ RevisionStart(row.request, r)
               /\ \A old \in RevisionsOf(r.part) :
                    old.number = r.from => MovesWith(cads, row.request, r, old)

\* Every part revision binds what exists.
AllBound == \A r \in revisions : BoundIn(cadRevisions, r)

\* A part's current revision is the one with its number.
LEMMA TheCurrentRevision ==
  ASSUME RecordsInv, NEW p \in Parts, InCatalog(p)
  PROVE  /\ CurrentRevision(p) \in RevisionsOf(p)
         /\ CurrentRevision(p).number = current[p].revision
         /\ \A r \in RevisionsOf(p) : r.number = current[p].revision => r = CurrentRevision(p)
         /\ current[p].revision \notin Archived(p)
         /\ \A r \in RevisionsOf(p) :
              r.number \notin Archived(p) => r.number <= current[p].revision
<1>1. {r.number : r \in NewestNotArchived(p, Archived(p))} = {current[p].revision}
  BY DEF RecordsInv, CurrentIsNewest
<1>2. PICK c \in NewestNotArchived(p, Archived(p)) : c.number = current[p].revision
  BY <1>1
<1>3. /\ c \in RevisionsOf(p) /\ c.number \notin Archived(p)
      /\ \A r \in RevisionsOf(p) : r.number \notin Archived(p) => r.number <= c.number
  BY DEF NewestNotArchived, Newest
<1>4. \A r, s \in RevisionsOf(p) : r.number = s.number => r = s
  BY DEF RecordsInv, NumberedInOrder, InOrder, RevisionsOf
<1> QED
  BY <1>2, <1>3, <1>4 DEF CurrentRevision

LEMMA CadContentIsAt ==
  ASSUME NEW i, NEW n
  PROVE  CadContent(i, n) = ContentAt(cadRevisions, i, n)
BY DEF CadContent, ContentAt

\* What a part revision binds keeps its content.
LEMMA ContentOfStays ==
  ASSUME AllBound, NEW cads, UniqueCad(cads), cadRevisions \subseteq cads, NEW r \in revisions
  PROVE  ContentIn(cads, r.binds) = ContentOf(r.binds)
<1>1. ASSUME NEW i \in DOMAIN r.binds
      PROVE  ContentAt(cads, i, r.binds[i]) = CadContent(i, r.binds[i])
  <2>1. \E c \in cadRevisions : c.item = i /\ c.number = r.binds[i]
    BY DEF AllBound, BoundIn
  <2> QED
    BY <2>1, ContentStays, CadContentIsAt
<1> QED
  BY <1>1 DEF ContentIn, ContentOf

\* Every revision bound exists, or is made by the file sent for it.
LEMMA NewBindsAreBound ==
  ASSUME RecordsInv, NEW cad \in CadFields, NEW old, CadKnown(cad, old), NEW i \in cad.names,
         i \in DOMAIN old => \E c \in cadRevisions : c.item = i /\ c.number = old[i]
  PROVE  \E c \in cadRevisions \cup NewCadRevisions(cad) :
           /\ c.item = i /\ c.number = Binding(cad, old, i) /\ c.change <= NewSeq
           /\ MakesNew(cad, i) => c.change = NewSeq /\ c.content = cad.uploads[i]
           /\ ~MakesNew(cad, i) => c \in cadRevisions
<1>1. NewSeq \in Positive /\ NewSeq = Len(changes) + 1 /\ Len(changes) \in Nat
  BY NewSeqIsNext DEF NewSeq, RecordsInv, TypeOK
<1>2. \A c \in cadRevisions : c.change \in Nat /\ c.change <= NewSeq
  BY <1>1 DEF RecordsInv, SavedByChanges, TypeOK, CadRevisionRecord, Positive
<1>3. CASE MakesNew(cad, i)
  <2>1. /\ MadeOf(cad, i) \in NewCadRevisions(cad)
        /\ Binding(cad, old, i) = MadeOf(cad, i).number
    BY <1>3, BindingMeans
  <2>2. /\ MadeOf(cad, i).item = i /\ MadeOf(cad, i).change = NewSeq
        /\ MadeOf(cad, i).content = cad.uploads[i]
    BY DEF MadeOf
  <2> QED
    BY <1>1, <1>3, <2>1, <2>2 DEF Positive
<1>4. CASE ~MakesNew(cad, i)
  <2>1. \E c \in cadRevisions : c.item = i /\ c.number = Binding(cad, old, i)
    BY <1>4, BindingMeans DEF CadRevisionsOf
  <2> QED
    BY <1>2, <1>4, <2>1
<1> QED
  BY <1>3, <1>4

LEMMA EditIsFaithful ==
  ASSUME RecordsInv, AllBound, NEW request \in EditRequest, EditAccepted(request),
         NEW actor \in Actors, NEW corr \in Correlations,
         UniqueCad(cadRevisions \cup EditWrites(request).cad)
  PROVE  Faithful(EditWrites(request), {Row(actor, corr, request, NewSeq)})
<1> DEFINE p == request.part
           w == EditWrites(request)
           row == Row(actor, corr, request, NewSeq)
           cads == cadRevisions \cup w.cad
           old == CurrentRevision(p)
<1>1. /\ p \in Parts /\ InCatalog(p) /\ TypeOK /\ ~Conflict(request)
      /\ request.details \in Optional(DetailsSection)
      /\ request.cad \in Optional(CadSection)
  BY DEF EditRequest, EditAccepted, RecordsInv
<1>2. /\ w.details = EditedDetails(request)
      /\ w.revisions = EditedRevision(request)
      /\ w.cad = UNION {NewCadRevisions(s.cad) : s \in ChangedCad(request)}
  BY DEF EditWrites, NoWrites
<1>3. /\ \A s, t \in request.cad : s = t
      /\ \A s \in request.cad : s.cad \in CadFields
  <2>1. (\A s \in request.cad : s \in CadSection) /\ \A s, t \in request.cad : s = t
    BY <1>1, OptionalIsOne
  <2> QED
    BY <2>1 DEF CadSection
<1>4. row \in LedgerRow /\ row.seq = NewSeq /\ row.request = request
  BY <1>1, NewSeqIsNext DEF Row, LedgerRow, Request, Positive
<1>5. \A d \in w.details : DetailsStart(request, d)
  BY <1>1, <1>2 DEF DetailsStart, EditedDetails, Conflict
<1>6. /\ old \in revisions
      /\ \A i \in DOMAIN old.binds :
           \E c \in cadRevisions : c.item = i /\ c.number = old.binds[i] /\ c.change <= old.change
  BY <1>1, CurrentRevisionIsSaved DEF AllBound, BoundIn
<1>7. /\ old \in RevisionsOf(p) /\ old.number = current[p].revision
      /\ \A r \in RevisionsOf(p) : r.number = current[p].revision => r = old
  BY <1>1, TheCurrentRevision
<1>8. ASSUME NEW r \in w.revisions
       PROVE  /\ BoundIn(cads, r)
              /\ r.part = p /\ r.from = current[p].revision
              /\ \A a \in ArchivedOf(p) : ContentIn(cads, a.binds) # ContentIn(cads, r.binds)
              /\ RevisionStart(request, r)
              /\ MovesWith(cads, request, r, old)
  <2>1. PICK s \in ChangedCad(request) :
          r = [part |-> p, number |-> NewestNumber(RevisionsOf(p)) + 1,
               predecessor |-> NewestNumber(RevisionsOf(p)), from |-> current[p].revision,
               binds |-> Binds(s.cad, old.binds), change |-> NewSeq]
    BY <1>2 DEF EditedRevision
  <2> DEFINE cad == s.cad
             binds == Binds(cad, old.binds)
  <2>2. /\ r.part = p /\ r.from = current[p].revision
        /\ r.binds = binds /\ r.change = NewSeq
    BY <2>1
  <2>3. /\ s \in request.cad /\ cad \in CadFields
        /\ CadKnown(cad, old.binds)
        /\ NewCadRevisions(cad) \subseteq w.cad
    BY <1>2, <1>3 DEF ChangedCad, EditAccepted
  <2>4. DOMAIN binds = cad.names /\ \A i \in cad.names : binds[i] = Binding(cad, old.binds, i)
    BY DEF Binds
  <2> HIDE DEF cad, binds, cads
  <2>5. ASSUME NEW i \in DOMAIN binds
        PROVE  \E c \in cads : /\ c.item = i /\ c.number = binds[i] /\ c.change <= NewSeq
                               /\ MakesNew(cad, i) => c.change = NewSeq /\ c.content = cad.uploads[i]
                               /\ ~MakesNew(cad, i) => c \in cadRevisions
    BY <1>6, <2>3, <2>4, NewBindsAreBound DEF cads
  <2>6. BoundIn(cads, r)
    BY <2>2, <2>5 DEF BoundIn
  <2>7. RevisionStart(request, r)
    BY <1>1, <2>2 DEF RevisionStart, Conflict
  <2>8. UniqueCad(cads) /\ cadRevisions \subseteq cads
    BY DEF cads
  <2>9. ContentIn(cads, binds) = NewContentOf(cad, binds)
    <3>1. ASSUME NEW i \in DOMAIN binds
          PROVE  ContentAt(cads, i, binds[i]) =
                   (IF MakesNew(cad, i) THEN cad.uploads[i] ELSE CadContent(i, binds[i]))
      <4>1. PICK c \in cads : /\ c.item = i /\ c.number = binds[i]
                              /\ MakesNew(cad, i) => c.content = cad.uploads[i]
                              /\ ~MakesNew(cad, i) => c \in cadRevisions
        BY <2>5
      <4>2. CASE MakesNew(cad, i)
        BY <2>8, <4>1, <4>2, ContentIsFound
      <4>3. CASE ~MakesNew(cad, i)
        BY <2>8, <4>1, <4>3, ContentStays, CadContentIsAt
      <4> QED
        BY <4>2, <4>3
    <3> QED
      BY <3>1 DEF ContentIn, NewContentOf
  <2>10. ASSUME NEW a \in ArchivedOf(p)
         PROVE  ContentIn(cads, a.binds) # ContentIn(cads, r.binds)
    <3>1. a \in revisions /\ a \in RevisionsOf(p) /\ a.number \in Archived(p)
      BY DEF ArchivedOf, RevisionsOf
    <3>2. ContentOf(a.binds) # NewContentOf(cad, binds)
      BY <3>1 DEF EditAccepted, BringsArchivedBack, binds, cad
    <3>3. ContentIn(cads, a.binds) = ContentOf(a.binds)
      BY <2>8, <3>1, ContentOfStays
    <3> QED
      BY <2>2, <2>9, <3>2, <3>3
  <2>11. MovesWith(cads, request, r, old)
    <3> SUFFICES ASSUME NEW i \in DOMAIN binds \cap DOMAIN old.binds, binds[i] # old.binds[i]
                 PROVE  /\ Sent(cad, i)
                        /\ \/ ContentAt(cads, i, binds[i]) # ContentAt(cads, i, old.binds[i])
                           \/ \E c \in cads :
                                c.item = i /\ c.number = binds[i] /\ c.change = NewSeq
      BY <1>3, <2>2, <2>3 DEF MovesWith, cad
    <3>1. CASE MakesNew(cad, i)
      BY <2>5, <3>1 DEF MakesNew
    <3>2. CASE ~MakesNew(cad, i)
      <4>1. PICK c \in cadRevisions : /\ c.item = i /\ c.number = binds[i]
                                      /\ Sent(cad, i) => c.content = cad.uploads[i]
        BY <2>3, <2>4, <3>2, BindingMeans DEF CadRevisionsOf
      <4>2. Sent(cad, i) /\ CadContent(i, old.binds[i]) # cad.uploads[i]
        BY <2>3, <2>4, <3>2, BindingMeans
      <4>3. ContentAt(cads, i, binds[i]) = cad.uploads[i]
        BY <2>8, <4>1, <4>2, ContentIsFound
      <4>4. ContentAt(cads, i, old.binds[i]) = CadContent(i, old.binds[i])
        BY <1>6, <2>8, ContentStays, CadContentIsAt
      <4> QED
        BY <4>2, <4>3, <4>4
    <3> QED
      BY <3>1, <3>2
  <2> QED
    BY <2>2, <2>6, <2>7, <2>10, <2>11
<1> HIDE DEF cads
<1>9. \A r \in w.revisions : \A a \in RevisionsOf(r.part) :
         a.number = r.from => MovesWith(cads, request, r, a)
  BY <1>7, <1>8
<1> QED
  BY <1>4, <1>5, <1>8, <1>9 DEF Faithful, cads

LEMMA CreateIsFaithful ==
  ASSUME RecordsInv, NEW request \in CreateRequest, CreateAccepted(request),
         NEW actor \in Actors, NEW corr \in Correlations
  PROVE  Faithful(CreateWrites(request), {Row(actor, corr, request, NewSeq)})
<1> DEFINE p == request.part
           w == CreateWrites(request)
           row == Row(actor, corr, request, NewSeq)
           cads == cadRevisions \cup w.cad
           binds == Binds(request.newCad, NoBinds)
           r == [part |-> p, number |-> 1, predecessor |-> 0, from |-> 0,
                 binds |-> binds, change |-> NewSeq]
<1>1. /\ p \in Parts /\ ~InCatalog(p) /\ request.newCad \in CadFields
      /\ CadKnown(request.newCad, NoBinds) /\ request.kind = "create"
  BY DEF CreateRequest, CreateAccepted
<1>2. w.revisions = {r} /\ w.cad = NewCadRevisions(request.newCad)
  BY DEF CreateWrites, NoWrites
<1>3. RevisionsOf(p) = {} /\ current[p].revision = 0
  BY <1>1 DEF RecordsInv, CurrentIsNewest
<1>4. row \in LedgerRow /\ row.seq = NewSeq /\ row.request = request
  BY NewSeqIsNext DEF Row, LedgerRow, Request, Positive, RecordsInv
<1>5. BoundIn(cads, r)
  <2>1. DOMAIN NoBinds = {}
    BY DEF NoBinds
  <2>2. /\ DOMAIN binds = request.newCad.names
        /\ \A i \in request.newCad.names : binds[i] = Binding(request.newCad, NoBinds, i)
    BY DEF Binds
  <2> QED
    BY <1>1, <1>2, <2>1, <2>2, NewBindsAreBound DEF BoundIn
<1>6. r.part = p /\ r.from = 0
  OBVIOUS
<1> HIDE DEF r, cads
<1> QED
  BY <1>1, <1>2, <1>3, <1>4, <1>5, <1>6
  DEF Faithful, ArchivedOf, DetailsStart, RevisionStart, cads

\* The other routes save no details and no revision.
LEMMA NothingDesignedIsFaithful ==
  ASSUME NEW w, w.details = {}, w.revisions = {}, NEW rows \in SUBSET LedgerRow,
         \A row \in rows : row.seq = NewSeq
  PROVE  Faithful(w, rows)
BY DEF Faithful

-----------------------------------------------------------------------------
(* The invariants of the designs.                                          *)

\* A revision is edited from an earlier one, and archived after it was saved.
EditedFromEarlier == \A r \in revisions : r.from \in Nat /\ r.from < r.number
EntriesComeLater ==
  \A e \in archiveEntries : \A r \in RevisionsOf(e.part) :
    r.number = e.number => r.change < e.seq

\* What an edit saved starts from what it expected.
EditsStartFrom ==
  \A row \in ledger :
    /\ \A d \in details : d.change = row.seq => DetailsStart(row.request, d)
    /\ \A r \in revisions : r.change = row.seq => RevisionStart(row.request, r)

\* Between two revisions edited from one, the first was archived.
ForksAreArchived ==
  \A r, u \in revisions :
    (r.part = u.part /\ r.from = u.from /\ r.change < u.change) =>
      \E e \in archiveEntries :
        /\ e.part = r.part /\ e.number = r.number /\ e.archived
        /\ r.change < e.seq /\ e.seq < u.change

MovesHaveContent ==
  \A r \in revisions : \A old \in RevisionsOf(r.part), row \in ledger :
    (old.number = r.from /\ row.seq = r.change) => MovesWith(cadRevisions, row.request, r, old)

DesignsInv ==
  /\ GuardsInv /\ AnswersInv
  /\ AllBound /\ EditedFromEarlier /\ EntriesComeLater
  /\ EditsStartFrom /\ ForksAreArchived /\ MovesHaveContent /\ ArchivedCadStaysAway

-----------------------------------------------------------------------------
(* A transaction keeps them.                                               *)

\* What is saved is told from what was there by its Change.
LEMMA OldAreEarlier ==
  ASSUME RecordsInv
  PROVE  /\ Len(changes) \in Nat /\ NewSeq = Len(changes) + 1
         /\ \A d \in details : d.change \in Nat /\ d.change < NewSeq /\ d.change # 0
         /\ \A r \in revisions :
              /\ r.change \in Nat /\ r.change < NewSeq /\ r.change # 0
              /\ r.number \in Nat /\ r.part \in Parts
         /\ \A c \in cadRevisions : c.change \in Nat /\ c.change < NewSeq
         /\ \A e \in archiveEntries : e.seq \in Nat /\ e.seq < NewSeq
<1>1. Len(changes) \in Nat /\ NewSeq = Len(changes) + 1
  BY DEF RecordsInv, TypeOK, NewSeq
<1>2. /\ \A d \in details : d.change \in Nat \ {0} /\ d.change <= Len(changes)
      /\ \A c \in cadRevisions : c.change \in Nat \ {0} /\ c.change <= Len(changes)
      /\ \A e \in archiveEntries : e.seq \in Nat \ {0} /\ e.seq <= Len(changes)
  BY DEF RecordsInv, TypeOK, SavedByChanges, DetailsRecord, CadRevisionRecord, EntryRecord, Positive
<1>3. \A r \in revisions :
        r.change \in Nat \ {0} /\ r.change <= Len(changes) /\ r.number \in Nat /\ r.part \in Parts
  BY DEF RecordsInv, TypeOK, SavedByChanges, RevisionRecord, Positive
<1> QED
  BY <1>1, <1>2, <1>3

LEMMA AnswersAreEarlier ==
  ASSUME RecordsInv, AnswersInv
  PROVE  \A row \in ledger : row.seq \in Nat /\ row.seq < NewSeq
<1>1. \A row \in ledger : row.seq \in Nat /\ (row.seq > 0 => row.seq <= Len(changes))
  BY DEF AnswersInv, AnswersTyped, LedgerRow, CarriedOutOnce
<1> QED
  BY <1>1, OldAreEarlier

\* A part's new revision is numbered after all of them, the current one too.
LEMMA NewRevisionIsLast ==
  ASSUME RecordsInv, NEW r, r.part \in Parts, RevisionAllowed(r)
  PROVE  /\ r.number \in Nat
         /\ \A s \in RevisionsOf(r.part) : s.number < r.number
         /\ current[r.part].revision \in Nat /\ current[r.part].revision < r.number
<1> DEFINE p == r.part
           last == NewestNumber(RevisionsOf(p))
<1>1. \A s \in RevisionsOf(p) : s.number \in Nat \ {0}
  BY OwnedAreTyped DEF RecordsInv
<1>2. HasNewest(RevisionsOf(p))
  BY DEF RecordsInv, NewestExist
<1>3. /\ last \in Nat /\ r.number = last + 1
      /\ \A s \in RevisionsOf(p) : s.number <= last
  BY <1>1, <1>2, NewestNumberIsLargest DEF RevisionAllowed, FollowsNewest
<1>4. current[p].revision \in Nat
  BY DEF RecordsInv, TypeOK
<1>5. current[p].revision <= last
  <2>1. CASE InCatalog(p)
    BY <1>3, <2>1, TheCurrentRevision
  <2>2. CASE ~InCatalog(p)
    BY <1>3, <2>2 DEF RecordsInv, CurrentIsNewest
  <2> QED
    BY <2>1, <2>2
<1> QED
  BY <1>1, <1>3, <1>4, <1>5

\* One transaction that saves records, and what is known of them.
Saves(w, rows) ==
  /\ WellFormed(w) /\ Faithful(w, rows)
  /\ \E actor, corr, kind : Commit(actor, corr, kind, w, rows)

LEMMA WhatIsSaved ==
  ASSUME RecordsInv, NEW w, NEW rows, Saves(w, rows)
  PROVE  /\ details' = details \cup w.details /\ revisions' = revisions \cup w.revisions
         /\ cadRevisions' = cadRevisions \cup w.cad
         /\ archiveEntries' = archiveEntries \cup w.entries /\ ledger' = ledger \cup rows
         /\ \A p : RevisionsOf(p)' = RevisionsOf(p) \cup {r \in w.revisions : r.part = p}
         /\ \A d \in w.details : d.change = NewSeq
         /\ \A r \in w.revisions :
              /\ r.change = NewSeq /\ r.part \in Parts /\ r.number \in Nat
              /\ r.from = current[r.part].revision
              /\ r.from \in Nat /\ r.from < r.number
              /\ \A s \in RevisionsOf(r.part) : s.number < r.number
              /\ \A s \in w.revisions : s.part = r.part => s = r
         /\ \A c \in w.cad : c.change = NewSeq
         /\ \A e \in w.entries :
              e.seq = NewSeq /\ e.part \in Parts /\ e.archived \in BOOLEAN /\ EntryAllowed(e)
         /\ \A row \in rows : row.seq = NewSeq
         /\ w.entries = {} \/ w.revisions = {}
<1>1. PICK actor, corr, kind : Commit(actor, corr, kind, w, rows)
  BY DEF Saves
<1>2. /\ details' = details \cup w.details /\ revisions' = revisions \cup w.revisions
      /\ cadRevisions' = cadRevisions \cup w.cad
      /\ archiveEntries' = archiveEntries \cup w.entries /\ ledger' = ledger \cup rows
      /\ GuardsAllow(w)
  BY <1>1 DEF Commit
<1>3. \A r \in w.revisions : r.part \in Parts
  BY DEF Saves, WellFormed, WritesTyped, RevisionRecord
<1>4. \A e \in w.entries : e.part \in Parts /\ e.archived \in BOOLEAN
  BY DEF Saves, WellFormed, WritesTyped, EntryRecord
<1>5. /\ \A r \in w.revisions : RevisionAllowed(r)
      /\ \A e \in w.entries : EntryAllowed(e)
  BY <1>2 DEF GuardsAllow
<1>6. ASSUME NEW r \in w.revisions
      PROVE  /\ r.number \in Nat /\ r.from = current[r.part].revision
             /\ r.from \in Nat /\ r.from < r.number
             /\ \A s \in RevisionsOf(r.part) : s.number < r.number
  <2>1. r.from = current[r.part].revision
    BY DEF Saves, Faithful
  <2> QED
    BY <1>3, <1>5, <2>1, NewRevisionIsLast
<1>7. /\ \A d \in w.details : d.change = NewSeq
      /\ \A r \in w.revisions : r.change = NewSeq
      /\ \A r, s \in w.revisions : s.part = r.part => s = r
      /\ \A c \in w.cad : c.change = NewSeq
      /\ \A e \in w.entries : e.seq = NewSeq
      /\ w.entries = {} \/ w.revisions = {}
  BY DEF Saves, WellFormed, OneForEach, EntersWhole
<1>8. \A row \in rows : row.seq = NewSeq
  BY DEF Saves, Faithful
<1>9. \A p : RevisionsOf(p)' = RevisionsOf(p) \cup {r \in w.revisions : r.part = p}
  BY <1>2 DEF RevisionsOf
<1> QED
  BY <1>2, <1>3, <1>4, <1>5, <1>6, <1>7, <1>8, <1>9

\* A CAD item revision bound is never lost and never changes.
LEMMA SavesKeepsBound ==
  ASSUME RecordsInv, AllBound, NEW w, NEW rows, Saves(w, rows)
  PROVE  AllBound'
<1>1. revisions' = revisions \cup w.revisions /\ cadRevisions' = cadRevisions \cup w.cad
  BY WhatIsSaved
<1>2. \A r \in w.revisions : BoundIn(cadRevisions', r)
  BY <1>1 DEF Saves, Faithful
<1>3. \A r \in revisions : BoundIn(cadRevisions', r)
  BY <1>1 DEF AllBound, BoundIn
<1> QED
  BY <1>1, <1>2, <1>3 DEF AllBound

LEMMA SavesKeepsEarlier ==
  ASSUME RecordsInv, EditedFromEarlier, NEW w, NEW rows, Saves(w, rows)
  PROVE  EditedFromEarlier'
<1>1. /\ revisions' = revisions \cup w.revisions
      /\ \A r \in w.revisions : r.from \in Nat /\ r.from < r.number
  BY WhatIsSaved
<1> QED
  BY <1>1 DEF EditedFromEarlier

LEMMA SavesKeepsLater ==
  ASSUME GuardsInv, EntriesComeLater, NEW w, NEW rows, Saves(w, rows)
  PROVE  EntriesComeLater'
<1>1. RecordsInv /\ EntriesNameRevisions
  BY DEF GuardsInv
<1> SUFFICES ASSUME NEW e \in archiveEntries', NEW r \in revisions',
                    r.part = e.part, r.number = e.number
             PROVE  r.change < e.seq
  BY DEF EntriesComeLater, RevisionsOf
<1>2. /\ archiveEntries' = archiveEntries \cup w.entries
      /\ revisions' = revisions \cup w.revisions
      /\ w.entries = {} \/ w.revisions = {}
      /\ \A n \in w.entries : n.seq = NewSeq
  BY <1>1, WhatIsSaved
<1>3. CASE r \in w.revisions
  <2>1. e \in archiveEntries
    BY <1>2, <1>3
  <2>2. PICK s \in RevisionsOf(r.part) : s.number = r.number
    BY <1>1, <2>1 DEF EntriesNameRevisions
  <2>3. s.number < r.number /\ r.number \in Nat
    BY <1>1, <1>3, WhatIsSaved
  <2> QED
    BY <2>2, <2>3
<1>4. CASE r \in revisions /\ e \in w.entries
  BY <1>1, <1>2, <1>4, OldAreEarlier
<1>5. CASE r \in revisions /\ e \in archiveEntries
  BY <1>5 DEF EntriesComeLater, RevisionsOf
<1> QED
  BY <1>2, <1>3, <1>4, <1>5

LEMMA SavesKeepsStarts ==
  ASSUME RecordsInv, AnswersInv, EditsStartFrom, NEW w, NEW rows, Saves(w, rows)
  PROVE  EditsStartFrom'
<1>1. /\ details' = details \cup w.details /\ revisions' = revisions \cup w.revisions
      /\ ledger' = ledger \cup rows
      /\ \A d \in w.details : d.change = NewSeq
      /\ \A r \in w.revisions : r.change = NewSeq
      /\ \A row \in rows : row.seq = NewSeq
  BY WhatIsSaved
<1>2. /\ \A d \in details : d.change # NewSeq
      /\ \A r \in revisions : r.change # NewSeq
      /\ \A row \in ledger : row.seq # NewSeq
  BY OldAreEarlier, AnswersAreEarlier
<1>3. \A row \in rows :
        /\ \A d \in w.details : DetailsStart(row.request, d)
        /\ \A r \in w.revisions : RevisionStart(row.request, r)
  BY DEF Saves, Faithful
<1>4. ASSUME NEW row \in ledger'
      PROVE  /\ \A d \in details' : d.change = row.seq => DetailsStart(row.request, d)
             /\ \A r \in revisions' : r.change = row.seq => RevisionStart(row.request, r)
  <2>1. CASE row \in rows
    BY <1>1, <1>2, <1>3, <2>1
  <2>2. CASE row \in ledger
    BY <1>1, <1>2, <2>2 DEF EditsStartFrom
  <2> QED
    BY <1>1, <2>1, <2>2
<1>5. EditsStartFrom' <=>
        \A row \in ledger' :
          /\ \A d \in details' : d.change = row.seq => DetailsStart(row.request, d)
          /\ \A r \in revisions' : r.change = row.seq => RevisionStart(row.request, r)
  BY DEF EditsStartFrom, DetailsStart, RevisionStart
<1> QED
  BY <1>4, <1>5

LEMMA SavesKeepsForks ==
  ASSUME RecordsInv, EditedFromEarlier, EntriesComeLater, ForksAreArchived,
         NEW w, NEW rows, Saves(w, rows)
  PROVE  ForksAreArchived'
<1>1. /\ revisions' = revisions \cup w.revisions
      /\ archiveEntries' = archiveEntries \cup w.entries
      /\ \A r \in w.revisions :
           r.change = NewSeq /\ r.part \in Parts /\ r.from = current[r.part].revision
  BY WhatIsSaved
<1> SUFFICES ASSUME NEW r \in revisions', NEW u \in revisions',
                    r.part = u.part, r.from = u.from, r.change < u.change
             PROVE  \E e \in archiveEntries' :
                      /\ e.part = r.part /\ e.number = r.number /\ e.archived
                      /\ r.change < e.seq /\ e.seq < u.change
  BY DEF ForksAreArchived
<1>2. r \in revisions
  BY <1>1, OldAreEarlier
<1>3. CASE u \in revisions
  BY <1>1, <1>2, <1>3 DEF ForksAreArchived
<1>4. CASE u \in w.revisions
  <2> DEFINE p == u.part
  <2>1. p \in Parts /\ r \in RevisionsOf(p) /\ r.from = current[p].revision /\ u.change = NewSeq
    BY <1>1, <1>2, <1>4 DEF RevisionsOf
  <2>2. InCatalog(p)
    BY <2>1, RecordsAreInCatalog DEF RecordsInv
  <2>3. r.number \in Nat /\ r.from \in Nat /\ r.from < r.number
    BY <1>2, OldAreEarlier DEF EditedFromEarlier
  <2>4. r.number \in Archived(p)
    BY <2>1, <2>2, <2>3, TheCurrentRevision
  <2>5. PICK e \in archiveEntries : e.part = p /\ e.archived /\ e.number = r.number
    BY <2>4 DEF Archived, ArchivedIn
  <2>6. r.change < e.seq /\ e.seq < u.change
    BY <2>1, <2>5, OldAreEarlier DEF EntriesComeLater
  <2> QED
    BY <1>1, <2>5, <2>6
<1> QED
  BY <1>1, <1>3, <1>4

\* How an edit moved its bindings is not changed by what is saved later.
LEMMA MovesStay ==
  ASSUME NEW cads, NEW all, cads \subseteq all, UniqueCad(all),
         NEW request, NEW r, NEW old, BoundIn(cads, r), BoundIn(cads, old),
         MovesWith(cads, request, r, old)
  PROVE  MovesWith(all, request, r, old)
<1> SUFFICES ASSUME NEW s \in request.cad, NEW i \in DOMAIN r.binds \cap DOMAIN old.binds,
                    r.binds[i] # old.binds[i]
             PROVE  /\ Sent(s.cad, i)
                    /\ \/ ContentAt(all, i, r.binds[i]) # ContentAt(all, i, old.binds[i])
                       \/ \E c \in all : c.item = i /\ c.number = r.binds[i] /\ c.change = r.change
  BY DEF MovesWith
<1>1. /\ \E c \in cads : c.item = i /\ c.number = r.binds[i]
      /\ \E c \in cads : c.item = i /\ c.number = old.binds[i]
  BY DEF BoundIn
<1>2. /\ ContentAt(all, i, r.binds[i]) = ContentAt(cads, i, r.binds[i])
      /\ ContentAt(all, i, old.binds[i]) = ContentAt(cads, i, old.binds[i])
  BY <1>1, ContentStays
<1>3. /\ Sent(s.cad, i)
      /\ \/ ContentAt(cads, i, r.binds[i]) # ContentAt(cads, i, old.binds[i])
         \/ \E c \in cads : c.item = i /\ c.number = r.binds[i] /\ c.change = r.change
  BY DEF MovesWith
<1> QED
  BY <1>2, <1>3

LEMMA SavesKeepsMoves ==
  ASSUME RecordsInv, AnswersInv, EditedFromEarlier, AllBound, MovesHaveContent,
         NEW w, NEW rows, Saves(w, rows), UniqueCad(cadRevisions')
  PROVE  MovesHaveContent'
<1>1. /\ revisions' = revisions \cup w.revisions /\ ledger' = ledger \cup rows
      /\ cadRevisions' = cadRevisions \cup w.cad
      /\ \A x \in w.revisions :
           /\ x.change = NewSeq /\ x.number \in Nat /\ x.from < x.number
           /\ \A s \in RevisionsOf(x.part) : s.number < x.number
           /\ \A s \in w.revisions : s.part = x.part => s = x
      /\ \A row \in rows : row.seq = NewSeq
  BY WhatIsSaved
<1>2. ASSUME NEW r \in revisions', NEW old \in revisions', NEW row \in ledger',
             old.part = r.part, old.number = r.from, row.seq = r.change
      PROVE  MovesWith(cadRevisions', row.request, r, old)
  <2>1. CASE r \in w.revisions
    <3>1. row \in rows
      BY <1>1, <1>2, <2>1, AnswersAreEarlier
    <3>2. old # r
      BY <1>1, <1>2, <2>1
    <3>3. old \in RevisionsOf(r.part)
      BY <1>1, <1>2, <2>1, <3>2 DEF RevisionsOf
    <3> QED
      BY <1>1, <1>2, <2>1, <3>1, <3>3 DEF Saves, Faithful
  <2>2. CASE r \in revisions
    <3>1. row \in ledger
      BY <1>1, <1>2, <2>2, OldAreEarlier
    <3>2. r.from < r.number /\ r.from \in Nat /\ r.number \in Nat /\ r \in RevisionsOf(r.part)
      BY <2>2, OldAreEarlier DEF EditedFromEarlier, RevisionsOf
    <3>3. old \in revisions
      BY <1>1, <1>2, <3>2
    <3>4. MovesWith(cadRevisions, row.request, r, old)
      BY <1>2, <2>2, <3>1, <3>3 DEF MovesHaveContent, RevisionsOf
    <3> QED
      BY <1>1, <2>2, <3>3, <3>4, MovesStay DEF AllBound
  <2> QED
    BY <1>1, <2>1, <2>2
<1>3. MovesHaveContent' <=>
        \A r \in revisions', old \in revisions', row \in ledger' :
          (old.part = r.part /\ old.number = r.from /\ row.seq = r.change) =>
            MovesWith(cadRevisions', row.request, r, old)
  BY DEF MovesHaveContent, RevisionsOf
<1> QED
  BY <1>2, <1>3

LEMMA SavesKeepsAway ==
  ASSUME GuardsInv, AllBound, ArchivedCadStaysAway,
         NEW w, NEW rows, Saves(w, rows), UniqueCad(cadRevisions')
  PROVE  ArchivedCadStaysAway'
<1>1. RecordsInv /\ EntriesNameRevisions
  BY DEF GuardsInv
<1>2. /\ revisions' = revisions \cup w.revisions
      /\ cadRevisions' = cadRevisions \cup w.cad
      /\ archiveEntries' = archiveEntries \cup w.entries
      /\ \A x \in w.revisions :
           /\ x.change = NewSeq /\ x.number \in Nat
           /\ \A s \in RevisionsOf(x.part) : s.number < x.number
      /\ \A e \in w.entries : e.seq = NewSeq
  BY <1>1, WhatIsSaved
<1>3. ASSUME NEW p \in Parts, NEW e \in archiveEntries', e.part = p, e.archived,
             \A f \in archiveEntries' : f.part = p /\ f.number = e.number => f.seq <= e.seq,
             NEW r \in revisions', NEW s \in revisions', r.part = p, s.part = p,
             r.number = e.number, s.change > e.seq
      PROVE  ContentIn(cadRevisions', r.binds) # ContentIn(cadRevisions', s.binds)
  <2>1. e \in archiveEntries
    BY <1>1, <1>2, <1>3, OldAreEarlier
  <2>2. e.number \in Archived(p)
    BY <1>2, <1>3, <2>1 DEF Archived, ArchivedIn
  <2>3. PICK named \in RevisionsOf(p) : named.number = e.number
    BY <1>1, <1>3, <2>1 DEF EntriesNameRevisions
  <2>4. r \in RevisionsOf(p)
    <3>1. named.number \in Nat
      BY <1>1, <2>3, OldAreEarlier DEF RevisionsOf
    <3> QED
      BY <1>2, <1>3, <2>3, <3>1 DEF RevisionsOf
  <2>5. CASE s \in w.revisions
    BY <1>2, <1>3, <2>2, <2>4, <2>5 DEF Saves, Faithful, ArchivedOf
  <2>6. CASE s \in revisions
    <3>1. r \in revisions /\ s \in RevisionsOf(p)
      BY <1>3, <2>4, <2>6 DEF RevisionsOf
    <3>2. ContentOf(r.binds) # ContentOf(s.binds)
      BY <1>2, <1>3, <2>1, <2>4, <3>1 DEF ArchivedCadStaysAway
    <3>3. /\ ContentIn(cadRevisions', r.binds) = ContentOf(r.binds)
          /\ ContentIn(cadRevisions', s.binds) = ContentOf(s.binds)
      BY <1>2, <2>6, <3>1, ContentOfStays
    <3> QED
      BY <3>2, <3>3
  <2> QED
    BY <1>2, <2>5, <2>6
<1>4. \A r : ContentOf(r.binds)' = ContentIn(cadRevisions', r.binds)
  BY DEF ContentOf, ContentIn, CadContent, ContentAt
<1> QED
  BY <1>3, <1>4 DEF ArchivedCadStaysAway, RevisionsOf

-----------------------------------------------------------------------------
(* The invariants of the designs hold.                                     *)

LEMMA CadStaysUnique ==
  ASSUME RecordsInv'
  PROVE  UniqueCad(cadRevisions')
<1>1. cadRevisions' \in SUBSET CadRevisionRecord
  BY DEF RecordsInv, TypeOK
<1>2. \A i \in Items : InOrder({c \in cadRevisions' : c.item = i})
  BY DEF RecordsInv, NumberedInOrder, InOrder
<1> QED
  BY <1>1, <1>2, InOrderIsUnique

\* What a step of the server saves, for the designs.
LEMMA WhatAStepDesigns ==
  ASSUME RecordsInv, AllBound, RecordsInv', Next
  PROVE  \/ UNCHANGED <<details, revisions, cadRevisions, archiveEntries, ledger>>
         \/ \E actor \in Actors, corr \in Correlations, request \in Request :
              AnswerNoop(actor, corr, request)
         \/ \E w, rows : Saves(w, rows)
<1> DEFINE nothing == UNCHANGED <<details, revisions, cadRevisions, archiveEntries, ledger>>
           answers == \E actor \in Actors, corr \in Correlations, request \in Request :
                        AnswerNoop(actor, corr, request)
           saves == \E w, rows : Saves(w, rows)
<1>1. ASSUME NEW w, NEW actor \in Actors, NEW corr \in Correlations, NEW request \in Request,
             WellFormed(w), Publish(actor, corr, request, w),
             Faithful(w, {Row(actor, corr, request, NewSeq)})
      PROVE  saves
  BY <1>1 DEF Publish, Saves
<1>2. ASSUME NEW actor \in Actors, NEW corr \in Correlations, NEW request \in Request
      PROVE  /\ {Row(actor, corr, request, NewSeq)} \in SUBSET LedgerRow
             /\ Row(actor, corr, request, NewSeq).seq = NewSeq
  BY NewSeqIsNext DEF Row, LedgerRow, Positive, RecordsInv
<1>3. ASSUME SetUpStartingCategories PROVE saves
  <2> DEFINE w == [NoWrites EXCEPT !.categories = StartingCategories]
  <2>1. WellFormed(w)
    BY CatalogAssumption, CategoryIsWellFormed
  <2>2. w.details = {} /\ w.revisions = {}
    BY DEF NoWrites
  <2>3. Faithful(w, {})
    BY <2>2, NothingDesignedIsFaithful
  <2> HIDE DEF w
  <2>4. \E actor, corr, kind : Commit(actor, corr, kind, w, {})
    BY <1>3 DEF SetUpStartingCategories, w
  <2>5. Saves(w, {})
    BY <2>1, <2>3, <2>4 DEF Saves
  <2> QED
    BY <2>5
<1>4. ASSUME NEW actor \in Actors, NEW corr \in Correlations, NEW request \in EditRequest,
             PublishEdit(actor, corr, request)
      PROVE  answers \/ saves
  <2>1. CASE AnswerNoop(actor, corr, request)
    BY <2>1 DEF Request
  <2>2. CASE Publish(actor, corr, request, EditWrites(request))
    <3>1. UniqueCad(cadRevisions \cup EditWrites(request).cad)
      <4>1. cadRevisions' = cadRevisions \cup EditWrites(request).cad
        BY <2>2 DEF Publish, Commit
      <4> QED
        BY <4>1, CadStaysUnique
    <3>2. EditAccepted(request) /\ request \in Request
      BY <1>4 DEF PublishEdit, Request
    <3> QED
      BY <1>1, <2>2, <3>1, <3>2, EditIsWellFormed, EditIsFaithful
  <2> QED
    BY <1>4, <2>1, <2>2 DEF PublishEdit
<1>5. ASSUME NEW actor \in Actors, NEW corr \in Correlations, NEW request \in CreateRequest,
             PublishCreate(actor, corr, request)
      PROVE  saves
  <2>1. CreateAccepted(request) /\ request \in Request
    BY <1>5 DEF PublishCreate, Request
  <2>2. Publish(actor, corr, request, CreateWrites(request))
    BY <1>5 DEF PublishCreate
  <2> QED
    BY <1>1, <2>1, <2>2, CreateIsWellFormed, CreateIsFaithful
<1>6. ASSUME NEW actor \in Actors, NEW corr \in Correlations, NEW request \in ArchiveRequest,
             PublishArchive(actor, corr, request)
      PROVE  answers \/ saves
  <2>1. CASE AnswerNoop(actor, corr, request)
    BY <2>1 DEF Request
  <2>2. CASE ArchiveAccepted(request) /\ Publish(actor, corr, request, ArchiveWrites(request))
    <3>1. ArchiveWrites(request).details = {} /\ ArchiveWrites(request).revisions = {}
      BY DEF ArchiveWrites, NoWrites
    <3>2. request \in Request
      BY DEF Request
    <3>3. Faithful(ArchiveWrites(request), {Row(actor, corr, request, NewSeq)})
      BY <1>2, <3>1, <3>2, NothingDesignedIsFaithful
    <3> QED
      BY <1>1, <2>2, <3>2, <3>3, ArchiveIsWellFormed
  <2> QED
    BY <1>6, <2>1, <2>2 DEF PublishArchive
<1>7. ASSUME NEW actor \in Actors, NEW corr \in Correlations, NEW request \in CategoryRequest,
             PublishCategory(actor, corr, request)
      PROVE  saves
  <2> DEFINE w == [NoWrites EXCEPT !.categories = {request.category}]
  <2>1. WellFormed(w)
    <3>1. {request.category} \in SUBSET Categories
      BY DEF CategoryRequest
    <3> QED
      BY <3>1, CategoryIsWellFormed
  <2>2. w.details = {} /\ w.revisions = {}
    BY DEF NoWrites
  <2>3. request \in Request /\ Publish(actor, corr, request, w)
    BY <1>7 DEF PublishCategory, Request
  <2> HIDE DEF w
  <2>4. Faithful(w, {Row(actor, corr, request, NewSeq)})
    BY <1>2, <2>2, <2>3, NothingDesignedIsFaithful
  <2> QED
    BY <1>1, <2>1, <2>3, <2>4
<1>8. ASSUME NEW corr, NEW code, SetTeamCode(corr, code)
      PROVE  nothing
  BY <1>8 DEF SetTeamCode
<1>9. ASSUME NEW actor \in Actors, NEW corr \in Correlations, Requested(actor, corr)
      PROVE  nothing \/ answers \/ saves
  <2> HIDE DEF nothing, answers, saves
  <2> QED
    BY <1>4, <1>5, <1>6, <1>7, <1>8, <1>9 DEF Requested
<1> HIDE DEF nothing, answers, saves
<1>10. nothing \/ answers \/ saves
  BY <1>3, <1>9 DEF Next
<1> QED
  BY <1>10 DEF nothing, answers, saves

\* An answer "changes nothing" names no Change, so no record either.
LEMMA NoopKeepsDesigns ==
  ASSUME DesignsInv, (GuardsInv /\ AnswersInv)',
         \/ UNCHANGED <<details, revisions, cadRevisions, archiveEntries, ledger>>
         \/ \E actor, corr, request : AnswerNoop(actor, corr, request)
  PROVE  DesignsInv'
<1>1. /\ UNCHANGED <<details, revisions, cadRevisions, archiveEntries>>
      /\ \A row \in ledger' : row \in ledger \/ row.seq = 0
  BY DEF AnswerNoop, Row
<1>2. /\ \A d \in details : d.change # 0
      /\ \A r \in revisions : r.change # 0
  BY OldAreEarlier DEF DesignsInv, GuardsInv
<1>3. (AllBound /\ EditedFromEarlier /\ EntriesComeLater /\ ForksAreArchived)'
  BY <1>1 DEF DesignsInv, AllBound, EditedFromEarlier, EntriesComeLater, ForksAreArchived,
              RevisionsOf
<1>4. EditsStartFrom'
  BY <1>1, <1>2 DEF DesignsInv, EditsStartFrom
<1>5. MovesHaveContent'
  BY <1>1, <1>2 DEF DesignsInv, MovesHaveContent, RevisionsOf
<1>6. ArchivedCadStaysAway'
  BY <1>1 DEF DesignsInv, ArchivedCadStaysAway, RevisionsOf, ContentOf, CadContent
<1> QED
  BY <1>3, <1>4, <1>5, <1>6 DEF DesignsInv

LEMMA NextDesigns == DesignsInv /\ [Next]_vars => DesignsInv'
<1> SUFFICES ASSUME DesignsInv, [Next]_vars PROVE DesignsInv'
  OBVIOUS
<1>1. RecordsInv /\ EntriesNameRevisions /\ GuardsInv /\ AnswersInv /\ AllBound
  BY DEF DesignsInv, GuardsInv
<1>2. RecordsInv' /\ EntriesNameRevisions' /\ AnswersInv'
  BY <1>1, NextRecords, NextEntries, NextAnswers
<1>3. (GuardsInv /\ AnswersInv)'
  BY <1>2 DEF GuardsInv
<1>4. ASSUME NEW w, NEW rows, Saves(w, rows)
      PROVE  DesignsInv'
  <2>1. UniqueCad(cadRevisions')
    BY <1>2, CadStaysUnique
  <2>2. /\ EditedFromEarlier /\ EntriesComeLater /\ EditsStartFrom /\ ForksAreArchived
        /\ MovesHaveContent /\ ArchivedCadStaysAway
    BY DEF DesignsInv
  <2>3. AllBound' /\ EditedFromEarlier' /\ EntriesComeLater'
    BY <1>1, <1>4, <2>2, SavesKeepsBound, SavesKeepsEarlier, SavesKeepsLater
  <2>4. EditsStartFrom' /\ ForksAreArchived'
    BY <1>1, <1>4, <2>2, SavesKeepsStarts, SavesKeepsForks
  <2>5. MovesHaveContent' /\ ArchivedCadStaysAway'
    BY <1>1, <1>4, <2>1, <2>2, SavesKeepsMoves, SavesKeepsAway
  <2> QED
    BY <1>3, <2>3, <2>4, <2>5 DEF DesignsInv
<1>5. CASE Next
  BY <1>1, <1>2, <1>3, <1>4, <1>5, WhatAStepDesigns, NoopKeepsDesigns
<1>6. CASE UNCHANGED vars
  BY <1>3, <1>6, NoopKeepsDesigns DEF vars
<1> QED
  BY <1>5, <1>6

LEMMA InitDesigns == Init => DesignsInv
<1> SUFFICES ASSUME Init PROVE DesignsInv
  OBVIOUS
<1>1. /\ details = {} /\ revisions = {} /\ archiveEntries = {} /\ ledger = {}
  BY DEF Init
<1>2. GuardsInv
  BY <1>1, InitRecords DEF GuardsInv, EntriesNameRevisions
<1>3. AllBound /\ EditedFromEarlier /\ EntriesComeLater /\ EditsStartFrom /\ ForksAreArchived
  BY <1>1 DEF AllBound, EditedFromEarlier, EntriesComeLater, EditsStartFrom, ForksAreArchived
<1>4. MovesHaveContent /\ ArchivedCadStaysAway
  BY <1>1 DEF MovesHaveContent, ArchivedCadStaysAway
<1> QED
  BY <1>2, <1>3, <1>4, InitAnswers DEF DesignsInv

LEMMA DesignsLoseNoUpdate == DesignsInv => NoLostUpdate
<1> SUFFICES ASSUME DesignsInv, NEW a \in ledger, NEW b \in ledger,
                    a.request.kind = "edit", b.request.kind = "edit",
                    a.request.part = b.request.part, 0 < a.seq, a.seq < b.seq
             PROVE  /\ \A s \in a.request.details, t \in b.request.details :
                         ~( /\ s.expected = t.expected
                            /\ \E d \in details : d.change = a.seq
                            /\ \E d \in details : d.change = b.seq )
                    /\ \A s \in a.request.cad, t \in b.request.cad, r \in revisions :
                         (s.expected = t.expected /\ r.change = a.seq
                            /\ \E u \in revisions : u.change = b.seq) =>
                         \E e \in archiveEntries :
                           /\ e.part = r.part /\ e.number = r.number /\ e.archived
                           /\ a.seq < e.seq /\ e.seq < b.seq
  BY DEF NoLostUpdate
<1>1. RecordsInv /\ EditsStartFrom /\ ForksAreArchived
  BY DEF DesignsInv, GuardsInv
<1>2. a.seq \in Nat /\ b.seq \in Nat
  BY <1>1, AnswersAreEarlier DEF DesignsInv
<1>3. ASSUME NEW s \in a.request.details, NEW t \in b.request.details,
             s.expected = t.expected,
             NEW d \in details, d.change = a.seq, NEW f \in details, f.change = b.seq
      PROVE  FALSE
  <2>1. d.part = f.part /\ d.predecessor = f.predecessor
    BY <1>1, <1>3 DEF EditsStartFrom, DetailsStart
  <2>2. d.part \in Parts
    BY <1>1 DEF RecordsInv, TypeOK, DetailsRecord
  <2>3. InOrder({x \in details : x.part = d.part})
    BY <1>1, <2>2 DEF RecordsInv, NumberedInOrder
  <2>4. d = f
    BY <2>1, <2>3 DEF InOrder
  <2> QED
    BY <1>2, <1>3, <2>4
<1>4. ASSUME NEW s \in a.request.cad, NEW t \in b.request.cad, NEW r \in revisions,
             s.expected = t.expected, r.change = a.seq,
             NEW u \in revisions, u.change = b.seq
      PROVE  \E e \in archiveEntries :
               /\ e.part = r.part /\ e.number = r.number /\ e.archived
               /\ a.seq < e.seq /\ e.seq < b.seq
  <2>1. r.part = u.part /\ r.from = u.from
    BY <1>1, <1>4 DEF EditsStartFrom, RevisionStart
  <2> QED
    BY <1>1, <1>4, <2>1 DEF ForksAreArchived
<1> QED
  BY <1>3, <1>4

LEMMA DesignsMoveWithContent == DesignsInv => BindingsMoveWithContent
<1> SUFFICES ASSUME DesignsInv, NEW r \in revisions
             PROVE  /\ \A i \in DOMAIN r.binds :
                         \E c \in CadRevisionsOf(i) : c.number = r.binds[i] /\ c.change <= r.change
                    /\ \A old \in RevisionsOf(r.part), row \in ledger :
                         (old.number = r.from /\ row.seq = r.change) =>
                         \A s \in row.request.cad, i \in DOMAIN r.binds \cap DOMAIN old.binds :
                           r.binds[i] # old.binds[i] =>
                             /\ Sent(s.cad, i)
                             /\ \/ CadContent(i, r.binds[i]) # CadContent(i, old.binds[i])
                                \/ \E c \in CadRevisionsOf(i) :
                                     c.number = r.binds[i] /\ c.change = r.change
  BY DEF BindingsMoveWithContent
<1>1. \A i \in DOMAIN r.binds :
        \E c \in CadRevisionsOf(i) : c.number = r.binds[i] /\ c.change <= r.change
  BY DEF DesignsInv, AllBound, BoundIn, CadRevisionsOf
<1>2. ASSUME NEW old \in RevisionsOf(r.part), NEW row \in ledger,
             old.number = r.from, row.seq = r.change
      PROVE  MovesWith(cadRevisions, row.request, r, old)
  BY <1>2 DEF DesignsInv, MovesHaveContent
<1> QED
  BY <1>1, <1>2, CadContentIsAt DEF MovesWith, CadRevisionsOf

\* Two edits that started from one state of a part are never both saved,
\* unless what the first saved was archived before the second came.
THEOREM NoUpdateIsLost == Spec => []NoLostUpdate
BY InitDesigns, NextDesigns, DesignsLoseNoUpdate, PTL DEF Spec

\* The CAD content of an archived revision is never saved again while it
\* stays archived.
THEOREM ArchivedCadIsNeverSavedAgain == Spec => []ArchivedCadStaysAway
<1>1. DesignsInv => ArchivedCadStaysAway
  BY DEF DesignsInv
<1> QED
  BY <1>1, InitDesigns, NextDesigns, PTL DEF Spec

\* Part revisions bind CAD item revisions there are, and a binding moves only
\* with a file of other content.
THEOREM BindingsOnlyMoveWithContent == Spec => []BindingsMoveWithContent
BY InitDesigns, NextDesigns, DesignsMoveWithContent, PTL DEF Spec
=============================================================================
