------------------------------ MODULE Catalog ------------------------------
(***************************************************************************)
(* The team server's Catalog, as infra/pocketbase/pb_hooks keeps it: the   *)
(* routes that publish an edit, a new part, an archive or unarchive and a  *)
(* category (catalog_lib.js), the team code (team.pb.js), and the write    *)
(* guards every save of theirs must pass (catalog_write_guards.pb.js).     *)
(*                                                                         *)
(* A route runs in one database transaction, so each is one action.  A     *)
(* request that is answered without saving anything (a replay, a conflict, *)
(* an IPN taken, a refusal) leaves every variable as it is, so it is a     *)
(* stuttering step: an action's guard is the conjunction of what the route *)
(* checks before it saves.                                                 *)
(*                                                                         *)
(* A record is named by its owner and number, as its derived ID is; a      *)
(* Change by its seq.  An optional value is a set of at most one element.  *)
(***************************************************************************)
EXTENDS Naturals, Sequences, FiniteSets

CONSTANTS
  Parts,              \* IPNs, each naming one part for good
  Actors,             \* who may publish (catalogEditor refuses anyone else)
  Correlations,       \* correlation IDs a client can send
  SetupCorrelation,   \* SETUP_CORRELATION_ID, which a client can send as well
  Categories,         \* category codes
  StartingCategories, \* the codes of catalog_starting_categories.json
  Fields,             \* what part details hold besides their category
  Items,              \* CAD items: symbols and footprints of our libraries
  Contents,           \* what a CAD item's file can hold
  Codes, NoCode,      \* team codes, and the blank one
  Numbers             \* the numbers a request can name (bounds the requests)

ASSUME CatalogAssumption ==
  /\ StartingCategories \subseteq Categories
  /\ NoCode \notin Codes
  /\ Numbers \subseteq Nat \ {0}

VARIABLES
  changes,        \* catalog_changes, in seq order
  details,        \* catalog_part_details
  revisions,      \* catalog_part_revisions
  cadRevisions,   \* catalog_cad_item_revisions
  archiveEntries, \* catalog_archive_entries
  matches,        \* catalog_category_matches
  categories,     \* the codes in catalog_categories
  current,        \* each part's current_details_number and current_revision_number
  ledger,         \* catalog_commands
  audits,         \* the correlation IDs of catalog_audit_entries
  teamCode        \* team_settings.code

vars == <<changes, details, revisions, cadRevisions, archiveEntries, matches,
          categories, current, ledger, audits, teamCode>>

-----------------------------------------------------------------------------
(* Requests.                                                               *)

Optional(S) == {{}} \cup {{x} : x \in S}
PartialFunctions(S, T) == UNION {[D -> T] : D \in SUBSET S}

DetailsDoc == [category : Categories, fields : Fields]
DetailsSection == [expected : Numbers, doc : DetailsDoc]

\* The Symbol and Footprint fields name CAD items; a file may be sent for a
\* CAD item they name.
CadFields ==
  {f \in [names : SUBSET Items, uploads : PartialFunctions(Items, Contents)] :
     DOMAIN f.uploads \subseteq f.names}
CadSection == [expected : Numbers, cad : CadFields]

EditRequest ==
  {r \in [kind : {"edit"}, part : Parts, details : Optional(DetailsSection),
          cad : Optional(CadSection)] : r.details # {} \/ r.cad # {}}
CreateRequest == [kind : {"create"}, part : Parts, doc : DetailsDoc, newCad : CadFields]
ArchiveRequest == [kind : {"archive", "unarchive"}, part : Parts, revision : Numbers]
CategoryRequest == [kind : {"category"}, category : Categories]
Request == EditRequest \cup CreateRequest \cup ArchiveRequest \cup CategoryRequest

-----------------------------------------------------------------------------
(* Reading what is stored.                                                 *)

\* The newest of a set of numbered records, or none.
Newest(S) == {r \in S : \A s \in S : s.number <= r.number}

\* The number of the newest record of S, 0 when there is none.
NewestNumber(S) == IF Newest(S) = {} THEN 0 ELSE (CHOOSE r \in Newest(S) : TRUE).number

DetailsOf(p) == {d \in details : d.part = p}
RevisionsOf(p) == {r \in revisions : r.part = p}

\* Mutant of CadRevisionsOf: keyed by content, as their IDs once were.
CadRevisionsByContent(i) ==
  {c \in cadRevisions : c.item = i /\
     \A d \in cadRevisions : d.item = i /\ d.content = c.content => c.number <= d.number}
CadRevisionsOf(i) == {c \in cadRevisions : c.item = i}

InCatalog(p) == current[p].details # 0
CurrentDetails(p) == CHOOSE d \in DetailsOf(p) : d.number = current[p].details
CurrentRevision(p) == CHOOSE r \in RevisionsOf(p) : r.number = current[p].revision

\* The numbers of a part's archived revisions: the latest archive entry of a
\* revision says whether it is archived.
ArchivedIn(entries, p) ==
  {e.number : e \in {e \in entries :
     /\ e.part = p /\ e.archived
     /\ \A f \in entries : f.part = p /\ f.number = e.number => f.seq <= e.seq}}
Archived(p) == ArchivedIn(archiveEntries, p)

\* A part's newest revision that is not archived, or none.
NewestNotArchived(p, archived) == Newest({r \in RevisionsOf(p) : r.number \notin archived})

\* The content of a CAD item's revision, and of a set of bound ones.
CadContent(i, n) == (CHOOSE c \in cadRevisions : c.item = i /\ c.number = n).content
ContentOf(binds) == [i \in DOMAIN binds |-> CadContent(i, binds[i])]

\* Mutant of Prior: a kept "changes nothing" answer is not found again.
PriorApplied(corr) == {row \in ledger : row.correlation = corr /\ row.seq > 0}
Prior(corr) == {row \in ledger : row.correlation = corr}

\* Change and audit entry IDs are derived from the correlation ID and unique,
\* so a save that would repeat one fails and its transaction saves nothing.
IdsFree(corr) ==
  /\ \A i \in 1..Len(changes) : changes[i].correlation # corr
  /\ corr \notin audits

-----------------------------------------------------------------------------
(* The write guards.                                                       *)
(*                                                                         *)
(* w is what one transaction saves: for each collection the new records.   *)
(* Every one of them names the Change saved with them, number w.seq.       *)

NoWrites == [details |-> {}, revisions |-> {}, cad |-> {}, entries |-> {},
             matches |-> {}, categories |-> {}]

\* numberedRecordProblem: a numbered record comes right after the newest.
FollowsNewest(r, owned) ==
  /\ r.number = NewestNumber(owned) + 1
  /\ r.predecessor = NewestNumber(owned)

\* New details move their part to the details right after the current ones.
DetailsAllowed(d) ==
  /\ FollowsNewest(d, DetailsOf(d.part))
  /\ d.number = current[d.part].details + 1
  /\ d.predecessor = current[d.part].details

\* A new revision moves its part to the newest revision not archived.
RevisionAllowed(r) ==
  /\ FollowsNewest(r, RevisionsOf(r.part))
  /\ Newest({s \in RevisionsOf(r.part) \cup {r} : s.number \notin Archived(r.part)}) = {r}

CadRevisionAllowed(c) == FollowsNewest(c, CadRevisionsOf(c.item))

\* An archive entry changes the state of one of the part's revisions, leaves
\* one not archived, and names the newest such one as current afterwards.
EntryAllowed(e) ==
  LET archived == ArchivedIn(archiveEntries \cup {e}, e.part)
      after == NewestNotArchived(e.part, archived)
  IN /\ \E r \in RevisionsOf(e.part) : r.number = e.number
     /\ e.archived # (e.number \in Archived(e.part))
     /\ after # {}
     /\ \A r \in after : r.number = e.after

\* A remembered match is a category confirmed for a new part, or by an edit
\* that took the part's details from another category.
MatchAllowed(m, w) ==
  \E d \in w.details :
    /\ d.part = m.part
    /\ d.doc.category = m.category
    /\ \/ d.number = 1
       \/ \E before \in DetailsOf(m.part) :
            before.number = d.predecessor /\ before.doc.category # m.category

GuardsAllow(w) ==
  /\ \A d \in w.details : DetailsAllowed(d)
  /\ \A r \in w.revisions : RevisionAllowed(r)
  /\ \A c \in w.cad : CadRevisionAllowed(c)
  /\ \A e \in w.entries : EntryAllowed(e)
  /\ \A m \in w.matches : MatchAllowed(m, w)

-----------------------------------------------------------------------------
(* Committing a transaction.                                               *)

NewSeq == Len(changes) + 1

\* Saving new details, a new revision or an archive entry moves the part.
Moved(old, moves) == IF moves = {} THEN old ELSE CHOOSE n \in moves : TRUE

\* Mutant of CurrentAfter: an archive entry does not move the part.
CurrentAfterIgnoringEntries(w) ==
  [p \in Parts |->
    [details |-> Moved(current[p].details, {d.number : d \in {d \in w.details : d.part = p}}),
     revision |-> Moved(current[p].revision,
                        {r.number : r \in {r \in w.revisions : r.part = p}})]]

\* Mutant of CurrentAfter: a part never moves back to an older revision.
CurrentAfterNeverBack(w) ==
  [p \in Parts |->
    [details |-> Moved(current[p].details, {d.number : d \in {d \in w.details : d.part = p}}),
     revision |-> Moved(current[p].revision,
                        {r.number : r \in {r \in w.revisions : r.part = p}}
                        \cup {e.after : e \in {e \in w.entries :
                                e.part = p /\ e.after > current[p].revision}})]]

CurrentAfter(w) ==
  [p \in Parts |->
    [details |-> Moved(current[p].details, {d.number : d \in {d \in w.details : d.part = p}}),
     revision |-> Moved(current[p].revision,
                        {r.number : r \in {r \in w.revisions : r.part = p}}
                        \cup {e.after : e \in {e \in w.entries : e.part = p}})]]

\* The answer kept under the correlation ID: seq is 0 for "changes nothing".
Row(actor, corr, request, seq) ==
  [correlation |-> corr, actor |-> actor, request |-> request, seq |-> seq]

\* The Change, its records, the part's move, the audit entry and the answer
\* kept, all or nothing: a guard that refuses one of them, with "programming
\* error", undoes the whole transaction, and so does an ID that is taken.
Commit(actor, corr, kind, w, rows) ==
  /\ IdsFree(corr)
  /\ GuardsAllow(w)
  /\ changes' = Append(changes, [correlation |-> corr, actor |-> actor, kind |-> kind])
  /\ details' = details \cup w.details
  /\ revisions' = revisions \cup w.revisions
  /\ cadRevisions' = cadRevisions \cup w.cad
  /\ archiveEntries' = archiveEntries \cup w.entries
  /\ matches' = matches \cup w.matches
  /\ categories' = categories \cup w.categories
  /\ current' = CurrentAfter(w)
  /\ ledger' = ledger \cup rows
  /\ audits' = audits \cup {corr}
  /\ UNCHANGED teamCode

\* A publishing route saves w and keeps its answer, in one transaction.
Publish(actor, corr, request, w) ==
  Commit(actor, corr, request.kind, w, {Row(actor, corr, request, NewSeq)})

\* The route has nothing to save and keeps that answer.
AnswerNoop(actor, corr, request) ==
  /\ ledger' = ledger \cup {Row(actor, corr, request, 0)}
  /\ UNCHANGED <<changes, details, revisions, cadRevisions, archiveEntries, matches,
                 categories, current, audits, teamCode>>

-----------------------------------------------------------------------------
(* Binding CAD (preparedUploads, cadReferences).                           *)

Sent(cad, i) == i \in DOMAIN cad.uploads

\* An uploaded file makes a new CAD item revision unless it has the content
\* of the CAD item's current one.
MakesNew(cad, i) ==
  /\ Sent(cad, i)
  /\ \A c \in Newest(CadRevisionsOf(i)) : c.content # cad.uploads[i]

\* New CAD item revisions come right after the newest ones.
NewCadRevisions(cad) ==
  {[item |-> i, number |-> NewestNumber(CadRevisionsOf(i)) + 1,
    predecessor |-> NewestNumber(CadRevisionsOf(i)),
    content |-> cad.uploads[i], change |-> NewSeq] :
     i \in {i \in DOMAIN cad.uploads : MakesNew(cad, i)}}

\* Mutant of Binding: a CAD item named again moves to its current revision.
BindingToCurrent(cad, old, i) ==
  NewestNumber(CadRevisionsOf(i)) + (IF MakesNew(cad, i) THEN 1 ELSE 0)

\* The revision of CAD item i a new part revision binds, when the part binds
\* `old` now: the new one its file makes; the one bound now while no file is
\* sent or the file has the same content; otherwise the CAD item's current one.
Binding(cad, old, i) ==
  LET newest == NewestNumber(CadRevisionsOf(i))
  IN IF MakesNew(cad, i) THEN newest + 1
     ELSE IF i \in DOMAIN old /\ (Sent(cad, i) => CadContent(i, old[i]) = cad.uploads[i])
     THEN old[i]
     ELSE newest

Binds(cad, old) == [i \in cad.names |-> Binding(cad, old, i)]

\* Every CAD item named is sent, bound already, or in the Catalog.
CadKnown(cad, old) ==
  \A i \in cad.names : Sent(cad, i) \/ i \in DOMAIN old \/ CadRevisionsOf(i) # {}

\* The CAD content of a part revision binding `binds`, some of it sent now.
NewContentOf(cad, binds) ==
  [i \in DOMAIN binds |-> IF MakesNew(cad, i) THEN cad.uploads[i] ELSE CadContent(i, binds[i])]

-----------------------------------------------------------------------------
(* publishEdit.                                                            *)

\* Mutant of Conflict: only the details section is checked.
ConflictInDetailsOnly(request) ==
  \E s \in request.details : s.expected # current[request.part].details

\* A section that started from something no longer current.
Conflict(request) ==
  \/ \E s \in request.details : s.expected # current[request.part].details
  \/ \E s \in request.cad : s.expected # current[request.part].revision

\* The new details document, if the edit changes it.
EditedDetails(request) ==
  LET p == request.part
  IN {[part |-> p, number |-> current[p].details + 1, predecessor |-> current[p].details,
       doc |-> s.doc, change |-> NewSeq] :
        s \in {s \in request.details : s.doc # CurrentDetails(p).doc}}

\* The sections whose CAD differs from the current revision's.
ChangedCad(request) ==
  LET old == CurrentRevision(request.part).binds
  IN {s \in request.cad : Binds(s.cad, old) # old}

\* Mutant of EditedRevision: numbered after the current revision, forgetting
\* that newer ones may be archived.
EditedRevisionAfterCurrent(request) ==
  LET p == request.part
  IN {[part |-> p, number |-> current[p].revision + 1,
       predecessor |-> current[p].revision, from |-> current[p].revision,
       binds |-> Binds(s.cad, CurrentRevision(p).binds), change |-> NewSeq] :
        s \in ChangedCad(request)}

\* The new revision, if the edit changes the CAD: after the newest one, which
\* may be archived; `from` is the revision it was edited from.
EditedRevision(request) ==
  LET p == request.part
  IN {[part |-> p, number |-> NewestNumber(RevisionsOf(p)) + 1,
       predecessor |-> NewestNumber(RevisionsOf(p)), from |-> current[p].revision,
       binds |-> Binds(s.cad, CurrentRevision(p).binds), change |-> NewSeq] :
        s \in ChangedCad(request)}

\* Mutant of BringsArchivedBack: compares CAD item numbers, not content.
BringsArchivedBindsBack(request) ==
  \E s \in ChangedCad(request), r \in RevisionsOf(request.part) :
    /\ r.number \in Archived(request.part)
    /\ r.binds = Binds(s.cad, CurrentRevision(request.part).binds)

\* The CAD of an archived revision is never saved again; it is unarchived.
BringsArchivedBack(request) ==
  \E s \in ChangedCad(request), r \in RevisionsOf(request.part) :
    /\ r.number \in Archived(request.part)
    /\ ContentOf(r.binds) = NewContentOf(s.cad, Binds(s.cad, CurrentRevision(request.part).binds))

\* The category a person chose is remembered with the clues the part has.
EditedMatches(request) ==
  {[part |-> request.part, category |-> d.doc.category, change |-> NewSeq] :
     d \in {d \in EditedDetails(request) :
              d.doc.category # CurrentDetails(request.part).doc.category}}

EditWrites(request) ==
  [NoWrites EXCEPT
     !.details = EditedDetails(request),
     !.revisions = EditedRevision(request),
     !.cad = UNION {NewCadRevisions(s.cad) : s \in ChangedCad(request)},
     !.matches = EditedMatches(request)]

EditAccepted(request) ==
  LET p == request.part
  IN /\ InCatalog(p)
     /\ ~Conflict(request)
     /\ \A s \in request.details :
          s.doc.category \in categories \cup {CurrentDetails(p).doc.category}
     /\ \A s \in request.cad : CadKnown(s.cad, CurrentRevision(p).binds)
     /\ ~BringsArchivedBack(request)

EditNothing(request) == EditedDetails(request) = {} /\ EditedRevision(request) = {}

PublishEdit(actor, corr, request) ==
  /\ Prior(corr) = {}
  /\ EditAccepted(request)
  /\ \/ EditNothing(request) /\ AnswerNoop(actor, corr, request)
     \/ ~EditNothing(request) /\ Publish(actor, corr, request, EditWrites(request))

-----------------------------------------------------------------------------
(* publishCreate.                                                          *)

NoBinds == <<>>

CreateWrites(request) ==
  LET p == request.part
  IN [NoWrites EXCEPT
       !.details = {[part |-> p, number |-> 1, predecessor |-> 0, doc |-> request.doc,
                     change |-> NewSeq]},
       !.revisions = {[part |-> p, number |-> 1, predecessor |-> 0, from |-> 0,
                       binds |-> Binds(request.newCad, NoBinds), change |-> NewSeq]},
       !.cad = NewCadRevisions(request.newCad),
       !.matches = {[part |-> p, category |-> request.doc.category, change |-> NewSeq]}]

\* An IPN is never reused, and a new part makes new CAD items only: a file
\* for a CAD item the Catalog has must have its current content.
CreateAccepted(request) ==
  /\ ~InCatalog(request.part)
  /\ request.doc.category \in categories
  /\ \A i \in DOMAIN request.newCad.uploads :
       MakesNew(request.newCad, i) => CadRevisionsOf(i) = {}
  /\ CadKnown(request.newCad, NoBinds)

PublishCreate(actor, corr, request) ==
  /\ Prior(corr) = {}
  /\ CreateAccepted(request)
  /\ Publish(actor, corr, request, CreateWrites(request))

-----------------------------------------------------------------------------
(* publishArchive.                                                         *)

Archives(request) == request.kind = "archive"

\* Saving the entry moves the part to the newest revision not archived.
ArchiveWrites(request) ==
  LET p == request.part
      archived == IF Archives(request) THEN Archived(p) \cup {request.revision}
                  ELSE Archived(p) \ {request.revision}
  IN [NoWrites EXCEPT !.entries =
        {[part |-> p, number |-> request.revision, archived |-> Archives(request),
          seq |-> NewSeq, after |-> r.number] : r \in NewestNotArchived(p, archived)}]

ArchiveNothing(request) ==
  (request.revision \in Archived(request.part)) = Archives(request)

ArchiveFound(request) ==
  \E r \in RevisionsOf(request.part) : r.number = request.revision

\* Not when it would leave no revision that is not archived.
ArchiveAccepted(request) ==
  /\ ArchiveFound(request)
  /\ ~ArchiveNothing(request)
  /\ ArchiveWrites(request).entries # {}

PublishArchive(actor, corr, request) ==
  /\ Prior(corr) = {}
  /\ \/ /\ ArchiveFound(request)
        /\ ArchiveNothing(request)
        /\ AnswerNoop(actor, corr, request)
     \/ /\ ArchiveAccepted(request)
        /\ Publish(actor, corr, request, ArchiveWrites(request))

-----------------------------------------------------------------------------
(* publishCategory, the starting categories and the team code.             *)

PublishCategory(actor, corr, request) ==
  /\ Prior(corr) = {}
  /\ request.category \notin categories
  /\ Publish(actor, corr, request, [NoWrites EXCEPT !.categories = {request.category}])

SetupActor == "server:setup"

\* A migration, before the server answers anyone: a server with no Change
\* gets the starting categories in its first Change.  No answer is kept.
SetUpStartingCategories ==
  /\ changes = <<>>
  /\ Commit(SetupActor, SetupCorrelation, "category",
            [NoWrites EXCEPT !.categories = StartingCategories], {})

\* Mutant of SetTeamCode: the audit entry is filed under the code.
SetTeamCodeAuditedByCode(corr, code) ==
  /\ teamCode = NoCode
  /\ corr \notin audits
  /\ teamCode' = code
  /\ audits' = audits \cup {code}
  /\ UNCHANGED <<changes, details, revisions, cadRevisions, archiveEntries, matches,
                 categories, current, ledger>>

\* The team code is chosen once.  It has an audit entry but no Change, and no
\* answer is kept: asking again for the code it has changes nothing.
SetTeamCode(corr, code) ==
  /\ teamCode = NoCode
  /\ corr \notin audits
  /\ teamCode' = code
  /\ audits' = audits \cup {corr}
  /\ UNCHANGED <<changes, details, revisions, cadRevisions, archiveEntries, matches,
                 categories, current, ledger>>

-----------------------------------------------------------------------------
Init ==
  /\ changes = <<>>
  /\ details = {} /\ revisions = {} /\ cadRevisions = {}
  /\ archiveEntries = {} /\ matches = {} /\ categories = {}
  /\ current = [p \in Parts |-> [details |-> 0, revision |-> 0]]
  /\ ledger = {}
  /\ audits = {}
  /\ teamCode = NoCode

\* What anyone who may edit can ask for, under any correlation ID.
Requested(actor, corr) ==
  \/ \E request \in EditRequest : PublishEdit(actor, corr, request)
  \/ \E request \in CreateRequest : PublishCreate(actor, corr, request)
  \/ \E request \in ArchiveRequest : PublishArchive(actor, corr, request)
  \/ \E request \in CategoryRequest : PublishCategory(actor, corr, request)
  \/ \E code \in Codes : SetTeamCode(corr, code)

Next ==
  \/ SetUpStartingCategories
  \/ /\ changes # <<>>
     /\ \E actor \in Actors, corr \in Correlations : Requested(actor, corr)

Spec == Init /\ [][Next]_vars

-----------------------------------------------------------------------------
(* Properties.                                                             *)

Kind == {"edit", "create", "archive", "unarchive", "category"}
Positive == Nat \ {0}
DetailsRecord ==
  [part : Parts, number : Positive, predecessor : Nat, doc : DetailsDoc, change : Positive]
RevisionRecord(bound) ==
  [part : Parts, number : Positive, predecessor : Nat, from : Nat,
   binds : [bound -> Positive], change : Positive]
CadRevisionRecord ==
  [item : Items, number : Positive, predecessor : Nat, content : Contents, change : Positive]
EntryRecord ==
  [part : Parts, number : Positive, archived : BOOLEAN, seq : Positive, after : Positive]
MatchRecord == [part : Parts, category : Categories, change : Positive]
ChangeRecord ==
  [correlation : Correlations \cup {SetupCorrelation}, actor : Actors \cup {SetupActor},
   kind : Kind]
LedgerRow == [correlation : Correlations, actor : Actors, request : Request, seq : Nat]

\* Every collection holds records of its schema (pb_migrations).
TypeOK ==
  /\ changes \in Seq(ChangeRecord)
  /\ details \subseteq DetailsRecord
  /\ \A r \in revisions :
       DOMAIN r.binds \subseteq Items /\ r \in RevisionRecord(DOMAIN r.binds)
  /\ cadRevisions \subseteq CadRevisionRecord
  /\ archiveEntries \subseteq EntryRecord
  /\ matches \subseteq MatchRecord
  /\ categories \subseteq Categories
  /\ current \in [Parts -> [details : Nat, revision : Nat]]
  /\ ledger \subseteq LedgerRow
  /\ audits \subseteq Correlations \cup {SetupCorrelation}
  /\ teamCode \in Codes \cup {NoCode}

\* No request an editor can send makes a route write what the write guards
\* refuse: "A refused write is always a programming error in server code,
\* never a person's mistake" (catalog_lib.js:1553).
GuardsNeverTrip ==
  /\ \A r \in EditRequest :
       EditAccepted(r) /\ ~EditNothing(r) => GuardsAllow(EditWrites(r))
  /\ \A r \in CreateRequest : CreateAccepted(r) => GuardsAllow(CreateWrites(r))
  /\ \A r \in ArchiveRequest : ArchiveAccepted(r) => GuardsAllow(ArchiveWrites(r))

\* A part in the Catalog stands on its newest details, and on its newest
\* revision that is not archived, of which there is always one
\* (catalog_write_guards.pb.js:155); any other part has nothing saved.
CurrentIsNewest ==
  \A p \in Parts :
    IF InCatalog(p)
    THEN /\ {d.number : d \in Newest(DetailsOf(p))} = {current[p].details}
         /\ {r.number : r \in NewestNotArchived(p, Archived(p))} = {current[p].revision}
    ELSE DetailsOf(p) = {} /\ RevisionsOf(p) = {} /\ current[p].revision = 0

\* Numbered records of one owner run 1, 2, 3, ... with no number missing or
\* used twice, each naming the one before it and saved by a later Change
\* (catalog_lib.js:1487).
InOrder(owned) ==
  \A r \in owned :
    /\ \A s \in owned : s.number = r.number => s = r
    /\ r.predecessor + 1 = r.number
    /\ r.predecessor # 0 =>
         \E s \in owned : s.number = r.predecessor /\ s.change < r.change
NumberedInOrder ==
  /\ \A p \in Parts : InOrder({d \in details : d.part = p})
  /\ \A p \in Parts : InOrder({r \in revisions : r.part = p})
  /\ \A i \in Items : InOrder({c \in cadRevisions : c.item = i})

\* A correlation ID has at most one answer kept and at most one Change, the
\* answer says which, and it was the same person's: however often a request
\* is sent again, it is carried out once (catalog_lib.js:300).
CarriedOutOnce ==
  /\ \A a, b \in ledger : a.correlation = b.correlation => a = b
  /\ \A a \in ledger : a.seq > 0 =>
       /\ a.seq <= Len(changes)
       /\ changes[a.seq] = [correlation |-> a.correlation, actor |-> a.actor,
                            kind |-> a.request.kind]
  /\ \A n \in 1..Len(changes) :
       changes[n].correlation # SetupCorrelation => \E a \in ledger : a.seq = n
  /\ \A m, n \in 1..Len(changes) :
       changes[m].correlation = changes[n].correlation => m = n

\* Two edits that started from the same details are never both saved, and two
\* that started from the same revision only when the revision the first saved
\* was archived before the second came (catalog_lib.js:304, step 2 of an edit).
NoLostUpdate ==
  \A a, b \in ledger :
    (a.request.kind = "edit" /\ b.request.kind = "edit"
       /\ a.request.part = b.request.part /\ 0 < a.seq /\ a.seq < b.seq) =>
    /\ \A s \in a.request.details, t \in b.request.details :
         ~( /\ s.expected = t.expected
            /\ \E d \in details : d.change = a.seq
            /\ \E d \in details : d.change = b.seq )
    /\ \A s \in a.request.cad, t \in b.request.cad, r \in revisions :
         (s.expected = t.expected /\ r.change = a.seq
            /\ \E u \in revisions : u.change = b.seq) =>
         \E e \in archiveEntries :
           /\ e.part = r.part /\ e.number = r.number /\ e.archived
           /\ a.seq < e.seq /\ e.seq < b.seq

\* While a revision stays archived, no later revision of its part has the same
\* CAD content, whatever CAD item numbers it binds: an archived design comes
\* back only by unarchiving it (catalog_lib.js:2557).
ArchivedCadStaysAway ==
  \A p \in Parts : \A e \in archiveEntries :
    (e.part = p /\ e.archived
       /\ \A f \in archiveEntries : f.part = p /\ f.number = e.number => f.seq <= e.seq) =>
    \A r, s \in RevisionsOf(p) :
      (r.number = e.number /\ s.change > e.seq) => ContentOf(r.binds) # ContentOf(s.binds)

\* A part revision binds CAD item revisions that exist, saved no later than
\* it.  An edit moves a binding to another revision of the same CAD item only
\* when it sends a file for it, and then only for other content or for the
\* revision that file makes (catalog_lib.js:1861).
BindingsMoveWithContent ==
  \A r \in revisions :
    /\ \A i \in DOMAIN r.binds :
         \E c \in CadRevisionsOf(i) : c.number = r.binds[i] /\ c.change <= r.change
    /\ \A old \in RevisionsOf(r.part), row \in ledger :
         (old.number = r.from /\ row.seq = r.change) =>
         \A s \in row.request.cad, i \in DOMAIN r.binds \cap DOMAIN old.binds :
           r.binds[i] # old.binds[i] =>
             /\ Sent(s.cad, i)
             /\ \/ CadContent(i, r.binds[i]) # CadContent(i, old.binds[i])
                \/ \E c \in CadRevisionsOf(i) : c.number = r.binds[i] /\ c.change = r.change

\* What the records naming each Change say, as a desktop following Changes
\* reads them.
NumberIn(S) == IF S = {} THEN 0 ELSE CHOOSE n \in S : TRUE
SaidBy(n) ==
  [p \in Parts |->
    [details |-> NumberIn({d.number : d \in {d \in details : d.part = p /\ d.change = n}}),
     revision |-> NumberIn({r.number : r \in {r \in revisions : r.part = p /\ r.change = n}}
                           \cup {e.after : e \in {e \in archiveEntries :
                                               e.part = p /\ e.seq = n}})]]
Log == [n \in 1..Len(changes) |-> SaidBy(n)]

\* The server keeps its promise to the desktops: a part moves only to what the
\* Change saved in the same transaction says, and everything a Change saves
\* for a part moves it (catalog_lib.js:1526).
Contract == INSTANCE ChangeLog WITH log <- Log, current <- current
KeepsContract == Contract!Spec

=============================================================================
