----------------------------- MODULE TeamColumn -----------------------------
(***************************************************************************)
(* Saving edits from the team column of the desktop's window: the column   *)
(* of the selected part (apps/desktop-ui/src/team.rs, main.rs), the edit   *)
(* it asks of crates/catalog-browser (team/mod.rs, pick.rs), and what the  *)
(* team server answers (pb_hooks/catalog_lib.js, publishEdit).             *)
(*                                                                         *)
(* The window is one thread: an action of the column is a handler of a     *)
(* click or of an answer, with the effects it sets off.  Between the       *)
(* actions of a call the server, other people and the window go on.        *)
(*                                                                         *)
(* A part's details and revision are one record here, with one content and *)
(* one number; Catalog has them apart.                                     *)
(***************************************************************************)
EXTENDS Naturals, Sequences

CONSTANTS
  Parts,              \* parts of all the teams the person is in
  Teams, TeamOf,      \* the team each is of
  Ipns, IpnOf,        \* its IPN: teams may use the same one
  Contents, First,    \* what a part may hold, and what it holds at first
  Items, NeedsItem,   \* the CAD items contents name, NoItem for none
  NoItem, Nothing,
  SelectWhileSaving,  \* whether people select a part while a save is out
  MaxNumber,          \* the most records of a part (bounds the edits)
  MaxIds,             \* the most correlation IDs the column makes
  MaxCalls,           \* the most saves it sends
  MaxFailures         \* how often a request or its answer is lost

ASSUME TeamColumnAssumption ==
  /\ TeamOf \in [Parts -> Teams]
  /\ IpnOf \in [Parts -> Ipns]
  /\ \A p, q \in Parts : TeamOf[p] = TeamOf[q] /\ IpnOf[p] = IpnOf[q] => p = q
  /\ First \in Contents
  /\ NeedsItem \in [Contents -> Items \cup {NoItem}]
  /\ NoItem \notin Items
  /\ SelectWhileSaving \in BOOLEAN
  /\ {MaxNumber, MaxIds, MaxCalls, MaxFailures} \subseteq Nat

VARIABLES
  saved,     \* the server: what each part held, record after record
  items,     \* the server: the CAD items each team's Catalog has
  commands,  \* the server: the edits carried out, by correlation ID
  selected,  \* the selected part
  shown,     \* team_part: what the column shows of it
  refresh,   \* the newest request for what the column is to show
  draft,     \* TeamUi.draft while the form is open, and Nothing otherwise
  conflict,  \* the edit merged in TeamUi.conflict, and Nothing otherwise
  busy,      \* TeamUi.busy
  slot,      \* TeamUi.edit_attempt
  ids,       \* how many correlation IDs the column has made
  calls,     \* the saves sent so far
  wire,      \* those whose request the server has still to handle
  failures   \* how many requests or answers were lost so far

server == <<saved, items, commands>>
column == <<selected, shown, refresh, draft, conflict, busy, slot, ids>>
vars == <<server, column, calls, wire, failures>>

Number(p) == Len(saved[p])

\* What is sent of an edit: it names the part by its IPN alone.
Sent(edit) == [ipn |-> IpnOf[edit.part], base |-> edit.base, want |-> edit.want]

-----------------------------------------------------------------------------
(* The column.                                                             *)

\* RetrySlot::open: the next save gets a new ID.
OpenSlot ==
  /\ ids < MaxIds
  /\ ids' = ids + 1
  /\ slot' = [opened |-> ids + 1, last |-> Nothing, id |-> ids + 1]

\* TeamUi::reset: the form, the conflict and the wait are over.
Reset ==
  /\ OpenSlot
  /\ draft' = Nothing /\ conflict' = Nothing /\ busy' = FALSE

\* The effects of a selection: the column is emptied, what it shows is asked
\* for, and saves name the part's team from now on.
Select(p) ==
  /\ p # selected
  /\ SelectWhileSaving \/ \A k \in DOMAIN calls : calls[k].stage = "done"
  /\ selected' = p
  /\ shown' = Nothing
  /\ refresh' = [part |-> p, number |-> 0]
  /\ Reset
  /\ UNCHANGED <<server, calls, wire, failures>>

\* A Change in the part's team: what the column shows is asked for again, and
\* an answer to an earlier request is not used any more.
LiveUpdate ==
  /\ selected # Nothing
  /\ refresh' = [part |-> selected, number |-> 0]
  /\ UNCHANGED <<server, selected, shown, draft, conflict, busy, slot, ids, calls, wire, failures>>

ReadRefresh ==
  /\ refresh # Nothing /\ refresh.number = 0
  /\ refresh' = [refresh EXCEPT !.number = Number(refresh.part)]
  /\ UNCHANGED <<server, selected, shown, draft, conflict, busy, slot, ids, calls, wire, failures>>

\* An answer older than what is shown, of a part with this IPN, is not used.
ShowRefresh ==
  /\ refresh # Nothing /\ refresh.number > 0
  /\ LET older == /\ shown # Nothing
                  /\ IpnOf[shown.part] = IpnOf[refresh.part]
                  /\ refresh.number < shown.number
     IN shown' = IF older THEN shown ELSE refresh
  /\ refresh' = Nothing
  /\ UNCHANGED <<server, selected, draft, conflict, busy, slot, ids, calls, wire, failures>>

\* start_editing: the form opens with this edit.
EditFrom(edit) ==
  /\ OpenSlot
  /\ draft' = edit
  /\ conflict' = Nothing
  /\ UNCHANGED <<server, selected, shown, refresh, busy, calls, wire, failures>>

\* Mutant of EditPart: the edit starts from the index of what is shown.
EditPartFromIndex ==
  /\ shown # Nothing /\ draft = Nothing /\ conflict = Nothing
  /\ EditFrom([part |-> shown.part, base |-> shown.number - 1,
               want |-> saved[shown.part][shown.number]])

\* "Edit part".
EditPart ==
  /\ shown # Nothing /\ draft = Nothing /\ conflict = Nothing
  /\ EditFrom([part |-> shown.part, base |-> shown.number,
               want |-> saved[shown.part][shown.number]])

\* "Edit again": the merged edit of a conflict.
EditAgain ==
  /\ shown # Nothing /\ conflict # Nothing
  /\ EditFrom(conflict)

\* The form may be typed in while a save is out.
Type(c) ==
  /\ shown # Nothing /\ draft # Nothing /\ conflict = Nothing
  /\ draft' = [draft EXCEPT !.want = c]
  /\ UNCHANGED <<server, selected, shown, refresh, conflict, busy, slot, ids, calls, wire,
                 failures>>

\* "Cancel" of the form, "Discard my changes" of the conflict.
Discard ==
  /\ draft # Nothing \/ conflict # Nothing
  /\ draft' = IF conflict = Nothing THEN Nothing ELSE draft
  /\ conflict' = Nothing
  /\ UNCHANGED <<server, selected, shown, refresh, busy, slot, ids, calls, wire, failures>>

\* Mutant of IdFor: every save gets a new ID.
IdForEverySave(edit) ==
  /\ ids < MaxIds
  /\ ids' = ids + 1
  /\ slot' = [slot EXCEPT !.last = Sent(edit), !.id = ids + 1]

\* RetrySlot::id_for: the previous ID if this is the same save sent again, the
\* form's own for its first save, otherwise a new one.
IdFor(edit) ==
  \/ /\ slot.last = Nothing \/ slot.last = Sent(edit)
     /\ slot' = [slot EXCEPT !.last = Sent(edit)]
     /\ UNCHANGED ids
  \/ /\ slot.last \notin {Nothing, Sent(edit)}
     /\ ids < MaxIds
     /\ ids' = ids + 1
     /\ slot' = [slot EXCEPT !.last = Sent(edit), !.id = ids + 1]

\* save_edit: the save goes to the team of the selected part.
Save(edit) ==
  /\ ~busy
  /\ Len(calls) < MaxCalls
  /\ IdFor(edit)
  /\ busy' = TRUE
  /\ calls' = Append(calls, [edit |-> edit, team |-> TeamOf[selected], id |-> slot'.id,
                             opened |-> slot.opened, stage |-> "asked", upload |-> FALSE,
                             answer |-> "none", number |-> 0, view |-> Nothing])
  /\ UNCHANGED <<server, selected, shown, refresh, draft, conflict, wire, failures>>

SaveDraft == shown # Nothing /\ draft # Nothing /\ conflict = Nothing /\ Save(draft)

\* "Save my changes on top of theirs".
SaveOnTop == shown # Nothing /\ conflict # Nothing /\ Save(conflict)

-----------------------------------------------------------------------------
(* The edit, in crates/catalog-browser, and at the server.                 *)

At(k, stage) == k \in DOMAIN calls /\ calls[k].stage = stage

\* The part of the call's team with the IPN it names: one at most.
Target(k) ==
  {p \in Parts : TeamOf[p] = calls[k].team /\ IpnOf[p] = IpnOf[calls[k].edit.part]}

Answered(k, answer, view) ==
  calls' = [calls EXCEPT ![k].stage = "answered", ![k].answer = answer, ![k].view = view]

\* The edit names an item of our libraries that its start does not name and
\* the team's Catalog lacks.
SendsItem(k, p) ==
  LET item == NeedsItem[calls[k].edit.want]
  IN /\ item # NoItem
     /\ item # NeedsItem[saved[p][calls[k].edit.base]]
     /\ item \notin items[calls[k].team]

\* edit_with, up to the request: what the edit changes, and the items it adds.
\* The local library folder has every item.
Compose(k) ==
  /\ At(k, "asked")
  /\ \/ /\ \A p \in Target(k) : calls[k].edit.base > Number(p)
        /\ Answered(k, "refused", Nothing)
        /\ UNCHANGED wire
     \/ \E p \in Target(k) :
          /\ calls[k].edit.base <= Number(p)
          /\ IF calls[k].edit.want = saved[p][calls[k].edit.base]
             THEN Answered(k, "nothing", Nothing) /\ UNCHANGED wire
             ELSE /\ calls' = [calls EXCEPT ![k].stage = "sent", ![k].upload = SendsItem(k, p)]
                  /\ wire' = wire \cup {k}
  /\ UNCHANGED <<server, column, failures>>

\* What a request is told apart by (requestHash).
Hash(k) == [edit |-> Sent(calls[k].edit), upload |-> calls[k].upload]

Priors(k) == {c \in commands : c.team = calls[k].team /\ c.id = calls[k].id}

\* The client may have given up the request it still sees through.
Reply(k, answer, number) ==
  calls' = IF calls[k].stage # "sent" THEN calls
           ELSE [calls EXCEPT ![k].stage = "served", ![k].answer = answer, ![k].number = number]

\* publishEdit: the earlier answer of the same command, a refusal of its ID
\* for another command, a conflict, or the edit carried out.
Serve(k) ==
  \E p \in Target(k) :
    /\ \/ /\ Priors(k) # {}
          /\ \E c \in Priors(k) :
               IF c.hash = Hash(k) THEN Reply(k, "applied", c.number) ELSE Reply(k, "reused", 0)
          /\ UNCHANGED server
       \/ /\ Priors(k) = {}
          /\ calls[k].edit.base # Number(p)
          /\ Reply(k, "conflict", Number(p))
          /\ UNCHANGED server
       \/ /\ Priors(k) = {}
          /\ calls[k].edit.base = Number(p)
          /\ Number(p) < MaxNumber
          /\ saved' = [saved EXCEPT ![p] = Append(@, calls[k].edit.want)]
          /\ items' = [items EXCEPT ![calls[k].team] =
                         IF calls[k].upload THEN @ \cup {NeedsItem[calls[k].edit.want]} ELSE @]
          /\ commands' = commands \cup
               {[team |-> calls[k].team, id |-> calls[k].id, hash |-> Hash(k),
                 number |-> Number(p) + 1]}
          /\ Reply(k, "applied", Number(p) + 1)
    /\ wire' = wire \ {k}
    /\ UNCHANGED <<column, failures>>

\* Mutant of AlreadyTheirs: it is asked whether they changed anything at all.
AlreadyAsStarted(k, p) == saved[p][calls[k].number] # saved[p][calls[k].edit.base]

\* Nothing of the edit differs from what they saved.
AlreadyTheirs(k, p) == saved[p][calls[k].number] = calls[k].edit.want

\* published and edit_conflict: the part is read again to show it, which may
\* fail.
Understand(k) ==
  /\ At(k, "served")
  /\ \E p \in Target(k) :
       LET view == [part |-> p, number |-> Number(p)]
       IN \/ calls[k].answer = "reused" /\ Answered(k, "reused", Nothing) /\ UNCHANGED failures
          \/ calls[k].answer = "applied" /\ Answered(k, "saved", view) /\ UNCHANGED failures
          \/ /\ calls[k].answer = "conflict"
             /\ Answered(k, IF AlreadyTheirs(k, p) THEN "alreadySaved" ELSE "conflict", view)
             /\ UNCHANGED failures
          \/ /\ calls[k].answer \in {"applied", "conflict"}
             /\ failures < MaxFailures /\ failures' = failures + 1
             /\ Answered(k, IF calls[k].answer = "applied" THEN "savedNotShown" ELSE "refused",
                         Nothing)
  /\ UNCHANGED <<server, column, wire>>

\* The server cannot be reached, or its answer is lost.  Its request may be
\* lost as well, or arrive later.
GiveUp(k) ==
  /\ k \in DOMAIN calls /\ calls[k].stage \in {"asked", "sent", "served"}
  /\ failures < MaxFailures /\ failures' = failures + 1
  /\ Answered(k, "unreachable", Nothing)
  /\ wire' \in {wire, wire \ {k}}
  /\ UNCHANGED <<server, column>>

\* The edit that their content and the person's changes merge into.
Merged(k) == [calls[k].edit EXCEPT !.base = calls[k].number]

\* published (team.rs): the column takes in the answer of a save.
Published(k) ==
  /\ At(k, "answered")
  /\ LET answer == calls[k].answer
     IN /\ busy' = FALSE
        /\ shown' = IF calls[k].view = Nothing THEN shown ELSE calls[k].view
        /\ draft' = IF answer \in {"saved", "savedNotShown", "alreadySaved", "conflict"}
                    THEN Nothing ELSE draft
        /\ conflict' = CASE answer = "conflict" -> Merged(k)
                         [] answer \in {"saved", "savedNotShown", "alreadySaved"} -> Nothing
                         [] OTHER -> conflict
  /\ calls' = [calls EXCEPT ![k].stage = "done"]
  /\ UNCHANGED <<server, selected, refresh, slot, ids, wire, failures>>

\* Someone else saves an edit of a part.
OthersSave(p, c) ==
  /\ Number(p) < MaxNumber
  /\ c # saved[p][Number(p)]
  /\ saved' = [saved EXCEPT ![p] = Append(@, c)]
  /\ items' = [items EXCEPT ![TeamOf[p]] = @ \cup ({NeedsItem[c]} \ {NoItem})]
  /\ UNCHANGED <<commands, column, calls, wire, failures>>

-----------------------------------------------------------------------------
Init ==
  /\ saved = [p \in Parts |-> <<First>>]
  /\ items = [t \in Teams |-> {NeedsItem[First]} \ {NoItem}]
  /\ commands = {}
  /\ selected = Nothing /\ shown = Nothing /\ refresh = Nothing
  /\ draft = Nothing /\ conflict = Nothing /\ busy = FALSE
  /\ slot = [opened |-> 0, last |-> Nothing, id |-> 0]
  /\ ids = 0
  /\ calls = << >> /\ wire = {} /\ failures = 0

Next ==
  \/ \E p \in Parts : Select(p)
  \/ LiveUpdate \/ ReadRefresh \/ ShowRefresh
  \/ EditPart \/ EditAgain \/ Discard \/ SaveDraft \/ SaveOnTop
  \/ \E c \in Contents : Type(c)
  \/ \E k \in DOMAIN calls : Compose(k) \/ Understand(k) \/ GiveUp(k) \/ Published(k)
  \/ \E k \in wire : Serve(k)
  \/ \E p \in Parts, c \in Contents : OthersSave(p, c)

Spec == Init /\ [][Next]_vars

-----------------------------------------------------------------------------
(* Properties.                                                             *)

Views == [part : Parts, number : Nat]
Edits == [part : Parts, base : Nat \ {0}, want : Contents]
Stages == {"asked", "sent", "served", "answered", "done"}
Answers == {"none", "applied", "conflict", "reused", "refused", "nothing", "unreachable",
            "saved", "savedNotShown", "alreadySaved"}

\* A conflict is always there to be merged, and a view is of a part.
TypeOK ==
  /\ saved \in [Parts -> Seq(Contents)]
  /\ items \in [Teams -> SUBSET Items]
  /\ selected \in Parts \cup {Nothing}
  /\ shown \in Views \cup {Nothing}
  /\ refresh \in Views \cup {Nothing}
  /\ draft \in Edits \cup {Nothing}
  /\ conflict \in Edits \cup {Nothing}
  /\ busy \in BOOLEAN
  /\ ids \in Nat /\ failures \in Nat
  /\ wire \subseteq DOMAIN calls
  /\ \A k \in DOMAIN calls :
       /\ calls[k].edit \in Edits /\ calls[k].team \in Teams
       /\ calls[k].stage \in Stages /\ calls[k].answer \in Answers
       /\ calls[k].view \in Views \cup {Nothing}

\* What the column says is saved is in the team's Catalog, saved after what
\* the edit started from (team.rs:360, mod.rs:664).
WhatItSaysIsSaved ==
  \A k \in DOMAIN calls :
    calls[k].stage = "done" /\ calls[k].answer \in {"saved", "savedNotShown", "alreadySaved"} =>
      \E p \in Target(k) :
        \E n \in (calls[k].edit.base + 1) .. Number(p) : saved[p][n] = calls[k].edit.want

\* The save k sends save j again: the same request, from the same form, with
\* no other one between them.
Retries(j, k) ==
  \A i \in j .. k :
    /\ calls[i].opened = calls[j].opened /\ calls[i].team = calls[j].team
    /\ Sent(calls[i].edit) = Sent(calls[j].edit)

CarriedOut(j) ==
  \E c \in commands : c.team = calls[j].team /\ c.id = calls[j].id /\ c.hash = Hash(j)

\* The answers that a save sent again must not get once it is carried out.
NotReplayed == {"conflict", "alreadySaved", "reused"}

\* Sending the same request again, after a lost answer, replays the server's
\* answer: it is not refused, and no conflict with oneself (team.rs:105-107).
RetryReplays ==
  \A k \in DOMAIN calls : \A j \in 1 .. (k - 1) :
    Retries(j, k) /\ CarriedOut(j) /\ calls[k].stage \in {"answered", "done"}
    => calls[k].answer \notin NotReplayed

\* It does so whenever the Catalog did not gain, by the first save, an item that
\* the first one sent: then the server is sent the same again.
SameBodyReplays ==
  \A k \in DOMAIN calls : \A j \in 1 .. (k - 1) :
    /\ Retries(j, k) /\ CarriedOut(j) /\ calls[k].stage \in {"answered", "done"}
    /\ Hash(j) = Hash(k)
    => calls[k].answer \notin NotReplayed

\* Every save reaches the part's own team (team.rs:66-67).
SavesReachTheirOwnTeam ==
  \A k \in DOMAIN calls : calls[k].team = TeamOf[calls[k].edit.part]
=============================================================================
