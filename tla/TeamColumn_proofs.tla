------------------------- MODULE TeamColumn_proofs -------------------------
(***************************************************************************)
(* What the team column can rely on, for any parts, teams, contents and    *)
(* number of saves, whatever is lost, late or done by others meanwhile.    *)
(***************************************************************************)
EXTENDS TeamColumn, TLAPS

-----------------------------------------------------------------------------
(* Types.                                                                  *)

SentEdits == [ipn : Ipns, base : Nat \ {0}, want : Contents]
Hashes == [edit : SentEdits, upload : BOOLEAN]
Calls == [edit : Edits, team : Teams, id : Nat, opened : Nat, stage : Stages,
          upload : BOOLEAN, answer : Answers, number : Nat, view : Views \cup {Nothing}]
Commands == [team : Teams, id : Nat, hash : Hashes, number : Nat]
Slots == [opened : Nat, last : SentEdits \cup {Nothing}, id : Nat]

\* What is shown of a part was saved.
ViewExists(v) == v # Nothing => v.number \in 1 .. Number(v.part)

ServerTyped ==
  /\ saved \in [Parts -> Seq(Contents)]
  /\ items \in [Teams -> SUBSET Items]
  /\ commands \subseteq Commands
  /\ \A p \in Parts : Number(p) > 0

ColumnTyped ==
  /\ selected \in Parts \cup {Nothing}
  /\ shown \in Views \cup {Nothing} /\ ViewExists(shown)
  /\ refresh \in Views \cup {Nothing}
  /\ refresh # Nothing => refresh.number <= Number(refresh.part)
  /\ draft \in Edits \cup {Nothing} /\ conflict \in Edits \cup {Nothing}
  /\ busy \in BOOLEAN /\ slot \in Slots /\ ids \in Nat
  /\ shown # Nothing \/ refresh # Nothing => selected \in Parts

\* A conflict names a record, to be merged with the edit, and only an item of
\* our libraries is sent.
CallsTyped ==
  /\ calls \in Seq(Calls) /\ wire \subseteq DOMAIN calls /\ failures \in Nat
  /\ calls # << >> => selected \in Parts
  /\ \A k \in DOMAIN calls :
       /\ ViewExists(calls[k].view)
       /\ calls[k].answer = "conflict" => calls[k].number > 0
       /\ calls[k].upload => NeedsItem[calls[k].edit.want] \in Items

TypeInv == ServerTyped /\ ColumnTyped /\ CallsTyped

LEMMA TypeInvTypes == TypeInv => TypeOK
<1> SUFFICES ASSUME TypeInv PROVE TypeOK
  OBVIOUS
<1>1. \A k \in DOMAIN calls : calls[k] \in Calls
  BY DEF TypeInv, CallsTyped
<1>2. \A k \in DOMAIN calls :
        /\ calls[k].edit \in Edits /\ calls[k].team \in Teams
        /\ calls[k].stage \in Stages /\ calls[k].answer \in Answers
        /\ calls[k].view \in Views \cup {Nothing}
  BY <1>1 DEF Calls
<1> QED
  BY <1>2 DEF TypeInv, ServerTyped, ColumnTyped, CallsTyped, TypeOK

LEMMA TypeInit == Init => TypeInv
<1> SUFFICES ASSUME Init PROVE TypeInv
  OBVIOUS
<1> USE TeamColumnAssumption DEF Init
<1>1. <<First>> \in Seq(Contents) /\ Len(<<First>>) = 1
  OBVIOUS
<1>2. \A p \in Parts : Number(p) = 1
  BY <1>1 DEF Number
<1>3. saved \in [Parts -> Seq(Contents)]
  BY <1>1
<1>4. items \in [Teams -> SUBSET Items]
  OBVIOUS
<1>5. DOMAIN calls = {} /\ calls \in Seq(Calls)
  OBVIOUS
<1>6. ServerTyped
  BY <1>2, <1>3, <1>4 DEF ServerTyped
<1>7. slot \in Slots
  BY DEF Slots
<1>8. ColumnTyped
  BY <1>7 DEF ColumnTyped, ViewExists
<1>9. CallsTyped
  BY <1>5 DEF CallsTyped
<1> QED
  BY <1>6, <1>8, <1>9 DEF TypeInv

\* Nothing saved is lost.
Grows ==
  \A p \in Parts :
    /\ Number(p) <= Number(p)'
    /\ \A n \in 1 .. Number(p) : saved'[p][n] = saved[p][n]

LEMMA NumbersArePositive == TypeInv => \A p \in Parts : Number(p) \in Nat \ {0}
<1> SUFFICES ASSUME TypeInv, NEW p \in Parts PROVE Number(p) \in Nat \ {0}
  OBVIOUS
<1>1. Len(saved[p]) \in Nat
  BY DEF TypeInv, ServerTyped
<1>2. Number(p) > 0
  BY DEF TypeInv, ServerTyped
<1> QED
  BY <1>1, <1>2 DEF Number

LEMMA SameGrows == TypeInv /\ UNCHANGED saved => Grows
<1> SUFFICES ASSUME TypeInv, UNCHANGED saved PROVE Grows
  OBVIOUS
<1>1. \A p \in Parts : Len(saved[p]) \in Nat
  BY DEF TypeInv, ServerTyped
<1> QED
  BY <1>1 DEF Grows, Number

LEMMA AppendGrows ==
  ASSUME TypeInv, NEW q \in Parts, NEW c \in Contents,
         saved' = [saved EXCEPT ![q] = Append(@, c)]
  PROVE  /\ Grows
         /\ Number(q)' = Number(q) + 1
         /\ saved'[q][Number(q) + 1] = c
         /\ saved' \in [Parts -> Seq(Contents)]
<1>1. saved \in [Parts -> Seq(Contents)]
  BY DEF TypeInv, ServerTyped
<1>2. saved'[q] = Append(saved[q], c) /\ \A p \in Parts \ {q} : saved'[p] = saved[p]
  BY <1>1
<1>3. /\ Append(saved[q], c) \in Seq(Contents)
      /\ Len(Append(saved[q], c)) = Len(saved[q]) + 1
      /\ Append(saved[q], c)[Len(saved[q]) + 1] = c
      /\ \A n \in 1 .. Len(saved[q]) : Append(saved[q], c)[n] = saved[q][n]
      /\ Len(saved[q]) \in Nat
  BY <1>1
<1>4. \A p \in Parts : Len(saved[p]) \in Nat
  BY <1>1
<1>5. saved' \in [Parts -> Seq(Contents)]
  BY <1>1, <1>3
<1> QED
  BY <1>1, <1>2, <1>3, <1>4, <1>5 DEF Grows, Number

\* What was shown still exists.
LEMMA ViewsStay ==
  ASSUME TypeInv, Grows
  PROVE  /\ \A p \in Parts : Number(p)' > 0
         /\ \A v \in Views \cup {Nothing} :
              /\ ViewExists(v) => (v # Nothing => v.number \in 1 .. Number(v.part)')
              /\ v # Nothing /\ v.number <= Number(v.part) => v.number <= Number(v.part)'
BY DEF TypeInv, ServerTyped, Grows, ViewExists, Views, Number

-----------------------------------------------------------------------------
(* Steps.                                                                  *)

\* What only the column does.
ColumnStep ==
  \/ \E p \in Parts : Select(p)
  \/ LiveUpdate \/ ReadRefresh \/ ShowRefresh
  \/ EditPart \/ EditAgain \/ Discard
  \/ \E c \in Contents : Type(c)

LEMMA ColumnStepIsLocal == ColumnStep => UNCHANGED <<server, calls, wire, failures>>
BY DEF ColumnStep, Select, LiveUpdate, ReadRefresh, ShowRefresh, EditPart, EditAgain, EditFrom,
       Discard, Type

LEMMA StepCases ==
  ASSUME TypeInv, [Next]_vars
  PROVE  \/ UNCHANGED vars
         \/ ColumnStep
         \/ \E edit \in Edits : shown # Nothing /\ Save(edit)
         \/ \E k \in DOMAIN calls : Compose(k) \/ Understand(k) \/ GiveUp(k) \/ Published(k)
         \/ \E k \in wire : Serve(k)
         \/ \E p \in Parts, c \in Contents : OthersSave(p, c)
<1>1. CASE SaveDraft
  BY <1>1 DEF SaveDraft, TypeInv, ColumnTyped
<1>2. CASE SaveOnTop
  BY <1>2 DEF SaveOnTop, TypeInv, ColumnTyped
<1> QED
  BY <1>1, <1>2 DEF Next, ColumnStep

LEMMA OpenSlotTyped ==
  ASSUME ids \in Nat, OpenSlot
  PROVE  slot' \in Slots /\ ids' \in Nat /\ slot'.opened = ids'
BY DEF OpenSlot, Slots

LEMMA EditFromTyped ==
  ASSUME TypeInv, NEW edit \in Edits, EditFrom(edit)
  PROVE  ColumnTyped'
<1>1. slot' \in Slots /\ ids' \in Nat
  BY OpenSlotTyped DEF TypeInv, ColumnTyped, EditFrom
<1>2. UNCHANGED <<saved, selected, shown, refresh, busy>> /\ draft' = edit /\ conflict' = Nothing
  BY DEF EditFrom, server
<1> QED
  BY <1>1, <1>2 DEF TypeInv, ColumnTyped, ViewExists, Number

LEMMA ColumnKeepsTypes == TypeInv /\ ColumnStep => TypeInv'
<1> SUFFICES ASSUME TypeInv, ColumnStep PROVE TypeInv'
  OBVIOUS
<1>1. UNCHANGED <<saved, items, commands, calls, wire, failures>>
  BY ColumnStepIsLocal DEF server
<1>2. ServerTyped'
  BY <1>1 DEF TypeInv, ServerTyped, Number
<1>3. ColumnTyped'
  <2>1. ASSUME NEW p \in Parts, Select(p) PROVE ColumnTyped'
    <3>1. slot' \in Slots /\ ids' \in Nat /\ draft' = Nothing /\ conflict' = Nothing
          /\ busy' = FALSE
      BY <2>1, OpenSlotTyped DEF TypeInv, ColumnTyped, Select, Reset
    <3>2. selected' = p /\ shown' = Nothing /\ refresh' = [part |-> p, number |-> 0]
      BY <2>1 DEF Select
    <3>3. refresh' \in Views /\ (refresh.number <= Number(refresh.part))'
      BY <1>2, <3>2 DEF Views, ServerTyped, Number
    <3> QED
      BY <3>1, <3>2, <3>3 DEF ColumnTyped, ViewExists
  <2>2. CASE LiveUpdate
    <3>1. selected \in Parts /\ refresh' = [part |-> selected, number |-> 0]
      BY <2>2 DEF LiveUpdate, TypeInv, ColumnTyped
    <3>2. refresh' \in Views /\ (refresh.number <= Number(refresh.part))'
      BY <1>2, <3>1 DEF Views, ServerTyped, Number
    <3> QED
      BY <1>1, <2>2, <3>1, <3>2 DEF LiveUpdate, TypeInv, ColumnTyped, ViewExists, Number
  <2>3. CASE ReadRefresh
    <3>1. refresh \in Views /\ refresh' = [refresh EXCEPT !.number = Number(refresh.part)]
      BY <2>3 DEF ReadRefresh, TypeInv, ColumnTyped
    <3>2. Number(refresh.part) \in Nat
      BY <3>1 DEF Views, TypeInv, ServerTyped, Number
    <3>3. refresh' \in Views /\ refresh'.part = refresh.part
          /\ refresh'.number = Number(refresh.part)
      BY <3>1, <3>2 DEF Views
    <3>4. (refresh.number <= Number(refresh.part))'
      BY <1>1, <3>2, <3>3 DEF Number
    <3> QED
      BY <1>1, <2>3, <3>1, <3>3, <3>4
      DEF ReadRefresh, TypeInv, ColumnTyped, ViewExists, Number
  <2>4. CASE ShowRefresh
    <3>1. /\ refresh \in Views /\ refresh.number \in 1 .. Number(refresh.part)
          /\ selected \in Parts
      BY <2>4 DEF ShowRefresh, TypeInv, ColumnTyped, ServerTyped, Views, Number
    <3>2. shown' \in {shown, refresh}
      BY <2>4 DEF ShowRefresh
    <3> QED
      BY <1>1, <2>4, <3>1, <3>2 DEF ShowRefresh, TypeInv, ColumnTyped, ViewExists, Number
  <2>5. CASE EditPart
    <3>1. shown \in Views /\ shown.number \in 1 .. Number(shown.part)
      BY <2>5 DEF EditPart, TypeInv, ColumnTyped, ViewExists
    <3>2. saved[shown.part][shown.number] \in Contents
      BY <3>1 DEF Views, TypeInv, ServerTyped, Number
    <3> QED
      BY <2>5, <3>1, <3>2, EditFromTyped DEF EditPart, Edits, Views
  <2>6. CASE EditAgain
    BY <2>6, EditFromTyped DEF EditAgain, TypeInv, ColumnTyped
  <2>7. CASE Discard
    BY <1>1, <2>7 DEF Discard, TypeInv, ColumnTyped, ViewExists, Number
  <2>8. ASSUME NEW c \in Contents, Type(c) PROVE ColumnTyped'
    <3>1. draft' \in Edits
      BY <2>8 DEF Type, TypeInv, ColumnTyped, Edits
    <3> QED
      BY <1>1, <2>8, <3>1 DEF Type, TypeInv, ColumnTyped, ViewExists, Number
  <2> QED
    BY <2>1, <2>2, <2>3, <2>4, <2>5, <2>6, <2>7, <2>8 DEF ColumnStep
<1>4. calls # << >> => selected' \in Parts
  BY DEF ColumnStep, Select, LiveUpdate, ReadRefresh, ShowRefresh, EditPart, EditAgain, EditFrom,
         Discard, Type, TypeInv, CallsTyped
<1>5. CallsTyped'
  BY <1>1, <1>4 DEF TypeInv, CallsTyped, ViewExists, Number
<1> QED
  BY <1>2, <1>3, <1>5 DEF TypeInv

\* A step on save k changes neither what it asks nor any other save.
Moves(k) ==
  /\ calls' \in Seq(Calls) /\ DOMAIN calls' = DOMAIN calls
  /\ \A j \in DOMAIN calls \ {k} : calls'[j] = calls[j]
  /\ calls'[k].edit = calls[k].edit /\ calls'[k].team = calls[k].team
  /\ calls'[k].id = calls[k].id /\ calls'[k].opened = calls[k].opened

LEMMA Replaced ==
  ASSUME TypeInv, NEW k \in DOMAIN calls, NEW c \in Calls,
         calls' = [calls EXCEPT ![k] = c],
         c.edit = calls[k].edit, c.team = calls[k].team, c.id = calls[k].id,
         c.opened = calls[k].opened
  PROVE  Moves(k) /\ calls'[k] = c
<1>1. calls \in Seq(Calls)
  BY DEF TypeInv, CallsTyped
<1>2. calls' \in Seq(Calls) /\ DOMAIN calls' = DOMAIN calls
  BY <1>1
<1> QED
  BY <1>1, <1>2 DEF Moves

\* The save is answered.
LEMMA AnsweredMoves ==
  ASSUME TypeInv, NEW k \in DOMAIN calls, NEW answer \in Answers,
         NEW view \in Views \cup {Nothing}, Answered(k, answer, view)
  PROVE  /\ Moves(k)
         /\ calls'[k].stage = "answered" /\ calls'[k].answer = answer
         /\ calls'[k].view = view
         /\ calls'[k].number = calls[k].number /\ calls'[k].upload = calls[k].upload
<1> DEFINE c == [calls[k] EXCEPT !.stage = "answered", !.answer = answer, !.view = view]
<1>1. calls \in Seq(Calls) /\ calls[k] \in Calls
  BY DEF TypeInv, CallsTyped
<1>2. c \in Calls
  BY <1>1 DEF Calls, Stages
<1>3. calls' = [calls EXCEPT ![k] = c]
  BY <1>1 DEF Answered
<1>4. /\ c.stage = "answered" /\ c.answer = answer /\ c.view = view
      /\ c.number = calls[k].number /\ c.upload = calls[k].upload
      /\ c.edit = calls[k].edit /\ c.team = calls[k].team /\ c.id = calls[k].id
      /\ c.opened = calls[k].opened
  BY <1>1 DEF Calls
<1> QED
  BY <1>2, <1>3, <1>4, Replaced

\* The client has the server's answer, unless it gave up before.
LEMMA ReplyMoves ==
  ASSUME TypeInv, NEW k \in DOMAIN calls, NEW answer \in Answers, NEW number \in Nat,
         Reply(k, answer, number)
  PROVE  \/ calls[k].stage # "sent" /\ UNCHANGED calls
         \/ /\ calls[k].stage = "sent"
            /\ Moves(k)
            /\ calls'[k].stage = "served" /\ calls'[k].answer = answer
            /\ calls'[k].number = number
            /\ calls'[k].view = calls[k].view /\ calls'[k].upload = calls[k].upload
<1> DEFINE c == [calls[k] EXCEPT !.stage = "served", !.answer = answer, !.number = number]
<1>1. calls \in Seq(Calls) /\ calls[k] \in Calls
  BY DEF TypeInv, CallsTyped
<1>2. CASE calls[k].stage # "sent"
  BY <1>2 DEF Reply
<1>3. CASE calls[k].stage = "sent"
  <2>1. c \in Calls
    BY <1>1 DEF Calls, Stages
  <2>2. calls' = [calls EXCEPT ![k] = c]
    BY <1>1, <1>3 DEF Reply
  <2>3. /\ c.stage = "served" /\ c.answer = answer /\ c.number = number
        /\ c.view = calls[k].view /\ c.upload = calls[k].upload
        /\ c.edit = calls[k].edit /\ c.team = calls[k].team /\ c.id = calls[k].id
        /\ c.opened = calls[k].opened
    BY <1>1 DEF Calls
  <2> QED
    BY <1>3, <2>1, <2>2, <2>3, Replaced
<1> QED
  BY <1>2, <1>3

LEMMA PublishedMoves ==
  ASSUME TypeInv, NEW k \in DOMAIN calls, Published(k)
  PROVE  /\ Moves(k)
         /\ calls[k].stage = "answered" /\ calls'[k].stage = "done"
         /\ calls'[k].answer = calls[k].answer /\ calls'[k].view = calls[k].view
         /\ calls'[k].number = calls[k].number /\ calls'[k].upload = calls[k].upload
<1> DEFINE c == [calls[k] EXCEPT !.stage = "done"]
<1>1. calls \in Seq(Calls) /\ calls[k] \in Calls
  BY DEF TypeInv, CallsTyped
<1>2. c \in Calls
  BY <1>1 DEF Calls, Stages
<1>3. calls' = [calls EXCEPT ![k] = c] /\ calls[k].stage = "answered"
  BY <1>1 DEF Published, At
<1>4. /\ c.stage = "done" /\ c.answer = calls[k].answer /\ c.view = calls[k].view
      /\ c.number = calls[k].number /\ c.upload = calls[k].upload
      /\ c.edit = calls[k].edit /\ c.team = calls[k].team /\ c.id = calls[k].id
      /\ c.opened = calls[k].opened
  BY <1>1 DEF Calls
<1> QED
  BY <1>2, <1>3, <1>4, Replaced

\* What an edit changes is found, and it is sent or answered at once.
LEMMA ComposeMoves ==
  ASSUME TypeInv, NEW k \in DOMAIN calls, Compose(k)
  PROVE  /\ Moves(k)
         /\ calls[k].stage = "asked"
         /\ calls'[k].number = calls[k].number
         /\ calls'[k].upload => NeedsItem[calls[k].edit.want] \in Items
         /\ \/ /\ calls'[k].stage = "answered" /\ calls'[k].answer \in {"refused", "nothing"}
               /\ calls'[k].view = Nothing /\ wire' = wire
            \/ /\ calls'[k].stage = "sent" /\ calls'[k].answer = calls[k].answer
               /\ calls'[k].view = calls[k].view /\ wire' = wire \cup {k}
               /\ \E p \in Target(k) : calls[k].edit.base <= Number(p)
<1>1. calls \in Seq(Calls) /\ calls[k] \in Calls /\ calls[k].stage = "asked"
  <2>1. At(k, "asked")
    BY DEF Compose
  <2> QED
    BY <2>1 DEF TypeInv, CallsTyped, At
<1>2. ASSUME NEW answer \in {"refused", "nothing"}, Answered(k, answer, Nothing), wire' = wire
      PROVE  /\ Moves(k) /\ calls'[k].number = calls[k].number
             /\ calls'[k].stage = "answered" /\ calls'[k].answer \in {"refused", "nothing"}
             /\ calls'[k].view = Nothing /\ calls'[k].upload = calls[k].upload
  BY <1>2, AnsweredMoves DEF Answers
<1>3. ASSUME NEW p \in Target(k), calls[k].edit.base <= Number(p),
             calls' = [calls EXCEPT ![k].stage = "sent", ![k].upload = SendsItem(k, p)],
             wire' = wire \cup {k}
      PROVE  /\ Moves(k) /\ calls'[k].number = calls[k].number
             /\ calls'[k].stage = "sent" /\ calls'[k].answer = calls[k].answer
             /\ calls'[k].view = calls[k].view
             /\ calls'[k].upload => NeedsItem[calls[k].edit.want] \in Items
  <2> DEFINE c == [calls[k] EXCEPT !.stage = "sent", !.upload = SendsItem(k, p)]
  <2>1. /\ SendsItem(k, p) \in BOOLEAN
        /\ SendsItem(k, p) => NeedsItem[calls[k].edit.want] \in Items
    BY <1>1, TeamColumnAssumption DEF SendsItem, Calls, Edits
  <2> HIDE DEF SendsItem
  <2>2. c \in Calls
    BY <1>1, <2>1 DEF Calls, Stages
  <2>3. calls' = [calls EXCEPT ![k] = c]
    BY <1>1, <1>3
  <2>4. /\ c.stage = "sent" /\ c.answer = calls[k].answer /\ c.view = calls[k].view
        /\ c.upload = SendsItem(k, p)
        /\ c.number = calls[k].number
        /\ c.edit = calls[k].edit /\ c.team = calls[k].team /\ c.id = calls[k].id
        /\ c.opened = calls[k].opened
    BY <1>1 DEF Calls
  <2> QED
    BY <2>1, <2>2, <2>3, <2>4, Replaced
<1>4. calls[k].upload => NeedsItem[calls[k].edit.want] \in Items
  BY DEF TypeInv, CallsTyped
<1> QED
  BY <1>1, <1>2, <1>3, <1>4 DEF Compose

\* What the server's answer turns out to mean.
LEMMA UnderstandMoves ==
  ASSUME TypeInv, NEW k \in DOMAIN calls, Understand(k)
  PROVE  /\ Moves(k)
         /\ calls[k].stage = "served" /\ calls'[k].stage = "answered"
         /\ calls'[k].number = calls[k].number /\ calls'[k].upload = calls[k].upload
         /\ \E p \in Target(k) :
              /\ \/ calls[k].answer = "reused" /\ calls'[k].answer = "reused"
                 \/ calls[k].answer = "applied" /\ calls'[k].answer \in {"saved", "savedNotShown"}
                 \/ /\ calls[k].answer = "conflict" /\ calls'[k].answer = "alreadySaved"
                    /\ AlreadyTheirs(k, p)
                 \/ calls[k].answer = "conflict" /\ calls'[k].answer \in {"conflict", "refused"}
              /\ calls'[k].view \in {Nothing, [part |-> p, number |-> Number(p)]}
<1>1. At(k, "served")
  BY DEF Understand
<1>2. PICK p \in Target(k) :
        \E answer \in {"reused", "saved", "savedNotShown", "alreadySaved", "conflict", "refused"} :
        \E view \in {Nothing, [part |-> p, number |-> Number(p)]} :
          /\ Answered(k, answer, view)
          /\ \/ calls[k].answer = "reused" /\ answer = "reused"
             \/ calls[k].answer = "applied" /\ answer \in {"saved", "savedNotShown"}
             \/ calls[k].answer = "conflict" /\ answer = "alreadySaved" /\ AlreadyTheirs(k, p)
             \/ calls[k].answer = "conflict" /\ answer \in {"conflict", "refused"}
  <2>1. PICK p \in Target(k) :
          LET view == [part |-> p, number |-> Number(p)]
          IN \/ calls[k].answer = "reused" /\ Answered(k, "reused", Nothing)
             \/ calls[k].answer = "applied" /\ Answered(k, "saved", view)
             \/ /\ calls[k].answer = "conflict"
                /\ Answered(k, IF AlreadyTheirs(k, p) THEN "alreadySaved" ELSE "conflict", view)
             \/ /\ calls[k].answer \in {"applied", "conflict"}
                /\ Answered(k, IF calls[k].answer = "applied" THEN "savedNotShown" ELSE "refused",
                            Nothing)
    BY DEF Understand
  <2>2. CASE calls[k].answer = "reused" /\ Answered(k, "reused", Nothing)
    BY <2>2
  <2>3. CASE calls[k].answer = "applied" /\ Answered(k, "saved", [part |-> p, number |-> Number(p)])
    BY <2>3
  <2>4. CASE /\ calls[k].answer = "conflict"
             /\ Answered(k, IF AlreadyTheirs(k, p) THEN "alreadySaved" ELSE "conflict",
                         [part |-> p, number |-> Number(p)])
    BY <2>4
  <2>5. CASE /\ calls[k].answer \in {"applied", "conflict"}
             /\ Answered(k, IF calls[k].answer = "applied" THEN "savedNotShown" ELSE "refused",
                         Nothing)
    BY <2>5
  <2> QED
    BY <2>1, <2>2, <2>3, <2>4, <2>5
<1>3. [part |-> p, number |-> Number(p)] \in Views
  BY DEF Target, Views, TypeInv, ServerTyped, Number
<1>4. PICK answer \in {"reused", "saved", "savedNotShown", "alreadySaved", "conflict", "refused"},
           view \in {Nothing, [part |-> p, number |-> Number(p)]} :
          /\ Answered(k, answer, view)
          /\ \/ calls[k].answer = "reused" /\ answer = "reused"
             \/ calls[k].answer = "applied" /\ answer \in {"saved", "savedNotShown"}
             \/ calls[k].answer = "conflict" /\ answer = "alreadySaved" /\ AlreadyTheirs(k, p)
             \/ calls[k].answer = "conflict" /\ answer \in {"conflict", "refused"}
  BY <1>2
<1>5. answer \in Answers /\ view \in Views \cup {Nothing}
  BY <1>3 DEF Answers
<1>6. /\ Moves(k)
      /\ calls'[k].stage = "answered" /\ calls'[k].answer = answer /\ calls'[k].view = view
      /\ calls'[k].number = calls[k].number /\ calls'[k].upload = calls[k].upload
  BY <1>4, <1>5, AnsweredMoves
<1> QED
  BY <1>1, <1>4, <1>6 DEF At

LEMMA GiveUpMoves ==
  ASSUME TypeInv, NEW k \in DOMAIN calls, GiveUp(k)
  PROVE  /\ Moves(k)
         /\ calls'[k].stage = "answered" /\ calls'[k].answer = "unreachable"
         /\ calls'[k].view = Nothing
         /\ calls'[k].number = calls[k].number /\ calls'[k].upload = calls[k].upload
         /\ wire' \subseteq wire
BY AnsweredMoves DEF GiveUp, Answers

\* A save joins those sent before, with the ID of the retry slot.
LEMMA SaveAppends ==
  ASSUME TypeInv, NEW edit \in Edits, shown # Nothing, Save(edit)
  PROVE  /\ calls' \in Seq(Calls) /\ Len(calls') = Len(calls) + 1
         /\ \A j \in DOMAIN calls : calls'[j] = calls[j]
         /\ LET c == calls'[Len(calls) + 1]
            IN /\ c.edit = edit /\ c.team = TeamOf[selected] /\ c.id = slot'.id
               /\ c.opened = slot.opened
               /\ c.stage = "asked" /\ c.answer = "none" /\ c.view = Nothing
               /\ c.upload = FALSE
         /\ slot' \in Slots /\ ids' \in Nat /\ ids <= ids'
         /\ slot'.opened = slot.opened /\ slot'.last = Sent(edit)
         /\ slot'.id = slot.id \/ slot.last \notin {Nothing, Sent(edit)}
<1> DEFINE c == [edit |-> edit, team |-> TeamOf[selected], id |-> slot'.id,
                 opened |-> slot.opened, stage |-> "asked", upload |-> FALSE,
                 answer |-> "none", number |-> 0, view |-> Nothing]
<1>1. Sent(edit) \in SentEdits
  BY TeamColumnAssumption DEF Sent, SentEdits, Edits
<1>2. slot \in Slots /\ ids \in Nat /\ selected \in Parts /\ calls \in Seq(Calls)
  BY DEF TypeInv, ColumnTyped, CallsTyped
<1>3. /\ slot' \in Slots /\ ids' \in Nat /\ ids <= ids'
      /\ slot'.opened = slot.opened /\ slot'.last = Sent(edit)
      /\ slot'.id = slot.id \/ slot.last \notin {Nothing, Sent(edit)}
  <2>1. IdFor(edit)
    BY DEF Save
  <2>2. CASE slot' = [slot EXCEPT !.last = Sent(edit)] /\ ids' = ids
    BY <1>1, <1>2, <2>2 DEF Slots
  <2>3. CASE /\ slot.last \notin {Nothing, Sent(edit)}
             /\ ids' = ids + 1
             /\ slot' = [slot EXCEPT !.last = Sent(edit), !.id = ids + 1]
    <3>1. slot' = [opened |-> slot.opened, last |-> Sent(edit), id |-> ids + 1]
      BY <1>2, <2>3 DEF Slots
    <3>2. slot.opened \in Nat /\ ids + 1 \in Nat
      BY <1>2 DEF Slots
    <3>3. slot' \in Slots
      BY <1>1, <3>1, <3>2 DEF Slots
    <3> QED
      BY <1>2, <2>3, <3>1, <3>2, <3>3
  <2> QED
    BY <2>1, <2>2, <2>3 DEF IdFor
<1>4. c \in Calls
  BY <1>2, <1>3, TeamColumnAssumption DEF Calls, Stages, Answers, Slots
<1>5. calls' = Append(calls, c)
  BY DEF Save
<1>6. /\ calls' \in Seq(Calls) /\ Len(calls') = Len(calls) + 1
      /\ calls'[Len(calls) + 1] = c
      /\ \A j \in DOMAIN calls : calls'[j] = calls[j]
  <2> HIDE DEF c
  <2> QED
    BY <1>2, <1>4, <1>5
<1> QED
  BY <1>3, <1>6

-----------------------------------------------------------------------------
(* Types are kept.                                                         *)

LEMMA MovesKeepTypes ==
  ASSUME TypeInv, Grows, NEW k \in DOMAIN calls, Moves(k),
         (calls[k].view \in {Nothing} \cup Views)', ViewExists(calls[k].view)',
         calls'[k].answer = "conflict" => calls'[k].number > 0,
         calls'[k].upload => NeedsItem[calls[k].edit.want] \in Items,
         wire' \subseteq DOMAIN calls, failures' \in Nat, selected' = selected
  PROVE  CallsTyped'
<1>1. \A j \in DOMAIN calls : calls[j].view \in Views \cup {Nothing}
  <2>1. \A j \in DOMAIN calls : calls[j] \in Calls
    BY DEF TypeInv, CallsTyped
  <2> QED
    BY <2>1 DEF Calls
<1>2. ASSUME NEW j \in DOMAIN calls, j # k
      PROVE  /\ ViewExists(calls[j].view)'
             /\ calls'[j].answer = "conflict" => calls'[j].number > 0
             /\ calls'[j].upload => NeedsItem[calls'[j].edit.want] \in Items
  <2>1. calls'[j] = calls[j]
    BY <1>2 DEF Moves
  <2>2. /\ ViewExists(calls[j].view) /\ (calls[j].answer = "conflict" => calls[j].number > 0)
        /\ calls[j].upload => NeedsItem[calls[j].edit.want] \in Items
    BY DEF TypeInv, CallsTyped
  <2> QED
    BY <1>1, <2>1, <2>2, ViewsStay DEF ViewExists, Number
<1>3. selected \in Parts
  <2>1. calls # << >>
    OBVIOUS
  <2> QED
    BY <2>1 DEF TypeInv, CallsTyped
<1> QED
  BY <1>2, <1>3 DEF Moves, CallsTyped

\* Only the server's records change, and the column is as it was.
LEMMA ServerKeepsColumn ==
  ASSUME TypeInv, Grows, UNCHANGED column
  PROVE  ColumnTyped'
BY ViewsStay DEF TypeInv, ColumnTyped, column, ViewExists, Number

LEMMA SameServerTyped == TypeInv /\ UNCHANGED server => ServerTyped'
BY DEF TypeInv, ServerTyped, server, Number

LEMMA SaveKeepsTypes ==
  ASSUME TypeInv, NEW edit \in Edits, shown # Nothing, Save(edit)
  PROVE  TypeInv'
<1>1. /\ UNCHANGED <<server, selected, shown, refresh, draft, conflict, wire, failures>>
      /\ busy' = TRUE
  BY DEF Save
<1>2. ServerTyped' /\ saved' = saved
  BY <1>1, SameServerTyped DEF server
<1>3. ColumnTyped'
  BY <1>1, <1>2, SaveAppends DEF TypeInv, ColumnTyped, ViewExists, Number
<1>4. /\ calls \in Seq(Calls) /\ DOMAIN calls = 1 .. Len(calls)
      /\ calls' \in Seq(Calls) /\ DOMAIN calls' = 1 .. (Len(calls) + 1)
  <2>1. calls' \in Seq(Calls) /\ Len(calls') = Len(calls) + 1
    BY SaveAppends
  <2>2. calls \in Seq(Calls)
    BY DEF TypeInv, CallsTyped
  <2> QED
    BY <2>1, <2>2
<1>5. ASSUME NEW j \in DOMAIN calls'
      PROVE  /\ ViewExists(calls[j].view)'
             /\ calls'[j].answer = "conflict" => calls'[j].number > 0
             /\ calls'[j].upload => NeedsItem[calls'[j].edit.want] \in Items
  <2>1. CASE j \in DOMAIN calls
    BY <1>2, <2>1, SaveAppends DEF TypeInv, CallsTyped, ViewExists, Number
  <2>2. CASE j = Len(calls) + 1
    BY <2>2, SaveAppends DEF ViewExists
  <2> QED
    BY <1>4, <2>1, <2>2
<1>6. selected \in Parts
  BY DEF TypeInv, ColumnTyped
<1> QED
  BY <1>1, <1>2, <1>3, <1>4, <1>5, <1>6 DEF TypeInv, CallsTyped

LEMMA PublishedKeepsTypes ==
  ASSUME TypeInv, NEW k \in DOMAIN calls, Published(k)
  PROVE  TypeInv'
<1>1. /\ UNCHANGED <<server, selected, refresh, slot, ids, wire, failures>> /\ busy' = FALSE
      /\ shown' = IF calls[k].view = Nothing THEN shown ELSE calls[k].view
      /\ draft' \in {Nothing, draft} /\ conflict' \in {Nothing, conflict, Merged(k)}
      /\ conflict' = Merged(k) => calls[k].answer = "conflict" \/ conflict' \in {Nothing, conflict}
  BY DEF Published
<1>2. ServerTyped' /\ saved' = saved /\ Grows
  BY <1>1, SameServerTyped, SameGrows DEF server
<1>3. /\ calls[k] \in Calls /\ ViewExists(calls[k].view)
      /\ calls[k].answer = "conflict" => calls[k].number > 0
      /\ calls[k].upload => NeedsItem[calls[k].edit.want] \in Items
      /\ selected \in Parts
  <2>1. calls # << >>
    OBVIOUS
  <2> QED
    BY <2>1 DEF TypeInv, CallsTyped
<1>4. calls[k].answer = "conflict" => Merged(k) \in Edits
  BY <1>3 DEF Merged, Calls, Edits
<1>5. ColumnTyped'
  <2>1. conflict' \in Edits \cup {Nothing} /\ draft' \in Edits \cup {Nothing}
    BY <1>1, <1>4 DEF TypeInv, ColumnTyped
  <2>2. shown' \in Views \cup {Nothing} /\ ViewExists(shown)'
    BY <1>1, <1>2, <1>3 DEF TypeInv, ColumnTyped, Calls, ViewExists, Number
  <2> QED
    BY <1>1, <1>2, <1>3, <2>1, <2>2 DEF TypeInv, ColumnTyped, Number
<1>6. CallsTyped'
  <2>1. (calls[k].view \in {Nothing} \cup Views)' /\ ViewExists(calls[k].view)'
    BY <1>2, <1>3, PublishedMoves DEF Calls, ViewExists, Number
  <2> QED
    BY <1>1, <1>2, <1>3, <2>1, PublishedMoves, MovesKeepTypes DEF TypeInv, CallsTyped
<1> QED
  BY <1>2, <1>5, <1>6 DEF TypeInv

\* A step on a save in crates/catalog-browser changes nothing of the server
\* and of the column.
LEMMA CallKeepsTypes ==
  ASSUME TypeInv, NEW k \in DOMAIN calls, Compose(k) \/ Understand(k) \/ GiveUp(k)
  PROVE  TypeInv'
<1>1. UNCHANGED <<server, column>> /\ failures' \in Nat
  <2>1. UNCHANGED <<server, column>>
    BY DEF Compose, Understand, GiveUp
  <2>2. Compose(k) => failures' = failures
    BY DEF Compose
  <2>3. Understand(k) => failures' \in {failures, failures + 1}
    BY DEF Understand
  <2>4. GiveUp(k) => failures' = failures + 1
    BY DEF GiveUp
  <2>5. failures \in Nat
    BY DEF TypeInv, CallsTyped
  <2> QED
    BY <2>1, <2>2, <2>3, <2>4, <2>5
<1>2. ServerTyped' /\ saved' = saved /\ Grows /\ selected' = selected
  BY <1>1, SameServerTyped, SameGrows DEF server, column
<1>3. ColumnTyped'
  BY <1>1, <1>2, ServerKeepsColumn
<1>4. /\ calls[k] \in Calls /\ ViewExists(calls[k].view)
      /\ calls[k].answer = "conflict" => calls[k].number > 0
      /\ calls[k].upload => NeedsItem[calls[k].edit.want] \in Items
  BY DEF TypeInv, CallsTyped
<1>5. CASE Compose(k)
  <2>1. wire' \subseteq DOMAIN calls
    BY <1>5, ComposeMoves DEF TypeInv, CallsTyped
  <2>2. (calls[k].view \in {Nothing} \cup Views)' /\ ViewExists(calls[k].view)'
    BY <1>2, <1>4, <1>5, ComposeMoves DEF Calls, ViewExists, Number
  <2>3. calls'[k].answer = "conflict" => calls'[k].number > 0
    BY <1>4, <1>5, ComposeMoves
  <2> QED
    BY <1>1, <1>2, <1>3, <1>5, <2>1, <2>2, <2>3, ComposeMoves, MovesKeepTypes DEF TypeInv
<1>6. CASE Understand(k)
  <2>1. wire' \subseteq DOMAIN calls
    BY <1>6 DEF Understand, TypeInv, CallsTyped
  <2>2. PICK p \in Target(k) :
          /\ calls'[k].answer = "conflict" => calls[k].answer = "conflict"
          /\ calls'[k].view \in {Nothing, [part |-> p, number |-> Number(p)]}
    BY <1>6, UnderstandMoves
  <2>3. p \in Parts /\ Number(p) \in Nat \ {0} /\ Number(p)' = Number(p)
    BY <1>2 DEF Target, TypeInv, ServerTyped, Number
  <2>4. (calls[k].view \in {Nothing} \cup Views)' /\ ViewExists(calls[k].view)'
    <3>1. CASE calls'[k].view = Nothing
      BY <3>1 DEF ViewExists
    <3>2. CASE calls'[k].view = [part |-> p, number |-> Number(p)]
      BY <1>2, <2>3, <3>2 DEF ViewExists, Views, Number
    <3> QED
      BY <2>2, <3>1, <3>2
  <2>5. calls'[k].answer = "conflict" => calls'[k].number > 0
    BY <1>4, <1>6, <2>2, UnderstandMoves
  <2> QED
    BY <1>1, <1>2, <1>3, <1>4, <1>6, <2>1, <2>4, <2>5, UnderstandMoves, MovesKeepTypes DEF TypeInv
<1>7. CASE GiveUp(k)
  <2>1. wire' \subseteq DOMAIN calls
    BY <1>7, GiveUpMoves DEF TypeInv, CallsTyped
  <2>2. (calls[k].view \in {Nothing} \cup Views)' /\ ViewExists(calls[k].view)'
    BY <1>7, GiveUpMoves DEF ViewExists
  <2> QED
    BY <1>1, <1>2, <1>3, <1>4, <1>7, <2>1, <2>2, GiveUpMoves, MovesKeepTypes DEF TypeInv
<1> QED
  BY <1>5, <1>6, <1>7

\* The client has this answer, unless it gave up before.
Replied(k, answer, number) ==
  \/ calls[k].stage # "sent" /\ UNCHANGED calls
  \/ /\ calls[k].stage = "sent"
     /\ Moves(k)
     /\ calls'[k].stage = "served" /\ calls'[k].answer = answer /\ calls'[k].number = number
     /\ calls'[k].view = calls[k].view /\ calls'[k].upload = calls[k].upload

\* How the server answers: with an earlier answer, a refusal, a conflict, or
\* by carrying the edit out.
LEMMA ServeCases ==
  ASSUME TypeInv, NEW k \in wire, Serve(k)
  PROVE  \E p \in Target(k) :
           \/ /\ UNCHANGED server
              /\ \E c \in Priors(k) : c.hash = Hash(k) /\ Replied(k, "applied", c.number)
           \/ /\ UNCHANGED server
              /\ \E c \in Priors(k) : c.hash # Hash(k) /\ Replied(k, "reused", 0)
           \/ /\ UNCHANGED server
              /\ Priors(k) = {} /\ calls[k].edit.base # Number(p)
              /\ Replied(k, "conflict", Number(p))
           \/ /\ Priors(k) = {} /\ calls[k].edit.base = Number(p)
              /\ saved' = [saved EXCEPT ![p] = Append(@, calls[k].edit.want)]
              /\ items' = [items EXCEPT ![calls[k].team] =
                             IF calls[k].upload THEN @ \cup {NeedsItem[calls[k].edit.want]} ELSE @]
              /\ commands' = commands \cup
                   {[team |-> calls[k].team, id |-> calls[k].id, hash |-> Hash(k),
                     number |-> Number(p) + 1]}
              /\ Replied(k, "applied", Number(p) + 1)
<1>1. k \in DOMAIN calls
  BY DEF TypeInv, CallsTyped
<1>2. ASSUME NEW answer \in Answers, NEW number \in Nat, Reply(k, answer, number)
      PROVE  Replied(k, answer, number)
  BY <1>1, <1>2, ReplyMoves DEF Replied
<1>3. \A p \in Target(k) : Number(p) \in Nat
  <2>1. \A q \in Parts : Number(q) \in Nat
    BY NumbersArePositive
  <2> QED
    BY <2>1 DEF Target
<1>4. \A c \in Priors(k) : c.number \in Nat
  BY DEF Priors, TypeInv, ServerTyped, Commands
<1>5. {"applied", "reused", "conflict"} \subseteq Answers
  BY DEF Answers
<1>6. PICK p \in Target(k) :
        \/ /\ \E c \in Priors(k) :
                IF c.hash = Hash(k) THEN Reply(k, "applied", c.number) ELSE Reply(k, "reused", 0)
           /\ UNCHANGED server
        \/ /\ Priors(k) = {} /\ calls[k].edit.base # Number(p)
           /\ Reply(k, "conflict", Number(p))
           /\ UNCHANGED server
        \/ /\ Priors(k) = {} /\ calls[k].edit.base = Number(p)
           /\ saved' = [saved EXCEPT ![p] = Append(@, calls[k].edit.want)]
           /\ items' = [items EXCEPT ![calls[k].team] =
                          IF calls[k].upload THEN @ \cup {NeedsItem[calls[k].edit.want]} ELSE @]
           /\ commands' = commands \cup
                {[team |-> calls[k].team, id |-> calls[k].id, hash |-> Hash(k),
                  number |-> Number(p) + 1]}
           /\ Reply(k, "applied", Number(p) + 1)
  BY DEF Serve
<1>7. CASE \E c \in Priors(k) :
             IF c.hash = Hash(k) THEN Reply(k, "applied", c.number) ELSE Reply(k, "reused", 0)
  BY <1>2, <1>4, <1>5, <1>6, <1>7
<1> QED
  BY <1>2, <1>3, <1>5, <1>6, <1>7

\* Nothing the server saved is lost.
LEMMA ServeGrows ==
  ASSUME TypeInv, NEW k \in wire, Serve(k)
  PROVE  Grows /\ ServerTyped'
<1>1. k \in DOMAIN calls /\ calls[k] \in Calls
      /\ (calls[k].upload => NeedsItem[calls[k].edit.want] \in Items)
  BY DEF TypeInv, CallsTyped
<1>2. CASE UNCHANGED server
  BY <1>2, SameServerTyped, SameGrows DEF server
<1>3. ASSUME NEW p \in Target(k),
             saved' = [saved EXCEPT ![p] = Append(@, calls[k].edit.want)],
             items' = [items EXCEPT ![calls[k].team] =
                         IF calls[k].upload THEN @ \cup {NeedsItem[calls[k].edit.want]} ELSE @],
             commands' = commands \cup
               {[team |-> calls[k].team, id |-> calls[k].id, hash |-> Hash(k),
                 number |-> Number(p) + 1]}
      PROVE  Grows /\ ServerTyped'
  <2>1. p \in Parts /\ calls[k].edit.want \in Contents
    BY <1>1 DEF Target, Calls, Edits
  <2>2. Grows /\ saved' \in [Parts -> Seq(Contents)]
    BY <1>3, <2>1, AppendGrows
  <2>3. items' \in [Teams -> SUBSET Items]
    BY <1>1, <1>3 DEF TypeInv, ServerTyped
  <2>4. Hash(k) \in Hashes
    <3>1. Sent(calls[k].edit) \in SentEdits
      BY <1>1, TeamColumnAssumption DEF Sent, SentEdits, Calls, Edits
    <3> QED
      BY <1>1, <3>1 DEF Hash, Hashes, Calls
  <2>5. commands' \subseteq Commands
    <3>1. [team |-> calls[k].team, id |-> calls[k].id, hash |-> Hash(k), number |-> Number(p) + 1]
            \in Commands
      BY <1>1, <2>1, <2>4, NumbersArePositive DEF Commands, Calls
    <3> QED
      BY <1>3, <3>1 DEF TypeInv, ServerTyped
  <2> QED
    BY <2>2, <2>3, <2>5, ViewsStay DEF ServerTyped
<1> QED
  BY <1>2, <1>3, ServeCases

LEMMA ServeKeepsTypes ==
  ASSUME TypeInv, NEW k \in wire, Serve(k)
  PROVE  TypeInv'
<1>1. k \in DOMAIN calls /\ calls[k] \in Calls /\ ViewExists(calls[k].view)
      /\ (calls[k].upload => NeedsItem[calls[k].edit.want] \in Items)
  BY DEF TypeInv, CallsTyped
<1>2. Grows /\ ServerTyped'
  BY ServeGrows
<1>3. UNCHANGED column /\ wire' = wire \ {k} /\ failures' = failures
  BY DEF Serve
<1>4. ColumnTyped'
  BY <1>2, <1>3, ServerKeepsColumn
<1>5. PICK answer, number : /\ Replied(k, answer, number)
                            /\ answer = "conflict" => number > 0
  <2>1. \A p \in Target(k) : Number(p) > 0
    <3>1. \A q \in Parts : Number(q) > 0
      BY DEF TypeInv, ServerTyped
    <3> QED
      BY <3>1 DEF Target
  <2>2. PICK p \in Target(k) :
          \/ \E c \in Priors(k) : Replied(k, "applied", c.number)
          \/ Replied(k, "reused", 0)
          \/ Replied(k, "conflict", Number(p))
          \/ Replied(k, "applied", Number(p) + 1)
    BY ServeCases, Zenon
  <2>3. CASE Replied(k, "conflict", Number(p))
    BY <2>1, <2>3
  <2>4. ASSUME NEW number, Replied(k, "applied", number) \/ Replied(k, "reused", number)
        PROVE  \E answer, n : Replied(k, answer, n) /\ (answer = "conflict" => n > 0)
    BY <2>4
  <2> QED
    BY <2>2, <2>3, <2>4
<1>6. ASSUME UNCHANGED calls PROVE CallsTyped'
  <2>1. ASSUME NEW j \in DOMAIN calls
        PROVE  ViewExists(calls[j].view)'
    <3>1. calls[j] \in Calls /\ ViewExists(calls[j].view)
      BY DEF TypeInv, CallsTyped
    <3>2. calls[j].view \in Views \cup {Nothing}
      BY <3>1 DEF Calls
    <3> QED
      BY <1>2, <1>6, <3>1, <3>2, ViewsStay DEF ViewExists, Number
  <2> QED
    BY <1>3, <1>6, <2>1 DEF TypeInv, CallsTyped, column
<1>7. ASSUME Moves(k), calls'[k].answer = answer, calls'[k].number = number,
             calls'[k].view = calls[k].view, calls'[k].upload = calls[k].upload
      PROVE  CallsTyped'
  <2>1. calls[k].view \in Views \cup {Nothing}
    BY <1>1 DEF Calls
  <2>2. (calls[k].view \in {Nothing} \cup Views)' /\ ViewExists(calls[k].view)'
    BY <1>1, <1>2, <1>7, <2>1, ViewsStay DEF ViewExists, Number
  <2>3. wire' \subseteq DOMAIN calls /\ failures' \in Nat /\ selected' = selected
    BY <1>3 DEF TypeInv, CallsTyped, column
  <2> QED
    BY <1>1, <1>2, <1>5, <1>7, <2>2, <2>3, MovesKeepTypes
<1>8. CallsTyped'
  BY <1>5, <1>6, <1>7 DEF Replied
<1> QED
  BY <1>2, <1>4, <1>8 DEF TypeInv

LEMMA OthersKeepTypes ==
  ASSUME TypeInv, NEW p \in Parts, NEW c \in Contents, OthersSave(p, c)
  PROVE  TypeInv' /\ Grows
<1>1. /\ saved' = [saved EXCEPT ![p] = Append(@, c)]
      /\ items' = [items EXCEPT ![TeamOf[p]] = @ \cup ({NeedsItem[c]} \ {NoItem})]
      /\ UNCHANGED <<commands, column, calls, wire, failures>>
  BY DEF OthersSave
<1>2. Grows /\ saved' \in [Parts -> Seq(Contents)]
  BY <1>1, AppendGrows
<1>3. items' \in [Teams -> SUBSET Items]
  <2>1. TeamOf[p] \in Teams /\ {NeedsItem[c]} \ {NoItem} \subseteq Items
    BY TeamColumnAssumption
  <2>2. items \in [Teams -> SUBSET Items]
    BY DEF TypeInv, ServerTyped
  <2>3. items[TeamOf[p]] \cup ({NeedsItem[c]} \ {NoItem}) \in SUBSET Items
    BY <2>1, <2>2
  <2> QED
    BY <1>1, <2>2, <2>3
<1>4. ServerTyped'
  BY <1>1, <1>2, <1>3, ViewsStay DEF TypeInv, ServerTyped
<1>5. ColumnTyped'
  BY <1>1, <1>2, ServerKeepsColumn
<1>6. ASSUME NEW j \in DOMAIN calls
      PROVE  ViewExists(calls[j].view)'
  <2>1. calls[j] \in Calls /\ ViewExists(calls[j].view)
    BY DEF TypeInv, CallsTyped
  <2>2. calls[j].view \in Views \cup {Nothing}
    BY <2>1 DEF Calls
  <2> QED
    BY <1>1, <1>2, <2>1, <2>2, ViewsStay DEF ViewExists, Number
<1>7. CallsTyped'
  BY <1>1, <1>6 DEF TypeInv, CallsTyped, column
<1> QED
  BY <1>2, <1>4, <1>5, <1>7 DEF TypeInv

LEMMA TypeNext == TypeInv /\ [Next]_vars => TypeInv'
<1> SUFFICES ASSUME TypeInv, [Next]_vars PROVE TypeInv'
  OBVIOUS
<1>1. CASE UNCHANGED vars
  BY <1>1 DEF TypeInv, ServerTyped, ColumnTyped, CallsTyped, vars, server, column, ViewExists,
              Number
<1>2. CASE ColumnStep
  BY <1>2, ColumnKeepsTypes
<1>3. ASSUME NEW edit \in Edits, shown # Nothing, Save(edit) PROVE TypeInv'
  BY <1>3, SaveKeepsTypes
<1>4. ASSUME NEW k \in DOMAIN calls, Compose(k) \/ Understand(k) \/ GiveUp(k) PROVE TypeInv'
  BY <1>4, CallKeepsTypes
<1>5. ASSUME NEW k \in DOMAIN calls, Published(k) PROVE TypeInv'
  BY <1>5, PublishedKeepsTypes
<1>6. ASSUME NEW k \in wire, Serve(k) PROVE TypeInv'
  BY <1>6, ServeKeepsTypes
<1>7. ASSUME NEW p \in Parts, NEW c \in Contents, OthersSave(p, c) PROVE TypeInv'
  BY <1>7, OthersKeepTypes
<1> QED
  BY <1>1, <1>2, <1>3, <1>4, <1>5, <1>6, <1>7, StepCases

LEMMA TypeInvHolds == Spec => []TypeInv
BY TypeInit, TypeNext, PTL DEF Spec

\* The types of the column, the server and the saves: every view is of a part
\* and names a record it has, so an edit always starts from something saved
\* (TeamUi and Draft in apps/desktop-ui/src/team.rs).
THEOREM ColumnTypes == Spec => []TypeOK
BY TypeInvHolds, TypeInvTypes, PTL

-----------------------------------------------------------------------------
(* What is said to be saved.                                               *)

\* The content the save asked for was saved after what it started from.
SavedFor(k) ==
  \E p \in Target(k) :
    \E n \in (calls[k].edit.base + 1) .. Number(p) : saved[p][n] = calls[k].edit.want

\* So it was for every command carried out.
CommandsSaved ==
  \A c \in commands :
    \E p \in Parts :
      /\ TeamOf[p] = c.team /\ IpnOf[p] = c.hash.edit.ipn
      /\ \E n \in (c.hash.edit.base + 1) .. Number(p) : saved[p][n] = c.hash.edit.want

\* The answers that say an edit is saved.
SaysSaved == {"saved", "savedNotShown", "alreadySaved"}

\* A request on its way starts from something saved, and its answer is true.
AnswerTrue(k) ==
  /\ k \in wire => \A p \in Target(k) : calls[k].edit.base <= Number(p)
  /\ calls[k].stage = "served" /\ calls[k].answer = "applied" => SavedFor(k)
  /\ calls[k].stage = "served" /\ calls[k].answer = "conflict" =>
       \A p \in Target(k) : calls[k].number \in (calls[k].edit.base + 1) .. Number(p)
  /\ calls[k].stage \in {"answered", "done"} /\ calls[k].answer \in SaysSaved => SavedFor(k)

SavedInv == TypeInv /\ CommandsSaved /\ \A k \in DOMAIN calls : AnswerTrue(k)

LEMMA StepGrows == TypeInv /\ [Next]_vars => Grows
<1> SUFFICES ASSUME TypeInv, [Next]_vars PROVE Grows
  OBVIOUS
<1>1. ASSUME NEW k \in DOMAIN calls, Compose(k) \/ Understand(k) \/ GiveUp(k) \/ Published(k)
      PROVE  UNCHANGED saved
  BY <1>1 DEF Compose, Understand, GiveUp, Published, server
<1>2. ASSUME NEW edit, Save(edit) PROVE UNCHANGED saved
  BY <1>2 DEF Save, server
<1>3. ColumnStep => UNCHANGED saved
  BY ColumnStepIsLocal DEF server
<1>4. UNCHANGED vars => UNCHANGED saved
  BY DEF vars, server
<1> QED
  BY <1>1, <1>2, <1>3, <1>4, StepCases, SameGrows, ServeGrows, OthersKeepTypes

\* A team has one part of an IPN.
LEMMA OneTarget ==
  ASSUME NEW k, NEW p \in Target(k), NEW q \in Target(k)
  PROVE  p = q
BY TeamColumnAssumption DEF Target

\* What was saved for an edit stays saved.
LEMMA SavedStays ==
  ASSUME TypeInv, TypeInv', Grows, NEW j \in DOMAIN calls,
         calls'[j].edit = calls[j].edit, calls'[j].team = calls[j].team
  PROVE  /\ Target(j)' = Target(j)
         /\ SavedFor(j) => SavedFor(j)'
         /\ calls[j].edit.base \in Nat /\ calls[j].number \in Nat
         /\ \A p \in Target(j) :
              Number(p) \in Nat /\ Number(p)' \in Nat /\ Number(p) <= Number(p)'
<1>1. Target(j)' = Target(j)
  BY DEF Target
<1>2. \A p \in Parts : Number(p) \in Nat /\ Number(p)' \in Nat
  <2>1. \A p \in Parts : Len(saved[p]) \in Nat /\ Len(saved'[p]) \in Nat
    BY DEF TypeInv, ServerTyped
  <2> QED
    BY <2>1 DEF Number
<1>3. \A p \in Target(j) : p \in Parts
  BY DEF Target
<1>4. calls[j].edit.base \in Nat /\ calls[j].number \in Nat
  <2>1. calls[j] \in Calls
    BY DEF TypeInv, CallsTyped
  <2> QED
    BY <2>1 DEF Calls, Edits
<1>5. ASSUME SavedFor(j) PROVE SavedFor(j)'
  <2>0. PICK p \in Target(j) :
          \E n \in (calls[j].edit.base + 1) .. Number(p) : saved[p][n] = calls[j].edit.want
    BY <1>5 DEF SavedFor
  <2>1. PICK n \in (calls[j].edit.base + 1) .. Number(p) : saved[p][n] = calls[j].edit.want
    BY <2>0
  <2>2. n \in 1 .. Number(p) /\ Number(p) \in Nat /\ Number(p)' \in Nat
    BY <1>2, <1>3, <1>4, <2>1
  <2>3. Number(p) <= Number(p)' /\ saved'[p][n] = saved[p][n]
    BY <1>3, <2>2 DEF Grows
  <2>4. n \in (calls[j].edit.base + 1) .. Number(p)'
    BY <1>4, <2>1, <2>2, <2>3
  <2> QED
    BY <1>1, <2>1, <2>3, <2>4 DEF SavedFor
<1>6. \A p \in Target(j) : Number(p) <= Number(p)'
  BY <1>3 DEF Grows
<1> QED
  BY <1>1, <1>2, <1>3, <1>4, <1>5, <1>6

\* An answer stays true while nothing happens to its save.
LEMMA StaysTrue ==
  ASSUME TypeInv, TypeInv', Grows, NEW j \in DOMAIN calls, AnswerTrue(j),
         calls'[j] = calls[j], j \in wire' => j \in wire
  PROVE  AnswerTrue(j)'
<1>1. /\ Target(j)' = Target(j)
      /\ SavedFor(j) => SavedFor(j)'
      /\ calls[j].edit.base \in Nat /\ calls[j].number \in Nat
      /\ \A p \in Target(j) :
           Number(p) \in Nat /\ Number(p)' \in Nat /\ Number(p) <= Number(p)'
  BY SavedStays
<1>2. j \in wire' => \A p \in Target(j) : calls[j].edit.base <= Number(p)'
  BY <1>1 DEF AnswerTrue
<1>3. calls[j].stage = "served" /\ calls[j].answer = "conflict" =>
        \A p \in Target(j) : calls[j].number \in (calls[j].edit.base + 1) .. Number(p)'
  BY <1>1 DEF AnswerTrue
<1> QED
  BY <1>1, <1>2, <1>3 DEF AnswerTrue

\* So do the answers of all the other saves when a save moves on.
LEMMA OneMoves ==
  ASSUME TypeInv, TypeInv', Grows, \A j \in DOMAIN calls : AnswerTrue(j),
         NEW k \in DOMAIN calls, Moves(k), wire' \subseteq wire \cup {k}, AnswerTrue(k)'
  PROVE  (\A j \in DOMAIN calls : AnswerTrue(j))'
<1>1. DOMAIN calls' = DOMAIN calls
  BY DEF Moves
<1>2. ASSUME NEW j \in DOMAIN calls, j # k PROVE AnswerTrue(j)'
  BY <1>2, StaysTrue DEF Moves
<1> QED
  BY <1>1, <1>2

LEMMA NoneMoves ==
  ASSUME TypeInv, TypeInv', Grows, \A j \in DOMAIN calls : AnswerTrue(j),
         UNCHANGED calls, wire' \subseteq wire
  PROVE  (\A j \in DOMAIN calls : AnswerTrue(j))'
<1>1. ASSUME NEW j \in DOMAIN calls PROVE AnswerTrue(j)'
  BY <1>1, StaysTrue
<1> QED
  BY <1>1

\* What was carried out stays saved.
LEMMA CommandsStaySaved ==
  ASSUME TypeInv, TypeInv', Grows, CommandsSaved, UNCHANGED commands
  PROVE  CommandsSaved'
<1>1. SUFFICES ASSUME NEW c \in commands
      PROVE  \E p \in Parts :
               /\ TeamOf[p] = c.team /\ IpnOf[p] = c.hash.edit.ipn
               /\ \E n \in (c.hash.edit.base + 1) .. Number(p)' :
                    saved'[p][n] = c.hash.edit.want
  BY DEF CommandsSaved
<1>2. PICK p \in Parts :
        /\ TeamOf[p] = c.team /\ IpnOf[p] = c.hash.edit.ipn
        /\ \E n \in (c.hash.edit.base + 1) .. Number(p) : saved[p][n] = c.hash.edit.want
  BY DEF CommandsSaved
<1> PICK n \in (c.hash.edit.base + 1) .. Number(p) : saved[p][n] = c.hash.edit.want
  BY <1>2
<1>3. c.hash.edit.base \in Nat
  BY DEF TypeInv, ServerTyped, Commands, Hashes, SentEdits
<1>4. Number(p) \in Nat /\ Number(p)' \in Nat
  BY DEF TypeInv, ServerTyped, Number
<1>5. n \in 1 .. Number(p)
  BY <1>2, <1>3, <1>4
<1>6. Number(p) <= Number(p)' /\ saved'[p][n] = saved[p][n]
  BY <1>5 DEF Grows
<1>7. n \in (c.hash.edit.base + 1) .. Number(p)'
  BY <1>2, <1>3, <1>4, <1>5, <1>6
<1> QED
  BY <1>2, <1>6, <1>7

LEMMA SavedInit == Init => SavedInv
<1> SUFFICES ASSUME Init PROVE SavedInv
  OBVIOUS
<1>1. commands = {} /\ DOMAIN calls = {}
  BY DEF Init
<1> QED
  BY <1>1, TypeInit DEF SavedInv, CommandsSaved

\* A step that leaves the saves and the server's commands alone.
LEMMA OtherStepsKeepSaved ==
  ASSUME SavedInv, TypeInv', Grows, UNCHANGED <<commands, calls, wire>>
  PROVE  SavedInv'
BY CommandsStaySaved, NoneMoves DEF SavedInv

\* A new save has no answer and no request yet.
LEMMA SaveKeepsSaved ==
  ASSUME SavedInv, TypeInv', Grows, NEW edit \in Edits, shown # Nothing, Save(edit)
  PROVE  SavedInv'
<1>1. TypeInv /\ CommandsSaved /\ \A j \in DOMAIN calls : AnswerTrue(j)
  BY DEF SavedInv
<1>2. UNCHANGED <<commands, wire>>
  BY DEF Save, server
<1>3. CommandsSaved'
  BY <1>1, <1>2, CommandsStaySaved
<1>4. /\ calls \in Seq(Calls) /\ DOMAIN calls = 1 .. Len(calls)
      /\ calls' \in Seq(Calls) /\ DOMAIN calls' = 1 .. (Len(calls) + 1)
  <2>1. calls' \in Seq(Calls) /\ Len(calls') = Len(calls) + 1
    BY <1>1, SaveAppends
  <2>2. calls \in Seq(Calls)
    BY <1>1 DEF TypeInv, CallsTyped
  <2> QED
    BY <2>1, <2>2
<1>5. ASSUME NEW j \in DOMAIN calls' PROVE AnswerTrue(j)'
  <2>1. CASE j \in DOMAIN calls
    <3>1. calls'[j] = calls[j]
      BY <1>1, <2>1, SaveAppends
    <3> QED
      BY <1>1, <1>2, <2>1, <3>1, StaysTrue
  <2>2. CASE j = Len(calls) + 1
    <3>1. calls'[j].stage = "asked"
      BY <1>1, <2>2, SaveAppends
    <3>2. j \notin wire'
      BY <1>1, <1>2, <1>4, <2>2 DEF TypeInv, CallsTyped
    <3> QED
      BY <3>1, <3>2 DEF AnswerTrue
  <2> QED
    BY <1>4, <2>1, <2>2
<1> QED
  BY <1>3, <1>5 DEF SavedInv

\* A request is sent for a record the part has.
LEMMA ComposeKeepsSaved ==
  ASSUME SavedInv, TypeInv', Grows, NEW k \in DOMAIN calls, Compose(k)
  PROVE  SavedInv'
<1>1. TypeInv /\ CommandsSaved /\ \A j \in DOMAIN calls : AnswerTrue(j)
  BY DEF SavedInv
<1>2. UNCHANGED <<saved, commands>>
  BY DEF Compose, server
<1>3. Moves(k) /\ calls'[k].edit = calls[k].edit /\ calls'[k].team = calls[k].team
  BY <1>1, ComposeMoves DEF Moves
<1>4. /\ Target(k)' = Target(k)
      /\ \A p \in Target(k) : Number(p)' = Number(p)
  BY <1>2, <1>3 DEF Target, Number
<1>5. AnswerTrue(k)' /\ wire' \subseteq wire \cup {k}
  <2>1. CASE /\ calls'[k].stage = "answered" /\ calls'[k].answer \in {"refused", "nothing"}
             /\ wire' = wire
    BY <1>1, <1>3, <1>4, <2>1 DEF AnswerTrue, SaysSaved
  <2>2. CASE /\ calls'[k].stage = "sent" /\ wire' = wire \cup {k}
             /\ \E p \in Target(k) : calls[k].edit.base <= Number(p)
    <3>1. \A p \in Target(k) : calls[k].edit.base <= Number(p)
      BY <2>2, OneTarget
    <3> QED
      BY <1>3, <1>4, <2>2, <3>1 DEF AnswerTrue
  <2> QED
    BY <1>1, <2>1, <2>2, ComposeMoves
<1> QED
  BY <1>1, <1>2, <1>3, <1>5, OneMoves, CommandsStaySaved DEF SavedInv

\* What the client makes of the server's answer is true if that answer is.
LEMMA UnderstandKeepsSaved ==
  ASSUME SavedInv, TypeInv', Grows, NEW k \in DOMAIN calls, Understand(k)
  PROVE  SavedInv'
<1>1. TypeInv /\ CommandsSaved /\ \A j \in DOMAIN calls : AnswerTrue(j)
  BY DEF SavedInv
<1>2. UNCHANGED <<saved, commands, wire>>
  BY DEF Understand, server
<1>3. /\ Moves(k) /\ calls'[k].edit = calls[k].edit /\ calls'[k].team = calls[k].team
      /\ calls[k].stage = "served" /\ calls'[k].stage = "answered"
  BY <1>1, UnderstandMoves DEF Moves
<1>4. /\ Target(k)' = Target(k)
      /\ SavedFor(k) => SavedFor(k)'
      /\ \A p \in Target(k) : Number(p)' = Number(p)
  BY <1>1, <1>2, <1>3, SavedStays DEF Number
<1>5. calls'[k].answer \in SaysSaved => SavedFor(k)
  <2>1. PICK p \in Target(k) :
          \/ calls[k].answer = "reused" /\ calls'[k].answer = "reused"
          \/ calls[k].answer = "applied" /\ calls'[k].answer \in {"saved", "savedNotShown"}
          \/ /\ calls[k].answer = "conflict" /\ calls'[k].answer = "alreadySaved"
             /\ AlreadyTheirs(k, p)
          \/ calls[k].answer = "conflict" /\ calls'[k].answer \in {"conflict", "refused"}
    BY <1>1, UnderstandMoves
  <2>2. CASE calls[k].answer = "applied"
    BY <1>1, <1>3, <2>2 DEF AnswerTrue
  <2>3. CASE calls[k].answer = "conflict" /\ AlreadyTheirs(k, p)
    <3>1. calls[k].number \in (calls[k].edit.base + 1) .. Number(p)
      BY <1>1, <1>3, <2>3 DEF AnswerTrue
    <3> QED
      BY <2>3, <3>1 DEF SavedFor, AlreadyTheirs
  <2> QED
    BY <2>1, <2>2, <2>3 DEF SaysSaved
<1>6. k \in wire => \A p \in Target(k) : calls[k].edit.base <= Number(p)
  BY <1>1 DEF AnswerTrue
<1>7. AnswerTrue(k)'
  BY <1>2, <1>3, <1>4, <1>5, <1>6 DEF AnswerTrue
<1> QED
  BY <1>1, <1>2, <1>3, <1>7, OneMoves, CommandsStaySaved DEF SavedInv

\* A save given up says nothing.
LEMMA GiveUpKeepsSaved ==
  ASSUME SavedInv, TypeInv', Grows, NEW k \in DOMAIN calls, GiveUp(k)
  PROVE  SavedInv'
<1>1. TypeInv /\ CommandsSaved /\ \A j \in DOMAIN calls : AnswerTrue(j)
  BY DEF SavedInv
<1>2. UNCHANGED <<saved, commands>>
  BY DEF GiveUp, server
<1>3. /\ Moves(k) /\ calls'[k].edit = calls[k].edit /\ calls'[k].team = calls[k].team
      /\ calls'[k].stage = "answered" /\ calls'[k].answer = "unreachable"
      /\ wire' \subseteq wire
  BY <1>1, GiveUpMoves DEF Moves
<1>4. /\ Target(k)' = Target(k)
      /\ \A p \in Target(k) : Number(p)' = Number(p)
  BY <1>2, <1>3 DEF Target, Number
<1>5. k \in wire => \A p \in Target(k) : calls[k].edit.base <= Number(p)
  BY <1>1 DEF AnswerTrue
<1>6. AnswerTrue(k)'
  BY <1>3, <1>4, <1>5 DEF AnswerTrue, SaysSaved
<1> QED
  BY <1>1, <1>2, <1>3, <1>6, OneMoves, CommandsStaySaved DEF SavedInv

LEMMA PublishedKeepsSaved ==
  ASSUME SavedInv, TypeInv', Grows, NEW k \in DOMAIN calls, Published(k)
  PROVE  SavedInv'
<1>1. TypeInv /\ CommandsSaved /\ \A j \in DOMAIN calls : AnswerTrue(j)
  BY DEF SavedInv
<1>2. UNCHANGED <<saved, commands, wire>>
  BY DEF Published, server
<1>3. /\ Moves(k) /\ calls'[k].edit = calls[k].edit /\ calls'[k].team = calls[k].team
      /\ calls[k].stage = "answered" /\ calls'[k].stage = "done"
      /\ calls'[k].answer = calls[k].answer
  BY <1>1, PublishedMoves DEF Moves
<1>4. /\ Target(k)' = Target(k)
      /\ SavedFor(k) => SavedFor(k)'
      /\ \A p \in Target(k) : Number(p)' = Number(p)
  BY <1>1, <1>2, <1>3, SavedStays DEF Number
<1>5. AnswerTrue(k)'
  BY <1>1, <1>2, <1>3, <1>4 DEF AnswerTrue
<1> QED
  BY <1>1, <1>2, <1>3, <1>5, OneMoves, CommandsStaySaved DEF SavedInv

\* A command that carries an edit out saves it after what it started from.
LEMMA CarriedOutIsSaved ==
  ASSUME TypeInv, TypeInv', Grows, CommandsSaved,
         NEW k \in DOMAIN calls, NEW p \in Target(k), calls[k].edit.base = Number(p),
         saved' = [saved EXCEPT ![p] = Append(@, calls[k].edit.want)],
         commands' = commands \cup
           {[team |-> calls[k].team, id |-> calls[k].id, hash |-> Hash(k),
             number |-> Number(p) + 1]}
  PROVE  /\ CommandsSaved'
         /\ \E n \in (calls[k].edit.base + 1) .. Number(p)' :
              saved'[p][n] = calls[k].edit.want
<1>1. calls[k] \in Calls /\ calls[k].edit \in Edits
  <2>1. calls[k] \in Calls
    BY DEF TypeInv, CallsTyped
  <2> QED
    BY <2>1 DEF Calls
<1>2. p \in Parts /\ TeamOf[p] = calls[k].team /\ IpnOf[p] = IpnOf[calls[k].edit.part]
  BY DEF Target
<1>3. Number(p) \in Nat /\ Number(p)' = Number(p) + 1
      /\ saved'[p][Number(p) + 1] = calls[k].edit.want
  BY <1>1, <1>2, AppendGrows, NumbersArePositive DEF Edits
<1>4. Number(p) + 1 \in (calls[k].edit.base + 1) .. Number(p)'
  BY <1>3
<1>5. ASSUME NEW c \in commands
      PROVE  \E q \in Parts :
               /\ TeamOf[q] = c.team /\ IpnOf[q] = c.hash.edit.ipn
               /\ \E n \in (c.hash.edit.base + 1) .. Number(q)' :
                    saved'[q][n] = c.hash.edit.want
  <2>1. PICK q \in Parts :
          /\ TeamOf[q] = c.team /\ IpnOf[q] = c.hash.edit.ipn
          /\ \E n \in (c.hash.edit.base + 1) .. Number(q) : saved[q][n] = c.hash.edit.want
    BY DEF CommandsSaved
  <2>2. PICK n \in (c.hash.edit.base + 1) .. Number(q) : saved[q][n] = c.hash.edit.want
    BY <2>1
  <2>3. c.hash.edit.base \in Nat
    BY DEF TypeInv, ServerTyped, Commands, Hashes, SentEdits
  <2>4. Number(q) \in Nat /\ Number(q)' \in Nat
    BY DEF TypeInv, ServerTyped, Number
  <2>5. n \in 1 .. Number(q)
    BY <2>2, <2>3, <2>4
  <2>6. Number(q) <= Number(q)' /\ saved'[q][n] = saved[q][n]
    BY <2>5 DEF Grows
  <2>7. n \in (c.hash.edit.base + 1) .. Number(q)'
    BY <2>2, <2>3, <2>4, <2>5, <2>6
  <2> QED
    BY <2>1, <2>2, <2>6, <2>7
<1>6. Hash(k).edit.ipn = IpnOf[p] /\ Hash(k).edit.base = calls[k].edit.base
      /\ Hash(k).edit.want = calls[k].edit.want
  BY <1>2 DEF Hash, Sent
<1>7. ASSUME NEW c \in commands', c \notin commands
      PROVE  \E q \in Parts :
               /\ TeamOf[q] = c.team /\ IpnOf[q] = c.hash.edit.ipn
               /\ \E n \in (c.hash.edit.base + 1) .. Number(q)' :
                    saved'[q][n] = c.hash.edit.want
  <2>1. c.team = calls[k].team /\ c.hash = Hash(k)
    BY <1>7
  <2>2. \E n \in (c.hash.edit.base + 1) .. Number(p)' : saved'[p][n] = c.hash.edit.want
    BY <1>3, <1>4, <1>6, <2>1
  <2> QED
    BY <1>2, <1>6, <2>1, <2>2
<1>8. CommandsSaved'
  BY <1>5, <1>7 DEF CommandsSaved
<1> QED
  BY <1>3, <1>4, <1>8

LEMMA ServeKeepsSaved ==
  ASSUME SavedInv, TypeInv', Grows, NEW k \in wire, Serve(k)
  PROVE  SavedInv'
<1>1. /\ TypeInv /\ CommandsSaved /\ \A j \in DOMAIN calls : AnswerTrue(j)
      /\ k \in DOMAIN calls
  BY DEF SavedInv, TypeInv, CallsTyped
<1>2. wire' = wire \ {k}
  BY DEF Serve
<1>3. \A p \in Target(k) : /\ calls[k].edit.base \in Nat /\ Number(p) \in Nat
                           /\ calls[k].edit.base <= Number(p)
  <2>1. calls[k] \in Calls
    BY <1>1 DEF TypeInv, CallsTyped
  <2>2. calls[k].edit.base \in Nat
    BY <2>1 DEF Calls, Edits
  <2>3. \A p \in Target(k) : p \in Parts
    BY DEF Target
  <2> QED
    BY <1>1, <2>2, <2>3, NumbersArePositive DEF AnswerTrue
\* The request is answered truly, so the answer is true if the client gets it.
<1>4. ASSUME NEW answer, NEW number, Replied(k, answer, number),
             answer = "applied" => SavedFor(k)',
             answer = "conflict" =>
               \A p \in Target(k) : number \in (calls[k].edit.base + 1) .. Number(p)',
             answer \in {"applied", "conflict", "reused"}
      PROVE  (\A j \in DOMAIN calls : AnswerTrue(j))'
  <2>1. CASE UNCHANGED calls
    BY <1>1, <1>2, <2>1, NoneMoves
  <2>2. CASE /\ Moves(k) /\ calls'[k].stage = "served" /\ calls'[k].answer = answer
             /\ calls'[k].number = number
    <3>1. calls'[k].edit = calls[k].edit /\ Target(k)' = Target(k)
      BY <2>2 DEF Moves, Target
    <3>2. AnswerTrue(k)'
      BY <1>2, <1>4, <2>2, <3>1 DEF AnswerTrue
    <3> QED
      BY <1>1, <1>2, <2>2, <3>2, OneMoves
  <2> QED
    BY <1>4, <2>1, <2>2 DEF Replied
<1>5. /\ calls'[k].edit = calls[k].edit /\ calls'[k].team = calls[k].team
      /\ Target(k)' = Target(k)
  <2>1. \A answer, number : Replied(k, answer, number) =>
          calls'[k].edit = calls[k].edit /\ calls'[k].team = calls[k].team
    BY DEF Replied, Moves
  <2>2. \E answer, number : Replied(k, answer, number)
    BY <1>1, ServeCases
  <2> QED
    BY <2>1, <2>2 DEF Target
<1>6. CASE /\ UNCHANGED server
           /\ \E c \in Priors(k) : c.hash = Hash(k) /\ Replied(k, "applied", c.number)
  <2>1. PICK c \in Priors(k) : c.hash = Hash(k) /\ Replied(k, "applied", c.number)
    BY <1>6
  <2>2. c \in commands /\ c.team = calls[k].team
    BY DEF Priors
  <2>3. PICK p \in Parts :
          /\ TeamOf[p] = c.team /\ IpnOf[p] = c.hash.edit.ipn
          /\ \E n \in (c.hash.edit.base + 1) .. Number(p) : saved[p][n] = c.hash.edit.want
    BY <1>1, <2>2 DEF CommandsSaved
  <2>4. /\ c.hash.edit.ipn = IpnOf[calls[k].edit.part]
        /\ c.hash.edit.base = calls[k].edit.base /\ c.hash.edit.want = calls[k].edit.want
    BY <2>1 DEF Hash, Sent
  <2>5. p \in Target(k)
    BY <2>2, <2>3, <2>4 DEF Target
  <2>6. SavedFor(k)
    BY <2>3, <2>4, <2>5 DEF SavedFor
  <2>7. SavedFor(k)'
    BY <1>1, <1>5, <2>6, SavedStays
  <2>8. (\A j \in DOMAIN calls : AnswerTrue(j))'
    BY <1>4, <2>1, <2>7
  <2> QED
    BY <1>1, <1>6, <2>8, CommandsStaySaved DEF SavedInv, server
<1>7. CASE /\ UNCHANGED server
           /\ \E c \in Priors(k) : c.hash # Hash(k) /\ Replied(k, "reused", 0)
  <2>1. (\A j \in DOMAIN calls : AnswerTrue(j))'
    BY <1>4, <1>7
  <2> QED
    BY <1>1, <1>7, <2>1, CommandsStaySaved DEF SavedInv, server
<1>8. ASSUME NEW p \in Target(k), UNCHANGED server, calls[k].edit.base # Number(p),
             Replied(k, "conflict", Number(p))
      PROVE  SavedInv'
  <2>1. Number(p)' = Number(p) /\ Number(p) \in (calls[k].edit.base + 1) .. Number(p)
    BY <1>3, <1>8 DEF server, Number
  <2>2. \A q \in Target(k) : Number(p) \in (calls[k].edit.base + 1) .. Number(q)'
    BY <2>1, OneTarget
  <2>3. (\A j \in DOMAIN calls : AnswerTrue(j))'
    BY <1>4, <1>8, <2>2
  <2> QED
    BY <1>1, <1>8, <2>3, CommandsStaySaved DEF SavedInv, server
<1>9. ASSUME NEW p \in Target(k), calls[k].edit.base = Number(p),
             saved' = [saved EXCEPT ![p] = Append(@, calls[k].edit.want)],
             commands' = commands \cup
               {[team |-> calls[k].team, id |-> calls[k].id, hash |-> Hash(k),
                 number |-> Number(p) + 1]},
             Replied(k, "applied", Number(p) + 1)
      PROVE  SavedInv'
  <2>1. /\ CommandsSaved'
        /\ \E n \in (calls[k].edit.base + 1) .. Number(p)' : saved'[p][n] = calls[k].edit.want
    BY <1>1, <1>9, CarriedOutIsSaved
  <2>2. SavedFor(k)'
    BY <1>5, <2>1 DEF SavedFor
  <2>3. (\A j \in DOMAIN calls : AnswerTrue(j))'
    BY <1>4, <1>9, <2>2
  <2> QED
    BY <2>1, <2>3 DEF SavedInv
<1> QED
  BY <1>1, <1>6, <1>7, <1>8, <1>9, ServeCases

LEMMA OthersKeepSaved ==
  ASSUME SavedInv, TypeInv', Grows, NEW p \in Parts, NEW c \in Contents, OthersSave(p, c)
  PROVE  SavedInv'
BY OtherStepsKeepSaved DEF OthersSave

LEMMA SavedNext == SavedInv /\ [Next]_vars => SavedInv'
<1> SUFFICES ASSUME SavedInv, [Next]_vars PROVE SavedInv'
  OBVIOUS
<1>1. TypeInv /\ TypeInv' /\ Grows
  BY TypeNext, StepGrows DEF SavedInv
<1>2. CASE UNCHANGED vars
  BY <1>1, <1>2, OtherStepsKeepSaved DEF vars, server
<1>3. CASE ColumnStep
  BY <1>1, <1>3, ColumnStepIsLocal, OtherStepsKeepSaved DEF server
<1>4. ASSUME NEW edit \in Edits, shown # Nothing, Save(edit) PROVE SavedInv'
  BY <1>1, <1>4, SaveKeepsSaved
<1>5. ASSUME NEW k \in DOMAIN calls, Compose(k) \/ Understand(k) \/ GiveUp(k) \/ Published(k)
      PROVE  SavedInv'
  BY <1>1, <1>5, ComposeKeepsSaved, UnderstandKeepsSaved, GiveUpKeepsSaved, PublishedKeepsSaved
<1>6. ASSUME NEW k \in wire, Serve(k) PROVE SavedInv'
  BY <1>1, <1>6, ServeKeepsSaved
<1>7. ASSUME NEW p \in Parts, NEW c \in Contents, OthersSave(p, c) PROVE SavedInv'
  BY <1>1, <1>7, OthersKeepSaved
<1> QED
  BY <1>1, <1>2, <1>3, <1>4, <1>5, <1>6, <1>7, StepCases

\* When the column says that an edit is saved, by this save, by an earlier one
\* sent again, or because they saved the same, the part's Catalog has gained
\* what the person wanted since the edit was started (team.rs:360, mod.rs:664).
THEOREM SaidIsSaved == Spec => []WhatItSaysIsSaved
<1>1. SavedInv => WhatItSaysIsSaved
  BY DEF SavedInv, AnswerTrue, SaysSaved, SavedFor, WhatItSaysIsSaved
<1> QED
  BY <1>1, SavedInit, SavedNext, PTL DEF Spec

-----------------------------------------------------------------------------
(* A save sent again.                                                      *)

\* The slot is of the form that the newest save came from, or of a later one.
SlotFits ==
  /\ slot.opened <= ids
  /\ \A k \in DOMAIN calls : calls[k].opened <= ids
  /\ \A k \in DOMAIN calls :
       k + 1 \notin DOMAIN calls /\ calls[k].opened = slot.opened =>
         slot.last = Sent(calls[k].edit) /\ slot.id = calls[k].id

\* A save sent again has the ID it had.
RetriesKeepTheirId ==
  \A k \in DOMAIN calls : \A j \in 1 .. k : Retries(j, k) => calls[j].id = calls[k].id

\* The server knows one command by an ID.
OneCommandPerId ==
  \A c, d \in commands : c.team = d.team /\ c.id = d.id => c = d

\* The save was refused its ID, or found a conflict.
Denied(k) ==
  calls[k].stage \in {"served", "answered", "done"} /\ calls[k].answer \in NotReplayed

\* Then its body was not carried out, and never will be: another command has
\* its ID, or the part went on from the record it starts from.
DenialHolds(k) ==
  Denied(k) =>
    /\ \A c \in Priors(k) : c.hash # Hash(k)
    /\ Priors(k) # {} \/ \A p \in Target(k) : calls[k].edit.base < Number(p)

RetryInv ==
  /\ SavedInv
  /\ SlotFits /\ RetriesKeepTheirId
  /\ OneCommandPerId
  /\ \A k \in DOMAIN calls : DenialHolds(k)

LEMMA RetryInit == Init => RetryInv
<1> SUFFICES ASSUME Init PROVE RetryInv
  OBVIOUS
<1>1. commands = {} /\ DOMAIN calls = {} /\ slot.opened = 0 /\ ids = 0
  BY DEF Init
<1> QED
  BY <1>1, SavedInit DEF RetryInv, SlotFits, RetriesKeepTheirId, OneCommandPerId

\* The calls ask what they asked.
SameAsked(j) ==
  /\ calls'[j].edit = calls[j].edit /\ calls'[j].team = calls[j].team
  /\ calls'[j].id = calls[j].id /\ calls'[j].opened = calls[j].opened

LEMMA MovesAskTheSame ==
  ASSUME NEW k \in DOMAIN calls, Moves(k)
  PROVE  DOMAIN calls' = DOMAIN calls /\ \A j \in DOMAIN calls : SameAsked(j)
BY DEF Moves, SameAsked

LEMMA SameIds ==
  ASSUME DOMAIN calls' = DOMAIN calls, \A j \in DOMAIN calls : SameAsked(j),
         UNCHANGED <<slot, ids>>, TypeInv, SlotFits, RetriesKeepTheirId
  PROVE  SlotFits' /\ RetriesKeepTheirId'
<1>1. SlotFits'
  BY DEF SlotFits, SameAsked
<1>2. ASSUME NEW k \in DOMAIN calls, NEW j \in 1 .. k, Retries(j, k)'
      PROVE  calls'[j].id = calls'[k].id
  <2>1. DOMAIN calls = 1 .. Len(calls) /\ Len(calls) \in Nat
    BY DEF TypeInv, CallsTyped
  <2>2. j \in DOMAIN calls /\ \A i \in j .. k : i \in DOMAIN calls
    BY <2>1
  <2>3. Retries(j, k)
    BY <1>2, <2>2 DEF Retries, SameAsked
  <2> QED
    BY <2>2, <2>3 DEF RetriesKeepTheirId, SameAsked
<1>3. RetriesKeepTheirId'
  BY <1>2 DEF RetriesKeepTheirId
<1> QED
  BY <1>1, <1>3

\* A form opened since the newest save has a slot of its own.
LEMMA OpenSlotFits ==
  ASSUME TypeInv, OpenSlot, UNCHANGED calls, SlotFits
  PROVE  SlotFits'
<1>1. /\ ids \in Nat /\ ids' = ids + 1 /\ slot'.opened = ids'
      /\ \A k \in DOMAIN calls : calls[k].opened \in Nat
  <2>1. \A k \in DOMAIN calls : calls[k] \in Calls
    BY DEF TypeInv, CallsTyped
  <2> QED
    BY <2>1 DEF TypeInv, ColumnTyped, OpenSlot, Calls
<1>2. \A k \in DOMAIN calls : calls[k].opened <= ids
  BY DEF SlotFits
<1>3. \A k \in DOMAIN calls : calls[k].opened <= ids' /\ calls[k].opened # slot'.opened
  BY <1>1, <1>2
<1> QED
  BY <1>1, <1>3 DEF SlotFits

LEMMA ColumnKeepsIds ==
  ASSUME TypeInv, ColumnStep, SlotFits, RetriesKeepTheirId
  PROVE  SlotFits' /\ RetriesKeepTheirId'
<1>1. UNCHANGED calls
  BY ColumnStepIsLocal
<1>2. OpenSlot \/ UNCHANGED <<slot, ids>>
  BY DEF ColumnStep, Select, Reset, LiveUpdate, ReadRefresh, ShowRefresh, EditPart, EditAgain,
         EditFrom, Discard, Type
<1>3. RetriesKeepTheirId'
  BY <1>1 DEF RetriesKeepTheirId, Retries
<1>4. CASE OpenSlot
  BY <1>1, <1>3, <1>4, OpenSlotFits
<1>5. CASE UNCHANGED <<slot, ids>>
  BY <1>1, <1>3, <1>5 DEF SlotFits
<1> QED
  BY <1>2, <1>4, <1>5

\* A new save gets the ID of the newest one if it is that sent again.
LEMMA SaveKeepsIds ==
  ASSUME TypeInv, NEW edit \in Edits, shown # Nothing, Save(edit),
         SlotFits, RetriesKeepTheirId
  PROVE  SlotFits' /\ RetriesKeepTheirId'
<1> PICK n \in Nat : n = Len(calls)
  BY DEF TypeInv, CallsTyped
<1>1. /\ calls \in Seq(Calls) /\ n \in Nat /\ DOMAIN calls = 1 .. n
      /\ DOMAIN calls' = 1 .. (n + 1)
  <2>1. calls' \in Seq(Calls) /\ Len(calls') = n + 1
    BY SaveAppends
  <2>2. calls \in Seq(Calls)
    BY DEF TypeInv, CallsTyped
  <2> QED
    BY <2>1, <2>2
<1>2. \A j \in 1 .. n : calls'[j] = calls[j]
  BY <1>1, SaveAppends
<1>3. /\ calls'[n + 1].edit = edit /\ calls'[n + 1].opened = slot.opened
      /\ calls'[n + 1].id = slot'.id
      /\ slot'.opened = slot.opened /\ slot'.last = Sent(edit)
      /\ slot'.id = slot.id \/ slot.last \notin {Nothing, Sent(edit)}
      /\ ids \in Nat /\ ids' \in Nat /\ ids <= ids'
  BY SaveAppends DEF TypeInv, ColumnTyped
<1>4. /\ slot.opened \in Nat /\ slot.opened <= ids
      /\ \A k \in 1 .. n : calls[k].opened \in Nat /\ calls[k].opened <= ids
  <2>1. \A k \in 1 .. n : calls[k] \in Calls
    BY <1>1
  <2> QED
    BY <1>1, <2>1 DEF TypeInv, ColumnTyped, Slots, SlotFits, Calls
<1>5. SlotFits'
  <2>1. slot'.opened <= ids' /\ \A k \in 1 .. n : calls'[k].opened <= ids'
    BY <1>2, <1>3, <1>4
  <2>2. calls'[n + 1].opened <= ids'
    BY <1>3, <1>4
  <2>3. ASSUME NEW k \in 1 .. (n + 1), k + 1 \notin 1 .. (n + 1) PROVE k = n + 1
    BY <1>1, <2>3
  <2>4. \A k \in 1 .. (n + 1) : k \in 1 .. n \/ k = n + 1
    BY <1>1
  <2> QED
    BY <1>1, <1>3, <2>1, <2>2, <2>3, <2>4 DEF SlotFits
<1>6. ASSUME NEW k \in 1 .. n, NEW j \in 1 .. k, Retries(j, k)'
      PROVE  calls'[j].id = calls'[k].id
  <2>1. j \in 1 .. n /\ \A i \in j .. k : i \in 1 .. n
    BY <1>1
  <2>2. Retries(j, k)
    BY <1>2, <1>6, <2>1 DEF Retries
  <2> QED
    BY <1>1, <1>2, <2>1, <2>2 DEF RetriesKeepTheirId
<1>7. ASSUME NEW j \in 1 .. n, Retries(j, n + 1)'
      PROVE  calls'[j].id = calls'[n + 1].id
  <2>1. /\ n \in 1 .. n /\ n + 1 \notin 1 .. n /\ j \in 1 .. n
        /\ n \in j .. (n + 1) /\ n + 1 \in j .. (n + 1)
        /\ \A i \in j .. n : i \in j .. (n + 1) /\ i \in 1 .. n
    BY <1>1
  <2>2. Retries(j, n)
    BY <1>2, <1>7, <2>1 DEF Retries
  <2>3. calls[n].opened = slot.opened /\ Sent(calls[n].edit) = Sent(edit)
    BY <1>2, <1>3, <1>7, <2>1 DEF Retries
  <2>4. slot.last = Sent(calls[n].edit) /\ slot.id = calls[n].id
    BY <1>1, <2>1, <2>3 DEF SlotFits
  <2>5. slot'.id = slot.id
    BY <1>3, <2>3, <2>4
  <2>6. calls[j].id = calls[n].id
    BY <1>1, <2>1, <2>2 DEF RetriesKeepTheirId
  <2> QED
    BY <1>2, <1>3, <2>4, <2>5, <2>6
<1>8. RetriesKeepTheirId'
  <2>1. \A k \in 1 .. (n + 1) : \A j \in 1 .. k :
          \/ k \in 1 .. n
          \/ k = n + 1 /\ (j \in 1 .. n \/ j = k)
    BY <1>1
  <2> QED
    BY <1>1, <1>6, <1>7, <2>1 DEF RetriesKeepTheirId
<1> QED
  BY <1>5, <1>8

\* A denial stays while the server carries nothing out.
LEMMA DenialStays ==
  ASSUME TypeInv, TypeInv', Grows, UNCHANGED commands, NEW j \in DOMAIN calls,
         DenialHolds(j), SameAsked(j), Denied(j)' => Denied(j),
         Denied(j)' => calls'[j].upload = calls[j].upload
  PROVE  DenialHolds(j)'
<1>1. /\ Target(j)' = Target(j)
      /\ calls[j].edit.base \in Nat
      /\ \A p \in Target(j) :
           Number(p) \in Nat /\ Number(p)' \in Nat /\ Number(p) <= Number(p)'
  BY SavedStays DEF SameAsked
<1>2. Priors(j)' = Priors(j) /\ (Denied(j)' => Hash(j)' = Hash(j))
  BY DEF Priors, Hash, SameAsked
<1>3. (\A p \in Target(j) : calls[j].edit.base < Number(p)) =>
        \A p \in Target(j) : calls[j].edit.base < Number(p)'
  BY <1>1
<1> QED
  BY <1>1, <1>2, <1>3 DEF DenialHolds, SameAsked

\* Nor is it undone by an edit carried out: not with its ID, if another
\* command has that, and not with its body, for that has no record to start from.
LEMMA DenialStaysBesides ==
  ASSUME TypeInv, TypeInv', Grows, NEW k \in DOMAIN calls, NEW p \in Target(k),
         Priors(k) = {}, calls[k].edit.base = Number(p),
         commands' = commands \cup
           {[team |-> calls[k].team, id |-> calls[k].id, hash |-> Hash(k),
             number |-> Number(p) + 1]},
         NEW j \in DOMAIN calls, DenialHolds(j), SameAsked(j), Denied(j)' => Denied(j),
         Denied(j)' => calls'[j].upload = calls[j].upload
  PROVE  DenialHolds(j)'
<1> DEFINE d == [team |-> calls[k].team, id |-> calls[k].id, hash |-> Hash(k),
                 number |-> Number(p) + 1]
<1>1. /\ Target(j)' = Target(j)
      /\ calls[j].edit.base \in Nat
      /\ \A q \in Target(j) :
           Number(q) \in Nat /\ Number(q)' \in Nat /\ Number(q) <= Number(q)'
  BY SavedStays DEF SameAsked
<1> SUFFICES ASSUME Denied(j)' PROVE DenialHolds(j)'
  BY DEF DenialHolds
<1>2. Hash(j)' = Hash(j) /\ Denied(j)
  BY DEF Hash, SameAsked
<1>3. /\ \A c \in Priors(j) : c.hash # Hash(j)
      /\ Priors(j) # {} \/ \A q \in Target(j) : calls[j].edit.base < Number(q)
  BY <1>2 DEF DenialHolds
<1>4. Priors(j) \subseteq Priors(j)'
  BY DEF Priors, SameAsked
<1>5. ASSUME NEW c \in Priors(j)', c \notin Priors(j)
      PROVE  c.hash # Hash(j)
  <2>1. c = d /\ calls[j].team = calls[k].team /\ calls[j].id = calls[k].id
    BY <1>5 DEF Priors, SameAsked
  <2>2. Priors(j) = {}
    BY <2>1 DEF Priors
  <2>3. SUFFICES ASSUME Hash(k) = Hash(j) PROVE FALSE
    BY <2>1
  <2>4. /\ IpnOf[calls[k].edit.part] = IpnOf[calls[j].edit.part]
        /\ calls[k].edit.base = calls[j].edit.base
    BY <2>3 DEF Hash, Sent
  <2>5. p \in Target(j)
    BY <2>1, <2>4 DEF Target
  <2>6. calls[j].edit.base < Number(p)
    BY <1>3, <2>2, <2>5
  <2>7. calls[j].edit.base = Number(p) /\ Number(p) \in Nat
    BY <1>1, <2>4, <2>5
  <2> QED
    BY <2>6, <2>7
<1>6. \A c \in Priors(j)' : c.hash # Hash(j)'
  BY <1>2, <1>3, <1>5
<1>7. (\A q \in Target(j) : calls[j].edit.base < Number(q)) =>
        \A q \in Target(j) : calls[j].edit.base < Number(q)'
  BY <1>1
<1>8. Priors(j)' # {} \/ \A q \in Target(j)' : calls'[j].edit.base < Number(q)'
  BY <1>1, <1>3, <1>4, <1>7 DEF SameAsked
<1> QED
  BY <1>6, <1>8 DEF DenialHolds

\* A save that moves on without the server is denied only if it was.
LEMMA MoveKeepsRetries ==
  ASSUME RetryInv, SavedInv', Grows, NEW k \in DOMAIN calls, Moves(k),
         UNCHANGED <<commands, slot, ids>>,
         Denied(k)' => Denied(k) /\ calls'[k].upload = calls[k].upload
  PROVE  RetryInv'
<1>1. TypeInv /\ TypeInv' /\ SlotFits /\ RetriesKeepTheirId /\ OneCommandPerId
  BY DEF RetryInv, SavedInv
<1>2. DOMAIN calls' = DOMAIN calls /\ \A j \in DOMAIN calls : SameAsked(j)
  BY MovesAskTheSame
<1>3. SlotFits' /\ RetriesKeepTheirId'
  BY <1>1, <1>2, SameIds
<1>4. ASSUME NEW j \in DOMAIN calls PROVE DenialHolds(j)'
  <2>1. /\ Denied(j)' => Denied(j)
        /\ Denied(j)' => calls'[j].upload = calls[j].upload
    <3>1. CASE j = k
      BY <3>1
    <3>2. CASE j # k
      BY <3>2 DEF Moves, Denied
    <3> QED
      BY <3>1, <3>2
  <2> QED
    BY <1>1, <1>2, <2>1, DenialStays DEF RetryInv
<1>5. OneCommandPerId'
  BY <1>1 DEF OneCommandPerId
<1> QED
  BY <1>2, <1>3, <1>4, <1>5 DEF RetryInv

LEMMA CallKeepsRetries ==
  ASSUME RetryInv, SavedInv', Grows, NEW k \in DOMAIN calls,
         Compose(k) \/ Understand(k) \/ GiveUp(k) \/ Published(k)
  PROVE  RetryInv'
<1>1. TypeInv
  BY DEF RetryInv, SavedInv
<1>2. UNCHANGED <<commands, slot, ids>>
  BY DEF Compose, Understand, GiveUp, Published, server, column
<1>3. CASE Compose(k)
  <2>1. Moves(k) /\ calls[k].stage = "asked"
    BY <1>1, <1>3, ComposeMoves
  <2>2. \/ calls'[k].stage = "answered" /\ calls'[k].answer \in {"refused", "nothing"}
        \/ calls'[k].stage = "sent"
    BY <1>1, <1>3, ComposeMoves
  <2>3. ~Denied(k)'
    BY <2>2 DEF Denied, NotReplayed
  <2> QED
    BY <1>2, <2>1, <2>3, MoveKeepsRetries
<1>4. CASE Understand(k)
  <2>1. /\ Moves(k) /\ calls[k].stage = "served" /\ calls'[k].upload = calls[k].upload
        /\ calls'[k].answer \in NotReplayed => calls[k].answer \in NotReplayed
    BY <1>1, <1>4, UnderstandMoves DEF NotReplayed
  <2> QED
    BY <1>2, <2>1, MoveKeepsRetries DEF Denied
<1>5. CASE GiveUp(k)
  <2>1. Moves(k) /\ calls'[k].answer = "unreachable"
    BY <1>1, <1>5, GiveUpMoves
  <2> QED
    BY <1>2, <2>1, MoveKeepsRetries DEF Denied, NotReplayed
<1>6. CASE Published(k)
  <2>1. /\ Moves(k) /\ calls[k].stage = "answered" /\ calls'[k].upload = calls[k].upload
        /\ calls'[k].answer = calls[k].answer
    BY <1>1, <1>6, PublishedMoves
  <2> QED
    BY <1>2, <2>1, MoveKeepsRetries DEF Denied
<1> QED
  BY <1>3, <1>4, <1>5, <1>6

\* Steps that leave the saves and the server's commands as they are.
LEMMA OtherStepsKeepDenials ==
  ASSUME RetryInv, SavedInv', Grows, UNCHANGED <<commands, calls>>,
         SlotFits', RetriesKeepTheirId'
  PROVE  RetryInv'
<1>1. ASSUME NEW j \in DOMAIN calls PROVE DenialHolds(j)'
  <2>1. SameAsked(j) /\ (Denied(j)' => Denied(j)) /\ calls'[j].upload = calls[j].upload
    BY DEF SameAsked, Denied
  <2> QED
    BY <2>1, DenialStays DEF RetryInv, SavedInv
<1> QED
  BY <1>1 DEF RetryInv, OneCommandPerId

LEMMA SaveKeepsRetries ==
  ASSUME RetryInv, SavedInv', Grows, NEW edit \in Edits, shown # Nothing, Save(edit)
  PROVE  RetryInv'
<1>1. TypeInv /\ SlotFits /\ RetriesKeepTheirId /\ OneCommandPerId /\ TypeInv'
  BY DEF RetryInv, SavedInv
<1>2. UNCHANGED commands
  BY DEF Save, server
<1>3. SlotFits' /\ RetriesKeepTheirId'
  BY <1>1, SaveKeepsIds
<1>4. DOMAIN calls = 1 .. Len(calls) /\ DOMAIN calls' = 1 .. (Len(calls) + 1)
      /\ Len(calls) \in Nat
  <2>1. calls' \in Seq(Calls) /\ Len(calls') = Len(calls) + 1
    BY <1>1, SaveAppends
  <2>2. calls \in Seq(Calls)
    BY <1>1 DEF TypeInv, CallsTyped
  <2> QED
    BY <2>1, <2>2
<1>5. ASSUME NEW j \in DOMAIN calls' PROVE DenialHolds(j)'
  <2>1. CASE j \in DOMAIN calls
    <3>1. calls'[j] = calls[j]
      BY <1>1, <2>1, SaveAppends
    <3>2. SameAsked(j) /\ (Denied(j)' => Denied(j)) /\ calls'[j].upload = calls[j].upload
      BY <3>1 DEF SameAsked, Denied
    <3> QED
      BY <1>1, <1>2, <2>1, <3>2, DenialStays DEF RetryInv
  <2>2. CASE j = Len(calls) + 1
    <3>1. calls'[j].stage = "asked"
      BY <1>1, <2>2, SaveAppends
    <3> QED
      BY <3>1 DEF DenialHolds, Denied
  <2> QED
    BY <1>4, <2>1, <2>2
<1> QED
  BY <1>1, <1>2, <1>3, <1>5 DEF RetryInv, OneCommandPerId

LEMMA ServeKeepsRetries ==
  ASSUME RetryInv, SavedInv', Grows, NEW k \in wire, Serve(k)
  PROVE  RetryInv'
<1>1. /\ TypeInv /\ SlotFits /\ RetriesKeepTheirId /\ OneCommandPerId /\ TypeInv'
      /\ k \in DOMAIN calls
  BY DEF RetryInv, SavedInv, TypeInv, CallsTyped
<1>2. UNCHANGED <<slot, ids>>
  BY DEF Serve, column
<1>3. DOMAIN calls' = DOMAIN calls /\ \A j \in DOMAIN calls : SameAsked(j)
  <2>1. PICK answer, number : Replied(k, answer, number)
    BY <1>1, ServeCases
  <2>2. CASE UNCHANGED calls
    BY <2>2 DEF SameAsked
  <2>3. CASE Moves(k)
    BY <1>1, <2>3, MovesAskTheSame
  <2> QED
    BY <2>1, <2>2, <2>3 DEF Replied
<1>4. SlotFits' /\ RetriesKeepTheirId'
  BY <1>1, <1>2, <1>3, SameIds
\* What the answer leaves as it is: all but this save, if it is still waited for.
<1>5. ASSUME NEW answer, NEW number, Replied(k, answer, number),
             NEW j \in DOMAIN calls, j # k \/ answer \notin NotReplayed \/ UNCHANGED calls
      PROVE  /\ Denied(j)' => Denied(j)
             /\ Denied(j)' => calls'[j].upload = calls[j].upload
  <2>1. CASE UNCHANGED calls
    BY <2>1 DEF Denied
  <2>2. CASE Moves(k) /\ j # k
    BY <2>2 DEF Denied, Moves
  <2>3. CASE calls'[k].answer = answer /\ j = k /\ answer \notin NotReplayed
    BY <2>3 DEF Denied
  <2> QED
    BY <1>5, <2>1, <2>2, <2>3 DEF Replied
\* An answer that carries nothing out.
<1>6. ASSUME UNCHANGED server, NEW answer, NEW number, Replied(k, answer, number),
             answer \notin NotReplayed \/ DenialHolds(k)'
      PROVE  RetryInv'
  <2>1. ASSUME NEW j \in DOMAIN calls PROVE DenialHolds(j)'
    <3>1. CASE j # k \/ answer \notin NotReplayed
      BY <1>1, <1>3, <1>5, <1>6, <3>1, DenialStays DEF RetryInv, server
    <3>2. CASE j = k /\ DenialHolds(k)'
      BY <3>2
    <3> QED
      BY <1>6, <3>1, <3>2
  <2> QED
    BY <1>1, <1>3, <1>4, <1>6, <2>1 DEF RetryInv, OneCommandPerId, server
<1>7. ASSUME UNCHANGED server, UNCHANGED calls PROVE RetryInv'
  BY <1>4, <1>7, OtherStepsKeepDenials DEF server
<1>8. ASSUME UNCHANGED server, NEW c \in Priors(k), c.hash # Hash(k), Replied(k, "reused", 0)
      PROVE  RetryInv'
  <2>1. CASE UNCHANGED calls
    BY <1>7, <1>8, <2>1
  <2>2. CASE Moves(k) /\ calls'[k].upload = calls[k].upload
    <3>1. Priors(k)' = Priors(k) /\ Hash(k)' = Hash(k)
      BY <1>8, <2>2 DEF Priors, Hash, Moves, server
    <3>2. \A d \in Priors(k) : d = c
      BY <1>1 DEF OneCommandPerId, Priors
    <3>3. DenialHolds(k)'
      BY <1>8, <3>1, <3>2 DEF DenialHolds
    <3> QED
      BY <1>6, <1>8, <3>3
  <2> QED
    BY <1>8, <2>1, <2>2 DEF Replied
<1>9. ASSUME NEW p \in Target(k), UNCHANGED server, Priors(k) = {},
             calls[k].edit.base # Number(p), Replied(k, "conflict", Number(p))
      PROVE  RetryInv'
  <2>1. CASE UNCHANGED calls
    BY <1>7, <1>9, <2>1
  <2>2. CASE Moves(k)
    <3>1. /\ Priors(k)' = {} /\ Target(k)' = Target(k)
          /\ calls'[k].edit = calls[k].edit
      BY <1>9, <2>2 DEF Priors, Target, Moves, server
    <3>2. calls[k].edit.base <= Number(p)
      BY <1>1 DEF RetryInv, SavedInv, AnswerTrue
    <3>3. calls[k].edit.base \in Nat /\ Number(p) \in Nat
      BY <1>1, <1>3, SavedStays DEF SameAsked
    <3>4. calls[k].edit.base < Number(p)
      BY <1>9, <3>2, <3>3
    <3>5. Number(p)' = Number(p)
      BY <1>9 DEF server, Number
    <3>6. \A q \in Target(k)' : calls'[k].edit.base < Number(q)'
      BY <3>1, <3>4, <3>5, OneTarget
    <3>7. DenialHolds(k)'
      BY <3>1, <3>6 DEF DenialHolds
    <3> QED
      BY <1>6, <1>9, <3>7
  <2> QED
    BY <1>9, <2>1, <2>2 DEF Replied
<1>10. ASSUME NEW p \in Target(k), Priors(k) = {}, calls[k].edit.base = Number(p),
              commands' = commands \cup
                {[team |-> calls[k].team, id |-> calls[k].id, hash |-> Hash(k),
                  number |-> Number(p) + 1]},
              Replied(k, "applied", Number(p) + 1)
       PROVE  RetryInv'
  <2>1. "applied" \notin NotReplayed
    BY DEF NotReplayed
  <2>2. ASSUME NEW j \in DOMAIN calls PROVE DenialHolds(j)'
    <3>1. /\ Denied(j)' => Denied(j)
          /\ Denied(j)' => calls'[j].upload = calls[j].upload
      BY <1>5, <1>10, <2>1
    <3>2. DenialHolds(j) /\ SameAsked(j)
      BY <1>3 DEF RetryInv
    <3> QED
      BY <1>1, <1>10, <3>1, <3>2, DenialStaysBesides
  <2>3. OneCommandPerId'
    <3> DEFINE d == [team |-> calls[k].team, id |-> calls[k].id, hash |-> Hash(k),
                     number |-> Number(p) + 1]
    <3>1. d.team = calls[k].team /\ d.id = calls[k].id /\ commands' = commands \cup {d}
      BY <1>10
    <3>2. \A c \in commands : c.team # calls[k].team \/ c.id # calls[k].id
      BY <1>10 DEF Priors
    <3> HIDE DEF d
    <3> QED
      BY <1>1, <3>1, <3>2 DEF OneCommandPerId
  <2> QED
    BY <1>3, <1>4, <2>2, <2>3 DEF RetryInv
<1>11. "applied" \notin NotReplayed
  BY DEF NotReplayed
<1>12. ASSUME UNCHANGED server, NEW number, Replied(k, "applied", number)
       PROVE  RetryInv'
  BY <1>6, <1>11, <1>12
<1>13. PICK p \in Target(k) :
         \/ /\ UNCHANGED server
            /\ \E c \in Priors(k) : c.hash = Hash(k) /\ Replied(k, "applied", c.number)
         \/ /\ UNCHANGED server
            /\ \E c \in Priors(k) : c.hash # Hash(k) /\ Replied(k, "reused", 0)
         \/ /\ UNCHANGED server
            /\ Priors(k) = {} /\ calls[k].edit.base # Number(p)
            /\ Replied(k, "conflict", Number(p))
         \/ /\ Priors(k) = {} /\ calls[k].edit.base = Number(p)
            /\ commands' = commands \cup
                 {[team |-> calls[k].team, id |-> calls[k].id, hash |-> Hash(k),
                   number |-> Number(p) + 1]}
            /\ Replied(k, "applied", Number(p) + 1)
  BY <1>1, ServeCases
<1> QED
  BY <1>8, <1>9, <1>10, <1>12, <1>13

LEMMA RetryNext == RetryInv /\ [Next]_vars => RetryInv'
<1> SUFFICES ASSUME RetryInv, [Next]_vars PROVE RetryInv'
  OBVIOUS
<1>1. TypeInv /\ SavedInv' /\ Grows /\ SlotFits /\ RetriesKeepTheirId
  BY SavedNext, StepGrows DEF RetryInv, SavedInv
<1>2. CASE UNCHANGED vars
  <2>1. UNCHANGED <<commands, calls, slot, ids>>
    BY <1>2 DEF vars, server, column
  <2>2. SlotFits' /\ RetriesKeepTheirId'
    BY <1>1, <2>1 DEF SlotFits, RetriesKeepTheirId, Retries
  <2> QED
    BY <1>1, <2>1, <2>2, OtherStepsKeepDenials
<1>3. CASE ColumnStep
  BY <1>1, <1>3, ColumnStepIsLocal, ColumnKeepsIds, OtherStepsKeepDenials DEF server
<1>4. ASSUME NEW edit \in Edits, shown # Nothing, Save(edit) PROVE RetryInv'
  BY <1>1, <1>4, SaveKeepsRetries
<1>5. ASSUME NEW k \in DOMAIN calls, Compose(k) \/ Understand(k) \/ GiveUp(k) \/ Published(k)
      PROVE  RetryInv'
  BY <1>1, <1>5, CallKeepsRetries
<1>6. ASSUME NEW k \in wire, Serve(k) PROVE RetryInv'
  BY <1>1, <1>6, ServeKeepsRetries
<1>7. ASSUME NEW p \in Parts, NEW c \in Contents, OthersSave(p, c) PROVE RetryInv'
  <2>1. UNCHANGED <<commands, calls, slot, ids>>
    BY <1>7 DEF OthersSave, column
  <2>2. SlotFits' /\ RetriesKeepTheirId'
    BY <1>1, <2>1 DEF SlotFits, RetriesKeepTheirId, Retries
  <2> QED
    BY <1>1, <2>1, <2>2, OtherStepsKeepDenials
<1> QED
  BY <1>1, <1>2, <1>3, <1>4, <1>5, <1>6, <1>7, StepCases

\* A save that was carried out is a reason not to deny the same save again.
LEMMA RetryIsReplayed == RetryInv => SameBodyReplays
<1> SUFFICES ASSUME RetryInv, NEW k \in DOMAIN calls, NEW j \in 1 .. (k - 1),
                    Retries(j, k), CarriedOut(j), calls[k].stage \in {"answered", "done"},
                    Hash(j) = Hash(k)
             PROVE  calls[k].answer \notin NotReplayed
  BY DEF SameBodyReplays
<1>1. k \in Nat
  <2>1. calls \in Seq(Calls)
    BY DEF RetryInv, SavedInv, TypeInv, CallsTyped
  <2> QED
    BY <2>1
<1>2. j \in 1 .. k /\ k \in j .. k
  BY <1>1
<1>3. calls[k].team = calls[j].team /\ calls[k].id = calls[j].id
  BY <1>2 DEF Retries, RetryInv, RetriesKeepTheirId
<1>4. \E c \in Priors(k) : c.hash = Hash(k)
  BY <1>3 DEF CarriedOut, Priors
<1>5. ~Denied(k)
  BY <1>4 DEF RetryInv, DenialHolds
<1> QED
  BY <1>5 DEF Denied

\* A save sent again with the body it had is never refused its ID and meets no
\* conflict with itself once it is carried out, in whatever order its requests
\* and answers arrive, are lost or given up (team.rs:105-107).
THEOREM SameBodyIsReplayed == Spec => []SameBodyReplays
BY RetryIsReplayed, RetryInit, RetryNext, PTL DEF Spec

\* The promise of team.rs:105-107 for the edits that name no item of our
\* libraries: their body is the same whenever they are sent again.
ItemlessRetriesReplay ==
  \A k \in DOMAIN calls : \A j \in 1 .. (k - 1) :
    /\ Retries(j, k) /\ CarriedOut(j) /\ calls[k].stage \in {"answered", "done"}
    /\ NeedsItem[calls[k].edit.want] = NoItem
    => calls[k].answer \notin NotReplayed

\* Only an edit that names an item of our libraries can be refused when it is
\* sent again: what the code says of retries holds for every other one.
THEOREM ItemlessRetriesAreReplayed == Spec => []ItemlessRetriesReplay
<1>1. RetryInv => ItemlessRetriesReplay
  <2> SUFFICES ASSUME RetryInv, NEW k \in DOMAIN calls, NEW j \in 1 .. (k - 1),
                      Retries(j, k), CarriedOut(j), calls[k].stage \in {"answered", "done"},
                      NeedsItem[calls[k].edit.want] = NoItem
               PROVE  calls[k].answer \notin NotReplayed
    BY DEF ItemlessRetriesReplay
  <2>1. TypeInv /\ calls \in Seq(Calls)
    BY DEF RetryInv, SavedInv, TypeInv, CallsTyped
  <2>2. j \in DOMAIN calls /\ k \in j .. k
    BY <2>1
  <2>3. Sent(calls[k].edit) = Sent(calls[j].edit)
    BY <2>2 DEF Retries
  <2>4. calls[k].edit.want = calls[j].edit.want
    BY <2>3 DEF Sent
  <2>5. ~calls[j].upload /\ ~calls[k].upload
    BY <2>1, <2>2, <2>4, TeamColumnAssumption DEF TypeInv, CallsTyped
  <2>6. calls[j].upload \in BOOLEAN /\ calls[k].upload \in BOOLEAN
    <3>1. calls[j] \in Calls /\ calls[k] \in Calls
      BY <2>1, <2>2
    <3> QED
      BY <3>1 DEF Calls
  <2>7. calls[j].upload = calls[k].upload
    BY <2>5, <2>6
  <2>8. Hash(j) = Hash(k)
    BY <2>3, <2>7 DEF Hash
  <2> QED
    BY <2>8, RetryIsReplayed DEF SameBodyReplays
<1> QED
  BY <1>1, RetryInit, RetryNext, PTL DEF Spec

-----------------------------------------------------------------------------
(* The team a save goes to.                                                *)

\* What the column holds is of the selected part.
OfSelected(x) == x # Nothing => x.part = selected

\* A save not yet taken in is of the selected part, and so is what it shows.
CallOfSelected(k) ==
  /\ calls[k].team = TeamOf[calls[k].edit.part]
  /\ calls[k].stage # "done" =>
       calls[k].edit.part = selected /\ OfSelected(calls[k].view)

OwnInv ==
  /\ TypeInv
  /\ OfSelected(shown) /\ OfSelected(refresh) /\ OfSelected(draft) /\ OfSelected(conflict)
  /\ \A k \in DOMAIN calls : CallOfSelected(k)

LEMMA OwnInit == Init => OwnInv
<1> SUFFICES ASSUME Init PROVE OwnInv
  OBVIOUS
<1>1. DOMAIN calls = {}
  BY DEF Init
<1> QED
  BY <1>1, TypeInit DEF OwnInv, OfSelected, Init

LEMMA ColumnKeepsOwn ==
  ASSUME SelectWhileSaving = FALSE, OwnInv, ColumnStep
  PROVE  OwnInv'
<1>1. TypeInv' /\ UNCHANGED calls
  BY ColumnKeepsTypes, ColumnStepIsLocal DEF OwnInv
<1>2. ASSUME NEW p \in Parts, Select(p) PROVE OwnInv'
  <2>1. \A k \in DOMAIN calls : calls[k].stage = "done"
    BY <1>2 DEF Select
  <2>2. /\ selected' = p /\ shown' = Nothing /\ refresh' = [part |-> p, number |-> 0]
        /\ draft' = Nothing /\ conflict' = Nothing
    BY <1>2 DEF Select, Reset
  <2>3. (\A k \in DOMAIN calls : CallOfSelected(k))'
    BY <1>1, <2>1 DEF OwnInv, CallOfSelected
  <2> QED
    BY <1>1, <2>2, <2>3 DEF OwnInv, OfSelected
<1>3. ASSUME selected' = selected,
             OfSelected(shown)', OfSelected(refresh)', OfSelected(draft)', OfSelected(conflict)'
      PROVE  OwnInv'
  BY <1>1, <1>3 DEF OwnInv, CallOfSelected, OfSelected
<1>4. OfSelected(shown) /\ OfSelected(refresh) /\ OfSelected(draft) /\ OfSelected(conflict)
  BY DEF OwnInv
<1>5. CASE LiveUpdate
  BY <1>3, <1>4, <1>5 DEF LiveUpdate, OfSelected
<1>6. CASE ReadRefresh
  <2>1. refresh \in Views
    BY <1>6 DEF ReadRefresh, OwnInv, TypeInv, ColumnTyped
  <2>2. refresh'.part = refresh.part
    BY <1>6, <2>1 DEF ReadRefresh, Views
  <2> QED
    BY <1>3, <1>4, <1>6, <2>2 DEF ReadRefresh, OfSelected
<1>7. CASE ShowRefresh
  BY <1>3, <1>4, <1>7 DEF ShowRefresh, OfSelected
<1>8. CASE EditPart
  BY <1>3, <1>4, <1>8 DEF EditPart, EditFrom, OfSelected
<1>9. CASE EditAgain
  BY <1>3, <1>4, <1>9 DEF EditAgain, EditFrom, OfSelected
<1>10. CASE Discard
  BY <1>3, <1>4, <1>10 DEF Discard, OfSelected
<1>11. ASSUME NEW c \in Contents, Type(c) PROVE OwnInv'
  <2>1. draft \in Edits
    BY <1>11 DEF Type, OwnInv, TypeInv, ColumnTyped
  <2>2. draft'.part = draft.part
    BY <1>11, <2>1 DEF Type, Edits
  <2> QED
    BY <1>3, <1>4, <1>11, <2>2 DEF Type, OfSelected
<1> QED
  BY <1>2, <1>5, <1>6, <1>7, <1>8, <1>9, <1>10, <1>11 DEF ColumnStep

\* The form and the conflict are of the selected part, whose team is asked.
LEMMA SaveKeepsOwn ==
  ASSUME OwnInv, TypeInv', NEW edit \in Edits, shown # Nothing, edit.part = selected, Save(edit)
  PROVE  OwnInv'
<1>1. TypeInv
  BY DEF OwnInv
<1>2. UNCHANGED <<selected, shown, refresh, draft, conflict>>
  BY DEF Save
<1>3. /\ DOMAIN calls = 1 .. Len(calls)
      /\ DOMAIN calls' = 1 .. (Len(calls) + 1)
      /\ Len(calls) \in Nat
  <2>1. calls' \in Seq(Calls) /\ Len(calls') = Len(calls) + 1
    BY <1>1, SaveAppends
  <2>2. calls \in Seq(Calls)
    BY <1>1 DEF TypeInv, CallsTyped
  <2> QED
    BY <2>1, <2>2
<1>4. ASSUME NEW j \in DOMAIN calls' PROVE CallOfSelected(j)'
  <2>1. CASE j \in DOMAIN calls
    <3>1. calls'[j] = calls[j]
      BY <1>1, <2>1, SaveAppends
    <3> QED
      BY <1>2, <2>1, <3>1 DEF OwnInv, CallOfSelected, OfSelected
  <2>2. CASE j = Len(calls) + 1
    <3>1. /\ calls'[j].edit = edit /\ calls'[j].team = TeamOf[selected]
          /\ calls'[j].view = Nothing
      BY <1>1, <2>2, SaveAppends
    <3> QED
      BY <1>2, <3>1 DEF CallOfSelected, OfSelected
  <2> QED
    BY <1>3, <2>1, <2>2
<1> QED
  BY <1>2, <1>4 DEF OwnInv, OfSelected

\* A save that moves on keeps its part and shows no other.
LEMMA OneMovesKeepsOwn ==
  ASSUME OwnInv, TypeInv', UNCHANGED column, NEW k \in DOMAIN calls, Moves(k),
         calls'[k].stage = "done" \/ calls[k].stage # "done",
         calls'[k].view \in {Nothing, calls[k].view} \/ calls'[k].view.part = calls[k].edit.part
  PROVE  OwnInv'
<1>1. UNCHANGED <<selected, shown, refresh, draft, conflict>>
  BY DEF column
<1>2. CallOfSelected(k)'
  BY <1>1 DEF OwnInv, Moves, CallOfSelected, OfSelected
<1>3. ASSUME NEW j \in DOMAIN calls, j # k PROVE CallOfSelected(j)'
  BY <1>1, <1>3 DEF OwnInv, Moves, CallOfSelected, OfSelected
<1>4. DOMAIN calls' = DOMAIN calls
  BY DEF Moves
<1> QED
  BY <1>1, <1>2, <1>3, <1>4 DEF OwnInv, OfSelected

LEMMA CallKeepsOwn ==
  ASSUME OwnInv, TypeInv', NEW k \in DOMAIN calls, Compose(k) \/ Understand(k) \/ GiveUp(k)
  PROVE  OwnInv'
<1>1. TypeInv /\ CallOfSelected(k) /\ calls[k] \in Calls
  BY DEF OwnInv, TypeInv, CallsTyped
<1>2. UNCHANGED column
  BY DEF Compose, Understand, GiveUp
<1>3. CASE Compose(k)
  <2>1. Moves(k) /\ calls[k].stage = "asked" /\ calls'[k].view \in {Nothing, calls[k].view}
    BY <1>1, <1>3, ComposeMoves
  <2> QED
    BY <1>2, <2>1, OneMovesKeepsOwn
<1>4. CASE GiveUp(k)
  <2>1. Moves(k) /\ calls[k].stage # "done" /\ calls'[k].view = Nothing
    BY <1>1, <1>4, GiveUpMoves DEF GiveUp
  <2> QED
    BY <1>2, <2>1, OneMovesKeepsOwn
<1>5. CASE Understand(k)
  <2>1. Moves(k) /\ calls[k].stage = "served"
    BY <1>1, <1>5, UnderstandMoves
  <2>2. PICK p \in Target(k) : calls'[k].view \in {Nothing, [part |-> p, number |-> Number(p)]}
    BY <1>1, <1>5, UnderstandMoves
  <2>3. p = calls[k].edit.part
    <3>1. p \in Parts /\ TeamOf[p] = calls[k].team /\ IpnOf[p] = IpnOf[calls[k].edit.part]
      BY DEF Target
    <3>2. calls[k].edit.part \in Parts /\ calls[k].team = TeamOf[calls[k].edit.part]
      BY <1>1 DEF CallOfSelected, Calls, Edits
    <3> QED
      BY <3>1, <3>2, TeamColumnAssumption
  <2>4. calls'[k].view = Nothing \/ calls'[k].view.part = calls[k].edit.part
    BY <2>2, <2>3
  <2> QED
    BY <1>2, <2>1, <2>4, OneMovesKeepsOwn
<1> QED
  BY <1>3, <1>4, <1>5

LEMMA PublishedKeepsOwn ==
  ASSUME OwnInv, TypeInv', NEW k \in DOMAIN calls, Published(k)
  PROVE  OwnInv'
<1>1. TypeInv /\ CallOfSelected(k) /\ calls[k] \in Calls
  BY DEF OwnInv, TypeInv, CallsTyped
<1>2. /\ Moves(k) /\ calls[k].stage = "answered" /\ calls'[k].stage = "done"
      /\ calls'[k].view = calls[k].view
  BY <1>1, PublishedMoves
<1>3. UNCHANGED <<selected, refresh>>
  BY DEF Published
<1>4. /\ shown' \in {shown, calls[k].view}
      /\ draft' \in {draft, Nothing}
      /\ conflict' \in {conflict, Nothing, Merged(k)}
  BY DEF Published
<1>5. Merged(k).part = selected
  <2>1. calls[k].edit \in Edits /\ calls[k].edit.part = selected
    BY <1>1, <1>2 DEF CallOfSelected, Calls
  <2> QED
    BY <2>1 DEF Merged, Edits
<1>6. OfSelected(shown)' /\ OfSelected(refresh)' /\ OfSelected(draft)' /\ OfSelected(conflict)'
  BY <1>1, <1>2, <1>3, <1>4, <1>5 DEF OwnInv, CallOfSelected, OfSelected
<1>7. \A j \in DOMAIN calls' : CallOfSelected(j)'
  BY <1>2, <1>3 DEF OwnInv, Moves, CallOfSelected, OfSelected
<1> QED
  BY <1>6, <1>7 DEF OwnInv

LEMMA ServeKeepsOwn ==
  ASSUME OwnInv, TypeInv', NEW k \in wire, Serve(k)
  PROVE  OwnInv'
<1>1. TypeInv /\ k \in DOMAIN calls
  BY DEF OwnInv, TypeInv, CallsTyped
<1>2. UNCHANGED column
  BY DEF Serve
<1>3. PICK answer, number : Replied(k, answer, number)
  BY <1>1, ServeCases
<1>4. CASE UNCHANGED calls
  BY <1>2, <1>4 DEF OwnInv, column, CallOfSelected, OfSelected
<1>5. CASE Moves(k) /\ calls[k].stage = "sent" /\ calls'[k].view = calls[k].view
  BY <1>1, <1>2, <1>5, OneMovesKeepsOwn
<1> QED
  BY <1>3, <1>4, <1>5 DEF Replied

LEMMA OwnNext == SelectWhileSaving = FALSE /\ OwnInv /\ [Next]_vars => OwnInv'
<1> SUFFICES ASSUME SelectWhileSaving = FALSE, OwnInv, [Next]_vars PROVE OwnInv'
  OBVIOUS
<1>1. TypeInv /\ TypeInv'
  BY TypeNext DEF OwnInv
<1>2. CASE UNCHANGED vars
  BY <1>1, <1>2 DEF OwnInv, vars, column, CallOfSelected, OfSelected
<1>3. CASE ColumnStep
  BY <1>3, ColumnKeepsOwn
<1>4. CASE SaveDraft
  <2>1. draft \in Edits /\ draft.part = selected /\ shown # Nothing /\ Save(draft)
    BY <1>4 DEF SaveDraft, OwnInv, OfSelected, TypeInv, ColumnTyped
  <2> QED
    BY <1>1, <2>1, SaveKeepsOwn
<1>5. CASE SaveOnTop
  <2>1. conflict \in Edits /\ conflict.part = selected /\ shown # Nothing /\ Save(conflict)
    BY <1>5 DEF SaveOnTop, OwnInv, OfSelected, TypeInv, ColumnTyped
  <2> QED
    BY <1>1, <2>1, SaveKeepsOwn
<1>6. ASSUME NEW k \in DOMAIN calls, Compose(k) \/ Understand(k) \/ GiveUp(k) PROVE OwnInv'
  BY <1>1, <1>6, CallKeepsOwn
<1>7. ASSUME NEW k \in DOMAIN calls, Published(k) PROVE OwnInv'
  BY <1>1, <1>7, PublishedKeepsOwn
<1>8. ASSUME NEW k \in wire, Serve(k) PROVE OwnInv'
  BY <1>1, <1>8, ServeKeepsOwn
<1>9. ASSUME NEW p \in Parts, NEW c \in Contents, OthersSave(p, c) PROVE OwnInv'
  BY <1>1, <1>9 DEF OthersSave, OwnInv, column, CallOfSelected, OfSelected
<1> QED
  BY <1>2, <1>3, <1>4, <1>5, <1>6, <1>7, <1>8, <1>9 DEF Next, ColumnStep

\* If nobody selects a part while a save is out, every save reaches the team
\* of the part it edits (team.rs:66-67): it is a selection made meanwhile that
\* sends a later save elsewhere.
THEOREM OwnTeamUnlessSelecting ==
  ASSUME SelectWhileSaving = FALSE
  PROVE  Spec => []SavesReachTheirOwnTeam
<1>1. OwnInv => SavesReachTheirOwnTeam
  BY DEF OwnInv, CallOfSelected, SavesReachTheirOwnTeam
<1>2. OwnInv /\ [Next]_vars => OwnInv'
  BY OwnNext
<1> QED
  BY <1>1, <1>2, OwnInit, PTL DEF Spec

=============================================================================
