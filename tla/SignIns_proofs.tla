--------------------------- MODULE SignIns_proofs ---------------------------
(***************************************************************************)
(* The kept sign-ins, for any number of tokens, entries, calls, failures   *)
(* and restarts: once the person signed out no session runs and no token   *)
(* is left that the app did not fail to forget, and a judgement ends only  *)
(* a session whose own token the server refuses.                           *)
(***************************************************************************)
EXTENDS SignIns, TLAPS

\* What the lemmas need of the constants.
SignInsAssumption == MaxTokens \in Nat /\ MaxEntries \in Nat

-----------------------------------------------------------------------------
(* The inductive invariant.                                                *)

Sessions == [n : Nat, token : Nat, refused : BOOLEAN]
Keepers ==
  [at : {"off", "look", "none", "loop", "carry", "resumed", "status", "keep",
         "keeping", "renew", "rejected", "forget"},
   carry : Nat, seen : Nat, n : Nat, token : Nat, asked : Nat, ok : BOOLEAN,
   kept : Nat \X Nat]
PersonCalls ==
  [at : {"none", "ask", "check", "tell", "save", "leave", "forget", "drop"},
   e : 0 .. MaxEntries]
LeavingCalls == [at : {"none", "leave", "forget"}, e : 0 .. MaxEntries]

EntryTypes ==
  /\ session \in [Entries -> Sessions] /\ number \in [Entries -> Nat]
  /\ keeper \in [Entries -> Keepers] /\ changes \in [Entries -> Nat]
  /\ reaching \in [Entries -> BOOLEAN] /\ turn \in [Entries -> BOOLEAN]

SignTypes ==
  /\ issued \in 0 .. MaxTokens /\ accepted \in 1 .. issued + 1
  /\ store \in 0 .. issued
  /\ listed \in {"absent", "in", "out"} /\ (listed = "absent" <=> entry = 0)
  /\ entry \in 0 .. added /\ added \in 0 .. MaxEntries
  /\ kept \in {"after restart", "until closed"}
  /\ EntryTypes
  /\ person \in PersonCalls /\ leaving \in LeavingCalls
  /\ person = NoCall \/ (person.at # "none" /\ person.e \in Entries)
  /\ leaving = NoCall \/ (leaving.at # "none" /\ leaving.e \in Entries)

\* What a keeper read, it read of a session up to the newest.
Numbered(e) ==
  /\ session[e] = NoSession \/ (session[e].n = number[e] /\ number[e] > 0)
  /\ session[e].token <= issued
  /\ keeper[e].n <= number[e] /\ keeper[e].asked <= number[e]
  /\ keeper[e].seen <= changes[e]
  /\ keeper[e].at \in {"status", "keep", "keeping"} =>
       keeper[e].n > 0 /\ keeper[e].token <= issued
  /\ keeper[e].at = "renew" => keeper[e].asked > 0
  /\ keeper[e].at \in {"carry", "renew"} /\ keeper[e].ok =>
       keeper[e].token <= issued

\* An entry that is not in the list yet is one nothing has touched.
Untouched(e) ==
  e > added => keeper[e].at = "off" /\ session[e] = NoSession /\ ~reaching[e]

\* A sign-in is to the entry in the list, or to a new one; a removal is of
\* the entry in the list.
CallsAreOfTheirEntry ==
  /\ person.e <= added /\ leaving.e <= added
  /\ person.at \in {"ask", "check", "tell", "save"} =>
       /\ entry \in {0, person.e}
       /\ entry = 0 => keeper[person.e].at = "off"
  /\ person.at \in {"leave", "forget", "drop"} => entry = person.e

\* The turn of an entry is taken by one at a time.
TurnIsTaken(e) ==
  LET keeps == keeper[e].at \in {"keeping", "forget"}
      removes == person.at = "forget" /\ person.e = e
      leaves == leaving.at = "forget" /\ leaving.e = e IN
  /\ turn[e] <=> keeps \/ removes \/ leaves
  /\ ~(keeps /\ removes) /\ ~(keeps /\ leaves) /\ ~(removes /\ leaves)

\* Entry e is signed in and no removal has ended that; or a call is about to
\* end its session, or to have the list say that it is signed in.
SignedIn(e) ==
  listed = "in" /\ entry = e /\ ~(person.e = e /\ person.at \in {"forget", "drop"})
Pending(e) ==
  \/ person.at = "leave" /\ person.e = e
  \/ leaving.at = "leave" /\ leaving.e = e
SigningIn(e) == person.e = e /\ person.at \in {"check", "tell", "save"}
\* The session was carried on while the person signed in or out: the keeper
\* is about to end it, unless a password sign-in replaces it.
JustResumed(e) == keeper[e].at = "resumed" /\ session[e].n = keeper[e].n
Doomed(e) == JustResumed(e) /\ changes[e] > keeper[e].seen

IsWanted(e) ==
  /\ reaching[e] => SignedIn(e) \/ Pending(e)
  /\ keeper[e].at \in {"carry", "resumed"} =>
       changes[e] > keeper[e].seen \/ SignedIn(e) \/ Pending(e)
  /\ session[e] # NoSession =>
       SignedIn(e) \/ SigningIn(e) \/ Pending(e) \/ Doomed(e)

\* A token is kept for a session, which the turn protects meanwhile, so while
\* somebody is signed in, or about to be, or about to have it forgotten.
KeepsForASession(e) == keeper[e].at = "keeping" => session[e] # NoSession
SoonForgotten(e) ==
  \/ keeper[e].at = "forget"
  \/ SigningIn(e) /\ session[e] # NoSession /\ ~JustResumed(e)
TokenIsWanted ==
  store # 0 /\ ~unforgotten =>
    \/ listed = "in" /\ person.at # "drop"
    \/ person.at \in {"leave", "forget"}
    \/ leaving.at \in {"leave", "forget"}
    \/ \E e \in Entries : SoonForgotten(e)

\* What was refused, stays refused.
JudgementHolds(e) ==
  /\ session[e].refused => ~Accepts(session[e].token)
  /\ keeper[e].at = "renew" /\ session[e].n = keeper[e].asked =>
       /\ keeper[e].ok /\ ~Accepts(session[e].token) => ~Accepts(keeper[e].token)
       /\ ~keeper[e].ok => ~Accepts(session[e].token)
  /\ keeper[e].at = "rejected" /\ session[e] # NoSession
       /\ session[e].n = keeper[e].n => ~Accepts(session[e].token)

\* What holds of each entry by itself.
EntryInv(e) ==
  /\ Numbered(e)
  /\ Untouched(e)
  /\ TurnIsTaken(e)
  /\ IsWanted(e)
  /\ KeepsForASession(e)
  /\ JudgementHolds(e)

SignInv ==
  /\ SignTypes
  /\ CallsAreOfTheirEntry
  /\ \A e \in Entries : EntryInv(e)
  /\ TokenIsWanted


-----------------------------------------------------------------------------
(* The steps of a keeper.                                                  *)

\* What every step of the keeper of entry e leaves alone.
OnlyOf(e) ==
  /\ EntryTypes'
  /\ \A x \in Entries :
       x # e => /\ keeper'[x] = keeper[x] /\ session'[x] = session[x]
                /\ number'[x] = number[x]
                /\ (reaching'[x] <=> reaching[x]) /\ (turn'[x] <=> turn[x])
  /\ UNCHANGED <<accepted, list, changes, person, leaving, forgotOther>>
  /\ issued' \in issued .. MaxTokens
  /\ kept' \in {kept, "until closed"}

\* What most of its steps leave alone besides.
SameRead(e) ==
  /\ keeper'[e].seen = keeper[e].seen /\ keeper'[e].n = keeper[e].n
  /\ keeper'[e].token = keeper[e].token /\ keeper'[e].asked = keeper[e].asked
  /\ (keeper'[e].ok <=> keeper[e].ok)
SameSession(e) == session'[e] = session[e] /\ number'[e] = number[e]
SameTurn(e) == (turn'[e] <=> turn[e])
SameReach(e) == (reaching'[e] <=> reaching[e])
SameStore == store' = store /\ (unforgotten' <=> unforgotten)

LEMMA SignValues ==
  /\ NoSession \in Sessions /\ NoSession.n = 0 /\ NoSession.token = 0
  /\ NoSession.refused = FALSE
  /\ NoKeeper \in Keepers /\ NoKeeper.at = "off" /\ NoKeeper.seen = 0
  /\ NoKeeper.n = 0 /\ NoKeeper.asked = 0 /\ NoKeeper.token = 0
  /\ NoCall.at = "none" /\ NoCall.e = 0
  /\ 0 \notin Entries
BY DEF NoSession, Sessions, NoKeeper, Keepers, NoCall, Entries

\* A keeper that becomes k.
LEMMA KeeperIs ==
  ASSUME EntryTypes, NEW e \in Entries, NEW k \in Keepers,
         keeper' = [keeper EXCEPT ![e] = k]
  PROVE  /\ keeper' \in [Entries -> Keepers] /\ keeper'[e] = k
         /\ \A x \in Entries : x # e => keeper'[x] = keeper[x]
BY DEF EntryTypes

LEMMA GoesTo ==
  ASSUME EntryTypes, NEW e \in Entries, NEW at, Goes(e, at),
         at \in {"off", "none", "loop", "keep", "keeping", "forget"}
  PROVE  /\ keeper' \in [Entries -> Keepers]
         /\ \A x \in Entries : x # e => keeper'[x] = keeper[x]
         /\ keeper'[e].at = at /\ SameRead(e)
<1> DEFINE k == [keeper[e] EXCEPT !.at = at]
<1>1. keeper[e] \in Keepers
  BY DEF EntryTypes
<1>2. k \in Keepers /\ k.at = at
  BY <1>1 DEF Keepers
<1>3. /\ k.seen = keeper[e].seen /\ k.n = keeper[e].n /\ k.token = keeper[e].token
      /\ k.asked = keeper[e].asked /\ k.ok = keeper[e].ok
  BY <1>1 DEF Keepers
<1>4. keeper' = [keeper EXCEPT ![e] = k]
  BY DEF Goes, EntryTypes
<1> HIDE DEF k
<1> QED
  BY <1>2, <1>3, <1>4, KeeperIs DEF SameRead

\* What does not change keeps its type.
LEMMA SameTypes ==
  ASSUME EntryTypes
  PROVE  /\ UNCHANGED session => session' \in [Entries -> Sessions]
         /\ UNCHANGED number => number' \in [Entries -> Nat]
         /\ UNCHANGED changes => changes' \in [Entries -> Nat]
         /\ UNCHANGED reaching => reaching' \in [Entries -> BOOLEAN]
         /\ UNCHANGED turn => turn' \in [Entries -> BOOLEAN]
         /\ UNCHANGED keeper => keeper' \in [Entries -> Keepers]
BY DEF EntryTypes

\* Setting one entry of an array of Booleans.
LEMMA SetsOne ==
  ASSUME NEW f \in [Entries -> BOOLEAN], NEW g, NEW e \in Entries, NEW b \in BOOLEAN,
         g = [f EXCEPT ![e] = b]
  PROVE  /\ g \in [Entries -> BOOLEAN] /\ g[e] = b
         /\ \A x \in Entries : x # e => g[x] = f[x]
OBVIOUS

LEMMA SessionEnds ==
  ASSUME EntryTypes, NEW e \in Entries, EndSession(e)
  PROVE  /\ session' \in [Entries -> Sessions] /\ session'[e] = NoSession
         /\ \A x \in Entries : x # e => session'[x] = session[x]
BY SignValues DEF EndSession, EntryTypes

LEMMA SessionStarts ==
  ASSUME EntryTypes, NEW e \in Entries, NEW t \in Nat, NewSession(e, t)
  PROVE  /\ session' \in [Entries -> Sessions] /\ number' \in [Entries -> Nat]
         /\ number[e] \in Nat /\ number'[e] = number[e] + 1
         /\ session'[e].n = number[e] + 1 /\ session'[e].token = t
         /\ session'[e].refused = FALSE
         /\ \A x \in Entries :
              x # e => session'[x] = session[x] /\ number'[x] = number[x]
<1> DEFINE s == [n |-> number[e] + 1, token |-> t, refused |-> FALSE]
<1>1. number[e] \in Nat
  BY DEF EntryTypes
<1>2. s \in Sessions /\ s.n = number[e] + 1 /\ s.token = t /\ s.refused = FALSE
  BY <1>1 DEF Sessions
<1>3. session' = [session EXCEPT ![e] = s] /\ number' = [number EXCEPT ![e] = @ + 1]
  BY DEF NewSession
<1> HIDE DEF s
<1>4. /\ session' \in [Entries -> Sessions] /\ session'[e] = s
      /\ \A x \in Entries : x # e => session'[x] = session[x]
  BY <1>2, <1>3 DEF EntryTypes
<1>5. /\ number' \in [Entries -> Nat] /\ number'[e] = number[e] + 1
      /\ \A x \in Entries : x # e => number'[x] = number[x]
  BY <1>1, <1>3 DEF EntryTypes
<1> QED
  BY <1>1, <1>2, <1>4, <1>5

LEMMA Issued ==
  ASSUME SignInsAssumption, SignTypes
  PROVE  /\ issued \in Nat /\ accepted \in Nat /\ issued \in issued .. MaxTokens
         /\ store \in Nat /\ EntryTypes
<1>1. /\ issued \in 0 .. MaxTokens /\ accepted \in 1 .. issued + 1
      /\ store \in 0 .. issued /\ EntryTypes
  BY DEF SignTypes
<1>2. issued \in Nat /\ issued \in issued .. MaxTokens
  BY <1>1 DEF SignInsAssumption
<1> QED
  BY <1>1, <1>2


\* What the actions of a keeper do, in the terms of the invariant.
LEMMA LookDoes ==
  ASSUME SignInsAssumption, SignTypes, NEW e \in Entries, Look(e)
  PROVE  /\ OnlyOf(e) /\ keeper[e].at = "look" /\ keeper'[e].at \in {"loop", "none"}
         /\ SameRead(e) /\ SameSession(e) /\ SameTurn(e) /\ SameReach(e)
         /\ SameStore /\ issued' = issued
<1>1. EntryTypes /\ issued \in issued .. MaxTokens
  BY Issued
<1>2. /\ keeper' \in [Entries -> Keepers]
      /\ \A x \in Entries : x # e => keeper'[x] = keeper[x]
      /\ keeper'[e].at \in {"loop", "none"} /\ SameRead(e)
      /\ kept' \in {kept, "until closed"}
  <2>1. CASE Goes(e, "none") /\ kept' \in {kept, "until closed"}
    BY <1>1, <2>1, GoesTo
  <2>2. CASE /\ keeper' = [keeper EXCEPT ![e].at = "loop", ![e].carry = store]
             /\ kept' = kept
    <3> DEFINE k == [keeper[e] EXCEPT !.at = "loop", !.carry = store]
    <3>1. keeper[e] \in Keepers /\ store \in Nat
      BY <1>1, Issued DEF EntryTypes
    <3>2. /\ k \in Keepers /\ k.at = "loop" /\ k.seen = keeper[e].seen
          /\ k.n = keeper[e].n /\ k.token = keeper[e].token
          /\ k.asked = keeper[e].asked /\ k.ok = keeper[e].ok
      BY <3>1 DEF Keepers
    <3>3. keeper' = [keeper EXCEPT ![e] = k]
      BY <1>1, <2>2 DEF EntryTypes
    <3> HIDE DEF k
    <3> QED
      BY <1>1, <2>2, <3>2, <3>3, KeeperIs DEF SameRead
  <2> QED
    BY <2>1, <2>2 DEF Look
<1>3. /\ UNCHANGED <<server, store, list, catalogs, reaching, changes, turn,
                     calls, crashes, unforgotten, forgotOther>>
      /\ keeper[e].at = "look"
  BY DEF Look
<1>4. EntryTypes'
  BY <1>1, <1>2, <1>3, SameTypes DEF EntryTypes, catalogs
<1> QED
  BY <1>1, <1>2, <1>3, <1>4 DEF OnlyOf, SameSession, SameTurn, SameReach,
     SameStore, server, list, catalogs, calls

LEMMA NothingToCarryOnDoes ==
  ASSUME SignInsAssumption, SignTypes, NEW e \in Entries, NothingToCarryOn(e)
  PROVE  /\ OnlyOf(e) /\ keeper[e].at = "none" /\ keeper'[e].at = "loop"
         /\ SameRead(e) /\ SameSession(e) /\ SameTurn(e) /\ ~reaching'[e]
         /\ SameStore /\ issued' = issued
<1>1. EntryTypes /\ issued \in issued .. MaxTokens
  BY Issued
<1>2. /\ UNCHANGED <<server, store, list, kept, catalogs, changes, turn, calls,
                     faults>>
      /\ keeper[e].at = "none" /\ Goes(e, "loop")
      /\ reaching' = [reaching EXCEPT ![e] = FALSE]
  BY DEF NothingToCarryOn
<1>3. /\ keeper' \in [Entries -> Keepers]
      /\ \A x \in Entries : x # e => keeper'[x] = keeper[x]
      /\ keeper'[e].at = "loop" /\ SameRead(e)
  BY <1>1, <1>2, GoesTo
<1>4. /\ reaching' \in [Entries -> BOOLEAN] /\ ~reaching'[e]
      /\ \A x \in Entries : x # e => reaching'[x] = reaching[x]
  BY <1>1, <1>2, SetsOne DEF EntryTypes
<1>5. EntryTypes'
  BY <1>1, <1>2, <1>3, <1>4, SameTypes DEF EntryTypes, catalogs
<1> QED
  BY <1>1, <1>2, <1>3, <1>4, <1>5 DEF OnlyOf, SameSession, SameTurn,
     SameStore, server, list, catalogs, calls, faults

LEMMA StopDoes ==
  ASSUME SignInsAssumption, SignTypes, NEW e \in Entries, Stop(e)
  PROVE  /\ OnlyOf(e) /\ keeper[e].at = "loop" /\ keeper'[e].at = "off"
         /\ SameRead(e) /\ SameSession(e) /\ SameTurn(e) /\ SameReach(e)
         /\ SameStore /\ issued' = issued /\ Stopped(e)
<1>1. EntryTypes /\ issued \in issued .. MaxTokens
  BY Issued
<1>2. /\ UNCHANGED <<server, store, list, kept, catalogs, reaching, changes, turn,
                     calls, faults>>
      /\ keeper[e].at = "loop" /\ Goes(e, "off") /\ Stopped(e)
  BY DEF Stop
<1>3. /\ keeper' \in [Entries -> Keepers]
      /\ \A x \in Entries : x # e => keeper'[x] = keeper[x]
      /\ keeper'[e].at = "off" /\ SameRead(e)
  BY <1>1, <1>2, GoesTo
<1>4. EntryTypes'
  BY <1>1, <1>2, <1>3, SameTypes DEF EntryTypes, catalogs
<1> QED
  BY <1>1, <1>2, <1>3, <1>4 DEF OnlyOf, SameSession, SameTurn, SameReach,
     SameStore, server, list, catalogs, calls, faults


\* A step that changes nothing of the entries but the keeper.
LEMMA OnlyTheKeeper ==
  ASSUME EntryTypes, NEW e \in Entries, keeper' \in [Entries -> Keepers],
         \A x \in Entries : x # e => keeper'[x] = keeper[x],
         UNCHANGED <<accepted, list, catalogs, reaching, changes, turn, person,
                     leaving, forgotOther>>,
         issued' \in issued .. MaxTokens, kept' \in {kept, "until closed"}
  PROVE  OnlyOf(e) /\ SameSession(e) /\ SameTurn(e) /\ SameReach(e)
<1>1. EntryTypes'
  BY SameTypes DEF EntryTypes, catalogs
<1> QED
  BY <1>1 DEF OnlyOf, SameSession, SameTurn, SameReach, catalogs

LEMMA CarryOnDoes ==
  ASSUME SignInsAssumption, SignTypes, NEW e \in Entries, CarryOn(e)
  PROVE  /\ OnlyOf(e) /\ keeper[e].at = "loop"
         /\ SameSession(e) /\ SameTurn(e) /\ SameReach(e) /\ SameStore
         /\ \/ keeper'[e].at = "loop" /\ SameRead(e)
            \/ /\ keeper'[e].at = "carry" /\ reaching[e]
               /\ keeper'[e].seen = changes[e] /\ keeper'[e].n = keeper[e].n
               /\ keeper'[e].asked = keeper[e].asked
               /\ keeper'[e].ok => keeper'[e].token <= issued'
<1>1. EntryTypes /\ issued \in issued .. MaxTokens /\ issued \in Nat
  BY Issued
<1>2. /\ UNCHANGED <<accepted, store, list, kept, catalogs, reaching, changes,
                     turn, calls, crashes, unforgotten, forgotOther>>
      /\ keeper[e].at = "loop"
  BY DEF CarryOn
<1>3. keeper[e] \in Keepers /\ changes[e] \in Nat
  BY <1>1 DEF EntryTypes
<1> DEFINE Done ==
      /\ keeper' \in [Entries -> Keepers]
      /\ \A x \in Entries : x # e => keeper'[x] = keeper[x]
      /\ issued' \in issued .. MaxTokens
      /\ \/ keeper'[e].at = "loop" /\ SameRead(e)
         \/ /\ keeper'[e].at = "carry" /\ reaching[e]
            /\ keeper'[e].seen = changes[e] /\ keeper'[e].n = keeper[e].n
            /\ keeper'[e].asked = keeper[e].asked
            /\ keeper'[e].ok => keeper'[e].token <= issued'
<1>4. ASSUME /\ keeper' = [keeper EXCEPT ![e].carry = 0] /\ issued' = issued
     PROVE  Done
  <2> DEFINE k == [keeper[e] EXCEPT !.carry = 0]
  <2>1. /\ k \in Keepers /\ k.at = "loop" /\ k.seen = keeper[e].seen
        /\ k.n = keeper[e].n /\ k.token = keeper[e].token
        /\ k.asked = keeper[e].asked /\ k.ok = keeper[e].ok
    BY <1>2, <1>3 DEF Keepers
  <2>2. keeper' = [keeper EXCEPT ![e] = k]
    BY <1>1, <1>4 DEF EntryTypes
  <2> HIDE DEF k
  <2>3. /\ keeper' \in [Entries -> Keepers] /\ keeper'[e] = k
        /\ \A x \in Entries : x # e => keeper'[x] = keeper[x]
    BY <1>1, <2>1, <2>2, KeeperIs
  <2>4. SameRead(e)
    BY <2>1, <2>3 DEF SameRead
  <2>5. issued' \in issued .. MaxTokens /\ keeper'[e].at = "loop"
    BY <1>1, <1>4, <2>1, <2>3
  <2> QED
    BY <2>3, <2>4, <2>5
<1>5. ASSUME /\ reaching[e] /\ issued < MaxTokens /\ issued' = issued + 1
             /\ keeper' = [keeper EXCEPT ![e].at = "carry", ![e].seen = changes[e],
                                         ![e].token = issued + 1, ![e].ok = TRUE]
     PROVE  Done
  <2> DEFINE k == [keeper[e] EXCEPT !.at = "carry", !.seen = changes[e],
                                    !.token = issued + 1, !.ok = TRUE]
  <2>1. /\ k \in Keepers /\ k.at = "carry" /\ k.seen = changes[e]
        /\ k.n = keeper[e].n /\ k.token = issued + 1 /\ k.asked = keeper[e].asked
    <3>1. issued + 1 \in Nat
      BY <1>1
    <3> QED
      BY <1>3, <3>1 DEF Keepers
  <2>2. keeper' = [keeper EXCEPT ![e] = k]
    BY <1>1, <1>5 DEF EntryTypes
  <2> HIDE DEF k
  <2>3. /\ keeper' \in [Entries -> Keepers] /\ keeper'[e] = k
        /\ \A x \in Entries : x # e => keeper'[x] = keeper[x]
    BY <1>1, <2>1, <2>2, KeeperIs
  <2>4. issued' \in issued .. MaxTokens /\ issued + 1 <= issued'
    BY <1>1, <1>5 DEF SignInsAssumption
  <2>5. keeper'[e].token <= issued' /\ reaching[e]
    BY <1>5, <2>1, <2>3, <2>4
  <2>6. /\ keeper'[e].at = "carry" /\ keeper'[e].seen = changes[e]
        /\ keeper'[e].n = keeper[e].n /\ keeper'[e].asked = keeper[e].asked
    BY <2>1, <2>3
  <2> QED
    BY <2>3, <2>4, <2>5, <2>6
<1>6. ASSUME /\ reaching[e] /\ issued' = issued
             /\ keeper' = [keeper EXCEPT ![e].at = "carry", ![e].seen = changes[e],
                                         ![e].ok = FALSE]
     PROVE  Done
  <2> DEFINE k == [keeper[e] EXCEPT !.at = "carry", !.seen = changes[e],
                                    !.ok = FALSE]
  <2>1. /\ k \in Keepers /\ k.at = "carry" /\ k.seen = changes[e]
        /\ k.n = keeper[e].n /\ k.ok = FALSE /\ k.asked = keeper[e].asked
    BY <1>1, <1>3 DEF Keepers
  <2>2. keeper' = [keeper EXCEPT ![e] = k]
    BY <1>1, <1>6 DEF EntryTypes
  <2> HIDE DEF k
  <2>3. /\ keeper' \in [Entries -> Keepers] /\ keeper'[e] = k
        /\ \A x \in Entries : x # e => keeper'[x] = keeper[x]
    BY <1>1, <2>1, <2>2, KeeperIs
  <2>4. ~keeper'[e].ok
    BY <2>1, <2>3
  <2>5. issued' \in issued .. MaxTokens /\ reaching[e]
    BY <1>1, <1>6
  <2>6. /\ keeper'[e].at = "carry" /\ keeper'[e].seen = changes[e]
        /\ keeper'[e].n = keeper[e].n /\ keeper'[e].asked = keeper[e].asked
    BY <2>1, <2>3
  <2> QED
    BY <2>3, <2>4, <2>5, <2>6
<1>7. ASSUME UNCHANGED <<issued, keeper>>
     PROVE  Done
  <2>1. keeper' \in [Entries -> Keepers] /\ issued' \in issued .. MaxTokens
    BY <1>1, <1>7, SameTypes
  <2>2. SameRead(e) /\ keeper'[e].at = "loop"
    BY <1>2, <1>7 DEF SameRead
  <2> QED
    BY <1>7, <2>1, <2>2
<1>8. Done
  BY <1>4, <1>5, <1>6, <1>7 DEF CarryOn
<1>9. OnlyOf(e) /\ SameSession(e) /\ SameTurn(e) /\ SameReach(e)
  BY <1>1, <1>2, <1>8, OnlyTheKeeper DEF calls
<1> QED
  BY <1>2, <1>8, <1>9 DEF SameStore

LEMMA ResumedDoes ==
  ASSUME SignInsAssumption, SignTypes, NEW e \in Entries, Resumed(e)
  PROVE  /\ OnlyOf(e) /\ keeper[e].at = "carry"
         /\ SameTurn(e) /\ SameReach(e) /\ SameStore /\ issued' = issued
         /\ keeper'[e].seen = keeper[e].seen /\ keeper'[e].asked = keeper[e].asked
         /\ \/ /\ keeper[e].ok /\ session[e] = NoSession
               /\ keeper'[e].at = "resumed"
               /\ number[e] \in Nat /\ number'[e] = number[e] + 1
               /\ keeper'[e].n = number[e] + 1
               /\ session'[e].n = number[e] + 1
               /\ session'[e].token = keeper[e].token
               /\ ~session'[e].refused
            \/ keeper'[e].at = "loop" /\ SameRead(e) /\ SameSession(e)
            \/ keeper'[e].at = "rejected" /\ keeper'[e].n = 0 /\ SameSession(e)
<1>1. EntryTypes /\ issued \in issued .. MaxTokens
  BY Issued
<1>2. /\ UNCHANGED <<server, store, list, kept, reaching, changes, turn, calls,
                     faults>>
      /\ keeper[e].at = "carry"
  BY DEF Resumed
<1>3. keeper[e] \in Keepers /\ number[e] \in Nat
  BY <1>1 DEF EntryTypes
<1>4. keeper[e].token \in Nat
  BY <1>3 DEF Keepers
<1> DEFINE K == /\ keeper' \in [Entries -> Keepers]
                /\ \A x \in Entries : x # e => keeper'[x] = keeper[x]
                /\ keeper'[e].seen = keeper[e].seen
                /\ keeper'[e].asked = keeper[e].asked
<1>5. CASE /\ keeper[e].ok /\ session[e] = NoSession
           /\ NewSession(e, keeper[e].token)
           /\ keeper' = [keeper EXCEPT ![e].at = "resumed", ![e].carry = 0,
                                       ![e].n = number[e] + 1]
  <2> DEFINE k == [keeper[e] EXCEPT !.at = "resumed", !.carry = 0,
                                    !.n = number[e] + 1]
  <2>1. /\ k \in Keepers /\ k.at = "resumed" /\ k.seen = keeper[e].seen
        /\ k.n = number[e] + 1 /\ k.asked = keeper[e].asked
    <3>1. number[e] + 1 \in Nat
      BY <1>3
    <3> QED
      BY <1>3, <3>1 DEF Keepers
  <2>2. keeper' = [keeper EXCEPT ![e] = k]
    BY <1>1, <1>5 DEF EntryTypes
  <2> HIDE DEF k
  <2>3. K /\ keeper'[e] = k
    BY <1>1, <2>1, <2>2, KeeperIs
  <2>4. /\ session' \in [Entries -> Sessions] /\ number' \in [Entries -> Nat]
        /\ number'[e] = number[e] + 1 /\ session'[e].n = number[e] + 1
        /\ session'[e].token = keeper[e].token /\ session'[e].refused = FALSE
        /\ \A x \in Entries :
             x # e => session'[x] = session[x] /\ number'[x] = number[x]
    BY <1>1, <1>4, <1>5, SessionStarts
  <2>5. EntryTypes'
    BY <1>1, <1>2, <2>3, <2>4, SameTypes DEF EntryTypes
  <2>6. OnlyOf(e) /\ SameTurn(e) /\ SameReach(e)
    BY <1>1, <1>2, <2>3, <2>4, <2>5 DEF OnlyOf, SameTurn, SameReach,
       server, list, calls, faults
  <2> QED
    BY <1>2, <1>3, <1>5, <2>1, <2>3, <2>4, <2>6 DEF SameStore, server, faults
<1>6. CASE /\ keeper' = [keeper EXCEPT ![e].at = "loop", ![e].carry = 0]
           /\ UNCHANGED catalogs
  <2> DEFINE k == [keeper[e] EXCEPT !.at = "loop", !.carry = 0]
  <2>1. /\ k \in Keepers /\ k.at = "loop" /\ k.seen = keeper[e].seen
        /\ k.n = keeper[e].n /\ k.asked = keeper[e].asked
        /\ k.token = keeper[e].token /\ k.ok = keeper[e].ok
    BY <1>3 DEF Keepers
  <2>2. keeper' = [keeper EXCEPT ![e] = k]
    BY <1>1, <1>6 DEF EntryTypes
  <2> HIDE DEF k
  <2>3. K /\ keeper'[e] = k
    BY <1>1, <2>1, <2>2, KeeperIs
  <2>4. OnlyOf(e) /\ SameTurn(e) /\ SameReach(e) /\ SameSession(e)
    BY <1>1, <1>2, <1>6, <2>3, OnlyTheKeeper DEF server, calls, faults
  <2>5. SameRead(e)
    BY <2>1, <2>3 DEF SameRead
  <2> QED
    BY <1>2, <2>1, <2>3, <2>4, <2>5 DEF SameStore, server, faults
<1>7. CASE /\ keeper' = [keeper EXCEPT ![e].at = "rejected", ![e].carry = 0,
                                       ![e].n = 0]
           /\ UNCHANGED catalogs
  <2> DEFINE k == [keeper[e] EXCEPT !.at = "rejected", !.carry = 0, !.n = 0]
  <2>1. /\ k \in Keepers /\ k.at = "rejected" /\ k.seen = keeper[e].seen
        /\ k.n = 0 /\ k.asked = keeper[e].asked
    BY <1>3 DEF Keepers
  <2>2. keeper' = [keeper EXCEPT ![e] = k]
    BY <1>1, <1>7 DEF EntryTypes
  <2> HIDE DEF k
  <2>3. K /\ keeper'[e] = k
    BY <1>1, <2>1, <2>2, KeeperIs
  <2>4. OnlyOf(e) /\ SameTurn(e) /\ SameReach(e) /\ SameSession(e)
    BY <1>1, <1>2, <1>7, <2>3, OnlyTheKeeper DEF server, calls, faults
  <2> QED
    BY <1>2, <2>1, <2>3, <2>4 DEF SameStore, server, faults
<1> QED
  BY <1>5, <1>6, <1>7 DEF Resumed


LEMMA AfterResumingDoes ==
  ASSUME SignInsAssumption, SignTypes, NEW e \in Entries, AfterResuming(e)
  PROVE  /\ OnlyOf(e) /\ keeper[e].at = "resumed" /\ keeper'[e].at = "loop"
         /\ SameRead(e) /\ SameTurn(e) /\ SameStore /\ issued' = issued
         /\ ~reaching'[e] /\ number'[e] = number[e]
         /\ \/ EndedMeanwhile(e) /\ session'[e] = NoSession
            \/ ~EndedMeanwhile(e) /\ session'[e] = session[e]
<1>1. EntryTypes /\ issued \in issued .. MaxTokens
  BY Issued
<1>2. /\ UNCHANGED <<server, store, list, kept, number, changes, turn, calls,
                     faults>>
      /\ keeper[e].at = "resumed" /\ Goes(e, "loop")
      /\ reaching' = [reaching EXCEPT ![e] = FALSE]
  BY DEF AfterResuming
<1>3. /\ keeper' \in [Entries -> Keepers]
      /\ \A x \in Entries : x # e => keeper'[x] = keeper[x]
      /\ keeper'[e].at = "loop" /\ SameRead(e)
  BY <1>1, <1>2, GoesTo
<1>4. /\ reaching' \in [Entries -> BOOLEAN] /\ ~reaching'[e]
      /\ \A x \in Entries : x # e => reaching'[x] = reaching[x]
  BY <1>1, <1>2, SetsOne DEF EntryTypes
<1>5. /\ session' \in [Entries -> Sessions]
      /\ \A x \in Entries : x # e => session'[x] = session[x]
      /\ \/ EndedMeanwhile(e) /\ session'[e] = NoSession
         \/ ~EndedMeanwhile(e) /\ session'[e] = session[e]
  <2>1. CASE EndedMeanwhile(e)
    <3>1. EndSession(e)
      BY <2>1 DEF AfterResuming
    <3> QED
      BY <1>1, <2>1, <3>1, SessionEnds
  <2>2. CASE ~EndedMeanwhile(e)
    <3>1. UNCHANGED session
      BY <2>2 DEF AfterResuming
    <3> QED
      BY <1>1, <2>2, <3>1, SameTypes
  <2> QED
    BY <2>1, <2>2
<1>6. EntryTypes'
  BY <1>1, <1>2, <1>3, <1>4, <1>5, SameTypes DEF EntryTypes
<1>7. OnlyOf(e) /\ SameTurn(e) /\ SameStore /\ issued' = issued
  BY <1>1, <1>2, <1>3, <1>4, <1>5, <1>6 DEF OnlyOf, SameTurn, SameStore,
     server, list, calls, faults
<1> QED
  BY <1>2, <1>3, <1>4, <1>5, <1>7

LEMMA WatchDoes ==
  ASSUME SignInsAssumption, SignTypes, NEW e \in Entries, Watch(e)
  PROVE  /\ OnlyOf(e) /\ keeper[e].at = "loop"
         /\ SameSession(e) /\ SameTurn(e) /\ SameReach(e) /\ SameStore
         /\ issued' = issued /\ keeper'[e].asked = keeper[e].asked
         /\ \/ keeper'[e].at = "loop" /\ SameRead(e)
            \/ /\ keeper'[e].at = "status" /\ session[e] # NoSession
               /\ keeper'[e].seen = changes[e] /\ keeper'[e].n = session[e].n
               /\ keeper'[e].token = session[e].token
<1>1. EntryTypes /\ issued \in issued .. MaxTokens
  BY Issued
<1>2. /\ UNCHANGED <<server, store, list, kept, catalogs, reaching, changes, turn,
                     calls, faults>>
      /\ keeper[e].at = "loop"
  BY DEF Watch
<1>3. keeper[e] \in Keepers /\ session[e] \in Sessions /\ changes[e] \in Nat
  BY <1>1 DEF EntryTypes
<1> DEFINE K == /\ keeper' \in [Entries -> Keepers]
                /\ \A x \in Entries : x # e => keeper'[x] = keeper[x]
<1>4. K => OnlyOf(e) /\ SameSession(e) /\ SameTurn(e) /\ SameReach(e)
  BY <1>1, <1>2, OnlyTheKeeper DEF server, calls, faults
<1>5. SameStore /\ issued' = issued
  BY <1>2 DEF SameStore, server, faults
<1>6. CASE keeper' = [keeper EXCEPT ![e].kept = <<0, 0>>]
  <2> DEFINE k == [keeper[e] EXCEPT !.kept = <<0, 0>>]
  <2>1. /\ k \in Keepers /\ k.at = "loop" /\ k.seen = keeper[e].seen
        /\ k.n = keeper[e].n /\ k.token = keeper[e].token
        /\ k.asked = keeper[e].asked /\ k.ok = keeper[e].ok
    BY <1>2, <1>3 DEF Keepers
  <2>2. keeper' = [keeper EXCEPT ![e] = k]
    BY <1>1, <1>6 DEF EntryTypes
  <2> HIDE DEF k
  <2>3. K /\ keeper'[e] = k
    BY <1>1, <2>1, <2>2, KeeperIs
  <2>4. SameRead(e)
    BY <2>1, <2>3 DEF SameRead
  <2> QED
    BY <1>2, <1>4, <1>5, <2>1, <2>3, <2>4
<1>7. CASE /\ session[e] # NoSession
           /\ keeper' = [keeper EXCEPT ![e].at = "status",
                ![e].seen = changes[e], ![e].n = session[e].n,
                ![e].token = session[e].token]
  <2> DEFINE k == [keeper[e] EXCEPT !.at = "status", !.seen = changes[e],
                     !.n = session[e].n, !.token = session[e].token]
  <2>1. session[e].n \in Nat /\ session[e].token \in Nat
    BY <1>3 DEF Sessions
  <2>2. /\ k \in Keepers /\ k.at = "status" /\ k.seen = changes[e]
        /\ k.n = session[e].n /\ k.token = session[e].token
        /\ k.asked = keeper[e].asked
    BY <1>3, <2>1 DEF Keepers
  <2>3. keeper' = [keeper EXCEPT ![e] = k]
    BY <1>1, <1>7 DEF EntryTypes
  <2> HIDE DEF k
  <2>4. K /\ keeper'[e] = k
    BY <1>1, <2>2, <2>3, KeeperIs
  <2> QED
    BY <1>2, <1>4, <1>5, <1>7, <2>2, <2>4
<1> QED
  BY <1>6, <1>7 DEF Watch

LEMMA StatusDoes ==
  ASSUME SignInsAssumption, SignTypes, NEW e \in Entries, Status(e)
  PROVE  /\ OnlyOf(e) /\ keeper[e].at = "status"
         /\ SameSession(e) /\ SameTurn(e) /\ SameReach(e) /\ SameStore
         /\ \/ keeper'[e].at \in {"loop", "keep"} /\ SameRead(e)
            \/ /\ keeper'[e].at = "rejected" /\ SameRead(e)
               /\ session[e].refused
            \/ /\ keeper'[e].at = "renew" /\ session[e] # NoSession
               /\ keeper'[e].asked = session[e].n
               /\ keeper'[e].n = keeper[e].n /\ keeper'[e].seen = keeper[e].seen
               /\ keeper'[e].ok <=> Accepts(session[e].token)
               /\ keeper'[e].ok => keeper'[e].token <= issued'
<1>1. EntryTypes /\ issued \in issued .. MaxTokens /\ issued \in Nat
  BY Issued
<1>2. /\ UNCHANGED <<accepted, store, list, kept, catalogs, reaching, changes,
                     turn, calls, faults>>
      /\ keeper[e].at = "status"
  BY DEF Status
<1>3. keeper[e] \in Keepers /\ session[e] \in Sessions
  BY <1>1 DEF EntryTypes
<1> DEFINE K == /\ keeper' \in [Entries -> Keepers]
                /\ \A x \in Entries : x # e => keeper'[x] = keeper[x]
                /\ issued' \in issued .. MaxTokens
<1>4. K => OnlyOf(e) /\ SameSession(e) /\ SameTurn(e) /\ SameReach(e)
  BY <1>1, <1>2, OnlyTheKeeper DEF calls, faults
<1>5. SameStore
  BY <1>2 DEF SameStore, faults
<1>6. ASSUME NEW at \in {"loop", "rejected"}, issued' = issued,
             keeper' = [keeper EXCEPT ![e].kept = <<0, 0>>, ![e].at = at]
      PROVE  K /\ keeper'[e].at = at /\ SameRead(e)
  <2> DEFINE k == [keeper[e] EXCEPT !.kept = <<0, 0>>, !.at = at]
  <2>1. /\ k \in Keepers /\ k.at = at /\ k.seen = keeper[e].seen
        /\ k.n = keeper[e].n /\ k.token = keeper[e].token
        /\ k.asked = keeper[e].asked /\ k.ok = keeper[e].ok
    BY <1>3 DEF Keepers
  <2>2. keeper' = [keeper EXCEPT ![e] = k]
    BY <1>1, <1>6 DEF EntryTypes
  <2> HIDE DEF k
  <2>3. K /\ keeper'[e] = k
    BY <1>1, <1>6, <2>1, <2>2, KeeperIs
  <2>4. SameRead(e)
    BY <2>1, <2>3 DEF SameRead
  <2> QED
    BY <2>1, <2>3, <2>4
<1>7. CASE /\ session[e] = NoSession \/ session[e].refused
           /\ keeper' = [keeper EXCEPT ![e].kept = <<0, 0>>,
                ![e].at = IF session[e] = NoSession THEN "loop" ELSE "rejected"]
           /\ UNCHANGED issued
  <2>1. CASE session[e] = NoSession
    <3>1. K /\ keeper'[e].at = "loop" /\ SameRead(e)
      BY <1>6, <1>7, <2>1
    <3> QED
      BY <1>2, <1>4, <1>5, <3>1
  <2>2. CASE session[e] # NoSession /\ session[e].refused
    <3>1. K /\ keeper'[e].at = "rejected" /\ SameRead(e)
      BY <1>6, <1>7, <2>2
    <3> QED
      BY <1>2, <1>4, <1>5, <2>2, <3>1
  <2> QED
    BY <1>7, <2>1, <2>2
<1>8. CASE Goes(e, "keep") /\ UNCHANGED issued
  <2>1. K /\ keeper'[e].at = "keep" /\ SameRead(e)
    BY <1>1, <1>8, GoesTo
  <2> QED
    BY <1>2, <1>4, <1>5, <2>1
<1>9. CASE Goes(e, "loop") /\ UNCHANGED issued
  <2>1. K /\ keeper'[e].at = "loop" /\ SameRead(e)
    BY <1>1, <1>9, GoesTo
  <2> QED
    BY <1>2, <1>4, <1>5, <2>1
<1>10. CASE /\ session[e] # NoSession
            /\ Accepts(session[e].token) => issued < MaxTokens
            /\ issued' = IF Accepts(session[e].token) THEN issued + 1 ELSE issued
            /\ keeper' = [keeper EXCEPT ![e].at = "renew",
                 ![e].asked = session[e].n, ![e].ok = Accepts(session[e].token),
                 ![e].token = issued + 1]
  <2> DEFINE ok == Accepts(session[e].token)
             k == [keeper[e] EXCEPT !.at = "renew", !.asked = session[e].n,
                                    !.ok = ok, !.token = issued + 1]
  <2>1. session[e].n \in Nat /\ issued + 1 \in Nat /\ ok \in BOOLEAN
    BY <1>1, <1>3 DEF Sessions, Accepts
  <2>2. keeper' = [keeper EXCEPT ![e] = k]
    BY <1>1, <1>10 DEF EntryTypes
  <2>3. /\ issued' \in issued .. MaxTokens
        /\ ok => issued + 1 <= issued'
    BY <1>1, <1>10 DEF SignInsAssumption, Accepts
  <2> HIDE DEF ok
  <2>4. /\ k \in Keepers /\ k.at = "renew" /\ k.seen = keeper[e].seen
        /\ k.n = keeper[e].n /\ k.token = issued + 1 /\ k.asked = session[e].n
    BY <1>3, <2>1 DEF Keepers
  <2>5. k.ok <=> ok
    BY <1>3, <2>1, Zenon DEF Keepers
  <2> HIDE DEF k
  <2>6. K /\ keeper'[e] = k
    BY <1>1, <2>2, <2>3, <2>4, KeeperIs
  <2>7. keeper'[e].ok <=> Accepts(session[e].token)
    BY <2>5, <2>6 DEF ok
  <2>8. keeper'[e].ok => keeper'[e].token <= issued'
    BY <2>3, <2>4, <2>5, <2>6
  <2> QED
    BY <1>2, <1>4, <1>5, <1>10, <2>4, <2>6, <2>7, <2>8
<1> QED
  BY <1>7, <1>8, <1>9, <1>10 DEF Status

LEMMA RenewedDoes ==
  ASSUME SignInsAssumption, SignTypes, NEW e \in Entries, Renewed(e)
  PROVE  /\ OnlyOf(e) /\ keeper[e].at = "renew" /\ SameRead(e)
         /\ number'[e] = number[e] /\ session'[e].n = session[e].n
         /\ (session'[e].refused <=> session[e].refused)
         /\ SameTurn(e) /\ SameReach(e) /\ SameStore /\ issued' = issued
         /\ \/ keeper'[e].at = "loop" /\ session'[e] = session[e]
            \/ /\ keeper'[e].at = "loop" /\ session[e].n = keeper[e].asked
               /\ keeper[e].ok /\ session'[e].token = keeper[e].token
            \/ /\ keeper'[e].at = "rejected" /\ session[e].n = keeper[e].asked
               /\ ~keeper[e].ok /\ session'[e] = session[e]
<1>1. EntryTypes /\ issued \in issued .. MaxTokens
  BY Issued
<1>2. /\ UNCHANGED <<server, store, list, kept, number, reaching, changes, turn,
                     calls, faults>>
      /\ keeper[e].at = "renew"
  BY DEF Renewed
<1>3. keeper[e] \in Keepers /\ session[e] \in Sessions
  BY <1>1 DEF EntryTypes
<1> DEFINE K == /\ keeper' \in [Entries -> Keepers]
                /\ \A x \in Entries : x # e => keeper'[x] = keeper[x]
           S == /\ session' \in [Entries -> Sessions]
                /\ \A x \in Entries : x # e => session'[x] = session[x]
<1>4. K /\ S => OnlyOf(e) /\ SameTurn(e) /\ SameReach(e)
  <2>1. K /\ S => EntryTypes'
    BY <1>1, <1>2, SameTypes DEF EntryTypes
  <2> QED
    BY <1>1, <1>2, <2>1 DEF OnlyOf, SameTurn, SameReach, server, list,
       calls, faults
<1>5. SameStore /\ issued' = issued /\ number'[e] = number[e]
  BY <1>2 DEF SameStore, server, faults
<1>6. UNCHANGED session => S
  BY <1>1, SameTypes
<1>7. CASE Goes(e, "loop") /\ UNCHANGED session
  <2>1. K /\ keeper'[e].at = "loop" /\ SameRead(e)
    BY <1>1, <1>7, GoesTo
  <2> QED
    BY <1>2, <1>4, <1>5, <1>6, <1>7, <2>1
<1>8. CASE /\ session[e].n = keeper[e].asked /\ keeper[e].ok
           /\ session' = [session EXCEPT ![e].token = keeper[e].token]
           /\ Goes(e, "loop")
  <2>1. K /\ keeper'[e].at = "loop" /\ SameRead(e)
    BY <1>1, <1>8, GoesTo
  <2> DEFINE s == [session[e] EXCEPT !.token = keeper[e].token]
  <2>2. keeper[e].token \in Nat
    BY <1>3 DEF Keepers
  <2>3. /\ s \in Sessions /\ s.n = session[e].n /\ s.token = keeper[e].token
        /\ s.refused = session[e].refused
    BY <1>3, <2>2 DEF Sessions
  <2>4. session' = [session EXCEPT ![e] = s]
    BY <1>1, <1>8 DEF EntryTypes
  <2> HIDE DEF s
  <2>5. S /\ session'[e] = s
    BY <1>1, <2>3, <2>4 DEF EntryTypes
  <2>6. session'[e].refused <=> session[e].refused
    BY <2>3, <2>5
  <2> QED
    BY <1>2, <1>4, <1>5, <1>8, <2>1, <2>3, <2>5, <2>6
<1>9. CASE /\ session[e].n = keeper[e].asked /\ ~keeper[e].ok
           /\ keeper' = [keeper EXCEPT ![e].at = "rejected",
                                       ![e].kept = <<0, 0>>]
           /\ UNCHANGED session
  <2> DEFINE k == [keeper[e] EXCEPT !.at = "rejected", !.kept = <<0, 0>>]
  <2>1. /\ k \in Keepers /\ k.at = "rejected" /\ k.seen = keeper[e].seen
        /\ k.n = keeper[e].n /\ k.token = keeper[e].token
        /\ k.asked = keeper[e].asked /\ k.ok = keeper[e].ok
    BY <1>3 DEF Keepers
  <2>2. keeper' = [keeper EXCEPT ![e] = k]
    BY <1>1, <1>9 DEF EntryTypes
  <2> HIDE DEF k
  <2>3. K /\ keeper'[e] = k
    BY <1>1, <2>1, <2>2, KeeperIs
  <2>4. SameRead(e)
    BY <2>1, <2>3 DEF SameRead
  <2> QED
    BY <1>2, <1>4, <1>5, <1>6, <1>9, <2>1, <2>3, <2>4
<1> QED
  BY <1>7, <1>8, <1>9 DEF Renewed


LEMMA TakeKeepDoes ==
  ASSUME SignInsAssumption, SignTypes, NEW e \in Entries, TakeKeep(e)
  PROVE  /\ OnlyOf(e) /\ keeper[e].at = "keep" /\ SameRead(e) /\ SameSession(e)
         /\ SameReach(e) /\ SameStore /\ issued' = issued
         /\ ~turn[e]
         /\ \/ /\ keeper'[e].at = "keeping" /\ turn'[e]
               /\ session[e].n = keeper[e].n
            \/ keeper'[e].at = "loop" /\ ~turn'[e]
<1>1. EntryTypes /\ issued \in issued .. MaxTokens
  BY Issued
<1>2. /\ UNCHANGED <<server, store, list, kept, catalogs, reaching, changes,
                     calls, faults>>
      /\ keeper[e].at = "keep" /\ ~turn[e]
  BY DEF TakeKeep
<1> DEFINE T == /\ turn' \in [Entries -> BOOLEAN]
                /\ \A x \in Entries : x # e => turn'[x] = turn[x]
           K == /\ keeper' \in [Entries -> Keepers]
                /\ \A x \in Entries : x # e => keeper'[x] = keeper[x]
<1>3. SameSession(e) /\ SameReach(e) /\ SameStore /\ issued' = issued
  BY <1>2 DEF SameSession, SameReach, SameStore, server, catalogs, faults
<1>4. K /\ T => OnlyOf(e)
  <2>1. K /\ T => EntryTypes'
    BY <1>1, <1>2, SameTypes DEF EntryTypes, catalogs
  <2> QED
    BY <1>1, <1>2, <2>1 DEF OnlyOf, server, list, catalogs, calls, faults
<1>5. CASE StillItsToken(e)
  <2>1. Goes(e, "keeping") /\ turn' = [turn EXCEPT ![e] = TRUE]
    BY <1>5 DEF TakeKeep
  <2>2. K /\ keeper'[e].at = "keeping" /\ SameRead(e)
    BY <1>1, <2>1, GoesTo
  <2>3. T /\ turn'[e]
    BY <1>1, <2>1, SetsOne DEF EntryTypes
  <2>4. session[e].n = keeper[e].n
    BY <1>5 DEF StillItsToken
  <2> QED
    BY <1>2, <1>3, <1>4, <2>2, <2>3, <2>4
<1>6. CASE ~StillItsToken(e)
  <2>1. Goes(e, "loop") /\ UNCHANGED turn
    BY <1>6 DEF TakeKeep
  <2>2. K /\ keeper'[e].at = "loop" /\ SameRead(e)
    BY <1>1, <2>1, GoesTo
  <2>3. T /\ ~turn'[e]
    BY <1>1, <1>2, <2>1, SameTypes
  <2> QED
    BY <1>2, <1>3, <1>4, <2>2, <2>3
<1> QED
  BY <1>5, <1>6

LEMMA KeepDoes ==
  ASSUME SignInsAssumption, SignTypes, NEW e \in Entries, Keep(e)
  PROVE  /\ OnlyOf(e) /\ keeper[e].at = "keeping" /\ keeper'[e].at = "loop"
         /\ SameRead(e) /\ SameSession(e) /\ SameReach(e)
         /\ ~turn'[e] /\ issued' = issued
         /\ store' \in {store, keeper[e].token} /\ (unforgotten' <=> unforgotten)
<1>1. EntryTypes /\ issued \in issued .. MaxTokens
  BY Issued
<1>2. /\ UNCHANGED <<server, list, catalogs, reaching, changes, calls, crashes,
                     unforgotten, forgotOther>>
      /\ keeper[e].at = "keeping" /\ turn' = [turn EXCEPT ![e] = FALSE]
      /\ keeper' = [keeper EXCEPT ![e].at = "loop",
                                  ![e].kept = <<keeper[e].n, keeper[e].token>>]
      /\ store' \in {store, keeper[e].token} /\ kept' \in {kept, "until closed"}
  BY DEF Keep
<1>3. keeper[e] \in Keepers
  BY <1>1 DEF EntryTypes
<1> DEFINE k == [keeper[e] EXCEPT !.at = "loop",
                                  !.kept = <<keeper[e].n, keeper[e].token>>]
<1>4. /\ k \in Keepers /\ k.at = "loop" /\ k.seen = keeper[e].seen
      /\ k.n = keeper[e].n /\ k.token = keeper[e].token
      /\ k.asked = keeper[e].asked /\ k.ok = keeper[e].ok
  BY <1>3 DEF Keepers
<1>5. keeper' = [keeper EXCEPT ![e] = k]
  BY <1>1, <1>2 DEF EntryTypes
<1> HIDE DEF k
<1>6. /\ keeper' \in [Entries -> Keepers] /\ keeper'[e] = k
      /\ \A x \in Entries : x # e => keeper'[x] = keeper[x]
  BY <1>1, <1>4, <1>5, KeeperIs
<1>7. SameRead(e)
  BY <1>4, <1>6 DEF SameRead
<1>8. /\ turn' \in [Entries -> BOOLEAN] /\ ~turn'[e]
      /\ \A x \in Entries : x # e => turn'[x] = turn[x]
  BY <1>1, <1>2, SetsOne DEF EntryTypes
<1>9. EntryTypes'
  BY <1>1, <1>2, <1>6, <1>8, SameTypes DEF EntryTypes, catalogs
<1>10. OnlyOf(e) /\ SameSession(e) /\ SameReach(e) /\ issued' = issued
  BY <1>1, <1>2, <1>6, <1>8, <1>9 DEF OnlyOf, SameSession, SameReach,
     server, list, catalogs, calls
<1> QED
  BY <1>2, <1>4, <1>6, <1>7, <1>8, <1>10

LEMMA TakeRejectedDoes ==
  ASSUME SignInsAssumption, SignTypes, NEW e \in Entries, TakeRejected(e)
  PROVE  /\ OnlyOf(e) /\ keeper[e].at = "rejected" /\ SameRead(e)
         /\ number'[e] = number[e] /\ SameStore /\ issued' = issued
         /\ ~turn[e]
         /\ \/ /\ keeper'[e].at = "forget" /\ turn'[e] /\ ~reaching'[e]
               /\ Judged(e) /\ session'[e] = NoSession
            \/ /\ keeper'[e].at = "loop" /\ SameReach(e) /\ ~turn'[e]
               /\ session'[e] = session[e] /\ UNCHANGED session
<1>1. EntryTypes /\ issued \in issued .. MaxTokens
  BY Issued
<1>2. /\ UNCHANGED <<server, store, list, kept, number, changes, calls, faults>>
      /\ keeper[e].at = "rejected" /\ ~turn[e]
  BY DEF TakeRejected
<1> DEFINE T == /\ turn' \in [Entries -> BOOLEAN]
                /\ \A x \in Entries : x # e => turn'[x] = turn[x]
           K == /\ keeper' \in [Entries -> Keepers]
                /\ \A x \in Entries : x # e => keeper'[x] = keeper[x]
           S == /\ session' \in [Entries -> Sessions]
                /\ \A x \in Entries : x # e => session'[x] = session[x]
           R == /\ reaching' \in [Entries -> BOOLEAN]
                /\ \A x \in Entries : x # e => reaching'[x] = reaching[x]
<1>3. number'[e] = number[e] /\ SameStore /\ issued' = issued
  BY <1>2 DEF SameStore, server, faults
<1>4. K /\ T /\ S /\ R => OnlyOf(e)
  <2>1. K /\ T /\ S /\ R => EntryTypes'
    BY <1>1, <1>2, SameTypes DEF EntryTypes
  <2> QED
    BY <1>1, <1>2, <2>1 DEF OnlyOf, server, list, calls, faults
<1>5. CASE StillCurrent(e) /\ Judged(e)
  <2>1. /\ Goes(e, "forget") /\ turn' = [turn EXCEPT ![e] = TRUE]
        /\ EndSession(e) /\ reaching' = [reaching EXCEPT ![e] = FALSE]
    BY <1>5 DEF TakeRejected
  <2>2. K /\ keeper'[e].at = "forget" /\ SameRead(e)
    BY <1>1, <2>1, GoesTo
  <2>3. T /\ turn'[e]
    BY <1>1, <2>1, SetsOne DEF EntryTypes
  <2>4. R /\ ~reaching'[e]
    BY <1>1, <2>1, SetsOne DEF EntryTypes
  <2>5. S /\ session'[e] = NoSession
    BY <1>1, <2>1, SessionEnds
  <2> QED
    BY <1>2, <1>3, <1>4, <1>5, <2>2, <2>3, <2>4, <2>5
<1>6. CASE ~(StillCurrent(e) /\ Judged(e))
  <2>1. Goes(e, "loop") /\ UNCHANGED <<session, reaching, turn>>
    BY <1>6 DEF TakeRejected
  <2>2. K /\ keeper'[e].at = "loop" /\ SameRead(e)
    BY <1>1, <2>1, GoesTo
  <2>3. T /\ R /\ S /\ ~turn'[e] /\ SameReach(e)
    BY <1>1, <1>2, <2>1, SameTypes DEF SameReach
  <2> QED
    BY <1>2, <1>3, <1>4, <2>1, <2>2, <2>3
<1> QED
  BY <1>5, <1>6

LEMMA ForgetDoes ==
  ASSUME SignInsAssumption, SignTypes, NEW e \in Entries, Forget(e)
  PROVE  /\ OnlyOf(e) /\ keeper[e].at = "forget" /\ keeper'[e].at = "loop"
         /\ SameRead(e) /\ SameSession(e) /\ SameReach(e)
         /\ ~turn'[e] /\ issued' = issued
         /\ store' \in {store, 0} /\ (unforgotten' <=> store' # 0)
<1>1. EntryTypes /\ issued \in issued .. MaxTokens
  BY Issued
<1>2. /\ UNCHANGED <<server, list, catalogs, reaching, changes, calls, crashes,
                     forgotOther>>
      /\ keeper[e].at = "forget" /\ Goes(e, "loop")
      /\ turn' = [turn EXCEPT ![e] = FALSE]
      /\ store' \in {store, 0} /\ kept' \in {kept, "until closed"}
      /\ (unforgotten' <=> store' # 0)
  BY DEF Forget
<1>3. /\ keeper' \in [Entries -> Keepers]
      /\ \A x \in Entries : x # e => keeper'[x] = keeper[x]
      /\ keeper'[e].at = "loop" /\ SameRead(e)
  BY <1>1, <1>2, GoesTo
<1>4. /\ turn' \in [Entries -> BOOLEAN] /\ ~turn'[e]
      /\ \A x \in Entries : x # e => turn'[x] = turn[x]
  BY <1>1, <1>2, SetsOne DEF EntryTypes
<1>5. EntryTypes'
  BY <1>1, <1>2, <1>3, <1>4, SameTypes DEF EntryTypes, catalogs
<1>6. OnlyOf(e) /\ SameSession(e) /\ SameReach(e) /\ issued' = issued
  BY <1>1, <1>2, <1>3, <1>4, <1>5 DEF OnlyOf, SameSession, SameReach,
     server, list, catalogs, calls
<1> QED
  BY <1>2, <1>3, <1>4, <1>6


-----------------------------------------------------------------------------
(* A keeper's step preserves the invariant.                                *)

LEMMA Between ==
  ASSUME NEW i \in Nat, NEW m \in Nat, NEW j \in i .. m, NEW a \in 1 .. i + 1
  PROVE  j \in Nat /\ i <= j /\ j \in 0 .. m /\ a \in Nat /\ a \in 1 .. j + 1
OBVIOUS

LEMMA IssuedGrows ==
  ASSUME SignInsAssumption, SignTypes, issued' \in issued .. MaxTokens
  PROVE  /\ issued \in Nat /\ issued' \in Nat /\ issued <= issued'
         /\ issued' \in 0 .. MaxTokens
         /\ accepted \in Nat /\ accepted \in 1 .. issued' + 1
<1>1. issued \in 0 .. MaxTokens /\ accepted \in 1 .. issued + 1
  BY DEF SignTypes
<1>2. issued \in Nat /\ MaxTokens \in Nat
  BY <1>1 DEF SignInsAssumption
<1> QED
  BY <1>1, <1>2, Between, Zenon

\* Of the other entries.
LEMMA OthersStay ==
  ASSUME SignInsAssumption, SignTypes, NEW e \in Entries, OnlyOf(e),
         NEW x \in Entries, x # e, EntryInv(x)
  PROVE  EntryInv(x)'
<1>1. /\ issued \in Nat /\ issued' \in Nat /\ issued <= issued'
      /\ session[x].token \in Nat /\ keeper[x].token \in Nat
  <2>1. issued \in Nat /\ issued' \in Nat /\ issued <= issued'
    <3>1. issued' \in issued .. MaxTokens
      BY DEF OnlyOf
    <3> QED
      BY <3>1, IssuedGrows
  <2>2. session[x] \in Sessions /\ keeper[x] \in Keepers
    BY DEF SignTypes, EntryTypes
  <2> QED
    BY <2>1, <2>2 DEF Sessions, Keepers
<1>2. /\ keeper'[x] = keeper[x] /\ session'[x] = session[x]
      /\ number'[x] = number[x] /\ changes'[x] = changes[x]
      /\ (reaching'[x] <=> reaching[x]) /\ (turn'[x] <=> turn[x])
  BY DEF OnlyOf
<1>3. /\ accepted' = accepted /\ listed' = listed /\ entry' = entry
      /\ added' = added /\ person' = person /\ leaving' = leaving
  BY DEF OnlyOf, list
<1>4. Numbered(x)'
  BY <1>1, <1>2 DEF EntryInv, Numbered
<1>5. Untouched(x)'
  BY <1>2, <1>3 DEF EntryInv, Untouched
<1>6. TurnIsTaken(x)'
  BY <1>2, <1>3 DEF EntryInv, TurnIsTaken
<1>7. IsWanted(x)'
  BY <1>2, <1>3 DEF EntryInv, IsWanted, SignedIn, Pending, SigningIn, Doomed,
     JustResumed
<1>8. KeepsForASession(x)'
  BY <1>2 DEF EntryInv, KeepsForASession
<1>9. JudgementHolds(x)'
  BY <1>2, <1>3 DEF EntryInv, JudgementHolds, Accepts
<1> QED
  BY <1>4, <1>5, <1>6, <1>7, <1>8, <1>9 DEF EntryInv

\* Of the calls, and the types.
LEMMA RestStays ==
  ASSUME SignInsAssumption, SignTypes, CallsAreOfTheirEntry,
         NEW e \in Entries, OnlyOf(e),
         keeper[e].at # "off", store' \in 0 .. issued'
  PROVE  SignTypes' /\ CallsAreOfTheirEntry'
<1>1. /\ accepted' = accepted /\ listed' = listed /\ entry' = entry
      /\ added' = added /\ person' = person /\ leaving' = leaving
      /\ EntryTypes' /\ issued' \in issued .. MaxTokens
      /\ kept' \in {kept, "until closed"}
  BY DEF OnlyOf, list
<1>2. issued' \in 0 .. MaxTokens /\ accepted' \in 1 .. issued' + 1
  BY <1>1, IssuedGrows
<1>3. SignTypes'
  BY <1>1, <1>2 DEF SignTypes
<1>4. CallsAreOfTheirEntry'
  <2>1. ASSUME person.at \in {"ask", "check", "tell", "save"}, entry = 0
        PROVE  keeper'[person.e].at = "off"
    <3>1. person.e \in Entries /\ keeper[person.e].at = "off"
      BY <2>1, SignValues DEF SignTypes, CallsAreOfTheirEntry
    <3> QED
      BY <3>1 DEF OnlyOf
  <2> QED
    BY <1>1, <2>1 DEF CallsAreOfTheirEntry
<1> QED
  BY <1>3, <1>4

LEMMA TokenStays ==
  ASSUME TokenIsWanted, NEW e \in Entries, OnlyOf(e), SameStore,
         SoonForgotten(e) => SoonForgotten(e)'
  PROVE  TokenIsWanted'
<1>1. /\ listed' = listed /\ person' = person /\ leaving' = leaving
      /\ store' = store /\ (unforgotten' <=> unforgotten)
  BY DEF OnlyOf, list, SameStore
<1>2. ASSUME NEW x \in Entries, SoonForgotten(x)
      PROVE  SoonForgotten(x)'
  <2>1. CASE x = e
    BY <1>2, <2>1
  <2>2. CASE x # e
    <3>1. keeper'[x] = keeper[x] /\ session'[x] = session[x]
      BY <2>2 DEF OnlyOf
    <3> QED
      BY <1>1, <1>2, <3>1 DEF SoonForgotten, SigningIn, JustResumed
  <2> QED
    BY <2>1, <2>2
<1> QED
  BY <1>1, <1>2 DEF TokenIsWanted

\* What the invariant says of the keeper's entry, in numbers.
LEMMA EntryValues ==
  ASSUME SignInsAssumption, SignTypes, NEW e \in Entries, Numbered(e), OnlyOf(e)
  PROVE  /\ number[e] \in Nat /\ changes[e] \in Nat
         /\ session[e].n \in Nat /\ session[e].token \in Nat
         /\ keeper[e].seen \in Nat /\ keeper[e].n \in Nat
         /\ keeper[e].token \in Nat /\ keeper[e].asked \in Nat
         /\ issued \in Nat /\ issued' \in Nat /\ issued <= issued'
         /\ accepted \in Nat /\ accepted' = accepted
         /\ changes' = changes /\ added' = added
         /\ (session[e] # NoSession <=> session[e].n > 0)
         /\ session'[e].n \in Nat /\ (session'[e].n > 0 => session'[e] # NoSession)
<1>1. /\ session[e] \in Sessions /\ keeper[e] \in Keepers /\ number[e] \in Nat
      /\ changes[e] \in Nat
  BY DEF SignTypes, EntryTypes
<1>2. issued \in Nat /\ issued' \in Nat /\ issued <= issued' /\ accepted \in Nat
  <2>1. issued' \in issued .. MaxTokens
    BY DEF OnlyOf
  <2> QED
    BY <2>1, IssuedGrows
<1>3. /\ session[e].n \in Nat /\ session[e].token \in Nat
      /\ keeper[e].seen \in Nat /\ keeper[e].n \in Nat
      /\ keeper[e].token \in Nat /\ keeper[e].asked \in Nat
  BY <1>1 DEF Sessions, Keepers
<1>4. session'[e] \in Sessions
  BY DEF OnlyOf, EntryTypes
<1>5. session'[e].n \in Nat /\ (session'[e].n > 0 => session'[e] # NoSession)
  BY <1>4, SignValues DEF Sessions
<1>6. accepted' = accepted /\ changes' = changes /\ added' = added
  BY DEF OnlyOf, list
<1> QED
  BY <1>1, <1>2, <1>3, <1>5, <1>6, SignValues DEF Numbered


\* A keeper changes nothing of the calls.
LEMMA SameCalls ==
  ASSUME SignTypes, NEW e \in Entries, OnlyOf(e), keeper[e].at # "off", Untouched(e)
  PROVE  /\ (SignedIn(e)' <=> SignedIn(e)) /\ (Pending(e)' <=> Pending(e))
         /\ (SigningIn(e)' <=> SigningIn(e)) /\ Untouched(e)'
         /\ person' = person /\ leaving' = leaving
<1>1. /\ listed' = listed /\ entry' = entry /\ added' = added
      /\ person' = person /\ leaving' = leaving
  BY DEF OnlyOf, list
<1> QED
  BY <1>1 DEF SignedIn, Pending, SigningIn, Untouched

\* A keeper at rest, or that goes to rest, with nothing else changed.
LEMMA GoesToRest ==
  ASSUME SignInsAssumption, SignInv, NEW e \in Entries, OnlyOf(e),
         SameRead(e), SameSession(e), SameTurn(e), SameStore,
         SameReach(e) \/ ~reaching'[e],
         keeper[e].at \notin {"off", "keeping", "forget", "resumed"},
         keeper'[e].at \in {"off", "none", "loop"}
  PROVE  EntryInv(e)' /\ TokenIsWanted'
<1>1. SignTypes /\ EntryInv(e) /\ TokenIsWanted
  BY DEF SignInv
<1>2. /\ Numbered(e) /\ Untouched(e) /\ TurnIsTaken(e) /\ IsWanted(e)
      /\ KeepsForASession(e) /\ JudgementHolds(e)
  BY <1>1 DEF EntryInv
<1>3. /\ (SignedIn(e)' <=> SignedIn(e)) /\ (Pending(e)' <=> Pending(e))
      /\ (SigningIn(e)' <=> SigningIn(e)) /\ Untouched(e)'
      /\ person' = person /\ leaving' = leaving
  BY <1>1, <1>2, SameCalls
<1>4. /\ session[e].token \in Nat /\ issued \in Nat /\ issued' \in Nat
      /\ issued <= issued' /\ accepted' = accepted /\ changes' = changes
  BY <1>1, <1>2, EntryValues
<1>5. Numbered(e)'
  BY <1>2, <1>4 DEF Numbered, SameRead, SameSession
<1>6. TurnIsTaken(e)'
  BY <1>2, <1>3 DEF TurnIsTaken, SameTurn
<1>7. IsWanted(e)'
  BY <1>2, <1>3 DEF IsWanted, Doomed, JustResumed, SameSession, SameReach
<1>8. KeepsForASession(e)' /\ JudgementHolds(e)'
  BY <1>2, <1>4 DEF KeepsForASession, JudgementHolds, SameSession, Accepts
<1>9. SoonForgotten(e) => SoonForgotten(e)'
  BY <1>3 DEF SoonForgotten, JustResumed, SameSession
<1> QED
  BY <1>1, <1>3, <1>5, <1>6, <1>7, <1>8, <1>9, TokenStays DEF EntryInv

LEMMA LookKeeps ==
  ASSUME SignInsAssumption, SignInv, NEW e \in Entries,
         Look(e) \/ NothingToCarryOn(e) \/ Stop(e)
  PROVE  OnlyOf(e) /\ EntryInv(e)' /\ TokenIsWanted'
<1>1. SignTypes
  BY DEF SignInv
<1>2. CASE Look(e)
  BY <1>1, <1>2, LookDoes, GoesToRest
<1>3. CASE NothingToCarryOn(e)
  BY <1>1, <1>3, NothingToCarryOnDoes, GoesToRest
<1>4. CASE Stop(e)
  BY <1>1, <1>4, StopDoes, GoesToRest
<1> QED
  BY <1>2, <1>3, <1>4

LEMMA CarryOnKeeps ==
  ASSUME SignInsAssumption, SignInv, NEW e \in Entries, CarryOn(e)
  PROVE  OnlyOf(e) /\ EntryInv(e)' /\ TokenIsWanted'
<1>1. SignTypes /\ EntryInv(e) /\ TokenIsWanted
  BY DEF SignInv
<1>2. /\ Numbered(e) /\ Untouched(e) /\ TurnIsTaken(e) /\ IsWanted(e)
      /\ KeepsForASession(e) /\ JudgementHolds(e)
  BY <1>1 DEF EntryInv
<1>3. /\ OnlyOf(e) /\ keeper[e].at = "loop"
      /\ SameSession(e) /\ SameTurn(e) /\ SameReach(e) /\ SameStore
  BY <1>1, CarryOnDoes
<1>4. CASE keeper'[e].at = "loop" /\ SameRead(e)
  BY <1>3, <1>4, GoesToRest
<1>5. CASE /\ keeper'[e].at = "carry" /\ reaching[e]
           /\ keeper'[e].seen = changes[e] /\ keeper'[e].n = keeper[e].n
           /\ keeper'[e].asked = keeper[e].asked
           /\ keeper'[e].ok => keeper'[e].token <= issued'
  <2>1. /\ (SignedIn(e)' <=> SignedIn(e)) /\ (Pending(e)' <=> Pending(e))
        /\ (SigningIn(e)' <=> SigningIn(e)) /\ Untouched(e)'
        /\ person' = person /\ leaving' = leaving
    BY <1>1, <1>2, <1>3, SameCalls
  <2>2. /\ session[e].token \in Nat /\ issued \in Nat /\ issued' \in Nat
        /\ issued <= issued' /\ accepted' = accepted /\ changes' = changes
        /\ changes[e] \in Nat
    BY <1>1, <1>2, <1>3, EntryValues
  <2>3. Numbered(e)'
    BY <1>2, <1>3, <1>5, <2>2 DEF Numbered, SameSession
  <2>4. TurnIsTaken(e)'
    BY <1>2, <1>3, <1>5, <2>1 DEF TurnIsTaken, SameTurn
  <2>5. IsWanted(e)'
    BY <1>2, <1>3, <1>5, <2>1 DEF IsWanted, Doomed, JustResumed, SameSession,
       SameReach
  <2>6. KeepsForASession(e)' /\ JudgementHolds(e)'
    BY <1>2, <1>3, <1>5, <2>2 DEF KeepsForASession, JudgementHolds, SameSession,
       Accepts
  <2>7. SoonForgotten(e) => SoonForgotten(e)'
    BY <1>3, <1>5, <2>1 DEF SoonForgotten, JustResumed, SameSession
  <2> QED
    BY <1>1, <1>3, <2>1, <2>3, <2>4, <2>5, <2>6, <2>7, TokenStays DEF EntryInv
<1> QED
  BY <1>1, <1>4, <1>5, CarryOnDoes

LEMMA ResumedKeeps ==
  ASSUME SignInsAssumption, SignInv, NEW e \in Entries, Resumed(e)
  PROVE  OnlyOf(e) /\ EntryInv(e)' /\ TokenIsWanted'
<1>1. SignTypes /\ EntryInv(e) /\ TokenIsWanted
  BY DEF SignInv
<1>2. /\ Numbered(e) /\ Untouched(e) /\ TurnIsTaken(e) /\ IsWanted(e)
      /\ KeepsForASession(e) /\ JudgementHolds(e)
  BY <1>1 DEF EntryInv
<1>3. /\ OnlyOf(e) /\ keeper[e].at = "carry"
      /\ SameTurn(e) /\ SameReach(e) /\ SameStore /\ issued' = issued
      /\ keeper'[e].seen = keeper[e].seen /\ keeper'[e].asked = keeper[e].asked
  BY <1>1, ResumedDoes
<1>4. /\ (SignedIn(e)' <=> SignedIn(e)) /\ (Pending(e)' <=> Pending(e))
      /\ (SigningIn(e)' <=> SigningIn(e)) /\ Untouched(e)'
      /\ person' = person /\ leaving' = leaving
  BY <1>1, <1>2, <1>3, SameCalls
<1>5. /\ session[e].n \in Nat /\ session[e].token \in Nat
      /\ keeper[e].token \in Nat /\ keeper[e].n \in Nat /\ keeper[e].asked \in Nat
      /\ accepted' = accepted /\ changes' = changes /\ number[e] \in Nat
      /\ (session[e] # NoSession <=> session[e].n > 0)
  BY <1>1, <1>2, <1>3, EntryValues
<1>6. CASE keeper'[e].at = "loop" /\ SameRead(e) /\ SameSession(e)
  BY <1>3, <1>6, GoesToRest
<1>7. CASE /\ keeper[e].ok /\ session[e] = NoSession /\ keeper'[e].at = "resumed"
           /\ number'[e] = number[e] + 1 /\ keeper'[e].n = number[e] + 1
           /\ session'[e].n = number[e] + 1 /\ session'[e].token = keeper[e].token
           /\ ~session'[e].refused
  <2>1. Numbered(e)'
    <3>1. /\ number[e] + 1 \in Nat /\ number[e] <= number[e] + 1
          /\ number[e] + 1 > 0 /\ keeper[e].asked <= number[e] + 1
      BY <1>2, <1>5 DEF Numbered
    <3> QED
      BY <1>2, <1>3, <1>5, <1>7, <3>1 DEF Numbered
  <2>2. TurnIsTaken(e)'
    BY <1>2, <1>3, <1>4, <1>7 DEF TurnIsTaken, SameTurn
  <2>3. IsWanted(e)'
    BY <1>2, <1>3, <1>4, <1>5, <1>7 DEF IsWanted, Doomed, JustResumed, SameReach
  <2>4. KeepsForASession(e)' /\ JudgementHolds(e)'
    BY <1>7 DEF KeepsForASession, JudgementHolds
  <2>5. SoonForgotten(e) => SoonForgotten(e)'
    BY <1>3, <1>7 DEF SoonForgotten
  <2> QED
    BY <1>1, <1>3, <1>4, <2>1, <2>2, <2>3, <2>4, <2>5, TokenStays DEF EntryInv
<1>8. CASE /\ keeper'[e].at = "rejected" /\ keeper'[e].n = 0 /\ SameSession(e)
  <2>1. Numbered(e)'
    BY <1>2, <1>3, <1>5, <1>8 DEF Numbered, SameSession
  <2>2. TurnIsTaken(e)'
    BY <1>2, <1>3, <1>4, <1>8 DEF TurnIsTaken, SameTurn
  <2>3. IsWanted(e)'
    BY <1>2, <1>3, <1>4, <1>5, <1>8 DEF IsWanted, Doomed, JustResumed, SameReach,
       SameSession
  <2>4. KeepsForASession(e)' /\ JudgementHolds(e)'
    BY <1>2, <1>5, <1>8 DEF KeepsForASession, JudgementHolds, SameSession,
       Accepts
  <2>5. SoonForgotten(e) => SoonForgotten(e)'
    BY <1>3, <1>4, <1>8 DEF SoonForgotten, JustResumed, SameSession
  <2> QED
    BY <1>1, <1>3, <1>4, <2>1, <2>2, <2>3, <2>4, <2>5, TokenStays DEF EntryInv
<1> QED
  BY <1>1, <1>6, <1>7, <1>8, ResumedDoes


\* What a step of a keeper begins with, and what it leaves as it is.
LEMMA EntryHolds ==
  ASSUME SignInsAssumption, SignInv, NEW e \in Entries, OnlyOf(e),
         keeper[e].at # "off"
  PROVE  /\ SignTypes /\ TokenIsWanted
         /\ Numbered(e) /\ Untouched(e) /\ TurnIsTaken(e) /\ IsWanted(e)
         /\ KeepsForASession(e) /\ JudgementHolds(e)
         /\ (SignedIn(e)' <=> SignedIn(e)) /\ (Pending(e)' <=> Pending(e))
         /\ (SigningIn(e)' <=> SigningIn(e)) /\ Untouched(e)'
         /\ person' = person /\ leaving' = leaving
         /\ number[e] \in Nat /\ changes[e] \in Nat
         /\ session[e].n \in Nat /\ session[e].token \in Nat
         /\ keeper[e].seen \in Nat /\ keeper[e].n \in Nat
         /\ keeper[e].token \in Nat /\ keeper[e].asked \in Nat
         /\ issued \in Nat /\ issued' \in Nat /\ issued <= issued'
         /\ accepted \in Nat /\ accepted' = accepted /\ changes' = changes
         /\ (session[e] # NoSession <=> session[e].n > 0)
         /\ session'[e].n \in Nat
         /\ (session'[e].n > 0 => session'[e] # NoSession)
<1>1. SignTypes /\ EntryInv(e) /\ TokenIsWanted
  BY DEF SignInv
<1>2. /\ Numbered(e) /\ Untouched(e) /\ TurnIsTaken(e) /\ IsWanted(e)
      /\ KeepsForASession(e) /\ JudgementHolds(e)
  BY <1>1 DEF EntryInv
<1> QED
  BY <1>1, <1>2, SameCalls, EntryValues

LEMMA AfterResumingKeeps ==
  ASSUME SignInsAssumption, SignInv, NEW e \in Entries, AfterResuming(e)
  PROVE  OnlyOf(e) /\ EntryInv(e)' /\ TokenIsWanted'
<1>1. /\ OnlyOf(e) /\ keeper[e].at = "resumed" /\ keeper'[e].at = "loop"
      /\ SameRead(e) /\ SameTurn(e) /\ SameStore /\ issued' = issued
      /\ ~reaching'[e] /\ number'[e] = number[e]
      /\ \/ EndedMeanwhile(e) /\ session'[e] = NoSession
         \/ ~EndedMeanwhile(e) /\ session'[e] = session[e]
  BY AfterResumingDoes DEF SignInv
<1>2. /\ SignTypes /\ TokenIsWanted
      /\ Numbered(e) /\ TurnIsTaken(e) /\ IsWanted(e)
      /\ KeepsForASession(e) /\ JudgementHolds(e)
      /\ (SignedIn(e)' <=> SignedIn(e)) /\ (Pending(e)' <=> Pending(e))
      /\ (SigningIn(e)' <=> SigningIn(e)) /\ Untouched(e)'
      /\ person' = person /\ leaving' = leaving
      /\ changes[e] \in Nat /\ keeper[e].seen \in Nat
      /\ issued \in Nat /\ accepted' = accepted /\ changes' = changes
  BY <1>1, EntryHolds
<1>3. Numbered(e)'
  BY <1>1, <1>2, SignValues DEF Numbered, SameRead
<1>4. TurnIsTaken(e)'
  BY <1>1, <1>2 DEF TurnIsTaken, SameTurn
<1>5. IsWanted(e)'
  <2>1. Doomed(e) => EndedMeanwhile(e)
    BY <1>2 DEF Doomed, JustResumed, EndedMeanwhile, StillCurrent
  <2> QED
    BY <1>1, <1>2, <2>1 DEF IsWanted
<1>6. KeepsForASession(e)' /\ JudgementHolds(e)'
  BY <1>1, <1>2, SignValues DEF KeepsForASession, JudgementHolds, Accepts
<1>7. SoonForgotten(e) => SoonForgotten(e)'
  BY <1>1, <1>2 DEF SoonForgotten, JustResumed, EndedMeanwhile
<1> QED
  BY <1>1, <1>2, <1>3, <1>4, <1>5, <1>6, <1>7, TokenStays DEF EntryInv

LEMMA WatchKeeps ==
  ASSUME SignInsAssumption, SignInv, NEW e \in Entries, Watch(e)
  PROVE  OnlyOf(e) /\ EntryInv(e)' /\ TokenIsWanted'
<1>1. SignTypes
  BY DEF SignInv
<1>2. /\ OnlyOf(e) /\ keeper[e].at = "loop"
      /\ SameSession(e) /\ SameTurn(e) /\ SameReach(e) /\ SameStore
      /\ issued' = issued /\ keeper'[e].asked = keeper[e].asked
  BY <1>1, WatchDoes
<1>3. CASE keeper'[e].at = "loop" /\ SameRead(e)
  BY <1>2, <1>3, GoesToRest
<1>4. CASE /\ keeper'[e].at = "status" /\ session[e] # NoSession
           /\ keeper'[e].seen = changes[e] /\ keeper'[e].n = session[e].n
           /\ keeper'[e].token = session[e].token
  <2>1. /\ SignTypes /\ TokenIsWanted
        /\ Numbered(e) /\ TurnIsTaken(e) /\ IsWanted(e)
        /\ KeepsForASession(e) /\ JudgementHolds(e)
        /\ (SignedIn(e)' <=> SignedIn(e)) /\ (Pending(e)' <=> Pending(e))
        /\ (SigningIn(e)' <=> SigningIn(e)) /\ Untouched(e)'
        /\ person' = person /\ leaving' = leaving
        /\ changes[e] \in Nat /\ session[e].n \in Nat /\ number[e] \in Nat
        /\ issued \in Nat /\ accepted' = accepted /\ changes' = changes
        /\ (session[e] # NoSession <=> session[e].n > 0)
    BY <1>2, EntryHolds
  <2>2. Numbered(e)'
    BY <1>2, <1>4, <2>1 DEF Numbered, SameSession
  <2>3. TurnIsTaken(e)'
    BY <1>2, <1>4, <2>1 DEF TurnIsTaken, SameTurn
  <2>4. IsWanted(e)'
    BY <1>2, <1>4, <2>1 DEF IsWanted, Doomed, JustResumed, SameSession, SameReach
  <2>5. KeepsForASession(e)' /\ JudgementHolds(e)'
    BY <1>2, <1>4, <2>1 DEF KeepsForASession, JudgementHolds, SameSession,
       Accepts
  <2>6. SoonForgotten(e) => SoonForgotten(e)'
    BY <1>2, <1>4, <2>1 DEF SoonForgotten, JustResumed, SameSession
  <2> QED
    BY <1>2, <2>1, <2>2, <2>3, <2>4, <2>5, <2>6, TokenStays DEF EntryInv
<1> QED
  BY <1>1, <1>3, <1>4, WatchDoes

LEMMA StatusKeeps ==
  ASSUME SignInsAssumption, SignInv, NEW e \in Entries, Status(e)
  PROVE  OnlyOf(e) /\ EntryInv(e)' /\ TokenIsWanted'
<1>1. /\ OnlyOf(e) /\ keeper[e].at = "status"
      /\ SameSession(e) /\ SameTurn(e) /\ SameReach(e) /\ SameStore
      /\ \/ keeper'[e].at \in {"loop", "keep"} /\ SameRead(e)
         \/ /\ keeper'[e].at = "rejected" /\ SameRead(e)
            /\ session[e].refused
         \/ /\ keeper'[e].at = "renew" /\ session[e] # NoSession
            /\ keeper'[e].asked = session[e].n
            /\ keeper'[e].n = keeper[e].n /\ keeper'[e].seen = keeper[e].seen
            /\ keeper'[e].ok <=> Accepts(session[e].token)
            /\ keeper'[e].ok => keeper'[e].token <= issued'
  BY StatusDoes DEF SignInv
<1>2. /\ SignTypes /\ TokenIsWanted
      /\ Numbered(e) /\ TurnIsTaken(e) /\ IsWanted(e)
      /\ KeepsForASession(e) /\ JudgementHolds(e)
      /\ (SignedIn(e)' <=> SignedIn(e)) /\ (Pending(e)' <=> Pending(e))
      /\ (SigningIn(e)' <=> SigningIn(e)) /\ Untouched(e)'
      /\ person' = person /\ leaving' = leaving
      /\ changes[e] \in Nat /\ session[e].n \in Nat /\ number[e] \in Nat
      /\ session[e].token \in Nat /\ keeper[e].token \in Nat
      /\ issued \in Nat /\ issued' \in Nat /\ issued <= issued'
      /\ accepted' = accepted /\ changes' = changes
      /\ (session[e] # NoSession <=> session[e].n > 0)
  BY <1>1, EntryHolds
<1>3. Numbered(e)'
  BY <1>1, <1>2 DEF Numbered, SameSession, SameRead
<1>4. TurnIsTaken(e)'
  BY <1>1, <1>2 DEF TurnIsTaken, SameTurn
<1>5. IsWanted(e)'
  BY <1>1, <1>2 DEF IsWanted, Doomed, JustResumed, SameSession, SameReach
<1>6. KeepsForASession(e)'
  BY <1>1 DEF KeepsForASession
<1>7. JudgementHolds(e)'
  <2>1. /\ (session'[e].refused <=> session[e].refused)
        /\ (Accepts(session[e].token)' <=> Accepts(session[e].token))
    BY <1>1, <1>2 DEF SameSession, Accepts
  <2> QED
    BY <1>1, <1>2, <2>1 DEF JudgementHolds, SameSession, SameRead
<1>8. SoonForgotten(e) => SoonForgotten(e)'
  BY <1>1, <1>2 DEF SoonForgotten, JustResumed, SameSession
<1> QED
  BY <1>1, <1>2, <1>3, <1>4, <1>5, <1>6, <1>7, <1>8, TokenStays DEF EntryInv

LEMMA RenewedKeeps ==
  ASSUME SignInsAssumption, SignInv, NEW e \in Entries, Renewed(e)
  PROVE  OnlyOf(e) /\ EntryInv(e)' /\ TokenIsWanted'
<1>1. /\ OnlyOf(e) /\ keeper[e].at = "renew" /\ SameRead(e)
      /\ number'[e] = number[e] /\ session'[e].n = session[e].n
      /\ (session'[e].refused <=> session[e].refused)
      /\ SameTurn(e) /\ SameReach(e) /\ SameStore /\ issued' = issued
      /\ \/ keeper'[e].at = "loop" /\ session'[e] = session[e]
         \/ /\ keeper'[e].at = "loop" /\ session[e].n = keeper[e].asked
            /\ keeper[e].ok /\ session'[e].token = keeper[e].token
         \/ /\ keeper'[e].at = "rejected" /\ session[e].n = keeper[e].asked
            /\ ~keeper[e].ok /\ session'[e] = session[e]
  BY RenewedDoes DEF SignInv
<1>2. /\ SignTypes /\ TokenIsWanted
      /\ Numbered(e) /\ TurnIsTaken(e) /\ IsWanted(e)
      /\ KeepsForASession(e) /\ JudgementHolds(e)
      /\ (SignedIn(e)' <=> SignedIn(e)) /\ (Pending(e)' <=> Pending(e))
      /\ (SigningIn(e)' <=> SigningIn(e)) /\ Untouched(e)'
      /\ person' = person /\ leaving' = leaving
      /\ changes[e] \in Nat /\ session[e].n \in Nat /\ number[e] \in Nat
      /\ keeper[e].asked \in Nat
      /\ issued \in Nat /\ accepted' = accepted /\ changes' = changes
      /\ (session[e] # NoSession <=> session[e].n > 0)
      /\ (session'[e].n > 0 => session'[e] # NoSession)
  BY <1>1, EntryHolds
<1>3. session'[e] # NoSession <=> session[e] # NoSession
  BY <1>1, <1>2 DEF Numbered
<1>4. Numbered(e)'
  BY <1>1, <1>2, <1>3 DEF Numbered, SameRead
<1>5. TurnIsTaken(e)'
  BY <1>1, <1>2 DEF TurnIsTaken, SameTurn
<1>6. IsWanted(e)'
  BY <1>1, <1>2, <1>3 DEF IsWanted, Doomed, JustResumed, SameReach
<1>7. KeepsForASession(e)'
  BY <1>1 DEF KeepsForASession
<1>8. JudgementHolds(e)'
  BY <1>1, <1>2 DEF JudgementHolds, SameRead, Accepts
<1>9. SoonForgotten(e) => SoonForgotten(e)'
  BY <1>1, <1>2, <1>3 DEF SoonForgotten, JustResumed
<1> QED
  BY <1>1, <1>2, <1>4, <1>5, <1>6, <1>7, <1>8, <1>9, TokenStays DEF EntryInv


LEMMA TakeKeepKeeps ==
  ASSUME SignInsAssumption, SignInv, NEW e \in Entries, TakeKeep(e)
  PROVE  OnlyOf(e) /\ EntryInv(e)' /\ TokenIsWanted'
<1>1. /\ OnlyOf(e) /\ keeper[e].at = "keep" /\ SameRead(e) /\ SameSession(e)
      /\ SameReach(e) /\ SameStore /\ issued' = issued /\ ~turn[e]
      /\ \/ /\ keeper'[e].at = "keeping" /\ turn'[e]
            /\ session[e].n = keeper[e].n
         \/ keeper'[e].at = "loop" /\ ~turn'[e]
  BY TakeKeepDoes DEF SignInv
<1>2. /\ SignTypes /\ TokenIsWanted
      /\ Numbered(e) /\ TurnIsTaken(e) /\ IsWanted(e)
      /\ KeepsForASession(e) /\ JudgementHolds(e)
      /\ (SignedIn(e)' <=> SignedIn(e)) /\ (Pending(e)' <=> Pending(e))
      /\ (SigningIn(e)' <=> SigningIn(e)) /\ Untouched(e)'
      /\ person' = person /\ leaving' = leaving
      /\ issued \in Nat /\ accepted' = accepted /\ changes' = changes
      /\ (session[e] # NoSession <=> session[e].n > 0)
  BY <1>1, EntryHolds
<1>3. Numbered(e)'
  BY <1>1, <1>2 DEF Numbered, SameSession, SameRead
<1>4. TurnIsTaken(e)'
  BY <1>1, <1>2 DEF TurnIsTaken
<1>5. IsWanted(e)'
  BY <1>1, <1>2 DEF IsWanted, Doomed, JustResumed, SameSession, SameReach
<1>6. KeepsForASession(e)'
  BY <1>1, <1>2 DEF KeepsForASession, SameSession, Numbered
<1>7. JudgementHolds(e)'
  BY <1>1, <1>2 DEF JudgementHolds, SameSession, Accepts
<1>8. SoonForgotten(e) => SoonForgotten(e)'
  BY <1>1, <1>2 DEF SoonForgotten, JustResumed, SameSession
<1> QED
  BY <1>1, <1>2, <1>3, <1>4, <1>5, <1>6, <1>7, <1>8, TokenStays DEF EntryInv

\* The token kept is of a session, which only who is signed in has, or who is
\* about to be, or about to have it forgotten.
LEMMA KeepKeeps ==
  ASSUME SignInsAssumption, SignInv, NEW e \in Entries, Keep(e)
  PROVE  /\ OnlyOf(e) /\ EntryInv(e)' /\ TokenIsWanted' /\ store' \in 0 .. issued'
<1>1. /\ OnlyOf(e) /\ keeper[e].at = "keeping" /\ keeper'[e].at = "loop"
      /\ SameRead(e) /\ SameSession(e) /\ SameReach(e)
      /\ ~turn'[e] /\ issued' = issued
      /\ store' \in {store, keeper[e].token} /\ (unforgotten' <=> unforgotten)
  BY KeepDoes DEF SignInv
<1>2. /\ SignTypes /\ TokenIsWanted
      /\ Numbered(e) /\ TurnIsTaken(e) /\ IsWanted(e)
      /\ KeepsForASession(e) /\ JudgementHolds(e)
      /\ (SignedIn(e)' <=> SignedIn(e)) /\ (Pending(e)' <=> Pending(e))
      /\ (SigningIn(e)' <=> SigningIn(e)) /\ Untouched(e)'
      /\ person' = person /\ leaving' = leaving /\ keeper[e].token \in Nat
      /\ issued \in Nat /\ accepted' = accepted /\ changes' = changes
  BY <1>1, EntryHolds
<1>3. Numbered(e)'
  BY <1>1, <1>2 DEF Numbered, SameSession, SameRead
<1>4. TurnIsTaken(e)'
  BY <1>1, <1>2 DEF TurnIsTaken
<1>5. IsWanted(e)'
  BY <1>1, <1>2 DEF IsWanted, Doomed, JustResumed, SameSession, SameReach
<1>6. KeepsForASession(e)' /\ JudgementHolds(e)'
  BY <1>1, <1>2 DEF KeepsForASession, JudgementHolds, SameSession, Accepts
<1>7. store' \in 0 .. issued'
  <2>1. store \in 0 .. issued
    BY <1>2 DEF SignTypes
  <2>2. keeper[e].token \in 0 .. issued
    BY <1>1, <1>2 DEF Numbered
  <2> QED
    BY <1>1, <2>1, <2>2
<1>8. TokenIsWanted'
  <2>1. listed' = listed /\ entry' = entry /\ UNCHANGED <<person, leaving>>
    BY <1>1 DEF OnlyOf, list
  <2>2. SignedIn(e) \/ SigningIn(e) \/ Pending(e)
    BY <1>1, <1>2 DEF IsWanted, KeepsForASession, Doomed, JustResumed
  <2>3. CASE SignedIn(e)
    <3>1. listed = "in" /\ person.at # "drop"
      BY <2>3, SignValues DEF SignedIn, SignInv, CallsAreOfTheirEntry
    <3> QED
      BY <2>1, <3>1 DEF TokenIsWanted
  <2>4. CASE SigningIn(e)
    <3>1. SoonForgotten(e)'
      BY <1>1, <1>2, <2>4 DEF SoonForgotten, JustResumed, KeepsForASession,
         SameSession
    <3> QED
      BY <3>1 DEF TokenIsWanted
  <2>5. CASE Pending(e)
    BY <2>1, <2>5 DEF Pending, TokenIsWanted
  <2> QED
    BY <2>2, <2>3, <2>4, <2>5
<1> QED
  BY <1>1, <1>2, <1>3, <1>4, <1>5, <1>6, <1>7, <1>8 DEF EntryInv

LEMMA TakeRejectedKeeps ==
  ASSUME SignInsAssumption, SignInv, NEW e \in Entries, TakeRejected(e)
  PROVE  OnlyOf(e) /\ EntryInv(e)' /\ TokenIsWanted'
<1>1. /\ OnlyOf(e) /\ keeper[e].at = "rejected" /\ SameRead(e)
      /\ number'[e] = number[e] /\ SameStore /\ issued' = issued
      /\ ~turn[e]
      /\ \/ /\ keeper'[e].at = "forget" /\ turn'[e] /\ ~reaching'[e]
            /\ session'[e] = NoSession
         \/ /\ keeper'[e].at = "loop" /\ SameReach(e) /\ ~turn'[e]
            /\ session'[e] = session[e]
  BY TakeRejectedDoes DEF SignInv
<1>2. /\ SignTypes /\ TokenIsWanted
      /\ Numbered(e) /\ TurnIsTaken(e) /\ IsWanted(e)
      /\ KeepsForASession(e) /\ JudgementHolds(e)
      /\ (SignedIn(e)' <=> SignedIn(e)) /\ (Pending(e)' <=> Pending(e))
      /\ (SigningIn(e)' <=> SigningIn(e)) /\ Untouched(e)'
      /\ person' = person /\ leaving' = leaving
      /\ issued \in Nat /\ accepted' = accepted /\ changes' = changes
  BY <1>1, EntryHolds
<1>3. Numbered(e)'
  BY <1>1, <1>2, SignValues DEF Numbered, SameRead
<1>4. TurnIsTaken(e)'
  BY <1>1, <1>2 DEF TurnIsTaken
<1>5. IsWanted(e)'
  BY <1>1, <1>2 DEF IsWanted, Doomed, JustResumed, SameReach
<1>6. KeepsForASession(e)'
  BY <1>1 DEF KeepsForASession
<1>7. JudgementHolds(e)'
  BY <1>1, <1>2, SignValues DEF JudgementHolds, Accepts
<1>8. SoonForgotten(e) => SoonForgotten(e)'
  BY <1>1, <1>2 DEF SoonForgotten, JustResumed
<1> QED
  BY <1>1, <1>2, <1>3, <1>4, <1>5, <1>6, <1>7, <1>8, TokenStays DEF EntryInv

LEMMA ForgetKeeps ==
  ASSUME SignInsAssumption, SignInv, NEW e \in Entries, Forget(e)
  PROVE  /\ OnlyOf(e) /\ EntryInv(e)' /\ TokenIsWanted' /\ store' \in 0 .. issued'
<1>1. /\ OnlyOf(e) /\ keeper[e].at = "forget" /\ keeper'[e].at = "loop"
      /\ SameRead(e) /\ SameSession(e) /\ SameReach(e)
      /\ ~turn'[e] /\ issued' = issued
      /\ store' \in {store, 0} /\ (unforgotten' <=> store' # 0)
  BY ForgetDoes DEF SignInv
<1>2. /\ SignTypes
      /\ Numbered(e) /\ TurnIsTaken(e) /\ IsWanted(e)
      /\ KeepsForASession(e) /\ JudgementHolds(e)
      /\ (SignedIn(e)' <=> SignedIn(e)) /\ (Pending(e)' <=> Pending(e))
      /\ (SigningIn(e)' <=> SigningIn(e)) /\ Untouched(e)'
      /\ person' = person /\ leaving' = leaving
      /\ issued \in Nat /\ accepted' = accepted /\ changes' = changes
  BY <1>1, EntryHolds
<1>3. Numbered(e)'
  BY <1>1, <1>2 DEF Numbered, SameSession, SameRead
<1>4. TurnIsTaken(e)'
  BY <1>1, <1>2 DEF TurnIsTaken
<1>5. IsWanted(e)'
  BY <1>1, <1>2 DEF IsWanted, Doomed, JustResumed, SameSession, SameReach
<1>6. KeepsForASession(e)' /\ JudgementHolds(e)'
  BY <1>1, <1>2 DEF KeepsForASession, JudgementHolds, SameSession, Accepts
<1>7. store' \in 0 .. issued'
  <2>1. store \in 0 .. issued
    BY <1>2 DEF SignTypes
  <2> QED
    BY <1>1, <1>2, <2>1
<1>8. TokenIsWanted'
  BY <1>1 DEF TokenIsWanted
<1> QED
  BY <1>1, <1>2, <1>3, <1>4, <1>5, <1>6, <1>7, <1>8 DEF EntryInv

LEMMA KeeperKeeps ==
  ASSUME SignInsAssumption, SignInv, NEW e \in Entries, KeeperStep(e)
  PROVE  SignInv'
<1>1. SignTypes /\ CallsAreOfTheirEntry /\ store \in 0 .. issued
  BY DEF SignInv, SignTypes
<1>2. OnlyOf(e) /\ store' = store => store' \in 0 .. issued'
  <2> SUFFICES ASSUME OnlyOf(e), store' = store PROVE store' \in 0 .. issued'
    OBVIOUS
  <2>1. issued' \in issued .. MaxTokens
    BY DEF OnlyOf
  <2>2. issued \in Nat /\ issued' \in Nat /\ issued <= issued'
    BY <1>1, <2>1, IssuedGrows
  <2> QED
    BY <1>1, <2>2
<1>3. /\ OnlyOf(e) /\ EntryInv(e)' /\ TokenIsWanted'
      /\ store' = store \/ store' \in 0 .. issued'
  <2>1. CASE Look(e) \/ NothingToCarryOn(e) \/ Stop(e)
    BY <2>1, LookKeeps DEF Look, NothingToCarryOn, Stop
  <2>2. CASE CarryOn(e)
    BY <2>2, CarryOnKeeps DEF CarryOn
  <2>3. CASE Resumed(e)
    BY <2>3, ResumedKeeps DEF Resumed
  <2>4. CASE AfterResuming(e)
    BY <2>4, AfterResumingKeeps DEF AfterResuming
  <2>5. CASE Watch(e)
    BY <2>5, WatchKeeps DEF Watch
  <2>6. CASE Status(e)
    BY <2>6, StatusKeeps DEF Status
  <2>7. CASE Renewed(e)
    BY <2>7, RenewedKeeps DEF Renewed
  <2>8. CASE TakeKeep(e)
    BY <2>8, TakeKeepKeeps DEF TakeKeep
  <2>9. CASE Keep(e)
    BY <2>9, KeepKeeps
  <2>10. CASE TakeRejected(e)
    BY <2>10, TakeRejectedKeeps DEF TakeRejected
  <2>11. CASE Forget(e)
    BY <2>11, ForgetKeeps
  <2> QED
    BY <2>1, <2>2, <2>3, <2>4, <2>5, <2>6, <2>7, <2>8, <2>9, <2>10, <2>11
    DEF KeeperStep
<1>4. keeper[e].at # "off"
  BY DEF KeeperStep, Look, NothingToCarryOn, Stop, CarryOn, Resumed,
     AfterResuming, Watch, Status, Renewed, TakeKeep, Keep, TakeRejected, Forget
<1>5. SignTypes' /\ CallsAreOfTheirEntry'
  BY <1>1, <1>2, <1>3, <1>4, RestStays
<1>6. ASSUME NEW x \in Entries
      PROVE  EntryInv(x)'
  BY <1>1, <1>3, OthersStay DEF SignInv
<1> QED
  BY <1>3, <1>5, <1>6 DEF SignInv


-----------------------------------------------------------------------------
(* The other steps preserve the invariant.                                 *)

SameEntry(x) ==
  /\ keeper'[x] = keeper[x] /\ session'[x] = session[x]
  /\ number'[x] = number[x] /\ changes'[x] = changes[x]
  /\ (reaching'[x] <=> reaching[x]) /\ (turn'[x] <=> turn[x])

LEMMA EntryNumbers ==
  ASSUME SignInsAssumption, SignTypes
  PROVE  /\ added \in Nat /\ added \in added .. MaxEntries /\ entry \in Nat
         /\ entry <= added /\ MaxEntries \in Nat /\ added <= MaxEntries
         /\ person.e \in Nat /\ leaving.e \in Nat
<1>1. added \in 0 .. MaxEntries /\ entry \in 0 .. added
  BY DEF SignTypes
<1>2. MaxEntries \in Nat
  BY DEF SignInsAssumption
<1>3. person.e \in 0 .. MaxEntries /\ leaving.e \in 0 .. MaxEntries
  BY DEF SignTypes, PersonCalls, LeavingCalls
<1> QED
  BY <1>1, <1>2, <1>3

\* The calls go on wanting what they wanted of entry x, or of its session if
\* there is one.
CallsKeep(x) ==
  /\ SignedIn(x) \/ Pending(x) => (SignedIn(x) \/ Pending(x))'
  /\ session[x] # NoSession /\ (SignedIn(x) \/ SigningIn(x) \/ Pending(x)) =>
       (SignedIn(x) \/ SigningIn(x) \/ Pending(x))'
  /\ (person.at = "forget" /\ person.e = x) <=> (person.at = "forget" /\ person.e = x)'
  /\ (leaving.at = "forget" /\ leaving.e = x) <=> (leaving.at = "forget" /\ leaving.e = x)'

LEMMA EntryStays ==
  ASSUME SignInsAssumption, SignTypes, NEW x \in Entries, EntryInv(x),
         SameEntry(x), CallsKeep(x), issued' \in issued .. MaxTokens,
         accepted' = accepted, added' \in added .. MaxEntries
  PROVE  EntryInv(x)'
<1>1. /\ issued \in Nat /\ issued' \in Nat /\ issued <= issued'
      /\ session[x].token \in Nat /\ keeper[x].token \in Nat
  <2>1. session[x] \in Sessions /\ keeper[x] \in Keepers
    BY DEF SignTypes, EntryTypes
  <2> QED
    BY <2>1, IssuedGrows DEF Sessions, Keepers
<1>2. x > added' => x > added
  <2>1. added \in 0 .. MaxEntries /\ x \in 1 .. MaxEntries
    BY DEF SignTypes, Entries
  <2>2. MaxEntries \in Nat
    BY DEF SignInsAssumption
  <2> QED
    BY <2>1, <2>2
<1>3. Numbered(x)'
  BY <1>1 DEF EntryInv, Numbered, SameEntry
<1>4. Untouched(x)'
  BY <1>2 DEF EntryInv, Untouched, SameEntry
<1>5. TurnIsTaken(x)'
  BY DEF EntryInv, TurnIsTaken, SameEntry, CallsKeep
<1>6. IsWanted(x)'
  BY DEF EntryInv, IsWanted, Doomed, JustResumed, SameEntry, CallsKeep
<1>7. KeepsForASession(x)'
  BY DEF EntryInv, KeepsForASession, SameEntry
<1>8. JudgementHolds(x)'
  BY DEF EntryInv, JudgementHolds, Accepts, SameEntry
<1> QED
  BY <1>3, <1>4, <1>5, <1>6, <1>7, <1>8 DEF EntryInv

LEMMA SameArrays ==
  ASSUME EntryTypes, UNCHANGED <<catalogs, keepers>>
  PROVE  EntryTypes' /\ \A x \in Entries : SameEntry(x)
BY DEF EntryTypes, catalogs, keepers, SameEntry

LEMMA PersonGoes ==
  ASSUME SignTypes, person # NoCall,
         NEW at \in {"check", "tell", "save", "forget", "drop"},
         person' = [person EXCEPT !.at = at]
  PROVE  /\ person' \in PersonCalls /\ person'.at = at /\ person'.e = person.e
         /\ person.e \in Entries /\ person.e # 0
BY SignValues DEF SignTypes, PersonCalls

LEMMA LeavingGoes ==
  ASSUME SignTypes, leaving # NoCall, leaving' = [leaving EXCEPT !.at = "forget"]
  PROVE  /\ leaving' \in LeavingCalls /\ leaving'.at = "forget"
         /\ leaving'.e = leaving.e /\ leaving.e \in Entries /\ leaving.e # 0
BY SignValues DEF SignTypes, LeavingCalls

LEMMA NoCallTypes ==
  ASSUME SignInsAssumption
  PROVE  NoCall \in PersonCalls /\ NoCall \in LeavingCalls
BY DEF SignInsAssumption, NoCall, PersonCalls, LeavingCalls

LEMMA RevokeKeeps ==
  ASSUME SignInsAssumption, SignInv, Revoke
  PROVE  SignInv'
<1>1. SignTypes /\ CallsAreOfTheirEntry /\ TokenIsWanted
  BY DEF SignInv
<1>2. /\ accepted' = issued + 1
      /\ UNCHANGED <<issued, store, list, kept, catalogs, keepers, calls, faults>>
  BY DEF Revoke
<1>3. issued \in Nat /\ issued + 1 \in 1 .. issued + 1
  BY <1>1, Issued
<1>4. EntryTypes' /\ \A x \in Entries : SameEntry(x)
  BY <1>1, <1>2, SameArrays DEF SignTypes
<1>5. SignTypes'
  BY <1>1, <1>2, <1>3, <1>4 DEF SignTypes, list, calls
<1>6. CallsAreOfTheirEntry' /\ TokenIsWanted'
  BY <1>1, <1>2 DEF CallsAreOfTheirEntry, TokenIsWanted, SoonForgotten, SigningIn,
     JustResumed, list, calls, catalogs, keepers, faults
<1>7. ASSUME NEW x \in Entries
      PROVE  EntryInv(x)'
  <2>1. EntryInv(x) /\ SameEntry(x)
    BY <1>4 DEF SignInv
  <2>2. /\ issued' = issued /\ listed' = listed /\ entry' = entry /\ added' = added
        /\ person' = person /\ leaving' = leaving
    BY <1>2 DEF list, calls
  <2>3. /\ Numbered(x)' /\ Untouched(x)' /\ TurnIsTaken(x)' /\ IsWanted(x)'
        /\ KeepsForASession(x)'
    BY <2>1, <2>2 DEF EntryInv, SameEntry, Numbered, Untouched, TurnIsTaken, IsWanted,
       KeepsForASession, SignedIn, Pending, SigningIn, Doomed, JustResumed
  <2>4. JudgementHolds(x)'
    <3>1. session[x] \in Sessions /\ keeper[x] \in Keepers
      BY <1>1 DEF SignTypes, EntryTypes
    <3>2. session[x].token \in Nat /\ keeper[x].token \in Nat
      BY <3>1 DEF Sessions, Keepers
    <3>3. /\ ~Accepts(session[x].token)'
          /\ keeper[x].at = "renew" /\ keeper[x].ok => ~Accepts(keeper[x].token)'
      BY <1>2, <1>3, <2>1, <3>2 DEF EntryInv, Numbered, SameEntry, Accepts
    <3> QED
      BY <2>1, <3>3 DEF JudgementHolds, SameEntry
  <2> QED
    BY <2>3, <2>4 DEF EntryInv
<1> QED
  BY <1>5, <1>6, <1>7 DEF SignInv


LEMMA RefuseKeeps ==
  ASSUME SignInsAssumption, SignInv, NEW e \in Entries, Refuse(e)
  PROVE  SignInv'
<1>1. SignTypes /\ CallsAreOfTheirEntry /\ TokenIsWanted /\ EntryInv(e)
  BY DEF SignInv
<1>2. /\ session[e] # NoSession /\ ~Accepts(session[e].token)
      /\ session' = [session EXCEPT ![e].refused = TRUE]
      /\ UNCHANGED <<server, store, list, kept, number, keepers, calls, faults>>
  BY DEF Refuse
<1>3. session[e] \in Sessions
  BY <1>1 DEF SignTypes, EntryTypes
<1> DEFINE s == [session[e] EXCEPT !.refused = TRUE]
<1>4. s \in Sessions /\ s.n = session[e].n /\ s.token = session[e].token
  BY <1>3 DEF Sessions
<1>5. session' = [session EXCEPT ![e] = s]
  BY <1>1, <1>2 DEF SignTypes, EntryTypes
<1> HIDE DEF s
<1>6. /\ session' \in [Entries -> Sessions] /\ session'[e] = s
      /\ \A x \in Entries : x # e => session'[x] = session[x]
  BY <1>1, <1>4, <1>5 DEF SignTypes, EntryTypes
<1>7. EntryTypes' /\ \A x \in Entries : x # e => SameEntry(x)
  <2>1. UNCHANGED <<number, keepers>> /\ EntryTypes
    BY <1>1, <1>2 DEF SignTypes
  <2> QED
    BY <1>6, <2>1 DEF EntryTypes, keepers, SameEntry
<1>8. /\ issued' = issued /\ accepted' = accepted /\ listed' = listed
      /\ entry' = entry /\ added' = added /\ kept' = kept /\ store' = store
      /\ person' = person /\ leaving' = leaving /\ unforgotten' = unforgotten
      /\ UNCHANGED <<keeper, number, reaching, changes, turn>>
  BY <1>2 DEF server, list, calls, faults, keepers
<1>9. SignTypes' /\ CallsAreOfTheirEntry'
  BY <1>1, <1>7, <1>8 DEF SignTypes, CallsAreOfTheirEntry
<1>10. session[e].n > 0 /\ session[e].n \in Nat /\ session'[e] # NoSession
  BY <1>1, <1>2, <1>3, <1>4, <1>6, SignValues DEF EntryInv, Numbered, Sessions
<1>11. EntryInv(e)'
  <2>1. /\ session'[e].n = session[e].n /\ session'[e].token = session[e].token
    BY <1>4, <1>6
  <2>2. Numbered(e)' /\ Untouched(e)' /\ TurnIsTaken(e)' /\ KeepsForASession(e)'
    BY <1>1, <1>2, <1>8, <1>10, <2>1 DEF EntryInv, Numbered, Untouched, TurnIsTaken,
       KeepsForASession
  <2>3. IsWanted(e)'
    BY <1>1, <1>2, <1>8, <2>1 DEF EntryInv, IsWanted, SignedIn, Pending, SigningIn,
       Doomed, JustResumed
  <2>4. JudgementHolds(e)'
    BY <1>1, <1>2, <1>8, <2>1 DEF EntryInv, JudgementHolds, Accepts
  <2> QED
    BY <2>2, <2>3, <2>4 DEF EntryInv
<1>12. ASSUME NEW x \in Entries, x # e
       PROVE  EntryInv(x)'
  <2>1. EntryInv(x) /\ SameEntry(x)
    BY <1>7, <1>12 DEF SignInv
  <2>2. CallsKeep(x)
    BY <1>8 DEF CallsKeep, SignedIn, Pending, SigningIn
  <2>3. issued' \in issued .. MaxTokens /\ added' \in added .. MaxEntries
    BY <1>1, <1>8, EntryNumbers, Issued
  <2> QED
    BY <1>1, <1>8, <2>1, <2>2, <2>3, EntryStays
<1>13. TokenIsWanted'
  <2>1. ASSUME NEW x \in Entries, SoonForgotten(x)
        PROVE  SoonForgotten(x)'
    BY <1>4, <1>6, <1>8, <1>10, <2>1 DEF SoonForgotten, SigningIn, JustResumed
  <2> QED
    BY <1>1, <1>8, <2>1 DEF TokenIsWanted
<1> QED
  BY <1>9, <1>11, <1>12, <1>13 DEF SignInv

\* A step of the person that changes nothing of any entry.
LEMMA CallsChange ==
  ASSUME SignInsAssumption, SignInv, UNCHANGED <<server, kept, catalogs, keepers>>,
         \A x \in Entries : CallsKeep(x),
         store' \in {store, 0}, added' \in added .. MaxEntries,
         SignTypes', CallsAreOfTheirEntry', TokenIsWanted'
  PROVE  SignInv'
<1>1. SignTypes
  BY DEF SignInv
<1>2. EntryTypes' /\ \A x \in Entries : SameEntry(x)
  BY <1>1, SameArrays DEF SignTypes
<1>3. issued' \in issued .. MaxTokens /\ accepted' = accepted
  BY <1>1, Issued DEF server
<1>4. ASSUME NEW x \in Entries
      PROVE  EntryInv(x)'
  <2>1. EntryInv(x)
    BY DEF SignInv
  <2> QED
    BY <1>1, <1>2, <1>3, <2>1, EntryStays
<1> QED
  BY <1>4 DEF SignInv

LEMMA SignInKeeps ==
  ASSUME SignInsAssumption, SignInv, SignIn
  PROVE  SignInv'
<1>1. SignTypes /\ CallsAreOfTheirEntry /\ TokenIsWanted
  BY DEF SignInv
<1>2. /\ person = NoCall
      /\ UNCHANGED <<server, store, listed, entry, kept, catalogs, keepers, leaving,
                     faults>>
  BY DEF SignIn
<1>3. PICK e \in {entry, added + 1} :
        /\ person' = [at |-> "ask", e |-> e]
        /\ \/ entry # 0 /\ e = entry /\ added' = added
           \/ entry = 0 /\ e = added + 1 /\ added' = added + 1 /\ added < MaxEntries
  BY DEF SignIn
<1>4. /\ added \in Nat /\ added <= MaxEntries /\ MaxEntries \in Nat
      /\ entry \in Nat /\ entry <= added
  BY <1>1, EntryNumbers
<1>5. /\ e \in Entries /\ added' \in added .. MaxEntries /\ added' \in 0 .. MaxEntries
      /\ entry \in 0 .. added' /\ e <= added' /\ e # 0 /\ e \in 0 .. MaxEntries
  <2>1. CASE entry # 0 /\ e = entry /\ added' = added
    BY <1>4, <2>1 DEF Entries
  <2>2. CASE entry = 0 /\ e = added + 1 /\ added' = added + 1 /\ added < MaxEntries
    BY <1>4, <2>2 DEF Entries
  <2> QED
    BY <1>3, <2>1, <2>2
<1>6. person'.at = "ask" /\ person'.e = e /\ person' \in PersonCalls
  BY <1>3, <1>5 DEF PersonCalls
<1>7. SignTypes'
  <2>1. EntryTypes'
    BY <1>1, <1>2, SameArrays DEF SignTypes
  <2> QED
    BY <1>1, <1>2, <1>5, <1>6, <2>1 DEF SignTypes, server
<1>8. CallsAreOfTheirEntry'
  <2>1. leaving.e <= added'
    <3>1. leaving.e \in Nat /\ leaving.e <= added
      BY <1>1, EntryNumbers DEF CallsAreOfTheirEntry
    <3> QED
      BY <1>3, <1>4, <3>1
  <2>2. entry = 0 => keeper[e].at = "off"
    <3>1. EntryInv(e)
      BY <1>5 DEF SignInv
    <3> QED
      BY <1>3, <1>4, <3>1 DEF EntryInv, Untouched
  <2> QED
    BY <1>2, <1>3, <1>5, <1>6, <2>1, <2>2 DEF CallsAreOfTheirEntry, keepers
<1>9. \A x \in Entries : CallsKeep(x)
  BY <1>2, <1>6, SignValues DEF CallsKeep, SignedIn, Pending, SigningIn
<1>10. TokenIsWanted'
  BY <1>1, <1>2, <1>6, SignValues DEF TokenIsWanted, SoonForgotten, SigningIn,
     JustResumed, catalogs, keepers, faults
<1> QED
  BY <1>2, <1>5, <1>7, <1>8, <1>9, <1>10, CallsChange

LEMMA RemoveKeeps ==
  ASSUME SignInsAssumption, SignInv, Remove
  PROVE  SignInv'
<1>1. SignTypes /\ CallsAreOfTheirEntry /\ TokenIsWanted
  BY DEF SignInv
<1>2. /\ person = NoCall /\ entry # 0 /\ person' = [at |-> "leave", e |-> entry]
      /\ UNCHANGED <<server, store, list, kept, catalogs, keepers, leaving, faults>>
  BY DEF Remove
<1>3. entry \in 1 .. MaxEntries /\ entry <= added
  BY <1>1, <1>2, EntryNumbers
<1>4. person'.at = "leave" /\ person'.e = entry /\ person' \in PersonCalls
  BY <1>2, <1>3 DEF PersonCalls
<1>5. SignTypes'
  <2>1. EntryTypes'
    BY <1>1, <1>2, SameArrays DEF SignTypes
  <2> QED
    BY <1>1, <1>2, <1>3, <1>4, <2>1 DEF SignTypes, server, list, Entries
<1>6. CallsAreOfTheirEntry'
  BY <1>1, <1>2, <1>3, <1>4 DEF CallsAreOfTheirEntry, list
<1>7. \A x \in Entries : CallsKeep(x)
  BY <1>2, <1>4, SignValues DEF CallsKeep, SignedIn, Pending, SigningIn, list
<1>8. TokenIsWanted'
  BY <1>4 DEF TokenIsWanted
<1>9. added' \in added .. MaxEntries
  BY <1>1, <1>2, EntryNumbers DEF list
<1> QED
  BY <1>2, <1>5, <1>6, <1>7, <1>8, <1>9, CallsChange

LEMMA SignOutKeeps ==
  ASSUME SignInsAssumption, SignInv, SignOut
  PROVE  SignInv'
<1>1. SignTypes /\ CallsAreOfTheirEntry /\ TokenIsWanted
  BY DEF SignInv
<1>2. /\ leaving = NoCall /\ entry # 0 /\ leaving' = [at |-> "leave", e |-> entry]
      /\ listed' = "out"
      /\ UNCHANGED <<server, store, entry, added, kept, catalogs, keepers, person,
                     faults>>
  BY DEF SignOut
<1>3. entry \in 1 .. MaxEntries /\ entry <= added
  BY <1>1, <1>2, EntryNumbers
<1>4. leaving'.at = "leave" /\ leaving'.e = entry /\ leaving' \in LeavingCalls
  BY <1>2, <1>3 DEF LeavingCalls
<1>5. SignTypes'
  <2>1. EntryTypes'
    BY <1>1, <1>2, SameArrays DEF SignTypes
  <2> QED
    BY <1>1, <1>2, <1>3, <1>4, <2>1 DEF SignTypes, server, Entries
<1>6. CallsAreOfTheirEntry'
  BY <1>1, <1>2, <1>3, <1>4 DEF CallsAreOfTheirEntry, keepers
<1>7. \A x \in Entries : CallsKeep(x)
  BY <1>2, <1>4, SignValues DEF CallsKeep, SignedIn, Pending, SigningIn
<1>8. TokenIsWanted'
  BY <1>4 DEF TokenIsWanted
<1>9. added' \in added .. MaxEntries
  BY <1>1, <1>2, EntryNumbers
<1> QED
  BY <1>2, <1>5, <1>6, <1>7, <1>8, <1>9, CallsChange


LEMMA TakeLeaveDoes ==
  ASSUME SignInsAssumption, SignTypes, NEW call, call.e \in Entries, TakeLeave(call)
  PROVE  /\ EntryTypes' /\ call.at = "leave" /\ ~turn[call.e] /\ turn'[call.e]
         /\ \A x \in Entries : x # call.e => SameEntry(x)
         /\ session'[call.e] = NoSession /\ ~reaching'[call.e]
         /\ keeper' = keeper /\ number' = number
         /\ changes[call.e] \in Nat /\ changes'[call.e] = changes[call.e] + 1
         /\ UNCHANGED <<server, store, list, kept, number, keeper, acts, faults>>
<1> DEFINE e == call.e
<1>1. EntryTypes /\ e \in Entries
  BY DEF SignTypes
<1>2. /\ call.at = "leave" /\ ~turn[e]
      /\ changes' = [changes EXCEPT ![e] = @ + 1]
      /\ reaching' = [reaching EXCEPT ![e] = FALSE]
      /\ turn' = [turn EXCEPT ![e] = TRUE]
      /\ EndSession(e)
      /\ UNCHANGED <<server, store, list, kept, number, keeper, acts, faults>>
  BY DEF TakeLeave
<1> HIDE DEF e
<1>3. /\ session' \in [Entries -> Sessions] /\ session'[e] = NoSession
      /\ \A x \in Entries : x # e => session'[x] = session[x]
  BY <1>1, <1>2, SessionEnds
<1>4. /\ reaching' \in [Entries -> BOOLEAN] /\ ~reaching'[e]
      /\ \A x \in Entries : x # e => reaching'[x] = reaching[x]
  BY <1>1, <1>2, SetsOne DEF EntryTypes
<1>5. /\ turn' \in [Entries -> BOOLEAN] /\ turn'[e]
      /\ \A x \in Entries : x # e => turn'[x] = turn[x]
  BY <1>1, <1>2, SetsOne DEF EntryTypes
<1>6. /\ changes[e] \in Nat /\ changes' \in [Entries -> Nat]
      /\ changes'[e] = changes[e] + 1
      /\ \A x \in Entries : x # e => changes'[x] = changes[x]
  <2>1. changes[e] \in Nat /\ changes[e] + 1 \in Nat
    BY <1>1 DEF EntryTypes
  <2> QED
    BY <1>1, <1>2, <2>1 DEF EntryTypes
<1>7. EntryTypes'
  BY <1>1, <1>2, <1>3, <1>4, <1>5, <1>6, SameTypes DEF EntryTypes
<1>8. \A x \in Entries : x # e => SameEntry(x)
  BY <1>2, <1>3, <1>4, <1>5, <1>6 DEF SameEntry
<1> QED
  BY <1>2, <1>3, <1>4, <1>5, <1>6, <1>7, <1>8 DEF e

\* Taking the turn to leave: signing out, or removing the team.
LEMMA TakeLeaveKeeps ==
  ASSUME SignInsAssumption, SignInv, NEW call \in {person, leaving},
         call # NoCall, TakeLeave(call),
         \/ /\ call = person /\ person' = [person EXCEPT !.at = "forget"]
            /\ UNCHANGED leaving
         \/ /\ call = leaving /\ leaving' = [leaving EXCEPT !.at = "forget"]
            /\ UNCHANGED person
  PROVE  SignInv'
<1>1. SignTypes /\ CallsAreOfTheirEntry
  BY DEF SignInv
<1>2. call.e \in Entries
  <2>1. /\ person # NoCall => person.e \in Entries
        /\ leaving # NoCall => leaving.e \in Entries
    BY <1>1 DEF SignTypes
  <2> QED
    BY <2>1
<1> DEFINE e == call.e
<1>3. /\ EntryTypes' /\ call.at = "leave" /\ ~turn[e] /\ turn'[e]
      /\ \A x \in Entries : x # e => SameEntry(x)
      /\ session'[e] = NoSession /\ ~reaching'[e]
      /\ keeper' = keeper /\ number' = number
      /\ changes[e] \in Nat /\ changes'[e] = changes[e] + 1
      /\ UNCHANGED <<server, store, list, kept, number, keeper, acts, faults>>
  BY <1>1, <1>2, TakeLeaveDoes
<1>4. /\ issued' = issued /\ accepted' = accepted /\ listed' = listed
      /\ entry' = entry /\ added' = added /\ kept' = kept /\ store' = store
      /\ unforgotten' = unforgotten
  BY <1>3 DEF server, list, faults
<1>5. \/ /\ call = person /\ person' \in PersonCalls /\ person'.at = "forget"
         /\ person'.e = e /\ leaving' = leaving
      \/ /\ call = leaving /\ leaving' \in LeavingCalls /\ leaving'.at = "forget"
         /\ leaving'.e = e /\ person' = person
  BY <1>1, PersonGoes, LeavingGoes
<1> e \in Entries
  BY <1>2
<1>6. call.at = "leave"
  BY <1>3
<1> HIDE DEF e
<1>7. SignTypes'
  BY <1>1, <1>2, <1>3, <1>4, <1>5 DEF SignTypes
<1>8. CallsAreOfTheirEntry'
  BY <1>1, <1>3, <1>4, <1>5, <1>6 DEF CallsAreOfTheirEntry, e
<1>9. EntryInv(e)'
  <2>1. EntryInv(e)
    BY DEF SignInv
  <2>2. Numbered(e)'
    <3>1. keeper[e] \in Keepers
      BY <1>1 DEF SignTypes, EntryTypes
    <3>2. keeper[e].seen \in Nat /\ issued \in Nat
      BY <1>1, <3>1, Issued DEF Keepers
    <3> QED
      BY <1>3, <1>4, <2>1, <3>2, SignValues DEF EntryInv, Numbered
  <2>3. Untouched(e)'
    BY <1>3, <1>4, <2>1 DEF EntryInv, Untouched
  <2>4. TurnIsTaken(e)'
    <3>1. /\ keeper[e].at \notin {"keeping", "forget"}
          /\ ~(person.at = "forget" /\ person.e = e)
          /\ ~(leaving.at = "forget" /\ leaving.e = e)
      BY <1>3, <2>1 DEF EntryInv, TurnIsTaken
    <3>2. \/ /\ person'.at = "forget" /\ person'.e = e
             /\ ~(leaving'.at = "forget" /\ leaving'.e = e)
          \/ /\ leaving'.at = "forget" /\ leaving'.e = e
             /\ ~(person'.at = "forget" /\ person'.e = e)
      BY <1>5, <3>1
    <3> QED
      BY <1>3, <3>1, <3>2 DEF TurnIsTaken
  <2>5. IsWanted(e)'
    <3>1. keeper[e] \in Keepers
      BY <1>1 DEF SignTypes, EntryTypes
    <3>2. keeper[e].seen \in Nat /\ keeper[e].seen <= changes[e]
      BY <2>1, <3>1 DEF EntryInv, Numbered, Keepers
    <3>3. changes'[e] > keeper'[e].seen
      BY <1>3, <3>2
    <3> QED
      BY <1>3, <3>3 DEF IsWanted
  <2>6. KeepsForASession(e)'
    BY <1>3, <2>1 DEF EntryInv, KeepsForASession, TurnIsTaken
  <2>7. JudgementHolds(e)'
    <3>1. keeper[e].at = "renew" => session'[e].n # keeper[e].asked
      BY <1>3, <2>1, SignValues DEF EntryInv, Numbered
    <3> QED
      BY <1>3, <3>1, SignValues DEF JudgementHolds
  <2> QED
    BY <2>2, <2>3, <2>4, <2>5, <2>6, <2>7 DEF EntryInv
<1>10. ASSUME NEW x \in Entries, x # e
       PROVE  EntryInv(x)'
  <2>1. EntryInv(x) /\ SameEntry(x)
    BY <1>3, <1>10 DEF SignInv
  <2>2. CallsKeep(x)
    BY <1>4, <1>5, <1>6, <1>10, <2>1 DEF CallsKeep, SignedIn, Pending, SigningIn, e
  <2>3. issued' \in issued .. MaxTokens /\ added' \in added .. MaxEntries
    BY <1>1, <1>4, EntryNumbers, Issued
  <2> QED
    BY <1>1, <1>4, <2>1, <2>2, <2>3, EntryStays
<1>11. TokenIsWanted'
  BY <1>5 DEF TokenIsWanted
<1> QED
  BY <1>7, <1>8, <1>9, <1>10, <1>11 DEF SignInv

\* The store has forgotten the token, or could not be reached, and the turn
\* is over.
LEMMA LeaveStoreKeeps ==
  ASSUME SignInsAssumption, SignInv, NEW call \in {person, leaving},
         call # NoCall, LeaveStore(call), UNCHANGED list,
         \/ /\ call = person /\ person' = [person EXCEPT !.at = "drop"]
            /\ UNCHANGED leaving
         \/ call = leaving /\ leaving' = NoCall /\ UNCHANGED person
  PROVE  SignInv'
<1>1. SignTypes /\ CallsAreOfTheirEntry
  BY DEF SignInv
<1>2. call.e \in Entries
  <2>1. /\ person # NoCall => person.e \in Entries
        /\ leaving # NoCall => leaving.e \in Entries
    BY <1>1 DEF SignTypes
  <2> QED
    BY <2>1
<1> DEFINE e == call.e
<1>3. /\ call.at = "forget" /\ store' \in {store, 0}
      /\ (unforgotten' <=> store' # 0)
      /\ turn' = [turn EXCEPT ![e] = FALSE]
      /\ UNCHANGED <<server, kept, catalogs, keeper, reaching, changes, acts,
                     crashes>>
  BY DEF LeaveStore
<1>4. e \in Entries
  BY <1>2
<1>5. /\ issued' = issued /\ accepted' = accepted /\ listed' = listed
      /\ entry' = entry /\ added' = added /\ kept' = kept
      /\ session' = session /\ number' = number /\ keeper' = keeper
      /\ reaching' = reaching /\ changes' = changes
  BY <1>3 DEF server, list, catalogs
<1>6. \/ /\ call = person /\ person' \in PersonCalls /\ person'.at = "drop"
         /\ person'.e = e /\ leaving' = leaving
      \/ call = leaving /\ leaving' = NoCall /\ person' = person
  BY <1>1, PersonGoes
<1>7. call.at = "forget"
  BY <1>3
<1> HIDE DEF e
<1>8. /\ turn' \in [Entries -> BOOLEAN] /\ ~turn'[e]
      /\ \A x \in Entries : x # e => turn'[x] = turn[x]
  BY <1>1, <1>3, <1>4, SetsOne DEF SignTypes, EntryTypes
<1>9. EntryTypes' /\ \A x \in Entries : x # e => SameEntry(x)
  BY <1>1, <1>5, <1>8 DEF SignTypes, EntryTypes, SameEntry
<1>10. SignTypes'
  <2>1. store' \in 0 .. issued'
    <3>1. store \in 0 .. issued /\ issued \in Nat
      BY <1>1, Issued DEF SignTypes
    <3> QED
      BY <1>3, <1>5, <3>1
  <2> QED
    BY <1>1, <1>4, <1>5, <1>6, <1>9, <2>1, NoCallTypes DEF SignTypes
<1>11. CallsAreOfTheirEntry'
  <2>1. NoCall.e <= added
    BY <1>1, EntryNumbers, SignValues
  <2> QED
    BY <1>1, <1>5, <1>6, <1>7, <2>1 DEF CallsAreOfTheirEntry, e
<1>12. EntryInv(e)'
  <2>1. EntryInv(e)
    BY <1>4 DEF SignInv
  <2>2. Numbered(e)' /\ Untouched(e)' /\ KeepsForASession(e)' /\ JudgementHolds(e)'
    BY <1>5, <2>1 DEF EntryInv, Numbered, Untouched, KeepsForASession,
       JudgementHolds, Accepts
  <2>3. TurnIsTaken(e)'
    <3>1. /\ keeper[e].at \notin {"keeping", "forget"}
          /\ call = person => ~(leaving.at = "forget" /\ leaving.e = e)
          /\ call = leaving => ~(person.at = "forget" /\ person.e = e)
      BY <1>7, <2>1 DEF EntryInv, TurnIsTaken, e
    <3>2. /\ ~(leaving'.at = "forget" /\ leaving'.e = e)
          /\ ~(person'.at = "forget" /\ person'.e = e)
      BY <1>6, <3>1, SignValues
    <3> QED
      BY <1>5, <1>8, <3>1, <3>2 DEF TurnIsTaken
  <2>4. IsWanted(e)'
    <3>1. /\ (SignedIn(e) => SignedIn(e)') /\ (Pending(e) => Pending(e)')
          /\ (SigningIn(e) => SigningIn(e)')
      BY <1>5, <1>6, <1>7 DEF SignedIn, Pending, SigningIn, e
    <3> QED
      BY <1>5, <2>1, <3>1 DEF EntryInv, IsWanted, Doomed, JustResumed
  <2> QED
    BY <2>2, <2>3, <2>4 DEF EntryInv
<1>13. ASSUME NEW x \in Entries, x # e
       PROVE  EntryInv(x)'
  <2>1. EntryInv(x) /\ SameEntry(x)
    BY <1>9, <1>13 DEF SignInv
  <2>2. CallsKeep(x)
    BY <1>5, <1>6, <1>7, <1>13, SignValues DEF CallsKeep, SignedIn, Pending, SigningIn, e
  <2>3. issued' \in issued .. MaxTokens /\ added' \in added .. MaxEntries
    BY <1>1, <1>5, EntryNumbers, Issued
  <2> QED
    BY <1>1, <1>5, <2>1, <2>2, <2>3, EntryStays
<1>14. TokenIsWanted'
  BY <1>3 DEF TokenIsWanted
<1> QED
  BY <1>10, <1>11, <1>12, <1>13, <1>14 DEF SignInv


\* A sign-in that failed, or whose session ended before it was saved: the
\* call ends.
LEMMA CallEnds ==
  ASSUME SignInsAssumption, SignInv, UNCHANGED <<server, store, list, kept, catalogs,
         keepers, leaving>>, (unforgotten' <=> unforgotten),
         person # NoCall, person' = NoCall,
         \/ person.at = "ask"
         \/ person.at = "check" /\ session[person.e] = NoSession
  PROVE  SignInv'
<1>1. SignTypes /\ CallsAreOfTheirEntry /\ TokenIsWanted
  BY DEF SignInv
<1>2. SignTypes'
  <2>1. EntryTypes'
    BY <1>1, SameArrays DEF SignTypes
  <2> QED
    BY <1>1, <2>1, NoCallTypes DEF SignTypes, server, list
<1>3. CallsAreOfTheirEntry'
  <2>1. NoCall.e <= added
    BY <1>1, EntryNumbers, SignValues
  <2> QED
    BY <1>1, <2>1, SignValues DEF CallsAreOfTheirEntry, list
<1>4. \A x \in Entries : CallsKeep(x)
  BY SignValues DEF CallsKeep, SignedIn, Pending, SigningIn, list
<1>5. TokenIsWanted'
  <2>1. /\ listed' = listed /\ store' = store /\ keeper' = keeper
        /\ session' = session /\ leaving' = leaving
    BY DEF list, catalogs, keepers
  <2>2. ASSUME NEW x \in Entries, SoonForgotten(x)
        PROVE  SoonForgotten(x)'
    BY <2>1, <2>2 DEF SoonForgotten, SigningIn
  <2> QED
    BY <1>1, <2>1, <2>2, SignValues DEF TokenIsWanted
<1>6. added' \in added .. MaxEntries
  BY <1>1, EntryNumbers DEF list
<1> QED
  BY <1>2, <1>3, <1>4, <1>5, <1>6, CallsChange

LEMMA TrySignInKeeps ==
  ASSUME SignInsAssumption, SignInv, TrySignIn
  PROVE  SignInv'
<1>1. SignTypes /\ CallsAreOfTheirEntry /\ TokenIsWanted
  BY DEF SignInv
<1>2. /\ person.at = "ask"
      /\ UNCHANGED <<accepted, store, list, kept, keepers, leaving, acts, crashes,
                     unforgotten, forgotOther>>
  BY DEF TrySignIn
<1>3. person # NoCall /\ person.e \in Entries
  BY <1>1, <1>2, SignValues DEF SignTypes
<1>4. CASE person' = NoCall /\ UNCHANGED <<issued, catalogs>>
  BY <1>2, <1>3, <1>4, CallEnds DEF server
<1>5. PICK e \in Entries : e = person.e
  BY <1>3
<1>6. CASE /\ issued < MaxTokens /\ issued' = issued + 1
           /\ NewSession(person.e, issued + 1)
           /\ person' = [person EXCEPT !.at = "check"]
  <2>1. /\ issued + 1 \in Nat /\ issued \in Nat /\ issued' \in issued .. MaxTokens
        /\ issued' = issued + 1
    BY <1>1, <1>6, Issued DEF SignInsAssumption
  <2>2. EntryTypes /\ e \in Entries /\ NewSession(e, issued + 1)
    BY <1>1, <1>5, <1>6, Issued
  <2>3. /\ person' \in PersonCalls /\ person'.at = "check" /\ person'.e = e
    BY <1>1, <1>3, <1>5, <1>6, PersonGoes
  <2>4. e = person.e
    BY <1>5
  <2>5. /\ session' \in [Entries -> Sessions] /\ number' \in [Entries -> Nat]
        /\ number[e] \in Nat /\ number'[e] = number[e] + 1
        /\ session'[e].n = number[e] + 1 /\ session'[e].token = issued + 1
        /\ session'[e].refused = FALSE
        /\ \A x \in Entries :
             x # e => session'[x] = session[x] /\ number'[x] = number[x]
    BY <2>1, <2>2, SessionStarts
  <2>6. /\ accepted' = accepted /\ store' = store /\ listed' = listed /\ entry' = entry
        /\ added' = added /\ kept' = kept /\ keeper' = keeper /\ reaching' = reaching
        /\ changes' = changes /\ turn' = turn /\ leaving' = leaving
        /\ unforgotten' = unforgotten
    BY <1>2 DEF list, keepers
  <2>7. EntryTypes' /\ \A x \in Entries : x # e => SameEntry(x)
    BY <2>2, <2>5, <2>6 DEF EntryTypes, SameEntry
  <2>8. SignTypes'
    <3>1. issued' \in 0 .. MaxTokens /\ accepted \in 1 .. issued' + 1
      BY <1>1, <2>1, IssuedGrows
    <3>2. store \in 0 .. issued'
      <4>1. store \in 0 .. issued
        BY <1>1 DEF SignTypes
      <4> QED
        BY <2>1, <4>1
    <3> QED
      BY <1>1, <2>2, <2>3, <2>6, <2>7, <3>1, <3>2, SignValues DEF SignTypes
  <2>9. CallsAreOfTheirEntry'
    BY <1>1, <1>2, <2>3, <2>4, <2>6 DEF CallsAreOfTheirEntry
  <2>10. EntryInv(e)'
    <3>1. EntryInv(e)
      BY <2>2 DEF SignInv
    <3>2. keeper[e] \in Keepers
      BY <2>2 DEF EntryTypes
    <3>3. /\ keeper[e].n \in Nat /\ keeper[e].asked \in Nat
          /\ keeper[e].token \in Nat
      BY <3>2 DEF Keepers
    <3>4. /\ keeper[e].n < number[e] + 1 /\ keeper[e].asked < number[e] + 1
          /\ number[e] + 1 > 0
      BY <2>5, <3>1, <3>3 DEF EntryInv, Numbered
    <3>5. Numbered(e)'
      <4>1. /\ keeper[e].n <= number[e] + 1 /\ keeper[e].asked <= number[e] + 1
            /\ keeper[e].token <= issued => keeper[e].token <= issued + 1
            /\ issued + 1 <= issued + 1
        BY <2>1, <2>5, <3>3, <3>4
      <4> QED
        BY <2>1, <2>5, <2>6, <3>1, <3>4, <4>1 DEF EntryInv, Numbered
    <3>6. Untouched(e)'
      <4>1. e <= added /\ added \in Nat /\ e \in Nat
        BY <1>1, <2>4, EntryNumbers DEF CallsAreOfTheirEntry
      <4> QED
        BY <2>6, <4>1 DEF Untouched
    <3>7. TurnIsTaken(e)'
      BY <1>2, <2>3, <2>4, <2>6, <3>1 DEF EntryInv, TurnIsTaken
    <3>8. IsWanted(e)'
      BY <1>2, <2>3, <2>4, <2>6, <3>1 DEF EntryInv, IsWanted, SignedIn, Pending,
         SigningIn
    <3>9. KeepsForASession(e)'
      <4>1. NoSession.n # number[e] + 1
        BY <2>5, SignValues
      <4> QED
        BY <2>5, <4>1 DEF KeepsForASession
    <3>10. JudgementHolds(e)'
      BY <2>5, <2>6, <3>3, <3>4 DEF JudgementHolds
    <3> QED
      BY <3>5, <3>6, <3>7, <3>8, <3>9, <3>10 DEF EntryInv
  <2>11. ASSUME NEW x \in Entries, x # e
         PROVE  EntryInv(x)'
    <3>1. EntryInv(x) /\ SameEntry(x)
      BY <2>7, <2>11 DEF SignInv
    <3>2. CallsKeep(x)
      BY <1>2, <2>3, <2>4, <2>6, <2>11 DEF CallsKeep, SignedIn, Pending, SigningIn
    <3>3. added' \in added .. MaxEntries
      BY <1>1, <2>6, EntryNumbers
    <3> QED
      BY <1>1, <2>1, <2>6, <3>1, <3>2, <3>3, EntryStays
  <2>12. TokenIsWanted'
    <3>1. ASSUME NEW x \in Entries, SoonForgotten(x)
          PROVE  SoonForgotten(x)'
      BY <1>2, <2>6, <3>1 DEF SoonForgotten, SigningIn
    <3> QED
      BY <1>1, <1>2, <2>3, <2>6, <3>1 DEF TokenIsWanted
  <2> QED
    BY <2>8, <2>9, <2>10, <2>11, <2>12 DEF SignInv
<1> QED
  BY <1>4, <1>6 DEF TrySignIn

LEMMA CheckSignInKeeps ==
  ASSUME SignInsAssumption, SignInv, CheckSignIn
  PROVE  SignInv'
<1>1. SignTypes /\ CallsAreOfTheirEntry /\ TokenIsWanted
  BY DEF SignInv
<1>2. /\ person.at = "check"
      /\ UNCHANGED <<server, store, list, kept, catalogs, keepers, leaving, acts,
                     faults>>
  BY DEF CheckSignIn
<1>3. person # NoCall /\ person.e \in Entries
  BY <1>1, <1>2, SignValues DEF SignTypes
<1>4. CASE session[person.e] = NoSession
  BY <1>2, <1>3, <1>4, CallEnds DEF CheckSignIn, faults
<1>5. CASE session[person.e] # NoSession
  <2>1. PICK at \in {"tell", "save"} : person' = [person EXCEPT !.at = at]
    BY <1>5 DEF CheckSignIn
  <2>2. /\ person' \in PersonCalls /\ person'.at \in {"tell", "save"}
        /\ person'.e = person.e
    BY <1>1, <1>3, <2>1, PersonGoes
  <2>3. SignTypes'
    <3>1. EntryTypes'
      BY <1>1, <1>2, SameArrays DEF SignTypes
    <3> QED
      BY <1>1, <1>2, <1>3, <2>2, <3>1 DEF SignTypes, server, list
  <2>4. CallsAreOfTheirEntry'
    BY <1>1, <1>2, <2>2 DEF CallsAreOfTheirEntry, list, keepers
  <2>5. \A x \in Entries : CallsKeep(x)
    BY <1>2, <2>2 DEF CallsKeep, SignedIn, Pending, SigningIn, list
  <2>6. TokenIsWanted'
    <3>1. /\ listed' = listed /\ store' = store /\ keeper' = keeper
          /\ session' = session /\ leaving' = leaving /\ unforgotten' = unforgotten
      BY <1>2 DEF list, catalogs, keepers, faults
    <3>2. ASSUME NEW x \in Entries, SoonForgotten(x)
          PROVE  SoonForgotten(x)'
      BY <1>2, <2>2, <3>1, <3>2 DEF SoonForgotten, SigningIn, JustResumed
    <3> QED
      BY <1>1, <1>2, <2>2, <3>1, <3>2 DEF TokenIsWanted
  <2>7. added' \in added .. MaxEntries
    BY <1>1, <1>2, EntryNumbers DEF list
  <2> QED
    BY <1>2, <2>3, <2>4, <2>5, <2>6, <2>7, CallsChange
<1> QED
  BY <1>4, <1>5


LEMMA TellKeeperKeeps ==
  ASSUME SignInsAssumption, SignInv, TellKeeper
  PROVE  SignInv'
<1>1. SignTypes /\ CallsAreOfTheirEntry /\ TokenIsWanted
  BY DEF SignInv
<1>2. /\ person.at = "tell"
      /\ changes' = [changes EXCEPT ![person.e] = @ + 1]
      /\ reaching' = [reaching EXCEPT ![person.e] = FALSE]
      /\ person' = [person EXCEPT !.at = "save"]
      /\ UNCHANGED <<server, store, list, kept, catalogs, keeper, turn, leaving,
                     acts, faults>>
  BY DEF TellKeeper
<1>3. person # NoCall /\ person.e \in Entries
  BY <1>1, <1>2, SignValues DEF SignTypes
<1>4. PICK e \in Entries : e = person.e
  BY <1>3
<1>5. /\ person' \in PersonCalls /\ person'.at = "save" /\ person'.e = e
  BY <1>1, <1>2, <1>3, <1>4, PersonGoes
<1>6. /\ issued' = issued /\ accepted' = accepted /\ store' = store /\ listed' = listed
      /\ entry' = entry /\ added' = added /\ kept' = kept /\ keeper' = keeper
      /\ session' = session /\ number' = number /\ turn' = turn
      /\ leaving' = leaving /\ unforgotten' = unforgotten
  BY <1>2 DEF server, list, catalogs, faults
<1>7. /\ reaching' \in [Entries -> BOOLEAN] /\ ~reaching'[e]
      /\ \A x \in Entries : x # e => reaching'[x] = reaching[x]
  BY <1>1, <1>2, <1>4, SetsOne DEF SignTypes, EntryTypes
<1>8. /\ changes[e] \in Nat /\ changes' \in [Entries -> Nat]
      /\ changes'[e] = changes[e] + 1
      /\ \A x \in Entries : x # e => changes'[x] = changes[x]
  <2>1. changes \in [Entries -> Nat]
    BY <1>1 DEF SignTypes, EntryTypes
  <2>2. changes[e] \in Nat /\ changes[e] + 1 \in Nat
    BY <2>1
  <2>3. changes' = [changes EXCEPT ![e] = @ + 1]
    BY <1>2, <1>4
  <2> QED
    BY <2>1, <2>2, <2>3
<1>9. EntryTypes' /\ \A x \in Entries : x # e => SameEntry(x)
  BY <1>1, <1>6, <1>7, <1>8 DEF SignTypes, EntryTypes, SameEntry
<1>10. SignTypes' /\ CallsAreOfTheirEntry'
  <2>1. SignTypes'
    BY <1>1, <1>4, <1>5, <1>6, <1>9, SignValues DEF SignTypes
  <2>2. CallsAreOfTheirEntry'
    BY <1>1, <1>2, <1>4, <1>5, <1>6 DEF CallsAreOfTheirEntry
  <2> QED
    BY <2>1, <2>2
<1>11. EntryInv(e)'
  <2>1. EntryInv(e)
    BY DEF SignInv
  <2>2. keeper[e].seen \in Nat /\ keeper[e].seen <= changes[e]
    <3>1. keeper[e] \in Keepers
      BY <1>1 DEF SignTypes, EntryTypes
    <3> QED
      BY <2>1, <3>1 DEF EntryInv, Numbered, Keepers
  <2>3. /\ keeper[e].seen <= changes[e] + 1 /\ changes[e] + 1 > keeper[e].seen
    BY <1>8, <2>2
  <2>4. Numbered(e)'
    BY <1>6, <1>8, <2>1, <2>3 DEF EntryInv, Numbered
  <2>5. Untouched(e)' /\ KeepsForASession(e)' /\ JudgementHolds(e)'
    BY <1>6, <1>7, <2>1 DEF EntryInv, Untouched, KeepsForASession, JudgementHolds,
       Accepts
  <2>6. TurnIsTaken(e)'
    BY <1>2, <1>4, <1>5, <1>6, <2>1 DEF EntryInv, TurnIsTaken
  <2>7. IsWanted(e)'
    BY <1>5, <1>6, <1>7, <1>8, <2>1, <2>3 DEF EntryInv, IsWanted, SignedIn,
       SigningIn, Pending
  <2> QED
    BY <2>4, <2>5, <2>6, <2>7 DEF EntryInv
<1>12. ASSUME NEW x \in Entries, x # e
       PROVE  EntryInv(x)'
  <2>1. EntryInv(x) /\ SameEntry(x)
    BY <1>9, <1>12 DEF SignInv
  <2>2. CallsKeep(x)
    BY <1>2, <1>4, <1>5, <1>6, <1>12 DEF CallsKeep, SignedIn, Pending, SigningIn
  <2>3. issued' \in issued .. MaxTokens /\ added' \in added .. MaxEntries
    BY <1>1, <1>6, EntryNumbers, Issued
  <2> QED
    BY <1>1, <1>6, <2>1, <2>2, <2>3, EntryStays
<1>13. TokenIsWanted'
  <2>1. ASSUME NEW x \in Entries, SoonForgotten(x)
        PROVE  SoonForgotten(x)'
    BY <1>2, <1>4, <1>5, <1>6, <2>1 DEF SoonForgotten, SigningIn, JustResumed
  <2> QED
    BY <1>1, <1>2, <1>5, <1>6, <2>1 DEF TokenIsWanted
<1> QED
  BY <1>10, <1>11, <1>12, <1>13 DEF SignInv

LEMMA SaveSignInKeeps ==
  ASSUME SignInsAssumption, SignInv, SaveSignIn
  PROVE  SignInv'
<1>1. SignTypes /\ CallsAreOfTheirEntry /\ TokenIsWanted
  BY DEF SignInv
<1>2. /\ person.at = "save" /\ listed' = "in" /\ entry' = person.e
      /\ person' = NoCall
      /\ UNCHANGED <<server, store, added, kept, catalogs, reaching, changes, turn,
                     leaving, acts, faults>>
  BY DEF SaveSignIn
<1>3. person # NoCall /\ person.e \in Entries
  BY <1>1, <1>2, SignValues DEF SignTypes
<1>4. PICK e \in Entries : e = person.e
  BY <1>3
<1>5. EntryTypes /\ EntryInv(e) /\ e <= added /\ e # 0
  BY <1>1, <1>4, SignValues DEF SignTypes, SignInv, CallsAreOfTheirEntry
<1>6. /\ issued' = issued /\ accepted' = accepted /\ store' = store
      /\ added' = added /\ kept' = kept /\ reaching' = reaching
      /\ session' = session /\ number' = number /\ turn' = turn
      /\ changes' = changes /\ leaving' = leaving /\ unforgotten' = unforgotten
  BY <1>2 DEF server, catalogs, faults
\* The keeper of a new entry was off until now.
<1>7. /\ keeper' \in [Entries -> Keepers]
      /\ \A x \in Entries : x # e => keeper'[x] = keeper[x]
      /\ SameRead(e)
      /\ keeper'[e].at = keeper[e].at
           \/ (keeper[e].at = "off" /\ keeper'[e].at = "loop")
  <2>1. CASE entry = 0
    <3>1. Goes(e, "loop") /\ keeper[e].at = "off"
      BY <1>1, <1>2, <1>4, <2>1 DEF SaveSignIn, CallsAreOfTheirEntry
    <3> QED
      BY <1>5, <3>1, GoesTo
  <2>2. CASE entry # 0
    <3>1. UNCHANGED keeper
      BY <2>2 DEF SaveSignIn
    <3> QED
      BY <1>5, <3>1 DEF EntryTypes, SameRead
  <2> QED
    BY <2>1, <2>2
<1>8. EntryTypes' /\ \A x \in Entries : x # e => SameEntry(x)
  BY <1>5, <1>6, <1>7 DEF EntryTypes, SameEntry
<1>9. SignTypes'
  <2>1. e \in 0 .. added
    <3>1. added \in Nat /\ e \in Nat
      BY <1>1, <1>4, EntryNumbers
    <3> QED
      BY <1>5, <3>1
  <2> QED
    BY <1>1, <1>2, <1>4, <1>5, <1>6, <1>8, <2>1, NoCallTypes DEF SignTypes
<1>10. CallsAreOfTheirEntry'
  <2>1. NoCall.e <= added
    BY <1>1, EntryNumbers, SignValues
  <2> QED
    BY <1>1, <1>2, <1>6, <2>1, SignValues DEF CallsAreOfTheirEntry
\* The session that was being signed in to is signed in to.
<1>11. ASSUME NEW x \in Entries
       PROVE  CallsKeep(x)
  <2>1. SignedIn(x) => SignedIn(x)'
    BY <1>1, <1>2, <1>3, SignValues DEF SignedIn, CallsAreOfTheirEntry
  <2>2. SigningIn(x) => SignedIn(x)'
    BY <1>2, SignValues DEF SignedIn, SigningIn
  <2>3. Pending(x) => Pending(x)'
    BY <1>2, <1>6 DEF Pending
  <2> QED
    BY <1>2, <1>6, <2>1, <2>2, <2>3, SignValues DEF CallsKeep
<1>12. ASSUME NEW x \in Entries, x # e
       PROVE  EntryInv(x)'
  <2>1. EntryInv(x) /\ SameEntry(x)
    BY <1>8, <1>12 DEF SignInv
  <2>2. issued' \in issued .. MaxTokens /\ added' \in added .. MaxEntries
    BY <1>1, <1>6, EntryNumbers, Issued
  <2> QED
    BY <1>1, <1>6, <1>11, <2>1, <2>2, EntryStays
<1>13. EntryInv(e)'
  <2>1. CallsKeep(e)
    BY <1>11
  <2>2. Numbered(e)' /\ KeepsForASession(e)' /\ JudgementHolds(e)'
    BY <1>5, <1>6, <1>7 DEF EntryInv, Numbered, KeepsForASession, JudgementHolds,
       Accepts, SameRead
  <2>3. Untouched(e)'
    <3>1. added \in Nat /\ e \in Nat
      BY <1>1, <1>4, EntryNumbers
    <3> QED
      BY <1>5, <1>6, <3>1 DEF Untouched
  <2>4. TurnIsTaken(e)'
    BY <1>5, <1>6, <1>7, <2>1 DEF EntryInv, TurnIsTaken, CallsKeep
  <2>5. IsWanted(e)'
    BY <1>5, <1>6, <1>7, <2>1 DEF EntryInv, IsWanted, Doomed, JustResumed, SameRead,
       CallsKeep
  <2> QED
    BY <2>2, <2>3, <2>4, <2>5 DEF EntryInv
<1>14. TokenIsWanted'
  BY <1>2, SignValues DEF TokenIsWanted
<1> QED
  BY <1>9, <1>10, <1>12, <1>13, <1>14 DEF SignInv

\* The team leaves the list: its entry has no session that anyone wants.
LEMMA DropKeeps ==
  ASSUME SignInsAssumption, SignInv, person.at = "drop",
         listed' = "absent", entry' = 0, person' = NoCall,
         UNCHANGED <<server, store, added, kept, catalogs, keepers, leaving, acts,
                     faults>>
  PROVE  SignInv'
<1>1. SignTypes /\ CallsAreOfTheirEntry /\ TokenIsWanted
  BY DEF SignInv
<1>2. entry = person.e
  BY <1>1 DEF CallsAreOfTheirEntry
<1>3. SignTypes'
  <2>1. EntryTypes'
    BY <1>1, SameArrays DEF SignTypes
  <2>2. 0 \in 0 .. added
    BY <1>1, EntryNumbers
  <2> QED
    BY <1>1, <2>1, <2>2, NoCallTypes DEF SignTypes, server
<1>4. CallsAreOfTheirEntry'
  <2>1. NoCall.e <= added
    BY <1>1, EntryNumbers, SignValues
  <2> QED
    BY <1>1, <2>1, SignValues DEF CallsAreOfTheirEntry
<1>5. ASSUME NEW x \in Entries
      PROVE  CallsKeep(x)
  <2>1. ~SignedIn(x) /\ ~SigningIn(x)
    BY <1>2 DEF SignedIn, SigningIn
  <2>2. Pending(x) => Pending(x)'
    BY DEF Pending
  <2> QED
    BY <2>1, <2>2, SignValues DEF CallsKeep
<1>6. TokenIsWanted'
  <2>1. /\ store' = store /\ keeper' = keeper /\ leaving' = leaving
        /\ unforgotten' = unforgotten
    BY DEF catalogs, keepers, faults
  <2>2. ASSUME NEW x \in Entries, SoonForgotten(x)
        PROVE  SoonForgotten(x)'
    BY <2>1, <2>2 DEF SoonForgotten, SigningIn
  <2> QED
    BY <1>1, <2>1, <2>2 DEF TokenIsWanted
<1>7. added' \in added .. MaxEntries
  BY <1>1, EntryNumbers
<1> QED
  BY <1>3, <1>4, <1>5, <1>6, <1>7, CallsChange


\* The app starts again with the list's entry, which it opens, and nothing
\* else.
LEMMA RestartKeeps ==
  ASSUME SignInsAssumption, SignInv, Restart
  PROVE  SignInv'
<1>1. SignTypes /\ CallsAreOfTheirEntry /\ TokenIsWanted
  BY DEF SignInv
<1>2. /\ entry' = IF listed = "absent" THEN 0 ELSE 1
      /\ added' = entry' /\ kept' = "after restart"
      /\ session' = [e \in Entries |-> NoSession]
      /\ number' = [e \in Entries |-> 0]
      /\ keeper' = [e \in Entries |-> [NoKeeper EXCEPT
                      !.at = IF ~Opened(e) THEN "off"
                             ELSE IF listed = "in" THEN "look" ELSE "loop"]]
      /\ reaching' = [e \in Entries |-> Opened(e) /\ listed = "in"]
      /\ changes' = [e \in Entries |-> 0]
      /\ turn' = [e \in Entries |-> FALSE]
      /\ unforgotten' = (unforgotten \/ ~Resting)
      /\ person' = NoCall /\ leaving' = NoCall
      /\ UNCHANGED <<server, store, listed>>
  BY DEF Restart
<1>3. /\ issued' = issued /\ accepted' = accepted /\ store' = store
      /\ listed' = listed /\ added' = entry'
      /\ person' = NoCall /\ leaving' = NoCall
      /\ (listed = "absent" => entry' = 0) /\ (listed # "absent" => entry' = 1)
      /\ (unforgotten' <=> unforgotten \/ ~Resting)
  BY <1>2 DEF server
<1>4. ASSUME NEW x \in Entries
      PROVE  /\ keeper'[x] \in Keepers /\ keeper'[x].seen = 0 /\ keeper'[x].n = 0
             /\ keeper'[x].asked = 0 /\ keeper'[x].at \in {"off", "look", "loop"}
             /\ ~Opened(x) => keeper'[x].at = "off"
  <2> DEFINE at == IF ~Opened(x) THEN "off"
                   ELSE IF listed = "in" THEN "look" ELSE "loop"
  <2>1. keeper'[x] = [NoKeeper EXCEPT !.at = at]
    BY <1>2
  <2>2. at \in {"off", "look", "loop"} /\ (~Opened(x) => at = "off")
    OBVIOUS
  <2> HIDE DEF at
  <2>3. /\ [NoKeeper EXCEPT !.at = at] \in Keepers
        /\ [NoKeeper EXCEPT !.at = at].seen = 0 /\ [NoKeeper EXCEPT !.at = at].n = 0
        /\ [NoKeeper EXCEPT !.at = at].asked = 0
        /\ [NoKeeper EXCEPT !.at = at].at = at
    BY <2>2 DEF NoKeeper, Keepers
  <2> QED
    BY <2>1, <2>2, <2>3
<1>5. ASSUME NEW x \in Entries
      PROVE  /\ session'[x] = NoSession /\ number'[x] = 0 /\ changes'[x] = 0
             /\ (reaching'[x] <=> Opened(x) /\ listed = "in") /\ ~turn'[x]
  <2>1. session'[x] = NoSession /\ number'[x] = 0 /\ changes'[x] = 0 /\ turn'[x] = FALSE
    BY <1>2
  <2>2. reaching'[x] = (Opened(x) /\ listed = "in")
    BY <1>2
  <2> QED
    BY <2>1, <2>2
<1>6. /\ entry' \in {0, 1} /\ entry' \in 0 .. MaxEntries
      /\ (listed = "absent" <=> entry' = 0)
  <2>1. CASE listed = "absent"
    BY <1>1, <1>3, <2>1, EntryNumbers
  <2>2. CASE listed # "absent"
    <3>1. entry # 0
      BY <1>1, <2>2 DEF SignTypes
    <3>2. 1 \in 0 .. MaxEntries
      BY <1>1, <3>1, EntryNumbers
    <3> QED
      BY <1>3, <2>2, <3>2
  <2> QED
    BY <2>1, <2>2
<1>7. SignTypes'
  <2>1. keeper' \in [Entries -> Keepers]
    BY <1>2, <1>4
  <2>2. /\ session' \in [Entries -> Sessions] /\ number' \in [Entries -> Nat]
        /\ changes' \in [Entries -> Nat]
    BY <1>2, SignValues
  <2>3. reaching' \in [Entries -> BOOLEAN] /\ turn' \in [Entries -> BOOLEAN]
    BY <1>2
  <2>4. EntryTypes'
    BY <2>1, <2>2, <2>3 DEF EntryTypes
  <2>5. entry' \in 0 .. added'
    BY <1>3, <1>6
  <2> QED
    BY <1>1, <1>2, <1>3, <1>6, <2>4, <2>5, NoCallTypes DEF SignTypes
<1>8. CallsAreOfTheirEntry'
  BY <1>3, <1>6, SignValues DEF CallsAreOfTheirEntry
<1>9. ASSUME NEW x \in Entries
      PROVE  EntryInv(x)'
  <2>1. Numbered(x)'
    <3>1. issued \in Nat
      BY <1>1, Issued
    <3> QED
      BY <1>3, <1>4, <1>5, <3>1, SignValues DEF Numbered
  <2>2. Untouched(x)'
    <3>1. x > added' => ~Opened(x)
      BY <1>3, <1>6 DEF Opened
    <3> QED
      BY <1>4, <1>5, <3>1 DEF Untouched
  <2>3. TurnIsTaken(x)'
    BY <1>3, <1>4, <1>5, SignValues DEF TurnIsTaken
  <2>4. IsWanted(x)'
    <3>1. reaching'[x] => SignedIn(x)'
      BY <1>3, <1>5, <1>6, SignValues DEF SignedIn, Opened
    <3> QED
      BY <1>4, <1>5, <3>1 DEF IsWanted
  <2>5. KeepsForASession(x)' /\ JudgementHolds(x)'
    BY <1>4, <1>5, SignValues DEF KeepsForASession, JudgementHolds
  <2> QED
    BY <2>1, <2>2, <2>3, <2>4, <2>5 DEF EntryInv
<1>10. TokenIsWanted'
  <2> SUFFICES ASSUME store # 0, ~unforgotten, Resting
               PROVE  listed = "in"
    BY <1>3, SignValues DEF TokenIsWanted
  <2>1. person = NoCall /\ leaving = NoCall /\ \A x \in Entries : ~turn[x]
    BY DEF Resting
  <2>2. ASSUME NEW x \in Entries
        PROVE  ~SoonForgotten(x)
    <3>1. EntryInv(x) /\ ~turn[x]
      BY <2>1 DEF SignInv
    <3> QED
      BY <2>1, <3>1, SignValues DEF EntryInv, TurnIsTaken, SoonForgotten, SigningIn
  <2> QED
    BY <1>1, <2>1, <2>2, SignValues DEF TokenIsWanted
<1> QED
  BY <1>7, <1>8, <1>9, <1>10 DEF SignInv

-----------------------------------------------------------------------------
(* The invariant, and what follows from it.                                *)

LEMMA SignInsInit == SignInsAssumption /\ Init => SignInv
<1> SUFFICES ASSUME SignInsAssumption, Init PROVE SignInv
  OBVIOUS
<1>1. MaxTokens \in Nat /\ MaxEntries \in Nat
  BY DEF SignInsAssumption
<1>2. /\ issued = 0 /\ accepted = 1 /\ store = 0
      /\ listed = "absent" /\ entry = 0 /\ added = 0
      /\ person = NoCall /\ leaving = NoCall
  BY DEF Init
<1>3. /\ session = [e \in Entries |-> NoSession]
      /\ number = [e \in Entries |-> 0]
      /\ keeper = [e \in Entries |-> NoKeeper]
      /\ reaching = [e \in Entries |-> FALSE]
      /\ changes = [e \in Entries |-> 0]
      /\ turn = [e \in Entries |-> FALSE]
  BY DEF Init
<1>4. EntryTypes
  BY <1>3, SignValues DEF EntryTypes
<1>5. SignTypes
  <2>1. /\ 0 \in 0 .. MaxTokens /\ 1 \in 1 .. 0 + 1 /\ 0 \in 0 .. 0
        /\ 0 \in 0 .. MaxEntries
    BY <1>1
  <2> QED
    BY <1>2, <1>4, <2>1, NoCallTypes DEF Init, SignTypes
<1>6. CallsAreOfTheirEntry /\ TokenIsWanted
  BY <1>2, SignValues DEF CallsAreOfTheirEntry, TokenIsWanted
<1>7. ASSUME NEW x \in Entries
      PROVE  EntryInv(x)
  <2>1. /\ session[x] = NoSession /\ number[x] = 0 /\ keeper[x] = NoKeeper
        /\ ~reaching[x] /\ changes[x] = 0 /\ ~turn[x]
    BY <1>3
  <2>2. Numbered(x) /\ Untouched(x) /\ TurnIsTaken(x)
    BY <1>2, <2>1, SignValues DEF Numbered, Untouched, TurnIsTaken
  <2>3. IsWanted(x) /\ KeepsForASession(x) /\ JudgementHolds(x)
    BY <2>1, SignValues DEF IsWanted, KeepsForASession, JudgementHolds
  <2> QED
    BY <2>2, <2>3 DEF EntryInv
<1> QED
  BY <1>5, <1>6, <1>7 DEF SignInv

LEMMA SignInsStep == SignInsAssumption /\ SignInv /\ [Next]_vars => SignInv'
<1> SUFFICES ASSUME SignInsAssumption, SignInv, [Next]_vars PROVE SignInv'
  OBVIOUS
<1>1. SignTypes
  BY DEF SignInv
<1>2. CASE Revoke
  BY <1>2, RevokeKeeps
<1>3. CASE SignIn
  BY <1>3, SignInKeeps
<1>4. CASE Remove
  BY <1>4, RemoveKeeps
<1>5. CASE SignOut
  BY <1>5, SignOutKeeps
<1>6. CASE SignOutStep
  <2>1. CASE /\ TakeLeave(leaving) /\ leaving' = [leaving EXCEPT !.at = "forget"]
             /\ UNCHANGED person
    <3>1. leaving # NoCall
      BY <2>1, SignValues DEF TakeLeave
    <3> QED
      BY <2>1, <3>1, TakeLeaveKeeps
  <2>2. CASE LeaveStore(leaving) /\ leaving' = NoCall /\ UNCHANGED <<list, person>>
    <3>1. leaving # NoCall
      BY <2>2, SignValues DEF LeaveStore
    <3> QED
      BY <2>2, <3>1, LeaveStoreKeeps
  <2> QED
    BY <1>6, <2>1, <2>2 DEF SignOutStep
<1>7. CASE RemoveStep
  <2>1. CASE /\ TakeLeave(person) /\ person' = [person EXCEPT !.at = "forget"]
             /\ UNCHANGED leaving
    <3>1. person # NoCall
      BY <2>1, SignValues DEF TakeLeave
    <3> QED
      BY <2>1, <3>1, TakeLeaveKeeps
  <2>2. CASE /\ LeaveStore(person) /\ person' = [person EXCEPT !.at = "drop"]
             /\ UNCHANGED <<list, leaving>>
    <3>1. person # NoCall
      BY <2>2, SignValues DEF LeaveStore
    <3> QED
      BY <2>2, <3>1, LeaveStoreKeeps
  <2>3. CASE /\ person.at = "drop"
             /\ listed' = "absent" /\ entry' = 0 /\ person' = NoCall
             /\ UNCHANGED <<server, store, added, kept, catalogs, keepers, leaving,
                            acts, faults>>
    BY <2>3, DropKeeps
  <2> QED
    BY <1>7, <2>1, <2>2, <2>3 DEF RemoveStep
<1>8. CASE TrySignIn \/ CheckSignIn \/ TellKeeper \/ SaveSignIn
  BY <1>8, TrySignInKeeps, CheckSignInKeeps, TellKeeperKeeps, SaveSignInKeeps
<1>9. CASE Restart
  BY <1>9, RestartKeeps
<1>10. CASE \E e \in Entries : Refuse(e) \/ KeeperStep(e)
  BY <1>10, RefuseKeeps, KeeperKeeps
<1>11. CASE UNCHANGED vars
  <2>1. /\ UNCHANGED <<server, store, list, kept, catalogs, keepers, calls, faults>>
    BY <1>11 DEF vars
  <2>2. /\ UNCHANGED <<issued, accepted, store, listed, entry, added, kept, session,
                       number, keeper, reaching, changes, turn, person, leaving,
                       unforgotten>>
    BY <2>1 DEF server, list, catalogs, keepers, calls, faults
  <2>3. SignTypes' /\ CallsAreOfTheirEntry' /\ TokenIsWanted'
    BY <2>2 DEF SignInv, SignTypes, EntryTypes, CallsAreOfTheirEntry, TokenIsWanted,
       SoonForgotten, SigningIn, JustResumed
  <2>4. \A x \in Entries : CallsKeep(x)
    BY <2>2 DEF CallsKeep, SignedIn, Pending, SigningIn
  <2>5. added' \in added .. MaxEntries
    BY <1>1, <2>2, EntryNumbers
  <2> QED
    BY <2>1, <2>2, <2>3, <2>4, <2>5, CallsChange
<1> QED
  BY <1>2, <1>3, <1>4, <1>5, <1>6, <1>7, <1>8, <1>9, <1>10, <1>11 DEF Next, CallStep

\* What the runs check of the sign-ins follows from the invariant.
LEMMA SignInsSays ==
  SignInsAssumption /\ SignInv => TypeOK /\ SignedOutStaysOut /\ SignedOutForgets
<1> SUFFICES ASSUME SignInsAssumption, SignInv
             PROVE  TypeOK /\ SignedOutStaysOut /\ SignedOutForgets
  OBVIOUS
<1>1. SignTypes /\ CallsAreOfTheirEntry /\ TokenIsWanted /\ EntryTypes
  BY DEF SignInv, SignTypes
<1>2. TypeOK
  <2>1. accepted \in 1 .. MaxTokens + 1
    <3>1. /\ issued \in 0 .. MaxTokens /\ accepted \in 1 .. issued + 1
      BY <1>1 DEF SignTypes
    <3>2. issued \in Nat /\ MaxTokens \in Nat /\ issued <= MaxTokens
      BY <3>1 DEF SignInsAssumption
    <3> QED
      BY <3>1, <3>2
  <2>2. {entry, added, person.e, leaving.e} \subseteq 0 .. MaxEntries
    <3>1. entry \in 0 .. MaxEntries /\ added \in 0 .. MaxEntries
      BY <1>1, EntryNumbers
    <3>2. person.e \in 0 .. MaxEntries /\ leaving.e \in 0 .. MaxEntries
      BY <1>1 DEF SignTypes, PersonCalls, LeavingCalls
    <3> QED
      BY <3>1, <3>2
  <2>3. ASSUME NEW e \in Entries
        PROVE  /\ session[e].n \in {0, number[e]} /\ session[e].token \in 0 .. issued
               /\ keeper[e].at \in {"off", "look", "none", "loop", "carry", "resumed",
                    "status", "keep", "keeping", "renew", "rejected", "forget"}
               /\ turn[e] <=>
                    \/ keeper[e].at \in {"keeping", "forget"}
                    \/ \E c \in {person, leaving} : c = [at |-> "forget", e |-> e]
    <3>1. EntryInv(e) /\ session[e] \in Sessions /\ keeper[e] \in Keepers
      BY <1>1 DEF SignInv, EntryTypes
    <3>2. session[e].n \in {0, number[e]}
      BY <3>1, SignValues DEF EntryInv, Numbered
    <3>3. session[e].token \in 0 .. issued
      <4>1. session[e].token \in Nat /\ issued \in Nat
        BY <1>1, <3>1, Issued DEF Sessions
      <4> QED
        BY <3>1, <4>1 DEF EntryInv, Numbered
    <3>4. /\ person = [at |-> "forget", e |-> e] <=>
               person.at = "forget" /\ person.e = e
          /\ leaving = [at |-> "forget", e |-> e] <=>
               leaving.at = "forget" /\ leaving.e = e
      <4>1. person \in PersonCalls /\ leaving \in LeavingCalls
        BY <1>1 DEF SignTypes
      <4> QED
        BY <4>1 DEF PersonCalls, LeavingCalls
    <3>5. turn[e] <=> \/ keeper[e].at \in {"keeping", "forget"}
                      \/ \E c \in {person, leaving} : c = [at |-> "forget", e |-> e]
      BY <3>1, <3>4 DEF EntryInv, TurnIsTaken
    <3> QED
      BY <3>1, <3>2, <3>3, <3>5 DEF Keepers
  <2>4. /\ issued \in 0 .. MaxTokens /\ store \in 0 .. issued
        /\ listed \in {"absent", "in", "out"} /\ (listed = "absent") = (entry = 0)
        /\ kept \in {"after restart", "until closed"}
    BY <1>1 DEF SignTypes
  <2> QED
    BY <2>1, <2>2, <2>3, <2>4 DEF TypeOK
<1>3. SignedOutStaysOut
  <2> SUFFICES ASSUME Resting, listed # "in", NEW e \in Entries, session[e] # NoSession
               PROVE  keeper[e].at = "resumed"
    BY DEF SignedOutStaysOut
  <2>1. EntryInv(e) /\ person = NoCall /\ leaving = NoCall
    BY DEF SignInv, Resting
  <2> QED
    BY <2>1, SignValues DEF EntryInv, IsWanted, SignedIn, SigningIn, Pending, Doomed,
       JustResumed
<1>4. SignedOutForgets
  <2> SUFFICES ASSUME Resting, listed # "in", ~unforgotten, store # 0
               PROVE  FALSE
    BY DEF SignedOutForgets
  <2>1. person = NoCall /\ leaving = NoCall
    BY DEF Resting
  <2>2. PICK e \in Entries : SoonForgotten(e)
    BY <1>1, <2>1, SignValues DEF TokenIsWanted
  <2>3. EntryInv(e) /\ ~turn[e]
    BY DEF SignInv, Resting
  <2> QED
    BY <2>1, <2>2, <2>3, SignValues DEF EntryInv, TurnIsTaken, SoonForgotten, SigningIn
<1> QED
  BY <1>2, <1>3, <1>4

\* A step never ends a session on a judgement of another, or of an older token.
LEMMA SignInsEnd == SignInsAssumption /\ SignInv /\ [Next]_vars => EndsOnlyRefused
<1> SUFFICES ASSUME SignInsAssumption, SignInv, NEW e \in Entries,
                    keeper[e].at = "rejected", session[e] # NoSession,
                    session'[e] = NoSession, TakeRejected(e)
             PROVE  ~Accepts(session[e].token)
  BY DEF EndsOnlyRefused
<1>1. Judged(e)
  BY TakeRejectedDoes DEF SignInv
<1>2. EntryInv(e)
  BY DEF SignInv
<1> QED
  BY <1>1, <1>2 DEF EntryInv, JudgementHolds, Judged
=============================================================================
