------------------------------ MODULE SignIns ------------------------------
(***************************************************************************)
(* Keeping the person signed in to a team, over restarts: the list of      *)
(* teams (crates/catalog-browser/src/teams/mod.rs), the keeper thread of   *)
(* each team (teams/keeper.rs), the store of kept tokens (sign_ins.rs) and *)
(* the sessions of a TeamCatalog (team/mod.rs).                            *)
(*                                                                         *)
(* One team server; teams share nothing but the list.  The person's calls  *)
(* run on threads of their own: signing in and removing the team one at a  *)
(* time, signing out whenever.  Each time the team is added, the list      *)
(* holds a new entry, with a catalog and a keeper of its own; the keeper   *)
(* of a removed entry stops when it next looks.                            *)
(***************************************************************************)
EXTENDS Naturals

CONSTANTS
  MaxTokens,    \* the most tokens the team server gives
  MaxEntries,   \* how often the team is added in one run of the app
  MaxActs,      \* how often the person signs in, signs out or removes
  MaxFailures,  \* how often the store or a request fails
  MaxCrashes    \* how often the app ends, anywhere, and starts again

VARIABLES
  issued,    \* the server: the tokens it gave are 1 .. issued
  accepted,  \* the server: the oldest token it still accepts
  store,     \* the token in the system's password store, or 0
  listed,    \* the saved list: "absent", "in", or "out": marked signed out
  entry,     \* the entry of the team in the list, or 0
  added,     \* how many entries there were in this run
  kept,      \* Teams.kept: whether sign-ins outlive the app
  session,   \* the session of each entry's catalog, or NoSession
  number,    \* the number of its newest session
  keeper,    \* the keeper thread of each entry
  reaching,  \* whether each is carrying on a kept sign-in
  changes,   \* how often the person signed in to it or out of it
  turn,      \* whether its turn is taken
  person,    \* the call that holds one_at_a_time
  leaving,   \* the call that signs out
  acts, failures, crashes,
  unforgotten, \* the app failed to forget the token, or ended before it did
  forgotOther  \* a call that left one entry forgot a later one's token

server == <<issued, accepted>>
list == <<listed, entry, added>>
catalogs == <<session, number>>
keepers == <<keeper, reaching, changes, turn>>
calls == <<person, leaving, acts>>
faults == <<failures, crashes, unforgotten, forgotOther>>
vars == <<server, store, list, kept, catalogs, keepers, calls, faults>>

Entries == 1 .. MaxEntries
Tokens == 1 .. MaxTokens
NoSession == [n |-> 0, token |-> 0, refused |-> FALSE]
NoCall == [at |-> "none", e |-> 0]
\* at: what it does next; carry: the kept token to carry on; seen: changes
\* when it last looked; n and token: the session it read or judges (0: the
\* kept sign-in), and a token; asked: the session it renews; ok: the
\* server's answer; kept: the session and token it last kept.
NoKeeper == [at |-> "off", carry |-> 0, seen |-> 0, n |-> 0, token |-> 0,
             asked |-> 0, ok |-> FALSE, kept |-> <<0, 0>>]

Accepts(t) == accepted <= t

\* A keeper is dropped with its last user: the list, or a call still at it.
Stopped(e) == e \notin {entry, person.e, leaving.e}
StillCurrent(e) == ~Stopped(e) /\ changes[e] = keeper[e].seen

Fail == failures < MaxFailures /\ failures' = failures + 1

-----------------------------------------------------------------------------
(* The server, and the follower of a session, which learns that its token  *)
(* is no longer accepted.                                                  *)

Revoke ==
  /\ accepted <= issued
  /\ accepted' = issued + 1
  /\ UNCHANGED <<issued, store, list, kept, catalogs, keepers, calls, faults>>

Refuse(e) ==
  /\ session[e] # NoSession /\ ~session[e].refused
  /\ ~Accepts(session[e].token)
  /\ session' = [session EXCEPT ![e].refused = TRUE]
  /\ UNCHANGED <<server, store, list, kept, number, keepers, calls, faults>>

-----------------------------------------------------------------------------
(* Carrying on a kept sign-in.                                             *)

Goes(e, at) == keeper' = [keeper EXCEPT ![e].at = at]

\* Reading the store fails, or finds no token: no_sign_in_to_carry_on.
Look(e) ==
  /\ keeper[e].at = "look"
  /\ \/ /\ store # 0
        /\ keeper' = [keeper EXCEPT ![e].at = "loop", ![e].carry = store]
        /\ UNCHANGED <<kept, failures>>
     \/ /\ store = 0
        /\ Goes(e, "none")
        /\ UNCHANGED <<kept, failures>>
     \/ /\ Fail
        /\ Goes(e, "none")
        /\ kept' = "until closed"
  /\ UNCHANGED <<server, store, list, catalogs, reaching, changes, turn, calls,
                 crashes, unforgotten, forgotOther>>

NothingToCarryOn(e) ==
  /\ keeper[e].at = "none" /\ ~turn[e]
  /\ reaching' = [reaching EXCEPT ![e] = FALSE]
  /\ Goes(e, "loop")
  /\ UNCHANGED <<server, store, list, kept, catalogs, changes, turn, calls,
                 faults>>

Stop(e) ==
  /\ keeper[e].at = "loop" /\ Stopped(e)
  /\ Goes(e, "off")
  /\ UNCHANGED <<server, store, list, kept, catalogs, reaching, changes, turn,
                 calls, faults>>

\* The request that renews the kept token: the server answers it, or cannot
\* be reached, and the keeper tries again.
CarryOn(e) ==
  /\ keeper[e].at = "loop" /\ ~Stopped(e) /\ keeper[e].carry # 0
  /\ \/ /\ ~reaching[e]
        /\ keeper' = [keeper EXCEPT ![e].carry = 0]
        /\ UNCHANGED <<issued, failures>>
     \/ /\ reaching[e]
        /\ Accepts(keeper[e].carry) /\ issued < MaxTokens
        /\ issued' = issued + 1
        /\ keeper' = [keeper EXCEPT ![e].at = "carry", ![e].seen = changes[e],
                                    ![e].token = issued + 1, ![e].ok = TRUE]
        /\ UNCHANGED failures
     \/ /\ reaching[e]
        /\ ~Accepts(keeper[e].carry)
        /\ keeper' = [keeper EXCEPT ![e].at = "carry", ![e].seen = changes[e],
                                    ![e].ok = FALSE]
        /\ UNCHANGED <<issued, failures>>
     \/ reaching[e] /\ Fail /\ UNCHANGED <<issued, keeper>>
  /\ UNCHANGED <<accepted, store, list, kept, catalogs, reaching, changes,
                 turn, calls, crashes, unforgotten, forgotOther>>

NewSession(e, t) ==
  /\ number' = [number EXCEPT ![e] = @ + 1]
  /\ session' = [session EXCEPT
       ![e] = [n |-> number[e] + 1, token |-> t, refused |-> FALSE]]

EndSession(e) == session' = [session EXCEPT ![e] = NoSession]

\* TeamCatalog.resume, once the server has answered: it never replaces a
\* session.
Resumed(e) ==
  /\ keeper[e].at = "carry"
  /\ \/ /\ keeper[e].ok /\ session[e] = NoSession
        /\ NewSession(e, keeper[e].token)
        /\ keeper' = [keeper EXCEPT ![e].at = "resumed", ![e].carry = 0,
                                    ![e].n = number[e] + 1]
     \/ /\ keeper[e].ok /\ session[e] # NoSession
        /\ keeper' = [keeper EXCEPT ![e].at = "loop", ![e].carry = 0]
        /\ UNCHANGED catalogs
     \/ /\ ~keeper[e].ok
        /\ keeper' = [keeper EXCEPT ![e].at = "rejected", ![e].carry = 0,
                                    ![e].n = 0]
        /\ UNCHANGED catalogs
  /\ UNCHANGED <<server, store, list, kept, reaching, changes, turn, calls,
                 faults>>

\* A mutant: a session carried on stays, whatever the person did.
EndedMeanwhileNever(e) == FALSE

\* The person signed out, and no password sign-in came after.
EndedMeanwhile(e) == ~StillCurrent(e) /\ session[e].n = keeper[e].n

\* In the team's turn: the person may have signed out meanwhile.
AfterResuming(e) ==
  /\ keeper[e].at = "resumed" /\ ~turn[e]
  /\ reaching' = [reaching EXCEPT ![e] = FALSE]
  /\ IF EndedMeanwhile(e)
       THEN EndSession(e)
       ELSE UNCHANGED session
  /\ Goes(e, "loop")
  /\ UNCHANGED <<server, store, list, kept, number, changes, turn, calls,
                 faults>>

-----------------------------------------------------------------------------
(* Keeping, renewing and judging a session.                                *)

\* The keeper reads the session's number and token, and then its status,
\* which may already be that of another session.
Watch(e) ==
  /\ keeper[e].at = "loop" /\ ~Stopped(e) /\ keeper[e].carry = 0
  /\ IF session[e] = NoSession
       THEN /\ keeper[e].kept # <<0, 0>>
            /\ keeper' = [keeper EXCEPT ![e].kept = <<0, 0>>]
       ELSE keeper' = [keeper EXCEPT ![e].at = "status",
              ![e].seen = changes[e], ![e].n = session[e].n,
              ![e].token = session[e].token]
  /\ UNCHANGED <<server, store, list, kept, catalogs, reaching, changes, turn,
                 calls, faults>>

\* A mutant: kept once for each session, however it was renewed.
IsKeptBySession(e) == keeper[e].kept[1] = keeper[e].n

\* The session and its token: a token alone does not tell two sessions apart.
IsKept(e) == keeper[e].kept = <<keeper[e].n, keeper[e].token>>

\* Renewing asks for the session that runs now; an answer other than yes or
\* no is tried again.
Status(e) ==
  LET k == keeper[e]
      s == session[e] IN
  /\ k.at = "status"
  /\ \/ /\ s = NoSession \/ s.refused
        /\ keeper' = [keeper EXCEPT ![e].kept = <<0, 0>>,
             ![e].at = IF s = NoSession THEN "loop" ELSE "rejected"]
        /\ UNCHANGED issued
     \/ /\ s # NoSession /\ ~s.refused /\ ~IsKept(e)
        /\ Goes(e, "keep")
        /\ UNCHANGED issued
     \/ /\ s # NoSession /\ ~s.refused /\ IsKept(e)
        /\ Goes(e, "loop")
        /\ UNCHANGED issued
     \/ /\ s # NoSession /\ ~s.refused /\ IsKept(e)
        /\ Accepts(s.token) => issued < MaxTokens
        /\ issued' = IF Accepts(s.token) THEN issued + 1 ELSE issued
        /\ keeper' = [keeper EXCEPT ![e].at = "renew", ![e].asked = s.n,
             ![e].ok = Accepts(s.token), ![e].token = issued + 1]
  /\ UNCHANGED <<accepted, store, list, kept, catalogs, reaching, changes,
                 turn, calls, faults>>

\* TeamCatalog.renew, once the server has answered, and only if the session
\* is still the one it was asked for.
Renewed(e) ==
  LET k == keeper[e] IN
  /\ k.at = "renew"
  /\ \/ /\ session[e].n # k.asked
        /\ Goes(e, "loop")
        /\ UNCHANGED session
     \/ /\ session[e].n = k.asked /\ k.ok
        /\ session' = [session EXCEPT ![e].token = k.token]
        /\ Goes(e, "loop")
     \/ /\ session[e].n = k.asked /\ ~k.ok
        /\ keeper' = [keeper EXCEPT ![e].at = "rejected", ![e].kept = <<0, 0>>]
        /\ UNCHANGED session
  /\ UNCHANGED <<server, store, list, kept, number, reaching, changes, turn,
                 calls, faults>>

\* A mutant: what was read before the turn is kept.
StillItsTokenUnchecked(e) == ~Stopped(e)

StillItsToken(e) ==
  /\ ~Stopped(e)
  /\ session[e].n = keeper[e].n /\ session[e].token = keeper[e].token

\* Keeper.keep takes the turn and writes the store if the session and its
\* token are still the same.
TakeKeep(e) ==
  /\ keeper[e].at = "keep" /\ ~turn[e]
  /\ IF StillItsToken(e)
       THEN Goes(e, "keeping") /\ turn' = [turn EXCEPT ![e] = TRUE]
       ELSE Goes(e, "loop") /\ UNCHANGED turn
  /\ UNCHANGED <<server, store, list, kept, catalogs, reaching, changes, calls,
                 faults>>

Keep(e) ==
  /\ keeper[e].at = "keeping"
  /\ \/ store' = keeper[e].token /\ UNCHANGED <<kept, failures>>
     \/ Fail /\ kept' = "until closed" /\ UNCHANGED store
  /\ turn' = [turn EXCEPT ![e] = FALSE]
  /\ keeper' = [keeper EXCEPT ![e].at = "loop",
                              ![e].kept = <<keeper[e].n, keeper[e].token>>]
  /\ UNCHANGED <<server, list, catalogs, reaching, changes, calls, crashes,
                 unforgotten, forgotOther>>

\* A mutant: whatever session runs is ended.
JudgedAny(e) == TRUE

\* TeamCatalog.sign_in_again acts only on the sign-in that was judged.
Judged(e) == session[e].n = keeper[e].n

\* Keeper.rejected takes the turn; if the judgement still holds it ends the
\* session and forgets the token.
TakeRejected(e) ==
  /\ keeper[e].at = "rejected" /\ ~turn[e]
  /\ IF StillCurrent(e) /\ Judged(e)
       THEN /\ EndSession(e)
            /\ reaching' = [reaching EXCEPT ![e] = FALSE]
            /\ turn' = [turn EXCEPT ![e] = TRUE]
            /\ Goes(e, "forget")
       ELSE Goes(e, "loop") /\ UNCHANGED <<session, reaching, turn>>
  /\ UNCHANGED <<server, store, list, kept, number, changes, calls, faults>>

Forget(e) ==
  /\ keeper[e].at = "forget"
  /\ \/ store' = 0 /\ UNCHANGED <<kept, failures>>
     \/ Fail /\ kept' = "until closed" /\ UNCHANGED store
  /\ unforgotten' = (store' # 0)
  /\ turn' = [turn EXCEPT ![e] = FALSE]
  /\ Goes(e, "loop")
  /\ UNCHANGED <<server, list, catalogs, reaching, changes, calls, crashes,
                 forgotOther>>

KeeperStep(e) ==
  \/ Look(e) \/ NothingToCarryOn(e) \/ Stop(e) \/ CarryOn(e) \/ Resumed(e)
  \/ AfterResuming(e) \/ Watch(e) \/ Status(e) \/ Renewed(e) \/ TakeKeep(e) \/ Keep(e)
  \/ TakeRejected(e) \/ Forget(e)

-----------------------------------------------------------------------------
(* What the person does.                                                   *)

Act == acts < MaxActs /\ acts' = acts + 1

\* A sign-in adds a new entry if the team is not in the list, once it works.
SignIn ==
  /\ Act /\ person = NoCall
  /\ entry # 0 \/ added < MaxEntries
  /\ IF entry # 0
       THEN person' = [at |-> "ask", e |-> entry] /\ UNCHANGED added
       ELSE person' = [at |-> "ask", e |-> added + 1] /\ added' = added + 1
  /\ UNCHANGED <<server, store, listed, entry, kept, catalogs, keepers, leaving,
                 faults>>

\* TeamCatalog.try_sign_in: a failure leaves everything as it was.
TrySignIn ==
  /\ person.at = "ask"
  /\ \/ /\ issued < MaxTokens
        /\ issued' = issued + 1
        /\ NewSession(person.e, issued + 1)
        /\ person' = [person EXCEPT !.at = "check"]
        /\ UNCHANGED failures
     \/ Fail /\ person' = NoCall /\ UNCHANGED <<issued, catalogs>>
  /\ UNCHANGED <<accepted, store, list, kept, keepers, leaving, acts, crashes,
                 unforgotten, forgotOther>>

CheckSignIn ==
  /\ person.at = "check"
  /\ person' = IF session[person.e] = NoSession THEN NoCall
               ELSE [person EXCEPT !.at = IF person.e = entry THEN "tell"
                                                              ELSE "save"]
  /\ UNCHANGED <<server, store, list, kept, catalogs, keepers, leaving, acts,
                 faults>>

\* Keeper.signed_in.
TellKeeper ==
  /\ person.at = "tell" /\ ~turn[person.e]
  /\ changes' = [changes EXCEPT ![person.e] = @ + 1]
  /\ reaching' = [reaching EXCEPT ![person.e] = FALSE]
  /\ person' = [person EXCEPT !.at = "save"]
  /\ UNCHANGED <<server, store, list, kept, catalogs, keeper, turn, leaving,
                 acts, faults>>

SaveSignIn ==
  /\ person.at = "save"
  /\ listed' = "in" /\ entry' = person.e
  /\ IF entry = 0 THEN Goes(person.e, "loop") ELSE UNCHANGED keeper
  /\ person' = NoCall
  /\ UNCHANGED <<server, store, added, kept, catalogs, reaching, changes, turn,
                 leaving, acts, faults>>

Remove ==
  /\ Act /\ person = NoCall /\ entry # 0
  /\ person' = [at |-> "leave", e |-> entry]
  /\ UNCHANGED <<server, store, list, kept, catalogs, keepers, leaving, faults>>

SignOut ==
  /\ Act /\ leaving = NoCall /\ entry # 0
  /\ listed' = "out"
  /\ leaving' = [at |-> "leave", e |-> entry]
  /\ UNCHANGED <<server, store, entry, added, kept, catalogs, keepers, person,
                 faults>>

\* Keeper.sign_out takes the turn, ends the session, and has the store
\* forget the token, which may take long.
TakeLeave(call) ==
  /\ call.at = "leave" /\ ~turn[call.e]
  /\ changes' = [changes EXCEPT ![call.e] = @ + 1]
  /\ reaching' = [reaching EXCEPT ![call.e] = FALSE]
  /\ turn' = [turn EXCEPT ![call.e] = TRUE]
  /\ EndSession(call.e)
  /\ UNCHANGED <<server, store, list, kept, number, keeper, acts, faults>>

LeaveStore(call) ==
  /\ call.at = "forget"
  /\ \/ store' = 0 /\ UNCHANGED failures
     \/ Fail /\ UNCHANGED store
  /\ unforgotten' = (store' # 0)
  /\ forgotOther' = (forgotOther \/
       /\ entry \notin {0, call.e} /\ session[entry] # NoSession
       /\ store = session[entry].token /\ store' = 0)
  /\ turn' = [turn EXCEPT ![call.e] = FALSE]
  /\ UNCHANGED <<server, kept, catalogs, keeper, reaching, changes, acts,
                 crashes>>

SignOutStep ==
  \/ TakeLeave(leaving) /\ leaving' = [leaving EXCEPT !.at = "forget"]
                        /\ UNCHANGED person
  \/ LeaveStore(leaving) /\ leaving' = NoCall /\ UNCHANGED <<list, person>>

RemoveStep ==
  \/ TakeLeave(person) /\ person' = [person EXCEPT !.at = "forget"]
                       /\ UNCHANGED leaving
  \/ /\ LeaveStore(person)
     /\ person' = [person EXCEPT !.at = "drop"]
     /\ UNCHANGED <<list, leaving>>
  \/ /\ person.at = "drop"
     /\ listed' = "absent" /\ entry' = 0
     /\ person' = NoCall
     /\ UNCHANGED <<server, store, added, kept, catalogs, keepers, leaving,
                    acts, faults>>

-----------------------------------------------------------------------------
(* The app ends, at any step, and starts again: Teams.open.                *)

\* No call of the person is under way, and no one is at the store.
Resting ==
  person = NoCall /\ leaving = NoCall /\ \A e \in Entries : ~turn[e]

Opened(e) == e = 1 /\ listed # "absent"

Restart ==
  /\ crashes < MaxCrashes
  /\ crashes' = crashes + 1
  /\ entry' = IF listed = "absent" THEN 0 ELSE 1
  /\ added' = entry'
  /\ kept' = "after restart"
  /\ session' = [e \in Entries |-> NoSession]
  /\ number' = [e \in Entries |-> 0]
  /\ keeper' = [e \in Entries |-> [NoKeeper EXCEPT
                  !.at = IF ~Opened(e) THEN "off"
                         ELSE IF listed = "in" THEN "look" ELSE "loop"]]
  /\ reaching' = [e \in Entries |-> Opened(e) /\ listed = "in"]
  /\ changes' = [e \in Entries |-> 0]
  /\ turn' = [e \in Entries |-> FALSE]
  /\ unforgotten' = (unforgotten \/ ~Resting)
  /\ person' = NoCall /\ leaving' = NoCall
  /\ UNCHANGED <<server, store, listed, acts, failures, forgotOther>>

Init ==
  /\ issued = 0 /\ accepted = 1 /\ store = 0
  /\ listed = "absent" /\ entry = 0 /\ added = 0 /\ kept = "after restart"
  /\ session = [e \in Entries |-> NoSession]
  /\ number = [e \in Entries |-> 0]
  /\ keeper = [e \in Entries |-> NoKeeper]
  /\ reaching = [e \in Entries |-> FALSE]
  /\ changes = [e \in Entries |-> 0]
  /\ turn = [e \in Entries |-> FALSE]
  /\ person = NoCall /\ leaving = NoCall /\ acts = 0
  /\ failures = 0 /\ crashes = 0 /\ unforgotten = FALSE
  /\ forgotOther = FALSE

CallStep == TrySignIn \/ CheckSignIn \/ TellKeeper \/ SaveSignIn \/ RemoveStep

Next ==
  \/ Revoke \/ SignIn \/ Remove \/ SignOut \/ SignOutStep \/ CallStep \/ Restart
  \/ \E e \in Entries : Refuse(e) \/ KeeperStep(e)

\* The threads run: the keeper's loop ticks, calls return, and a follower's
\* requests are answered.
Fairness ==
  /\ \A e \in Entries : WF_vars(KeeperStep(e)) /\ WF_vars(Refuse(e))
  /\ WF_vars(SignOutStep) /\ WF_vars(CallStep)

Spec == Init /\ [][Next]_vars /\ Fairness

-----------------------------------------------------------------------------

TypeOK ==
  /\ issued \in 0 .. MaxTokens /\ accepted \in 1 .. MaxTokens + 1
  /\ store \in 0 .. issued
  /\ listed \in {"absent", "in", "out"} /\ (listed = "absent") = (entry = 0)
  /\ {entry, added, person.e, leaving.e} \subseteq 0 .. MaxEntries
  /\ kept \in {"after restart", "until closed"}
  /\ \A e \in Entries :
       /\ session[e].n \in {0, number[e]} /\ session[e].token \in 0 .. issued
       /\ keeper[e].at \in {"off", "look", "none", "loop", "carry", "resumed",
            "status", "keep", "keeping", "renew", "rejected", "forget"}
       /\ turn[e] <=> \/ keeper[e].at \in {"keeping", "forget"}
                      \/ \E c \in {person, leaving} : c = [at |-> "forget", e |-> e]

\* Signing out wins: once it is done (also by taking the team off the list,
\* and over a restart, whatever the store forgot), no session runs, however
\* a kept sign-in being carried on or a sign-in of before interleaved with
\* it; at most one is ending, in the keeper's hands.
SignedOutStaysOut ==
  Resting /\ listed # "in" =>
    \A e \in Entries : session[e] # NoSession => keeper[e].at = "resumed"

\* Once signed out, the store has no token that it did not fail to forget:
\* a keeper never writes a renewed one back.
SignedOutForgets ==
  Resting /\ listed # "in" /\ ~unforgotten => store = 0

\* A judgement ends only a session whose own token the server refuses, never
\* the one of a sign-in that came after what was judged.
EndsOnlyRefused ==
  \A e \in Entries :
    keeper[e].at = "rejected" /\ session[e] # NoSession
      /\ session'[e] = NoSession /\ TakeRejected(e)
    => ~Accepts(session[e].token)

\* Every step of the app, for each entry's session.
OnlyRefusedEnd == [][EndsOnlyRefused]_vars

\* Whoever stays signed in has the newest token of the running session kept
\* for the next start, unless the app says that sign-ins last until it
\* closes; also a team that was removed and added back, but for a sign-out
\* of before the removal whose store is still forgetting then (forgotOther).
TokenIsKept ==
  entry # 0 /\ session[entry] # NoSession =>
    store = session[entry].token \/ kept = "until closed" \/ forgotOther

\* In the end, as long as the app stays open: keeping is the keeper's work.
NewestTokenIsKept == <>[]TokenIsKept
=============================================================================
