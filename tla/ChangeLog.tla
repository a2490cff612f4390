----------------------------- MODULE ChangeLog -----------------------------
(***************************************************************************)
(* What the team server promises the desktops that follow it: the Catalog  *)
(* moves only Change by Change.  A Change says which number each part's    *)
(* current details and current revision move to, and nothing else moves    *)
(* them, so a desktop that makes current what each Change says, in seq     *)
(* order, ends up where the server is.  This is the contract written above *)
(* requireTransaction in infra/pocketbase/pb_hooks/catalog_lib.js.         *)
(***************************************************************************)
EXTENDS Naturals, Sequences

CONSTANT Parts

VARIABLES
  log,     \* the Changes, in seq order
  current  \* each part's current details and revision, 0 for none

vars == <<log, current>>

Position == [details : Nat, revision : Nat]
Nowhere == [details |-> 0, revision |-> 0]

\* A Change moves what it names; 0 leaves a pointer alone.  It is about one
\* part, or none.
Change ==
  {c \in [Parts -> Position] :
     \A p, q \in Parts : c[p] # Nowhere /\ c[q] # Nowhere => p = q}

Moved(old, new) == IF new = 0 THEN old ELSE new
Apply(state, c) ==
  [p \in Parts |-> [details |-> Moved(state[p].details, c[p].details),
                    revision |-> Moved(state[p].revision, c[p].revision)]]

Empty == [p \in Parts |-> Nowhere]

Init == log = <<>> /\ current = Empty

Publish(c) ==
  /\ log' = Append(log, c)
  /\ current' = Apply(current, c)

\* The Change published is the one the log gains.
Next ==
  /\ Len(log') = Len(log) + 1
  /\ log'[Len(log) + 1] \in Change
  /\ Publish(log'[Len(log) + 1])

Spec == Init /\ [][Next]_vars
=============================================================================
