----------------------------- MODULE MCFollower -----------------------------
(***************************************************************************)
(* Small instances of Follower for TLC: two parts that are created, get    *)
(* new details and a new revision, and whose current revision moves back   *)
(* when the new one is archived; a Change may also move no part.           *)
(***************************************************************************)
EXTENDS Follower

CONSTANTS p, q

BothParts == {p, q}

About(part, d, r) ==
  [x \in BothParts |-> [details |-> IF x = part THEN d ELSE 0,
                        revision |-> IF x = part THEN r ELSE 0]]

Kinds == {About(p, 1, 1), About(p, 2, 2), About(p, 0, 1), About(q, 0, 0)}
=============================================================================
