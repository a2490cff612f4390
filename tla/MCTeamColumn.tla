---------------------------- MODULE MCTeamColumn ----------------------------
(***************************************************************************)
(* TeamColumn with one part in each of two teams, and contents of which    *)
(* some name a CAD item the Catalog may lack.                              *)
(***************************************************************************)
EXTENDS TeamColumn

CONSTANTS P, Q, T, U, X, A, B, C, I

OnePart == {P}
TwoParts == {P, Q}
MCTeamOf == [p \in Parts |-> IF p = P THEN T ELSE U]
SameIpn == [p \in Parts |-> X]
BNeedsItem == [c \in Contents |-> IF c = B THEN I ELSE NoItem]
=============================================================================
