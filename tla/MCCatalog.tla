----------------------------- MODULE MCCatalog -----------------------------
(***************************************************************************)
(* Small instances of Catalog for TLC.  Each correlation ID carries out at *)
(* most one request that changes something, so |Correlations| bounds the   *)
(* Changes and answers; Numbers bounds what a request can name.            *)
(***************************************************************************)
EXTENDS Catalog, TLC

CONSTANTS p1, p2, ann, bob, c1, c2, c3, c4, c5, setup, res, cap, x, y,
          sym, A, B, MA, none

TwoParts == {p1, p2}
OneActor == {ann}
TwoActors == {ann, bob}
SetupClashes == {c1, c2, setup}
FiveCorrelations == {c1, c2, c3, c4, c5}
OneCategory == {res}
TwoCategories == {res, cap}
OneField == {x}
TwoFields == {x, y}
OneItem == {sym}
OneContent == {A}
TwoContents == {A, B}
OneCode == {MA}
NoCodes == {}
UpTo3 == 1..3

\* Correlation IDs are interchangeable, and so are the contents of files.
Interchangeable == Permutations(Correlations \ {setup}) \cup Permutations(Contents)
=============================================================================
