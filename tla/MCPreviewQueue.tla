--------------------------- MODULE MCPreviewQueue ---------------------------
(***************************************************************************)
(* Small instances of PreviewQueue for TLC.  A request names its entry and *)
(* selection: E1 and E1b are for entry E and selection 1, E0 for none.     *)
(***************************************************************************)
EXTENDS PreviewQueue

CONSTANTS E, F, G, E1, E1b, E2, E0, F2, G0, noOne

Last == 2
Never == Last + 1

For(entry, selection) == [entry |-> entry, selection |-> selection]
Meaning(r) ==
  CASE r \in {E1, E1b} -> For(E, 1) [] r = E2 -> For(E, 2) [] r = E0 -> For(E, Never)
    [] r = F2 -> For(F, 2) [] r = G0 -> For(G, Never)

UpToLast == 1..Last
ThreeEntries == {E, F, G}
EntryIn == [r \in Requests |-> Meaning(r).entry]
SelectionIn == [r \in Requests |-> Meaning(r).selection]

\* Two parts that share an entry and differ in another, and a request
\* without a selection that shares it as well.
SharedEntry == {E1, E2, E0, F2}
\* A part is selected whose symbol is F and whose footprint is E, which the
\* part selected before has as well.
SharedFootprint == {E1, E2, F2}
\* No export is joined by a newer selection than its first request's.
SameSelection == {E1, E1b, F2, G0}
=============================================================================
