-------------------------- MODULE MCPositionWizard --------------------------
(***************************************************************************)
(* Small instances of PositionWizard for TLC.                              *)
(***************************************************************************)
EXTENDS PositionWizard, FiniteSets, TLC

CONSTANTS MaxRows   \* bound: rows in the table at any time

\* Nothing tells members, qualifiers or requests apart but their identity.
Symmetric ==
  Permutations(Users) \union Permutations(Quals) \union Permutations(WizardRequests)

FewRows == Cardinality(rows) <= MaxRows

\* Bound: the table is written at most once while a request runs.
OneWriteNext == WizardNext \/ ((\A r \in running : r.read = rows) /\ DatesNext)
=============================================================================
