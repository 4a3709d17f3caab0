------------------------------ MODULE MCAwards ------------------------------
(***************************************************************************)
(* Small instances of Awards for TLC.                                      *)
(***************************************************************************)
EXTENDS Awards, TLC

CONSTANTS
    SlowPage,    \* the page whose polls take long
    MaxRows,     \* bound: awardees an award has had
    a1, a2, b1   \* results: two of the runner a, one of the runner b

BibOfResult == (a1 :> "a") @@ (a2 :> "a") @@ (b1 :> "b")

FewRows == \A k \in Award : lastNum[k] <= MaxRows

FewPickUps == Cardinality({a \in awardees : a.picked}) <= 1

\* Bound: a runner leads both divisions, or loses the first one, or has another result.
FewStandings ==
    {s \in Standings : \A k \in Award :
       IF k[1] = 1 THEN s[k] # NoResult ELSE s[k] = a1 \/ s[<<1, 1>>] = a2}

\* At first every division gives all the awards it may.
BoundedInit == Init /\ published \in FewStandings /\ awards = [d \in Divisions |-> MaxPlace]

\* Bound: only the first division changes, or all are gone.
FewNumAwards ==
    {n \in NumAwards : \A d \in Divisions \ {1} : d \in DOMAIN n => n[d] = MaxPlace}

Quick == {p \in Pages \ {SlowPage} : ~At(p, "idle")}

\* Bound: nothing happens during the polls of other pages than SlowPage; while an update
\* of the divisions runs, polls end and nothing else happens; awards of the first division
\* are picked up.
BoundedNext ==
    \/ /\ Quick = {} /\ ~update.running
       /\ \/ \E s \in FewStandings : Publish(s)
          \/ \E p \in Pages : Open(p) \/ Fetch(p)
          \/ \E a \in awardees, was \in BOOLEAN : a.award[1] = 1 /\ PickUp(a, was)
          \/ BeginUpdate
    \/ Quick = {} /\ (Commit(SlowPage) \/ Fail(SlowPage))
    \/ Quick = {} /\ \E n \in FewNumAwards : CommitUpdate(n)
    \/ Quick = {} /\ FailUpdate
    \/ \E p \in Quick : Fetch(p) \/ Commit(p) \/ Fail(p)
=============================================================================
