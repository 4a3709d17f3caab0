------------------------------- MODULE Awards -------------------------------
(***************************************************************************)
(* The awards of one race event (awards_admin.py).  RunSignup publishes    *)
(* results with the places they take in the divisions; the table of        *)
(* awardees follows them, and keeps who has picked up an award.            *)
(*                                                                         *)
(* Every open Race Awards page polls.  A poll changes the table: it reads  *)
(* divisions and awardees (Open), has the results sent by RunSignup        *)
(* (Fetch), writes what they change (Commit), and answers with the active  *)
(* awardees.  The reads before the first write see the database as it      *)
(* was at Open, and awardees have no version_id, so polls of several pages *)
(* and clicks on them interleave freely.  A page does one thing at a time  *)
(* (awards_mutex in raceawards.js).                                        *)
(*                                                                         *)
(* The awards administrator brings the divisions up to date with RunSignup *)
(* (Update of the Award Races view).  A page has a cell for every place;   *)
(* that it is to be reloaded when the divisions change is left out, as are *)
(* notes and changes of a division's priority.                             *)
(***************************************************************************)
EXTENDS Integers, FiniteSets

CONSTANTS
    NumDivisions, \* divisions are 1 .. NumDivisions, in the order of their priority
    MaxPlace,     \* the last place a division may give an award for
    Results,      \* results (result_id) RunSignup may come to publish
    Bib,          \* the bib number of each of them
    NoResult,     \* nobody is on a place
    Pages,        \* open Race Awards pages
    MaxChanges,   \* bound: how often RunSignup publishes other results
    MaxUpdates    \* bound: how often the divisions are brought up to date

ASSUME SizesAssumption ==
    NumDivisions \in Nat /\ MaxPlace \in Nat /\ MaxChanges \in Nat /\ MaxUpdates \in Nat
ASSUME NamesAssumption == NoResult \notin Results /\ Results \subseteq DOMAIN Bib

VARIABLES
    published,   \* RunSignup: which result is on each place of each division
    awards,      \* num_awards of each division there is
    awardees,    \* the table of awardees
    lastNum,     \* the last num of each award: ids are not used again
    poll,        \* each page's poll
    update,      \* the awardees an update of the divisions has read; NoUpdate if none runs
    changes,     \* how often the results have changed
    updates      \* how often the divisions have been brought up to date

awardsVars == <<published, awards, awardees, lastNum, poll, update, changes, updates>>

-----------------------------------------------------------------------------
Divisions == 1..NumDivisions

Award == Divisions \X (1..MaxPlace)

\* What RunSignup may publish: a result has one place in a division, and a bib one result.
Standings ==
    {s \in [Award -> Results \union {NoResult}] :
        \A k, l \in Award : (k # l /\ s[k] # NoResult /\ s[l] # NoResult) =>
            /\ s[k] = s[l] => k[1] # l[1]
            /\ Bib[s[k]] = Bib[s[l]] => s[k] = s[l]}

\* num_awards of the divisions there are
NumAwards == UNION {[D -> 0..MaxPlace] : D \in SUBSET Divisions}

\* An awardee; num tells those of an award apart, in the order of their ids. next is the
\* awardee who replaced this one after it was picked up, 0 if there is none: the column
\* prev_awardee_id, which the relationship keeps in the row of the one who was replaced.
Awardee == [award : Award, num : Nat \ {0}, result : Results,
            active : BOOLEAN, picked : BOOLEAN, next : Nat]

Id(a) == <<a.award, a.num>>

Ids(A) == {Id(a) : a \in A}

NoUpdate == [running |-> FALSE, read |-> {}]

Active(A, k) == {a \in A : a.award = k /\ a.active}

LastAwardee(A) == CHOOSE a \in A : \A b \in A : b.num <= a.num

\* Is k an award, with the numbers of awards n?
Given(n, k) == k[1] \in DOMAIN n /\ k[2] <= n[k[1]]

-----------------------------------------------------------------------------
(* What a poll q does, with the awardees and numbers of awards it read and the results *)

(* Definitions whose names say what a bug would make of the one below are mutants of it. *)

\* award_placement: the active awardee of the award k
Held(q, k) == Active(q.read, k)

\* an award is not given again
DueOnce(q, r) ==
    {k \in Award : q.standing[k] = r /\ Given(q.awards, k) /\ Held(q, k) = {}}

\* The places where a result would get an award that it does not have yet
Due(q, r) ==
    {k \in Award : /\ q.standing[k] = r
                   /\ Given(q.awards, k)
                   /\ Held(q, k) # {} => LastAwardee(Held(q, k)).result # r}

\* A result gets the first of them, by the priority of the divisions.
Won(q) == {k \in Award : q.standing[k] \in Results /\ k \in Due(q, q.standing[k])
              /\ \A l \in Due(q, q.standing[k]) : k[1] <= l[1]}

\* a new result is a new awardee
RecomputedNever(q) == {}

\* The award has a result of the same bib number: only its result is updated.
Recomputed(q) ==
    {k \in Won(q) : Held(q, k) # {} /\ Bib[LastAwardee(Held(q, k)).result] = Bib[q.standing[k]]}

\* A row that is to be inserted or updated is of a division that was deleted meanwhile.
Refused(q) == \E k \in Won(q) : k[1] \in q.gone

\* Somebody else has the award, and loses it.
Replaced(q) == {k \in Won(q) \ Recomputed(q) : Held(q, k) # {}}

\* Awards with a new awardee
Entered(q) == Won(q) \ Recomputed(q)

FreshNum(k) == lastNum[k] + 1

\* pick-ups are not told to the next awardee
UnlinkedRow(q, a) ==
    IF a.award \notin Won(q) \/ Held(q, a.award) = {} THEN a
    ELSE IF Id(a) # Id(LastAwardee(Held(q, a.award))) THEN a
    ELSE IF a.award \in Recomputed(q) THEN [a EXCEPT !.result = q.standing[a.award]]
    ELSE [a EXCEPT !.active = FALSE]

\* the one who loses an award keeps it
KeptRow(q, a) ==
    IF a.award \in Recomputed(q) /\ Id(a) = Id(LastAwardee(Held(q, a.award)))
    THEN [a EXCEPT !.result = q.standing[a.award]] ELSE a

\* What becomes of an awardee; that it was picked up is what the poll read.
PolledRow(q, a) ==
    LET k == a.award IN
    IF k \notin Won(q) \/ Held(q, k) = {} THEN a
    ELSE IF Id(a) # Id(LastAwardee(Held(q, k))) THEN a
    ELSE IF k \in Recomputed(q) THEN [a EXCEPT !.result = q.standing[k]]
    ELSE IF LastAwardee(Held(q, k)).picked THEN [a EXCEPT !.active = FALSE, !.next = FreshNum(k)]
    ELSE [a EXCEPT !.active = FALSE]

-----------------------------------------------------------------------------
\* The awardee whom a replaced ...
Prev(A, a) == {b \in A : b.award = a.award /\ b.next = a.num}

\* ... makes the cell yellow if they picked the award up, until a does, too.
Warn(A, a) == ~a.picked /\ \E b \in Prev(A, a) : b.picked

Idle == [phase |-> "idle", read |-> {}, awards |-> <<>>,
         standing |-> [k \in Award |-> NoResult], gone |-> {}]

Init ==
    /\ published \in Standings
    /\ awards \in [Divisions -> 0..MaxPlace]
    /\ awardees = {}
    /\ lastNum = [k \in Award |-> 0]
    /\ poll = [p \in Pages |-> Idle]
    /\ update = NoUpdate
    /\ changes = 0
    /\ updates = 0

\* RunSignup has other results: corrections, disqualifications, a new computation.
Publish(s) ==
    /\ changes < MaxChanges
    /\ s # published
    /\ published' = s
    /\ changes' = changes + 1
    /\ UNCHANGED <<awards, awardees, lastNum, poll, update, updates>>

At(p, from) == poll[p].phase = from

\* An event without divisions is deleted: it is not found.
Open(p) ==
    /\ At(p, "idle")
    /\ DOMAIN awards # {}
    /\ poll' = [poll EXCEPT ![p] = [Idle EXCEPT !.phase = "open", !.read = awardees, !.awards = awards]]
    /\ UNCHANGED <<published, awards, awardees, lastNum, update, changes, updates>>

Fetch(p) ==
    /\ At(p, "open")
    /\ poll' = [poll EXCEPT ![p].phase = "fetched", ![p].standing = published]
    /\ UNCHANGED <<published, awards, awardees, lastNum, update, changes, updates>>

Commit(p) ==
    LET q == poll[p] IN
    /\ At(p, "fetched")
    /\ ~Refused(q)
    /\ poll' = [poll EXCEPT ![p] = Idle]
    /\ awardees' = {PolledRow(q, a) : a \in awardees} \union
           {[award |-> k, num |-> FreshNum(k), result |-> q.standing[k],
             active |-> TRUE, picked |-> FALSE, next |-> 0] : k \in Entered(q)}
    /\ lastNum' = [k \in Award |-> IF k \in Entered(q) THEN FreshNum(k) ELSE lastNum[k]]
    /\ UNCHANGED <<published, awards, update, changes, updates>>

\* RunSignup or the database fails; it polls again.
Fail(p) ==
    /\ ~At(p, "idle")
    /\ poll' = [poll EXCEPT ![p] = Idle]
    /\ UNCHANGED <<published, awards, awardees, lastNum, update, changes, updates>>

\* A click on a cell: AwardPickUpApi sets picked_up to what the cell did not show, for the
\* awardee the cell was filled with.
PickUp(a, was) ==
    /\ awardees' = (awardees \ {a}) \union {[a EXCEPT !.picked = ~was]}
    /\ UNCHANGED <<published, awards, lastNum, poll, update, changes, updates>>

\* AwardRaceView.update_divisions reads the divisions with their awardees, and RunSignup's divisions.
BeginUpdate ==
    /\ updates < MaxUpdates
    /\ ~update.running
    /\ update' = [running |-> TRUE, read |-> awardees]
    /\ updates' = updates + 1
    /\ UNCHANGED <<published, awards, awardees, lastNum, poll, changes>>

Deleted(n) == DOMAIN awards \ DOMAIN n

\* The divisions come to be as RunSignup has them, n: awardees on places without an award
\* are no longer active, and divisions go with their awardees.  It fails for a division
\* with awardees it does not know of, which refer to the division.
CommitUpdate(n) ==
    /\ update.running
    /\ \A a \in awardees : a.award[1] \in Deleted(n) => Id(a) \in Ids(update.read)
    /\ awards' = n
    /\ awardees' =
         {IF /\ n[a.award[1]] < awards[a.award[1]] /\ a.award[2] > n[a.award[1]]
             /\ \E b \in update.read : Id(b) = Id(a) /\ b.active
          THEN [a EXCEPT !.active = FALSE] ELSE a
            : a \in {b \in awardees : b.award[1] \notin Deleted(n)}}
    /\ poll' = [p \in Pages |-> IF At(p, "idle") THEN poll[p]
                                ELSE [poll[p] EXCEPT !.gone = @ \union Deleted(n)]]
    /\ update' = NoUpdate
    /\ UNCHANGED <<published, lastNum, changes, updates>>

FailUpdate ==
    /\ update.running
    /\ update' = NoUpdate
    /\ UNCHANGED <<published, awards, awardees, lastNum, poll, changes, updates>>

Polls(p) == Open(p) \/ Fetch(p) \/ Commit(p) \/ Fail(p)

Next ==
    \/ \E s \in Standings : Publish(s)
    \/ \E p \in Pages : Polls(p)
    \/ \E a \in awardees, was \in BOOLEAN : PickUp(a, was)
    \/ BeginUpdate \/ (\E n \in NumAwards : CommitUpdate(n)) \/ FailUpdate

Spec == Init /\ [][Next]_awardsVars

-----------------------------------------------------------------------------
(* Properties *)

\* Types; ids are unique, and every awardee is of a division there is, whatever was deleted
\* while polls were running.
TypeOK ==
    /\ published \in Standings
    /\ awards \in NumAwards
    /\ awardees \subseteq Awardee
    /\ \A a, b \in awardees : Id(a) = Id(b) => a = b
    /\ \A a \in awardees : a.award[1] \in DOMAIN awards /\ a.num <= lastNum[a.award]
    /\ \A p \in Pages :
         /\ poll[p].phase \in {"idle", "open", "fetched"}
         /\ poll[p].read \subseteq Awardee /\ poll[p].standing \in Standings
         /\ poll[p].gone \subseteq Divisions

(***************************************************************************)
(* A poll that no other has overtaken with a new awardee gives no award    *)
(* twice, whatever was clicked and updated since it began.                 *)
(***************************************************************************)
OneActiveEach ==
    [][\A p \in Pages : Commit(p) /\ Ids(poll[p].read) = Ids(awardees) =>
          \A k \in Award : Cardinality(Active(awardees', k)) > 1
                              => Cardinality(Active(awardees, k)) > 1]_awardsVars

(***************************************************************************)
(* Who keeps their place in results that were computed anew keeps the      *)
(* award, as picked up as it is now, even if that was clicked while the    *)
(* poll was running.                                                       *)
(***************************************************************************)
AwardsKept ==
    [][\A p \in Pages, a \in awardees :
          Commit(p) /\ a.active /\ poll[p].standing[a.award] \in Results
              /\ Bib[poll[p].standing[a.award]] = Bib[a.result]
          => \E b \in awardees' : Id(b) = Id(a) /\ b.active /\ b.picked = a.picked]_awardsVars

(***************************************************************************)
(* When a poll takes an award from somebody who it knows has picked it up, *)
(* the cell of the one who gets it turns yellow.                           *)
(***************************************************************************)
ReplacementWarns ==
    [][\A p \in Pages, a \in awardees :
          Commit(p) /\ a \in poll[p].read /\ a.active /\ a.picked
              /\ Id(a) \notin Ids({b \in awardees' : b.active})
          => \E b \in Active(awardees', a.award) : Warn(awardees', b)]_awardsVars

(***************************************************************************)
(* A poll that read the table as it still is brings it up to date: who is  *)
(* on a place with an award, and on no other, has the award from then on.  *)
(***************************************************************************)
PollFollows ==
    [][\A p \in Pages : Commit(p) /\ poll[p].read = awardees =>
          \A k \in Award :
              LET r == poll[p].standing[k] IN
              /\ r # NoResult /\ Given(poll[p].awards, k)
              /\ \A l \in Award \ {k} : poll[p].standing[l] # r
              => \E a \in Active(awardees', k) : a.result = r]_awardsVars

=============================================================================
