---------------------------- MODULE AwardsProofs ----------------------------
(***************************************************************************)
(* Proofs about Awards: for any number of divisions, places, pages and     *)
(* results, however often results are published and divisions updated; and *)
(* about the racing team, for any forms, members and ranges.               *)
(***************************************************************************)
EXTENDS Awards, RacingTeam, SetFacts

-----------------------------------------------------------------------------
(* The inductive invariant, with A for a table of awardees, L for the last *)
(* numbers of the awards and R for the rows a poll or an update has read.  *)

TableOK(A, L) ==
    /\ IsFiniteSet(A) /\ A \subseteq Awardee
    /\ \A a, b \in A : Id(a) = Id(b) => a = b
    /\ \A a \in A : a.num <= L[a.award]

\* Rows are not made active again, and their results stay the runner's.
ReadFades(R, A) ==
    \A a \in A, b \in R : Id(a) = Id(b) => /\ a.active => b.active
                                           /\ Bib[a.result] = Bib[b.result]

\* All that came before a row that was read was read, too.
ReadWhole(R, A) == \A a \in A, b \in R : a.award = b.award /\ a.num <= b.num => Id(a) \in Ids(R)

\* An older row stays active when a row that was read is deactivated only if a new one came.
OvertakenBy(R, A, k) == \E n \in A : n.award = k /\ Id(n) \notin Ids(R)

LastFalls(R, A) ==
    \A a, c \in A, b \in R :
      /\ Id(c) = Id(b) /\ b.active /\ ~ c.active
      /\ a.award = c.award /\ a.active /\ a.num < c.num
      => OvertakenBy(R, A, c.award)

SinceRead(R, A, L) ==
    TableOK(R, L) /\ ReadFades(R, A) /\ ReadWhole(R, A) /\ LastFalls(R, A)

Poll == [phase : {"idle", "open", "fetched"}, read : SUBSET Awardee, awards : NumAwards \union {<<>>},
         standing : Standings, gone : SUBSET Divisions]

\* n: the numbers of awards of the divisions there are.
PollOK(q, A, L, n) ==
    /\ q \in Poll /\ SinceRead(q.read, A, L)
    /\ q.phase # "idle" => q.awards \in NumAwards /\ DOMAIN q.awards \subseteq DOMAIN n \union q.gone

AwardsInv ==
    /\ published \in Standings /\ awards \in NumAwards /\ lastNum \in [Award -> Nat]
    /\ TableOK(awardees, lastNum)
    /\ \A a \in awardees : a.award[1] \in DOMAIN awards
    /\ DOMAIN poll = Pages /\ \A p \in Pages : PollOK(poll[p], awardees, lastNum, awards)
    /\ SinceRead(update.read, awardees, lastNum)

-----------------------------------------------------------------------------
(* How a step may change the table, and what it leaves of what was read    *)

\* The table A with last numbers L becomes B.
Evolved(A, L, B) ==
    /\ \A b \in B : \/ b.num > L[b.award]
                    \/ \E a \in A : /\ Id(a) = Id(b) /\ (b.active => a.active)
                                    /\ Bib[a.result] = Bib[b.result]
    /\ \A a \in A, b \in B : a.award = b.award => Id(a) \in Ids(B)
    /\ \A a \in A, b \in B : Id(a) = Id(b) /\ a.active /\ ~ b.active =>
         \/ \E n \in B : n.award = b.award /\ n.num > L[n.award]
         \/ \A x \in B : x.award = b.award /\ x.active => x.num >= b.num

LEMMA IdIs ==
    ASSUME NEW a, NEW b
    PROVE  Id(a) = Id(b) <=> a.award = b.award /\ a.num = b.num
BY DEF Id

LEMMA EvolvedSince ==
    ASSUME NEW A, NEW L \in [Award -> Nat], TableOK(A, L),
           NEW B, NEW M \in [Award -> Nat], TableOK(B, M), \A k \in Award : L[k] <= M[k],
           Evolved(A, L, B), NEW R, SinceRead(R, A, L)
    PROVE  SinceRead(R, B, M)
<1>1. /\ \A b \in B : b.award \in Award /\ b.num \in Nat
      /\ \A b \in R : b.award \in Award /\ b.num \in Nat /\ b.num <= L[b.award]
      /\ \A a \in A : a.award \in Award /\ a.num \in Nat /\ a.num <= L[a.award]
  BY DEF TableOK, SinceRead, Awardee
<1>2. TableOK(R, M)
  <2>1. \A b \in R : b.num <= M[b.award]
    BY <1>1
  <2> QED BY <2>1 DEF SinceRead, TableOK
\* A row of the new table is new to R, or is one of the old.
<1>3. \A b \in B : \/ \A r \in R : r.award = b.award => r.num < b.num
                   \/ \E a \in A : /\ a.award = b.award /\ a.num = b.num /\ (b.active => a.active)
                                   /\ Bib[a.result] = Bib[b.result]
  <2> SUFFICES ASSUME NEW b \in B
               PROVE  \/ \A r \in R : r.award = b.award => r.num < b.num
                      \/ \E a \in A : /\ a.award = b.award /\ a.num = b.num /\ (b.active => a.active)
                                      /\ Bib[a.result] = Bib[b.result]
    OBVIOUS
  <2>1. CASE b.num > L[b.award]
    BY <1>1, <2>1
  <2>2. CASE \E a \in A : Id(a) = Id(b) /\ (b.active => a.active) /\ Bib[a.result] = Bib[b.result]
    BY <2>2, IdIs
  <2> QED BY <2>1, <2>2 DEF Evolved
<1>4. ReadFades(R, B)
  <2> SUFFICES ASSUME NEW b \in B, NEW r \in R, Id(b) = Id(r)
               PROVE  (b.active => r.active) /\ Bib[b.result] = Bib[r.result]
    BY DEF ReadFades
  <2>1. r.award = b.award /\ r.num = b.num
    BY IdIs
  <2>2. PICK a \in A : /\ a.award = b.award /\ a.num = b.num /\ (b.active => a.active)
                       /\ Bib[a.result] = Bib[b.result]
    BY <1>1, <1>3, <2>1
  <2>3. Id(a) = Id(r)
    BY <2>1, <2>2, IdIs
  <2> QED BY <2>2, <2>3 DEF SinceRead, ReadFades
<1>5. ReadWhole(R, B)
  <2> SUFFICES ASSUME NEW b \in B, NEW r \in R, b.award = r.award, b.num <= r.num
               PROVE  Id(b) \in Ids(R)
    BY DEF ReadWhole
  <2>1. PICK a \in A : a.award = b.award /\ a.num = b.num
    BY <1>1, <1>3
  <2>2. Id(a) \in Ids(R) /\ Id(a) = Id(b)
    BY <2>1, IdIs DEF SinceRead, ReadWhole
  <2> QED BY <2>2
<1>6. LastFalls(R, B)
  <2> SUFFICES ASSUME NEW x \in B, NEW c \in B, NEW r \in R, Id(c) = Id(r), r.active, ~ c.active,
                      x.award = c.award, x.active, x.num < c.num
               PROVE  OvertakenBy(R, B, c.award)
    BY DEF LastFalls
  <2>1. ASSUME NEW n \in B, n.award = c.award, n.num > L[n.award]
        PROVE  OvertakenBy(R, B, c.award)
    <3>1. Id(n) \notin Ids(R)
      <4> SUFFICES ASSUME NEW s \in R, Id(s) = Id(n) PROVE FALSE
        BY DEF Ids
      <4>1. s.award = n.award /\ s.num = n.num
        BY IdIs
      <4> QED BY <1>1, <2>1, <4>1
    <3> QED BY <2>1, <3>1 DEF OvertakenBy
  <2>2. r.award = c.award /\ r.num = c.num
    BY IdIs
  <2>3. PICK c0 \in A : c0.award = c.award /\ c0.num = c.num
    BY <1>1, <1>3, <2>2
  <2>4. PICK x0 \in A : x0.award = x.award /\ x0.num = x.num /\ x0.active
    BY <1>1, <1>3, <2>2
  <2>5. Id(c0) = Id(c) /\ Id(c0) = Id(r)
    BY <2>2, <2>3, IdIs
  <2>6. CASE c0.active
    <3>1. ~ \A y \in B : y.award = c.award /\ y.active => y.num >= c.num
      BY <1>1
    <3> QED BY <2>1, <2>5, <2>6, <3>1 DEF Evolved
  <2>7. CASE ~ c0.active
    <3>1. OvertakenBy(R, A, c0.award)
      BY <2>3, <2>4, <2>5, <2>7 DEF SinceRead, LastFalls
    <3>2. PICK n \in A : n.award = c.award /\ Id(n) \notin Ids(R)
      BY <2>3, <3>1 DEF OvertakenBy
    <3>3. Id(n) \in Ids(B)
      BY <3>2 DEF Evolved
    <3>4. PICK n2 \in B : Id(n2) = Id(n)
      BY <3>3 DEF Ids
    <3> QED BY <3>2, <3>4, IdIs DEF OvertakenBy
  <2> QED BY <2>6, <2>7
<1> QED BY <1>2, <1>4, <1>5, <1>6 DEF SinceRead

\* What is read now is the table as it is.
LEMMA ReadNow ==
    ASSUME NEW A, NEW L \in [Award -> Nat], TableOK(A, L)
    PROVE  SinceRead(A, A, L)
<1>1. ReadFades(A, A)
  BY DEF ReadFades, TableOK
<1>2. ReadWhole(A, A)
  BY DEF ReadWhole, Ids
<1>3. LastFalls(A, A)
  BY DEF LastFalls, TableOK
<1> QED BY <1>1, <1>2, <1>3 DEF SinceRead

LEMMA NothingRead ==
    ASSUME NEW A, NEW L
    PROVE  SinceRead({}, A, L)
BY FS_EmptySet DEF SinceRead, TableOK, ReadFades, ReadWhole, LastFalls

-----------------------------------------------------------------------------
(* What a poll does                                                        *)

LEMMA LastIs ==
    ASSUME NEW A, A \subseteq Awardee, IsFiniteSet(A), A # {}
    PROVE  LastAwardee(A) \in A /\ \A b \in A : b.num <= LastAwardee(A).num
<1> DEFINE f == [a \in A |-> a.num]
<1>1. f \in [A -> Nat]
  BY DEF Awardee
<1>2. IsFiniteSet({f[a] : a \in A})
  <2> HIDE DEF f
  <2> QED BY <1>1, ImageFinite
<1>3. {f[a] : a \in A} \subseteq Int /\ {f[a] : a \in A} # {}
  BY <1>1
<1>4. \E n \in {f[a] : a \in A} : \A x \in {f[a] : a \in A} : n >= x
  <2> HIDE DEF f
  <2> QED BY <1>2, <1>3, FiniteExtremes
<1>5. \E a \in A : \A b \in A : b.num <= a.num
  BY <1>1, <1>4
<1> QED BY <1>5 DEF LastAwardee

\* The awardee that a poll q takes the place k to have, if there is one.
LEMMA HeldIs ==
    ASSUME NEW q, q.read \subseteq Awardee, IsFiniteSet(q.read), NEW k, Held(q, k) # {}
    PROVE  /\ LastAwardee(Held(q, k)) \in q.read
           /\ LastAwardee(Held(q, k)).award = k /\ LastAwardee(Held(q, k)).active
           /\ \A b \in q.read : b.award = k /\ b.active => b.num <= LastAwardee(Held(q, k)).num
<1> DEFINE H == Held(q, k)
<1>1. H \in SUBSET q.read /\ \A b \in H : b.award = k /\ b.active
  BY DEF Held, Active
<1>2. IsFiniteSet(H) /\ H \subseteq Awardee
  BY <1>1, FS_Subset
<1> HIDE DEF H
<1>3. LastAwardee(H) \in H /\ \A b \in H : b.num <= LastAwardee(H).num
  BY <1>2, LastIs DEF H
<1>4. \A b \in q.read : b.award = k /\ b.active => b \in H
  BY DEF H, Held, Active
<1> QED BY <1>1, <1>3, <1>4 DEF H

LEMMA WonIs ==
    ASSUME NEW q, NEW k \in Won(q)
    PROVE  /\ k \in Award /\ q.standing[k] \in Results /\ Given(q.awards, k)
           /\ k \in Entered(q) <=> k \notin Recomputed(q)
BY DEF Won, Due, Entered

\* A row after the poll, of the same awardee and runner.
LEMMA PolledIs ==
    ASSUME AwardsInv, NEW q, PollOK(q, awardees, lastNum, awards), NEW a \in awardees
    PROVE  LET b == PolledRow(q, a)
           IN /\ b \in Awardee /\ b.award = a.award /\ b.num = a.num /\ b.picked = a.picked
              /\ b.active => a.active
              /\ a.active /\ ~ b.active =>
                   /\ a.award \in Entered(q) /\ Held(q, a.award) # {}
                   /\ Id(a) = Id(LastAwardee(Held(q, a.award)))
              /\ Bib[b.result] = Bib[a.result]
<1> DEFINE k == a.award
           n == FreshNum(k)
           r == q.standing[k]
           l == LastAwardee(Held(q, k))
           b == PolledRow(q, a)
<1>1. a \in Awardee /\ k \in Award /\ n \in Nat
  BY DEF AwardsInv, TableOK, Awardee, FreshNum
<1>2. CASE k \notin Won(q) \/ Held(q, k) = {}
  BY <1>1, <1>2 DEF PolledRow
<1>3. CASE k \in Won(q) /\ Held(q, k) # {} /\ Id(a) # Id(l)
  BY <1>1, <1>3 DEF PolledRow
<1>4. CASE k \in Won(q) /\ Held(q, k) # {} /\ Id(a) = Id(l) /\ k \in Recomputed(q)
  <2>1. b = [a EXCEPT !.result = r]
    BY <1>4 DEF PolledRow
  <2>2. r \in Results
    BY <1>4, WonIs
  <2>3. Bib[l.result] = Bib[r]
    BY <1>4 DEF Recomputed
  <2>4. l \in q.read
    BY <1>4, HeldIs DEF PollOK, SinceRead, TableOK
  <2>5. Bib[a.result] = Bib[l.result]
    <3> HIDE DEF l
    <3> QED BY <1>4, <2>4 DEF PollOK, SinceRead, ReadFades
  <2> HIDE DEF r, l, b
  <2>6. /\ b \in Awardee /\ b.award = k /\ b.num = a.num /\ b.picked = a.picked
        /\ b.active = a.active /\ b.result = r
    BY <1>1, <2>1, <2>2 DEF Awardee
  <2> QED BY <2>3, <2>5, <2>6 DEF b
<1>5. CASE k \in Won(q) /\ Held(q, k) # {} /\ Id(a) = Id(l) /\ k \notin Recomputed(q)
  <2>1. b = [a EXCEPT !.active = FALSE, !.next = n] \/ b = [a EXCEPT !.active = FALSE]
    BY <1>5 DEF PolledRow
  <2>2. k \in Entered(q)
    BY <1>5, WonIs
  <2> HIDE DEF b, n
  <2>3. /\ b \in Awardee /\ b.award = k /\ b.num = a.num /\ b.picked = a.picked
        /\ ~ b.active /\ b.result = a.result
    BY <1>1, <2>1 DEF Awardee
  <2> QED BY <1>5, <2>2, <2>3 DEF b
<1> QED BY <1>2, <1>3, <1>4, <1>5

-----------------------------------------------------------------------------
(* The steps                                                               *)

NewRow(q, k) == [award |-> k, num |-> FreshNum(k), result |-> q.standing[k],
                 active |-> TRUE, picked |-> FALSE, next |-> 0]

LEMMA NewRowIs ==
    ASSUME AwardsInv, NEW q, NEW k \in Entered(q)
    PROVE  /\ NewRow(q, k) \in Awardee /\ NewRow(q, k).award = k /\ k \in Award
           /\ NewRow(q, k).num = lastNum[k] + 1 /\ lastNum[k] \in Nat
           /\ NewRow(q, k).active /\ NewRow(q, k).result = q.standing[k]
<1>1. k \in Award /\ q.standing[k] \in Results
  BY WonIs DEF Entered
<1>2. lastNum[k] \in Nat
  BY <1>1 DEF AwardsInv
<1> QED BY <1>1, <1>2 DEF NewRow, FreshNum, Awardee

LEMMA AwardFinite == IsFiniteSet(Award)
<1>1. IsFiniteSet(1..NumDivisions) /\ IsFiniteSet(1..MaxPlace)
  BY FS_Interval, SizesAssumption
<1> QED BY <1>1, FS_Product DEF Award, Divisions

\* The table after a poll.
LEMMA CommitEvolves ==
    ASSUME AwardsInv, NEW p \in Pages, Commit(p)
    PROVE  /\ TableOK(awardees', lastNum') /\ lastNum' \in [Award -> Nat]
           /\ \A k \in Award : lastNum[k] <= lastNum'[k]
           /\ Evolved(awardees, lastNum, awardees')
           /\ \A b \in awardees' : b.award[1] \in DOMAIN awards
<1> DEFINE q == poll[p]
           E == Entered(q)
           f == [a \in awardees |-> PolledRow(q, a)]
           g == [k \in E |-> NewRow(q, k)]
           Old == {f[a] : a \in awardees}
           New == {g[k] : k \in E}
<1>1. /\ PollOK(q, awardees, lastNum, awards) /\ q.phase # "idle" /\ ~ Refused(q)
      /\ awardees' = {PolledRow(q, a) : a \in awardees} \union {NewRow(q, k) : k \in E}
      /\ lastNum' = [k \in Award |-> IF k \in E THEN FreshNum(k) ELSE lastNum[k]]
  BY DEF AwardsInv, Commit, At, NewRow
<1>2. awardees' = Old \union New
  BY <1>1
<1>3. /\ IsFiniteSet(awardees) /\ awardees \subseteq Awardee
      /\ \A a, b \in awardees : Id(a) = Id(b) => a = b
      /\ \A a \in awardees : a.num <= lastNum[a.award]
      /\ lastNum \in [Award -> Nat] /\ \A a \in awardees : a.award[1] \in DOMAIN awards
  BY DEF AwardsInv, TableOK
<1> HIDE DEF q
<1>4. \A a \in awardees :
        /\ f[a] \in Awardee /\ f[a].award = a.award /\ f[a].num = a.num /\ Bib[f[a].result] = Bib[a.result]
        /\ f[a].active => a.active
        /\ a.active /\ ~ f[a].active => a.award \in E
  BY <1>1, PolledIs
<1>5. \A k \in E : /\ g[k] \in Awardee /\ g[k].award = k /\ k \in Award
                    /\ g[k].num = lastNum[k] + 1 /\ lastNum[k] \in Nat /\ lastNum'[k] = lastNum[k] + 1
  BY <1>1, NewRowIs DEF FreshNum
<1>6. IsFiniteSet(Old)
  <2>1. f \in [awardees -> Awardee]
    BY <1>4
  <2>2. IsFiniteSet(awardees)
    BY <1>3
  <2> HIDE DEF f
  <2>3. IsFiniteSet({f[a] : a \in awardees})
    BY <2>1, <2>2, ImageFinite
  <2> QED BY <2>3
<1>7. IsFiniteSet(New)
  <2>1. g \in [E -> Awardee] /\ E \subseteq Award
    BY <1>5
  <2>2. IsFiniteSet(E)
    BY <2>1, AwardFinite, FS_Subset
  <2> HIDE DEF g, E
  <2> QED BY <2>1, <2>2, ImageFinite
<1>8. \A b \in awardees' : (\E a \in awardees : b = f[a]) \/ (\E k \in E : b = g[k])
  BY <1>2
<1>9. (\A a \in awardees : f[a] \in awardees') /\ (\A k \in E : g[k] \in awardees')
  BY <1>2
<1>10. lastNum' \in [Award -> Nat] /\ \A k \in Award : lastNum[k] <= lastNum'[k]
  BY <1>1, <1>3 DEF FreshNum
<1>11. \A k \in E : k[1] \in DOMAIN awards
  BY <1>1, WonIs DEF PollOK, Refused, Given, Entered
<1> HIDE DEF f, g, E, Old, New
<1>12. awardees' \subseteq Awardee /\ IsFiniteSet(awardees')
  <2>1. IsFiniteSet(Old \union New)
    BY <1>6, <1>7, FS_Union
  <2> QED BY <1>2, <1>4, <1>5, <1>8, <2>1
<1>13. \A a \in awardees : a.award \in Award /\ a.num \in Nat /\ a.num <= lastNum'[a.award]
  BY <1>3, <1>10 DEF Awardee
<1>14. \A a, b \in awardees' : Id(a) = Id(b) => a = b
  <2> SUFFICES ASSUME NEW a \in awardees', NEW b \in awardees', a.award = b.award, a.num = b.num
               PROVE  a = b
    BY IdIs
  <2>1. CASE \E x, y \in awardees : a = f[x] /\ b = f[y]
    BY <1>3, <1>4, <2>1, IdIs
  <2>2. CASE \E k, l \in E : a = g[k] /\ b = g[l]
    BY <1>5, <2>2
  <2>3. CASE \E x \in awardees, k \in E : (a = f[x] /\ b = g[k]) \/ (a = g[k] /\ b = f[x])
    BY <1>3, <1>4, <1>5, <1>13, <2>3
  <2> QED BY <1>8, <2>1, <2>2, <2>3
<1>15. \A b \in awardees' : b.num <= lastNum'[b.award]
  BY <1>4, <1>5, <1>8, <1>13
<1>16. \A b \in awardees' : b.award[1] \in DOMAIN awards
  BY <1>3, <1>4, <1>5, <1>8, <1>11
<1>17. Evolved(awardees, lastNum, awardees')
  <2>1. ASSUME NEW b \in awardees'
        PROVE  \/ b.num > lastNum[b.award]
               \/ \E a \in awardees : /\ Id(a) = Id(b) /\ (b.active => a.active)
                                      /\ Bib[a.result] = Bib[b.result]
    <3>1. CASE \E a \in awardees : b = f[a]
      BY <1>4, <3>1, IdIs
    <3>2. CASE \E k \in E : b = g[k]
      BY <1>5, <3>2
    <3> QED BY <1>8, <3>1, <3>2
  <2>2. ASSUME NEW a \in awardees PROVE Id(a) \in Ids(awardees')
    BY <1>4, <1>9, IdIs DEF Ids
  <2>3. ASSUME NEW a \in awardees, NEW b \in awardees', Id(a) = Id(b), a.active, ~ b.active
        PROVE  \E n \in awardees' : n.award = b.award /\ n.num > lastNum[n.award]
    <3>1. Id(f[a]) = Id(b)
      BY <1>4, <2>3, IdIs
    <3>2. f[a] = b
      BY <1>9, <1>14, <3>1
    <3>3. a.award \in E /\ b.award = a.award
      BY <1>4, <2>3, <3>2
    <3> QED BY <1>5, <1>9, <3>3
  <2> QED BY <2>1, <2>2, <2>3 DEF Evolved
<1> QED BY <1>10, <1>12, <1>14, <1>15, <1>16, <1>17 DEF TableOK

\* The table after a click: only who has picked up an award changes.
LEMMA PickUpEvolves ==
    ASSUME AwardsInv, NEW a \in awardees, NEW was \in BOOLEAN, PickUp(a, was)
    PROVE  /\ TableOK(awardees', lastNum)
           /\ Evolved(awardees, lastNum, awardees')
           /\ \A b \in awardees' : b.award[1] \in DOMAIN awards
<1> DEFINE c == [a EXCEPT !.picked = ~was]
<1>1. /\ IsFiniteSet(awardees) /\ awardees \subseteq Awardee
      /\ \A x, y \in awardees : Id(x) = Id(y) => x = y
      /\ \A x \in awardees : x.num <= lastNum[x.award]
      /\ \A x \in awardees : x.award[1] \in DOMAIN awards
  BY DEF AwardsInv, TableOK
<1>2. /\ c \in Awardee /\ c.award = a.award /\ c.num = a.num /\ c.result = a.result
      /\ c.active = a.active
  BY <1>1 DEF Awardee
<1>3. awardees' = (awardees \ {a}) \union {c}
  BY DEF PickUp
<1> HIDE DEF c
<1>4. IsFiniteSet(awardees')
  BY <1>1, <1>3, FS_RemoveElement, FS_AddElement
<1>5. Id(c) = Id(a)
  BY <1>2, IdIs
<1>6. TableOK(awardees', lastNum)
  BY <1>1, <1>2, <1>3, <1>4, <1>5 DEF TableOK
<1>7. \A b \in awardees' : b.award[1] \in DOMAIN awards
  BY <1>1, <1>2, <1>3
<1>8. \A b \in awardees' : \E x \in awardees : /\ Id(x) = Id(b) /\ x.award = b.award
                                              /\ b.active = x.active /\ b.result = x.result
  BY <1>2, <1>3, <1>5
<1>9. \A x \in awardees : Id(x) \in Ids(awardees')
  BY <1>3, <1>5 DEF Ids
<1> QED BY <1>1, <1>6, <1>7, <1>8, <1>9 DEF Evolved

\* The table after an update: of an award, all rows that were read go or stay together.
LEMMA CommitUpdateEvolves ==
    ASSUME AwardsInv, NEW n \in NumAwards, CommitUpdate(n)
    PROVE  /\ TableOK(awardees', lastNum)
           /\ Evolved(awardees, lastNum, awardees')
           /\ \A b \in awardees' : b.award[1] \in DOMAIN n
<1> DEFINE Off(a) == /\ n[a.award[1]] < awards[a.award[1]] /\ a.award[2] > n[a.award[1]]
                     /\ \E b \in update.read : Id(b) = Id(a) /\ b.active
           S == {b \in awardees : b.award[1] \notin Deleted(n)}
           f == [a \in S |-> IF Off(a) THEN [a EXCEPT !.active = FALSE] ELSE a]
<1>1. /\ IsFiniteSet(awardees) /\ awardees \subseteq Awardee
      /\ \A x, y \in awardees : Id(x) = Id(y) => x = y
      /\ \A x \in awardees : x.num <= lastNum[x.award]
      /\ \A x \in awardees : x.award[1] \in DOMAIN awards
      /\ SinceRead(update.read, awardees, lastNum)
  BY DEF AwardsInv, TableOK
<1>2. awardees' = {f[a] : a \in S}
  BY DEF CommitUpdate
<1>3. \A a \in S : a \in awardees /\ a \in Awardee /\ a.award[1] \in DOMAIN n
  BY <1>1 DEF Deleted
<1>4. \A a \in S : /\ f[a] \in Awardee /\ f[a].award = a.award /\ f[a].num = a.num
                    /\ f[a].result = a.result /\ f[a].active = (a.active /\ ~ Off(a))
  <2> SUFFICES ASSUME NEW a \in S
               PROVE  /\ f[a] \in Awardee /\ f[a].award = a.award /\ f[a].num = a.num
                      /\ f[a].result = a.result /\ f[a].active = (a.active /\ ~ Off(a))
    OBVIOUS
  <2>1. f[a] = IF Off(a) THEN [a EXCEPT !.active = FALSE] ELSE a
    OBVIOUS
  <2>2. a \in Awardee
    BY <1>3
  <2> HIDE DEF f, S, Off
  <2> QED BY <2>1, <2>2 DEF Awardee
<1>6. \A a \in awardees, c \in S : a.award = c.award => a \in S
  OBVIOUS
\* An older row that is active was read, and was active then.
<1>7. \A x, c \in S : x.award = c.award /\ x.active /\ x.num <= c.num /\ Off(c) => Off(x)
  <2> SUFFICES ASSUME NEW x \in S, NEW c \in S, x.award = c.award, x.active, x.num <= c.num, Off(c)
               PROVE  Off(x)
    OBVIOUS
  <2>1. PICK b \in update.read : Id(b) = Id(c) /\ b.active
    OBVIOUS
  <2>2. b.award = x.award /\ x.num <= b.num
    BY <2>1, IdIs
  <2>3. Id(x) \in Ids(update.read)
    BY <1>1, <1>3, <2>2 DEF SinceRead, ReadWhole
  <2>4. PICK d \in update.read : Id(d) = Id(x)
    BY <2>3 DEF Ids
  <2>5. d.active
    BY <1>1, <1>3, <2>4 DEF SinceRead, ReadFades
  <2> QED BY <2>4, <2>5
<1>8. IsFiniteSet(S)
  BY <1>1, FS_Subset
<1> HIDE DEF f, S, Off
<1>9. IsFiniteSet(awardees')
  <2>1. f \in [S -> Awardee]
    <3>1. f = [a \in S |-> f[a]]
      BY DEF f
    <3> QED BY <1>4, <3>1
  <2>2. IsFiniteSet({f[a] : a \in S})
    BY <1>8, <2>1, ImageFinite
  <2> QED BY <1>2, <2>2
<1>10. \A b \in awardees' : \E a \in S : b = f[a]
  BY <1>2
<1>11. \A a \in S : f[a] \in awardees'
  BY <1>2
<1>12. \A a \in S : Id(f[a]) = Id(a)
  BY <1>4, IdIs
<1>13. TableOK(awardees', lastNum)
  <2>1. \A x, y \in awardees' : Id(x) = Id(y) => x = y
    BY <1>1, <1>3, <1>10, <1>12
  <2>2. awardees' \subseteq Awardee /\ \A x \in awardees' : x.num <= lastNum[x.award]
    BY <1>1, <1>3, <1>4, <1>10
  <2> QED BY <1>9, <2>1, <2>2 DEF TableOK
<1>14. \A b \in awardees' : b.award[1] \in DOMAIN n
  BY <1>3, <1>4, <1>10
<1>15. Evolved(awardees, lastNum, awardees')
  <2>1. ASSUME NEW b \in awardees'
        PROVE  \E a \in awardees : /\ Id(a) = Id(b) /\ (b.active => a.active)
                                   /\ Bib[a.result] = Bib[b.result]
    <3>1. PICK a \in S : b = f[a]
      BY <1>10
    <3>2. Id(a) = Id(b) /\ (b.active => a.active) /\ a.result = b.result
      BY <1>4, <1>12, <3>1
    <3> QED BY <1>3, <3>2
  <2>2. ASSUME NEW a \in awardees, NEW b \in awardees', a.award = b.award
        PROVE  Id(a) \in Ids(awardees')
    <3>1. a \in S
      BY <1>4, <1>6, <1>10, <2>2
    <3> QED BY <1>11, <1>12, <3>1 DEF Ids
  <2>3. ASSUME NEW a \in awardees, NEW b \in awardees', Id(a) = Id(b), a.active, ~ b.active,
               NEW x \in awardees', x.award = b.award, x.active
        PROVE  x.num >= b.num
    <3>1. PICK c \in S : b = f[c]
      BY <1>10
    <3>2. PICK y \in S : x = f[y]
      BY <1>10
    <3>3. c = a /\ Off(c)
      <4>1. Id(c) = Id(a)
        BY <1>12, <2>3, <3>1
      <4>2. c \in awardees
        BY <1>3, <3>1
      <4>3. c = a
        BY <1>1, <1>3, <2>3, <4>1, <4>2
      <4>4. ~ f[c].active /\ c.active
        BY <2>3, <3>1, <4>3
      <4> QED BY <1>4, <4>3, <4>4
    <3>4. y.active /\ ~ Off(y) /\ y.award = c.award
      BY <1>4, <2>3, <3>1, <3>2
    <3>5. ~ (y.num <= c.num)
      BY <1>7, <3>3, <3>4
    <3>6. x.num = y.num /\ b.num = c.num /\ x.num \in Nat /\ b.num \in Nat
      BY <1>3, <1>4, <3>1, <3>2 DEF Awardee
    <3> QED BY <3>5, <3>6
  <2> QED BY <2>1, <2>2, <2>3 DEF Evolved
<1> QED BY <1>13, <1>14, <1>15

-----------------------------------------------------------------------------
(* The invariant                                                           *)

\* Nothing but the table matters to what was read before.
LEMMA PollStays ==
    ASSUME NEW A, NEW L \in [Award -> Nat], TableOK(A, L), NEW n,
           NEW B, NEW M \in [Award -> Nat], TableOK(B, M), \A k \in Award : L[k] <= M[k],
           Evolved(A, L, B), NEW m, DOMAIN n \subseteq DOMAIN m, NEW q, PollOK(q, A, L, n)
    PROVE  PollOK(q, B, M, m)
BY EvolvedSince DEF PollOK

LEMMA IdleOK ==
    ASSUME NEW A, NEW L, NEW n
    PROVE  PollOK(Idle, A, L, n) /\ Idle \in Poll
<1>1. [k \in Award |-> NoResult] \in Standings
  BY DEF Standings
<1>2. Idle \in Poll
  BY <1>1 DEF Idle, Poll
<1>3. Idle.phase = "idle" /\ Idle.read = {}
  BY DEF Idle
<1> QED BY <1>2, <1>3, NothingRead DEF PollOK

LEMMA AwardsInit == Init => AwardsInv
<1> SUFFICES ASSUME Init PROVE AwardsInv
  OBVIOUS
<1>1. published \in Standings /\ awards \in NumAwards /\ lastNum \in [Award -> Nat]
  BY DEF Init, NumAwards
<1>2. awardees = {} /\ TableOK(awardees, lastNum)
  BY FS_EmptySet DEF Init, TableOK
<1>3. DOMAIN poll = Pages /\ \A p \in Pages : poll[p] = Idle
  BY DEF Init
<1>4. update.read = {}
  BY DEF Init, NoUpdate
<1> QED BY <1>1, <1>2, <1>3, <1>4, IdleOK, NothingRead DEF AwardsInv

\* A step that leaves the table alone, and all polls but that of p.
LEMMA AwardsQuiet ==
    ASSUME AwardsInv, published' \in Standings, UNCHANGED <<awards, awardees, lastNum>>,
           DOMAIN poll' = Pages,
           \A p \in Pages : poll'[p] = poll[p] \/ PollOK(poll'[p], awardees, lastNum, awards),
           SinceRead(update'.read, awardees, lastNum)
    PROVE  AwardsInv'
BY DEF AwardsInv

LEMMA AwardsStep == AwardsInv /\ [Next]_awardsVars => AwardsInv'
<1> SUFFICES ASSUME AwardsInv, [Next]_awardsVars PROVE AwardsInv'
  OBVIOUS
<1>1. /\ published \in Standings /\ lastNum \in [Award -> Nat] /\ TableOK(awardees, lastNum)
      /\ DOMAIN poll = Pages /\ SinceRead(update.read, awardees, lastNum) /\ awards \in NumAwards
      /\ \A p \in Pages : PollOK(poll[p], awardees, lastNum, awards)
      /\ \A k \in Award : lastNum[k] <= lastNum[k]
  BY DEF AwardsInv
<1>2. ASSUME NEW s \in Standings, Publish(s) PROVE AwardsInv'
  BY <1>1, <1>2, AwardsQuiet DEF Publish
<1>3. ASSUME NEW p \in Pages, Open(p) PROVE AwardsInv'
  <2> DEFINE q == [Idle EXCEPT !.phase = "open", !.read = awardees, !.awards = awards]
  <2>1. poll' = [poll EXCEPT ![p] = q]
    BY <1>3 DEF Open
  <2>2. Idle \in Poll
    BY IdleOK
  <2>3. awardees \in SUBSET Awardee
    BY <1>1 DEF TableOK
  <2>4. q \in Poll /\ q.read = awardees /\ q.awards = awards
    BY <1>1, <2>2, <2>3 DEF Poll
  <2>5. PollOK(q, awardees, lastNum, awards)
    BY <1>1, <2>4, ReadNow DEF PollOK
  <2> HIDE DEF q
  <2> QED BY <1>1, <1>3, <2>1, <2>5, AwardsQuiet DEF Open
<1>4. ASSUME NEW p \in Pages, Fetch(p) PROVE AwardsInv'
  <2> DEFINE q == [poll[p] EXCEPT !.phase = "fetched", !.standing = published]
  <2>1. poll' = [poll EXCEPT ![p] = q] /\ poll[p].phase # "idle"
    BY <1>4 DEF Fetch, At
  <2>2. poll[p] \in Poll /\ PollOK(poll[p], awardees, lastNum, awards)
    BY <1>1 DEF PollOK
  <2>3. q \in Poll /\ q.read = poll[p].read /\ q.awards = poll[p].awards /\ q.gone = poll[p].gone
    BY <1>1, <2>2 DEF Poll
  <2>4. PollOK(q, awardees, lastNum, awards)
    BY <2>1, <2>2, <2>3 DEF PollOK
  <2> HIDE DEF q
  <2> QED BY <1>1, <1>4, <2>1, <2>4, AwardsQuiet DEF Fetch
<1>5. ASSUME NEW p \in Pages, Fail(p) PROVE AwardsInv'
  BY <1>1, <1>5, IdleOK, AwardsQuiet DEF Fail
<1>6. ASSUME NEW p \in Pages, Commit(p) PROVE AwardsInv'
  <2>1. /\ UNCHANGED <<published, awards, update>> /\ poll' = [poll EXCEPT ![p] = Idle]
    BY <1>6 DEF Commit
  <2>2. /\ TableOK(awardees', lastNum') /\ lastNum' \in [Award -> Nat]
        /\ \A k \in Award : lastNum[k] <= lastNum'[k]
        /\ Evolved(awardees, lastNum, awardees')
        /\ \A b \in awardees' : b.award[1] \in DOMAIN awards
    BY <1>6, CommitEvolves
  <2>3. SinceRead(update.read, awardees', lastNum')
    BY <1>1, <2>2, EvolvedSince
  <2>4. \A q : PollOK(q, awardees, lastNum, awards) => PollOK(q, awardees', lastNum', awards)
    BY <1>1, <2>2, PollStays
  <2>5. \A x \in Pages : PollOK(poll'[x], awardees', lastNum', awards)
    BY <1>1, <2>1, <2>4, IdleOK
  <2> QED BY <1>1, <2>1, <2>2, <2>3, <2>5 DEF AwardsInv
<1>7. ASSUME NEW a \in awardees, NEW was \in BOOLEAN, PickUp(a, was) PROVE AwardsInv'
  <2>1. UNCHANGED <<published, awards, lastNum, poll, update>>
    BY <1>7 DEF PickUp
  <2>2. /\ TableOK(awardees', lastNum) /\ Evolved(awardees, lastNum, awardees')
        /\ \A b \in awardees' : b.award[1] \in DOMAIN awards
    BY <1>7, PickUpEvolves
  <2>3. SinceRead(update.read, awardees', lastNum)
    BY <1>1, <2>2, EvolvedSince
  <2>4. \A q : PollOK(q, awardees, lastNum, awards) => PollOK(q, awardees', lastNum, awards)
    BY <1>1, <2>2, PollStays
  <2> QED BY <1>1, <2>1, <2>2, <2>3, <2>4 DEF AwardsInv
<1>8. CASE BeginUpdate
  <2>1. update'.read = awardees /\ UNCHANGED <<published, awards, awardees, lastNum, poll>>
    BY <1>8 DEF BeginUpdate
  <2> QED BY <1>1, <2>1, ReadNow, AwardsQuiet
<1>9. ASSUME NEW n \in NumAwards, CommitUpdate(n) PROVE AwardsInv'
  <2>1. /\ UNCHANGED <<published, lastNum>> /\ awards' = n /\ update'.read = {}
        /\ poll' = [x \in Pages |-> IF At(x, "idle") THEN poll[x]
                                    ELSE [poll[x] EXCEPT !.gone = @ \union Deleted(n)]]
    BY <1>9 DEF CommitUpdate, NoUpdate
  <2>2. /\ TableOK(awardees', lastNum) /\ Evolved(awardees, lastNum, awardees')
        /\ \A b \in awardees' : b.award[1] \in DOMAIN n
    BY <1>9, CommitUpdateEvolves
  <2>3. ASSUME NEW x \in Pages PROVE PollOK(poll'[x], awardees', lastNum, n)
    <3>1. poll[x] \in Poll /\ PollOK(poll[x], awardees, lastNum, awards)
      BY <1>1 DEF PollOK
    <3>2. SinceRead(poll[x].read, awardees', lastNum)
      BY <1>1, <2>2, <3>1, EvolvedSince DEF PollOK
    <3>3. CASE At(x, "idle")
      BY <2>1, <3>1, <3>2, <3>3 DEF PollOK, At
    <3>4. CASE ~ At(x, "idle")
      <4>1. poll'[x] = [poll[x] EXCEPT !.gone = @ \union Deleted(n)]
        BY <2>1, <3>4
      <4>2. Deleted(n) \subseteq Divisions
        BY <1>1 DEF Deleted, NumAwards
      <4>3. /\ poll'[x] \in Poll /\ poll'[x].read = poll[x].read /\ poll'[x].awards = poll[x].awards
            /\ poll'[x].gone = poll[x].gone \union Deleted(n)
        BY <3>1, <4>1, <4>2 DEF Poll
      <4> QED BY <3>1, <3>2, <3>4, <4>3 DEF PollOK, At, Deleted
    <3> QED BY <3>3, <3>4
  <2>4. SinceRead(update'.read, awardees', lastNum)
    BY <2>1, NothingRead
  <2>5. DOMAIN poll' = Pages
    BY <2>1
  <2> QED BY <1>1, <2>1, <2>2, <2>3, <2>4, <2>5 DEF AwardsInv
<1>10. CASE FailUpdate
  <2>1. update'.read = {} /\ UNCHANGED <<published, awards, awardees, lastNum, poll>>
    BY <1>10 DEF FailUpdate, NoUpdate
  <2> QED BY <1>1, <2>1, NothingRead, AwardsQuiet
<1>11. CASE UNCHANGED awardsVars
  BY <1>1, <1>11, AwardsQuiet DEF awardsVars
<1> QED BY <1>2, <1>3, <1>4, <1>5, <1>6, <1>7, <1>8, <1>9, <1>10, <1>11 DEF Next, Polls

(***************************************************************************)
(* Every state the polls, clicks and updates reach satisfies the inductive *)
(* invariant: what a poll or an update has read is, whatever was committed *)
(* since, the beginning of the table with rows that were active then.      *)
(***************************************************************************)
THEOREM AwardsInvariant == Spec => []AwardsInv
<1> QED BY AwardsInit, AwardsStep, PTL DEF Spec

\* Ids stay unique and every awardee is of a division there is (TypeOK), although divisions
\* are deleted while polls run (Refused).
THEOREM AwardsTypesHold == Spec => []TypeOK
<1>1. AwardsInv => TypeOK
  <2> SUFFICES ASSUME AwardsInv PROVE TypeOK
    OBVIOUS
  <2>1. \A p \in Pages : poll[p] \in Poll
    BY DEF AwardsInv, PollOK
  <2> QED BY <2>1 DEF AwardsInv, TypeOK, TableOK, Poll
<1> QED BY <1>1, AwardsInvariant, PTL

-----------------------------------------------------------------------------
(* What polls promise                                                      *)

LEMMA CommitRows ==
    ASSUME NEW p \in Pages, Commit(p)
    PROVE  /\ \A a \in awardees : PolledRow(poll[p], a) \in awardees'
           /\ \A k \in Entered(poll[p]) : NewRow(poll[p], k) \in awardees'
           /\ \A b \in awardees' : \/ \E a \in awardees : b = PolledRow(poll[p], a)
                                  \/ \E k \in Entered(poll[p]) : b = NewRow(poll[p], k)
BY DEF Commit, NewRow

\* Who holds an award loses it to a new awardee.
LEMMA PolledLoses ==
    ASSUME NEW q, NEW a \in Awardee, a.award \in Entered(q), Held(q, a.award) # {},
           Id(a) = Id(LastAwardee(Held(q, a.award)))
    PROVE  LET b == PolledRow(q, a)
           IN /\ ~ b.active
              /\ LastAwardee(Held(q, a.award)).picked => b.next = FreshNum(a.award)
<1> DEFINE b == PolledRow(q, a)
           picked == LastAwardee(Held(q, a.award)).picked
           n == FreshNum(a.award)
<1>1. a.award \in Won(q) /\ a.award \notin Recomputed(q)
  BY DEF Entered
<1>2. b = IF picked THEN [a EXCEPT !.active = FALSE, !.next = n]
                    ELSE [a EXCEPT !.active = FALSE]
  BY <1>1 DEF PolledRow
<1> HIDE DEF b, picked, n
<1>3. ~ b.active /\ (picked => b.next = n)
  BY <1>2 DEF Awardee
<1> QED BY <1>3 DEF b, picked, n

LEMMA OneActiveKept ==
    ASSUME AwardsInv, NEW p \in Pages, Commit(p), Ids(poll[p].read) = Ids(awardees),
           NEW k \in Award, NEW x \in Active(awardees', k), NEW y \in Active(awardees', k), x # y
    PROVE  \E a, c \in Active(awardees, k) : a # c
<1> DEFINE q == poll[p]
<1>1. /\ PollOK(q, awardees, lastNum, awards) /\ SinceRead(q.read, awardees, lastNum)
      /\ awardees \subseteq Awardee
      /\ \A b \in awardees' : \/ \E a \in awardees : b = PolledRow(q, a)
                             \/ \E l \in Entered(q) : b = NewRow(q, l)
  BY CommitRows DEF AwardsInv, PollOK, TableOK
<1>2. Ids(q.read) = Ids(awardees)
  OBVIOUS
<1> HIDE DEF q
<1>3. \A a \in awardees : PolledRow(q, a).active /\ PolledRow(q, a).award = k
                              => a \in Active(awardees, k)
  BY <1>1, PolledIs DEF Active
<1>4. /\ x \in awardees' /\ x.award = k /\ x.active
      /\ y \in awardees' /\ y.award = k /\ y.active
  BY DEF Active
<1>5. CASE \E a, c \in awardees : x = PolledRow(q, a) /\ y = PolledRow(q, c)
  BY <1>3, <1>4, <1>5
\* A new awardee comes and an old one stays: the old one is not the last who held the award.
<1>6. ASSUME NEW a \in awardees, k \in Entered(q), PolledRow(q, a).active, PolledRow(q, a).award = k
      PROVE  \E b, c \in Active(awardees, k) : b # c
  <2> DEFINE l == LastAwardee(Held(q, k))
  <2>1. a.award = k /\ a.active /\ a \in Active(awardees, k) /\ a \in Awardee
    BY <1>1, <1>3, <1>6 DEF Active
  <2>2. Id(a) \in Ids(q.read)
    BY <1>2 DEF Ids
  <2>3. PICK r \in q.read : Id(r) = Id(a)
    BY <2>2 DEF Ids
  <2>4. r.active /\ r.award = k /\ r.num = a.num
    BY <1>1, <2>1, <2>3, IdIs DEF SinceRead, ReadFades
  <2>5. r \in Held(q, k)
    BY <2>4 DEF Held, Active
  <2>6. l \in q.read /\ l.award = k /\ l.active /\ r.num <= l.num
    BY <1>1, <2>4, <2>5, HeldIs DEF SinceRead, TableOK
  <2>7. Id(a) # Id(l)
    BY <1>6, <2>1, <2>5, PolledLoses
  <2> HIDE DEF l
  <2>8. Id(l) \in Ids(awardees)
    BY <1>2, <2>6 DEF Ids
  <2>9. PICK c \in awardees : Id(c) = Id(l)
    BY <2>8 DEF Ids
  <2>10. c.award = k /\ c.num = l.num /\ c # a
    BY <2>6, <2>7, <2>9, IdIs
  <2>11. a.num < c.num
    <3>1. a.num # c.num
      BY <2>1, <2>7, <2>9, <2>10, IdIs
    <3>2. a.num \in Nat /\ c.num \in Nat
      BY <1>1 DEF Awardee
    <3> QED BY <2>4, <2>6, <2>10, <3>1, <3>2
  <2>12. c.active
    <3> SUFFICES ASSUME ~ c.active PROVE FALSE
      OBVIOUS
    <3>1. OvertakenBy(q.read, awardees, c.award)
      BY <1>1, <2>1, <2>6, <2>9, <2>10, <2>11 DEF SinceRead, LastFalls
    <3> QED BY <1>2, <3>1 DEF OvertakenBy, Ids
  <2>13. c \in Active(awardees, k)
    BY <2>10, <2>12 DEF Active
  <2> QED BY <2>1, <2>10, <2>13
<1>7. \A l \in Entered(q) : NewRow(q, l).award = l
  BY DEF NewRow
<1> QED BY <1>1, <1>4, <1>5, <1>6, <1>7

\* A poll that read all awardees there are gives no award twice (OneActiveEach).
THEOREM AwardsGoOnce == Spec => OneActiveEach
<1> DEFINE Once == \A p \in Pages : Commit(p) /\ Ids(poll[p].read) = Ids(awardees) =>
                     \A k \in Award : Cardinality(Active(awardees', k)) > 1
                                         => Cardinality(Active(awardees, k)) > 1
<1>1. AwardsInv => [Once]_awardsVars
  <2> SUFFICES ASSUME AwardsInv, NEW p \in Pages, Commit(p), Ids(poll[p].read) = Ids(awardees),
                      NEW k \in Award, Cardinality(Active(awardees', k)) > 1
               PROVE  Cardinality(Active(awardees, k)) > 1
    OBVIOUS
  <2>1. IsFiniteSet(awardees) /\ IsFiniteSet(awardees')
    BY CommitEvolves DEF AwardsInv, TableOK
  <2>2. Active(awardees, k) \subseteq awardees /\ Active(awardees', k) \subseteq awardees'
    BY DEF Active
  <2>3. IsFiniteSet(Active(awardees, k)) /\ IsFiniteSet(Active(awardees', k))
    BY <2>1, <2>2, FS_Subset
  <2>4. PICK x \in Active(awardees', k), y \in Active(awardees', k) : x # y
    BY <2>3, SeveralElements
  <2>5. \E a, c \in Active(awardees, k) : a # c
    BY <2>4, OneActiveKept
  <2> QED BY <2>3, <2>5, SeveralElements
<1> QED BY <1>1, AwardsInvariant, PTL DEF OneActiveEach

\* Who keeps their place keeps the award, picked up or not (AwardsKept).
THEOREM AwardsStay == Spec => AwardsKept
<1> DEFINE Kept == \A p \in Pages, a \in awardees :
          Commit(p) /\ a.active /\ poll[p].standing[a.award] \in Results
              /\ Bib[poll[p].standing[a.award]] = Bib[a.result]
          => \E b \in awardees' : Id(b) = Id(a) /\ b.active /\ b.picked = a.picked
<1>1. AwardsInv => [Kept]_awardsVars
  <2> SUFFICES ASSUME AwardsInv, NEW p \in Pages, NEW a \in awardees, Commit(p), a.active,
                      Bib[poll[p].standing[a.award]] = Bib[a.result]
               PROVE  \E b \in awardees' : Id(b) = Id(a) /\ b.active /\ b.picked = a.picked
    OBVIOUS
  <2> DEFINE q == poll[p]
             b == PolledRow(q, a)
             l == LastAwardee(Held(q, a.award))
  <2>1. PollOK(q, awardees, lastNum, awards) /\ b \in awardees'
    BY CommitRows DEF AwardsInv
  <2>2. /\ b.award = a.award /\ b.num = a.num /\ b.picked = a.picked
        /\ ~ b.active => a.award \in Entered(q) /\ Held(q, a.award) # {} /\ Id(a) = Id(l)
    BY <2>1, PolledIs
  <2>3. ASSUME a.award \in Entered(q), Held(q, a.award) # {}, Id(a) = Id(l) PROVE FALSE
    <3>1. l \in q.read
      BY <2>1, <2>3, HeldIs DEF PollOK, SinceRead, TableOK
    <3>2. Bib[l.result] = Bib[a.result]
      <4> HIDE DEF q, l
      <4> QED BY <2>1, <2>3, <3>1 DEF PollOK, SinceRead, ReadFades
    <3> QED BY <2>3, <3>2 DEF Entered, Recomputed
  <2> HIDE DEF b, l
  <2>4. Id(b) = Id(a)
    BY <2>2, IdIs
  <2> QED BY <2>1, <2>2, <2>3, <2>4
<1> QED BY <1>1, AwardsInvariant, PTL DEF AwardsKept

\* The cell of who replaces an awardee that was seen to have picked up turns yellow
\* (ReplacementWarns).
THEOREM ReplacementsWarn == Spec => ReplacementWarns
<1> DEFINE Warned == \A p \in Pages, a \in awardees :
          Commit(p) /\ a \in poll[p].read /\ a.active /\ a.picked
              /\ Id(a) \notin Ids({b \in awardees' : b.active})
          => \E b \in Active(awardees', a.award) : Warn(awardees', b)
<1>1. AwardsInv => [Warned]_awardsVars
  <2> SUFFICES ASSUME AwardsInv, NEW p \in Pages, NEW a \in awardees, Commit(p),
                      a \in poll[p].read, a.active, a.picked,
                      Id(a) \notin Ids({b \in awardees' : b.active})
               PROVE  \E b \in Active(awardees', a.award) : Warn(awardees', b)
    OBVIOUS
  <2> DEFINE q == poll[p]
             k == a.award
             b == PolledRow(q, a)
             l == LastAwardee(Held(q, k))
             c == NewRow(q, k)
  <2>1. PollOK(q, awardees, lastNum, awards) /\ b \in awardees' /\ a \in Awardee
    BY CommitRows DEF AwardsInv, TableOK
  <2>2. /\ b.award = k /\ b.num = a.num /\ b.picked
        /\ ~ b.active => k \in Entered(q) /\ Held(q, k) # {} /\ Id(a) = Id(l)
    BY <2>1, PolledIs
  <2>3. ~ b.active
    <3> HIDE DEF b
    <3>1. Id(b) = Id(a)
      BY <2>2, IdIs
    <3> QED BY <2>1, <3>1 DEF Ids
  <2>4. a = l
    <3>1. l \in q.read
      BY <2>1, <2>2, <2>3, HeldIs DEF PollOK, SinceRead, TableOK
    <3> HIDE DEF l, b
    <3> QED BY <2>1, <2>2, <2>3, <3>1 DEF PollOK, SinceRead, TableOK
  <2>5. b.next = FreshNum(k)
    BY <2>1, <2>2, <2>3, <2>4, PolledLoses
  <2>6. c \in awardees' /\ c.award = k /\ c.num = FreshNum(k) /\ c.active /\ ~ c.picked
    BY <2>2, <2>3, CommitRows DEF NewRow
  <2> HIDE DEF b, c
  <2>7. b \in Prev(awardees', c)
    BY <2>1, <2>2, <2>5, <2>6 DEF Prev
  <2>8. c \in Active(awardees', k) /\ Warn(awardees', c)
    BY <2>2, <2>6, <2>7 DEF Active, Warn
  <2> QED BY <2>8
<1> QED BY <1>1, AwardsInvariant, PTL DEF ReplacementWarns

\* A poll brings the table that it read up to date (PollFollows).
THEOREM PollsFollow == Spec => PollFollows
<1> DEFINE Follows == \A p \in Pages : Commit(p) /\ poll[p].read = awardees =>
          \A k \in Award :
              LET r == poll[p].standing[k] IN
              /\ r # NoResult /\ Given(poll[p].awards, k)
              /\ \A l \in Award \ {k} : poll[p].standing[l] # r
              => \E a \in Active(awardees', k) : a.result = r
<1>1. AwardsInv => [Follows]_awardsVars
  <2> SUFFICES ASSUME AwardsInv, NEW p \in Pages, Commit(p), poll[p].read = awardees,
                      NEW k \in Award, poll[p].standing[k] # NoResult, Given(poll[p].awards, k),
                      \A l \in Award \ {k} : poll[p].standing[l] # poll[p].standing[k]
               PROVE  \E a \in Active(awardees', k) : a.result = poll[p].standing[k]
    OBVIOUS
  <2> DEFINE q == poll[p]
             r == q.standing[k]
             H == Held(q, k)
             l == LastAwardee(H)
             b == PolledRow(q, l)
  <2>1. q \in Poll /\ PollOK(q, awardees, lastNum, awards) /\ awardees \subseteq Awardee
    BY DEF AwardsInv, PollOK, TableOK
  <2>2. r \in Results
    BY <2>1 DEF Poll, Standings
  <2>3. \A m \in Due(q, r) : m = k
    BY DEF Due
  <2>4. k \in Due(q, r) => k \in Won(q)
    <3>1. k[1] \in Int
      BY DEF Award, Divisions
    <3> QED BY <2>2, <2>3, <3>1 DEF Won
  <2>5. H # {} => l \in awardees /\ l.award = k /\ l.active
    BY <2>1, HeldIs DEF PollOK, SinceRead, TableOK
  <2>6. CASE k \in Entered(q)
    <3> DEFINE c == NewRow(q, k)
    <3>1. c \in awardees' /\ c.award = k /\ c.active /\ c.result = r
      BY <2>6, CommitRows DEF NewRow
    <3> QED BY <3>1 DEF Active
  <2>7. CASE k \in Recomputed(q)
    <3>1. H # {} /\ k \in Won(q) /\ b \in awardees'
      BY <2>5, <2>7, CommitRows DEF Recomputed
    <3>2. b = [l EXCEPT !.result = r]
      <4> HIDE DEF l
      <4> QED BY <2>5, <2>7, <3>1 DEF PolledRow, l
    <3>3. b.award = k /\ b.active /\ b.result = r
      <4> HIDE DEF b, l, H, r
      <4> QED BY <2>1, <2>5, <3>1, <3>2 DEF Awardee
    <3> QED BY <3>1, <3>3 DEF Active
  <2>8. CASE k \notin Won(q)
    <3>1. k \notin Due(q, r)
      BY <2>4, <2>8
    <3>2. H # {} /\ l.result = r
      BY <3>1 DEF Due
    <3>3. b = l /\ b \in awardees'
      BY <2>5, <2>8, <3>2, CommitRows DEF PolledRow
    <3> QED BY <2>5, <3>2, <3>3 DEF Active
  <2> QED BY <2>6, <2>7, <2>8 DEF Entered
<1> QED BY <1>1, AwardsInvariant, PTL DEF PollFollows

-----------------------------------------------------------------------------
(* The racing team: the answers to forms *)

Numbered(rows) ==
    /\ IsFiniteSet(rows) /\ \A r \in rows : r.num \in Nat \ {0}
    /\ \A r, s \in rows : r.num = s.num => r = s

(* What belongs to an entry: its races and its volunteering.                *)
Of(details, num) == {r \in details : r.info = num}
SentWith(rows, f) == {r \in rows : r.form = f}

RowsOK ==
    /\ Numbered(infos) /\ Numbered(applications)
    /\ \A r \in results : /\ (r.info = None) # (r.application = None)
                          /\ r.info # None => \E i \in infos : i.num = r.info
                          /\ r.application # None => \E a \in applications : a.num = r.application
    /\ \A v \in volunteered : \E i \in infos : i.num = v.info
    /\ \A i \in infos : Cardinality(Of(results, i.num)) + Cardinality(Of(volunteered, i.num)) = 1
    /\ \A a \in applications : RacesShown(a) = {1, 2}

RequestsOK ==
    request \in [Forms -> [stage : {"none", "grade", "store", "mail", "ok", "error"}, kind : Kinds,
                          racer : Nat, graded : Nat]]

Answered ==
    \A f \in Forms :
      /\ f \notin unmailed => Copies(f) = IF request[f].stage \in {"mail", "ok"} THEN 1 ELSE 0
      /\ request[f].stage \in {"mail", "ok"} => Copies(f) >= 1

TeamOK == IsFiniteSet(racers) /\ RacingTypeOK

TeamInv == TeamOK /\ RowsOK /\ RequestsOK /\ Answered

\* A number that no row has.
LEMMA FreeNumIs ==
    ASSUME NEW rows, IsFiniteSet(rows), \A r \in rows : r.num \in Nat
    PROVE  FreeNum(rows) \in Nat \ {0} /\ \A r \in rows : r.num < FreeNum(rows)
<1> DEFINE f == [r \in rows |-> r.num]
           S == {r.num : r \in rows} \union {None}
<1>1. f \in [rows -> Nat]
  OBVIOUS
<1>2. IsFiniteSet({f[r] : r \in rows})
  <2> HIDE DEF f
  <2> QED BY <1>1, ImageFinite
<1>3. {f[r] : r \in rows} = {r.num : r \in rows}
  OBVIOUS
<1>4. IsFiniteSet(S)
  BY <1>2, <1>3, FS_AddElement
<1>5. S \subseteq Int /\ S # {} /\ \A n \in S : n \in Nat
  BY DEF None
<1>6. Max(S) \in S /\ \A n \in S : Max(S) >= n
  <2> HIDE DEF S
  <2> QED BY <1>4, <1>5, FiniteMax
<1>7. FreeNum(rows) = Max(S) + 1 /\ \A r \in rows : r.num \in S
  BY DEF FreeNum
<1> HIDE DEF S
<1>8. Max(S) \in Nat
  BY <1>5, <1>6
<1>9. \A r \in rows : r.num <= Max(S)
  BY <1>6, <1>7
<1> HIDE DEF Max
<1> QED BY <1>7, <1>8, <1>9

\* A new row of a table.
LEMMA OneMore ==
    ASSUME NEW rows, Numbered(rows), NEW row, row.num = FreeNum(rows)
    PROVE  /\ Numbered(rows \union {row}) /\ row \notin rows /\ row.num \in Nat \ {0}
           /\ \A r \in rows : r.num # row.num
<1>1. \A r \in rows : r.num \in Nat
  BY DEF Numbered
<1>2. row.num \in Nat \ {0} /\ \A r \in rows : r.num < row.num
  BY <1>1, FreeNumIs DEF Numbered
<1>3. IsFiniteSet(rows \union {row})
  BY FS_AddElement DEF Numbered
<1> QED BY <1>1, <1>2, <1>3 DEF Numbered

\* A form has one more of the rows, the others have as many as before.
LEMMA CopiesGrow ==
    ASSUME NEW rows, IsFiniteSet(rows), NEW row, row \notin rows, NEW f
    PROVE  /\ IsFiniteSet(SentWith(rows, f)) /\ Cardinality(SentWith(rows, f)) \in Nat
           /\ Cardinality(SentWith(rows \union {row}, f))
                = Cardinality(SentWith(rows, f)) + (IF row.form = f THEN 1 ELSE 0)
<1>1. SentWith(rows, f) \subseteq rows /\ row \notin SentWith(rows, f)
  BY DEF SentWith
<1>2. IsFiniteSet(SentWith(rows, f)) /\ Cardinality(SentWith(rows, f)) \in Nat
  BY <1>1, FS_Subset, FS_CardinalityType
<1>3. Cardinality(SentWith(rows, f) \union {row}) = Cardinality(SentWith(rows, f)) + 1
  BY <1>1, <1>2, FS_AddElement
<1>4. CASE row.form = f
  <2>1. SentWith(rows \union {row}, f) = SentWith(rows, f) \union {row}
    BY <1>4 DEF SentWith
  <2> QED BY <2>1, <1>2, <1>3, <1>4
<1>5. CASE row.form # f
  <2>1. SentWith(rows \union {row}, f) = SentWith(rows, f)
    BY <1>5 DEF SentWith
  <2> QED BY <2>1, <1>2, <1>5
<1> QED BY <1>4, <1>5

\* The count of the forms when nothing was stored.
LEMMA CopiesStay ==
    ASSUME UNCHANGED rowVars, NEW f
    PROVE  Copies(f)' = Copies(f)
BY DEF rowVars, Copies, InfosOf, ApplicationsOf

LEMMA StoreInfoKeeps ==
    ASSUME RowsOK, NEW f \in Forms, StoreInfo(f), request[f].kind \in {"raceresult", "volunteer"}
    PROVE  /\ RowsOK' /\ Copies(f)' = Copies(f) + 1 /\ Copies(f) \in Nat
           /\ \A g \in Forms \ {f} : Copies(g)' = Copies(g)
<1> DEFINE num == FreeNum(infos)
           row == [num |-> num, racer |-> request[f].racer, form |-> f]
           race == [info |-> num, application |-> None, race |-> 1]
           help == [info |-> num]
<1>1. /\ infos' = infos \union {row} /\ UNCHANGED applications
      /\ \/ request[f].kind = "volunteer" /\ volunteered' = volunteered \union {help} /\ UNCHANGED results
         \/ request[f].kind # "volunteer" /\ results' = results \union {race} /\ UNCHANGED volunteered
  BY DEF StoreInfo
<1>2. row.num = num /\ row.form = f /\ race.info = num /\ race.application = None /\ help.info = num
  OBVIOUS
<1> HIDE DEF row, race, help
<1>3. /\ Numbered(infos') /\ row \notin infos /\ num \in Nat \ {0} /\ num # None
      /\ \A i \in infos : i.num # num
  <2>1. row.num = FreeNum(infos) /\ Numbered(infos)
    BY <1>2 DEF RowsOK
  <2> QED BY <2>1, <1>1, OneMore DEF None
<1> HIDE DEF num
<1>4. \A r \in results' : /\ (r.info = None) # (r.application = None)
                          /\ r.info # None => \E i \in infos' : i.num = r.info
                          /\ r.application # None => \E a \in applications' : a.num = r.application
  BY <1>1, <1>2, <1>3 DEF RowsOK
<1>5. \A v \in volunteered' : \E i \in infos' : i.num = v.info
  BY <1>1, <1>2 DEF RowsOK
<1>6. Of(results, num) = {} /\ Of(volunteered, num) = {}
  BY <1>3 DEF RowsOK, Of
<1>7. /\ Cardinality({}) = 0 /\ Cardinality({race}) = 1 /\ Cardinality({help}) = 1
  BY FS_EmptySet, FS_Singleton
<1>8. Cardinality(Of(results', num)) + Cardinality(Of(volunteered', num)) = 1
  <2>1. \/ Of(results', num) = {} /\ Of(volunteered', num) = {help}
        \/ Of(results', num) = {race} /\ Of(volunteered', num) = {}
    BY <1>1, <1>2, <1>6 DEF Of
  <2> QED BY <2>1, <1>7
<1>9. \A i \in infos : Of(results', i.num) = Of(results, i.num) /\ Of(volunteered', i.num) = Of(volunteered, i.num)
  BY <1>1, <1>2, <1>3 DEF Of
<1>10. \A i \in infos' : Cardinality(Of(results', i.num)) + Cardinality(Of(volunteered', i.num)) = 1
  BY <1>1, <1>2, <1>8, <1>9 DEF RowsOK
<1>11. \A a \in applications' : RacesShown(a)' = {1, 2}
  <2>1. \A a \in applications : a.num # None
    BY DEF RowsOK, Numbered, None
  <2>2. \A a \in applications : RacesShown(a)' = RacesShown(a)
    BY <2>1, <1>1, <1>2 DEF RacesShown
  <2> QED BY <2>2, <1>1 DEF RowsOK
<1>12. RowsOK'
  BY <1>1, <1>3, <1>4, <1>5, <1>10, <1>11 DEF RowsOK
<1>13. ASSUME NEW g \in Forms
       PROVE  Copies(g) \in Nat /\ Copies(g)' = Copies(g) + (IF g = f THEN 1 ELSE 0)
  <2>1. /\ Cardinality(SentWith(infos, g)) \in Nat
        /\ Cardinality(SentWith(infos \union {row}, g))
             = Cardinality(SentWith(infos, g)) + (IF row.form = g THEN 1 ELSE 0)
    BY <1>3, CopiesGrow DEF RowsOK, Numbered
  <2>3. /\ InfosOf(g) = SentWith(infos, g) /\ InfosOf(g)' = SentWith(infos \union {row}, g)
        /\ ApplicationsOf(g) = SentWith(applications, g)
    BY <1>1 DEF InfosOf, ApplicationsOf, SentWith
  <2>4. Cardinality(SentWith(applications, g)) \in Nat
    <3>1. SentWith(applications, g) \subseteq applications
      BY DEF SentWith
    <3> QED BY <3>1, FS_Subset, FS_CardinalityType DEF RowsOK, Numbered
  <2>2. ApplicationsOf(g)' = ApplicationsOf(g)
    BY <1>1 DEF ApplicationsOf
  <2> QED BY <2>1, <2>2, <2>3, <2>4, <1>2 DEF Copies
<1> QED BY <1>12, <1>13

LEMMA StoreApplicationKeeps ==
    ASSUME RowsOK, NEW f \in Forms, StoreApplication(f)
    PROVE  /\ RowsOK' /\ Copies(f)' = Copies(f) + 1 /\ Copies(f) \in Nat
           /\ \A g \in Forms \ {f} : Copies(g)' = Copies(g)
<1> DEFINE num == FreeNum(applications)
           row == [num |-> num, form |-> f]
           Race(n) == [info |-> None, application |-> num, race |-> n]
<1>1. /\ applications' = applications \union {row} /\ UNCHANGED <<infos, volunteered>>
      /\ results' = results \union {Race(1), Race(2)}
  BY DEF StoreApplication
<1>2. /\ row.num = num /\ row.form = f
      /\ \A n : Race(n).info = None /\ Race(n).application = num /\ Race(n).race = n
  OBVIOUS
<1> HIDE DEF row, Race
<1>3. /\ Numbered(applications') /\ row \notin applications /\ num \in Nat \ {0} /\ num # None
      /\ \A a \in applications : a.num # num
  <2>1. row.num = FreeNum(applications) /\ Numbered(applications)
    BY <1>2 DEF RowsOK
  <2> QED BY <2>1, <1>1, OneMore DEF None
<1> HIDE DEF num
<1>4. \A r \in results' : /\ (r.info = None) # (r.application = None)
                          /\ r.info # None => \E i \in infos' : i.num = r.info
                          /\ r.application # None => \E a \in applications' : a.num = r.application
  BY <1>1, <1>2, <1>3 DEF RowsOK
<1>5. \A i \in infos : Of(results', i.num) = Of(results, i.num)
  <2>1. \A i \in infos : i.num # None
    BY DEF RowsOK, Numbered, None
  <2> QED BY <2>1, <1>1, <1>2 DEF Of
<1>6. \A a \in applications' : RacesShown(a)' = {1, 2}
  <2>1. ASSUME NEW a \in applications PROVE RacesShown(a)' = {1, 2}
    <3>1. {r \in results' : r.application = a.num} = {r \in results : r.application = a.num}
      BY <1>1, <1>2, <1>3
    <3> QED BY <3>1 DEF RowsOK, RacesShown
  <2>2. ASSUME NEW a \in applications', a = row PROVE RacesShown(a)' = {1, 2}
    <3>1. \A r \in results : r.application # num
      BY <1>3 DEF RowsOK
    <3>2. {r \in results' : r.application = a.num} = {Race(1), Race(2)}
      BY <2>2, <3>1, <1>1, <1>2
    <3>3. {r.race : r \in {Race(1), Race(2)}} = {1, 2}
      BY <1>2
    <3> QED BY <3>2, <3>3 DEF RacesShown
  <2> QED BY <2>1, <2>2, <1>1
<1>7. RowsOK'
  BY <1>1, <1>3, <1>4, <1>5, <1>6 DEF RowsOK
<1>8. ASSUME NEW g \in Forms
      PROVE  Copies(g) \in Nat /\ Copies(g)' = Copies(g) + (IF g = f THEN 1 ELSE 0)
  <2>1. /\ Cardinality(SentWith(applications, g)) \in Nat
        /\ Cardinality(SentWith(applications \union {row}, g))
             = Cardinality(SentWith(applications, g)) + (IF row.form = g THEN 1 ELSE 0)
    BY <1>3, CopiesGrow DEF RowsOK, Numbered
  <2>2. /\ ApplicationsOf(g) = SentWith(applications, g)
        /\ ApplicationsOf(g)' = SentWith(applications \union {row}, g)
        /\ InfosOf(g) = SentWith(infos, g) /\ InfosOf(g)' = InfosOf(g)
    BY <1>1 DEF InfosOf, ApplicationsOf, SentWith
  <2>3. Cardinality(SentWith(infos, g)) \in Nat
    <3>1. SentWith(infos, g) \subseteq infos
      BY DEF SentWith
    <3> QED BY <3>1, FS_Subset, FS_CardinalityType DEF RowsOK, Numbered
  <2> QED BY <2>1, <2>2, <2>3, <1>2 DEF Copies
<1> QED BY <1>7, <1>8

\* What the pages of the team and of its configuration do keeps the tables well formed.
LEMMA AdminKeeps ==
    ASSUME TeamOK, AdminStep
    PROVE  TeamOK' /\ UNCHANGED <<rowVars, request, unmailed>>
<1>1. IsFiniteSet(racers) /\ RacingTypeOK
  BY DEF TeamOK
<1>2. ASSUME NEW u \in Users, SetActive(u) PROVE TeamOK' /\ UNCHANGED <<rowVars, request, unmailed>>
  BY <1>1, <1>2 DEF SetActive, TeamOK, RacingTypeOK, configVars, rowVars
<1>3. ASSUME NEW u \in Users, NEW b \in BirthDates, CreateRacer(u, b)
      PROVE  TeamOK' /\ UNCHANGED <<rowVars, request, unmailed>>
  <2> DEFINE row == [num |-> FreeNum(racers), user |-> u, born |-> b, active |-> TRUE]
  <2>1. FreeNum(racers) \in Nat
    BY <1>1, FreeNumIs DEF RacingTypeOK, Racer
  <2>2. row \in Racer
    BY <2>1 DEF Racer
  <2>3. racers' = racers \union {row} /\ UNCHANGED <<active, configs, ranges, rowVars, request, unmailed>>
    BY <1>3 DEF CreateRacer, configVars
  <2> HIDE DEF row
  <2>4. IsFiniteSet(racers')
    BY <1>1, <2>3, FS_AddElement
  <2> QED BY <1>1, <2>2, <2>3, <2>4 DEF TeamOK, RacingTypeOK, rowVars
<1>4. ASSUME NEW u \in Users, NEW b \in BirthDates, NEW r \in racers, NEW on \in BOOLEAN, EditRacer(r, u, b, on)
      PROVE  TeamOK' /\ UNCHANGED <<rowVars, request, unmailed>>
  <2> DEFINE row == [r EXCEPT !.user = u, !.born = b, !.active = on]
  <2>1. row \in Racer
    BY <1>1 DEF RacingTypeOK, Racer
  <2>2. /\ racers' = (racers \ {r}) \union {row}
        /\ UNCHANGED <<active, configs, ranges, rowVars, request, unmailed>>
    BY <1>4 DEF EditRacer, configVars
  <2> HIDE DEF row
  <2>3. IsFiniteSet(racers')
    BY <1>1, <2>2, FS_AddElement, FS_RemoveElement
  <2> QED BY <1>1, <2>1, <2>2, <2>3 DEF TeamOK, RacingTypeOK, rowVars
<1>5. ASSUME NEW num \in 1 .. MaxRows, NEW behavior \in Behaviors, NEW picked \in SUBSET ranges,
             SaveConfig(num, behavior, picked)
      PROVE  TeamOK' /\ UNCHANGED <<rowVars, request, unmailed>>
  <2> DEFINE New(r) == [r EXCEPT !.config = IF r \in picked THEN num ELSE IF @ = num THEN None ELSE @]
  <2>1. \A r \in ranges : New(r) \in DateRange
    BY <1>1 DEF RacingTypeOK, DateRange, None
  <2>2. /\ configs' = {c \in configs : c.num # num} \union {[num |-> num, openbehavior |-> behavior]}
        /\ ranges' = {New(r) : r \in ranges} /\ UNCHANGED <<active, racers, rowVars, request, unmailed>>
    BY <1>5 DEF SaveConfig, teamVars
  <2>3. configs' \subseteq Config
    BY <1>1, <2>2 DEF RacingTypeOK, Config
  <2> HIDE DEF New
  <2> QED BY <1>1, <2>1, <2>2, <2>3 DEF TeamOK, RacingTypeOK, rowVars
<1>6. ASSUME NEW c \in configs, DeleteConfig(c) PROVE TeamOK' /\ UNCHANGED <<rowVars, request, unmailed>>
  <2> DEFINE New(r) == [r EXCEPT !.config = IF @ = c.num THEN None ELSE @]
  <2>1. \A r \in ranges : New(r) \in DateRange
    BY <1>1 DEF RacingTypeOK, DateRange, None
  <2>2. /\ configs' \subseteq configs
        /\ ranges' = {New(r) : r \in ranges} /\ UNCHANGED <<active, racers, rowVars, request, unmailed>>
    BY <1>6 DEF DeleteConfig, teamVars
  <2> HIDE DEF New
  <2> QED BY <1>1, <2>1, <2>2 DEF TeamOK, RacingTypeOK, rowVars
<1>7. ASSUME NEW num \in 1 .. MaxRows, NEW start \in DateOfYear, NEW end \in DateOfYear,
             SaveRange(num, start, end)
      PROVE  TeamOK' /\ UNCHANGED <<rowVars, request, unmailed>>
  <2> DEFINE config == IF \E r \in ranges : r.num = num
                       THEN (CHOOSE r \in ranges : r.num = num).config ELSE None
             row == [num |-> num, start |-> start, end |-> end, config |-> config]
  <2>1. config \in Nat
    <3>1. CASE \E r \in ranges : r.num = num
      <4>1. (CHOOSE r \in ranges : r.num = num) \in ranges
        BY <3>1
      <4> QED BY <1>1, <3>1, <4>1 DEF RacingTypeOK, DateRange
    <3>2. CASE ~ \E r \in ranges : r.num = num
      BY <3>2 DEF None
    <3> QED BY <3>1, <3>2
  <2> HIDE DEF config
  <2>2. row \in DateRange
    BY <2>1 DEF DateRange
  <2>3. /\ ranges' = {r \in ranges : r.num # num} \union {row}
        /\ UNCHANGED <<active, racers, configs, rowVars, request, unmailed>>
    BY <1>7 DEF SaveRange, teamVars, config
  <2> HIDE DEF row
  <2> QED BY <1>1, <2>2, <2>3 DEF TeamOK, RacingTypeOK, rowVars
<1>8. ASSUME NEW r \in ranges, DeleteRange(r) PROVE TeamOK' /\ UNCHANGED <<rowVars, request, unmailed>>
  BY <1>1, <1>8 DEF DeleteRange, TeamOK, RacingTypeOK, teamVars, rowVars
<1> QED BY <1>2, <1>3, <1>4, <1>5, <1>6, <1>7, <1>8 DEF AdminStep

\* A step of a form that stores nothing: an answer other than "OK" to one that was not stored,
\* "OK" to one that was, or an error after it was, which is remembered.
LEMMA AnswerKeeps ==
    ASSUME TeamInv, NEW f \in Forms, UNCHANGED <<teamVars, configVars, rowVars>>, RequestsOK',
           \A g \in Forms \ {f} : request'[g] = request[g], unmailed' \in {unmailed, unmailed \union {f}},
           \/ /\ request'[f].stage \notin {"mail", "ok"}
              /\ request[f].stage \notin {"mail", "ok"} \/ f \in unmailed'
           \/ request'[f].stage = "ok" /\ request[f].stage = "mail"
    PROVE  TeamInv'
<1>1. TeamOK /\ RowsOK /\ RequestsOK /\ Answered
  BY DEF TeamInv
<1>2. UNCHANGED <<active, racers, configs, ranges, infos, applications, results, volunteered>>
  BY DEF teamVars, configVars, rowVars
<1>3. TeamOK'
  BY <1>1, <1>2 DEF TeamOK, RacingTypeOK, RequestsOK
<1>4. RowsOK'
  BY <1>1, <1>2 DEF RowsOK, RacesShown
<1>5. \A g \in Forms : Copies(g)' = Copies(g)
  BY CopiesStay
<1>6. ASSUME NEW g \in Forms
      PROVE  /\ g \notin unmailed' => Copies(g)' = IF request'[g].stage \in {"mail", "ok"} THEN 1 ELSE 0
             /\ request'[g].stage \in {"mail", "ok"} => Copies(g)' >= 1
  <2>1. /\ g \notin unmailed => Copies(g) = IF request[g].stage \in {"mail", "ok"} THEN 1 ELSE 0
        /\ request[g].stage \in {"mail", "ok"} => Copies(g) >= 1
    BY <1>1 DEF Answered
  <2>2. CASE g # f
    <3>1. request'[g] = request[g] /\ (g \notin unmailed' => g \notin unmailed)
      BY <2>2
    <3> QED BY <2>1, <3>1, <1>5
  <2>3. CASE g = f
    BY <2>1, <2>3, <1>5
  <2> QED BY <2>2, <2>3
<1>7. Answered'
  BY <1>6 DEF Answered
<1> QED BY <1>3, <1>4, <1>7 DEF TeamInv

\* Where a request stands in the records.
LEMMA StageSet ==
    ASSUME RequestsOK, NEW f \in Forms, NEW stage \in {"none", "grade", "store", "mail", "ok", "error"},
           SetRequest(f, stage)
    PROVE  /\ RequestsOK' /\ request'[f].stage = stage
           /\ \A g \in Forms \ {f} : request'[g] = request[g]
BY DEF RequestsOK, SetRequest

LEMMA SubmitKeeps ==
    ASSUME TeamInv, NEW f \in Forms,
           SubmitApplication(f) \/ \E u \in Users, kind \in Kinds : SubmitInfo(f, u, kind)
    PROVE  TeamInv'
<1>1. TeamOK /\ RequestsOK /\ racers \subseteq Racer
  BY DEF TeamInv, TeamOK, RacingTypeOK
<1> DEFINE Requested == [stage : {"grade", "store", "error"}, kind : Kinds, racer : Nat, graded : Nat]
<1>2. /\ request[f].stage \in {"none", "error"} /\ \E q \in Requested : request' = [request EXCEPT ![f] = q]
      /\ UNCHANGED <<teamVars, configVars, rowVars, unmailed>>
  <2>1. CASE SubmitApplication(f)
    <3> DEFINE q == [stage |-> IF Configured THEN "grade" ELSE "error", kind |-> "application", racer |-> None,
                     graded |-> 0]
    <3>1. q \in Requested
      BY DEF None, Kinds
    <3> HIDE DEF q, Requested
    <3>2. request' = [request EXCEPT ![f] = q]
      BY <2>1 DEF SubmitApplication, q
    <3> QED BY <2>1, <3>1, <3>2 DEF SubmitApplication
  <2>2. ASSUME NEW u \in Users, NEW kind \in Kinds, SubmitInfo(f, u, kind) PROVE <1>2
    <3>1. CASE Found(u) /\ Configured
      <4> DEFINE row == CHOOSE r \in RowsOf(u) : TRUE
                 q == [stage |-> IF kind = "volunteer" THEN "store" ELSE "grade", kind |-> kind,
                       racer |-> row.num, graded |-> 0]
      <4>1. Cardinality(RowsOf(u)) = 1 /\ RowsOf(u) \subseteq racers
        BY <3>1 DEF Found, RowsOf
      <4>2. IsFiniteSet(RowsOf(u))
        BY <4>1, <1>1, FS_Subset DEF TeamOK
      <4>3. RowsOf(u) # {}
        BY <4>1, <4>2, FS_EmptySet
      <4>4. row \in racers
        BY <4>1, <4>3
      <4> HIDE DEF row
      <4>5. q \in Requested
        BY <4>4, <1>1 DEF Racer
      <4> HIDE DEF q, Requested
      <4>6. request' = [request EXCEPT ![f] = q]
        BY <2>2, <3>1 DEF SubmitInfo, q, row
      <4> QED BY <2>2, <4>5, <4>6 DEF SubmitInfo
    <3>2. CASE ~ (Found(u) /\ Configured)
      <4> DEFINE q == [NoRequest EXCEPT !.stage = "error", !.kind = kind]
      <4>1. q \in Requested
        BY DEF NoRequest, None
      <4> HIDE DEF q, Requested
      <4>2. request' = [request EXCEPT ![f] = q]
        BY <2>2, <3>2 DEF SubmitInfo, q
      <4> QED BY <2>2, <4>1, <4>2 DEF SubmitInfo
    <3> QED BY <3>1, <3>2
  <2> QED BY <2>1, <2>2
<1>3. PICK q \in Requested : request' = [request EXCEPT ![f] = q]
  BY <1>2
<1>4. /\ RequestsOK' /\ request'[f].stage \notin {"mail", "ok"}
      /\ \A g \in Forms \ {f} : request'[g] = request[g]
  BY <1>1, <1>3 DEF RequestsOK
<1> HIDE DEF Requested
<1> QED BY <1>2, <1>4, AnswerKeeps

LEMMA StoreKeeps ==
    ASSUME TeamInv, NEW f \in Forms, Store(f)
    PROVE  TeamInv'
<1>1. TeamOK /\ RowsOK /\ RequestsOK /\ Answered
  BY DEF TeamInv
<1>2. /\ request[f].stage = "store" /\ SetRequest(f, "mail")
      /\ UNCHANGED <<active, racers, configs, ranges, unmailed>>
      /\ IF request[f].kind = "application" THEN StoreApplication(f) ELSE StoreInfo(f)
  BY DEF Store, teamVars, configVars
<1>3. request[f].kind \in Kinds
  BY <1>1 DEF RequestsOK
<1>4. /\ RowsOK' /\ Copies(f)' = Copies(f) + 1 /\ Copies(f) \in Nat
      /\ \A g \in Forms \ {f} : Copies(g)' = Copies(g)
  <2>1. CASE request[f].kind = "application"
    BY <2>1, <1>1, <1>2, StoreApplicationKeeps
  <2>2. CASE request[f].kind # "application"
    BY <2>2, <1>1, <1>2, <1>3, StoreInfoKeeps DEF Kinds
  <2> QED BY <2>1, <2>2
<1>5. /\ RequestsOK' /\ request'[f].stage = "mail"
      /\ \A g \in Forms \ {f} : request'[g] = request[g]
  BY <1>1, <1>2, StageSet
<1>6. Answered'
  BY <1>1, <1>2, <1>4, <1>5 DEF Answered
<1>7. TeamOK'
  <2>1. infos' \subseteq Info /\ applications' \subseteq Application /\ volunteered' \subseteq Volunteer
        /\ results' \subseteq Result
    <3>1. CASE request[f].kind = "application"
      <4>1. FreeNum(applications) \in Nat
        BY <1>1, FreeNumIs DEF RowsOK, Numbered
      <4> QED BY <3>1, <4>1, <1>1, <1>2
              DEF StoreApplication, TeamOK, RacingTypeOK, Application, Result, None
    <3>2. CASE request[f].kind # "application"
      <4>1. FreeNum(infos) \in Nat /\ request[f].racer \in Nat
        BY <1>1, FreeNumIs DEF RowsOK, Numbered, RequestsOK
      <4> QED BY <3>2, <4>1, <1>1, <1>2
              DEF StoreInfo, TeamOK, RacingTypeOK, Info, Result, Volunteer, None
    <3> QED BY <3>1, <3>2
  <2> QED BY <2>1, <1>1, <1>2, <1>5 DEF TeamOK, RacingTypeOK, RequestsOK
<1> QED BY <1>4, <1>5, <1>6, <1>7 DEF TeamInv

LEMMA FormKeeps ==
    ASSUME TeamInv, NEW f \in Forms, GradeRace(f) \/ FailRequest(f) \/ Confirm(f) \/ MailFails(f)
    PROVE  TeamInv'
<1>1. RequestsOK
  BY DEF TeamInv
<1>2. CASE GradeRace(f)
  <2> DEFINE graded == request[f].graded + 1
             stage == IF graded = Races(request[f].kind) THEN "store" ELSE request[f].stage
             q == [request[f] EXCEPT !.graded = graded, !.stage = stage]
  <2>1. /\ request[f].stage = "grade" /\ request' = [request EXCEPT ![f] = q]
        /\ UNCHANGED <<teamVars, configVars, rowVars, unmailed>>
    BY <1>2, <1>1 DEF GradeRace, RequestsOK
  <2>2. graded \in Nat /\ stage \in {"store", "grade"}
    BY <1>1, <2>1 DEF RequestsOK
  <2> HIDE DEF graded, stage
  <2>3. /\ q \in [stage : {"none", "grade", "store", "mail", "ok", "error"}, kind : Kinds,
                   racer : Nat, graded : Nat]
        /\ q.stage = stage
    BY <1>1, <2>2 DEF RequestsOK
  <2> HIDE DEF q
  <2>4. /\ RequestsOK' /\ request'[f].stage \notin {"mail", "ok"}
        /\ \A g \in Forms \ {f} : request'[g] = request[g]
    BY <1>1, <2>1, <2>2, <2>3 DEF RequestsOK
  <2> QED BY <2>1, <2>4, AnswerKeeps
<1>3. CASE FailRequest(f)
  <2>1. /\ RequestsOK' /\ request'[f].stage = "error" /\ \A g \in Forms \ {f} : request'[g] = request[g]
    BY <1>1, <1>3, StageSet DEF FailRequest
  <2> QED BY <1>3, <2>1, AnswerKeeps DEF FailRequest
<1>4. CASE Confirm(f)
  <2>1. /\ RequestsOK' /\ request'[f].stage = "ok" /\ \A g \in Forms \ {f} : request'[g] = request[g]
    BY <1>1, <1>4, StageSet DEF Confirm
  <2> QED BY <1>4, <2>1, AnswerKeeps DEF Confirm
<1>5. CASE MailFails(f)
  <2>1. /\ RequestsOK' /\ request'[f].stage = "error" /\ \A g \in Forms \ {f} : request'[g] = request[g]
    BY <1>1, <1>5, StageSet DEF MailFails
  <2> QED BY <1>5, <2>1, AnswerKeeps DEF MailFails
<1> QED BY <1>2, <1>3, <1>4, <1>5

LEMMA TeamStart == RacingInit => TeamInv
<1>1. SUFFICES ASSUME RacingInit PROVE TeamInv
  OBVIOUS
<1>2. TeamOK
  BY <1>1, FS_EmptySet DEF RacingInit, TeamOK, RacingTypeOK
<1>3. RowsOK
  BY <1>1, FS_EmptySet DEF RacingInit, RowsOK, Numbered
<1>4. RequestsOK
  BY <1>1 DEF RacingInit, RequestsOK, NoRequest, Kinds, None
<1>5. \A f \in Forms : Copies(f) = 0
  BY <1>1, FS_EmptySet DEF RacingInit, Copies, InfosOf, ApplicationsOf
<1>6. Answered
  BY <1>1, <1>5 DEF RacingInit, Answered, NoRequest
<1> QED BY <1>2, <1>3, <1>4, <1>6 DEF TeamInv

LEMMA TeamSteps == TeamInv /\ [RacingNext]_racingVars => TeamInv'
<1>1. SUFFICES ASSUME TeamInv, [RacingNext]_racingVars PROVE TeamInv'
  OBVIOUS
<1>2. CASE AdminStep \/ UNCHANGED racingVars
  <2>1. TeamOK' /\ UNCHANGED <<rowVars, request, unmailed>>
    <3>1. CASE AdminStep
      BY <1>1, <3>1, AdminKeeps DEF TeamInv
    <3>2. CASE UNCHANGED racingVars
      <4>1. UNCHANGED <<active, racers, configs, ranges, infos, applications, results, volunteered, request, unmailed>>
        BY <3>2 DEF racingVars
      <4> QED BY <1>1, <4>1 DEF TeamInv, TeamOK, RacingTypeOK, rowVars
    <3> QED BY <1>2, <3>1, <3>2
  <2>2. RowsOK' /\ RequestsOK'
    BY <1>1, <2>1 DEF TeamInv, RowsOK, RequestsOK, RacesShown, rowVars
  <2>3. Answered'
    BY <1>1, <2>1, CopiesStay DEF TeamInv, Answered
  <2> QED BY <2>1, <2>2, <2>3 DEF TeamInv
<1>3. CASE FormStep
  BY <1>1, <1>3, SubmitKeeps, StoreKeeps, FormKeeps DEF FormStep
<1> QED BY <1>1, <1>2, <1>3 DEF RacingNext

\* The rows that belong to a form, and what its runner was told.
THEOREM TeamInvariant == RacingSpec => []TeamInv
BY TeamStart, TeamSteps, PTL DEF RacingSpec

\* The answer to a form tells what became of it, however many forms are sent, fail and are
\* sent again, and whatever the admins do to members and ranges meanwhile.
THEOREM AnswersAlwaysTell == RacingSpec => []AnswersTell
<1>1. TeamInv => AnswersTell
  <2>1. SUFFICES ASSUME TeamInv PROVE AnswersTell
    OBVIOUS
  <2>2. RowsOK /\ Answered
    BY <2>1 DEF TeamInv
  <2>3. InfoResults \union ApplicationResults = results /\ InfoResults \intersect ApplicationResults = {}
    BY <2>2 DEF RowsOK, InfoResults, ApplicationResults
  <2>4. ASSUME NEW f \in Forms PROVE Whole(f)
    <3>1. ASSUME NEW i \in InfosOf(f)
          PROVE  Cardinality({r \in InfoResults : r.info = i.num})
                   + Cardinality({v \in volunteered : v.info = i.num}) = 1
      <4>1. i \in infos /\ i.num # None
        BY <2>2 DEF InfosOf, RowsOK, Numbered, None
      <4>2. {r \in InfoResults : r.info = i.num} = Of(results, i.num)
        BY <4>1 DEF InfoResults, Of
      <4>3. {v \in volunteered : v.info = i.num} = Of(volunteered, i.num)
        BY DEF Of
      <4> QED BY <4>1, <4>2, <4>3, <2>2 DEF RowsOK
    <3> QED BY <3>1, <2>2 DEF Whole, ApplicationsOf, RowsOK
  <2>5. ASSUME NEW f \in Forms
        PROVE  /\ f \notin unmailed => Copies(f) = IF request[f].stage \in {"mail", "ok"} THEN 1 ELSE 0
               /\ request[f].stage = "ok" => Copies(f) >= 1
    BY <2>2 DEF Answered
  <2> QED BY <2>3, <2>4, <2>5 DEF AnswersTell
<1> QED BY <1>1, TeamInvariant, PTL

-----------------------------------------------------------------------------
(* The racing team: the days on which applications are open *)

\* A range that ends before it starts goes over New Year: today is in the one that started last
\* year or in the one that starts this year.
LEMMA OpenDays ==
    ASSUME NEW r \in DateRange, NEW year \in Nat, NEW d \in DateOfYear
    PROVE  InRange(r, year, d) <=> DaysFrom(r, d)
<1>1. /\ r.start[1] \in Nat /\ r.start[2] \in Nat /\ r.end[1] \in Nat /\ r.end[2] \in Nat
      /\ d[1] \in Nat /\ d[2] \in Nat
  BY RacingAssumption DEF DateRange, DateOfYear
<1>2. \A x, y \in DateOfYear : NotAfter(<<x[1], x[2]>>, <<y[1], y[2]>>) <=> NotAfter(x, y)
  BY DEF NotAfter
<1>3. /\ Upto(DateIn(year, r.start), DateIn(year, d)) <=> NotAfter(r.start, d)
      /\ Upto(DateIn(year, d), DateIn(year, r.end)) <=> NotAfter(d, r.end)
      /\ Upto(DateIn(year - 1, r.start), DateIn(year, d))
      /\ Upto(DateIn(year, d), DateIn(year + 1, r.end))
  BY <1>1, <1>2 DEF Upto, DateIn, DateRange, NotAfter
<1> QED BY <1>3 DEF InRange, DaysFrom

\* In "auto" the application page is open on exactly the days of its ranges.
THEOREM PageOpensInRanges == RacingSpec => []OpensInRanges
<1>1. TeamInv => OpensInRanges
  <2>1. SUFFICES ASSUME TeamInv, NEW year \in Years, NEW d \in DateOfYear
                 PROVE  ApplicationsOpen(year, d) <=>
                          \/ TheConfig.openbehavior = "open"
                          \/ TheConfig.openbehavior = "auto" /\ \E r \in ConfiguredRanges : DaysFrom(r, d)
    BY DEF OpensInRanges
  <2>2. \A r \in ConfiguredRanges : r \in DateRange
    BY <2>1 DEF TeamInv, TeamOK, RacingTypeOK, ConfiguredRanges
  <2>3. year \in Nat
    BY RacingAssumption
  <2> QED BY <2>2, <2>3, OpenDays DEF ApplicationsOpen
<1> QED BY <1>1, TeamInvariant, PTL

\* Both facts about the racing team.
THEOREM FormsAndDaysHold == RacingSpec => []FormsAndDays
BY AnswersAlwaysTell, PageOpensInRanges, PTL DEF FormsAndDays
=============================================================================
