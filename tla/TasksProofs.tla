----------------------------- MODULE TasksProofs ----------------------------
(***************************************************************************)
(* Proofs about leadership tasks: the groups, the completions, and the     *)
(* additional fields, for any tasks, groups, members, forms and requests.  *)
(***************************************************************************)
EXTENDS Tasks, TaskFields, SetFacts

-----------------------------------------------------------------------------
(* The groups below others *)

Depth == Cardinality(Groups)
Children(gs, G) == UNION {gs[h].groups : h \in G}

\* The first k levels below the groups G.
StartsLevels(gs, G, k, l) ==
    /\ l \in [0 .. k -> SUBSET Groups]
    /\ l[0] = G /\ \A n \in 1 .. k : l[n] = Children(gs, l[n - 1])

\* The levels are there down to any depth: each has one below it.
LEMMA LevelsIs ==
    ASSUME IsFiniteSet(Groups), NEW gs \in [Groups -> GroupRecords], NEW G \in SUBSET Groups
    PROVE  StartsLevels(gs, G, Depth, Levels(gs, G))
<1> DEFINE Start == {k \in Nat : \E l : StartsLevels(gs, G, k, l)}
           Below1(l) == [n \in 0 .. Depth |-> IF n = 0 THEN G ELSE Children(gs, l[n - 1])]
<1>0. Depth \in Nat
  BY FS_CardinalityType DEF Depth
<1>c. \A H \in SUBSET Groups : Children(gs, H) \in SUBSET Groups
  BY DEF Children, GroupRecords
<1>1. 0 \in Start
  <2>1. StartsLevels(gs, G, 0, [n \in 0 .. 0 |-> G])
    BY DEF StartsLevels
  <2> QED BY <2>1
<1>2. ASSUME NEW k \in 1 .. Depth, k - 1 \in Start PROVE k \in Start
  <2>1. PICK l : StartsLevels(gs, G, k - 1, l)
    BY <1>2
  <2>2. k - 1 \in 0 .. k - 1 /\ l[k - 1] \in SUBSET Groups
    BY <2>1 DEF StartsLevels
  <2> DEFINE m == [n \in 0 .. k |-> IF n = k THEN Children(gs, l[k - 1]) ELSE l[n]]
  <2>3. m \in [0 .. k -> SUBSET Groups]
    BY <1>c, <2>1, <2>2 DEF StartsLevels
  <2>4. m[0] = G
    BY <2>1 DEF StartsLevels
  <2>5. \A n \in 1 .. k : m[n] = Children(gs, m[n - 1])
    BY <2>1, <2>2 DEF StartsLevels
  <2>6. StartsLevels(gs, G, k, m)
    BY <2>3, <2>4, <2>5 DEF StartsLevels
  <2> QED BY <2>6
<1>3. PICK l : StartsLevels(gs, G, Depth, l)
  <2>1. 0 .. Depth \subseteq Start
    <3> HIDE DEF Start
    <3> QED BY <1>0, <1>1, <1>2, BoundedInduction
  <2> QED BY <1>0, <2>1
<1>4. l = Below1(l)
  BY <1>0, <1>3 DEF StartsLevels
<1>5. \E f : f = Below1(f)
  BY <1>4
<1>6. Levels(gs, G) = CHOOSE f : f = Below1(f)
  BY DEF Levels, Depth, Children
<1>7. Levels(gs, G) = Below1(Levels(gs, G))
  <2> HIDE DEF Below1
  <2> QED BY <1>5, <1>6
<1> DEFINE f == Levels(gs, G)
<1>8. /\ DOMAIN f = 0 .. Depth /\ f[0] = G
      /\ \A n \in 1 .. Depth : f[n] = Children(gs, f[n - 1])
      /\ f = [n \in 0 .. Depth |-> f[n]]
  <2> HIDE DEF f
  <2> QED BY <1>0, <1>7 DEF f
<1> HIDE DEF f, Below1
<1>9. 0 .. Depth \subseteq {n \in Nat : f[n] \in SUBSET Groups}
  <2> DEFINE S == {n \in Nat : f[n] \in SUBSET Groups}
  <2>1. 0 \in S
    BY <1>8
  <2>2. ASSUME NEW k \in 1 .. Depth, k - 1 \in S PROVE k \in S
    <3>1. f[k - 1] \in SUBSET Groups /\ f[k] = Children(gs, f[k - 1]) /\ k \in Nat
      <4>1. f[k] = Children(gs, f[k - 1])
        BY ONLY <1>8, k \in 1 .. Depth, Zenon
      <4>2. k \in Nat
        BY ONLY <1>0, k \in 1 .. Depth
      <4>3. f[k - 1] \in SUBSET Groups
        BY ONLY <2>2, Zenon
      <4> QED BY <4>1, <4>2, <4>3
    <3>2. f[k] \in SUBSET Groups
      BY <1>c, <3>1
    <3> QED BY <3>1, <3>2
  <2>3. 0 .. Depth \subseteq S
    <3> HIDE DEF S
    <3> QED BY <1>0, <2>1, <2>2, BoundedInduction
  <2> QED BY <2>3
<1>10. StartsLevels(gs, G, Depth, f)
  BY <1>8, <1>9 DEF StartsLevels
<1> QED BY <1>10 DEF f

\* Nothing that a group of D contains is outside D.
Closed(gs, D) == \A h \in D : gs[h].groups \subseteq D

\* What is below some groups is the least closed set with them, although only as many
\* levels are counted as there are groups: a level with nothing new comes before.
LEMMA BelowLeast ==
    ASSUME IsFiniteSet(Groups), NEW gs \in [Groups -> GroupRecords], NEW G \in SUBSET Groups
    PROVE  /\ G \subseteq Below(gs, G) /\ Below(gs, G) \subseteq Groups
           /\ Closed(gs, Below(gs, G))
           /\ \A D : G \subseteq D /\ Closed(gs, D) => Below(gs, G) \subseteq D
<1> DEFINE L == Levels(gs, G)
           B == Below(gs, G)
           U(n) == UNION {L[k] : k \in 0 .. n}
<1>1. Depth \in Nat
  BY FS_CardinalityType DEF Depth
<1>2. /\ L \in [0 .. Depth -> SUBSET Groups] /\ L[0] = G
      /\ \A n \in 1 .. Depth : L[n] = Children(gs, L[n - 1])
  BY LevelsIs DEF StartsLevels
<1>3. B = UNION {L[k] : k \in 0 .. Depth}
  BY <1>2 DEF Below, Range
<1>4. G \subseteq B /\ B \subseteq Groups
  BY <1>1, <1>2, <1>3
<1> HIDE DEF L, B
<1>5. ASSUME NEW D, G \subseteq D, Closed(gs, D) PROVE B \subseteq D
  <2> DEFINE S == {n \in Nat : n <= Depth => L[n] \subseteq D}
  <2>1. 0 \in S
    BY <1>2, <1>5
  <2>2. ASSUME NEW k \in 1 .. Depth, k - 1 \in S PROVE k \in S
    <3>1. L[k - 1] \subseteq D /\ L[k] = Children(gs, L[k - 1])
      BY <1>1, <1>2, <2>2
    <3>2. L[k] \subseteq D
      BY <1>5, <3>1 DEF Children, Closed
    <3> QED BY <3>2
  <2>3. 0 .. Depth \subseteq S
    <3> HIDE DEF S
    <3> QED BY <1>1, <2>1, <2>2, BoundedInduction
  <2> QED BY <1>3, <2>3
<1>6. ASSUME NEW m \in 0 .. Depth - 1, L[m + 1] \subseteq U(m) PROVE Closed(gs, U(m))
  <2> SUFFICES ASSUME NEW k \in 0 .. m, NEW h \in L[k] PROVE gs[h].groups \subseteq U(m)
    BY DEF Closed
  <2>1. k + 1 \in 1 .. Depth /\ L[k + 1] = Children(gs, L[k])
    BY <1>1, <1>2
  <2>2. gs[h].groups \subseteq L[k + 1]
    BY <2>1 DEF Children
  <2>3. CASE k = m
    BY <1>6, <2>2, <2>3
  <2>4. CASE k # m
    <3>1. k + 1 \in 0 .. m
      BY <2>4
    <3> QED BY <2>2, <3>1
  <2> QED BY <2>3, <2>4
<1>7. CASE G = {}
  <2>1. B \subseteq {}
    BY <1>5, <1>7 DEF Closed
  <2> QED BY <1>4, <1>5, <2>1 DEF B, Closed
<1>8. CASE G # {}
  <2> DEFINE Stops(n) == \E m \in 0 .. n - 1 : L[m + 1] \subseteq U(m)
             S == {n \in Nat : n <= Depth => Stops(n) \/ Cardinality(U(n)) > n}
  <2>0. \A n \in 0 .. Depth : U(n) \subseteq Groups /\ IsFiniteSet(U(n)) /\ Cardinality(U(n)) \in Nat
    <3> SUFFICES ASSUME NEW n \in 0 .. Depth
                 PROVE  U(n) \subseteq Groups /\ IsFiniteSet(U(n)) /\ Cardinality(U(n)) \in Nat
      OBVIOUS
    <3>1. U(n) \subseteq Groups
      BY <1>1, <1>2
    <3> QED BY <3>1, FS_Subset, FS_CardinalityType
  <2>1. 0 \in S
    <3>1. U(0) = G
      BY <1>2
    <3>2. 0 \in 0 .. Depth
      BY <1>1
    <3>3. Cardinality(U(0)) # 0
      BY <1>8, <2>0, <3>1, <3>2, FS_EmptySet
    <3> HIDE DEF U
    <3>4. Cardinality(U(0)) \in Nat
      BY <2>0, <3>2
    <3> QED BY <3>3, <3>4
  <2>2. ASSUME NEW k \in 1 .. Depth, k - 1 \in S PROVE k \in S
    <3>1. k - 1 \in 0 .. Depth /\ k \in 0 .. Depth /\ k \in Nat
      BY <1>1
    <3>2. CASE Stops(k - 1)
      <4>1. 0 .. (k - 1) - 1 \subseteq 0 .. k - 1
        BY <3>1
      <4>2. Stops(k)
        <5> HIDE DEF U
        <5> QED BY <3>2, <4>1
      <4> QED BY <3>1, <4>2
    <3>3. CASE ~ Stops(k - 1) /\ L[k] \subseteq U(k - 1)
      <4>1. L[(k - 1) + 1] \subseteq U(k - 1) /\ k - 1 \in 0 .. k - 1
        BY <3>1, <3>3
      <4> QED BY <3>1, <4>1
    <3>4. CASE ~ Stops(k - 1) /\ ~ (L[k] \subseteq U(k - 1))
      <4>1. Cardinality(U(k - 1)) > k - 1
        BY <2>2, <3>1, <3>4
      <4>2. PICK x \in L[k] : x \notin U(k - 1)
        BY <3>4
      <4>3. U(k - 1) \union {x} \subseteq U(k)
        BY <3>1, <4>2
      <4> DEFINE V == U(k - 1)
                 W == U(k)
      <4>4. IsFiniteSet(V) /\ IsFiniteSet(W) /\ x \notin V /\ V \union {x} \subseteq W
        BY <2>0, <3>1, <4>2, <4>3
      <4>5. Cardinality(V) > k - 1 /\ Cardinality(V) \in Nat /\ Cardinality(W) \in Nat
        BY <2>0, <3>1, <4>1
      <4> HIDE DEF V, W
      <4>6. Cardinality(V \union {x}) = Cardinality(V) + 1 /\ IsFiniteSet(V \union {x})
        BY <4>4, FS_AddElement
      <4>7. Cardinality(V \union {x}) <= Cardinality(W)
        BY <4>4, FS_Subset
      <4>8. Cardinality(W) > k
        BY <4>5, <4>6, <4>7
      <4> QED BY <3>1, <4>8 DEF W
    <3> QED BY <3>2, <3>3, <3>4
  <2>3. 0 .. Depth \subseteq S
    <3> HIDE DEF S
    <3> QED BY <1>1, <2>1, <2>2, BoundedInduction
  <2>4. Stops(Depth)
    <3>1. Depth \in 0 .. Depth
      BY <1>1
    <3>2. Cardinality(U(Depth)) <= Depth
      <4>1. U(Depth) \subseteq Groups
        BY <2>0, <3>1
      <4> HIDE DEF U
      <4> QED BY <4>1, FS_Subset DEF Depth
    <3>3. Stops(Depth) \/ Cardinality(U(Depth)) > Depth
      BY <1>1, <2>3, <3>1
    <3>4. Cardinality(U(Depth)) \in Nat
      <4> HIDE DEF U
      <4> QED BY <2>0, <3>1
    <3> HIDE DEF U, Stops
    <3> QED BY <1>1, <3>2, <3>3, <3>4
  <2>5. PICK m \in 0 .. Depth - 1 : L[m + 1] \subseteq U(m)
    BY <2>4
  <2>6. Closed(gs, U(m))
    BY <1>6, <2>5
  <2>7. G \subseteq U(m) /\ U(m) \subseteq B
    BY <1>1, <1>2, <1>3
  <2>8. B = U(m)
    <3> HIDE DEF U
    <3> QED BY <1>5, <2>6, <2>7
  <2> QED BY <1>4, <1>5, <2>6, <2>8 DEF B
<1> QED BY <1>7, <1>8

-----------------------------------------------------------------------------
(* No loops *)

\* A group with a form that leads from it back to it nowhere closes no loop.
LEMMA SaveClosesNone ==
    ASSUME IsFiniteSet(Groups), NEW gs \in [Groups -> GroupRecords], ~ HasLoop(gs),
           NEW g \in Groups, NEW f \in GroupRecords, g \notin Below(gs, f.groups)
    PROVE  ~ HasLoop([gs EXCEPT ![g] = f])
<1> DEFINE new == [gs EXCEPT ![g] = f]
           B == Below(gs, f.groups)
<1> SUFFICES ASSUME NEW x \in Groups, OnLoop(new, x) PROVE FALSE
  BY DEF HasLoop
<1>1. /\ new \in [Groups -> GroupRecords] /\ new[g] = f
      /\ \A h \in Groups \ {g} : new[h] = gs[h]
  OBVIOUS
<1> HIDE DEF new
<1>2. f.groups \in SUBSET Groups /\ gs[x].groups \in SUBSET Groups /\ new[x].groups \in SUBSET Groups
  BY <1>1 DEF GroupRecords
<1>3. f.groups \subseteq B /\ B \subseteq Groups /\ Closed(gs, B)
      /\ \A D : f.groups \subseteq D /\ Closed(gs, D) => B \subseteq D
  BY <1>2, BelowLeast
<1>4. \A D : new[x].groups \subseteq D /\ Closed(new, D) => x \in D
  BY <1>1, <1>2, BelowLeast DEF OnLoop
<1> HIDE DEF B
<1>5. Closed(new, B)
  BY <1>1, <1>3 DEF Closed, B
<1>6. CASE x = g
  BY <1>1, <1>3, <1>4, <1>5, <1>6 DEF B
<1>7. CASE x # g
  <2> DEFINE C == Below(gs, gs[x].groups)
  <2>1. /\ gs[x].groups \subseteq C /\ C \subseteq Groups /\ Closed(gs, C)
        /\ \A D : gs[x].groups \subseteq D /\ Closed(gs, D) => C \subseteq D
    BY <1>2, BelowLeast
  <2>2. x \notin C
    BY DEF HasLoop, OnLoop
  <2> HIDE DEF C
  <2>3. Closed(new, C \union B) /\ new[x].groups \subseteq C \union B
    BY <1>1, <1>3, <1>7, <2>1 DEF Closed
  <2>4. x \in B
    BY <1>4, <2>2, <2>3
  <2>5. gs[x].groups \subseteq B
    BY <1>3, <2>4 DEF Closed
  <2>6. C \subseteq B
    BY <1>3, <2>1, <2>5
  <2>7. g \notin C
    BY <2>6 DEF B
  <2>8. Closed(new, C)
    BY <1>1, <2>1, <2>7 DEF Closed
  <2> QED BY <1>1, <1>4, <1>7, <2>1, <2>2, <2>8
<1> QED BY <1>6, <1>7

\* A validated form leads back to its group nowhere in the table it was validated with.
GroupsInv ==
    /\ GroupsTypeOK /\ DOMAIN editing = Requests
    /\ \A r \in Running :
         editing[r].group \notin Below(editing[r].read, editing[r].form.groups)
    /\ NoLoops

LEMMA InitGroupsInv == GroupsInit => GroupsInv
<1> SUFFICES ASSUME GroupsInit PROVE GroupsInv
  OBVIOUS
<1>1. NoGroup \in GroupRecords
  BY DEF NoGroup, GroupRecords
<1>2. groups \in [Groups -> GroupRecords] /\ saves \in Nat /\ raced \in BOOLEAN
  BY <1>1, FormsAssumption DEF GroupsInit
<1>3. DOMAIN editing = Requests /\ Running = {} /\ NoLoops
  BY DEF GroupsInit, Running, NoLoops
<1> QED BY <1>2, <1>3 DEF GroupsInv, GroupsTypeOK

LEMMA GroupsStep == GroupsInv /\ [GroupsNext]_groupVars => GroupsInv'
<1> SUFFICES ASSUME GroupsInv, [GroupsNext]_groupVars PROVE GroupsInv'
  OBVIOUS
<1>0. /\ groups \in [Groups -> GroupRecords] /\ saves \in Nat /\ raced \in BOOLEAN
      /\ Forms \subseteq GroupRecords /\ IsFiniteSet(Groups) /\ NoGroup \in GroupRecords
  BY FormsAssumption DEF GroupsInv, GroupsTypeOK, NoGroup, GroupRecords
<1>1. ASSUME NEW r \in Requests, NEW g \in Groups, NEW f \in Forms, BeginEdit(r, g, f)
      PROVE  GroupsInv'
  <2> DEFINE e == [group |-> g, form |-> f, read |-> groups]
  <2>1. /\ editing' = [editing EXCEPT ![r] = e] /\ UNCHANGED <<groups, saves, raced>>
        /\ e.group = g /\ e.form = f /\ e.read = groups
        /\ e \in [group : Groups, form : Forms, read : [Groups -> GroupRecords]]
    BY <1>0, <1>1 DEF BeginEdit
  <2>2. g \notin Below(groups, f.groups)
    BY <1>1 DEF BeginEdit, Repeated
  <2> HIDE DEF e
  <2> QED BY <2>1, <2>2 DEF GroupsInv, GroupsTypeOK, Running, NoLoops
<1>2. ASSUME NEW r \in Requests, SaveGroup(r) PROVE GroupsInv'
  <2> DEFINE e == editing[r]
  <2>1. /\ e \in [group : Groups, form : Forms, read : [Groups -> GroupRecords]]
        /\ e.group \notin Below(e.read, e.form.groups)
    BY <1>2 DEF SaveGroup, GroupsInv, GroupsTypeOK, Running
  <2>2. /\ groups' = [groups EXCEPT ![e.group] = e.form] /\ editing' = [editing EXCEPT ![r] = Idle]
        /\ raced' = (raced \/ e.read # groups) /\ saves' = saves + 1
    BY <1>2 DEF SaveGroup
  <2> HIDE DEF e
  <2>3. /\ groups' \in [Groups -> GroupRecords] /\ saves' \in Nat /\ raced' \in BOOLEAN
    BY <1>0, <2>1, <2>2
  <2>4. NoLoops'
    <3> SUFFICES ASSUME ~ raced' PROVE ~ HasLoop(groups')
      BY DEF NoLoops
    <3>1. e.read = groups /\ ~ HasLoop(groups)
      BY <2>2 DEF GroupsInv, NoLoops
    <3>2. e.group \in Groups /\ e.form \in GroupRecords /\ e.group \notin Below(groups, e.form.groups)
      BY <1>0, <2>1, <3>1
    <3> QED BY <1>0, <2>2, <3>1, <3>2, SaveClosesNone
  <2> QED BY <2>2, <2>3, <2>4 DEF GroupsInv, GroupsTypeOK, Running
<1>3. ASSUME NEW r \in Requests, FailEdit(r) PROVE GroupsInv'
  BY <1>3 DEF FailEdit, GroupsInv, GroupsTypeOK, Running, NoLoops
<1>4. ASSUME NEW g \in Groups, DeleteGroup(g) PROVE GroupsInv'
  <2>1. /\ groups' = [groups EXCEPT ![g] = NoGroup] /\ saves' = saves + 1 /\ UNCHANGED <<editing, raced>>
    BY <1>4 DEF DeleteGroup
  <2>2. groups' \in [Groups -> GroupRecords] /\ saves' \in Nat
    BY <1>0, <2>1
  <2>3. g \notin Below(groups, NoGroup.groups)
    <3>1. NoGroup.groups = {} /\ NoGroup.groups \in SUBSET Groups
      BY DEF NoGroup
    <3>2. \A D : NoGroup.groups \subseteq D /\ Closed(groups, D) => Below(groups, NoGroup.groups) \subseteq D
      BY <1>0, <3>1, BelowLeast
    <3>3. Closed(groups, {})
      BY DEF Closed
    <3> QED BY <3>1, <3>2, <3>3
  <2>4. NoLoops'
    BY <1>0, <2>1, <2>3, SaveClosesNone DEF GroupsInv, NoLoops
  <2> QED BY <2>1, <2>2, <2>4 DEF GroupsInv, GroupsTypeOK, Running
<1>5. CASE UNCHANGED groupVars
  BY <1>5 DEF groupVars, GroupsInv, GroupsTypeOK, Running, NoLoops
<1> QED BY <1>1, <1>2, <1>3, <1>4, <1>5 DEF GroupsNext

\* Types, and what a validated form was validated with.
THEOREM GroupsInvariant == GroupsSpec => []GroupsInv
BY InitGroupsInv, GroupsStep, PTL DEF GroupsSpec

\* The walks down the groups end: no group is below itself, unless two forms were validated
\* and saved at the same time (NoLoops).
THEOREM WalksEnd == GroupsSpec => []NoLoops
BY GroupsInvariant, PTL DEF GroupsInv

-----------------------------------------------------------------------------
(* The dates of yearly tasks *)

\* The day d is the day s of the year k.
IsDayOf(d, s, k) == k \in Int /\ s \in 0 .. Year - 1 /\ d = k * Year + s

LEMMA YearIs ==
    ASSUME NEW d, NEW s, NEW k, IsDayOf(d, s, k)
    PROVE  YearOf(d) = k /\ DayOfYear(d) = s
BY YearAssumption DEF YearOf, DayOfYear, IsDayOf

LEMMA YearAndDay ==
    ASSUME NEW d \in Int
    PROVE  YearOf(d) \in Int /\ DayOfYear(d) \in 0 .. Year - 1 /\ d = YearOf(d) * Year + DayOfYear(d)
BY YearAssumption DEF YearOf, DayOfYear

\* What the dates of a task record may be.
YearlyTask(t) == t.doy \in 0 .. Year - 1 /\ t.starts \in 0 .. Year - 1

\* A window ends starts days after the date of some year, and the date d is in its window.
LEMMA WindowIs ==
    ASSUME NEW t, YearlyTask(t), NEW d \in Int
    PROVE  \E k \in Int : /\ WindowEnds(t, d) = k * Year + t.doy + t.starts
                          /\ WindowStarts(t, d) = (k - 1) * Year + t.doy + t.starts
                          /\ WindowStarts(t, d) <= d /\ d < WindowEnds(t, d)
<1> DEFINE first == FirstEnd(t, d)
           y == YearOf(d)
           since == d - first
           q == YearOf(since)
           r == DayOfYear(since)
<1> USE YearAssumption DEF YearlyTask
<1>1. y \in Int /\ DayOfYear(d) \in 0 .. Year - 1 /\ d = y * Year + DayOfYear(d)
  BY YearAndDay
<1>2. first = (y - 2) * Year + t.doy + t.starts /\ first \in Int
  BY <1>1 DEF FirstEnd
<1>3. q \in Int /\ r \in 0 .. Year - 1 /\ since = q * Year + r
  <2>1. since \in Int
    BY <1>2
  <2> HIDE DEF since
  <2> QED BY <2>1, YearAndDay
<1>4. (y - 2) * Year = y * Year - 2 * Year /\ y * Year \in Int
  BY <1>1
<1>5. first <= d
  BY <1>1, <1>2, <1>4
<1>6. WindowEnds(t, d) = first + (q + 1) * Year
  BY <1>2, <1>5 DEF WindowEnds, YearOf
<1>7. (q + 1) * Year = q * Year + Year /\ q * Year \in Int
  BY <1>3
<1> DEFINE k == y - 1 + q
<1>8. /\ k * Year = (y - 2) * Year + (q + 1) * Year /\ (k - 1) * Year = k * Year - Year
      /\ k \in Int /\ k * Year \in Int
  BY <1>1, <1>3
<1> HIDE DEF first, y, q, r, k
<1>9. WindowEnds(t, d) = k * Year + t.doy + t.starts
  BY <1>2, <1>4, <1>6, <1>7, <1>8
<1>10. WindowStarts(t, d) = (k - 1) * Year + t.doy + t.starts
  BY <1>8, <1>9 DEF WindowStarts
<1>11. WindowStarts(t, d) <= d /\ d < WindowEnds(t, d)
  BY <1>2, <1>3, <1>6, <1>7 DEF WindowStarts
<1> QED BY <1>8, <1>9, <1>10, <1>11

\* Completed on day d, a task is done for a date that d follows by at most starts days, or
\* precedes by less than the rest of the year: until the date a year after that one.
LEMMA CountsForDate ==
    ASSUME NEW t, YearlyTask(t), NEW d \in Int
    PROVE  LET x == NextExpiry(t, d) - Year
           IN  /\ NextExpiry(t, d) \in Int /\ DayOfYear(x) = t.doy
               /\ x - Year + t.starts < d /\ d <= x + t.starts
<1> DEFINE we == WindowEnds(t, d)
           ws == WindowStarts(t, d)
           s == t.doy + t.starts
           year == IF t.doy <= DayOfYear(we) THEN YearOf(we) + 1 ELSE YearOf(we)
<1> USE YearAssumption
<1>1. s \in Int /\ 0 <= s /\ t.doy \in 0 .. Year - 1 /\ t.starts \in 0 .. Year - 1 /\ s = t.doy + t.starts
  BY DEF YearlyTask, s
<1>2. PICK k \in Int : /\ we = k * Year + t.doy + t.starts /\ ws = (k - 1) * Year + t.doy + t.starts
                      /\ ws <= d /\ d < we
  BY WindowIs
<1> HIDE DEF we, ws, s
<1>3. k * Year \in Int /\ (k - 1) * Year = k * Year - Year /\ (k + 1) * Year = k * Year + Year
      /\ we = k * Year + s /\ ws = (k - 1) * Year + s /\ we \in Int
  BY <1>1, <1>2
<1>4. year = k + 1
  <2>1. CASE s < Year
    <3>1. IsDayOf(we, s, k)
      BY <1>1, <1>2, <1>3, <2>1 DEF IsDayOf
    <3>2. YearOf(we) = k /\ DayOfYear(we) = s
      BY <3>1, YearIs
    <3> QED BY <1>1, <3>2
  <2>2. CASE s >= Year
    <3>1. IsDayOf(we, s - Year, k + 1) /\ s - Year < t.doy
      BY <1>1, <1>2, <1>3, <2>2 DEF IsDayOf
    <3>2. YearOf(we) = k + 1 /\ DayOfYear(we) = s - Year
      BY <3>1, YearIs
    <3> QED BY <1>1, <3>1, <3>2
  <2> QED BY <1>1, <2>1, <2>2
<1>5. NextExpiry(t, d) = (IF d <= ws THEN year - 1 ELSE year) * Year + t.doy
  BY DEF NextExpiry, we, ws
<1> DEFINE x == NextExpiry(t, d) - Year
<1> SUFFICES NextExpiry(t, d) \in Int /\ DayOfYear(x) = t.doy /\ x - Year + t.starts < d /\ d <= x + t.starts
  OBVIOUS
<1>8. NextExpiry(t, d) \in Int
  BY <1>1, <1>3, <1>4, <1>5
<1> HIDE DEF x, year
<1>6. CASE d <= ws
  <2>1. x = (k - 1) * Year + t.doy /\ IsDayOf(x, t.doy, k - 1)
    BY <1>1, <1>2, <1>3, <1>4, <1>5, <1>6 DEF x, IsDayOf
  <2>2. DayOfYear(x) = t.doy
    BY <2>1, YearIs
  <2> QED BY <1>1, <1>2, <1>3, <1>6, <1>8, <2>1, <2>2 DEF IsDayOf
<1>7. CASE ~ (d <= ws)
  <2>1. x = k * Year + t.doy /\ IsDayOf(x, t.doy, k)
    BY <1>1, <1>2, <1>3, <1>4, <1>5, <1>7 DEF x, IsDayOf
  <2>2. DayOfYear(x) = t.doy
    BY <2>1, YearIs
  <2> QED BY <1>1, <1>2, <1>3, <1>7, <1>8, <2>1, <2>2 DEF IsDayOf
<1> QED BY <1>6, <1>7

-----------------------------------------------------------------------------
(* Tasks: the inductive invariant *)

\* What a request that marks holds.
MarkOK(q) ==
    /\ q.row \in CompletionRecords /\ q.row.num <= marks /\ q.row.task = q.task
    /\ \A c \in completions : c.num # q.row.num
    /\ ~ q.row.dated => q.row.day = today
    /\ q.reads = versions[q.task] => q.row.position = tasks[q.task].position

\* What a request that saves has read is the table of the task's completions as it is, except
\* those that strayed, as long as nobody saved the task since.
SaveOK(q) ==
    /\ q.reads < MaxTaskSaves
    /\ q.form \in TaskRecords /\ (q.form.byposition <=> q.form.position # NoPosition)
    /\ q.rows \subseteq {c \in CompletionRecords : c.task = q.task}
    /\ q.reads = versions[q.task] =>
         /\ q.rows \subseteq completions
         /\ \A c \in completions : c.task = q.task => c \in q.rows \/ c.num \in strayed

\* Completions that did not stray have the position of the task.
TasksInv ==
    /\ TasksTypeOK /\ DOMAIN request = MarkRequests
    /\ \A c \in completions : c.num <= marks
    /\ \A c, d \in completions : c.num = d.num => c = d
    /\ \A c \in completions : c.num \notin strayed => c.position = tasks[c.task].position
    /\ \A r \in Busy : request[r].reads \in Nat /\ request[r].reads <= versions[request[r].task]
    /\ \A r \in Marking : MarkOK(request[r])
    /\ \A r \in Saving : SaveOK(request[r])
    /\ \A r, s \in Marking : request[r].row.num = request[s].row.num => r = s

LEMMA InitTasksInv == TasksInit => TasksInv
<1> SUFFICES ASSUME TasksInit PROVE TasksInv
  OBVIOUS
<1>1. tasks \in [Tasks -> TaskRecords] /\ \A t \in Tasks : tasks[t].byposition <=> tasks[t].position # NoPosition
  BY ConfigsAssumption DEF TasksInit
<1>2. Busy = {} /\ Marking = {} /\ Saving = {} /\ DOMAIN request = MarkRequests
  BY DEF TasksInit, Busy, Marking, Saving
<1>3. TasksTypeOK
  BY <1>1, <1>2, ConfigsAssumption DEF TasksInit, TasksTypeOK, Days
<1> QED BY <1>2, <1>3 DEF TasksInit, TasksInv

\* A request that runs, or none.
LEMMA OneMore ==
    ASSUME DOMAIN request = MarkRequests, NEW r \in MarkRequests, NEW q,
           request' = [request EXCEPT ![r] = q]
    PROVE  /\ DOMAIN request' = MarkRequests
           /\ \A s \in MarkRequests : request'[s] = IF s = r THEN q ELSE request[s]
           /\ Busy' \subseteq Busy \union {r} /\ Marking' \subseteq Marking \union {r}
           /\ Saving' \subseteq Saving \union {r}
           /\ q = Idle => r \notin Busy' /\ r \notin Marking' /\ r \notin Saving'
           /\ r \in Marking' => q.op = "mark"
           /\ r \in Saving' => q.op = "save"
BY DEF Busy, Marking, Saving

LEMMA BeginMarkStep ==
    ASSUME TasksInv, NEW r \in MarkRequests, NEW u \in Members, NEW t \in Tasks, NEW d \in Days,
           NEW dated \in BOOLEAN, BeginMark(r, u, t, d, dated)
    PROVE  TasksInv'
<1> USE DEF TasksInv
<1> DEFINE row == [task |-> t, user |-> u, position |-> tasks[t].position,
                   day |-> d, dated |-> dated, num |-> marks + 1]
           q == [op |-> "mark", task |-> t, reads |-> versions[t], row |-> row]
<1>1. /\ request' = [request EXCEPT ![r] = q] /\ marks' = marks + 1 /\ marks < MaxMarks
      /\ ~ dated => d = today
      /\ UNCHANGED <<tasks, completions, holders, today, versions, strayed>>
  BY DEF BeginMark
<1>2. /\ marks \in Nat /\ MaxMarks \in Nat /\ tasks[t].position \in Positions \union {NoPosition}
      /\ versions[t] \in Nat
  BY ConfigsAssumption DEF TasksTypeOK, TaskRecords
<1>3. /\ row \in CompletionRecords /\ row.num = marks + 1 /\ row.task = t /\ row.dated = dated
      /\ row.day = d /\ row.position = tasks[t].position
  BY <1>1, <1>2 DEF CompletionRecords
<1>4. q.op = "mark" /\ q.task = t /\ q.reads = versions[t] /\ q.row = row
  OBVIOUS
<1> HIDE DEF row, q
<1>5. /\ DOMAIN request' = MarkRequests
      /\ \A s \in MarkRequests : request'[s] = IF s = r THEN q ELSE request[s]
      /\ Busy' \subseteq Busy \union {r} /\ Marking' \subseteq Marking \union {r}
      /\ Saving' \subseteq Saving \union {r} /\ (r \in Saving' => q.op = "save")
  BY <1>1, OneMore
<1>6. r \notin Saving' /\ Saving' \subseteq Saving
  BY <1>4, <1>5
<1>7. Busy \subseteq MarkRequests /\ Marking \subseteq Busy /\ Saving \subseteq Busy
  BY DEF Busy, Marking, Saving
<1>8. TasksTypeOK'
  <2>1. marks' \in 0 .. MaxMarks /\ strayed' \subseteq 1 .. marks'
    BY <1>1, <1>2 DEF TasksTypeOK
  <2>2. ASSUME NEW s \in Busy'
        PROVE  /\ request'[s].op \in {"mark", "save"} /\ request'[s].task \in Tasks
               /\ request'[s].op = "mark" => request'[s].row.num \in 1..marks'
               /\ request'[s].op = "save" => request'[s].form \in TaskRecords
    <3>1. CASE s = r
      BY <1>1, <1>2, <1>3, <1>4, <1>5, <1>7, <3>1
    <3>2. CASE s # r
      BY <1>1, <1>2, <1>5, <1>7, <3>2 DEF TasksTypeOK
    <3> QED BY <3>1, <3>2
  <2> QED BY <1>1, <2>1, <2>2 DEF TasksTypeOK
<1>9. ASSUME NEW s \in Marking' PROVE MarkOK(request[s])'
  <2>1. CASE s = r
    BY <1>1, <1>2, <1>3, <1>4, <1>5, <2>1 DEF MarkOK, TasksTypeOK
  <2>2. CASE s # r
    <3>1. request'[s] = request[s] /\ MarkOK(request[s])
      BY <1>5, <1>7, <2>2
    <3>2. request[s].row.num \in Nat
      BY <3>1 DEF MarkOK, CompletionRecords
    <3> QED BY <1>1, <1>2, <3>1, <3>2 DEF MarkOK
  <2> QED BY <2>1, <2>2
<1>10. ASSUME NEW s \in Saving' PROVE SaveOK(request[s])'
  BY <1>1, <1>5, <1>6, <1>7 DEF SaveOK
<1>11. \A s \in Busy' : request'[s].reads \in Nat /\ request'[s].reads <= versions'[request'[s].task]
  BY <1>1, <1>2, <1>4, <1>5, <1>7
<1>12. ASSUME NEW s \in Marking', NEW z \in Marking', request'[s].row.num = request'[z].row.num
       PROVE  s = z
  <2>1. \A y \in Marking : request[y].row.num <= marks /\ request[y].row.num \in Nat
    BY DEF MarkOK, CompletionRecords
  <2>2. \A y \in Marking' : y # r => y \in Marking /\ request'[y] = request[y]
    BY <1>5, <1>7
  <2>3. r \in Marking' => request'[r].row.num = marks + 1
    BY <1>3, <1>4, <1>5
  <2> QED BY <1>2, <1>12, <2>1, <2>2, <2>3
<1>13. \A c \in completions' : c.num <= marks'
  BY <1>1, <1>2 DEF TasksTypeOK, CompletionRecords
<1> QED BY <1>1, <1>5, <1>8, <1>9, <1>10, <1>11, <1>12, <1>13

LEMMA BeginSaveStep ==
    ASSUME TasksInv, NEW r \in MarkRequests, NEW t \in Tasks, NEW f \in Configs, BeginSave(r, t, f)
    PROVE  TasksInv'
<1> USE DEF TasksInv
<1> DEFINE q == [op |-> "save", task |-> t, form |-> Posthooked(f), reads |-> versions[t],
                 rows |-> {c \in completions : c.task = t}]
<1>1. /\ request' = [request EXCEPT ![r] = q]
      /\ UNCHANGED <<tasks, completions, holders, today, marks, versions, strayed>>
  BY DEF BeginSave
<1>2. /\ Posthooked(f) \in TaskRecords
      /\ Posthooked(f).byposition <=> Posthooked(f).position # NoPosition
  BY ConfigsAssumption DEF Posthooked, TaskRecords
<1>3. /\ q.op = "save" /\ q.task = t /\ q.reads = versions[t] /\ q.form = Posthooked(f)
      /\ versions[t] < MaxTaskSaves
      /\ q.rows = {c \in completions : c.task = t} /\ versions[t] \in Nat
  BY DEF TasksTypeOK, BeginSave
<1> HIDE DEF q
<1>4. /\ DOMAIN request' = MarkRequests
      /\ \A s \in MarkRequests : request'[s] = IF s = r THEN q ELSE request[s]
      /\ Busy' \subseteq Busy \union {r} /\ Marking' \subseteq Marking \union {r}
      /\ Saving' \subseteq Saving \union {r} /\ (r \in Marking' => q.op = "mark")
  BY <1>1, OneMore
<1>5. /\ Busy \subseteq MarkRequests /\ Marking \subseteq Busy /\ Saving \subseteq Busy
      /\ Marking' \subseteq Marking /\ \A s \in Marking' : request'[s] = request[s]
  BY <1>3, <1>4 DEF Busy, Marking, Saving
<1>6. TasksTypeOK'
  <2>1. ASSUME NEW s \in Busy'
        PROVE  /\ request'[s].op \in {"mark", "save"} /\ request'[s].task \in Tasks
               /\ request'[s].op = "mark" => request'[s].row.num \in 1..marks'
               /\ request'[s].op = "save" => request'[s].form \in TaskRecords
    <3>1. CASE s = r
      BY <1>2, <1>3, <1>4, <1>5, <3>1
    <3>2. CASE s # r
      BY <1>1, <1>4, <1>5, <3>2 DEF TasksTypeOK
    <3> QED BY <3>1, <3>2
  <2> QED BY <1>1, <2>1 DEF TasksTypeOK
<1>7. ASSUME NEW s \in Marking' PROVE MarkOK(request[s])'
  BY <1>1, <1>5 DEF MarkOK
<1>8. ASSUME NEW s \in Saving' PROVE SaveOK(request[s])'
  <2>1. CASE s = r
    <3>1. request'[s] = q
      BY <1>4, <2>1
    <3> QED BY <1>1, <1>2, <1>3, <3>1 DEF SaveOK, TasksTypeOK
  <2>2. CASE s # r
    <3>1. request'[s] = request[s] /\ SaveOK(request[s])
      BY <1>4, <1>5, <2>2
    <3> QED BY <1>1, <3>1 DEF SaveOK
  <2> QED BY <2>1, <2>2
<1>9. \A s \in Busy' : request'[s].reads \in Nat /\ request'[s].reads <= versions'[request'[s].task]
  BY <1>1, <1>3, <1>4, <1>5
<1>10. \A s, z \in Marking' : request'[s].row.num = request'[z].row.num => s = z
  BY <1>5
<1> QED BY <1>1, <1>4, <1>6, <1>7, <1>8, <1>9, <1>10

\* A request that ends leaves the others as they are.
LEMMA OneLess ==
    ASSUME DOMAIN request = MarkRequests, NEW r \in MarkRequests, request' = [request EXCEPT ![r] = Idle]
    PROVE  /\ DOMAIN request' = MarkRequests
           /\ Busy' = Busy \ {r} /\ Marking' = Marking \ {r} /\ Saving' = Saving \ {r}
           /\ \A s \in Busy' : request'[s] = request[s]
BY DEF Busy, Marking, Saving

LEMMA CommitMarkStep ==
    ASSUME TasksInv, NEW r \in MarkRequests, CommitMark(r)
    PROVE  TasksInv'
<1> USE DEF TasksInv
<1> DEFINE q == request[r]
           c == q.row
<1>1. /\ r \in Marking /\ MarkOK(q) /\ q.task \in Tasks /\ c \in CompletionRecords /\ c.num \in 1 .. marks
      /\ q.reads \in Nat
  BY DEF CommitMark, MarkOK, Marking, TasksTypeOK
<1>2. /\ completions' = completions \union {c} /\ request' = [request EXCEPT ![r] = Idle]
      /\ strayed' = IF \/ q.reads # versions[q.task]
                       \/ \E s \in Saving : request[s].task = q.task
                    THEN strayed \union {c.num} ELSE strayed
      /\ UNCHANGED <<tasks, holders, today, marks, versions>>
  BY DEF CommitMark
<1>3. /\ DOMAIN request' = MarkRequests
      /\ Busy' = Busy \ {r} /\ Marking' = Marking \ {r} /\ Saving' = Saving \ {r}
      /\ \A s \in Busy' : request'[s] = request[s]
  BY <1>2, OneLess
<1>4. Busy \subseteq MarkRequests /\ Marking \subseteq Busy /\ Saving \subseteq Busy
  BY DEF Busy, Marking, Saving
<1> HIDE DEF c, q
<1>5. TasksTypeOK'
  <2>1. strayed' \subseteq 1 .. marks'
    BY <1>1, <1>2 DEF TasksTypeOK
  <2>2. \A s \in Busy' :
          /\ request'[s].op \in {"mark", "save"} /\ request'[s].task \in Tasks
          /\ request'[s].op = "mark" => request'[s].row.num \in 1..marks'
          /\ request'[s].op = "save" => request'[s].form \in TaskRecords
    BY <1>2, <1>3 DEF TasksTypeOK
  <2> QED BY <1>1, <1>2, <2>1, <2>2 DEF TasksTypeOK
<1>6. \A d \in completions : d.num # c.num
  BY <1>1 DEF MarkOK, c
<1>7. ASSUME NEW d \in completions', d.num \notin strayed' PROVE d.position = tasks'[d.task].position
  <2>1. CASE d \in completions
    BY <1>2, <1>7, <2>1
  <2>2. CASE d = c
    <3>1. q.reads = versions[q.task]
      BY <1>2, <1>7, <2>2
    <3> QED BY <1>1, <1>2, <2>2, <3>1 DEF MarkOK, c
  <2> QED BY <1>2, <2>1, <2>2
<1>8. ASSUME NEW s \in Marking' PROVE MarkOK(request[s])'
  <2>1. /\ s \in Marking /\ s # r /\ request'[s] = request[s] /\ MarkOK(request[s])
    BY <1>3, <1>4
  <2>2. request[s].row.num # c.num
    BY <1>1, <2>1 DEF c, q
  <2> QED BY <1>2, <2>1, <2>2 DEF MarkOK
<1>9. ASSUME NEW s \in Saving' PROVE SaveOK(request[s])'
  <2>1. s \in Saving /\ request'[s] = request[s] /\ SaveOK(request[s])
    BY <1>3, <1>4
  <2>2. c.task = request[s].task => c.num \in strayed'
    BY <1>1, <1>2, <2>1 DEF MarkOK, c
  <2> QED BY <1>2, <2>1, <2>2 DEF SaveOK
<1>10. \A d \in completions' : d.num <= marks'
  BY <1>1, <1>2
<1>11. \A d, e \in completions' : d.num = e.num => d = e
  BY <1>2, <1>6
<1>12. \A s \in Busy' : request'[s].reads \in Nat /\ request'[s].reads <= versions'[request'[s].task]
  BY <1>2, <1>3
<1>13. \A s, z \in Marking' : request'[s].row.num = request'[z].row.num => s = z
  BY <1>3, <1>4
<1> QED BY <1>3, <1>5, <1>7, <1>8, <1>9, <1>10, <1>11, <1>12, <1>13

\* A completion that a save takes along.
LEMMA MovedIs ==
    ASSUME NEW c \in CompletionRecords, NEW f \in TaskRecords
    PROVE  /\ Moved(c, f) \in CompletionRecords /\ Moved(c, f).num = c.num /\ Moved(c, f).task = c.task
           /\ Moved(c, f).day = c.day /\ Moved(c, f).position = f.position
BY DEF Moved, CompletionRecords, TaskRecords

LEMMA CommitSaveStep ==
    ASSUME TasksInv, NEW r \in MarkRequests, CommitSave(r)
    PROVE  TasksInv'
<1> USE DEF TasksInv
<1> DEFINE q == request[r]
           t == q.task
           New == {Moved(c, q.form) : c \in q.rows}
<1>1. /\ r \in Saving /\ SaveOK(q) /\ t \in Tasks /\ q.reads = versions[t] /\ versions[t] \in 0 .. MaxTaskSaves
      /\ MaxTaskSaves \in Nat
  BY ConfigsAssumption DEF CommitSave, Saving, TasksTypeOK
<1>2. /\ tasks' = [tasks EXCEPT ![t] = q.form]
      /\ completions' = (completions \ q.rows) \union New
      /\ strayed' = strayed \ {c.num : c \in q.rows}
      /\ versions' = [versions EXCEPT ![t] = @ + 1]
      /\ request' = [request EXCEPT ![r] = Idle]
      /\ UNCHANGED <<holders, today, marks>>
  BY DEF CommitSave
<1>3. /\ DOMAIN request' = MarkRequests
      /\ Busy' = Busy \ {r} /\ Marking' = Marking \ {r} /\ Saving' = Saving \ {r}
      /\ \A s \in Busy' : request'[s] = request[s]
  BY <1>2, OneLess
<1>4. Busy \subseteq MarkRequests /\ Marking \subseteq Busy /\ Saving \subseteq Busy
  BY DEF Busy, Marking, Saving
<1>5. /\ q.form \in TaskRecords /\ (q.form.byposition <=> q.form.position # NoPosition)
      /\ q.rows \subseteq completions /\ q.rows \subseteq CompletionRecords
      /\ \A c \in q.rows : c.task = t
      /\ \A c \in completions : c.task = t => c \in q.rows \/ c.num \in strayed
  BY <1>1 DEF SaveOK
<1>6. \A d \in New : \E c \in q.rows : /\ d = Moved(c, q.form) /\ d \in CompletionRecords /\ d.num = c.num
                                      /\ d.task = t /\ d.position = q.form.position
  BY <1>5, MovedIs
<1> HIDE DEF q, t, New
\* every row of the new table has its number from one of the old, of the same task
<1>7. \A d \in completions' : \E c \in completions :
        /\ d.num = c.num /\ d.task = c.task
        /\ IF c \in q.rows THEN d = Moved(c, q.form) ELSE d = c
  <2> SUFFICES ASSUME NEW d \in completions'
               PROVE  \E c \in completions : /\ d.num = c.num /\ d.task = c.task
                                             /\ IF c \in q.rows THEN d = Moved(c, q.form) ELSE d = c
    OBVIOUS
  <2>1. CASE d \in completions \ q.rows
    BY <2>1
  <2>2. CASE d \in New
    BY <1>5, <1>6, <2>2
  <2> QED BY <1>2, <2>1, <2>2
<1>8. /\ versions' \in [Tasks -> 0 .. MaxTaskSaves]
      /\ \A s \in Tasks : versions'[s] = IF s = t THEN versions[t] + 1 ELSE versions[s]
      /\ \A s \in Tasks : tasks'[s] = IF s = t THEN q.form ELSE tasks[s]
  <2>1. versions[t] + 1 \in 0 .. MaxTaskSaves
    BY <1>1 DEF SaveOK, q, t
  <2> QED BY <1>1, <1>2, <2>1 DEF TasksTypeOK
<1>9. TasksTypeOK'
  <2>1. \A s \in Busy' :
          /\ request'[s].op \in {"mark", "save"} /\ request'[s].task \in Tasks
          /\ request'[s].op = "mark" => request'[s].row.num \in 1..marks'
          /\ request'[s].op = "save" => request'[s].form \in TaskRecords
    BY <1>2, <1>3 DEF TasksTypeOK
  <2>2. tasks' \in [Tasks -> TaskRecords] /\ \A s \in Tasks : tasks'[s].byposition <=> tasks'[s].position # NoPosition
    BY <1>1, <1>2, <1>5, <1>8 DEF TasksTypeOK
  <2>3. completions' \subseteq CompletionRecords
    BY <1>2, <1>6 DEF TasksTypeOK
  <2> QED BY <1>2, <1>8, <2>1, <2>2, <2>3 DEF TasksTypeOK
<1>10. \A d \in completions' : d.num <= marks'
  BY <1>2, <1>7
<1>11. \A d, e \in completions' : d.num = e.num => d = e
  BY <1>7
\* a number that strayed no more is that of a row the save took along
<1>12. \A c \in completions : c.num \in strayed /\ c.num \notin strayed' => c \in q.rows
  BY <1>2, <1>5
<1>13. ASSUME NEW d \in completions', d.num \notin strayed' PROVE d.position = tasks'[d.task].position
  <2>1. PICK c \in completions : /\ d.num = c.num /\ d.task = c.task
                                 /\ IF c \in q.rows THEN d = Moved(c, q.form) ELSE d = c
    BY <1>7
  <2>2. CASE c \in q.rows
    BY <1>1, <1>5, <1>8, <2>1, <2>2, MovedIs
  <2>3. CASE c \notin q.rows
    <3>1. c.num \notin strayed
      BY <1>12, <1>13, <2>1, <2>3
    <3>2. c.task # t /\ c.task \in Tasks
      BY <1>5, <2>3, <3>1 DEF TasksTypeOK, CompletionRecords
    <3> QED BY <1>8, <2>1, <2>3, <3>1, <3>2
  <2> QED BY <2>2, <2>3
<1>14. \A s \in Busy' : /\ request'[s].task \in Tasks /\ request'[s] = request[s]
                        /\ request'[s].reads \in Nat /\ request'[s].reads <= versions'[request'[s].task]
                        /\ request'[s].task = t => request'[s].reads # versions'[request'[s].task]
  BY <1>1, <1>3, <1>8 DEF TasksTypeOK
<1>15. ASSUME NEW s \in Marking' PROVE MarkOK(request[s])'
  <2>1. s \in Busy' /\ request'[s] = request[s] /\ MarkOK(request[s])
    BY <1>3, <1>4
  <2>2. \A d \in completions' : d.num # request[s].row.num
    BY <1>7, <2>1 DEF MarkOK
  <2>3. request[s].reads = versions'[request[s].task] => request[s].row.position = tasks'[request[s].task].position
    BY <1>8, <1>14, <2>1 DEF MarkOK
  <2> QED BY <1>2, <2>1, <2>2, <2>3 DEF MarkOK
<1>16. ASSUME NEW s \in Saving' PROVE SaveOK(request[s])'
  <2>1. s \in Busy' /\ request'[s] = request[s] /\ SaveOK(request[s])
    BY <1>3, <1>4
  <2> SUFFICES ASSUME request[s].reads = versions'[request[s].task]
               PROVE  /\ request[s].rows \subseteq completions'
                      /\ \A d \in completions' : d.task = request[s].task =>
                            d \in request[s].rows \/ d.num \in strayed'
    BY <2>1 DEF SaveOK
  <2>2. request[s].task \in Tasks /\ request[s].task # t
    BY <1>14, <2>1
  <2>3. /\ request[s].rows \subseteq completions /\ \A c \in request[s].rows : c.task = request[s].task
        /\ \A c \in completions : c.task = request[s].task => c \in request[s].rows \/ c.num \in strayed
    BY <1>8, <2>1, <2>2 DEF SaveOK
  <2>4. request[s].rows \subseteq completions'
    BY <1>2, <1>5, <2>2, <2>3
  <2>5. ASSUME NEW d \in completions', d.task = request[s].task
        PROVE  d \in request[s].rows \/ d.num \in strayed'
    <3>1. PICK c \in completions : /\ d.num = c.num /\ d.task = c.task
                                   /\ IF c \in q.rows THEN d = Moved(c, q.form) ELSE d = c
      BY <1>7
    <3>2. c \notin q.rows
      BY <1>5, <2>2, <2>5, <3>1
    <3> QED BY <1>12, <2>3, <2>5, <3>1, <3>2
  <2> QED BY <2>4, <2>5
<1>17. \A s, z \in Marking' : request'[s].row.num = request'[z].row.num => s = z
  BY <1>3, <1>4
<1> QED BY <1>3, <1>9, <1>10, <1>11, <1>13, <1>14, <1>15, <1>16, <1>17

LEMMA QuietTasksStep ==
    ASSUME TasksInv,
           \/ \E r \in MarkRequests : FailRequest(r)
           \/ \E H \in SUBSET (Members \X Positions) : ChangeHolders(H)
           \/ NextDay \/ UNCHANGED taskVars
    PROVE  TasksInv'
<1> USE DEF TasksInv
<1>1. ASSUME NEW r \in MarkRequests, FailRequest(r) PROVE TasksInv'
  <2>1. /\ request' = [request EXCEPT ![r] = Idle]
        /\ UNCHANGED <<tasks, completions, holders, today, marks, versions, strayed>>
    BY <1>1 DEF FailRequest
  <2>2. /\ DOMAIN request' = MarkRequests
        /\ Busy' = Busy \ {r} /\ Marking' = Marking \ {r} /\ Saving' = Saving \ {r}
        /\ \A s \in Busy' : request'[s] = request[s]
    BY <2>1, OneLess
  <2>3. Marking \subseteq Busy /\ Saving \subseteq Busy
    BY DEF Marking, Saving
  <2>4. TasksTypeOK'
    BY <2>1, <2>2 DEF TasksTypeOK
  <2>5. \A s \in Marking' : MarkOK(request[s])'
    BY <2>1, <2>2, <2>3 DEF MarkOK
  <2>6. \A s \in Saving' : SaveOK(request[s])'
    BY <2>1, <2>2, <2>3 DEF SaveOK
  <2> QED BY <2>1, <2>2, <2>3, <2>4, <2>5, <2>6
<1>2. ASSUME NEW H \in SUBSET (Members \X Positions), ChangeHolders(H) PROVE TasksInv'
  BY <1>2 DEF ChangeHolders, TasksTypeOK, Busy, Marking, Saving, MarkOK, SaveOK
<1>3. CASE NextDay
  <2>1. /\ Busy = {} /\ today' = today + 1 /\ today < LastDay
        /\ UNCHANGED <<tasks, completions, holders, request, marks, versions, strayed>>
    BY <1>3 DEF NextDay
  <2>2. today' \in Days
    BY <2>1, ConfigsAssumption DEF Days, TasksTypeOK
  <2>3. Busy' = {} /\ Marking' = {} /\ Saving' = {}
    BY <2>1 DEF Busy, Marking, Saving
  <2> QED BY <2>1, <2>2, <2>3 DEF TasksTypeOK
<1>4. CASE UNCHANGED taskVars
  BY <1>4 DEF taskVars, TasksTypeOK, Busy, Marking, Saving, MarkOK, SaveOK
<1> QED BY <1>1, <1>2, <1>3, <1>4

LEMMA TasksStep == TasksInv /\ [TasksNext]_taskVars => TasksInv'
<1> SUFFICES ASSUME TasksInv, [TasksNext]_taskVars PROVE TasksInv'
  OBVIOUS
<1> QED BY BeginMarkStep, CommitMarkStep, BeginSaveStep, CommitSaveStep, QuietTasksStep DEF TasksNext

\* Types, and what a request holds of the table of completions (TasksInv), with the groups.
THEOREM TasksInvariant == Spec => [](GroupsInv /\ TasksInv)
<1>1. TasksInit => GroupsInv /\ TasksInv
  BY InitGroupsInv, InitTasksInv DEF TasksInit
<1>2. GroupsInv /\ TasksInv /\ [Next]_vars => GroupsInv' /\ TasksInv'
  BY GroupsStep, TasksStep DEF Next, vars, groupVars, taskVars
<1> QED BY <1>1, <1>2, PTL DEF Spec

-----------------------------------------------------------------------------
(* Tasks: what the pages show *)

LEMMA LatestIs ==
    ASSUME TasksInv, NEW C \in SUBSET completions, C # {}
    PROVE  Latest(C) \in C /\ \A d \in C : d.num <= Latest(C).num
<1> DEFINE S == {d.num : d \in C}
<1>1. S \subseteq 1 .. MaxMarks /\ S # {} /\ MaxMarks \in Nat
  BY ConfigsAssumption DEF TasksInv, TasksTypeOK, CompletionRecords
<1>2. IsFiniteSet(1 .. MaxMarks) /\ S \subseteq Int
  BY <1>1, FS_Interval
<1>3. IsFiniteSet(S)
  BY <1>1, <1>2, FS_Subset
<1>4. PICK n \in S : \A x \in S : n >= x
  <2> HIDE DEF S
  <2> QED BY <1>1, <1>2, <1>3, FiniteExtremes
<1>5. \E c \in C : \A d \in C : d.num <= c.num
  BY <1>2, <1>4
<1> QED BY <1>5 DEF Latest

\* A task that is done for a position shows so to all who hold it (DoneForThePosition).
LEMMA DoneIsSeen == TasksInv => DoneForThePosition
<1> SUFFICES ASSUME TasksInv, NEW c \in completions, c.num \notin strayed, NEW u \in Members,
                    IF tasks[c.task].byposition THEN tasks[c.task].position \in Held(u) ELSE c.user = u
             PROVE  c \in Visible(u, c.task) /\ Seen(u, c.task).num >= c.num
  BY DEF DoneForThePosition
<1>1. c.position = tasks[c.task].position
  BY DEF TasksInv
<1>2. c \in Visible(u, c.task) /\ Visible(u, c.task) \subseteq completions
  BY <1>1 DEF Visible
<1>3. /\ Seen(u, c.task) \in completions /\ c.num <= Seen(u, c.task).num
  BY <1>2, LatestIs DEF Seen
<1>4. c.num \in Int /\ Seen(u, c.task).num \in Int
  BY <1>3 DEF TasksInv, TasksTypeOK, CompletionRecords
<1> QED BY <1>2, <1>3, <1>4

\* The groups of TasksOf that have a task of one group only, which none contains.
LEMMA TaskOfAlone ==
    ASSUME GroupsTypeOK, NEW t \in Tasks, NEW g \in Groups, {h \in Groups : t \in groups[h].tasks} = {g},
           \A h \in Groups : g \notin groups[h].groups, NEW G \in SUBSET Groups, t \in TasksOf(groups, G)
    PROVE  g \in G
<1>1. groups \in [Groups -> GroupRecords] /\ IsFiniteSet(Groups)
  BY FormsAssumption DEF GroupsTypeOK
<1>2. PICK h \in Below(groups, G) : t \in groups[h].tasks
  BY DEF TasksOf
<1>3. /\ Below(groups, G) \subseteq Groups
      /\ \A D : G \subseteq D /\ Closed(groups, D) => Below(groups, G) \subseteq D
  BY <1>1, BelowLeast
<1>4. h = g
  BY <1>2, <1>3
<1>5. Closed(groups, Groups \ {g})
  BY <1>1 DEF Closed, GroupRecords
<1> QED BY <1>2, <1>3, <1>4, <1>5

LEMMA SeenByAll ==
    ASSUME GroupsTypeOK, TasksTypeOK, NEW u \in Members, NEW t \in TasksOfMember(u), t \in Tasks, Alone(t)
    PROVE  SeenByAdmin(u, t) = Seen(u, t)
<1>1. CASE ~ tasks[t].byposition
  <2>1. {Visible(v, t) : v \in {u}} = {Visible(u, t)}
    OBVIOUS
  <2> QED BY <1>1, <2>1 DEF SeenByAdmin, Seen
<1>2. CASE tasks[t].byposition
  <2>1. PICK g \in Groups : /\ {h \in Groups : t \in groups[h].tasks} = {g}
                            /\ groups[g].positions = {tasks[t].position}
    BY <1>2 DEF Alone, WellConfigured
  <2>2. groups[g].users = {} /\ \A h \in Groups : g \notin groups[h].groups
    BY <1>2, <2>1 DEF Alone
  <2>3. GroupsOfPositions(groups, Held(u)) \in SUBSET Groups /\ GroupsOfUser(groups, u) \in SUBSET Groups
    BY DEF GroupsOfPositions, GroupsOfUser
  <2>6. tasks[t].position \in Held(u)
    <3>1. g \in GroupsOfPositions(groups, Held(u))
      BY <2>1, <2>2, <2>3, TaskOfAlone DEF TasksOfMember, TasksByPosition, GroupsOfUser
    <3> QED BY <2>1, <3>1 DEF GroupsOfPositions
  <2>7. UNION {Visible(v, t) : v \in Members} = Visible(u, t)
    <3>1. ASSUME NEW v \in Members PROVE Visible(v, t) \subseteq Visible(u, t)
      BY <1>2, <2>6 DEF Visible
    <3> HIDE DEF Visible
    <3> QED BY <3>1
  <2> QED BY <1>2, <2>7 DEF SeenByAdmin, Seen
<1> QED BY <1>1, <1>2

LEMMA TasksOfAreTasks ==
    ASSUME GroupsTypeOK, NEW u \in Members
    PROVE  TasksOfMember(u) \subseteq Tasks
<1>1. groups \in [Groups -> GroupRecords] /\ IsFiniteSet(Groups)
  BY FormsAssumption DEF GroupsTypeOK
<1>2. ASSUME NEW G \in SUBSET Groups PROVE TasksOf(groups, G) \subseteq Tasks
  <2>1. Below(groups, G) \subseteq Groups
    BY <1>1, BelowLeast
  <2> QED BY <1>1, <2>1 DEF TasksOf, GroupRecords
<1>3. /\ GroupsOfPositions(groups, Held(u)) \in SUBSET Groups
      /\ GroupsOfUser(groups, u) \in SUBSET Groups
  BY DEF GroupsOfPositions, GroupsOfUser
<1> QED BY <1>2, <1>3 DEF TasksOfMember, TasksByPosition

LEMMA MailsAgree == GroupsTypeOK /\ TasksTypeOK => RemindersAgree
<1> SUFFICES ASSUME GroupsTypeOK, TasksTypeOK, \A t \in Tasks : Alone(t)
             PROVE  Reminded = {u \in Members :
                      \E t \in TasksOfMember(u) : Due(Status(tasks[t], Seen(u, t), today))}
  BY DEF RemindersAgree
<1>1. ASSUME NEW u \in Members, NEW t \in TasksOfMember(u) PROVE SeenByAdmin(u, t) = Seen(u, t)
  BY TasksOfAreTasks, SeenByAll
<1> QED BY <1>1 DEF Reminded

LEMMA DatesCount == TasksTypeOK => CountsForItsDate
<1> SUFFICES ASSUME TasksTypeOK, NEW c \in completions
             PROVE  LET t == tasks[c.task]
                        x == NextExpiry(t, c.day) - Year
                    IN  /\ DayOfYear(x) = t.doy
                        /\ x - Year + t.starts < c.day /\ c.day <= x + t.starts
  BY DEF CountsForItsDate
<1>1. c.task \in Tasks /\ c.day \in Int
  BY ConfigsAssumption DEF TasksTypeOK, CompletionRecords, Days
<1>2. YearlyTask(tasks[c.task])
  BY <1>1 DEF TasksTypeOK, TaskRecords, YearlyTask
<1> QED BY <1>1, <1>2, CountsForDate

\* Done today, a task is not overdue.
LEMMA DoneIsNotOverdue ==
    ASSUME NEW t \in TaskRecords, NEW c \in CompletionRecords, ~ c.dated
    PROVE  Status(t, c, c.day) # "overdue"
<1>1. c # Never /\ c.day \in Int /\ t.period \in Nat /\ t.kind \in Kinds /\ YearlyTask(t)
  BY ConfigsAssumption DEF CompletionRecords, Days, TaskRecords, YearlyTask
<1>2. CASE t.kind \in {"optional", "once"}
  BY <1>1, <1>2 DEF Status
<1>3. CASE t.kind = "periodic"
  BY <1>1, <1>3 DEF Status, Over
<1>4. CASE t.kind = "yearly"
  <2>1. Expires(t, c, Never, c.day) = NextExpiry(t, c.day)
    BY <1>1, <1>4 DEF Expires
  <2>2. NextExpiry(t, c.day) \in Int /\ c.day < NextExpiry(t, c.day)
    <3> DEFINE x == NextExpiry(t, c.day) - Year
    <3>1. NextExpiry(t, c.day) \in Int /\ c.day <= x + t.starts
      BY <1>1, CountsForDate
    <3>2. x = NextExpiry(t, c.day) - Year /\ t.starts < Year /\ t.starts \in Int
      BY <1>1, YearAssumption DEF YearlyTask
    <3> HIDE DEF x
    <3> QED BY <1>1, <3>1, <3>2, YearAssumption
  <2> QED BY <1>1, <1>4, <2>1, <2>2 DEF Status
<1> QED BY <1>1, <1>2, <1>3, <1>4 DEF Kinds

\* A new row that no old one has the number of is one that was marked, today if no date was
\* given.
LEMMA NewIsMarked ==
    ASSUME TasksInv, [TasksNext]_taskVars, NEW c \in completions' \ completions,
           {d \in completions : d.num = c.num} = {}, ~ c.dated
    PROVE  c \in CompletionRecords /\ c.day = today
<1>1. ASSUME NEW r \in MarkRequests, CommitMark(r) PROVE c \in CompletionRecords /\ c.day = today
  <2>1. r \in Marking /\ c = request[r].row
    BY <1>1 DEF CommitMark
  <2> QED BY <2>1 DEF TasksInv, MarkOK
<1>2. ASSUME NEW r \in MarkRequests, CommitSave(r) PROVE FALSE
  <2>1. /\ SaveOK(request[r]) /\ request[r].reads = versions[request[r].task]
        /\ c \in {Moved(d, request[r].form) : d \in request[r].rows}
    BY <1>2 DEF CommitSave, TasksInv
  <2>2. PICK d \in request[r].rows : c = Moved(d, request[r].form)
    BY <2>1
  <2>3. d \in completions /\ d \in CompletionRecords /\ request[r].form \in TaskRecords
    BY <2>1 DEF SaveOK
  <2> QED BY <2>2, <2>3, MovedIs
<1>3. \/ completions' = completions \/ \E r \in MarkRequests : CommitMark(r) \/ CommitSave(r)
  BY DEF TasksNext, BeginMark, BeginSave, FailRequest, ChangeHolders, NextDay, taskVars
<1> QED BY <1>1, <1>2, <1>3

-----------------------------------------------------------------------------
(* Tasks: the theorems *)

\* The walks of the groups end on the pages of tasks, too.
THEOREM GroupsHaveNoLoops == Spec => []NoLoops
BY TasksInvariant, PTL DEF GroupsInv

\* Groups, tasks, completions and requests are well formed.
THEOREM TypesOfTasks == Spec => [](GroupsTypeOK /\ TasksTypeOK)
BY TasksInvariant, PTL DEF GroupsInv, TasksInv

\* Whatever becomes of the task's position and of its holders, what was completed for the
\* position is complete on the checklist of each holder.
THEOREM CompletionsAreSeen == Spec => []DoneForThePosition
BY TasksInvariant, DoneIsSeen, PTL

\* A completion is for one date of the year, and the reminders tell what the checklists do.
THEOREM CompletionsAlwaysCount == Spec => []CompletionsCount
<1>1. GroupsInv /\ TasksInv => CompletionsCount
  BY DatesCount, MailsAgree DEF CompletionsCount, GroupsInv, TasksInv
<1> QED BY <1>1, TasksInvariant, PTL

\* What is marked complete is not overdue.
THEOREM MarkingHelps == Spec => MarkHelps
<1>1. ASSUME TasksInv, [Next]_vars, NEW c \in completions' \ completions, ~ c.dated,
             {d \in completions : d.num = c.num} = {}
      PROVE  Status(tasks[c.task], c, today) # "overdue"
  <2>1. [TasksNext]_taskVars
    BY <1>1 DEF Next, vars
  <2>2. c \in CompletionRecords /\ c.day = today
    BY <1>1, <2>1, NewIsMarked
  <2>3. tasks[c.task] \in TaskRecords
    BY <1>1, <2>2 DEF TasksInv, TasksTypeOK, CompletionRecords
  <2> QED BY <1>1, <2>2, <2>3, DoneIsNotOverdue
<1>2. TasksInv /\ [Next]_vars => [Completes]_vars
  BY <1>1 DEF Completes
<1> QED BY <1>2, TasksInvariant, PTL DEF Spec, MarkHelps


-----------------------------------------------------------------------------
(* The additional fields *)

(* Completions are numbered in their order, and none is for a later day.    *)
EntriesOK ==
    /\ IsFiniteSet(entries)
    /\ \A e \in entries : e.num \in 1 .. Cardinality(entries) /\ e.day <= e.at

IsInput(i) == i = [entry |-> i.entry, field |-> i.field, value |-> i.value]

(* A completion has one value of a field, of an upload a file that is kept. *)
InputsOK ==
    /\ \A i \in inputs : IsInput(i)
    /\ \A i \in inputs : i.entry \in 1 .. Cardinality(entries) /\ (i.field = NoRow \/ fields[i.field] # NoRow)
    /\ \A i, j \in inputs : i.entry = j.entry /\ i.field = j.field /\ i.field # NoRow => i = j
    /\ \A i \in inputs : i.field \notin changed \union {NoRow} /\ fields[i.field].type = "upload" =>
         \E n \in DOMAIN files : i.value = File(n)

(* No form and no completion has a file before it is uploaded.              *)
FilesOK ==
    /\ files = [n \in DOMAIN files |-> files[n]] /\ \E k \in 0 .. MaxFiles : DOMAIN files = 1 .. k
    /\ \A i \in inputs : \A n \in Nat : i.value = File(n) => n \in DOMAIN files
    /\ \A o \in OpenForms : formOpen[o] # NoRow =>
         \A p \in formOpen[o].uploaded : \A n \in Nat : p[2] = File(n) => n \in DOMAIN files

IsForm(w) == w = [types |-> w.types, byAdmin |-> w.byAdmin, uploaded |-> w.uploaded]

(* What was an upload when the form was opened is one until it is changed.  *)
FormsOK ==
    /\ formOpen = [o \in OpenForms |-> formOpen[o]]
    /\ \A o \in OpenForms : formOpen[o] # NoRow =>
         /\ IsForm(formOpen[o]) /\ \A f \in DOMAIN formOpen[o].types : formOpen[o].types[f] \in FieldTypes
         /\ \A f \in DOMAIN formOpen[o].types \ changed :
              fields[f] # NoRow /\ (formOpen[o].types[f] = "upload" <=> fields[f].type = "upload")

UrlsOK == \A f \in FieldIds \ changed : fields[f] # NoRow /\ fields[f].type = "upload" => fields[f].url

FieldsInv == FieldsTypeOK /\ EntriesOK /\ InputsOK /\ FilesOK /\ FormsOK /\ UrlsOK /\ FilesBelong

LEMMA FieldIs ==
    ASSUME NEW type \in FieldTypes, NEW override \in BOOLEAN
    PROVE  /\ Field(type, override) \in FieldRows
           /\ Field(type, override).type = type /\ Field(type, override).url = (type = "upload")
BY DEF Field, FieldRows

LEMMA FieldsStart == FieldsInit => FieldsInv
<1>1. SUFFICES ASSUME FieldsInit PROVE FieldsInv
  OBVIOUS
<1>2. FieldsTypeOK
  BY <1>1, FieldsAssumption DEF FieldsInit, FieldsTypeOK, Used, FormDays
<1>3. EntriesOK /\ InputsOK /\ FormsOK /\ UrlsOK
  BY <1>1, FS_EmptySet DEF FieldsInit, EntriesOK, InputsOK, FormsOK, UrlsOK
<1>4. FilesOK
  BY <1>1, FieldsAssumption DEF FieldsInit, FilesOK
<1>5. FilesBelong
  BY <1>1 DEF FieldsInit, FilesBelong
<1> QED BY <1>2, <1>3, <1>4, <1>5 DEF FieldsInv

LEMMA CreateKeeps ==
    ASSUME FieldsInv, NEW f \in FieldIds, NEW type \in FieldTypes, NEW override \in BOOLEAN,
           CreateField(f, type, override)
    PROVE  FieldsInv'
<1> DEFINE row == Field(type, override)
<1>1. row \in FieldRows /\ row.type = type /\ row.url = (type = "upload") /\ row # NoRow
  BY FieldIs, FieldsAssumption
<1> HIDE DEF row
<1>2. /\ fields[f] = NoRow /\ f \notin changed /\ fields' = [fields EXCEPT ![f] = row]
      /\ UNCHANGED <<needs, entries, inputs, files, formOpen, formDay, changed>>
  BY DEF CreateField, dataVars, row
<1>3. fields \in [FieldIds -> FieldRows \union {NoRow}]
  BY DEF FieldsInv, FieldsTypeOK
<1>4. /\ fields' \in [FieldIds -> FieldRows \union {NoRow}] /\ fields'[f] = row
      /\ \A g \in FieldIds \ {f} : fields'[g] = fields[g]
  BY <1>1, <1>2, <1>3
<1>5. FieldsTypeOK'
  <2>1. FieldsTypeOK
    BY DEF FieldsInv
  <2>2. (Used \subseteq {g \in FieldIds : fields[g] # NoRow})'
    BY <2>1, <1>1, <1>2, <1>4 DEF FieldsTypeOK, Used
  <2> QED BY <2>1, <2>2, <1>2, <1>4 DEF FieldsTypeOK, Used
<1>6. InputsOK'
  <2>1. InputsOK /\ \A i \in inputs : i.field \in FieldIds \union {NoRow}
    BY DEF FieldsInv, FieldsTypeOK
  <2>2. \A i \in inputs : i.field # f
    BY <2>1, <1>2, FieldsAssumption DEF InputsOK
  <2> QED BY <2>1, <2>2, <1>2, <1>4 DEF InputsOK
<1>7. FormsOK'
  <2>1. FormsOK /\ \A o \in OpenForms : formOpen[o] # NoRow => DOMAIN formOpen[o].types \subseteq FieldIds
    BY DEF FieldsInv, FieldsTypeOK
  <2>2. \A o \in OpenForms : formOpen[o] # NoRow => f \notin DOMAIN formOpen[o].types
    BY <2>1, <1>2 DEF FormsOK
  <2> QED BY <2>1, <2>2, <1>2, <1>4 DEF FormsOK
<1>8. UrlsOK'
  BY <1>1, <1>2, <1>4 DEF FieldsInv, UrlsOK
<1>9. EntriesOK' /\ FilesOK' /\ FilesBelong'
  BY <1>2 DEF FieldsInv, EntriesOK, FilesOK, FilesBelong
<1> QED BY <1>5, <1>6, <1>7, <1>8, <1>9 DEF FieldsInv

LEMMA EditKeeps ==
    ASSUME FieldsInv, NEW f \in FieldIds, NEW type \in FieldTypes, NEW override \in BOOLEAN,
           EditField(f, type, override)
    PROVE  FieldsInv'
<1> DEFINE row == [Field(type, override) EXCEPT !.url = fields[f].url]
<1>1. fields \in [FieldIds -> FieldRows \union {NoRow}] /\ fields[f] # NoRow
  BY DEF FieldsInv, FieldsTypeOK, EditField
<1>2. row \in FieldRows /\ row.type = type /\ row.url = fields[f].url /\ row # NoRow
  <2>1. fields[f] \in FieldRows /\ Field(type, override) \in FieldRows /\ Field(type, override).type = type
    BY <1>1, FieldIs
  <2>2. row \in FieldRows /\ row.type = type /\ row.url = fields[f].url
    BY <2>1 DEF FieldRows
  <2> QED BY <2>2, FieldsAssumption
<1>3. /\ fields' = [fields EXCEPT ![f] = row]
      /\ changed' = IF type # fields[f].type /\ "upload" \in {type, fields[f].type}
                    THEN changed \union {f} ELSE changed
      /\ UNCHANGED <<needs, entries, inputs, files, formOpen, formDay>>
  BY DEF EditField, dataVars
<1> HIDE DEF row
<1>4. /\ fields' \in [FieldIds -> FieldRows \union {NoRow}] /\ fields'[f] = row
      /\ \A g \in FieldIds \ {f} : fields'[g] = fields[g]
  BY <1>1, <1>2, <1>3
<1>5. /\ changed \subseteq changed' /\ changed' \subseteq changed \union {f}
      /\ f \notin changed' => (row.type = "upload" <=> fields[f].type = "upload")
  BY <1>2, <1>3
<1>6. FieldsTypeOK'
  <2>1. FieldsTypeOK
    BY DEF FieldsInv
  <2>2. (Used \subseteq {g \in FieldIds : fields[g] # NoRow})'
    BY <2>1, <1>2, <1>3, <1>4 DEF FieldsTypeOK, Used
  <2> QED BY <2>1, <2>2, <1>3, <1>4, <1>5 DEF FieldsTypeOK, Used
<1>7. InputsOK'
  <2>1. InputsOK /\ \A i \in inputs : i.field \in FieldIds \union {NoRow}
    BY DEF FieldsInv, FieldsTypeOK
  <2>2. \A i \in inputs : i.field \notin changed' \union {NoRow} =>
          /\ i.field \in FieldIds /\ i.field \notin changed
          /\ fields'[i.field].type = "upload" => fields[i.field].type = "upload"
    BY <2>1, <1>4, <1>5
  <2>3. \A i \in inputs : i.field # NoRow => fields'[i.field] # NoRow
    BY <2>1, <1>2, <1>4 DEF InputsOK
  <2> QED BY <2>1, <2>2, <2>3, <1>3 DEF InputsOK
<1>8. FormsOK'
  <2>1. FormsOK /\ \A o \in OpenForms : formOpen[o] # NoRow => DOMAIN formOpen[o].types \subseteq FieldIds
    BY DEF FieldsInv, FieldsTypeOK
  <2> QED BY <2>1, <1>2, <1>3, <1>4, <1>5 DEF FormsOK
<1>9. UrlsOK'
  <2>1. UrlsOK
    BY DEF FieldsInv
  <2> QED BY <2>1, <1>1, <1>2, <1>4, <1>5 DEF UrlsOK
<1>10. EntriesOK' /\ FilesOK' /\ FilesBelong'
  <2>1. EntriesOK /\ FilesOK /\ FilesBelong
    BY DEF FieldsInv
  <2>2. changed' = {} => changed = {}
    BY <1>5
  <2> QED BY <2>1, <2>2, <1>3 DEF EntriesOK, FilesOK, FilesBelong
<1> QED BY <1>6, <1>7, <1>8, <1>9, <1>10 DEF FieldsInv

LEMMA DeleteKeeps ==
    ASSUME FieldsInv, NEW f \in FieldIds, DeleteField(f)
    PROVE  FieldsInv'
<1> DEFINE Loose(i) == IF i.field = f THEN [i EXCEPT !.field = NoRow] ELSE i
<1>1. /\ fields' = [fields EXCEPT ![f] = NoRow] /\ changed' = changed \union {f} /\ f \notin Used
      /\ inputs' = {Loose(i) : i \in inputs} /\ UNCHANGED <<needs, entries, files, formOpen, formDay>>
  BY DEF DeleteField
<1>2. \A i \in inputs : /\ IsInput(Loose(i)) /\ Loose(i).entry = i.entry /\ Loose(i).value = i.value
                        /\ Loose(i).field = IF i.field = f THEN NoRow ELSE i.field
  BY DEF FieldsInv, InputsOK, IsInput
<1>3. \A i \in inputs : Loose(i).field # NoRow => Loose(i) = i /\ i.field # f
  OBVIOUS
<1> HIDE DEF Loose
<1>4. fields \in [FieldIds -> FieldRows \union {NoRow}]
  BY DEF FieldsInv, FieldsTypeOK
<1>5. /\ fields' \in [FieldIds -> FieldRows \union {NoRow}]
      /\ \A g \in FieldIds \ {f} : fields'[g] = fields[g]
  BY <1>1, <1>4
<1>6. FieldsTypeOK'
  <2>1. FieldsTypeOK
    BY DEF FieldsInv
  <2>2. (\A i \in inputs : (\E e \in entries : e.num = i.entry) /\ i.field \in FieldIds \union {NoRow})'
    BY <2>1, <1>1, <1>2 DEF FieldsTypeOK
  <2> QED BY <2>1, <2>2, <1>1, <1>5 DEF FieldsTypeOK, Used
<1>7. InputsOK'
  <2>1. InputsOK /\ \A i \in inputs : i.field \in FieldIds \union {NoRow}
    BY DEF FieldsInv, FieldsTypeOK
  <2>2. \A i \in inputs : /\ Loose(i).entry \in 1 .. Cardinality(entries)
                          /\ Loose(i).field = NoRow \/ fields'[Loose(i).field] # NoRow
    BY <2>1, <1>2, <1>3, <1>5 DEF InputsOK
  <2>3. \A i, j \in inputs : Loose(i).entry = Loose(j).entry /\ Loose(i).field = Loose(j).field /\ Loose(i).field # NoRow
          => Loose(i) = Loose(j)
    BY <2>1, <1>3 DEF InputsOK
  <2>4. \A i \in inputs : Loose(i).field \notin changed' \union {NoRow} /\ fields'[Loose(i).field].type = "upload" =>
          \E n \in DOMAIN files : Loose(i).value = File(n)
    BY <2>1, <1>1, <1>3, <1>5 DEF InputsOK
  <2> QED BY <2>2, <2>3, <2>4, <1>1, <1>2 DEF InputsOK
<1>8. FormsOK'
  <2>1. FormsOK /\ \A o \in OpenForms : formOpen[o] # NoRow => DOMAIN formOpen[o].types \subseteq FieldIds
    BY DEF FieldsInv, FieldsTypeOK
  <2> QED BY <2>1, <1>1, <1>5 DEF FormsOK
<1>9. UrlsOK' /\ EntriesOK'
  BY <1>1, <1>5 DEF FieldsInv, UrlsOK, EntriesOK
<1>10. FilesOK'
  BY <1>1, <1>2 DEF FieldsInv, FilesOK
<1>11. FilesBelong'
  BY <1>1 DEF FilesBelong
<1> QED BY <1>6, <1>7, <1>8, <1>9, <1>10, <1>11 DEF FieldsInv

LEMMA AssignKeeps ==
    ASSUME FieldsInv, NEW given \in SUBSET (FieldIds \X Needs), AssignFields(given)
    PROVE  FieldsInv'
<1> DEFINE F == {p[1] : p \in given}
<1>1. /\ \A f \in F : fields[f] # NoRow
      /\ needs' = [f \in F |-> (CHOOSE p \in given : p[1] = f)[2]]
      /\ UNCHANGED <<fields, entries, inputs, files, formOpen, formDay, changed>>
  BY DEF AssignFields, dataVars
<1>2. F \subseteq FieldIds
  OBVIOUS
<1>3. \A f \in F : (CHOOSE p \in given : p[1] = f)[2] \in Needs
  <2>1. ASSUME NEW f \in F PROVE (CHOOSE p \in given : p[1] = f)[2] \in Needs
    <3>1. PICK p \in given : p[1] = f
      OBVIOUS
    <3>2. (CHOOSE q \in given : q[1] = f) \in given
      BY <3>1
    <3> QED BY <3>2
  <2> QED BY <2>1
<1>4. DOMAIN needs' = F /\ \A f \in F : needs'[f] \in Needs
  BY <1>1, <1>3
<1> HIDE DEF F
<1>5. FieldsTypeOK'
  BY <1>1, <1>2, <1>4 DEF FieldsInv, FieldsTypeOK, Used
<1>6. EntriesOK' /\ InputsOK' /\ FilesOK' /\ FormsOK' /\ UrlsOK' /\ FilesBelong'
  BY <1>1 DEF FieldsInv, EntriesOK, InputsOK, FilesOK, FormsOK, UrlsOK, FilesBelong
<1> QED BY <1>5, <1>6 DEF FieldsInv

LEMMA RemoveKeeps ==
    ASSUME FieldsInv, NEW n \in FileIds, RemoveFile(n)
    PROVE  FieldsInv'
<1>1. /\ n \in DOMAIN files /\ files' = [files EXCEPT ![n] = NoRow]
      /\ UNCHANGED <<fields, needs, entries, inputs, formOpen, formDay, changed>>
  BY DEF RemoveFile
<1>2. /\ DOMAIN files' = DOMAIN files /\ files' = [i \in DOMAIN files' |-> files'[i]]
      /\ files'[n] = NoRow /\ \A i \in DOMAIN files \ {n} : files'[i] = files[i]
  BY <1>1 DEF FieldsInv, FilesOK
<1>3. FieldsTypeOK'
  BY <1>1, <1>2 DEF FieldsInv, FieldsTypeOK, Used
<1>4. FilesOK'
  BY <1>1, <1>2 DEF FieldsInv, FilesOK
<1>5. FilesBelong'
  BY <1>1, <1>2 DEF FieldsInv, FilesBelong
<1>6. EntriesOK' /\ InputsOK' /\ FormsOK' /\ UrlsOK'
  BY <1>1, <1>2 DEF FieldsInv, EntriesOK, InputsOK, FormsOK, UrlsOK
<1> QED BY <1>3, <1>4, <1>5, <1>6 DEF FieldsInv

LEMMA NextDayKeeps == FieldsInv /\ NextFormDay => FieldsInv'
<1>1. SUFFICES ASSUME FieldsInv, NextFormDay PROVE FieldsInv'
  OBVIOUS
<1>2. formDay' \in FormDays /\ UNCHANGED <<fields, needs, entries, inputs, files, formOpen, changed>>
  BY <1>1, FieldsAssumption DEF NextFormDay, FieldsInv, FieldsTypeOK, FormDays, dataVars
<1>3. FieldsTypeOK'
  BY <1>1, <1>2 DEF FieldsInv, FieldsTypeOK, Used
<1>4. EntriesOK' /\ InputsOK' /\ FilesOK' /\ FormsOK' /\ UrlsOK' /\ FilesBelong'
  BY <1>1, <1>2 DEF FieldsInv, EntriesOK, InputsOK, FilesOK, FormsOK, UrlsOK, FilesBelong
<1> QED BY <1>3, <1>4 DEF FieldsInv

LEMMA OpenKeeps ==
    ASSUME FieldsInv, NEW o \in OpenForms, NEW byAdmin \in BOOLEAN, OpenForm(o, byAdmin)
    PROVE  FieldsInv'
<1> DEFINE up == IF byAdmin /\ entries # {}
                 THEN {<<i.field, i.value>> : i \in {j \in inputs : j.entry = Newest.num /\ j.field \in Used}}
                 ELSE {}
           types == [f \in Used |-> fields[f].type]
           w == [types |-> types, byAdmin |-> byAdmin, uploaded |-> up]
<1>1. /\ formOpen' = [formOpen EXCEPT ![o] = w]
      /\ UNCHANGED <<fields, needs, entries, inputs, files, formDay, changed>>
  BY DEF OpenForm, dataVars
<1>2. \A p \in up : \E i \in inputs : p[2] = i.value
  OBVIOUS
<1>3. /\ DOMAIN types = Used /\ Used \subseteq {f \in FieldIds : fields[f] # NoRow}
      /\ \A f \in Used : types[f] = fields[f].type
  BY DEF FieldsInv, FieldsTypeOK
<1> HIDE DEF up, types
<1>4. IsForm(w) /\ w.types = types /\ w.uploaded = up
  BY DEF IsForm
<1> HIDE DEF w
<1>5. /\ formOpen' = [p \in OpenForms |-> formOpen'[p]] /\ formOpen'[o] = w
      /\ \A p \in OpenForms \ {o} : formOpen'[p] = formOpen[p]
  BY <1>1 DEF FieldsInv, FormsOK
<1>6. FieldsTypeOK'
  <2>1. FieldsTypeOK
    BY DEF FieldsInv
  <2>2. (\A p \in OpenForms : formOpen[p] # NoRow => DOMAIN formOpen[p].types \subseteq FieldIds)'
    BY <2>1, <1>3, <1>4, <1>5 DEF FieldsTypeOK
  <2> QED BY <2>1, <2>2, <1>1 DEF FieldsTypeOK, Used
<1>7. FilesOK'
  <2>1. FilesOK
    BY DEF FieldsInv
  <2>2. \A p \in w.uploaded : \A n \in Nat : p[2] = File(n) => n \in DOMAIN files
    BY <2>1, <1>2, <1>4 DEF FilesOK
  <2> QED BY <2>1, <2>2, <1>1, <1>5 DEF FilesOK
<1>8. FormsOK'
  <2>1. FormsOK
    BY DEF FieldsInv
  <2>2. \A f \in Used : types[f] \in FieldTypes
    <3>1. \A f \in Used : fields[f] \in FieldRows
      BY <1>3 DEF FieldsInv, FieldsTypeOK
    <3> QED BY <3>1, <1>3 DEF FieldRows
  <2> QED BY <2>1, <2>2, <1>1, <1>3, <1>4, <1>5 DEF FormsOK
<1>9. EntriesOK' /\ InputsOK' /\ UrlsOK' /\ FilesBelong'
  BY <1>1 DEF FieldsInv, EntriesOK, InputsOK, UrlsOK, FilesBelong
<1> QED BY <1>6, <1>7, <1>8, <1>9 DEF FieldsInv

LEMMA UploadKeeps ==
    ASSUME FieldsInv, NEW o \in OpenForms, NEW f \in FieldIds, UploadFile(o, f)
    PROVE  FieldsInv'
<1> DEFINE n == Cardinality(DOMAIN files) + 1
           up == {p \in formOpen[o].uploaded : p[1] # f} \union {<<f, File(n)>>}
           w == [formOpen[o] EXCEPT !.uploaded = up]
<1>1. /\ formOpen[o] # NoRow /\ Cardinality(DOMAIN files) < MaxFiles
      /\ files' = [i \in DOMAIN files \union {n} |-> IF i = n THEN 0 ELSE files[i]]
      /\ formOpen' = [formOpen EXCEPT ![o] = w]
      /\ UNCHANGED <<fields, needs, entries, inputs, formDay, changed>>
  BY DEF UploadFile
<1>2. PICK k \in 0 .. MaxFiles : DOMAIN files = 1 .. k
  BY DEF FieldsInv, FilesOK
<1>3. n = k + 1 /\ k + 1 \in 0 .. MaxFiles /\ n \notin DOMAIN files /\ n \in Nat
  <2>1. Cardinality(1 .. k) = k
    BY <1>2, FS_Interval
  <2> QED BY <2>1, <1>1, <1>2, FieldsAssumption
<1>4. /\ DOMAIN files' = 1 .. (k + 1) /\ files' = [i \in DOMAIN files' |-> files'[i]]
      /\ files'[n] = 0 /\ \A i \in DOMAIN files : files'[i] = files[i]
  BY <1>1, <1>2, <1>3
<1>5. \A p \in up : p \in formOpen[o].uploaded \/ p[2] = File(n)
  OBVIOUS
<1> HIDE DEF up, n
<1>6. IsForm(w) /\ w.types = formOpen[o].types /\ w.uploaded = up
  BY <1>1 DEF FieldsInv, FormsOK, IsForm
<1> HIDE DEF w
<1>7. /\ formOpen' = [p \in OpenForms |-> formOpen'[p]] /\ formOpen'[o] = w
      /\ \A p \in OpenForms \ {o} : formOpen'[p] = formOpen[p]
  BY <1>1 DEF FieldsInv, FormsOK
<1>8. FieldsTypeOK'
  <2>1. FieldsTypeOK
    BY DEF FieldsInv
  <2>2. (\A p \in OpenForms : formOpen[p] # NoRow => DOMAIN formOpen[p].types \subseteq FieldIds)'
    BY <2>1, <1>1, <1>6, <1>7 DEF FieldsTypeOK
  <2>3. (DOMAIN files \subseteq FileIds /\ \A i \in DOMAIN files : files[i] \in 0 .. MaxEntries \union {NoRow})'
    BY <2>1, <1>2, <1>3, <1>4, FieldsAssumption DEF FieldsTypeOK, FileIds
  <2> QED BY <2>1, <2>2, <2>3, <1>1 DEF FieldsTypeOK, Used
<1>9. FilesOK'
  <2>1. FilesOK /\ DOMAIN files \subseteq DOMAIN files' /\ n \in DOMAIN files'
    BY <1>2, <1>3, <1>4 DEF FieldsInv
  <2>2. \A p \in w.uploaded : \A i \in Nat : p[2] = File(i) => i \in DOMAIN files'
    BY <2>1, <1>1, <1>3, <1>5, <1>6 DEF FilesOK, File
  <2> QED BY <2>1, <2>2, <1>1, <1>3, <1>4, <1>7 DEF FilesOK
<1>10. FormsOK'
  <2>1. FormsOK
    BY DEF FieldsInv
  <2> QED BY <2>1, <1>1, <1>6, <1>7 DEF FormsOK
<1>11. FilesBelong'
  <2>1. FilesBelong
    BY DEF FieldsInv
  <2>2. {i.entry : i \in {j \in inputs : j.value = File(n)}} \union {0} = {0}
    BY <1>3 DEF FieldsInv, FilesOK
  <2>3. Max({i.entry : i \in {j \in inputs : j.value = File(n)}} \union {0}) = 0
    <3>1. Max({0}) = 0
      BY MaxIs
    <3> QED BY <2>2, <3>1
  <2>4. \A i \in DOMAIN files' : i = n \/ i \in DOMAIN files
    BY <1>2, <1>3, <1>4
  <2> QED BY <2>1, <2>3, <2>4, <1>1, <1>4 DEF FilesBelong
<1>12. EntriesOK' /\ UrlsOK'
  BY <1>1 DEF FieldsInv, EntriesOK, UrlsOK
<1>13. InputsOK'
  <2>1. InputsOK /\ DOMAIN files \subseteq DOMAIN files'
    BY <1>2, <1>3, <1>4 DEF FieldsInv
  <2> QED BY <2>1, <1>1 DEF InputsOK
<1> QED BY <1>8, <1>9, <1>10, <1>11, <1>12, <1>13 DEF FieldsInv

\* A form is sent with files that were uploaded, in its fields for uploads only.
LEMMA GivenFiles ==
    ASSUME FieldsInv, NEW o \in OpenForms, formOpen[o] # NoRow,
           NEW f \in DOMAIN formOpen[o].types, NEW n \in Nat, File(n) \in CanBe(o, f)
    PROVE  n \in DOMAIN files /\ formOpen[o].types[f] = "upload"
<1>1. formOpen[o].types[f] \in {"text", "datetime", "upload", "display"}
  BY FieldsAssumption DEF FieldsInv, FormsOK
<1>2. \A p \in formOpen[o].uploaded : p[2] = File(n) => n \in DOMAIN files
  BY DEF FieldsInv, FilesOK
<1>3. File(n) \notin {Nothing, AText} \union {Day(d) : d \in FormDays}
  BY DEF File, Nothing, AText, Day
<1>4. CASE formOpen[o].types[f] = "upload"
  <2>1. File(n) \in {p[2] : p \in formOpen[o].uploaded} \union {Nothing}
    BY <1>4 DEF CanBe
  <2> QED BY <2>1, <1>2, <1>3, <1>4
<1>5. CASE formOpen[o].types[f] = "datetime"
  BY <1>3, <1>5 DEF CanBe
<1>6. CASE formOpen[o].types[f] = "text"
  BY <1>3, <1>6 DEF CanBe
<1>7. CASE formOpen[o].types[f] = "display"
  BY <1>3, <1>7 DEF CanBe
<1> QED BY <1>1, <1>4, <1>5, <1>6, <1>7

LEMMA SendKeeps ==
    ASSUME FieldsInv, NEW o \in OpenForms, NEW given, NEW day \in FormDays, SendForm(o, given, day),
           given \in Givens(o)
    PROVE  FieldsInv'
<1> DEFINE num == Cardinality(entries) + 1
           e == [num |-> num, at |-> formDay, day |-> day]
           New(f) == [entry |-> num, field |-> f, value |-> given[f]]
           Given(i) == \E f \in Used : fields[f].type = "upload" /\ given[f] = File(i)
<1>1. /\ Cardinality(entries) < MaxEntries /\ formOpen[o] # NoRow /\ Storable(given)
      /\ Used \subseteq DOMAIN formOpen[o].types
      /\ \A f \in DOMAIN formOpen[o].types : given[f] \in CanBe(o, f)
  <2>1. formOpen[o] # NoRow
    BY DEF SendForm
  <2>2. DOMAIN given = DOMAIN formOpen[o].types
    BY <2>1 DEF Givens
  <2> QED BY <2>1, <2>2 DEF SendForm
<1>2. /\ entries' = entries \union {e} /\ inputs' = inputs \union {New(f) : f \in Used}
      /\ files' = [i \in DOMAIN files |-> IF Given(i) THEN num ELSE files[i]]
      /\ formOpen' = [formOpen EXCEPT ![o] = NoRow]
      /\ UNCHANGED <<fields, needs, formDay, changed>>
  BY DEF SendForm, Store
<1>3. day <= formDay
  <2>1. CASE formOpen[o].byAdmin
    BY <2>1 DEF SendForm, AdminValid
  <2>2. CASE ~ formOpen[o].byAdmin /\ Overriding = {}
    BY <2>2 DEF SendForm, FormDays
  <2>3. CASE ~ formOpen[o].byAdmin /\ Overriding # {}
    <3>1. PICK f \in Overriding : given[f] = Day(day) /\ NotLater(given[f])
      BY <2>3 DEF SendForm, MemberValid
    <3> QED BY <3>1 DEF NotLater
  <2> QED BY <2>1, <2>2, <2>3
<1>4. /\ IsFiniteSet(entries) /\ Cardinality(entries) \in Nat /\ num \in 1 .. MaxEntries
      /\ \A d \in entries : d.num \in 1 .. Cardinality(entries) /\ d.day <= d.at
  <2>1. Cardinality(entries) \in Nat
    BY FS_CardinalityType DEF FieldsInv, EntriesOK
  <2> QED BY <2>1, <1>1, FieldsAssumption DEF FieldsInv, EntriesOK
<1>5. e.num = num /\ e.at = formDay /\ e.day = day /\ e \notin entries
  BY <1>4
<1>6. IsFiniteSet(entries') /\ Cardinality(entries') = num
  BY <1>2, <1>4, <1>5, FS_AddElement
<1>7. \A f \in Used : IsInput(New(f)) /\ New(f).entry = num /\ New(f).field = f /\ New(f).value = given[f]
  BY DEF IsInput
<1>8. \A f \in Used, n \in Nat : given[f] = File(n) => n \in DOMAIN files /\ formOpen[o].types[f] = "upload"
  BY <1>1, GivenFiles
<1>9. \A f \in Used : fields[f].type = "upload" => \E n \in DOMAIN files : given[f] = File(n)
  BY <1>1 DEF Storable
<1>10. Used \subseteq {f \in FieldIds : fields[f] # NoRow} /\ NoRow \notin Used
  BY FieldsAssumption DEF FieldsInv, FieldsTypeOK
<1> HIDE DEF e, New, num
<1>11. /\ DOMAIN files' = DOMAIN files /\ files' = [i \in DOMAIN files' |-> files'[i]]
       /\ \A i \in DOMAIN files : files'[i] = IF Given(i) THEN num ELSE files[i]
  BY <1>2
<1> HIDE DEF Given
<1>12. /\ formOpen' = [p \in OpenForms |-> formOpen'[p]] /\ formOpen'[o] = NoRow
       /\ \A p \in OpenForms \ {o} : formOpen'[p] = formOpen[p]
  BY <1>2 DEF FieldsInv, FormsOK
<1>13. FieldsTypeOK'
  <2>1. FieldsTypeOK
    BY DEF FieldsInv
  <2>2. e \in [num : 1 .. MaxEntries, at : FormDays, day : FormDays]
    BY <2>1, <1>4 DEF FieldsTypeOK, e
  <2>3. (\A i \in inputs : (\E d \in entries : d.num = i.entry) /\ i.field \in FieldIds \union {NoRow})'
    BY <2>1, <1>2, <1>5, <1>7, <1>10 DEF FieldsTypeOK
  <2>4. (\A i \in DOMAIN files : files[i] \in 0 .. MaxEntries \union {NoRow})'
    BY <2>1, <1>4, <1>11 DEF FieldsTypeOK
  <2>5. (\A p \in OpenForms : formOpen[p] # NoRow => DOMAIN formOpen[p].types \subseteq FieldIds)'
    BY <2>1, <1>12 DEF FieldsTypeOK
  <2> QED BY <2>1, <2>2, <2>3, <2>4, <2>5, <1>2, <1>11 DEF FieldsTypeOK, Used
<1>14. EntriesOK'
  <2>1. \A d \in entries' : d.num \in 1 .. num /\ d.day <= d.at
    BY <1>2, <1>3, <1>4, <1>5 DEF num
  <2> QED BY <2>1, <1>6 DEF EntriesOK
<1>15. \A i \in inputs : i.entry \in 1 .. Cardinality(entries) /\ i.entry # num /\ i.entry \in 1 .. num
  BY <1>4 DEF FieldsInv, InputsOK, num
<1>16. InputsOK'
  <2>1. InputsOK
    BY DEF FieldsInv
  <2>2. \A i \in inputs' : i.entry \in 1 .. num /\ (i.field = NoRow \/ fields[i.field] # NoRow)
    BY <2>1, <1>2, <1>4, <1>7, <1>10, <1>15 DEF InputsOK
  <2>3. \A i, j \in inputs' : i.entry = j.entry /\ i.field = j.field /\ i.field # NoRow => i = j
    BY <2>1, <1>2, <1>7, <1>15 DEF InputsOK
  <2>4. \A i \in inputs' : i.field \notin changed \union {NoRow} /\ fields[i.field].type = "upload" =>
          \E n \in DOMAIN files : i.value = File(n)
    BY <2>1, <1>2, <1>7, <1>9 DEF InputsOK
  <2>5. \A i \in inputs' : IsInput(i)
    BY <2>1, <1>2, <1>7 DEF InputsOK
  <2> QED BY <2>2, <2>3, <2>4, <2>5, <1>2, <1>6, <1>11 DEF InputsOK
<1>17. FilesOK'
  <2>1. FilesOK
    BY DEF FieldsInv
  <2>2. \A i \in inputs' : \A n \in Nat : i.value = File(n) => n \in DOMAIN files
    BY <2>1, <1>2, <1>7, <1>8 DEF FilesOK
  <2> QED BY <2>1, <2>2, <1>11, <1>12 DEF FilesOK
<1>18. FormsOK' /\ UrlsOK'
  BY <1>2, <1>12 DEF FieldsInv, FormsOK, UrlsOK
<1>19. FilesBelong'
  <2>1. SUFFICES ASSUME changed = {}, NEW i \in DOMAIN files, files'[i] # NoRow
                 PROVE  files'[i] = Max({j.entry : j \in {k \in inputs' : k.value = File(i)}} \union {0})
    BY <1>2, <1>11 DEF FilesBelong
  <2> DEFINE S(is) == {j.entry : j \in {k \in is : k.value = File(i)}} \union {0}
  <2>2. i \in Nat
    BY DEF FieldsInv, FilesOK
  <2>3. \A j \in inputs' : j.entry \in 1 .. num
    BY <1>2, <1>4, <1>7, <1>15
  <2>4. CASE Given(i)
    <3>1. num \in S(inputs')
      BY <2>4, <1>2, <1>7 DEF Given
    <3>2. S(inputs') \subseteq Int /\ \A n \in S(inputs') : num >= n
      BY <2>3, <1>4
    <3>3. Max(S(inputs')) = num
      <4> HIDE DEF S
      <4> QED BY <3>1, <3>2, MaxIs
    <3> QED BY <3>3, <2>4, <1>11
  <2>5. CASE ~ Given(i)
    <3>1. \A f \in Used : given[f] # File(i)
      BY <2>1, <2>2, <2>5, <1>1, <1>8 DEF FieldsInv, FormsOK, Given
    <3>2. {k \in inputs' : k.value = File(i)} = {k \in inputs : k.value = File(i)}
      BY <3>1, <1>2, <1>7
    <3> QED BY <3>2, <2>1, <2>5, <1>11 DEF FieldsInv, FilesBelong
  <2> QED BY <2>4, <2>5
<1> QED BY <1>13, <1>14, <1>16, <1>17, <1>18, <1>19 DEF FieldsInv

LEMMA FieldsStep == FieldsInv /\ [FieldsNext]_fieldVars => FieldsInv'
<1>1. SUFFICES ASSUME FieldsInv, [FieldsNext]_fieldVars PROVE FieldsInv'
  OBVIOUS
<1>2. CASE UNCHANGED fieldVars
  <2>1. UNCHANGED <<fields, needs, entries, inputs, files, formOpen, formDay, changed>>
    BY <1>2 DEF fieldVars
  <2>2. FieldsTypeOK'
    BY <1>1, <2>1 DEF FieldsInv, FieldsTypeOK, Used
  <2>3. EntriesOK' /\ InputsOK' /\ UrlsOK'
    BY <1>1, <2>1 DEF FieldsInv, EntriesOK, InputsOK, UrlsOK
  <2>4. FilesOK' /\ FormsOK'
    BY <1>1, <2>1 DEF FieldsInv, FilesOK, FormsOK
  <2>5. FilesBelong'
    BY <1>1, <2>1 DEF FieldsInv, FilesBelong
  <2> QED BY <2>2, <2>3, <2>4, <2>5 DEF FieldsInv
<1>3. CASE FieldsNext
  BY <1>1, <1>3, CreateKeeps, EditKeeps, DeleteKeeps, AssignKeeps, RemoveKeeps, NextDayKeeps, OpenKeeps,
     UploadKeeps, SendKeeps DEF FieldsNext
<1> QED BY <1>1, <1>2, <1>3

\* Whatever becomes of the fields of a task, what was entered keeps its completion and its file.
THEOREM FieldsInvariant == FieldsSpec => []FieldsInv
<1> QED BY FieldsStart, FieldsStep, PTL DEF FieldsSpec

LEMMA EntriesAreShown == FieldsInv => EntriesShown
<1>1. SUFFICES ASSUME FieldsInv, NEW e \in entries
               PROVE  /\ e.day <= e.at
                      /\ \A f \in Used : Cardinality(Entered(e, f)) <= 1
                      /\ (\A i \in DOMAIN files : files[i] # NoRow) /\ Used \intersect changed = {}
                           => Showable(e)
  BY DEF EntriesShown
<1>2. e.day <= e.at
  BY <1>1 DEF FieldsInv, EntriesOK
<1>3. Used \subseteq FieldIds /\ NoRow \notin Used
  BY <1>1, FieldsAssumption DEF FieldsInv, FieldsTypeOK
<1>4. ASSUME NEW f \in Used PROVE Cardinality(Entered(e, f)) <= 1
  <2>1. \A i, j \in Entered(e, f) : i = j
    BY <1>1, <1>3 DEF Entered, FieldsInv, InputsOK
  <2>2. CASE Entered(e, f) = {}
    BY <2>2, FS_EmptySet
  <2>3. CASE Entered(e, f) # {}
    <3>1. PICK i \in Entered(e, f) : TRUE
      BY <2>3
    <3>2. Entered(e, f) = {i}
      BY <2>1, <3>1
    <3>3. Cardinality({i}) = 1
      BY FS_Singleton
    <3> QED BY <3>2, <3>3
  <2> QED BY <2>2, <2>3
<1>5. ASSUME \A i \in DOMAIN files : files[i] # NoRow, Used \intersect changed = {} PROVE Showable(e)
  <2>1. ASSUME NEW f \in Used, NEW i \in Entered(e, f), fields[f].type = "upload"
        PROVE  \E n \in DOMAIN files : i.value = File(n)
    BY <2>1, <1>1, <1>3, <1>5 DEF Entered, FieldsInv, InputsOK
  <2> QED BY <2>1, <1>5 DEF Showable
<1> QED BY <1>2, <1>4, <1>5

\* What was entered with a completion can be shown, whatever became of the fields, as long as
\* none became an upload or was one; a file belongs to the last completion it was given with;
\* and the task can still be completed.
THEOREM FieldsAlwaysHold == FieldsSpec => []FieldsHold
<1>1. FieldsInv => Completable
  <2>1. SUFFICES ASSUME FieldsInv, Used \intersect changed = {}, NEW f \in Used, fields[f].type = "upload"
                 PROVE  fields[f].url
    BY DEF Completable
  <2> QED BY <2>1 DEF FieldsInv, FieldsTypeOK, UrlsOK
<1>2. FieldsInv => FieldsHold
  BY <1>1, EntriesAreShown DEF FieldsHold, FieldsInv
<1> QED BY <1>2, FieldsInvariant, PTL
=============================================================================
