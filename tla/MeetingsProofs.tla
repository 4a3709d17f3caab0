--------------------------- MODULE MeetingsProofs ---------------------------
(***************************************************************************)
(* Proofs about MeetingSeries, StatusReports and MeetingAgenda: for any    *)
(* types, members, positions and requests, and any number of meetings,     *)
(* reports and items.                                                      *)
(***************************************************************************)
EXTENDS MeetingAgenda, MeetingSeries, SetFacts

-----------------------------------------------------------------------------
(* The series: its inductive invariant                                     *)

\* No type is its own peer, and what is no type (any more) has no peers.
PeersTidy == \A t \in Types : t \notin peers[t] /\ (t \notin types => peers[t] = {})

\* Meetings are numbered as they come, each after the one it was renewed from.
MeetingsNumbered ==
    /\ IsFiniteSet(meetings)
    /\ \A m \in meetings : m.num <= Cardinality(meetings) /\ m.from < m.num
    /\ \A m, n \in meetings : m.num = n.num => m = n

\* A meeting starts where the one it was renewed from ended.
RenewedInLine == \A m, old \in meetings : m.from = old.num => m.since = old.date

\* No action item was closed after its last update.
ClosedInTime ==
    /\ IsFiniteSet(actions)
    /\ \A a \in actions : a.closedOn <= a.updated /\ a.updated <= day

SeriesInv ==
    /\ SeriesTypeOK /\ PeersTidy /\ PeersAreGroups
    /\ MeetingsNumbered /\ RenewedInLine /\ ClosedInTime

-----------------------------------------------------------------------------
(* Groups of types                                                         *)

LEMMA CreateTypeStep ==
    ASSUME SeriesInv, NEW t \in Types, NEW P \in SUBSET types, CreateType(t, P)
    PROVE  SeriesInv'
<1> DEFINE Q == [peers EXCEPT ![t] = P]
           group == Widened(Q, t)
<1>1. Q[t] = P /\ \A u \in Types \ {t} : Q[u] = peers[u]
  BY DEF SeriesInv, SeriesTypeOK
<1>2. group = {t} \union P \union UNION {peers[u] : u \in P}
  <2>1. Equivalent(Q, t) = {t} \union P
    BY <1>1 DEF Equivalent
  <2>2. \A u \in P : u \in Types \ {t}
    BY DEF CreateType, SeriesInv, SeriesTypeOK
  <2>3. UNION {Q[u] : u \in {t} \union P} = P \union UNION {peers[u] : u \in P}
    BY <1>1, <2>2
  <2> QED BY <2>1, <2>3 DEF Widened
<1>3. \A u \in Types : peers'[u] = IF u \in group THEN group \ {u} ELSE peers[u]
  <2> SUFFICES ASSUME NEW u \in Types
               PROVE  peers'[u] = IF u \in group THEN group \ {u} ELSE peers[u]
    OBVIOUS
  <2>1. peers' = Grouping(Q, group, {}, {}, t)
    BY DEF CreateType, Created
  <2>2. peers'[u] = IF u \in group THEN group \ {u} ELSE Q[u]
    <3> HIDE DEF Q, group
    <3> QED BY <2>1 DEF Grouping
  <2> QED BY <1>1, <1>2, <2>2
<1>4. group \subseteq types'
  BY <1>2 DEF CreateType, SeriesInv, SeriesTypeOK
<1>5. SeriesTypeOK' /\ PeersTidy'
  <2>1. DOMAIN peers' = Types /\ peers' = [u \in Types |-> peers'[u]]
    BY DEF CreateType, Created, Grouping
  <2>2. \A u \in Types : peers'[u] \subseteq types' /\ u \notin peers'[u]
    BY <1>3, <1>4 DEF CreateType, SeriesInv, SeriesTypeOK, PeersTidy
  <2> QED BY <1>3, <1>4, <2>1, <2>2 DEF CreateType, SeriesInv, SeriesTypeOK, PeersTidy
<1>6. PeersAreGroups'
  <2> SUFFICES ASSUME regrouped = {}, NEW x \in types', NEW y \in peers'[x]
               PROVE  peers'[y] = (peers'[x] \ {y}) \union {x}
    BY DEF CreateType, PeersAreGroups
  <2>1. \A u \in types : \A v \in peers[u] : peers[v] = (peers[u] \ {v}) \union {u}
    BY DEF SeriesInv, PeersAreGroups
  <2>2. x \in Types /\ y \in Types
    BY <1>5 DEF SeriesTypeOK
  <2>3. CASE x \in group
    BY <1>3, <2>2, <2>3
  <2>4. CASE x \notin group
    <3>1. x \in types /\ peers'[x] = peers[x] /\ y \in peers[x] /\ y \in types
      BY <1>2, <1>3, <2>2, <2>4 DEF CreateType, SeriesInv, SeriesTypeOK
    <3>2. x \in peers[y]
      BY <2>1, <3>1
    <3>3. y \notin group
      <4>1. y # t
        BY <3>1 DEF CreateType
      <4>2. y \notin P
        BY <1>2, <2>4, <3>2
      <4>3. \A u \in P : y \notin peers[u]
        <5> SUFFICES ASSUME NEW u \in P, y \in peers[u] PROVE FALSE
          OBVIOUS
        <5>1. peers[y] = (peers[u] \ {y}) \union {u}
          BY <2>1
        <5> QED BY <1>2, <2>4, <3>2, <5>1
      <4> QED BY <1>2, <4>1, <4>2, <4>3
    <3> QED BY <1>3, <2>1, <2>2, <3>1, <3>3
  <2> QED BY <2>3, <2>4
<1>7. (MeetingsNumbered /\ RenewedInLine /\ ClosedInTime)'
  BY DEF CreateType, SeriesInv, MeetingsNumbered, RenewedInLine, ClosedInTime
<1> QED BY <1>5, <1>6, <1>7 DEF SeriesInv

LEMMA EditTypeStep ==
    ASSUME SeriesInv, NEW t \in Types, NEW P \in SUBSET types, EditType(t, P)
    PROVE  SeriesInv'
<1> DEFINE Q == [peers EXCEPT ![t] = P]
           group == {t} \union P
           removed == peers[t] \ group
<1>1. Q[t] = P /\ \A u \in Types \ {t} : Q[u] = peers[u]
  BY DEF SeriesInv, SeriesTypeOK
<1>2. Equivalent(Q, t) = group
  BY <1>1 DEF Equivalent
<1>3. \A u \in Types : peers'[u] = IF u \in group THEN group \ {u}
                                   ELSE IF u \in removed THEN peers[u] \ (peers[t] \union {t})
                                   ELSE peers[u]
  <2> SUFFICES ASSUME NEW u \in Types
               PROVE  peers'[u] = IF u \in group THEN group \ {u}
                                  ELSE IF u \in removed THEN peers[u] \ (peers[t] \union {t})
                                  ELSE peers[u]
    OBVIOUS
  <2>1. peers' = Grouping(Q, group, removed, peers[t], t)
    BY <1>2 DEF EditType, Edited
  <2>2. peers'[u] = IF u \in group THEN group \ {u}
                    ELSE IF u \in removed THEN Q[u] \ (peers[t] \union {t}) ELSE Q[u]
    <3> HIDE DEF Q, group, removed
    <3> QED BY <2>1 DEF Grouping
  <2>3. u \notin group => u # t
    OBVIOUS
  <2> QED BY <1>1, <2>2, <2>3
<1>4. SeriesTypeOK' /\ PeersTidy'
  <2>1. DOMAIN peers' = Types /\ peers' = [u \in Types |-> peers'[u]]
    BY DEF EditType, Edited, Grouping
  <2>2. \A u \in Types : /\ peers'[u] \subseteq types' /\ u \notin peers'[u]
                         /\ u \notin types' => peers'[u] = {}
    BY <1>3 DEF EditType, SeriesInv, SeriesTypeOK, PeersTidy
  <2> QED BY <2>1, <2>2 DEF EditType, SeriesInv, SeriesTypeOK, PeersTidy
<1>5. PeersAreGroups'
  <2> SUFFICES ASSUME regrouped' = {}, NEW x \in types', NEW y \in peers'[x]
               PROVE  peers'[y] = (peers'[x] \ {y}) \union {x}
    BY DEF PeersAreGroups
  <2>1. \A u \in P \ peers[t] : peers[u] \subseteq group
    BY DEF EditType
  <2>2. \A u \in types : \A v \in peers[u] : peers[v] = (peers[u] \ {v}) \union {u}
    BY <2>1 DEF EditType, SeriesInv, PeersAreGroups
  <2>3. x \in Types /\ y \in Types /\ t \in types /\ x \in types
    BY <1>4 DEF EditType, SeriesTypeOK
  <2>4. CASE x \in group
    BY <1>3, <2>3, <2>4
  \* Who leaves the group has nobody left.
  <2>5. CASE x \in removed
    <3>1. peers[x] = (peers[t] \ {x}) \union {t}
      BY <2>2, <2>3, <2>5
    <3>2. peers'[x] = peers[x] \ (peers[t] \union {t})
      BY <1>3, <2>3, <2>5
    <3> QED BY <3>1, <3>2
  <2>6. CASE x \notin group /\ x \notin removed
    <3>1. peers'[x] = peers[x] /\ y \in peers[x]
      BY <1>3, <2>3, <2>6
    <3>2. y \in types /\ x \in peers[y]
      BY <2>2, <2>3, <3>1 DEF SeriesInv, SeriesTypeOK
    <3>3. y # t /\ y \notin peers[t]
      BY <2>2, <2>3, <2>6, <3>1
    <3>4. y \notin group
      BY <2>1, <2>6, <3>2, <3>3
    <3>5. peers'[y] = peers[y]
      BY <1>3, <2>3, <3>3, <3>4
    <3> QED BY <2>2, <2>3, <3>1, <3>5
  <2> QED BY <2>4, <2>5, <2>6
<1>6. (MeetingsNumbered /\ RenewedInLine /\ ClosedInTime)'
  BY DEF EditType, SeriesInv, MeetingsNumbered, RenewedInLine, ClosedInTime
<1> QED BY <1>4, <1>5, <1>6 DEF SeriesInv

-----------------------------------------------------------------------------
(* Meetings, action items and days                                         *)

LEMMA DeleteTypeStep ==
    ASSUME SeriesInv, NEW t \in Types, DeleteType(t)
    PROVE  SeriesInv'
<1> DEFINE left(m) == IF m.type = t THEN [m EXCEPT !.type = NoType] ELSE m
           f == [m \in meetings |-> left(m)]
<1>1. \A u \in Types : peers'[u] = IF u = t THEN {} ELSE IF u \in peers[t] THEN peers[u] \ {t} ELSE peers[u]
  BY DEF DeleteType, Removed
<1>2. t \in types /\ types' = types \ {t} /\ \A u \in types \ {t} : t \notin peers'[u]
  BY DEF DeleteType
<1>3. \A m \in meetings : /\ f[m] \in Meetings /\ f[m].num = m.num
                          /\ f[m].since = m.since /\ f[m].date = m.date /\ f[m].from = m.from
  <2> SUFFICES ASSUME NEW m \in meetings
               PROVE  /\ left(m) \in Meetings /\ left(m).num = m.num
                      /\ left(m).since = m.since /\ left(m).date = m.date /\ left(m).from = m.from
    OBVIOUS
  <2> QED BY DEF SeriesInv, SeriesTypeOK, Meetings
<1>4. meetings' = {f[m] : m \in meetings} /\ f \in [meetings -> Meetings]
  BY <1>3 DEF DeleteType
<1> HIDE DEF f
<1>5. SeriesTypeOK' /\ PeersTidy'
  <2>1. DOMAIN peers' = Types /\ peers' = [u \in Types |-> peers'[u]]
    BY DEF DeleteType, Removed
  <2>2. \A u \in Types : /\ peers'[u] \subseteq types' /\ u \notin peers'[u]
                         /\ u \notin types' => peers'[u] = {}
    BY <1>1, <1>2 DEF SeriesInv, SeriesTypeOK, PeersTidy
  <2>3. meetings' \subseteq Meetings
    BY <1>3, <1>4
  <2> QED BY <1>2, <2>1, <2>2, <2>3 DEF DeleteType, SeriesInv, SeriesTypeOK, PeersTidy
<1>6. PeersAreGroups'
  <2> SUFFICES ASSUME regrouped = {}, NEW x \in types', NEW y \in peers'[x]
               PROVE  peers'[y] = (peers'[x] \ {y}) \union {x}
    BY DEF DeleteType, PeersAreGroups
  <2>1. \A u \in types : \A v \in peers[u] : peers[v] = (peers[u] \ {v}) \union {u}
    BY DEF SeriesInv, PeersAreGroups
  <2>2. x \in Types \ {t} /\ y \in Types \ {t} /\ x \in types /\ y \in peers[x]
    BY <1>1, <1>2, <1>5 DEF SeriesTypeOK
  <2>3. peers[y] = (peers[x] \ {y}) \union {x}
    BY <2>1, <2>2
  <2>4. \A u \in {x, y} : peers'[u] = peers[u] \ {t}
    <3>1. \A u \in {x, y} : t \in peers[u] => u \in peers[t]
      BY <2>1, <2>2, <1>5 DEF SeriesTypeOK, SeriesInv
    <3> QED BY <1>1, <2>2, <3>1
  <2> QED BY <2>2, <2>3, <2>4
<1>7. MeetingsNumbered'
  <2>1. \A m, n \in meetings : f[m] = f[n] => m = n
    BY <1>3 DEF SeriesInv, MeetingsNumbered
  <2>2. IsFiniteSet(meetings') /\ Cardinality(meetings') = Cardinality(meetings)
    <3>1. IsFiniteSet(meetings) /\ f \in [meetings -> Meetings]
      BY <1>4 DEF SeriesInv, MeetingsNumbered
    <3>2. /\ IsFiniteSet({f[x] : x \in meetings})
          /\ Cardinality({f[x] : x \in meetings}) = Cardinality(meetings)
      <4>1. f \in Injection(meetings, Meetings)
        BY <2>1, <3>1 DEF Injection, IsInjective
      <4> QED BY ONLY <3>1, <4>1, ImageSameSize
    <3> QED BY <1>4, <3>2
  <2>3. \A m \in meetings : f[m].num <= Cardinality(meetings') /\ f[m].from < f[m].num
    BY <1>3, <2>2 DEF SeriesInv, MeetingsNumbered
  <2>4. \A m, n \in meetings : f[m].num = f[n].num => f[m] = f[n]
    BY <1>3 DEF SeriesInv, MeetingsNumbered
  <2> QED BY <1>4, <2>2, <2>3, <2>4 DEF MeetingsNumbered
<1>8. RenewedInLine'
  <2> SUFFICES ASSUME NEW m \in meetings, NEW old \in meetings, f[m].from = f[old].num
               PROVE  f[m].since = f[old].date
    BY <1>4 DEF RenewedInLine
  <2> QED BY <1>3 DEF SeriesInv, RenewedInLine
<1>9. ClosedInTime'
  BY DEF DeleteType, SeriesInv, ClosedInTime
<1> QED BY <1>5, <1>6, <1>7, <1>8, <1>9 DEF SeriesInv

\* A meeting with the next number.
LEMMA MeetingAdded ==
    ASSUME SeriesInv, NEW t \in Types \union {NoType}, NEW date \in Nat, NEW since \in Nat, NEW from \in Nat,
           from <= Cardinality(meetings), \A old \in meetings : from = old.num => since = old.date,
           meetings' = meetings \union
             {[num |-> Cardinality(meetings) + 1, type |-> t, date |-> date, since |-> since, from |-> from]},
           UNCHANGED <<types, peers, actions, day, regrouped>>
    PROVE  SeriesInv'
<1> DEFINE new == [num |-> Cardinality(meetings) + 1, type |-> t, date |-> date,
                   since |-> since, from |-> from]
<1>1. Cardinality(meetings) \in Nat
  BY FS_CardinalityType DEF SeriesInv, MeetingsNumbered
<1>2. new \in Meetings
  BY <1>1 DEF Meetings, SeriesInv, SeriesTypeOK
<1>3. \A m \in meetings : m \in Meetings /\ m.num < new.num /\ m.from < new.num
  BY <1>1 DEF SeriesInv, SeriesTypeOK, MeetingsNumbered, Meetings
<1>4. meetings' = meetings \union {new} /\ new \notin meetings
  BY <1>1, <1>3 DEF Meetings
<1>5. IsFiniteSet(meetings') /\ Cardinality(meetings') = Cardinality(meetings) + 1
  <2> HIDE DEF new
  <2>1. IsFiniteSet(meetings)
    BY DEF SeriesInv, MeetingsNumbered
  <2>2. /\ IsFiniteSet(meetings \union {new})
        /\ Cardinality(meetings \union {new}) = Cardinality(meetings) + 1
    BY ONLY <1>4, <2>1, FS_AddElement
  <2> QED BY ONLY <1>4, <2>2
<1>6. new.num = Cardinality(meetings) + 1 /\ new.from = from /\ new.since = since /\ new.date = date
  OBVIOUS
<1>7. MeetingsNumbered'
  <2>1. \A m \in meetings' : m.num <= Cardinality(meetings') /\ m.from < m.num
    <3> SUFFICES ASSUME NEW m \in meetings'
                 PROVE  m.num <= Cardinality(meetings') /\ m.from < m.num
      OBVIOUS
    <3>1. CASE m \in meetings
      BY <1>1, <1>3, <1>5, <3>1 DEF SeriesInv, MeetingsNumbered, Meetings
    <3>2. CASE m = new
      BY <1>1, <1>5, <1>6, <3>2
    <3> QED BY <1>4, <3>1, <3>2
  <2>2. \A m, n \in meetings' : m.num = n.num => m = n
    <3> HIDE DEF new
    <3> QED BY <1>1, <1>3, <1>4, <1>6 DEF SeriesInv, MeetingsNumbered, Meetings
  <2> QED BY <1>5, <2>1, <2>2 DEF MeetingsNumbered
<1>8. RenewedInLine'
  <2> SUFFICES ASSUME NEW m \in meetings', NEW old \in meetings', m.from = old.num
               PROVE  m.since = old.date
    BY DEF RenewedInLine
  <2>1. old # new
    <3> HIDE DEF new
    <3> QED BY <1>1, <1>3, <1>4, <1>6 DEF Meetings
  <2> HIDE DEF new
  <2> QED BY <1>4, <1>6, <2>1 DEF SeriesInv, RenewedInLine
<1>9. SeriesTypeOK'
  BY <1>2, <1>4 DEF SeriesInv, SeriesTypeOK
<1>10. (PeersTidy /\ PeersAreGroups /\ ClosedInTime)'
  BY DEF SeriesInv, PeersTidy, PeersAreGroups, ClosedInTime
<1> QED BY <1>7, <1>8, <1>9, <1>10 DEF SeriesInv

LEMMA MeetingStep ==
    ASSUME SeriesInv,
           \/ \E t \in Types, date, since \in 0..FinalDay : NewMeeting(t, date, since)
           \/ \E m \in meetings, date \in 0..FinalDay : Renew(m, date)
    PROVE  SeriesInv'
<1>1. ASSUME NEW t \in Types, NEW date \in 0..FinalDay, NEW since \in 0..FinalDay,
             NewMeeting(t, date, since)
      PROVE  SeriesInv'
  <2>1. Cardinality(meetings) \in Nat /\ \A old \in meetings : old.num # 0
    BY FS_CardinalityType DEF SeriesInv, MeetingsNumbered, SeriesTypeOK, Meetings
  <2>2. 0 <= Cardinality(meetings) /\ \A old \in meetings : 0 = old.num => since = old.date
    BY <2>1
  <2>3. t \in Types \union {NoType} /\ date \in Nat /\ since \in Nat
    BY <1>1, MeetingSeriesAssumption DEF NewMeeting
  <2> QED BY <1>1, <2>2, <2>3, MeetingAdded DEF NewMeeting
<1>2. ASSUME NEW m \in meetings, NEW date \in 0..FinalDay, Renew(m, date)
      PROVE  SeriesInv'
  <2>1. m.type \in Types \union {NoType} /\ m.num \in Nat /\ m.date \in Nat /\ date \in Nat
    BY MeetingSeriesAssumption DEF SeriesInv, SeriesTypeOK, Meetings
  <2>2. m.num <= Cardinality(meetings) /\ \A old \in meetings : m.num = old.num => m.date = old.date
    BY DEF SeriesInv, MeetingsNumbered
  <2>3. /\ meetings' = meetings \union
             {[num |-> Cardinality(meetings) + 1, type |-> m.type, date |-> date,
               since |-> m.date, from |-> m.num]}
        /\ UNCHANGED <<types, peers, actions, day, regrouped>>
    BY <1>2 DEF Renew, RenewedSince
  <2> QED BY ONLY SeriesInv, <2>1, <2>2, <2>3, MeetingAdded
<1> QED BY <1>1, <1>2

LEMMA ActionStep ==
    ASSUME SeriesInv,
           \/ \E m \in meetings : AddAction(m)
           \/ \E a \in actions, closed \in BOOLEAN : UpdateAction(a, closed)
    PROVE  SeriesInv'
<1>1. UNCHANGED <<types, peers, meetings, day, regrouped>>
  BY DEF AddAction, UpdateAction
<1>2. day \in Nat /\ \A a \in actions : a \in Actions
  BY MeetingSeriesAssumption DEF SeriesInv, SeriesTypeOK
<1>3. \E S \in SUBSET actions, b \in Actions :
        actions' = S \union {b} /\ b.closedOn <= b.updated /\ b.updated <= day
  <2>1. ASSUME NEW m \in meetings, AddAction(m)
        PROVE  \E S \in SUBSET actions, b \in Actions :
                 actions' = S \union {b} /\ b.closedOn <= b.updated /\ b.updated <= day
    <3> DEFINE b == [num |-> Cardinality(actions) + 1, meeting |-> m.num, closed |-> FALSE,
                     updated |-> day, closedOn |-> 0]
    <3>1. Cardinality(actions) \in Nat
      BY FS_CardinalityType DEF SeriesInv, ClosedInTime
    <3>2. m.num \in Nat \ {0}
      BY DEF SeriesInv, SeriesTypeOK, Meetings
    <3>3. b \in Actions /\ b.closedOn <= b.updated /\ b.updated <= day
      BY <1>2, <3>1, <3>2 DEF Actions
    <3>4. actions' = actions \union {b}
      BY <2>1 DEF AddAction
    <3> HIDE DEF b
    <3> QED BY <3>3, <3>4
  <2>2. ASSUME NEW a \in actions, NEW closed \in BOOLEAN, UpdateAction(a, closed)
        PROVE  \E S \in SUBSET actions, b \in Actions :
                 actions' = S \union {b} /\ b.closedOn <= b.updated /\ b.updated <= day
    <3> DEFINE c == IF closed /\ ~ a.closed THEN day ELSE a.closedOn
               b == [a EXCEPT !.closed = closed, !.updated = day, !.closedOn = c]
    <3>1. a \in Actions /\ c \in Nat /\ c <= day
      BY <1>2 DEF SeriesInv, ClosedInTime, Actions
    <3>2. actions' = (actions \ {a}) \union {b}
      BY <2>2 DEF UpdateAction, Logged
    <3> HIDE DEF c
    <3>3. b \in Actions /\ b.closedOn <= b.updated /\ b.updated <= day
      <4>1. b \in Actions
        BY <1>2, <3>1 DEF Actions
      <4>2. b.closedOn = c /\ b.updated = day
        BY <3>1 DEF Actions
      <4> QED BY <1>2, <3>1, <4>1, <4>2
    <3> HIDE DEF b
    <3> QED BY <3>2, <3>3
  <2> QED BY <2>1, <2>2
<1>4. (SeriesTypeOK /\ ClosedInTime)'
  <2>1. PICK S \in SUBSET actions, b \in Actions :
          actions' = S \union {b} /\ b.closedOn <= b.updated /\ b.updated <= day
    BY <1>3
  <2>2. IsFiniteSet(actions)
    BY DEF SeriesInv, ClosedInTime
  <2>3. IsFiniteSet(S)
    BY <2>2, FS_Subset
  <2>4. IsFiniteSet(actions')
    BY <2>1, <2>3, FS_AddElement
  <2> QED BY <1>1, <2>1, <2>4 DEF SeriesInv, SeriesTypeOK, ClosedInTime
<1> QED BY <1>1, <1>4 DEF SeriesInv, PeersTidy, PeersAreGroups, MeetingsNumbered, RenewedInLine

LEMMA DayStep == SeriesInv /\ DayPasses => SeriesInv'
<1> SUFFICES ASSUME SeriesInv, DayPasses PROVE SeriesInv'
  OBVIOUS
<1>1. day \in 0 .. FinalDay /\ day' \in 0 .. FinalDay /\ day <= day'
  BY MeetingSeriesAssumption DEF SeriesInv, SeriesTypeOK, DayPasses
<1>2. \A a \in actions : a.updated \in Nat
  BY DEF SeriesInv, SeriesTypeOK, Actions
<1>3. (SeriesTypeOK /\ ClosedInTime)'
  BY MeetingSeriesAssumption, <1>1, <1>2 DEF DayPasses, SeriesInv, SeriesTypeOK, ClosedInTime
<1> QED BY <1>3 DEF DayPasses, SeriesInv, PeersTidy, PeersAreGroups, MeetingsNumbered, RenewedInLine

-----------------------------------------------------------------------------
(* The series holds together: its types are in groups and its meetings     *)
(* numbered, whatever is created, edited, deleted and renewed.             *)
THEOREM SeriesInvariant == SeriesSpec => []SeriesInv
<1>1. SeriesInit => SeriesInv
  <2> SUFFICES ASSUME SeriesInit PROVE SeriesInv
    OBVIOUS
  <2>1. SeriesTypeOK
    BY MeetingSeriesAssumption DEF SeriesInit, SeriesTypeOK
  <2>2. MeetingsNumbered /\ ClosedInTime
    BY FS_EmptySet DEF SeriesInit, MeetingsNumbered, ClosedInTime
  <2> QED BY <2>1, <2>2 DEF SeriesInit, SeriesInv, PeersTidy, PeersAreGroups, RenewedInLine
<1>2. SeriesInv /\ [SeriesNext]_seriesVars => SeriesInv'
  <2> SUFFICES ASSUME SeriesInv, [SeriesNext]_seriesVars PROVE SeriesInv'
    OBVIOUS
  <2>1. CASE SeriesNext
    <3>1. ASSUME NEW t \in Types, NEW P \in SUBSET types, CreateType(t, P) \/ EditType(t, P)
          PROVE  SeriesInv'
      BY <3>1, CreateTypeStep, EditTypeStep
    <3>2. ASSUME NEW t \in Types, DeleteType(t) PROVE SeriesInv'
      BY <3>2, DeleteTypeStep
    <3> QED BY <2>1, <3>1, <3>2, MeetingStep, ActionStep, DayStep DEF SeriesNext
  <2>2. CASE UNCHANGED seriesVars
    BY <2>2 DEF seriesVars, SeriesInv, SeriesTypeOK, PeersTidy, PeersAreGroups, MeetingsNumbered,
                RenewedInLine, ClosedInTime
  <2> QED BY <2>1, <2>2
<1> QED BY <1>1, <1>2, PTL DEF SeriesSpec

\* What a meeting shows of the one it was renewed from.
LEMMA ClosingIsShown == SeriesInv => SeriesHolds
<1> SUFFICES ASSUME SeriesInv PROVE ClosingIsReported
  BY DEF SeriesInv, SeriesHolds
<1> SUFFICES ASSUME NEW m \in meetings, NEW old \in meetings, m.from = old.num,
                    NEW a \in actions, NEW t, t = TypeOf(a.meeting),
                    ~ a.closed \/ a.closedOn >= old.date,
                    {t, m.type} \subseteq types,
                    t = m.type \/ (regrouped = {} /\ m.type \in peers[t])
             PROVE  a \in Shown(m)
  BY Zenon DEF ClosingIsReported
<1>1. m.since = old.date /\ old.date \in Nat
  BY DEF SeriesInv, RenewedInLine, SeriesTypeOK, Meetings
<1>2. a.updated >= m.since \/ ~ a.closed
  <2>1. a.closedOn <= a.updated /\ a.closedOn \in Nat /\ a.updated \in Nat
    BY DEF SeriesInv, ClosedInTime, SeriesTypeOK, Actions
  <2> QED BY <1>1, <2>1
<1>3. TypeOf(a.meeting) \in ShownTypes(m.type)
  BY DEF SeriesInv, PeersAreGroups, ShownTypes
<1> QED BY <1>2, <1>3 DEF Shown

(* No closing of an action item gets lost between the meetings of a        *)
(* series, and the peers of a type are its group (updatepeers and          *)
(* beforequery of ActionItemsBase), for any number of types, meetings,     *)
(* action items and days.                                                  *)
THEOREM SeriesAlwaysHolds == SeriesSpec => []SeriesHolds
BY SeriesInvariant, ClosingIsShown, PTL

-----------------------------------------------------------------------------
(* Status reports: the inductive invariant, with R for the reports, P for  *)
(* those by position and W for the rows.                                   *)

\* What every transaction reads of the reports.
ByPosition(R) == {<<s.num, s.position>> : s \in {x \in R : x.position # NoPosition}}

\* Reports are numbered as they come, and a position has at most one.
Numbered(R) ==
    /\ IsFiniteSet(R) /\ R \subseteq Reports
    /\ \A s \in R : s.num <= Cardinality(R)
    /\ \A s, t \in R : s.num = t.num \/ (s.position = t.position /\ s.position # NoPosition) => s = t

\* A member has at most one row of a report, and an ad hoc report has exactly one row.
RowsInPlace(R, W) ==
    /\ IsFiniteSet(W) /\ W \subseteq Rows
    /\ \A w \in W : \E s \in R : s.num = w.report
    /\ \A v, w \in W : v.member = w.member /\ v.report = w.report => v = w
    /\ \A s \in R : s.position = NoPosition =>
         \E w \in W : \A x \in W : x.report = s.num <=> x = w

RowsOf(u, W) == {w \in W : w.member = u}

Snapshots == [reports : SUBSET (Nat \X Positions), rows : SUBSET Rows]

Opens ==
    [member : Members, asked : SUBSET Positions, todo : SUBSET Positions, order : Nat \ {0},
     view : SUBSET Snapshots, at : Positions \union {NoPosition}, report : Nat]

Seen(o, P, W) ==
    IF o.view = {} THEN [reports |-> P, rows |-> RowsOf(o.member, W)]
    ELSE CHOOSE d \in o.view : TRUE

\* What an open has read is still so, whatever else was added.
ViewHolds(o, P, W) ==
    o.view # {} => \E d \in o.view : /\ o.view = {d}
                                     /\ d.reports \subseteq P
                                     /\ d.rows \subseteq RowsOf(o.member, W)

\* The report that it found or inserted is that of the position it is at.
ReportAt(o, P) ==
    /\ o.at \in o.todo \union {NoPosition}
    /\ o.report # 0 => o.at # NoPosition /\ <<o.report, o.at>> \in P

\* The member has a row for each position that is done.
DoneHasRow(o, P, W) == \A p \in o.asked \ o.todo : RowsFor(Seen(o, P, W), p) # {}

OpenOK(o, P, W) ==
    /\ o \in Opens /\ o.todo \subseteq o.asked
    /\ ViewHolds(o, P, W) /\ ReportAt(o, P) /\ DoneHasRow(o, P, W)

OpeningInv ==
    /\ DOMAIN opening = OpenRequests
    /\ \A r \in OpenRequests : opening[r] # Closed => OpenOK(opening[r], ByPosition(reports), rows)

ReportsInv ==
    /\ held \in [Members -> SUBSET Positions] /\ tagged \subseteq Positions /\ invited \subseteq Members
    /\ Numbered(reports) /\ RowsInPlace(reports, rows) /\ OpeningInv

-----------------------------------------------------------------------------
(* What an open sees                                                       *)

LEMMA ByPositionIs ==
    ASSUME NEW R, NEW n, NEW p
    PROVE  <<n, p>> \in ByPosition(R) <=> p # NoPosition /\ \E s \in R : s.num = n /\ s.position = p
BY DEF ByPosition

LEMMA ByPositionTyped ==
    ASSUME NEW R, Numbered(R)
    PROVE  ByPosition(R) \subseteq Nat \X Positions
BY DEF ByPosition, Numbered, Reports

LEMMA SnapshotIs ==
    ASSUME NEW u
    PROVE  Snapshot(u) = [reports |-> ByPosition(reports), rows |-> RowsOf(u, rows)]
BY DEF Snapshot, ByPosition, RowsOf

LEMMA ViewOfIs ==
    ASSUME NEW o
    PROVE  ViewOf(o) = Seen(o, ByPosition(reports), rows)
<1>1. Snapshot(o.member) =
        [reports |-> ByPosition(reports), rows |-> RowsOf(o.member, rows)]
  BY SnapshotIs
<1> QED BY <1>1 DEF ViewOf, Seen

LEMMA SeenWithin ==
    ASSUME NEW P, P \subseteq Nat \X Positions, NEW W, W \subseteq Rows, NEW o, OpenOK(o, P, W)
    PROVE  /\ Seen(o, P, W) \in Snapshots
           /\ Seen(o, P, W).reports \subseteq P
           /\ Seen(o, P, W).rows \subseteq RowsOf(o.member, W)
<1>1. CASE o.view = {}
  BY <1>1 DEF Seen, Snapshots, RowsOf
<1>2. CASE o.view # {}
  <2>1. PICK d \in o.view : /\ o.view = {d} /\ d.reports \subseteq P
                            /\ d.rows \subseteq RowsOf(o.member, W)
    BY <1>2 DEF OpenOK, ViewHolds
  <2>2. Seen(o, P, W) = d
    BY <1>2, <2>1 DEF Seen
  <2>3. d \in Snapshots
    BY DEF OpenOK, Opens
  <2> QED BY <2>1, <2>2, <2>3
<1> QED BY <1>1, <1>2

\* More reports and rows leave an open as it was.
LEMMA OpenStays ==
    ASSUME NEW P, NEW W, NEW o, OpenOK(o, P, W), NEW Q, P \subseteq Q, NEW V, W \subseteq V
    PROVE  OpenOK(o, Q, V)
<1>1. ViewHolds(o, Q, V) /\ ReportAt(o, Q)
  BY DEF OpenOK, ViewHolds, ReportAt, RowsOf
<1>2. DoneHasRow(o, Q, V)
  BY DEF OpenOK, DoneHasRow, RowsFor, Seen, RowsOf
<1> QED BY <1>1, <1>2 DEF OpenOK

\* One request takes a step, with what it and others have inserted.
LEMMA OpeningKept ==
    ASSUME OpeningInv, ByPosition(reports) \subseteq ByPosition(reports'), rows \subseteq rows',
           NEW r \in OpenRequests, NEW o, opening' = [opening EXCEPT ![r] = o],
           o # Closed => OpenOK(o, ByPosition(reports'), rows')
    PROVE  OpeningInv'
BY OpenStays DEF OpeningInv

LEMMA OpeningUnchanged ==
    ASSUME OpeningInv, ByPosition(reports) \subseteq ByPosition(reports'), rows \subseteq rows',
           UNCHANGED opening
    PROVE  OpeningInv'
BY OpenStays DEF OpeningInv

-----------------------------------------------------------------------------
(* Numbers of reports and rows                                             *)

LEMMA ReportOfIs ==
    ASSUME NEW R, Numbered(R), NEW p \in Positions
    PROVE  /\ \A s \in R : s.position = p => ReportOf(R, p) = s.num
           /\ (\A s \in R : s.position # p) => ReportOf(R, p) = 0
<1>1. ASSUME NEW s \in R, s.position = p PROVE ReportOf(R, p) = s.num
  <2>1. {x \in R : x.position = p} = {s}
    BY <1>1, StatusReportsAssumption DEF Numbered
  <2>2. {x.num : x \in {x \in R : x.position = p}} = {s.num}
    BY <2>1
  <2>3. s.num \in Nat
    BY DEF Numbered, Reports
  <2>4. Max({0, s.num}) = s.num
    BY <2>3, MaxIs
  <2>5. {0} \union {s.num} = {0, s.num}
    OBVIOUS
  <2> QED BY <2>2, <2>4, <2>5 DEF ReportOf
<1>2. ASSUME \A s \in R : s.position # p PROVE ReportOf(R, p) = 0
  <2>1. {0} \union {x.num : x \in {x \in R : x.position = p}} = {0}
    BY <1>2
  <2>2. Max({0}) = 0
    BY MaxIs
  <2> QED BY <2>1, <2>2 DEF ReportOf
<1> QED BY <1>1, <1>2

LEMMA NextOrderIs ==
    ASSUME RowsInPlace(reports, rows), NEW u
    PROVE  NextOrder(u) \in Nat \ {0}
<1> DEFINE S == {x \in rows : x.member = u}
           f == [w \in S |-> w.order]
           T == {0} \union {w.order : w \in S}
<1>1. IsFiniteSet(S)
  <2>1. IsFiniteSet(rows) /\ S \in SUBSET rows
    BY DEF RowsInPlace
  <2> QED BY <2>1, FS_Subset
<1>2. f \in [S -> Nat]
  BY DEF RowsInPlace, Rows
<1>3. IsFiniteSet({f[w] : w \in S})
  <2> HIDE DEF f
  <2> QED BY <1>1, <1>2, ImageFinite
<1>4. {f[w] : w \in S} = {w.order : w \in S}
  OBVIOUS
<1>5. T \subseteq Nat /\ T # {}
  BY DEF RowsInPlace, Rows
<1>6. IsFiniteSet(T)
  <2>1. IsFiniteSet({w.order : w \in S} \union {0})
    BY <1>3, <1>4, FS_AddElement
  <2>2. T = {w.order : w \in S} \union {0}
    OBVIOUS
  <2> QED BY <2>1, <2>2
<1>7. NextOrder(u) = 1 + Max(T)
  BY DEF NextOrder
<1> HIDE DEF T
<1>8. T \subseteq Int
  BY <1>5
<1>9. Max(T) \in T
  BY <1>5, <1>6, <1>8, FiniteMax
<1>10. Max(T) \in Nat
  BY <1>5, <1>9
<1> QED BY <1>7, <1>10

-----------------------------------------------------------------------------
(* The steps of an open                                                    *)

LEMMA StartOpenStep ==
    ASSUME ReportsInv, NEW r \in OpenRequests, NEW u \in Members, StartOpen(r, u)
    PROVE  ReportsInv'
<1> DEFINE P == ByPosition(reports)
           d == Snapshot(u)
           o == [member |-> u, asked |-> held[u] \intersect tagged, todo |-> held[u] \intersect tagged,
                 order |-> NextOrder(u), view |-> {d}, at |-> NoPosition, report |-> 0]
<1>1. d = [reports |-> P, rows |-> RowsOf(u, rows)]
  BY SnapshotIs
<1>2. d \in Snapshots
  BY <1>1, ByPositionTyped DEF ReportsInv, RowsInPlace, Snapshots, RowsOf
<1>3. o \in Opens
  BY <1>2, NextOrderIs DEF ReportsInv, Opens
<1>4. OpenOK(o, P, rows)
  <2>1. ViewHolds(o, P, rows)
    BY <1>1 DEF ViewHolds
  <2>2. ReportAt(o, P) /\ DoneHasRow(o, P, rows)
    BY DEF ReportAt, DoneHasRow
  <2> HIDE DEF o
  <2>3. o.todo \subseteq o.asked
    BY DEF o
  <2> QED BY <1>3, <2>1, <2>2, <2>3 DEF OpenOK
<1>5. opening' = [opening EXCEPT ![r] = o] /\ UNCHANGED <<reports, rows, held, tagged, invited>>
  BY DEF StartOpen
<1> HIDE DEF o
<1>6. OpeningInv'
  BY <1>4, <1>5, OpeningKept DEF ReportsInv
<1> QED BY <1>5, <1>6 DEF ReportsInv

LEMMA LookStep ==
    ASSUME ReportsInv, NEW r \in OpenRequests, NEW p \in Positions, Look(r, p)
    PROVE  ReportsInv'
<1> DEFINE P == ByPosition(reports)
           o == opening[r]
           d == Seen(o, P, rows)
           N == {n \in {s.num : s \in reports} : <<n, p>> \in d.reports}
           n0 == Max({0} \union N)
           found == [o EXCEPT !.todo = @ \ {p}, !.view = {d}]
           missed == [o EXCEPT !.at = p, !.view = {d}, !.report = n0]
<1>1. OpenOK(o, P, rows) /\ P \subseteq Nat \X Positions /\ rows \subseteq Rows
  BY ByPositionTyped DEF Look, ReportsInv, OpeningInv, RowsInPlace
<1>2. /\ d \in Snapshots /\ d.reports \subseteq P /\ d.rows \subseteq RowsOf(o.member, rows)
  <2> HIDE DEF P, o
  <2> QED BY <1>1, SeenWithin
<1>3. o \in Opens /\ o.todo \subseteq o.asked
  BY <1>1 DEF OpenOK
<1>4. o.at = NoPosition /\ p \in o.todo
  BY DEF Look
<1>5. n0 \in Nat /\ (n0 # 0 => <<n0, p>> \in P)
  <2>1. N \subseteq Nat
    BY DEF ReportsInv, Numbered, Reports
  <2>2. IsFiniteSet(N)
    <3> DEFINE f == [s \in reports |-> s.num]
    <3>1. f \in [reports -> Nat] /\ IsFiniteSet(reports)
      BY DEF ReportsInv, Numbered, Reports
    <3>2. IsFiniteSet({f[s] : s \in reports})
      <4> HIDE DEF f
      <4> QED BY <3>1, ImageFinite
    <3>3. N \in SUBSET {f[s] : s \in reports}
      OBVIOUS
    <3> HIDE DEF f, N
    <3> QED BY <3>2, <3>3, FS_Subset
  <2>3. \A x \in N : <<x, p>> \in P
    BY <1>2
  <2> HIDE DEF N
  <2>4. IsFiniteSet({0} \union N)
    <3>1. IsFiniteSet(N \union {0}) /\ {0} \union N = N \union {0}
      BY <2>2, FS_AddElement
    <3> QED BY <3>1
  <2>5. {0} \union N \subseteq Int /\ {0} \union N # {}
    BY <2>1
  <2>6. n0 \in {0} \union N
    BY <2>4, <2>5, FiniteMax
  <2> HIDE DEF n0
  <2> QED BY <2>1, <2>3, <2>6
<1>6. opening' = [opening EXCEPT ![r] = IF RowsFor(d, p) # {} THEN found ELSE missed]
      /\ UNCHANGED <<reports, rows, held, tagged, invited>>
  <2>1. ViewOf(o) = d
    BY ViewOfIs
  <2> QED BY <2>1 DEF Look
<1> HIDE DEF d, n0
<1>7. ASSUME NEW x, x.view = {d}, x.member = o.member PROVE ViewHolds(x, P, rows) /\ Seen(x, P, rows) = d
  BY <1>2, <1>7 DEF ViewHolds, Seen
<1>8. ASSUME RowsFor(d, p) # {} PROVE OpenOK(found, P, rows)
  <2>1. /\ found \in Opens /\ found.view = {d} /\ found.member = o.member /\ found.asked = o.asked
        /\ found.todo = o.todo \ {p} /\ found.at = NoPosition /\ found.report = o.report
    BY <1>2, <1>3, <1>4 DEF Opens
  <2> HIDE DEF found
  <2>2. ReportAt(found, P)
    BY <1>1, <1>4, <2>1 DEF ReportAt, OpenOK
  <2>3. DoneHasRow(found, P, rows)
    <3>1. \A q \in o.asked \ o.todo : RowsFor(d, q) # {}
      BY <1>1 DEF OpenOK, DoneHasRow, d
    <3> QED BY <1>7, <1>8, <2>1, <3>1 DEF DoneHasRow
  <2> QED BY <1>3, <1>7, <2>1, <2>2, <2>3 DEF OpenOK
<1>9. OpenOK(missed, P, rows)
  <2>1. /\ missed \in Opens /\ missed.view = {d} /\ missed.member = o.member /\ missed.asked = o.asked
        /\ missed.todo = o.todo /\ missed.at = p /\ missed.report = n0
    BY <1>2, <1>3, <1>5 DEF Opens
  <2> HIDE DEF missed
  <2>2. ReportAt(missed, P)
    BY <1>4, <1>5, <2>1, StatusReportsAssumption DEF ReportAt
  <2>3. DoneHasRow(missed, P, rows)
    <3>1. \A q \in o.asked \ o.todo : RowsFor(d, q) # {}
      BY <1>1 DEF OpenOK, DoneHasRow, d
    <3> QED BY <1>7, <2>1, <3>1 DEF DoneHasRow
  <2> QED BY <1>3, <1>7, <2>1, <2>2, <2>3 DEF OpenOK
<1> HIDE DEF found, missed
<1>10. OpeningInv'
  BY <1>6, <1>8, <1>9, OpeningKept DEF ReportsInv
<1> QED BY <1>6, <1>10 DEF ReportsInv

LEMMA ReportAdded ==
    ASSUME NEW R, Numbered(R), NEW p \in Positions \union {NoPosition},
           NEW s \in [num : {Cardinality(R) + 1}, position : {p}, text : BOOLEAN],
           p = NoPosition \/ \A x \in R : x.position # p
    PROVE  /\ Numbered(R \union {s}) /\ s \in Reports
           /\ \A x \in R : x.num # s.num
           /\ ByPosition(R) \subseteq ByPosition(R \union {s})
<1>1. Cardinality(R) \in Nat /\ IsFiniteSet(R)
  BY FS_CardinalityType DEF Numbered
<1>2. s \in Reports /\ s.num = Cardinality(R) + 1 /\ s.position = p
  BY <1>1 DEF Reports
<1>3. \A x \in R : x.num \in Nat /\ x.num < s.num
  BY <1>1, <1>2 DEF Numbered, Reports
<1>4. \A x \in R : x.num # s.num
  BY <1>2, <1>3 DEF Reports
<1>5. IsFiniteSet(R \union {s}) /\ Cardinality(R \union {s}) = Cardinality(R) + 1
  BY <1>1, <1>4, FS_AddElement
<1>6. \A x \in R \union {s} : x.num <= Cardinality(R \union {s})
  BY <1>1, <1>2, <1>3, <1>5
<1>7. Numbered(R \union {s})
  <2>1. R \union {s} \subseteq Reports
    BY <1>2 DEF Numbered
  <2>2. \A x, y \in R \union {s} :
          x.num = y.num \/ (x.position = y.position /\ x.position # NoPosition) => x = y
    BY <1>2, <1>4 DEF Numbered
  <2> QED BY <1>5, <1>6, <2>1, <2>2 DEF Numbered
<1> QED BY <1>2, <1>4, <1>7 DEF ByPosition

LEMMA InsertReportStep ==
    ASSUME ReportsInv, NEW r \in OpenRequests, InsertReport(r)
    PROVE  ReportsInv'
<1> DEFINE o == opening[r]
           p == o.at
           P == ByPosition(reports)
           n == ReportOf(reports', p)
           x == [o EXCEPT !.view = {}, !.report = n]
<1>1. OpenOK(o, P, rows) /\ o \in Opens /\ p \in Positions /\ p \in o.todo
  BY DEF InsertReport, ReportsInv, OpeningInv, OpenOK, Opens, ReportAt
<1>2. reports' = InsertUnique(reports, p) /\ UNCHANGED <<rows, held, tagged, invited>>
  BY DEF InsertReport
<1>3. opening' = [opening EXCEPT ![r] = x]
  <2>1. opening' = [opening EXCEPT ![r].view = {}, ![r].report = n]
    BY DEF InsertReport
  <2> QED BY <2>1 DEF ReportsInv, OpeningInv
<1>4. /\ Numbered(reports') /\ P \subseteq ByPosition(reports') /\ RowsInPlace(reports', rows)
      /\ \E s \in reports' : s.position = p
  <2>1. CASE \E s \in reports : s.position = p
    BY <1>2, <2>1 DEF InsertUnique, ReportsInv
  <2>2. CASE \A s \in reports : s.position # p
    <3> DEFINE s == [num |-> Cardinality(reports) + 1, position |-> p, text |-> FALSE]
    <3>1. reports' = reports \union {s}
      BY <1>2, <2>2 DEF InsertUnique
    <3>2. /\ Numbered(reports \union {s}) /\ s \in Reports
          /\ P \subseteq ByPosition(reports \union {s})
      <4>1. s \in [num : {Cardinality(reports) + 1}, position : {p}, text : BOOLEAN]
        OBVIOUS
      <4>2. Numbered(reports) /\ p \in Positions \union {NoPosition}
        BY <1>1 DEF ReportsInv
      <4> HIDE DEF s, p
      <4> QED BY <2>2, <4>1, <4>2, ReportAdded
    <3>3. s.position # NoPosition /\ s.position = p
      BY <1>1, StatusReportsAssumption
    <3> HIDE DEF s
    <3>4. RowsInPlace(reports \union {s}, rows)
      BY <3>3 DEF ReportsInv, RowsInPlace
    <3> QED BY <3>1, <3>2, <3>3, <3>4
  <2> QED BY <2>1, <2>2
<1>5. n \in Nat /\ <<n, p>> \in ByPosition(reports')
  <2>1. PICK s \in reports' : s.position = p
    BY <1>4
  <2>2. n = s.num /\ s.num \in Nat
    BY <1>1, <1>4, <2>1, ReportOfIs DEF Numbered, Reports
  <2> QED BY <1>1, <2>1, <2>2, ByPositionIs, StatusReportsAssumption
<1> HIDE DEF n
<1>6. OpenOK(x, ByPosition(reports'), rows)
  <2>1. /\ x \in Opens /\ x.view = {} /\ x.member = o.member /\ x.asked = o.asked
        /\ x.todo = o.todo /\ x.at = p /\ x.report = n
    BY <1>1, <1>5 DEF Opens
  <2> HIDE DEF x
  <2>2. ViewHolds(x, ByPosition(reports'), rows) /\ ReportAt(x, ByPosition(reports'))
    BY <1>1, <1>5, <2>1, StatusReportsAssumption DEF ViewHolds, ReportAt
  <2>3. DoneHasRow(x, ByPosition(reports'), rows)
    <3> SUFFICES ASSUME NEW q \in o.asked \ o.todo
                 PROVE  RowsFor(Seen(x, ByPosition(reports'), rows), q) # {}
      BY <2>1 DEF DoneHasRow
    <3>1. PICK w \in RowsFor(Seen(o, P, rows), q) : TRUE
      BY <1>1 DEF OpenOK, DoneHasRow
    <3>2. Seen(o, P, rows).reports \subseteq P /\ Seen(o, P, rows).rows \subseteq RowsOf(o.member, rows)
      <4>1. P \subseteq Nat \X Positions /\ rows \subseteq Rows
        BY ByPositionTyped DEF ReportsInv, RowsInPlace
      <4> HIDE DEF P, o
      <4> QED BY <1>1, <4>1, SeenWithin
    <3>3. w \in RowsOf(x.member, rows) /\ <<w.report, q>> \in ByPosition(reports')
      BY <1>4, <2>1, <3>1, <3>2 DEF RowsFor
    <3> QED BY <2>1, <3>3 DEF RowsFor, Seen
  <2>4. x.todo \subseteq x.asked
    BY <1>1, <2>1 DEF OpenOK
  <2> QED BY <2>1, <2>2, <2>3, <2>4 DEF OpenOK
<1> HIDE DEF x
<1>7. OpeningInv'
  <2>1. rows' = rows /\ OpeningInv
    BY <1>2 DEF ReportsInv
  <2> QED BY <1>3, <1>4, <1>6, <2>1, OpeningKept
<1> QED BY <1>2, <1>4, <1>7 DEF ReportsInv

\* A row of a report by position, or the one that the member has of it already.
LEMMA RowAdded ==
    ASSUME Numbered(reports), RowsInPlace(reports, rows), NEW w \in Rows,
           NEW p, <<w.report, p>> \in ByPosition(reports)
    PROVE  /\ RowsInPlace(reports, AddRow(rows, w))
           /\ rows \subseteq AddRow(rows, w)
           /\ \E x \in AddRow(rows, w) : x.member = w.member /\ x.report = w.report
<1>1. CASE \E x \in rows : x.member = w.member /\ x.report = w.report
  BY <1>1 DEF AddRow
<1>2. CASE ~ \E x \in rows : x.member = w.member /\ x.report = w.report
  <2>1. AddRow(rows, w) = rows \union {w}
    BY <1>2 DEF AddRow
  <2>2. PICK s \in reports : s.num = w.report /\ s.position # NoPosition
    BY ByPositionIs
  <2>3. IsFiniteSet(rows \union {w})
    BY FS_AddElement DEF RowsInPlace
  <2>4. \A t \in reports : t.position = NoPosition => w.report # t.num
    BY <2>2 DEF Numbered
  <2>5. \A t \in reports : t.position = NoPosition =>
          \E v \in rows \union {w} : \A x \in rows \union {w} : x.report = t.num <=> x = v
    <3> SUFFICES ASSUME NEW t \in reports, t.position = NoPosition
                 PROVE  \E v \in rows \union {w} : \A x \in rows \union {w} : x.report = t.num <=> x = v
      OBVIOUS
    <3>1. PICK v \in rows : \A x \in rows : x.report = t.num <=> x = v
      BY DEF RowsInPlace
    <3>2. w.report # t.num /\ v.report = t.num
      BY <2>4, <3>1
    <3> QED BY <3>1, <3>2
  <2>6. \A v, x \in rows \union {w} : v.member = x.member /\ v.report = x.report => v = x
    BY <1>2 DEF RowsInPlace
  <2>7. rows \union {w} \subseteq Rows /\ \A x \in rows \union {w} : \E t \in reports : t.num = x.report
    BY <2>2 DEF RowsInPlace
  <2> QED BY <2>1, <2>3, <2>5, <2>6, <2>7 DEF RowsInPlace
<1> QED BY <1>1, <1>2

LEMMA InsertRowStep ==
    ASSUME ReportsInv, NEW r \in OpenRequests, InsertRow(r)
    PROVE  ReportsInv'
<1> DEFINE o == opening[r]
           P == ByPosition(reports)
           w == [member |-> o.member, report |-> o.report, order |-> o.order]
           x == [o EXCEPT !.todo = @ \ {o.at}, !.at = NoPosition, !.report = 0,
                          !.order = @ + 1, !.view = {}]
<1>1. OpenOK(o, P, rows) /\ o \in Opens /\ <<o.report, o.at>> \in P
  BY DEF InsertRow, ReportsInv, OpeningInv, OpenOK, ReportAt
<1>2. /\ rows' = AddRow(rows, w) /\ opening' = [opening EXCEPT ![r] = x]
      /\ UNCHANGED <<reports, held, tagged, invited>>
  BY DEF InsertRow
<1>3. w \in Rows /\ w.member = o.member /\ w.report = o.report
  <2>1. o.report # 0
    BY DEF InsertRow
  <2> QED BY <1>1, <2>1 DEF Opens, Rows
<1> HIDE DEF w
<1>4. /\ RowsInPlace(reports, rows') /\ rows \subseteq rows'
      /\ \E y \in rows' : y.member = o.member /\ y.report = o.report
  BY <1>1, <1>2, <1>3, RowAdded DEF ReportsInv
<1>5. OpenOK(x, P, rows')
  <2>1. /\ x \in Opens /\ x.view = {} /\ x.member = o.member /\ x.asked = o.asked
        /\ x.todo = o.todo \ {o.at} /\ x.at = NoPosition /\ x.report = 0
    <3>1. o.order + 1 \in Nat \ {0}
      BY <1>1 DEF Opens
    <3>2. x \in Opens
      BY <1>1, <3>1 DEF Opens
    <3> QED BY <1>1, <3>2 DEF Opens
  <2> HIDE DEF x
  <2>2. ViewHolds(x, P, rows') /\ ReportAt(x, P)
    BY <2>1 DEF ViewHolds, ReportAt
  <2>3. DoneHasRow(x, P, rows')
    <3> SUFFICES ASSUME NEW q \in o.asked \ (o.todo \ {o.at})
                 PROVE  RowsFor(Seen(x, P, rows'), q) # {}
      BY <2>1 DEF DoneHasRow
    <3>1. \E y \in rows' : y.member = o.member /\ <<y.report, q>> \in P
      <4>1. CASE q = o.at
        BY <1>1, <1>4, <4>1
      <4>2. CASE q \notin o.todo
        <5>1. PICK y \in RowsFor(Seen(o, P, rows), q) : TRUE
          BY <1>1, <4>2 DEF OpenOK, DoneHasRow
        <5>2. Seen(o, P, rows).reports \subseteq P /\ Seen(o, P, rows).rows \subseteq RowsOf(o.member, rows)
          <6>1. P \subseteq Nat \X Positions /\ rows \subseteq Rows
            BY ByPositionTyped DEF ReportsInv, RowsInPlace
          <6> HIDE DEF P, o
          <6> QED BY <1>1, <6>1, SeenWithin
        <5> QED BY <1>4, <5>1, <5>2 DEF RowsFor, RowsOf
      <4> QED BY <4>1, <4>2
    <3> QED BY <2>1, <3>1 DEF RowsFor, Seen, RowsOf
  <2>4. x.todo \subseteq x.asked
    BY <1>1, <2>1 DEF OpenOK
  <2> QED BY <2>1, <2>2, <2>3, <2>4 DEF OpenOK
<1> HIDE DEF x
<1>6. OpeningInv'
  <2>1. reports' = reports /\ OpeningInv
    BY <1>2 DEF ReportsInv
  <2> QED BY <1>2, <1>4, <1>5, <2>1, OpeningKept
<1> QED BY <1>2, <1>4, <1>6 DEF ReportsInv

LEMMA OpenEndsStep ==
    ASSUME ReportsInv, NEW r \in OpenRequests, EndOpen(r) \/ FailOpen(r)
    PROVE  ReportsInv'
<1>1. opening' = [opening EXCEPT ![r] = Closed] /\ UNCHANGED <<reports, rows, held, tagged, invited>>
  BY DEF EndOpen, FailOpen
<1>2. OpeningInv'
  BY <1>1, OpeningKept DEF ReportsInv
<1> QED BY <1>1, <1>2 DEF ReportsInv

-----------------------------------------------------------------------------
(* The other steps                                                         *)

LEMMA CreateAdHocStep ==
    ASSUME ReportsInv, NEW u \in Members, NEW t \in BOOLEAN, CreateAdHoc(u, t)
    PROVE  ReportsInv'
<1> DEFINE s == [num |-> NewNum, position |-> NoPosition, text |-> t]
           w == [member |-> u, report |-> NewNum, order |-> NextOrder(u)]
<1>1. /\ reports' = reports \union {s} /\ rows' = rows \union {w}
      /\ UNCHANGED <<held, tagged, invited, opening>>
  BY DEF CreateAdHoc
<1>2. w.report = s.num /\ w.member = u /\ s.position = NoPosition
  OBVIOUS
<1>3. /\ Numbered(reports') /\ s \in Reports /\ \A y \in reports : y.num # s.num
      /\ ByPosition(reports) \subseteq ByPosition(reports')
  <2>1. s \in [num : {Cardinality(reports) + 1}, position : {NoPosition}, text : BOOLEAN]
    BY DEF NewNum
  <2> HIDE DEF s
  <2> QED BY <1>1, <2>1, ReportAdded DEF ReportsInv
<1>4. w \in Rows
  <2>1. NextOrder(u) \in Nat \ {0} /\ NewNum \in Nat \ {0}
    BY <1>3, NextOrderIs DEF ReportsInv, Reports
  <2> QED BY <2>1 DEF Rows
<1> HIDE DEF s, w
<1>5. \A y \in rows : y.report # s.num
  BY <1>3 DEF ReportsInv, RowsInPlace
<1>6. RowsInPlace(reports', rows')
  <2>1. IsFiniteSet(rows')
    BY <1>1, FS_AddElement DEF ReportsInv, RowsInPlace
  <2>2. \A y \in rows' : \E z \in reports' : z.num = y.report
    BY <1>1, <1>2 DEF ReportsInv, RowsInPlace
  <2>3. \A v, y \in rows' : v.member = y.member /\ v.report = y.report => v = y
    BY <1>1, <1>2, <1>5 DEF ReportsInv, RowsInPlace
  <2>4. \A z \in reports' : z.position = NoPosition =>
          \E v \in rows' : \A y \in rows' : y.report = z.num <=> y = v
    <3>1. \A y \in rows' : y.report = s.num <=> y = w
      BY <1>1, <1>2, <1>5
    <3>2. \A z \in reports : z.position = NoPosition =>
            \E v \in rows : \A y \in rows' : y.report = z.num <=> y = v
      <4> SUFFICES ASSUME NEW z \in reports, z.position = NoPosition
                   PROVE  \E v \in rows : \A y \in rows' : y.report = z.num <=> y = v
        OBVIOUS
      <4>1. PICK v \in rows : \A y \in rows : y.report = z.num <=> y = v
        BY DEF ReportsInv, RowsInPlace
      <4>2. w.report # z.num /\ v.report = z.num
        BY <1>2, <1>3, <4>1
      <4> QED BY <1>1, <4>1, <4>2
    <3> QED BY <1>1, <3>1, <3>2
  <2>5. rows' \subseteq Rows
    BY <1>1, <1>4 DEF ReportsInv, RowsInPlace
  <2> QED BY <2>1, <2>2, <2>3, <2>4, <2>5 DEF RowsInPlace
<1>7. OpeningInv'
  BY <1>1, <1>3, OpeningUnchanged DEF ReportsInv
<1> QED BY <1>1, <1>3, <1>6, <1>7 DEF ReportsInv

LEMMA WriteReportStep ==
    ASSUME ReportsInv, NEW w \in rows, NEW t \in BOOLEAN, WriteReport(w, t)
    PROVE  ReportsInv'
<1> DEFINE f == [s \in reports |-> IF s.num = w.report THEN [s EXCEPT !.text = t] ELSE s]
<1>1. \A s \in reports : f[s] \in Reports /\ f[s].num = s.num /\ f[s].position = s.position
  <2> SUFFICES ASSUME NEW s \in reports
               PROVE  f[s] \in Reports /\ f[s].num = s.num /\ f[s].position = s.position
    OBVIOUS
  <2>1. s \in Reports
    BY DEF ReportsInv, Numbered
  <2> QED BY <2>1 DEF Reports
<1>2. reports' = {f[s] : s \in reports} /\ UNCHANGED <<rows, held, tagged, invited, opening>>
  BY DEF WriteReport
<1>3. f \in [reports -> Reports]
  BY <1>1
<1> HIDE DEF f
<1>4. IsFiniteSet(reports') /\ Cardinality(reports') = Cardinality(reports)
  <2>1. IsFiniteSet(reports) /\ \A x, y \in reports : f[x] = f[y] => x = y
    BY <1>1 DEF ReportsInv, Numbered
  <2>2. /\ IsFiniteSet({f[x] : x \in reports})
        /\ Cardinality({f[x] : x \in reports}) = Cardinality(reports)
    <3>1. f \in Injection(reports, Reports)
      BY <1>3, <2>1 DEF Injection, IsInjective
    <3> QED BY ONLY <2>1, <3>1, ImageSameSize
  <2> QED BY <1>2, <2>2
<1>5. Numbered(reports')
  <2>1. \A s \in reports : f[s].num <= Cardinality(reports')
    BY <1>1, <1>4 DEF ReportsInv, Numbered
  <2>2. \A s, x \in reports :
          f[s].num = f[x].num \/ (f[s].position = f[x].position /\ f[s].position # NoPosition) => f[s] = f[x]
    BY <1>1 DEF ReportsInv, Numbered
  <2> QED BY <1>1, <1>2, <1>4, <2>1, <2>2 DEF Numbered
<1>6. RowsInPlace(reports', rows)
  <2>1. \A x \in rows : \E s \in reports' : s.num = x.report
    BY <1>1, <1>2 DEF ReportsInv, RowsInPlace
  <2>2. \A s \in reports' : s.position = NoPosition =>
          \E v \in rows : \A x \in rows : x.report = s.num <=> x = v
    <3> SUFFICES ASSUME NEW s \in reports, s.position = NoPosition
                 PROVE  \E v \in rows : \A x \in rows : x.report = s.num <=> x = v
      BY <1>1, <1>2
    <3> QED BY DEF ReportsInv, RowsInPlace
  <2> QED BY <2>1, <2>2 DEF ReportsInv, RowsInPlace
<1>7. ByPosition(reports) \subseteq ByPosition(reports')
  BY <1>1, <1>2 DEF ByPosition
<1>8. OpeningInv'
  BY <1>2, <1>7, OpeningUnchanged DEF ReportsInv
<1> QED BY <1>2, <1>5, <1>6, <1>8 DEF ReportsInv

\* Reminders, positions and tags.
LEMMA PositionsStep ==
    ASSUME ReportsInv,
           \/ \E P \in SUBSET Positions : Remind(P) \/ Retag(P)
           \/ \E u \in Members, P \in SUBSET Positions : Reassign(u, P)
    PROVE  ReportsInv'
<1>1. UNCHANGED <<reports, rows, opening>>
  BY DEF Remind, Retag, Reassign
<1>2. OpeningInv'
  BY <1>1, OpeningUnchanged DEF ReportsInv
<1>3. held' \in [Members -> SUBSET Positions] /\ tagged' \subseteq Positions /\ invited' \subseteq Members
  BY DEF Remind, Retag, Reassign, ReportsInv
<1> QED BY <1>1, <1>2, <1>3 DEF ReportsInv

\* Who is left of the next meeting: nobody has a page open, and nothing is written.
LEMMA NextMeetingStep ==
    ASSUME ReportsInv, NEW a, NEW b, RenewMeeting(a, b)
    PROVE  ReportsInv'
<1>1. Numbered({}) /\ RowsInPlace({}, {})
  BY FS_EmptySet DEF Numbered, RowsInPlace
<1>2. OpeningInv'
  BY DEF RenewMeeting, ReportsInv, OpeningInv
<1> QED BY <1>1, <1>2 DEF RenewMeeting, ReportsInv

LEMMA ReportsNextStep ==
    ASSUME ReportsInv, StatusReportsNext
    PROVE  ReportsInv'
<1>1. ASSUME NEW r \in OpenRequests,
             \/ \E u \in Members : StartOpen(r, u)
             \/ \E p \in Positions : Look(r, p)
             \/ InsertReport(r) \/ InsertRow(r) \/ EndOpen(r) \/ FailOpen(r)
      PROVE  ReportsInv'
  BY <1>1, StartOpenStep, LookStep, InsertReportStep, InsertRowStep, OpenEndsStep
<1>2. ASSUME NEW u \in Members, NEW t \in BOOLEAN, CreateAdHoc(u, t) PROVE ReportsInv'
  BY <1>2, CreateAdHocStep
<1>3. ASSUME NEW w \in rows, NEW t \in BOOLEAN, WriteReport(w, t) PROVE ReportsInv'
  BY <1>3, WriteReportStep
<1> QED BY <1>1, <1>2, <1>3, PositionsStep DEF StatusReportsNext

-----------------------------------------------------------------------------
(* What the invariant says of the pages and of the document                *)

LEMMA PagesShowAll == ReportsInv => OpenedShowsAll
<1> SUFFICES ASSUME ReportsInv, NEW r \in OpenRequests, Opened(r), NEW p \in opening[r].asked
             PROVE  Cardinality(RowsFor(ViewOf(opening[r]), p)) = 1
  BY DEF OpenedShowsAll
<1> DEFINE o == opening[r]
           P == ByPosition(reports)
           S == RowsFor(Seen(o, P, rows), p)
<1>1. OpenOK(o, P, rows) /\ p \in o.asked \ o.todo
  BY DEF ReportsInv, OpeningInv, Opened
<1>2. Seen(o, P, rows).reports \subseteq P /\ Seen(o, P, rows).rows \subseteq RowsOf(o.member, rows)
  <2>1. P \subseteq Nat \X Positions /\ rows \subseteq Rows
    BY ByPositionTyped DEF ReportsInv, RowsInPlace
  <2> HIDE DEF P, o
  <2> QED BY <1>1, <2>1, SeenWithin
<1>3. PICK w \in S : TRUE
  BY <1>1 DEF OpenOK, DoneHasRow
<1>4. \A x \in S : x \in rows /\ x.member = o.member /\ <<x.report, p>> \in P
  BY <1>2 DEF RowsFor, RowsOf
<1>5. \A x \in S : x = w
  <2> SUFFICES ASSUME NEW x \in S PROVE x = w
    OBVIOUS
  <2> HIDE DEF S
  <2>1. PICK s \in reports : s.num = x.report /\ s.position = p /\ p # NoPosition
    BY <1>4 DEF ByPosition
  <2>2. PICK y \in reports : y.num = w.report /\ y.position = p
    BY <1>3, <1>4 DEF ByPosition
  <2>3. s = y
    BY <2>1, <2>2 DEF ReportsInv, Numbered
  <2> QED BY <1>3, <1>4, <2>1, <2>2, <2>3 DEF ReportsInv, RowsInPlace
<1>6. S = {w}
  BY <1>3, <1>5
<1> QED BY <1>6, ViewOfIs, FS_Singleton

LEMMA DocumentHasAll == ReportsInv => WrittenIsPrinted
<1> SUFFICES ASSUME ReportsInv, NEW s \in reports, s.text, s.position \in tagged \union {NoPosition}
             PROVE  /\ Cardinality({e \in Document({}) : e.report = s.num}) = 1
                    /\ s.position = NoPosition => Cardinality({w \in rows : w.report = s.num}) = 1
  BY DEF WrittenIsPrinted
<1> DEFINE e0 == [position |-> s.position, report |-> s.num]
           E == {e \in Document({}) : e.report = s.num}
<1>1. s.num # 0 /\ tagged \subseteq Positions /\ NoPosition \notin tagged
  BY StatusReportsAssumption DEF ReportsInv, Numbered, Reports
<1>2. \A p \in tagged : ReportOf(reports, p) = s.num => s.position = p
  <2> SUFFICES ASSUME NEW p \in tagged, ReportOf(reports, p) = s.num PROVE s.position = p
    OBVIOUS
  <2>1. PICK x \in reports : x.position = p
    BY <1>1, ReportOfIs DEF ReportsInv
  <2>2. x.num = s.num
    BY <1>1, <2>1, ReportOfIs DEF ReportsInv
  <2> QED BY <2>1, <2>2 DEF ReportsInv, Numbered
<1>3. \A x \in Remaining({}) : x.num = s.num => x = s
  BY DEF Remaining, ReportsInv, Numbered
<1>4. e0 \in Document({})
  <2>1. CASE s.position \in tagged
    <3>1. ReportOf(reports, s.position) = s.num
      BY <1>1, <2>1, ReportOfIs DEF ReportsInv
    <3> QED BY <2>1, <3>1 DEF Document
  <2>2. CASE s.position = NoPosition
    <3>1. s \in Remaining({})
      BY <2>2 DEF Remaining
    <3> QED BY <2>2, <3>1 DEF Document
  <2> QED BY <2>1, <2>2
<1>5. \A e \in E : e = e0
  <2> SUFFICES ASSUME NEW e \in Document({}), e.report = s.num PROVE e = e0
    OBVIOUS
  <2>1. CASE \E p \in tagged : e = [position |-> p, report |-> ReportOf(reports, p)]
    BY <1>2, <2>1
  <2>2. CASE \E x \in Remaining({}) : e = [position |-> NoPosition, report |-> x.num]
    BY <1>3, <2>2 DEF Remaining
  <2> QED BY <2>1, <2>2 DEF Document
<1>6. E = {e0}
  BY <1>4, <1>5
<1>7. ASSUME s.position = NoPosition PROVE Cardinality({w \in rows : w.report = s.num}) = 1
  <2>1. PICK w \in rows : \A x \in rows : x.report = s.num <=> x = w
    BY <1>7 DEF ReportsInv, RowsInPlace
  <2>2. {x \in rows : x.report = s.num} = {w}
    BY <2>1
  <2> QED BY <2>2, FS_Singleton
<1> QED BY <1>6, <1>7, FS_Singleton

-----------------------------------------------------------------------------
(* The agenda: its inductive invariant                                     *)

ItemsNumbered(I) ==
    /\ IsFiniteSet(I) /\ I \subseteq Items
    /\ \A i, j \in I : i.num = j.num => i = j

AgendaInv ==
    /\ ItemsNumbered(items) /\ discussions \subseteq Discussions /\ over \in BOOLEAN
    /\ \A d, e \in discussions : d.item = e.item => d = e
    /\ DiscussionsOnAgenda

LEMMA NewItemTyped ==
    ASSUME NEW order \in Nat \ {0}, NEW special \in Special
    PROVE  /\ NewItem(order, special) \in Items
           /\ NewItem(order, special).num = order /\ NewItem(order, special).order = order
           /\ NewItem(order, special).report = 0
BY DEF NewItem, Items

LEMMA AutoItemsAre ==
    /\ ItemsNumbered(AutoItems)
    /\ \A i \in AutoItems : i.num \in {2, 3} /\ i.order = i.num /\ i.report = 0
<1> DEFINE a == NewItem(2, "actions")
           b == NewItem(3, "no")
<1>1. /\ a \in Items /\ a.num = 2 /\ a.order = 2 /\ a.report = 0
      /\ b \in Items /\ b.num = 3 /\ b.order = 3 /\ b.report = 0
  <2>1. "actions" \in Special /\ "no" \in Special /\ 2 \in Nat \ {0} /\ 3 \in Nat \ {0}
    BY DEF Special
  <2> QED BY <2>1, NewItemTyped
<1> HIDE DEF a, b
<1>2. AutoItems \subseteq {a, b}
  BY DEF AutoItems, a, b
<1>3. IsFiniteSet({a, b})
  <2>1. IsFiniteSet({a} \union {b}) /\ {a, b} = {a} \union {b}
    BY FS_Singleton, FS_AddElement
  <2> QED BY <2>1
<1>4. IsFiniteSet(AutoItems)
  BY <1>2, <1>3, FS_Subset
<1> QED BY <1>1, <1>2, <1>4 DEF ItemsNumbered

\* There is an id left for a new item.
LEMMA NextNumIs ==
    ASSUME ItemsNumbered(items), Room
    PROVE  NextNum(items) \in Nat \ {0} /\ \A i \in items : i.num # NextNum(items)
<1> DEFINE f == [i \in items |-> i.num]
           N == {i.num : i \in items}
           All == 1 .. MaxItems + 1
<1>1. IsFiniteSet(N) /\ Cardinality(N) <= Cardinality(items)
  <2>1. f \in [items -> Nat] /\ IsFiniteSet(items)
    BY DEF ItemsNumbered, Items
  <2>2. IsFiniteSet({f[i] : i \in items}) /\ Cardinality({f[i] : i \in items}) <= Cardinality(items)
    <3> HIDE DEF f
    <3> QED BY <2>1, ImageFinite
  <2>3. {f[i] : i \in items} = N
    OBVIOUS
  <2> QED BY <2>2, <2>3
<1>2. IsFiniteSet(All) /\ Cardinality(All) = MaxItems + 1 /\ MaxItems \in Nat
  BY MeetingAgendaAssumption, FS_Interval
<1>3. Cardinality(items) \in Nat /\ Cardinality(N) \in Nat /\ Cardinality(items) < MaxItems
  BY <1>1, FS_CardinalityType DEF ItemsNumbered, Room
<1> HIDE DEF N, All
<1>4. All \ N # {}
  <2> SUFFICES ASSUME All \subseteq N PROVE FALSE
    OBVIOUS
  <2>1. Cardinality(All) <= Cardinality(N)
    BY <1>1, FS_Subset
  <2> QED BY <1>1, <1>2, <1>3, <2>1
<1>5. IsFiniteSet(All \ N)
  BY <1>2, FS_Difference
<1>6. All \ N \subseteq Int
  BY DEF All
<1>7. Min(All \ N) \in All \ N
  BY <1>4, <1>5, <1>6, FiniteMin
<1>8. NextNum(items) = Min(All \ N)
  BY DEF NextNum, All, N
<1>9. NextNum(items) \in 1 .. MaxItems + 1 /\ NextNum(items) \notin N
  BY <1>7, <1>8 DEF All
<1> QED BY <1>2, <1>9 DEF N

LEMMA OrderAfterIs ==
    ASSUME NEW I, IsFiniteSet(I), I \subseteq Items
    PROVE  OrderAfter(I) \in Nat \ {0}
<1> DEFINE f == [i \in I |-> i.order]
           N == {i.order : i \in I}
           T == {0} \union N
<1>1. f \in [I -> Nat] /\ N \subseteq Nat /\ N = {f[i] : i \in I}
  BY DEF Items
<1>2. IsFiniteSet(N)
  <2>1. IsFiniteSet({f[i] : i \in I})
    <3> HIDE DEF f, N
    <3>1. f \in [I -> Nat] /\ IsFiniteSet(I)
      BY <1>1
    <3> QED BY ONLY <3>1, ImageFinite
  <2> QED BY <1>1, <2>1
<1> HIDE DEF N
<1>3. IsFiniteSet(T)
  <2>1. IsFiniteSet(N \union {0}) /\ N \union {0} = T
    BY <1>2, FS_AddElement
  <2> QED BY <2>1
<1>4. T \subseteq Int /\ T \subseteq Nat /\ T # {}
  BY <1>1
<1>5. OrderAfter(I) = 1 + Max(T)
  BY DEF OrderAfter, N
<1> HIDE DEF T
<1>6. Max(T) \in T
  BY <1>3, <1>4, FiniteMax
<1>7. Max(T) \in Nat
  BY <1>4, <1>6
<1> QED BY <1>5, <1>7

LEMMA ItemAdded ==
    ASSUME ItemsNumbered(items), NEW i \in Items, \A j \in items : j.num # i.num
    PROVE  ItemsNumbered(items \union {i})
<1>1. IsFiniteSet(items \union {i})
  BY FS_AddElement DEF ItemsNumbered
<1> QED BY <1>1 DEF ItemsNumbered

-----------------------------------------------------------------------------
(* Steps on the agenda                                                     *)

LEMMA AddItemStep ==
    ASSUME AgendaInv, NEW all \in BOOLEAN, NEW h \in Headings \union {NoHeading}, NEW S \in SUBSET Notes,
           AddItem(all, h, S)
    PROVE  AgendaInv'
<1> DEFINE I == IF all THEN items ELSE Visible(items)
           n == NextNum(items)
           new == [NewItem(OrderAfter(I), "no") EXCEPT !.num = n, !.heading = h, !.summary = S]
<1>1. items' = items \union {new} /\ UNCHANGED <<discussions, over>>
  BY DEF AddItem
<1>2. n \in Nat \ {0} /\ \A i \in items : i.num # n
  BY NextNumIs DEF AddItem, AgendaInv
<1>3. OrderAfter(I) \in Nat \ {0}
  <2>1. I \in SUBSET items /\ items \subseteq Items /\ IsFiniteSet(items)
    BY DEF Visible, AgendaInv, ItemsNumbered
  <2> HIDE DEF I
  <2>2. IsFiniteSet(I) /\ I \subseteq Items
    BY <2>1, FS_Subset
  <2> QED BY <2>2, OrderAfterIs
<1> HIDE DEF n, I
<1>4. new \in Items /\ new.num = n /\ new.report = 0
  <2>1. NewItem(OrderAfter(I), "no") \in Items /\ NewItem(OrderAfter(I), "no").report = 0
    BY <1>3, NewItemTyped DEF Special
  <2> QED BY <1>2, <2>1 DEF Items
<1> HIDE DEF new
<1>5. ItemsNumbered(items')
  BY <1>1, <1>2, <1>4, ItemAdded DEF AgendaInv
<1> QED BY <1>1, <1>4, <1>5 DEF AgendaInv, DiscussionsOnAgenda

LEMMA AddAttendeesStep ==
    ASSUME AgendaInv, AddAttendees
    PROVE  AgendaInv'
<1> DEFINE n == NextNum(items)
           new == [NewItem(1, "attendees") EXCEPT !.num = n]
<1>1. items' = items \union {new} /\ UNCHANGED <<discussions, over>>
  BY DEF AddAttendees
<1>2. n \in Nat \ {0} /\ \A i \in items : i.num # n
  BY NextNumIs DEF AddAttendees, AgendaInv
<1> HIDE DEF n
<1>3. new \in Items /\ new.num = n /\ new.report = 0
  <2>1. NewItem(1, "attendees") \in Items /\ NewItem(1, "attendees").report = 0
    BY NewItemTyped DEF Special
  <2> QED BY <1>2, <2>1 DEF Items
<1> HIDE DEF new
<1>4. ItemsNumbered(items')
  BY <1>1, <1>2, <1>3, ItemAdded DEF AgendaInv
<1> QED BY <1>1, <1>3, <1>4 DEF AgendaInv, DiscussionsOnAgenda

\* Items that keep their ids and reports keep their discussions.
LEMMA ItemsEdited ==
    ASSUME AgendaInv, NEW f \in [items -> Items],
           \A i \in items : f[i].num = i.num /\ f[i].report = i.report,
           items' = {f[i] : i \in items}, UNCHANGED <<discussions, over>>
    PROVE  AgendaInv'
<1>1. IsFiniteSet(items')
  <2>1. IsFiniteSet(items)
    BY DEF AgendaInv, ItemsNumbered
  <2>2. /\ IsFiniteSet({f[x] : x \in items})
        /\ Cardinality({f[x] : x \in items}) <= Cardinality(items)
    BY <2>1, ImageFinite
  <2> QED BY <2>2
<1>2. ItemsNumbered(items')
  BY <1>1 DEF AgendaInv, ItemsNumbered
<1>3. DiscussionsOnAgenda'
  BY DEF AgendaInv, DiscussionsOnAgenda
<1> QED BY <1>2, <1>3 DEF AgendaInv

LEMMA EditItemStep ==
    ASSUME AgendaInv, NEW i \in items, NEW hide \in BOOLEAN, NEW S \in SUBSET Notes, EditItem(i, hide, S)
    PROVE  AgendaInv'
<1> DEFINE new == [i EXCEPT !.hidden = hide, !.discussion = S]
           f == [j \in items |-> IF j = i THEN new ELSE j]
<1>1. items' = (items \ {i}) \union {new} /\ UNCHANGED <<discussions, over>>
  BY DEF EditItem
<1>2. i \in Items /\ items \subseteq Items
  BY DEF AgendaInv, ItemsNumbered
<1>3. new \in Items /\ new.num = i.num /\ new.report = i.report
  BY <1>2 DEF Items
<1> HIDE DEF new
<1>4. f \in [items -> Items] /\ \A j \in items : f[j].num = j.num /\ f[j].report = j.report
  BY <1>2, <1>3
<1>5. items' = {f[j] : j \in items}
  BY <1>1
<1> HIDE DEF f
<1> QED BY <1>1, <1>4, <1>5, ItemsEdited

LEMMA ReorderStep ==
    ASSUME AgendaInv, NEW i \in items, NEW j \in items, Reorder(i, j)
    PROVE  AgendaInv'
<1> DEFINE i2 == [i EXCEPT !.order = j.order]
           j2 == [j EXCEPT !.order = i.order]
           f == [k \in items |-> IF k = i THEN i2 ELSE IF k = j THEN j2 ELSE k]
<1>1. items' = (items \ {i, j}) \union {i2, j2} /\ UNCHANGED <<discussions, over>>
  BY DEF Reorder
<1>2. i \in Items /\ j \in Items /\ items \subseteq Items /\ i # j
  BY DEF AgendaInv, ItemsNumbered, Reorder, Items
<1>3. /\ i2 \in Items /\ i2.num = i.num /\ i2.report = i.report
      /\ j2 \in Items /\ j2.num = j.num /\ j2.report = j.report
  BY <1>2 DEF Items
<1> HIDE DEF i2, j2
<1>4. f \in [items -> Items] /\ \A k \in items : f[k].num = k.num /\ f[k].report = k.report
  BY <1>2, <1>3
<1>5. items' = {f[k] : k \in items}
  <2>1. f[i] = i2 /\ f[j] = j2 /\ \A k \in items \ {i, j} : f[k] = k
    BY <1>2
  <2> HIDE DEF f
  <2> QED BY <1>1, <2>1
<1> HIDE DEF f
<1> QED BY <1>1, <1>4, <1>5, ItemsEdited

LEMMA DeleteItemStep ==
    ASSUME AgendaInv, NEW i \in items, DeleteItem(i)
    PROVE  AgendaInv'
<1>1. items' = items \ {i} /\ i.report = 0 /\ UNCHANGED <<discussions, over>>
  BY DEF DeleteItem, MayDelete
<1>2. IsFiniteSet(items')
  BY <1>1, FS_RemoveElement DEF AgendaInv, ItemsNumbered
<1>3. ItemsNumbered(items')
  BY <1>1, <1>2 DEF AgendaInv, ItemsNumbered
<1>4. \A d \in discussions : \E j \in items' : j.num = d.item /\ j.report = d.report
  <2> SUFFICES ASSUME NEW d \in discussions
               PROVE  \E j \in items' : j.num = d.item /\ j.report = d.report
    OBVIOUS
  <2>1. PICK j \in items : j.num = d.item /\ j.report = d.report
    BY DEF AgendaInv, DiscussionsOnAgenda
  <2>2. d.report # 0
    BY DEF AgendaInv, Discussions
  <2> QED BY <1>1, <2>1, <2>2
<1> QED BY <1>1, <1>3, <1>4 DEF AgendaInv, DiscussionsOnAgenda

LEMMA AddDiscussionStep ==
    ASSUME AgendaInv, ReportsInv, NEW s \in reports, NEW S \in SUBSET Notes, AddDiscussion(s, S)
    PROVE  AgendaInv'
<1> DEFINE n == NextNum(items)
           h == IF s.position = NoPosition THEN NoHeading ELSE HeadingOf[s.position]
           new == [NewItem(OrderAfter(items), "no")
                     EXCEPT !.num = n, !.report = s.num, !.heading = h, !.summary = S]
           d == [report |-> s.num, item |-> n]
<1>1. items' = items \union {new} /\ discussions' = discussions \union {d} /\ over' = over
  BY DEF AddDiscussion
<1>2. n \in Nat \ {0} /\ \A i \in items : i.num # n
  BY NextNumIs DEF AddDiscussion, AgendaInv
<1>3. s.num \in Nat \ {0} /\ h \in Headings \union {NoHeading}
  <2>1. s \in Reports
    BY DEF ReportsInv, Numbered
  <2> QED BY <2>1, MeetingAgendaAssumption DEF Reports
<1>4. OrderAfter(items) \in Nat \ {0}
  BY OrderAfterIs DEF AgendaInv, ItemsNumbered
<1>5. d \in Discussions /\ d.item = n /\ d.report = s.num
  BY <1>2, <1>3 DEF Discussions
<1> HIDE DEF n, h, d
<1>6. new \in Items /\ new.num = n /\ new.report = s.num
  <2>1. NewItem(OrderAfter(items), "no") \in Items
    BY <1>4, NewItemTyped DEF Special
  <2> QED BY <1>2, <1>3, <2>1 DEF Items
<1> HIDE DEF new
<1>7. ItemsNumbered(items')
  BY <1>1, <1>2, <1>6, ItemAdded DEF AgendaInv
<1>8. \A e \in discussions : e.item # n
  BY <1>2 DEF AgendaInv, DiscussionsOnAgenda
<1>9. DiscussionsOnAgenda'
  BY <1>1, <1>5, <1>6 DEF AgendaInv, DiscussionsOnAgenda
<1>10. discussions' \subseteq Discussions /\ \A e, g \in discussions' : e.item = g.item => e = g
  BY <1>1, <1>5, <1>8 DEF AgendaInv
<1> QED BY <1>1, <1>7, <1>9, <1>10 DEF AgendaInv

LEMMA DeleteDiscussionStep ==
    ASSUME AgendaInv, NEW d \in discussions, DeleteDiscussion(d)
    PROVE  AgendaInv'
<1>1. /\ discussions' = discussions \ {d} /\ over' = over
      /\ items' = {i \in items : i.num # d.item}
  BY DEF DeleteDiscussion
<1>2. ItemsNumbered(items')
  <2>1. IsFiniteSet(items) /\ items' \in SUBSET items
    BY <1>1 DEF AgendaInv, ItemsNumbered
  <2>2. IsFiniteSet(items')
    BY <2>1, FS_Subset
  <2> QED BY <2>1, <2>2 DEF AgendaInv, ItemsNumbered
<1>3. DiscussionsOnAgenda'
  BY <1>1 DEF AgendaInv, DiscussionsOnAgenda
<1> QED BY <1>1, <1>2, <1>3 DEF AgendaInv

-----------------------------------------------------------------------------
(* Renewal: the old items in their order get the next ids and orders       *)

\* The items of S before i
Before(S, i) == {j \in S : Precedes(j, i)}

\* What comes first has fewer before it.
LEMMA RanksGrow ==
    ASSUME NEW S, ItemsNumbered(S)
    PROVE  /\ \A i \in S : Cardinality(Before(S, i)) \in Nat
           /\ \A i, j \in S : Precedes(i, j) => Cardinality(Before(S, i)) < Cardinality(Before(S, j))
           /\ \A i, j \in S : i # j => Precedes(i, j) \/ Precedes(j, i)
<1>1. IsFiniteSet(S) /\ S \subseteq Items
  BY DEF ItemsNumbered
<1>2. \A i \in S : IsFiniteSet(Before(S, i)) /\ Cardinality(Before(S, i)) \in Nat
  <2> SUFFICES ASSUME NEW i \in S PROVE IsFiniteSet(Before(S, i)) /\ Cardinality(Before(S, i)) \in Nat
    OBVIOUS
  <2>1. Before(S, i) \in SUBSET S
    BY DEF Before
  <2> QED BY <1>1, <2>1, FS_Subset, FS_CardinalityType
<1>3. \A i, j \in S : i # j => Precedes(i, j) \/ Precedes(j, i)
  BY <1>1 DEF Precedes, ItemsNumbered, Items
<1>4. ASSUME NEW i \in S, NEW j \in S, Precedes(i, j)
      PROVE  Cardinality(Before(S, i)) < Cardinality(Before(S, j))
  <2>1. Before(S, i) \in SUBSET Before(S, j)
    <3> SUFFICES ASSUME NEW k \in S, Precedes(k, i) PROVE Precedes(k, j)
      BY DEF Before
    <3> QED BY <1>1, <1>4 DEF Precedes, Items
  <2>2. j \notin Before(S, i) /\ i \in Before(S, j) /\ i \notin Before(S, i)
    BY <1>1, <1>4 DEF Precedes, Items, Before
  <2>3. IsFiniteSet(Before(S, j))
    BY <1>2
  <2>4. Cardinality(Before(S, i)) \in Nat /\ Cardinality(Before(S, j)) \in Nat
    BY <1>2
  <2>5. Cardinality(Before(S, i)) <= Cardinality(Before(S, j))
        /\ Cardinality(Before(S, i)) # Cardinality(Before(S, j))
    BY <2>1, <2>2, <2>3, FS_Subset
  <2> QED BY <2>4, <2>5
<1> QED BY <1>2, <1>3, <1>4

LEMMA NewOrderIs ==
    ASSUME NEW I, ItemsNumbered(I)
    PROVE  /\ \A i \in OldItems(I) : NewOrder(I, i) \in Nat /\ NewOrder(I, i) >= 4
           /\ \A i, j \in OldItems(I) : Precedes(i, j) => NewOrder(I, i) < NewOrder(I, j)
           /\ \A i, j \in OldItems(I) : NewOrder(I, i) = NewOrder(I, j) => i = j
<1> DEFINE O == OldItems(I)
<1>1. ItemsNumbered(O)
  <2>1. O \in SUBSET I
    BY DEF OldItems
  <2>2. IsFiniteSet(O)
    BY <2>1, FS_Subset DEF ItemsNumbered
  <2> QED BY <2>1, <2>2 DEF ItemsNumbered
<1>2. \A i \in O : NewOrder(I, i) = 4 + Cardinality(Before(O, i))
  BY DEF NewOrder, Before
<1> HIDE DEF O
<1>3. /\ \A i \in O : Cardinality(Before(O, i)) \in Nat
      /\ \A i, j \in O : Precedes(i, j) => Cardinality(Before(O, i)) < Cardinality(Before(O, j))
      /\ \A i, j \in O : i # j => Precedes(i, j) \/ Precedes(j, i)
  BY <1>1, RanksGrow
<1>4. \A i \in O : NewOrder(I, i) \in Nat /\ NewOrder(I, i) >= 4
  BY <1>2, <1>3
<1>5. \A i, j \in O : Precedes(i, j) => NewOrder(I, i) < NewOrder(I, j)
  BY <1>2, <1>3
<1>6. \A i, j \in O : NewOrder(I, i) = NewOrder(I, j) => i = j
  <2> SUFFICES ASSUME NEW i \in O, NEW j \in O, NewOrder(I, i) = NewOrder(I, j), i # j PROVE FALSE
    OBVIOUS
  <2>1. NewOrder(I, i) \in Nat /\ NewOrder(I, j) \in Nat
    BY <1>4
  <2>2. NewOrder(I, i) < NewOrder(I, j) \/ NewOrder(I, j) < NewOrder(I, i)
    BY <1>3, <1>5
  <2> QED BY <2>1, <2>2
<1> QED BY <1>4, <1>5, <1>6 DEF O

\* An item of the new agenda for each item of the old that was not skipped, with its summary (a)
\* and what was discussed (b); none without the two options.
MadeFrom(I, made, a, b) ==
    /\ DOMAIN made = IF a \/ b THEN OldItems(I) ELSE {}
    /\ \A i \in DOMAIN made :
         /\ made[i] \in Items /\ made[i].report = 0
         /\ made[i].num = NewOrder(I, i) /\ made[i].order = NewOrder(I, i)
         /\ made[i].summary = (IF a THEN i.summary ELSE {}) \union (IF b THEN i.discussion ELSE {})

LEMMA MadeIs ==
    ASSUME ItemsNumbered(items), NEW a \in BOOLEAN, NEW b \in BOOLEAN
    PROVE  \E made : /\ MadeFrom(items, made, a, b)
                     /\ Renewed(items, a, b) = AutoItems \union {made[i] : i \in DOMAIN made}
<1> DEFINE O == OldItems(items)
           first == Copied(IF a THEN items ELSE {})
           second == WithDiscussion(items, first)
           made == IF b THEN second ELSE first
           fresh(i) == NewItem(NewOrder(items, i), "no")
<1>1. /\ O \subseteq items /\ items \subseteq Items
      /\ \A i \in O : /\ fresh(i) \in Items /\ fresh(i).report = 0 /\ fresh(i).summary = {}
                      /\ fresh(i).num = NewOrder(items, i) /\ fresh(i).order = NewOrder(items, i)
  <2>1. \A i \in O : NewOrder(items, i) \in Nat \ {0}
    BY NewOrderIs
  <2>2. \A i \in O : fresh(i).summary = {}
    BY DEF NewItem
  <2>3. O \subseteq items /\ items \subseteq Items /\ "no" \in Special
    BY DEF OldItems, ItemsNumbered, Special
  <2>4. ASSUME NEW i \in O
        PROVE  /\ fresh(i) \in Items /\ fresh(i).report = 0
               /\ fresh(i).num = NewOrder(items, i) /\ fresh(i).order = NewOrder(items, i)
    <3>1. NewOrder(items, i) \in Nat \ {0} /\ "no" \in Special
      BY <2>1, <2>3
    <3> QED BY ONLY <3>1, NewItemTyped
  <2> HIDE DEF fresh, O
  <2> QED BY <2>2, <2>3, <2>4
<1>2. MadeFrom(items, first, a, FALSE)
  <2>1. CASE a
    <3>1. first = [i \in O |-> [fresh(i) EXCEPT !.summary = i.summary]]
      BY <2>1 DEF Copied
    <3>2. \A i \in O : i.summary \in SUBSET Notes
      BY <1>1 DEF Items
    <3> HIDE DEF fresh, first, O
    <3>3. \A i \in O : /\ first[i] \in Items /\ first[i].report = fresh(i).report
                       /\ first[i].num = fresh(i).num /\ first[i].order = fresh(i).order
                       /\ first[i].summary = i.summary
      <4> SUFFICES ASSUME NEW i \in O
                   PROVE  /\ first[i] \in Items /\ first[i].report = fresh(i).report
                          /\ first[i].num = fresh(i).num /\ first[i].order = fresh(i).order
                          /\ first[i].summary = i.summary
        OBVIOUS
      <4>1. first[i] = [fresh(i) EXCEPT !.summary = i.summary]
        BY <3>1
      <4>2. fresh(i) \in Items /\ i.summary \in SUBSET Notes
        BY <1>1, <3>2
      <4> QED BY ONLY <4>1, <4>2 DEF Items
    <3>4. DOMAIN first = O
      BY <3>1
    <3> QED BY <1>1, <2>1, <3>3, <3>4 DEF MadeFrom, O
  <2>2. CASE ~ a
    BY <2>2 DEF MadeFrom, Copied, OldItems
  <2> QED BY <2>1, <2>2
<1> HIDE DEF first
<1>3. MadeFrom(items, second, a, TRUE)
  <2> DEFINE target(i) == IF i \in DOMAIN first THEN first[i] ELSE fresh(i)
             kept(i) == IF a THEN i.summary ELSE {}
  <2>1. \A i \in O : /\ target(i) \in Items /\ target(i).report = 0 /\ target(i).summary = kept(i)
                     /\ target(i).num = NewOrder(items, i) /\ target(i).order = NewOrder(items, i)
    <3> HIDE DEF fresh
    <3> QED BY <1>1, <1>2 DEF MadeFrom
  <2>2. second = [i \in O |-> [target(i) EXCEPT !.summary = @ \union i.discussion]]
    BY DEF WithDiscussion
  <2>3. \A i \in O : i.discussion \in SUBSET Notes
    BY <1>1 DEF Items
  <2> HIDE DEF target, second, O
  <2>4. \A i \in O : /\ second[i] \in Items /\ second[i].report = target(i).report
                     /\ second[i].num = target(i).num /\ second[i].order = target(i).order
                     /\ second[i].summary = target(i).summary \union i.discussion
    <3> SUFFICES ASSUME NEW i \in O
                 PROVE  /\ second[i] \in Items /\ second[i].report = target(i).report
                        /\ second[i].num = target(i).num /\ second[i].order = target(i).order
                        /\ second[i].summary = target(i).summary \union i.discussion
      OBVIOUS
    <3>1. target(i) \in Items /\ target(i).summary \union i.discussion \in SUBSET Notes
      BY <2>1, <2>3 DEF Items
    <3>2. second[i] = [target(i) EXCEPT !.summary = @ \union i.discussion]
      BY <2>2
    <3> QED BY <3>1, <3>2 DEF Items
  <2>5. DOMAIN second = O
    BY <2>2
  <2> HIDE DEF kept
  <2>6. \A i \in O : /\ second[i] \in Items /\ second[i].report = 0
                     /\ second[i].num = NewOrder(items, i) /\ second[i].order = NewOrder(items, i)
                     /\ second[i].summary = kept(i) \union i.discussion
    BY <2>1, <2>4
  <2> QED BY <2>5, <2>6 DEF MadeFrom, O, kept
<1>4. MadeFrom(items, made, a, b)
  <2>1. CASE b
    <3>1. b = TRUE /\ made = second
      BY <2>1
    <3> QED BY <1>3, <3>1
  <2>2. CASE ~ b
    <3>1. b = FALSE /\ made = first
      BY <2>2
    <3> QED BY <1>2, <3>1
  <2> QED BY <2>1, <2>2
<1>5. Renewed(items, a, b) = AutoItems \union {made[i] : i \in DOMAIN made}
  BY DEF Renewed, Range, first
<1> QED BY <1>4, <1>5

LEMMA RenewedIs ==
    ASSUME ItemsNumbered(items), NEW a \in BOOLEAN, NEW b \in BOOLEAN
    PROVE  /\ ItemsNumbered(Renewed(items, a, b))
           /\ \A i \in Renewed(items, a, b) : i.report = 0
<1>1. items \subseteq Items /\ OldItems(items) \subseteq items
  BY DEF ItemsNumbered, OldItems
<1>2. PICK made : /\ MadeFrom(items, made, a, b)
                  /\ Renewed(items, a, b) = AutoItems \union {made[i] : i \in DOMAIN made}
  BY MadeIs
<1>3. DOMAIN made \subseteq OldItems(items)
  BY <1>2 DEF MadeFrom
<1> DEFINE M == {made[i] : i \in DOMAIN made}
<1>6. IsFiniteSet(M)
  <2>1. DOMAIN made \in SUBSET items /\ IsFiniteSet(items)
    BY <1>1, <1>3 DEF ItemsNumbered
  <2>2. IsFiniteSet(DOMAIN made)
    BY <2>1, FS_Subset
  <2> DEFINE f == [i \in DOMAIN made |-> made[i]]
  <2>3. f \in [DOMAIN made -> Items]
    BY <1>2 DEF MadeFrom
  <2>4. IsFiniteSet({f[i] : i \in DOMAIN made})
    <3> HIDE DEF f
    <3> QED BY <2>2, <2>3, ImageFinite
  <2> QED BY <2>4
<1>7. \A i \in M : i \in Items /\ i.num >= 4 /\ i.report = 0
  <2>1. \A i \in DOMAIN made : NewOrder(items, i) >= 4
    BY <1>3, NewOrderIs
  <2> QED BY <1>2, <2>1 DEF MadeFrom
<1>8. \A i, j \in M : i.num = j.num => i = j
  <2> SUFFICES ASSUME NEW i \in DOMAIN made, NEW j \in DOMAIN made, made[i].num = made[j].num
               PROVE  i = j
    OBVIOUS
  <2>1. NewOrder(items, i) = NewOrder(items, j)
    BY <1>2 DEF MadeFrom
  <2> QED BY <1>3, <2>1, NewOrderIs
<1> HIDE DEF M
<1>9. IsFiniteSet(AutoItems \union M)
  BY <1>6, AutoItemsAre, FS_Union DEF ItemsNumbered
<1>10. ItemsNumbered(AutoItems \union M)
  <2>1. \A i \in AutoItems, j \in M : i.num # j.num
    BY <1>7, AutoItemsAre DEF Items
  <2> QED BY <1>7, <1>8, <1>9, <2>1, AutoItemsAre DEF ItemsNumbered
<1> QED BY <1>2, <1>7, <1>10, AutoItemsAre DEF M

LEMMA RenewMeetingStep ==
    ASSUME AgendaInv, NEW a \in BOOLEAN, NEW b \in BOOLEAN, RenewMeeting(a, b)
    PROVE  AgendaInv'
BY RenewedIs DEF RenewMeeting, AgendaInv, DiscussionsOnAgenda

-----------------------------------------------------------------------------
MeetingInv == ReportsInv /\ AgendaInv

LEMMA MeetingStarts == StatusReportsInit /\ AgendaInit => MeetingInv
<1> SUFFICES ASSUME StatusReportsInit, AgendaInit PROVE MeetingInv
  OBVIOUS
<1>1. Numbered({}) /\ RowsInPlace({}, {})
  BY FS_EmptySet DEF Numbered, RowsInPlace
<1>2. OpeningInv
  BY DEF StatusReportsInit, OpeningInv
<1>3. ReportsInv
  BY <1>1, <1>2 DEF StatusReportsInit, ReportsInv
<1>4. AgendaInv
  BY AutoItemsAre DEF AgendaInit, AgendaInv, DiscussionsOnAgenda
<1> QED BY <1>3, <1>4 DEF MeetingInv

LEMMA AgendaNextStep ==
    ASSUME MeetingInv, AgendaNext
    PROVE  MeetingInv'
<1> USE DEF MeetingInv
<1>1. ASSUME NEW all \in BOOLEAN, NEW h \in Headings \union {NoHeading}, NEW S \in SUBSET Notes,
             AddItem(all, h, S)
      PROVE  AgendaInv'
  BY <1>1, AddItemStep
<1>2. ASSUME AddAttendees PROVE AgendaInv'
  BY <1>2, AddAttendeesStep
<1>3. ASSUME NEW i \in items, NEW hide \in BOOLEAN, NEW S \in SUBSET Notes, EditItem(i, hide, S)
      PROVE  AgendaInv'
  BY <1>3, EditItemStep
<1>4. ASSUME NEW i \in items, DeleteItem(i) PROVE AgendaInv'
  BY <1>4, DeleteItemStep
<1>5. ASSUME NEW i \in items, NEW j \in items, Reorder(i, j) PROVE AgendaInv'
  BY <1>5, ReorderStep
<1>6. ASSUME NEW s \in reports, NEW S \in SUBSET Notes, AddDiscussion(s, S) PROVE AgendaInv'
  BY <1>6, AddDiscussionStep
<1>7. ASSUME NEW d \in discussions, DeleteDiscussion(d) PROVE AgendaInv'
  BY <1>7, DeleteDiscussionStep
<1>8. ASSUME MeetingDayPasses PROVE AgendaInv'
  BY <1>8 DEF MeetingDayPasses, AgendaInv, DiscussionsOnAgenda
<1>9. ASSUME NEW a \in BOOLEAN, NEW b \in BOOLEAN, RenewMeeting(a, b) PROVE MeetingInv'
  BY <1>9, RenewMeetingStep, NextMeetingStep
<1>10. ReportsInv /\ UNCHANGED reportVars => ReportsInv'
  BY DEF reportVars, ReportsInv, OpeningInv
<1>11. CASE UNCHANGED reportVars
  BY <1>1, <1>2, <1>3, <1>4, <1>5, <1>6, <1>7, <1>8, <1>9, <1>10, <1>11 DEF AgendaNext
<1>12. CASE \E a, b \in BOOLEAN : RenewMeeting(a, b)
  BY <1>9, <1>12
<1> QED
  BY <1>11, <1>12 DEF AgendaNext, AddItem, AddAttendees, EditItem, DeleteItem, Reorder, AddDiscussion,
                      DeleteDiscussion, MeetingDayPasses

(* Reports and rows, the opens in flight and the agenda are in order at    *)
(* every step of a meeting and of those renewed from it.                   *)
THEOREM MeetingInvariant == MeetingSpec => []MeetingInv
<1>1. MeetingInv /\ [(StatusReportsNext /\ UNCHANGED agendaVars) \/ AgendaNext]_<<reportVars, agendaVars>>
        => MeetingInv'
  <2> SUFFICES ASSUME MeetingInv,
                      [(StatusReportsNext /\ UNCHANGED agendaVars) \/ AgendaNext]_<<reportVars, agendaVars>>
               PROVE  MeetingInv'
    OBVIOUS
  <2>1. CASE StatusReportsNext /\ UNCHANGED agendaVars
    <3>1. ReportsInv'
      BY <2>1, ReportsNextStep DEF MeetingInv
    <3>2. AgendaInv'
      BY <2>1 DEF agendaVars, MeetingInv, AgendaInv, DiscussionsOnAgenda
    <3> QED BY <3>1, <3>2 DEF MeetingInv
  <2>2. CASE AgendaNext
    BY <2>2, AgendaNextStep
  <2>3. CASE UNCHANGED <<reportVars, agendaVars>>
    BY <2>3 DEF reportVars, agendaVars, MeetingInv, ReportsInv, OpeningInv, AgendaInv, DiscussionsOnAgenda
  <2> QED BY <2>1, <2>2, <2>3
<1> QED BY MeetingStarts, <1>1, PTL DEF MeetingSpec

\* What RenewalCarries says of the agenda that is made from the old one.
CarriedTo(old, new, all, a, b) ==
    /\ IF a \/ b
       THEN \E f \in [old -> new] :
              /\ \A n \in new : \E i \in old : n = f[i]
              /\ \A i, j \in old : Precedes(i, j) => f[i].order < f[j].order
              /\ \A i \in old :
                   f[i].summary = (IF a THEN i.summary ELSE {}) \union (IF b THEN i.discussion ELSE {})
       ELSE new = {}
    /\ all \ new = AutoItems
    /\ \A i, j \in all : i.order = j.order => i = j
    /\ \A i \in all : i.report = 0

LEMMA RenewedCarries ==
    ASSUME ItemsNumbered(items), NEW a \in BOOLEAN, NEW b \in BOOLEAN
    PROVE  LET all == Renewed(items, a, b)
           IN CarriedTo({i \in items : i.report = 0 /\ i.special = "no"}, {i \in all : i.order > 3}, all, a, b)
<1> DEFINE all == Renewed(items, a, b)
           old == {i \in items : i.report = 0 /\ i.special = "no"}
           new == {i \in all : i.order > 3}
<1>1. PICK made : /\ MadeFrom(items, made, a, b)
                  /\ all = AutoItems \union {made[i] : i \in DOMAIN made}
  BY MadeIs
<1> DEFINE M == {made[i] : i \in DOMAIN made}
<1>2. old = OldItems(items)
  BY DEF OldItems, Skipped
<1>3. /\ \A i \in DOMAIN made : i \in old /\ made[i].order = NewOrder(items, i)
      /\ \A i \in old : NewOrder(items, i) \in Nat /\ NewOrder(items, i) >= 4
      /\ \A i, j \in old : Precedes(i, j) => NewOrder(items, i) < NewOrder(items, j)
      /\ \A i, j \in old : NewOrder(items, i) = NewOrder(items, j) => i = j
  BY <1>1, <1>2, NewOrderIs DEF MadeFrom
<1>4. \A i \in M : i.order \in Nat /\ i.order >= 4
  BY <1>3
<1>5. \A i \in AutoItems : i.order \in {2, 3}
  BY AutoItemsAre
<1> HIDE DEF all
<1>6. new = M /\ all \ new = AutoItems
  <2>1. \A i \in all : i.order > 3 <=> i \in M
    <3> SUFFICES ASSUME NEW i \in AutoItems \union M PROVE i.order > 3 <=> i \in M
      BY <1>1
    <3>1. CASE i \in AutoItems
      <4>1. ~ (i.order > 3) /\ ~ (i.order >= 4)
        BY <1>5, <3>1
      <4> HIDE DEF M
      <4> QED BY <1>4, <4>1
    <3>2. CASE i \in M
      <4> HIDE DEF M
      <4> QED BY <1>4, <3>2
    <3> QED BY <3>1, <3>2
  <2>2. \A i \in AutoItems : i \notin M
    <3> HIDE DEF M
    <3> QED BY <1>4, <1>5
  <2> HIDE DEF M
  <2> QED BY <1>1, <2>1, <2>2 DEF M
<1>7. \A i, j \in all : i.order = j.order => i = j
  <2>1. \A i, j \in M : i.order = j.order => i = j
    BY <1>3
  <2>2. \A i, j \in AutoItems : i.order = j.order => i = j
    BY AutoItemsAre DEF ItemsNumbered
  <2>3. \A i \in AutoItems, j \in M : i.order # j.order
    <3> HIDE DEF M
    <3> QED BY <1>4, <1>5
  <2>4. all = AutoItems \union M
    BY <1>1
  <2> HIDE DEF M
  <2> QED BY <2>1, <2>2, <2>3, <2>4
<1>8. \A i \in all : i.report = 0
  BY RenewedIs DEF all
<1>9. CASE a \/ b
  <2>1. DOMAIN made = old
    BY <1>1, <1>2, <1>9 DEF MadeFrom
  <2> DEFINE f == [i \in old |-> made[i]]
  <2>2. f \in [old -> new]
    BY <1>6, <2>1
  <2>3. \A n \in new : \E i \in old : n = f[i]
    BY <1>6, <2>1
  <2>4. \A i, j \in old : Precedes(i, j) => f[i].order < f[j].order
    BY <1>3, <2>1
  <2>5. \A i \in old :
          f[i].summary = (IF a THEN i.summary ELSE {}) \union (IF b THEN i.discussion ELSE {})
    BY <1>1, <2>1 DEF MadeFrom
  <2> HIDE DEF f, new, old
  <2>6. CarriedTo(old, new, all, a, b)
    BY <1>6, <1>7, <1>8, <1>9, <2>2, <2>3, <2>4, <2>5 DEF CarriedTo
  <2> QED BY <2>6 DEF old, new, all
<1>10. CASE ~ (a \/ b)
  <2>1. new = {}
    BY <1>1, <1>6, <1>10 DEF MadeFrom
  <2> HIDE DEF new, old
  <2>2. CarriedTo(old, new, all, a, b)
    BY <1>6, <1>7, <1>8, <1>10, <2>1 DEF CarriedTo
  <2> QED BY <2>2 DEF old, new, all
<1> QED BY <1>9, <1>10

(* A renewal with any options, of any agenda a meeting can have: one item  *)
(* for each ordinary item, in the old order, with what was to be copied.   *)
THEOREM RenewalAlwaysCarries == MeetingSpec => RenewalCarries
<1>1. MeetingInv => RenewedWell
  <2> SUFFICES ASSUME MeetingInv, NEW a \in BOOLEAN, NEW b \in BOOLEAN, RenewMeeting(a, b)
               PROVE  /\ Carries(a, b)
                      /\ \A i, j \in items' : i.order = j.order => i = j
                      /\ \A i \in items' : i.report = 0
    BY DEF RenewedWell
  <2>1. ItemsNumbered(items) /\ items' = Renewed(items, a, b)
    BY DEF MeetingInv, AgendaInv, RenewMeeting
  <2>2. CarriedTo({i \in items : i.report = 0 /\ i.special = "no"}, {i \in items' : i.order > 3},
                  items', a, b)
    BY <2>1, RenewedCarries
  <2> QED BY <2>2 DEF CarriedTo, Carries
<1> QED BY <1>1, MeetingInvariant, PTL DEF RenewalCarries

-----------------------------------------------------------------------------
(* The minutes: what comes after all items so far extends the groups       *)

MinuteGroup == [heading : Headings \union {NoHeading}, items : Seq(Items)]
MinuteGroups == Seq(MinuteGroup)

\* What MinutesFollowAgenda says of the groups G of the items I.
MinutesOf(G, I) ==
    /\ G \in MinuteGroups
    /\ {ItemAt(G, p) : p \in Places(G)} = I
    /\ \A p, q \in Places(G) : Above(p, q) => Precedes(ItemAt(G, p), ItemAt(G, q))
    /\ \A p \in Places(G) : ItemAt(G, p).heading = G[p[1]].heading
    /\ \A g \in DOMAIN G :
         IF G[g].heading = NoHeading THEN Len(G[g].items) = 1
         ELSE g < Len(G) => G[g].heading # G[g + 1].heading

LEMMA PlacesAre ==
    ASSUME NEW G \in MinuteGroups
    PROVE  /\ \A p \in Places(G) : /\ p = <<p[1], p[2]>> /\ p[1] \in 1 .. Len(G)
                                   /\ p[2] \in 1 .. Len(G[p[1]].items)
           /\ \A g \in 1 .. Len(G), k \in Nat \ {0} : k <= Len(G[g].items) => <<g, k>> \in Places(G)
           /\ \A g \in 1 .. Len(G) : G[g].items \in Seq(Items) /\ Len(G[g].items) \in Nat
<1>1. \A g \in 1 .. Len(G) : G[g].items \in Seq(Items) /\ Len(G[g].items) \in Nat
                             /\ DOMAIN G[g].items = 1 .. Len(G[g].items)
  <2>1. \A g \in 1 .. Len(G) : G[g] \in MinuteGroup
    BY DEF MinuteGroups
  <2>2. \A g \in 1 .. Len(G) : G[g].items \in Seq(Items)
    BY <2>1 DEF MinuteGroup
  <2> QED BY <2>2
<1>2. DOMAIN G = 1 .. Len(G)
  BY DEF MinuteGroups
<1> QED BY <1>1, <1>2 DEF Places

\* An item more, at the end.
LEMMA OneMore ==
    ASSUME NEW G, NEW I, MinutesOf(G, I), NEW E \in MinuteGroups, NEW i,
           NEW g \in Nat, NEW k \in Nat,
           Places(E) = Places(G) \union {<<g, k>>},
           \A p \in Places(G) : ItemAt(E, p) = ItemAt(G, p) /\ E[p[1]].heading = G[p[1]].heading,
           \A p \in Places(G) : Above(p, <<g, k>>) /\ ~ Above(<<g, k>>, p),
           ItemAt(E, <<g, k>>) = i, i.heading = E[g].heading, \A j \in I : Precedes(j, i),
           \A h \in DOMAIN E :
             IF E[h].heading = NoHeading THEN Len(E[h].items) = 1
             ELSE h < Len(E) => E[h].heading # E[h + 1].heading
    PROVE  MinutesOf(E, I \union {i})
<1> DEFINE new == <<g, k>>
<1>1. new[1] = g /\ new[2] = k /\ ~ Above(new, new)
  BY DEF Above
<1> HIDE DEF new
<1>2. /\ Places(E) = Places(G) \union {new} /\ ItemAt(E, new) = i
      /\ \A p \in Places(G) : Above(p, new) /\ ~ Above(new, p)
  BY DEF new
<1>3. {ItemAt(E, p) : p \in Places(E)} = I \union {i}
  BY <1>2 DEF MinutesOf
<1>4. \A p, q \in Places(E) : Above(p, q) => Precedes(ItemAt(E, p), ItemAt(E, q))
  <2> SUFFICES ASSUME NEW p \in Places(E), NEW q \in Places(E), Above(p, q)
               PROVE  Precedes(ItemAt(E, p), ItemAt(E, q))
    OBVIOUS
  <2>1. p \in Places(G)
    BY <1>1, <1>2
  <2>2. ItemAt(E, p) = ItemAt(G, p) /\ ItemAt(G, p) \in I
    BY <2>1 DEF MinutesOf
  <2>3. CASE q \in Places(G)
    BY <2>1, <2>3 DEF MinutesOf
  <2>4. CASE q = new
    BY <1>2, <2>2, <2>4
  <2> QED BY <1>2, <2>3, <2>4
<1>5. \A p \in Places(E) : ItemAt(E, p).heading = E[p[1]].heading
  BY <1>1, <1>2 DEF MinutesOf
<1> QED BY <1>3, <1>4, <1>5 DEF MinutesOf

LEMMA ExtendedIs ==
    ASSUME NEW G, NEW I, MinutesOf(G, I), NEW i \in Items, \A j \in I : Precedes(j, i)
    PROVE  MinutesOf(Extended(G, i), I \union {i})
<1> DEFINE n == Len(G)
           E == Extended(G, i)
<1>1. /\ n \in Nat /\ G \in MinuteGroups /\ DOMAIN G = 1 .. n
      /\ i.heading \in Headings \union {NoHeading}
  BY DEF MinutesOf, MinuteGroups, Items
<1>2. CASE i.heading # NoHeading /\ n # 0 /\ G[n].heading = i.heading
  <2> DEFINE m == Len(G[n].items)
             more == Append(G[n].items, i)
             last == [G[n] EXCEPT !.items = more]
  <2>1. n \in 1 .. n /\ G[n] \in MinuteGroup /\ G[n].items \in Seq(Items)
    <3>1. n \in 1 .. n
      <4> HIDE DEF n
      <4> QED BY <1>1, <1>2
    <3>2. G[n] \in MinuteGroup
      BY <1>1, <3>1 DEF MinuteGroups
    <3> QED BY <3>1, <3>2 DEF MinuteGroup
  <2>2. E = [G EXCEPT ![n] = last]
    <3>1. LastGroupWith(G, i.heading) = {n}
      BY <1>1, <1>2, <2>1 DEF LastGroupWith
    <3>2. Max({n}) = n
      <4> HIDE DEF n
      <4>1. n \in {n} /\ {n} \subseteq Int /\ \A x \in {n} : n >= x
        BY <1>1
      <4> QED BY <4>1, MaxIs
    <3> QED BY <1>2, <3>1, <3>2 DEF Extended
  <2>3. /\ more \in Seq(Items) /\ m \in Nat /\ Len(more) = m + 1 /\ more[m + 1] = i
        /\ \A k \in 1 .. m : more[k] = G[n].items[k]
    BY <2>1
  <2> HIDE DEF more, m
  <2>4. /\ last \in MinuteGroup
        /\ last.heading = i.heading /\ last.items = more
    BY <1>2, <2>1, <2>3 DEF MinuteGroup
  <2> HIDE DEF last, E
  <2>5. E \in MinuteGroups /\ Len(E) = n /\ E[n] = last /\ \A g \in 1 .. n : g # n => E[g] = G[g]
    <3>1. DOMAIN E = 1 .. n
      BY <1>1, <2>2
    <3>2. \A g \in 1 .. n : G[g] \in MinuteGroup
      BY <1>1 DEF MinuteGroups
    <3> HIDE DEF n
    <3>3. E = [g \in 1 .. n |-> IF g = n THEN last ELSE G[g]]
      BY <1>1, <2>1, <2>2
    <3>4. E \in [1 .. n -> MinuteGroup]
      BY <2>4, <3>2, <3>3
    <3>5. E \in Seq(MinuteGroup) /\ Len(E) = n
      BY <1>1, <3>4
    <3> QED BY <2>1, <3>3, <3>5 DEF MinuteGroups
  <2>6. \A g \in 1 .. n : E[g].heading = G[g].heading
    BY <1>2, <2>4, <2>5
  <2>7. Places(E) = Places(G) \union {<<n, m + 1>>}
    <3>1. ASSUME NEW p \in Places(E) PROVE p \in Places(G) \union {<<n, m + 1>>}
      <4>1. p = <<p[1], p[2]>> /\ p[1] \in 1 .. n /\ p[2] \in 1 .. Len(E[p[1]].items)
        BY <2>5, PlacesAre
      <4>2. CASE p[1] # n
        BY <1>1, <2>5, <4>1, <4>2, PlacesAre
      <4>3. CASE p[1] = n
        <5>1. p[2] \in 1 .. m + 1
          BY <2>3, <2>4, <2>5, <4>1, <4>3
        <5>2. CASE p[2] = m + 1
          BY <4>1, <4>3, <5>2
        <5>3. CASE p[2] # m + 1
          <6>1. p[2] \in Nat \ {0} /\ p[2] <= m
            BY <2>3, <5>1, <5>3
          <6> QED BY <1>1, <2>1, <4>1, <4>3, <6>1, PlacesAre DEF m
        <5> QED BY <5>2, <5>3
      <4> QED BY <4>2, <4>3
    <3>2. ASSUME NEW p \in Places(G) PROVE p \in Places(E)
      <4>1. p = <<p[1], p[2]>> /\ p[1] \in 1 .. n /\ p[2] \in 1 .. Len(G[p[1]].items)
        BY <1>1, PlacesAre
      <4>2. Len(G[p[1]].items) \in Nat /\ Len(E[p[1]].items) \in Nat
            /\ Len(G[p[1]].items) <= Len(E[p[1]].items)
        BY <1>1, <2>3, <2>4, <2>5, <4>1, PlacesAre DEF m
      <4>3. p[2] \in Nat \ {0} /\ p[2] <= Len(E[p[1]].items)
        BY <4>1, <4>2
      <4> QED BY <2>5, <4>1, <4>3, PlacesAre
    <3>3. <<n, m + 1>> \in Places(E)
      BY <2>1, <2>3, <2>4, <2>5, PlacesAre
    <3> QED BY <3>1, <3>2, <3>3
  <2>8. \A p \in Places(G) : ItemAt(E, p) = ItemAt(G, p) /\ E[p[1]].heading = G[p[1]].heading
    <3> SUFFICES ASSUME NEW p \in Places(G)
                 PROVE  ItemAt(E, p) = ItemAt(G, p) /\ E[p[1]].heading = G[p[1]].heading
      OBVIOUS
    <3>1. p[1] \in 1 .. n /\ p[2] \in 1 .. Len(G[p[1]].items)
      BY <1>1, PlacesAre
    <3>2. E[p[1]].items[p[2]] = G[p[1]].items[p[2]]
      <4>1. CASE p[1] = n
        BY <2>3, <2>4, <2>5, <3>1, <4>1 DEF m
      <4>2. CASE p[1] # n
        BY <2>5, <3>1, <4>2
      <4> QED BY <4>1, <4>2
    <3> QED BY <2>6, <3>1, <3>2 DEF ItemAt
  <2>9. \A p \in Places(G) : Above(p, <<n, m + 1>>) /\ ~ Above(<<n, m + 1>>, p)
    <3> SUFFICES ASSUME NEW p \in Places(G)
                 PROVE  Above(p, <<n, m + 1>>) /\ ~ Above(<<n, m + 1>>, p)
      OBVIOUS
    <3>1. p[1] \in 1 .. n /\ p[2] \in 1 .. Len(G[p[1]].items)
      BY <1>1, PlacesAre
    <3>2. p[1] \in Nat /\ p[1] <= n /\ p[2] \in Nat /\ (p[1] = n => p[2] <= m)
      <4>1. p[1] = n => p[2] <= m
        BY <2>3, <3>1 DEF m
      <4>2. p[1] \in Nat /\ p[1] <= n
        BY <1>1, <3>1
      <4>3. p[2] \in Nat
        BY <1>1, <3>1, PlacesAre
      <4> QED BY <4>1, <4>2, <4>3
    <3> DEFINE a == p[1]
               b == p[2]
               q == <<n, m + 1>>
    <3>3. q[1] = n /\ q[2] = m + 1
      OBVIOUS
    <3>4. /\ a < q[1] \/ (a = q[1] /\ b < q[2])
          /\ ~ (q[1] < a \/ (q[1] = a /\ q[2] < b))
      <4>1. a \in Nat /\ a <= n /\ b \in Nat /\ (a = n => b <= m) /\ n \in Nat /\ m \in Nat
        BY <1>1, <2>3, <3>2
      <4> HIDE DEF a, b, q, n, m
      <4> QED BY <3>3, <4>1
    <3> QED BY <3>4 DEF Above
  <2>10. ItemAt(E, <<n, m + 1>>) = i /\ i.heading = E[n].heading
    BY <2>3, <2>4, <2>5 DEF ItemAt
  <2>11. \A h \in DOMAIN E :
           IF E[h].heading = NoHeading THEN Len(E[h].items) = 1
           ELSE h < Len(E) => E[h].heading # E[h + 1].heading
    <3>1. DOMAIN E = 1 .. n
      BY <2>5 DEF MinuteGroups
    <3> SUFFICES ASSUME NEW h \in 1 .. n
                 PROVE  IF E[h].heading = NoHeading THEN Len(E[h].items) = 1
                        ELSE h < n => E[h].heading # E[h + 1].heading
      BY <2>5, <3>1
    <3>2. CASE h = n
      <4>1. E[n].heading # NoHeading
        BY <1>2, <2>10
      <4> QED BY <1>1, <3>2, <4>1
    <3>3. CASE h # n
      <4>1. h + 1 \in 1 .. n /\ h \in DOMAIN G /\ h < n
        <5>1. h \in DOMAIN G
          BY <1>1
        <5> HIDE DEF n
        <5> QED BY <1>1, <3>3, <5>1
      <4>2. IF G[h].heading = NoHeading THEN Len(G[h].items) = 1
            ELSE G[h].heading # G[h + 1].heading
        BY <4>1 DEF MinutesOf
      <4>3. E[h] = G[h] /\ E[h + 1].heading = G[h + 1].heading
        BY <2>5, <2>6, <3>3, <4>1
      <4> QED BY <4>2, <4>3
    <3> QED BY <3>2, <3>3
  <2>12. n \in Nat /\ m + 1 \in Nat
    BY <1>1, <2>3
  <2> HIDE DEF n, m
  <2>13. MinutesOf(E, I \union {i})
    BY <2>5, <2>7, <2>8, <2>9, <2>10, <2>11, <2>12, OneMore
  <2> QED BY <2>13 DEF E
<1>3. CASE ~ (i.heading # NoHeading /\ n # 0 /\ G[n].heading = i.heading)
  <2> DEFINE new == [heading |-> i.heading, items |-> <<i>>]
             m == n + 1
  <2>1. E = Append(G, new)
    <3>1. i.heading # NoHeading => LastGroupWith(G, i.heading) = {}
      BY <1>1, <1>3 DEF LastGroupWith
    <3> QED BY <3>1 DEF Extended
  <2>2. /\ new \in MinuteGroup
        /\ new.heading = i.heading /\ new.items = <<i>> /\ Len(new.items) = 1 /\ new.items[1] = i
    BY <1>1 DEF MinuteGroup
  <2> HIDE DEF new, E
  <2>3. /\ E \in MinuteGroups /\ Len(E) = n + 1 /\ E[n + 1] = new /\ DOMAIN E = 1 .. n + 1
        /\ \A g \in 1 .. n : E[g] = G[g]
    BY <1>1, <2>1, <2>2 DEF MinuteGroups
  <2>4. Places(E) = Places(G) \union {<<m, 1>>}
    <3>1. ASSUME NEW p \in Places(E) PROVE p \in Places(G) \union {<<m, 1>>}
      <4>1. p = <<p[1], p[2]>> /\ p[1] \in 1 .. n + 1 /\ p[2] \in 1 .. Len(E[p[1]].items)
        BY <2>3, PlacesAre
      <4>2. CASE p[1] = n + 1
        <5>1. p[2] \in 1 .. Len(new.items)
          BY <2>3, <4>1, <4>2
        <5>3. p[2] = 1
          BY <2>2, <5>1
        <5> QED BY <4>1, <4>2, <5>3
      <4>3. CASE p[1] # n + 1
        <5>1. p[1] \in 1 .. n
          BY <1>1, <4>1, <4>3
        <5>2. p[2] \in 1 .. Len(G[p[1]].items) /\ Len(G[p[1]].items) \in Nat
          BY <1>1, <2>3, <4>1, <5>1, PlacesAre
        <5>3. p[2] \in Nat \ {0} /\ p[2] <= Len(G[p[1]].items)
          BY <5>2
        <5> QED BY <1>1, <4>1, <5>1, <5>3, PlacesAre
      <4> QED BY <4>2, <4>3
    <3>2. ASSUME NEW p \in Places(G) PROVE p \in Places(E)
      <4>1. p = <<p[1], p[2]>> /\ p[1] \in 1 .. n /\ p[2] \in 1 .. Len(G[p[1]].items)
            /\ Len(G[p[1]].items) \in Nat
        BY <1>1, PlacesAre
      <4>2. E[p[1]] = G[p[1]] /\ p[1] \in 1 .. n + 1
        BY <1>1, <2>3, <4>1
      <4>3. p[2] \in Nat \ {0} /\ p[2] <= Len(E[p[1]].items)
        BY <4>1, <4>2
      <4> QED BY <2>3, <4>1, <4>2, <4>3, PlacesAre
    <3>3. <<m, 1>> \in Places(E)
      <4>1. n + 1 \in 1 .. Len(E)
        <5> HIDE DEF n
        <5> QED BY <1>1, <2>3
      <4>2. Len(E[n + 1].items) = 1
        BY <2>2, <2>3
      <4>3. 1 \in Nat \ {0} /\ 1 <= Len(E[n + 1].items)
        BY <4>2
      <4> QED BY <2>3, <4>1, <4>3, PlacesAre
    <3> QED BY <3>1, <3>2, <3>3
  <2>5. \A p \in Places(G) : ItemAt(E, p) = ItemAt(G, p) /\ E[p[1]].heading = G[p[1]].heading
    <3>1. \A p \in Places(G) : p[1] \in 1 .. n
      BY <1>1, PlacesAre
    <3> QED BY <2>3, <3>1 DEF ItemAt
  <2>6. \A p \in Places(G) : Above(p, <<m, 1>>) /\ ~ Above(<<m, 1>>, p)
    <3> SUFFICES ASSUME NEW p \in Places(G)
                 PROVE  Above(p, <<m, 1>>) /\ ~ Above(<<m, 1>>, p)
      OBVIOUS
    <3>1. p[1] \in 1 .. n
      BY <1>1, PlacesAre
    <3>2. p[1] < m /\ ~ (m < p[1]) /\ m # p[1]
      BY <1>1, <3>1
    <3> HIDE DEF m
    <3> QED BY <3>2 DEF Above
  <2>7. ItemAt(E, <<m, 1>>) = i /\ i.heading = E[m].heading
    BY <2>2, <2>3 DEF ItemAt
  <2>8. \A h \in DOMAIN E :
          IF E[h].heading = NoHeading THEN Len(E[h].items) = 1
          ELSE h < Len(E) => E[h].heading # E[h + 1].heading
    <3> SUFFICES ASSUME NEW h \in 1 .. n + 1
                 PROVE  IF E[h].heading = NoHeading THEN Len(E[h].items) = 1
                        ELSE h < n + 1 => E[h].heading # E[h + 1].heading
      BY <2>3
    <3>1. CASE h = n + 1
      <4>1. Len(E[h].items) = 1 /\ ~ (h < n + 1)
        <5>1. Len(E[n + 1].items) = 1
          BY <2>2, <2>3
        <5> HIDE DEF n
        <5> QED BY <1>1, <3>1, <5>1
      <4> QED BY <4>1
    <3>2. CASE h # n + 1
      <4>1. h \in 1 .. n /\ h \in DOMAIN G /\ E[h] = G[h]
        BY <1>1, <2>3, <3>2
      <4>2. CASE h = n
        <5>1. E[h + 1].heading = i.heading /\ n # 0
          BY <1>1, <2>2, <2>3, <4>1, <4>2
        <5>2. G[h].heading = NoHeading => Len(G[h].items) = 1
          BY <4>1 DEF MinutesOf
        <5> QED BY <1>3, <4>1, <4>2, <5>1, <5>2
      <4>3. CASE h # n
        <5>1. h + 1 \in 1 .. n /\ h < n
          BY <1>1, <4>1, <4>3
        <5>2. IF G[h].heading = NoHeading THEN Len(G[h].items) = 1
              ELSE G[h].heading # G[h + 1].heading
          BY <4>1, <5>1 DEF MinutesOf
        <5> QED BY <2>3, <4>1, <5>1, <5>2
      <4> QED BY <4>2, <4>3
    <3> QED BY <3>1, <3>2
  <2>9. m \in Nat /\ 1 \in Nat
    BY <1>1
  <2> HIDE DEF n, m
  <2>10. MinutesOf(E, I \union {i})
    BY <2>3, <2>4, <2>5, <2>6, <2>7, <2>8, <2>9, OneMore
  <2> QED BY <2>10 DEF E
<1> QED BY <1>2, <1>3

\* An item is where it has so many before it, and each place has its item.
LEMMA SortedIs ==
    ASSUME NEW S, ItemsNumbered(S)
    PROVE  /\ Sorted(S) \in Seq(S) /\ Len(Sorted(S)) = Cardinality(S) /\ Cardinality(S) \in Nat
           /\ {Sorted(S)[k] : k \in 1 .. Cardinality(S)} = S
           /\ \A k, l \in 1 .. Cardinality(S) : k < l => Precedes(Sorted(S)[k], Sorted(S)[l])
<1> DEFINE n == Cardinality(S)
           rank(i) == Cardinality(Before(S, i))
           at(k) == CHOOSE i \in S : Cardinality({j \in S : Precedes(j, i)}) = k - 1
<1>1. IsFiniteSet(S) /\ n \in Nat
  BY FS_CardinalityType DEF ItemsNumbered
<1>2. /\ \A i \in S : rank(i) \in Nat
      /\ \A i, j \in S : Precedes(i, j) => rank(i) < rank(j)
      /\ \A i, j \in S : i # j => Precedes(i, j) \/ Precedes(j, i)
  BY RanksGrow
<1>3. \A i \in S : rank(i) < n
  <2> SUFFICES ASSUME NEW i \in S PROVE rank(i) < n
    OBVIOUS
  <2>1. Before(S, i) \in SUBSET (S \ {i})
    BY DEF Before, Precedes, ItemsNumbered, Items
  <2>2. IsFiniteSet(S \ {i}) /\ Cardinality(S \ {i}) = n - 1
    BY <1>1, FS_RemoveElement
  <2>3. rank(i) <= n - 1
    BY <2>1, <2>2, FS_Subset
  <2> HIDE DEF n, rank
  <2> QED BY <1>1, <1>2, <2>3
<1> HIDE DEF n, rank
<1>4. \A i, j \in S : rank(i) = rank(j) => i = j
  <2> SUFFICES ASSUME NEW i \in S, NEW j \in S, rank(i) = rank(j), i # j PROVE FALSE
    OBVIOUS
  <2>1. CASE Precedes(i, j)
    BY <1>2, <2>1
  <2>2. CASE Precedes(j, i)
    BY <1>2, <2>2
  <2> QED BY <1>2, <2>1, <2>2
<1>5. \A k \in 1 .. n : \E i \in S : rank(i) = k - 1
  <2> DEFINE f == [i \in S |-> rank(i) + 1]
             R == {f[i] : i \in S}
  <2>1. /\ f \in [S -> Nat] /\ \A x, y \in S : f[x] = f[y] => x = y
        /\ \A i \in S : f[i] \in 1 .. n
    <3>1. \A i \in S : rank(i) + 1 \in 1 .. n
      BY <1>1, <1>2, <1>3
    <3>2. \A x, y \in S : rank(x) + 1 = rank(y) + 1 => x = y
      BY <1>2, <1>4
    <3> QED BY <1>2, <3>1, <3>2
  <2>2. \A i \in S : f[i] = rank(i) + 1
    OBVIOUS
  <2> HIDE DEF f
  <2>3. IsFiniteSet(R) /\ Cardinality(R) = n
    <3>1. \A x, y \in S : f[x] = f[y] => x = y
      BY <2>1
    <3>2. f \in [S -> Nat] /\ IsFiniteSet(S)
      BY <1>1, <2>1
    <3>3. IsFiniteSet({f[i] : i \in S}) /\ Cardinality({f[i] : i \in S}) = Cardinality(S)
      <4>1. f \in Injection(S, Nat)
        BY <3>1, <3>2 DEF Injection, IsInjective
      <4> QED BY ONLY <3>2, <4>1, ImageSameSize
    <3> QED BY <3>3 DEF n
  <2>4. IsFiniteSet(1 .. n) /\ Cardinality(1 .. n) = n
    <3>1. Cardinality(1 .. n) = IF 1 > n THEN 0 ELSE n - 1 + 1
      BY <1>1, FS_Interval
    <3>2. IsFiniteSet(1 .. n)
      BY <1>1, FS_Interval
    <3> QED BY <1>1, <3>1, <3>2
  <2>5. R \in SUBSET (1 .. n)
    BY <2>1
  <2>6. R = 1 .. n
    <3> HIDE DEF R
    <3> QED BY <2>3, <2>4, <2>5, FS_Subset
  <2> SUFFICES ASSUME NEW k \in 1 .. n PROVE \E i \in S : rank(i) = k - 1
    OBVIOUS
  <2>7. PICK i \in S : f[i] = k
    BY <2>6
  <2>8. rank(i) = k - 1
    BY <1>2, <2>2, <2>7
  <2> QED BY <2>8
<1>6. \A k \in 1 .. n : at(k) \in S /\ rank(at(k)) = k - 1
  <2> SUFFICES ASSUME NEW k \in 1 .. n PROVE at(k) \in S /\ rank(at(k)) = k - 1
    OBVIOUS
  <2>1. \E i \in S : Cardinality({j \in S : Precedes(j, i)}) = k - 1
    BY <1>5 DEF rank, Before
  <2>2. at(k) \in S /\ Cardinality({j \in S : Precedes(j, at(k))}) = k - 1
    BY <2>1
  <2> QED BY <2>2 DEF rank, Before
<1> DEFINE s == Sorted(S)
<1>7. s = [k \in 1 .. n |-> at(k)]
  BY DEF Sorted, n
<1> HIDE DEF at, s
<1>8. s \in Seq(S) /\ Len(s) = n
  <2>1. s \in [1 .. n -> S]
    BY <1>6, <1>7
  <2> QED BY <1>1, <2>1
<1>9. \A k \in 1 .. n : s[k] \in S /\ rank(s[k]) = k - 1
  BY <1>6, <1>7
<1>10. {s[k] : k \in 1 .. n} = S
  <2> SUFFICES ASSUME NEW i \in S PROVE \E k \in 1 .. n : s[k] = i
    BY <1>9
  <2>1. \E k \in 1 .. n : k - 1 = rank(i)
    <3>1. rank(i) \in Nat /\ rank(i) < n
      BY <1>2, <1>3
    <3>2. rank(i) + 1 \in 1 .. n /\ (rank(i) + 1) - 1 = rank(i)
      BY <1>1, <3>1
    <3> QED BY <3>2
  <2>2. PICK k \in 1 .. n : k - 1 = rank(i)
    BY <2>1
  <2>3. s[k] \in S /\ rank(s[k]) = rank(i)
    BY <1>9, <2>2
  <2> QED BY <1>4, <2>3
<1>11. \A k, l \in 1 .. n : k < l => Precedes(s[k], s[l])
  <2> SUFFICES ASSUME NEW k \in 1 .. n, NEW l \in 1 .. n, k < l, ~ Precedes(s[k], s[l]) PROVE FALSE
    OBVIOUS
  <2>1. s[k] \in S /\ s[l] \in S /\ rank(s[k]) = k - 1 /\ rank(s[l]) = l - 1
    BY <1>9
  <2>2. k - 1 < l - 1 /\ ~ (l - 1 < k - 1) /\ k - 1 # l - 1
    OBVIOUS
  <2>3. s[k] # s[l]
    BY <2>1, <2>2
  <2>4. Precedes(s[l], s[k])
    BY <1>2, <2>1, <2>3
  <2>5. rank(s[l]) < rank(s[k])
    BY <1>2, <2>1, <2>4
  <2> QED BY <2>1, <2>2, <2>5
<1> QED BY <1>1, <1>8, <1>10, <1>11 DEF n, s

\* The groups l of the first k items of the sequence s
StartsGroups(s, k, l) ==
    /\ l = [m \in 0 .. k |-> l[m]]
    /\ l[0] = <<>>
    /\ \A m \in 1 .. k : l[m] = Extended(l[m - 1], s[m])

LEMMA GroupedIs ==
    ASSUME NEW s, Len(s) \in Nat
    PROVE  \E f : f[0] = <<>> /\ Grouped(s) = f[Len(s)]
                  /\ \A k \in 1 .. Len(s) : f[k] = Extended(f[k - 1], s[k])
<1> DEFINE n == Len(s)
           Start == {k \in Nat : \E l : StartsGroups(s, k, l)}
           Rule(l) == [k \in 0 .. n |-> IF k = 0 THEN <<>> ELSE Extended(l[k - 1], s[k])]
<1>1. /\ n \in Nat /\ n \in 0 .. n /\ 0 \in 0 .. n
      /\ \A k \in 1 .. n : k \in Nat /\ k \in 0 .. n /\ k # 0
      /\ \A k \in 0 .. n : k = 0 \/ k \in 1 .. n
  <2> HIDE DEF Start, Rule
  <2> QED OBVIOUS
<1>2. Grouped(s) = (CHOOSE g : g = Rule(g))[n]
  BY DEF Grouped
<1> HIDE DEF n
<1>3. 0 \in Start
  <2> DEFINE l == [m \in 0 .. 0 |-> <<>>]
  <2>1. l = [m \in 0 .. 0 |-> l[m]] /\ l[0] = <<>> /\ \A m \in 1 .. 0 : FALSE
    OBVIOUS
  <2> HIDE DEF l
  <2>2. StartsGroups(s, 0, l)
    BY <2>1 DEF StartsGroups
  <2> QED BY <2>2
<1>4. ASSUME NEW k \in 1 .. n, k - 1 \in Start PROVE k \in Start
  <2>1. PICK l : StartsGroups(s, k - 1, l)
    BY <1>4
  <2> DEFINE m == [i \in 0 .. k |-> IF i = k THEN Extended(l[k - 1], s[k]) ELSE l[i]]
  <2>2. /\ k \in Nat /\ k # 0 /\ 0 \in 0 .. k /\ k \in 0 .. k
        /\ \A i \in 1 .. k : i \in 0 .. k /\ i - 1 \in 0 .. k /\ i - 1 # k
        /\ \A i \in 1 .. k : i = k \/ i \in 1 .. k - 1
    BY <1>1
  <2>3. m = [i \in 0 .. k |-> m[i]] /\ m[0] = <<>>
    BY <2>1, <2>2 DEF StartsGroups
  <2>4. ASSUME NEW i \in 1 .. k PROVE m[i] = Extended(m[i - 1], s[i])
    <3>1. m[i - 1] = l[i - 1]
      BY <2>2
    <3>2. CASE i = k
      BY <2>2, <3>1, <3>2
    <3>3. CASE i # k
      <4>1. m[i] = l[i] /\ l[i] = Extended(l[i - 1], s[i])
        BY <2>1, <2>2, <3>3 DEF StartsGroups
      <4> QED BY <3>1, <4>1
    <3> QED BY <3>2, <3>3
  <2> HIDE DEF m
  <2>5. StartsGroups(s, k, m)
    BY <2>3, <2>4 DEF StartsGroups
  <2> QED BY <2>2, <2>5
<1>5. PICK l : StartsGroups(s, n, l)
  <2>1. 0 .. n \subseteq Start
    <3> HIDE DEF Start
    <3> QED BY <1>1, <1>3, <1>4, BoundedInduction
  <2> QED BY <1>1, <2>1
<1>6. l = Rule(l)
  <2>1. \A k \in 0 .. n : l[k] = IF k = 0 THEN <<>> ELSE Extended(l[k - 1], s[k])
    <3>1. l[0] = <<>> /\ \A k \in 1 .. n : l[k] = Extended(l[k - 1], s[k])
      BY <1>5 DEF StartsGroups
    <3> SUFFICES ASSUME NEW k \in 0 .. n
                 PROVE  l[k] = IF k = 0 THEN <<>> ELSE Extended(l[k - 1], s[k])
      OBVIOUS
    <3>2. CASE k = 0
      BY <3>1, <3>2
    <3>3. CASE k # 0
      <4>1. k \in 1 .. n
        BY <1>1, <3>3
      <4> QED BY <3>1, <3>3, <4>1
    <3> QED BY <3>2, <3>3
  <2>2. l = [k \in 0 .. n |-> l[k]]
    BY <1>5 DEF StartsGroups
  <2> QED BY <2>1, <2>2
<1>7. \E g : g = Rule(g)
  BY <1>6
<1> DEFINE f == CHOOSE g : g = Rule(g)
<1>8. f = Rule(f)
  <2> HIDE DEF Rule
  <2> QED BY <1>7
<1>9. Grouped(s) = f[n]
  BY <1>2
<1> HIDE DEF f
<1>10. f[0] = <<>> /\ \A k \in 1 .. n : f[k] = Extended(f[k - 1], s[k])
  <2>1. \A k \in 0 .. n : f[k] = IF k = 0 THEN <<>> ELSE Extended(f[k - 1], s[k])
    BY <1>8
  <2> QED BY <1>1, <2>1
<1> QED BY <1>9, <1>10 DEF n

\* The groups of items in order
LEMMA GroupsTell ==
    ASSUME NEW S, ItemsNumbered(S)
    PROVE  MinutesOf(Grouped(Sorted(S)), S)
<1> DEFINE s == Sorted(S)
           n == Len(s)
           Read(k) == {s[l] : l \in 1 .. k}
<1>1. /\ s \in Seq(S) /\ n \in Nat /\ Read(n) = S /\ S \subseteq Items
      /\ \A k, l \in 1 .. n : k < l => Precedes(s[k], s[l])
  <2>1. S \subseteq Items
    BY DEF ItemsNumbered
  <2> QED BY <2>1, SortedIs
<1> HIDE DEF s
<1>2. PICK f : f[0] = <<>> /\ Grouped(s) = f[n] /\ \A k \in 1 .. n : f[k] = Extended(f[k - 1], s[k])
  BY <1>1, GroupedIs
<1> DEFINE T == {k \in Nat : MinutesOf(f[k], Read(k))}
<1>3. 0 \in T
  <2>1. Places(<<>>) = {} /\ <<>> \in MinuteGroups /\ DOMAIN <<>> = {}
    BY DEF Places, MinuteGroups
  <2>2. Read(0) = {}
    OBVIOUS
  <2> HIDE DEF Read
  <2>3. MinutesOf(<<>>, {})
    BY <2>1 DEF MinutesOf
  <2> QED BY <1>2, <2>2, <2>3
<1>4. ASSUME NEW k \in 1 .. n, k - 1 \in T PROVE k \in T
  <2>1. /\ k \in Nat /\ k \in 1 .. k /\ \A l \in 1 .. k : l = k \/ l \in 1 .. k - 1
        /\ \A l \in 1 .. k - 1 : l \in 1 .. k /\ l \in 1 .. n /\ l < k
    BY <1>1
  <2>2. Read(k) = Read(k - 1) \union {s[k]}
    BY <2>1
  <2>3. s[k] \in Items
    <3>1. s[k] \in S
      BY <1>1
    <3> QED BY <1>1, <3>1
  <2>4. \A j \in Read(k - 1) : Precedes(j, s[k])
    BY <1>1, <2>1
  <2>5. MinutesOf(f[k - 1], Read(k - 1))
    BY <1>4
  <2> HIDE DEF Read
  <2>6. MinutesOf(Extended(f[k - 1], s[k]), Read(k - 1) \union {s[k]})
    BY <2>3, <2>4, <2>5, ExtendedIs
  <2> QED BY <1>2, <2>1, <2>2, <2>6
<1>5. 0 .. n \subseteq T
  <2> HIDE DEF T
  <2> QED BY <1>1, <1>3, <1>4, BoundedInduction
<1>6. MinutesOf(f[n], Read(n))
  <2>1. n \in T
    <3>1. n \in 0 .. n
      <4> HIDE DEF n
      <4> QED BY <1>1
    <3> HIDE DEF T, n
    <3> QED BY <1>5, <3>1
  <2> QED BY <2>1
<1> QED BY <1>1, <1>2, <1>6 DEF s

(* The minutes of any agenda a meeting can have.                           *)
THEOREM MinutesAlwaysFollow == MeetingSpec => []MinutesFollowAgenda
<1>1. MeetingInv => MinutesFollowAgenda
  <2> SUFFICES ASSUME MeetingInv PROVE MinutesFollowAgenda
    OBVIOUS
  <2>1. ItemsNumbered(items) /\ MinuteItems \in SUBSET items
    BY DEF MeetingInv, AgendaInv, MinuteItems, Visible
  <2>2. IsFiniteSet(MinuteItems)
    BY <2>1, FS_Subset DEF ItemsNumbered
  <2>3. ItemsNumbered(MinuteItems)
    BY <2>1, <2>2 DEF ItemsNumbered
  <2>4. MinutesOf(Minutes, MinuteItems)
    BY <2>3, GroupsTell DEF Minutes
  <2> QED BY <2>4 DEF MinutesOf, MinutesFollowAgenda
<1> QED BY <1>1, MeetingInvariant, PTL

LEMMA MeetingTyped == MeetingInv => StatusReportsTypeOK /\ AgendaTypeOK
<1> SUFFICES ASSUME MeetingInv PROVE StatusReportsTypeOK /\ AgendaTypeOK
  OBVIOUS
<1> USE DEF MeetingInv
<1>1. Cardinality({s.num : s \in reports}) = Cardinality(reports)
  <2> DEFINE f == [s \in reports |-> s.num]
  <2>1. /\ f \in [reports -> Nat] /\ IsFiniteSet(reports)
        /\ \A x, y \in reports : f[x] = f[y] => x = y
    BY DEF ReportsInv, Numbered, Reports
  <2>2. Cardinality({f[x] : x \in reports}) = Cardinality(reports)
    <3> HIDE DEF f
    <3>1. f \in Injection(reports, Nat) /\ IsFiniteSet(reports)
      BY <2>1 DEF Injection, IsInjective
    <3> QED BY ONLY <3>1, ImageSameSize
  <2>3. {f[x] : x \in reports} = {s.num : s \in reports}
    OBVIOUS
  <2> QED BY <2>2, <2>3
<1>2. Cardinality({i.num : i \in items}) = Cardinality(items)
  <2> DEFINE f == [i \in items |-> i.num]
  <2>1. /\ f \in [items -> Nat] /\ IsFiniteSet(items)
        /\ \A x, y \in items : f[x] = f[y] => x = y
    BY DEF AgendaInv, ItemsNumbered, Items
  <2>2. Cardinality({f[x] : x \in items}) = Cardinality(items)
    <3> HIDE DEF f
    <3>1. f \in Injection(items, Nat) /\ IsFiniteSet(items)
      BY <2>1 DEF Injection, IsInjective
    <3> QED BY ONLY <3>1, ImageSameSize
  <2>3. {f[x] : x \in items} = {i.num : i \in items}
    OBVIOUS
  <2> QED BY <2>2, <2>3
<1>3. \A r \in OpenRequests : opening[r] # Closed =>
         /\ opening[r].member \in Members
         /\ opening[r].todo \subseteq opening[r].asked
         /\ opening[r].at \in opening[r].todo \union {NoPosition}
         /\ opening[r].report # 0 => opening[r].at # NoPosition
  BY DEF ReportsInv, OpeningInv, OpenOK, Opens, ReportAt
<1>4. StatusReportsTypeOK
  BY <1>1, <1>3 DEF ReportsInv, Numbered, RowsInPlace, StatusReportsTypeOK
<1>5. AgendaTypeOK
  BY <1>2 DEF AgendaInv, ItemsNumbered, AgendaTypeOK
<1> QED BY <1>4, <1>5

(* The tables of reports, rows, agenda and discussion items are well       *)
(* formed, their ids distinct, whatever members and the admin do.          *)
THEOREM MeetingTypesHold == MeetingSpec => [](StatusReportsTypeOK /\ AgendaTypeOK)
BY MeetingInvariant, MeetingTyped, PTL

(* Every page that is shown has one row for each position asked for, and   *)
(* the document has each report that was written once (open,               *)
(* meeting_statusreport_context): for any number of requests that open     *)
(* pages at once, or die half way.                                         *)
THEOREM ReportsAlwaysShown == MeetingSpec => []ReportsShown
<1>1. MeetingInv => ReportsShown
  BY PagesShowAll, DocumentHasAll DEF MeetingInv, ReportsShown
<1> QED BY <1>1, MeetingInvariant, PTL

(* No discussion loses its agenda item, and none is left without one.      *)
THEOREM DiscussionsAlwaysOnAgenda == MeetingSpec => []DiscussionsOnAgenda
<1>1. MeetingInv => DiscussionsOnAgenda
  BY DEF MeetingInv, AgendaInv
<1> QED BY <1>1, MeetingInvariant, PTL

(* The agenda and its minutes: discussions have their items, and the        *)
(* minutes follow the agenda.                                               *)
THEOREM AgendaStaysWhole == MeetingSpec => []AgendaWhole
BY DiscussionsAlwaysOnAgenda, MinutesAlwaysFollow, PTL DEF AgendaWhole
=============================================================================
