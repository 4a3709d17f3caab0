------------------------ MODULE PositionWizardProofs ------------------------
(***************************************************************************)
(* Proofs about PositionWizard, for any members, qualifiers, dates and     *)
(* number of requests running at once.                                     *)
(***************************************************************************)
EXTENDS PositionWizard, TLAPS

USE LastDateAssumption, MaxSlotsAssumption

-----------------------------------------------------------------------------
(* The parts of a request *)

\* A free slot is a slot, and its key is not in the table.
LEMMA FreeSlotIsFree ==
  ASSUME NEW R, NEW u, FreeSlots(R, u) # {}
  PROVE  FreeSlot(R, u) \in Slots /\ <<u, FreeSlot(R, u)>> \notin Keys(R)
BY DEF FreeSlot, FreeSlots

\* A request writes rows it has read; it ends rows it writes, on a date that
\* is not before their start, and changes nothing else in them.
LEMMA WrittenRows ==
  ASSUME NEW r \in Request
  PROVE  /\ Written(r) \subseteq r.read
         /\ Written(r) \subseteq Row
         /\ Ended(r) \subseteq Row
         /\ \A y \in Ended(r) : \E x \in Ending(r) :
              /\ Key(y) = Key(x) /\ y.qualifier = x.qualifier /\ y.start = x.start
              /\ y.finish = r.effective - 1 /\ x.start < r.effective
         /\ \A x \in Ending(r) : x.start < r.effective =>
              \E y \in Ended(r) :
                /\ y.user = x.user /\ y.qualifier = x.qualifier /\ y.start = x.start
                /\ y.finish = r.effective - 1
<1>1. r.read \subseteq Row /\ r.effective \in Dates
  BY DEF Request
<1>2. Written(r) \subseteq r.read
  BY DEF Written, Purged, Ending, MembersFuture
<1>3. ASSUME NEW y \in Ended(r)
      PROVE  /\ y \in Row
             /\ \E x \in Ending(r) :
                  /\ Key(y) = Key(x) /\ y.qualifier = x.qualifier
                  /\ y.start = x.start
                  /\ y.finish = r.effective - 1 /\ x.start < r.effective
  <2>1. PICK x \in Ending(r) : x.start < r.effective
                               /\ y = [x EXCEPT !.finish = r.effective - 1]
    BY DEF Ended
  <2>2. x \in Row
    BY <1>1 DEF Ending
  <2>3. r.effective - 1 \in Dates
    BY <1>1, <2>1, <2>2 DEF Row, Dates
  <2>4. y \in Row
    BY <2>1, <2>2, <2>3 DEF Row
  <2>5. /\ Key(y) = Key(x) /\ y.qualifier = x.qualifier
        /\ y.start = x.start /\ y.finish = r.effective - 1
    BY <2>1, <2>2 DEF Row, Key
  <2> QED BY <2>1, <2>4, <2>5
<1>4. ASSUME NEW x \in Ending(r), x.start < r.effective
      PROVE  \E y \in Ended(r) :
               /\ y.user = x.user /\ y.qualifier = x.qualifier /\ y.start = x.start
               /\ y.finish = r.effective - 1
  <2> DEFINE y == [x EXCEPT !.finish = r.effective - 1]
  <2>1. x \in Row
    BY <1>1 DEF Ending
  <2>2. y \in Ended(r)
    BY <1>4 DEF Ended
  <2>3. /\ y.user = x.user /\ y.qualifier = x.qualifier /\ y.start = x.start
        /\ y.finish = r.effective - 1
    BY <2>1 DEF Row
  <2> QED BY <2>2, <2>3
<1> QED BY <1>1, <1>2, <1>3, <1>4

\* The rows inserted are open ended rows from the effective date on, one for
\* each member who starts, with keys that are not in the table.
LEMMA InsertedRows ==
  ASSUME NEW r \in Request,
         \A u \in Starting(r) : FreeSlots(rows, u) # {}
  PROVE  /\ Inserted(r) \subseteq Row
         /\ \A y \in Inserted(r) :
              /\ y.user \in Starting(r) /\ y.start = r.effective
              /\ y.finish = Forever /\ y.qualifier = r.qualifier
              /\ Key(y) \notin Keys(rows)
         /\ \A y, z \in Inserted(r) : y.user = z.user => y = z
<1>1. r.effective \in Dates /\ r.qualifier \in Quals /\ Starting(r) \subseteq Users
  BY DEF Request, Starting
<1>2. ASSUME NEW u \in Starting(r)
      PROVE  FreeSlot(rows, u) \in Slots /\ <<u, FreeSlot(rows, u)>> \notin Keys(rows)
  BY FreeSlotIsFree
<1>3. ASSUME NEW y \in Inserted(r)
      PROVE  /\ y \in Row
             /\ y.user \in Starting(r) /\ y.start = r.effective
             /\ y.finish = Forever /\ y.qualifier = r.qualifier
             /\ y.slot = FreeSlot(rows, y.user)
             /\ Key(y) \notin Keys(rows)
  <2>1. PICK u \in Starting(r) :
          y = [user |-> u, slot |-> FreeSlot(rows, u), start |-> r.effective,
               finish |-> Forever, qualifier |-> r.qualifier]
    BY DEF Inserted
  <2> QED BY <1>1, <1>2, <2>1 DEF Row, Key
<1>4. ASSUME NEW y \in Inserted(r), NEW z \in Inserted(r), y.user = z.user
      PROVE  y = z
  BY <1>4 DEF Inserted
<1> QED BY <1>3, <1>4

\* Telling the running requests that rows were written changes only what they
\* know to be out of date.
LEMMA OutdatedRequests ==
  ASSUME NEW R, R \subseteq Request, NEW K, K \subseteq Users \X Slots,
         \A o, p \in R : o.id = p.id => o = p
  PROVE  /\ Outdated(R, K) \subseteq Request
         /\ \A o \in Outdated(R, K) : \E p \in R :
              o.read = p.read /\ o.stale = p.stale \union K
         /\ \A o, p \in Outdated(R, K) : o.id = p.id => o = p
<1> DEFINE after(p) == [p EXCEPT !.stale = @ \union K]
<1>1. Outdated(R, K) = {after(p) : p \in R}
  BY DEF Outdated
<1>2. ASSUME NEW p \in R
      PROVE  /\ after(p) \in Request
             /\ after(p).id = p.id
             /\ after(p).read = p.read /\ after(p).stale = p.stale \union K
  BY DEF Request
<1> HIDE DEF after
<1> QED BY <1>1, <1>2

\* The keys a request writes are keys of rows.
LEMMA WrittenKeys ==
  ASSUME NEW R, R \subseteq Row
  PROVE  Keys(R) \subseteq Users \X Slots
BY DEF Keys, Key, Row

-----------------------------------------------------------------------------
(* Type correctness *)

\* Every step keeps rows and requests well formed.
LEMMA TypeStep == TypeOK /\ [TermsNext]_termVars => TypeOK'
<1> SUFFICES ASSUME TypeOK, [TermsNext]_termVars
             PROVE  TypeOK'
  OBVIOUS
<1> USE DEF TypeOK
<1>1. ASSUME NEW i \in WizardRequests, NEW e \in Dates, NEW M \in SUBSET Users,
             NEW q \in Quals, Read(i, e, M, q)
      PROVE  TypeOK'
  <2> DEFINE n == [id |-> i, effective |-> e, members |-> M, qualifier |-> q,
                   read |-> rows, stale |-> {}]
  <2>1. n \in Request
    BY DEF Request
  <2>2. rows' = rows /\ running' = running \union {n} /\ \A r \in running : r.id # i
    BY <1>1 DEF Read
  <2>3. n.id = i
    OBVIOUS
  <2> HIDE DEF n
  <2> QED BY <2>1, <2>2, <2>3
<1>2. ASSUME NEW r \in running, Update(r)
      PROVE  TypeOK'
  <2>1. rows' \subseteq Row
    BY <1>2, WrittenRows, InsertedRows DEF Update
  <2>2. Keys(Written(r)) \subseteq Users \X Slots
    BY WrittenRows, WrittenKeys
  <2>3. running' = Outdated(running \ {r}, Keys(Written(r)))
    BY <1>2 DEF Update
  <2>4. /\ running' \subseteq Request
        /\ \A o, p \in running' : o.id = p.id => o = p
    <3> DEFINE R == running \ {r}  K == Keys(Written(r))
    <3>1. R \subseteq Request /\ \A o, p \in R : o.id = p.id => o = p
      OBVIOUS
    <3>2. K \subseteq Users \X Slots /\ running' = Outdated(R, K)
      BY <2>2, <2>3
    <3> HIDE DEF R, K
    <3> QED BY <3>1, <3>2, OutdatedRequests
  <2> QED BY <2>1, <2>4
<1>3. ASSUME NEW r \in running, UpdateOverlap(r) \/ UpdateStale(r)
      PROVE  TypeOK'
  BY <1>3 DEF UpdateOverlap, UpdateStale
<1>4. ASSUME NEW u \in Users, NEW b \in Dates, NEW f \in Dates \union {Forever},
             NEW q \in Quals, CreateDates(u, b, f, q)
      PROVE  TypeOK'
  <2>1. FreeSlot(rows, u) \in Slots
    BY <1>4, FreeSlotIsFree DEF CreateDates
  <2> QED BY <1>4, <2>1 DEF CreateDates, Row
<1>5. ASSUME NEW x \in rows, rows' \subseteq Row,
             running' = Outdated(running, {Key(x)})
      PROVE  TypeOK'
  <2>1. {Key(x)} \subseteq Users \X Slots
    BY DEF Key, Row
  <2>2. /\ Outdated(running, {Key(x)}) \subseteq Request
        /\ \A o, p \in Outdated(running, {Key(x)}) : o.id = p.id => o = p
    BY <2>1, OutdatedRequests
  <2> QED BY <1>5, <2>2
<1>6. ASSUME NEW x \in rows, NEW b \in Dates, NEW f \in Dates \union {Forever},
             NEW q \in Quals, EditDates(x, b, f, q)
      PROVE  TypeOK'
  <2>1. [x EXCEPT !.start = b, !.finish = f, !.qualifier = q] \in Row
    BY DEF Row
  <2>2. rows' \subseteq Row /\ running' = Outdated(running, {Key(x)})
    BY <1>6, <2>1 DEF EditDates
  <2> QED BY <2>2, <1>5
<1>7. ASSUME NEW x \in rows, DeleteDates(x)
      PROVE  TypeOK'
  BY <1>7, <1>5 DEF DeleteDates
<1>8. CASE UNCHANGED termVars
  BY <1>8 DEF termVars
<1> QED BY <1>1, <1>2, <1>3, <1>4, <1>6, <1>7, <1>8 DEF TermsNext, WizardNext, DatesNext

\* Rows and requests are well formed in every state.
THEOREM TypeCorrect == TermsSpec => []TypeOK
<1>1. TermsInit => TypeOK
  BY DEF TermsInit, TypeOK
<1> QED BY <1>1, TypeStep, PTL DEF TermsSpec

-----------------------------------------------------------------------------
(* What version_id guarantees *)

\* What a request that commits does to the table, row by row.
LEMMA UpdateRows ==
  ASSUME TypeOK, SnapshotCurrent, NEW r \in running, Update(r)
  PROVE  /\ Written(r) \subseteq rows
         /\ \A y \in Ended(r) : \E x \in Written(r) : Key(y) = Key(x)
         /\ rows' = (rows \ Written(r)) \union Ended(r) \union Inserted(r)
<1>1. r \in Request
  BY DEF TypeOK
<1>2. Written(r) \subseteq r.read
  BY <1>1, WrittenRows
<1>3. \A x \in Written(r) : Key(x) \notin r.stale
  BY DEF Update, Conflict, Keys
<1> QED BY <1>1, <1>2, <1>3, WrittenRows DEF Update, SnapshotCurrent, Written

\* The requests still running after rows were written with the keys K know
\* which of their rows are out of date.
LEMMA OutdatedCurrent ==
  ASSUME TypeOK, SnapshotCurrent, NEW R, R \subseteq running,
         NEW K, K \subseteq Users \X Slots,
         \A x \in rows : Key(x) \in K \/ x \in rows',
         running' = Outdated(R, K)
  PROVE  \A o \in running' :
           /\ \A x, y \in o.read : Key(x) = Key(y) => x = y
           /\ \A x \in o.read : Key(x) \in o.stale \/ x \in rows'
<1> SUFFICES ASSUME NEW o \in running'
             PROVE  /\ \A x, y \in o.read : Key(x) = Key(y) => x = y
                    /\ \A x \in o.read : Key(x) \in o.stale \/ x \in rows'
  OBVIOUS
<1>1. R \subseteq Request /\ \A p, t \in R : p.id = t.id => p = t
  BY DEF TypeOK
<1>2. \A t \in Outdated(R, K) : \E p \in R :
        t.read = p.read /\ t.stale = p.stale \union K
  BY <1>1, OutdatedRequests
<1>3. PICK p \in R : o.read = p.read /\ o.stale = p.stale \union K
  BY <1>2
<1>4. /\ \A x, y \in p.read : Key(x) = Key(y) => x = y
      /\ \A x \in p.read : Key(x) \in p.stale \/ x \in rows
  BY DEF SnapshotCurrent
<1> QED BY <1>3, <1>4

\* Every step keeps what a request has read either current or known to be out
\* of date.
LEMMA SnapshotStep == TypeOK /\ SnapshotCurrent /\ [TermsNext]_termVars => SnapshotCurrent'
<1> SUFFICES ASSUME TypeOK, SnapshotCurrent, [TermsNext]_termVars
             PROVE  SnapshotCurrent'
  OBVIOUS
<1> DEFINE RunningCurrent ==
      \A o \in running :
        /\ \A x, y \in o.read : Key(x) = Key(y) => x = y
        /\ \A x \in o.read : Key(x) \in o.stale \/ x \in rows
           Unique == \A x, y \in rows : Key(x) = Key(y) => x = y
<1>a. Unique /\ RunningCurrent
  BY DEF SnapshotCurrent
<1>b. SUFFICES Unique' /\ RunningCurrent'
  BY DEF SnapshotCurrent
<1>1. ASSUME NEW i \in WizardRequests, NEW e \in Dates, NEW M \in SUBSET Users,
             NEW q \in Quals, Read(i, e, M, q)
      PROVE  Unique' /\ RunningCurrent'
  <2> DEFINE n == [id |-> i, effective |-> e, members |-> M, qualifier |-> q,
                   read |-> rows, stale |-> {}]
  <2>1. n.read = rows
    OBVIOUS
  <2>2. running' = running \union {n} /\ rows' = rows
    BY <1>1 DEF Read
  <2> HIDE DEF n
  <2> QED BY <1>a, <2>1, <2>2
<1>2. ASSUME NEW r \in running, Update(r)
      PROVE  Unique' /\ RunningCurrent'
  <2>1. r \in Request
    BY DEF TypeOK
  <2>2. /\ Written(r) \subseteq rows
        /\ \A y \in Ended(r) : \E x \in Written(r) : Key(y) = Key(x)
        /\ rows' = (rows \ Written(r)) \union Ended(r) \union Inserted(r)
    BY <1>2, UpdateRows
  <2>3. \A y \in Inserted(r) : Key(y) \notin Keys(rows)
    BY <1>2, <2>1, InsertedRows DEF Update
  <2>4. \A y, z \in Inserted(r) : Key(y) = Key(z) => y = z
    BY <1>2, <2>1, InsertedRows DEF Update, Key
  <2>5. \A y, z \in Ended(r) : Key(y) = Key(z) => y = z
    <3> SUFFICES ASSUME NEW y \in Ended(r), NEW z \in Ended(r), Key(y) = Key(z)
                 PROVE  y = z
      OBVIOUS
    <3>1. PICK x \in Ending(r) : y = [x EXCEPT !.finish = r.effective - 1]
      BY DEF Ended
    <3>2. PICK w \in Ending(r) : z = [w EXCEPT !.finish = r.effective - 1]
      BY DEF Ended
    <3>3. x \in Row /\ w \in Row /\ x \in rows /\ w \in rows
      BY <2>1, <2>2, WrittenRows DEF Written
    <3>4. Key(y) = Key(x) /\ Key(z) = Key(w)
      BY <3>1, <3>2, <3>3 DEF Key, Row
    <3> QED BY <1>a, <3>1, <3>2, <3>3, <3>4
  <2>6. Unique'
    BY <1>a, <2>2, <2>3, <2>4, <2>5 DEF Keys
  <2>7. Keys(Written(r)) \subseteq Users \X Slots
    BY <2>1, WrittenRows, WrittenKeys
  <2>8. running' = Outdated(running \ {r}, Keys(Written(r)))
    BY <1>2 DEF Update
  <2>9. \A x \in rows : Key(x) \in Keys(Written(r)) \/ x \in rows'
    BY <2>2 DEF Keys
  <2> DEFINE R == running \ {r}  K == Keys(Written(r))
  <2>10. R \subseteq running /\ running' = Outdated(R, K)
         /\ K \subseteq Users \X Slots /\ \A x \in rows : Key(x) \in K \/ x \in rows'
    BY <2>7, <2>8, <2>9
  <2>11. RunningCurrent'
    <3> HIDE DEF R, K
    <3> QED BY <2>10, OutdatedCurrent
  <2> QED BY <2>6, <2>11
<1>3. ASSUME NEW r \in running, UpdateOverlap(r) \/ UpdateStale(r)
      PROVE  Unique' /\ RunningCurrent'
  BY <1>3, <1>a DEF UpdateOverlap, UpdateStale
<1>4. ASSUME NEW u \in Users, NEW b \in Dates, NEW f \in Dates \union {Forever},
             NEW q \in Quals, CreateDates(u, b, f, q)
      PROVE  Unique' /\ RunningCurrent'
  <2> DEFINE n == [user |-> u, slot |-> FreeSlot(rows, u), start |-> b,
                   finish |-> f, qualifier |-> q]
  <2>1. Key(n) \notin Keys(rows)
    BY <1>4, FreeSlotIsFree DEF CreateDates, Key
  <2>2. rows' = rows \union {n} /\ running' = running
    BY <1>4 DEF CreateDates
  <2> HIDE DEF n
  <2> QED BY <1>a, <2>1, <2>2 DEF Keys
<1>5. ASSUME NEW x \in rows, running' = Outdated(running, {Key(x)}),
             \A y \in rows : y = x \/ y \in rows'
      PROVE  RunningCurrent'
  <2>1. {Key(x)} \subseteq Users \X Slots
    BY DEF TypeOK, Key, Row
  <2>2. \A y \in rows : Key(y) \in {Key(x)} \/ y \in rows'
    BY <1>5
  <2> QED BY <1>5, <2>1, <2>2, OutdatedCurrent
<1>6. ASSUME NEW x \in rows, NEW b \in Dates, NEW f \in Dates \union {Forever},
             NEW q \in Quals, EditDates(x, b, f, q)
      PROVE  Unique' /\ RunningCurrent'
  <2> DEFINE n == [x EXCEPT !.start = b, !.finish = f, !.qualifier = q]
  <2>1. Key(n) = Key(x)
    BY DEF TypeOK, Key, Row
  <2>2. rows' = (rows \ {x}) \union {n} /\ running' = Outdated(running, {Key(x)})
    BY <1>6 DEF EditDates
  <2> HIDE DEF n
  <2>3. Unique'
    BY <1>a, <2>1, <2>2
  <2> QED BY <2>2, <2>3, <1>5
<1>7. ASSUME NEW x \in rows, DeleteDates(x)
      PROVE  Unique' /\ RunningCurrent'
  <2>1. rows' = rows \ {x} /\ running' = Outdated(running, {Key(x)})
    BY <1>7 DEF DeleteDates
  <2> QED BY <1>a, <2>1, <1>5
<1>8. CASE UNCHANGED termVars
  BY <1>8, <1>a DEF termVars
<1> HIDE DEF RunningCurrent, Unique
<1> QED BY <1>1, <1>2, <1>3, <1>4, <1>6, <1>7, <1>8 DEF TermsNext, WizardNext, DatesNext

\* In every state, a row that a request has read and nobody wrote since is
\* still in the table as it was read.
THEOREM SnapshotsCurrent == TermsSpec => []SnapshotCurrent
<1>1. TermsInit => SnapshotCurrent
  BY DEF TermsInit, SnapshotCurrent
<1> QED BY <1>1, SnapshotStep, TypeCorrect, PTL DEF TermsSpec

-----------------------------------------------------------------------------
(* What an update does to the terms *)

\* An update leaves the holders of the position before its date as they are.
LEMMA HistoryStep ==
  ASSUME TypeOK, SnapshotCurrent, NEW r \in running, Update(r),
         NEW d \in Dates, d < r.effective
  PROVE  Holders(rows', d) = Holders(rows, d)
<1>1. r \in Request /\ rows \subseteq Row /\ r.effective \in Dates
  BY DEF TypeOK, Request
<1>2. /\ Written(r) \subseteq rows
      /\ rows' = (rows \ Written(r)) \union Ended(r) \union Inserted(r)
  BY UpdateRows
<1>3. ASSUME NEW x \in rows, ActiveOn(x, d)
      PROVE  \E y \in rows' : /\ ActiveOn(y, d)
                              /\ y.user = x.user /\ y.qualifier = x.qualifier
  <2>1. CASE x \notin Written(r)
    BY <1>2, <1>3, <2>1
  <2>2. x \notin Purged(r)
    BY <1>1, <1>3 DEF ActiveOn, Purged, MembersFuture, Row, Dates
  <2>3. CASE x \in Ending(r)
    <3>1. x.start < r.effective /\ x.start \in Dates
      BY <1>1, <1>3 DEF ActiveOn, Row, Dates
    <3>2. PICK y \in Ended(r) :
            /\ y.user = x.user /\ y.qualifier = x.qualifier /\ y.start = x.start
            /\ y.finish = r.effective - 1
      BY <1>1, <2>3, <3>1, WrittenRows
    <3>3. ActiveOn(y, d)
      BY <1>1, <1>3, <3>2 DEF ActiveOn, Dates
    <3> QED BY <1>2, <3>2, <3>3
  <2> QED BY <2>1, <2>2, <2>3 DEF Written
<1>4. ASSUME NEW y \in rows', ActiveOn(y, d)
      PROVE  \E x \in rows : /\ ActiveOn(x, d)
                             /\ x.user = y.user /\ x.qualifier = y.qualifier
  <2>1. CASE y \in rows
    BY <1>4, <2>1
  <2>2. y \notin Inserted(r)
    BY <1>1, <1>4, InsertedRows DEF ActiveOn, Update, Dates
  <2>3. CASE y \in Ended(r)
    <3>1. PICK x \in Ending(r) :
            /\ Key(y) = Key(x) /\ y.qualifier = x.qualifier /\ y.start = x.start
      BY <1>1, <2>3, WrittenRows
    <3>2. x \in rows /\ x.finish \in Dates \union {Forever} /\ r.effective <= x.finish
      BY <1>1, <1>2 DEF Written, Ending, ActiveOn, Row
    <3>3. ActiveOn(x, d)
      BY <1>1, <1>4, <3>1, <3>2 DEF ActiveOn, Dates, Forever
    <3> QED BY <3>1, <3>2, <3>3 DEF Key
  <2> QED BY <1>2, <2>1, <2>2, <2>3
<1> QED BY <1>3, <1>4 DEF Holders

\* No update, whatever it races with, changes who held the position before its
\* effective date.
THEOREM HistoryIsKept == TermsSpec => HistoryKept
<1>1. TypeOK /\ SnapshotCurrent /\ [TermsNext]_termVars =>
        [\A r \in running : Update(r) =>
           \A d \in Dates : d < r.effective => Holders(rows', d) = Holders(rows, d)]_termVars
  BY HistoryStep
<1> QED BY <1>1, TypeCorrect, SnapshotsCurrent, PTL DEF TermsSpec, HistoryKept

\* Where a row of the table after an update comes from.
LEMMA RowOrigin ==
  ASSUME TypeOK, SnapshotCurrent, NEW r \in running, Update(r), NEW y \in rows'
  PROVE  \/ y \in rows \ Written(r)
         \/ /\ y \in Ended(r)
            /\ \E x \in Ending(r) : /\ x \in rows
                                    /\ y = [x EXCEPT !.finish = r.effective - 1]
         \/ y \in Inserted(r)
<1>1. CASE y \in Ended(r)
  <2>1. PICK x \in Ending(r) : y = [x EXCEPT !.finish = r.effective - 1]
    BY <1>1 DEF Ended
  <2> QED BY <1>1, <2>1, UpdateRows DEF Written
<1> QED BY <1>1, UpdateRows

\* An update of the table as it was read makes no two rows of a member share
\* a day.
LEMMA DisjointStep ==
  ASSUME TypeOK, SnapshotCurrent, NEW r \in running, Update(r),
         r.read = rows, Disjoint(rows)
  PROVE  Disjoint(rows')
<1> SUFFICES ASSUME NEW d \in Dates, NEW x \in rows', NEW y \in rows',
                    x.user = y.user, ActiveOn(x, d), ActiveOn(y, d)
             PROVE  x = y
  BY DEF Disjoint, Overlapping
<1>1. r \in Request /\ rows \subseteq Row /\ r.effective \in Dates
  BY DEF TypeOK, Request
<1>2. \A v, w \in rows : v.user = w.user /\ ActiveOn(v, d) /\ ActiveOn(w, d) => v = w
  BY DEF Disjoint, Overlapping
<1>3. ASSUME NEW z \in rows', z \notin Inserted(r), ActiveOn(z, d)
      PROVE  \E v \in rows : /\ v.user = z.user /\ ActiveOn(v, d)
                             /\ \/ z = v /\ v \notin Ending(r)
                                \/ /\ v \in Ending(r)
                                   /\ z = [v EXCEPT !.finish = r.effective - 1]
  <2>1. CASE z \in rows \ Written(r)
    BY <1>3, <2>1 DEF Written
  <2>2. CASE z \in Ended(r)
    <3>1. PICK v \in Ending(r) : v \in rows /\ z = [v EXCEPT !.finish = r.effective - 1]
      <4>1. CASE z \in rows
        <5>1. PICK v \in Ending(r) : z = [v EXCEPT !.finish = r.effective - 1]
          BY <2>2 DEF Ended
        <5> QED BY <5>1, UpdateRows DEF Written
      <4>2. CASE z \notin rows
        BY <1>3, <4>2, RowOrigin
      <4> QED BY <4>1, <4>2
    <3>2. /\ v \in Row /\ z.start = v.start /\ z.user = v.user
          /\ z.finish = r.effective - 1 /\ r.effective <= v.finish
      BY <1>1, <3>1 DEF Row, Ending, ActiveOn
    <3>3. ActiveOn(v, d)
      BY <1>1, <1>3, <3>2 DEF ActiveOn, Row, Dates, Forever
    <3> QED BY <3>1, <3>2, <3>3
  <2> QED BY <1>3, <2>1, <2>2, RowOrigin
<1>4. ASSUME NEW z \in Inserted(r), NEW w \in rows', w \notin Inserted(r),
             w.user = z.user, ActiveOn(z, d), ActiveOn(w, d)
      PROVE  FALSE
  <2>1. r.effective <= d /\ z.user \in Starting(r)
    BY <1>1, <1>4, InsertedRows DEF Update, ActiveOn
  <2>2. w \notin Ended(r)
    <3> SUFFICES ASSUME w \in Ended(r) PROVE FALSE
      OBVIOUS
    <3>1. w.finish = r.effective - 1
      BY <1>1, WrittenRows
    <3> QED BY <1>1, <1>4, <2>1, <3>1 DEF ActiveOn, Dates
  <2>3. w \in rows \ Written(r)
    BY <1>4, <2>2, UpdateRows
  <2>4. r.effective <= w.finish /\ w.start \in Dates /\ w.finish \in Dates \union {Forever}
    BY <1>1, <1>4, <2>1, <2>3 DEF ActiveOn, Row, Dates, Forever
  <2>5. CASE z.user \in MembersActive(rows, r.effective)
    <3>1. PICK v \in Ending(r) : v.user = w.user
      BY <1>4, <2>1, <2>5 DEF Starting
    <3>2. v \in rows /\ ActiveOn(v, r.effective) /\ v # w
      BY <2>3, <3>1 DEF Ending, Written
    <3>3. ~ ActiveOn(w, r.effective)
      BY <1>1, <2>3, <3>1, <3>2 DEF Disjoint, Overlapping
    <3>4. r.effective < w.start
      BY <1>1, <2>4, <3>3 DEF ActiveOn, Dates
    <3>5. w \in Purged(r)
      BY <1>4, <2>3, <2>4, <2>5, <3>4 DEF Purged, MembersFuture
    <3> QED BY <2>3, <3>5 DEF Written
  <2>6. CASE z.user \notin MembersActive(rows, r.effective)
    <3>1. MemberPositions(rows, z.user, r.effective) = {}
      BY <2>1, <2>6 DEF Starting
    <3> QED BY <1>4, <2>3, <2>4, <3>1 DEF MemberPositions
  <2> QED BY <2>5, <2>6
<1>5. CASE x \in Inserted(r) /\ y \in Inserted(r)
  BY <1>1, <1>5, InsertedRows DEF Update
<1>6. CASE x \notin Inserted(r) /\ y \notin Inserted(r)
  BY <1>2, <1>3, <1>6
<1> QED BY <1>4, <1>5, <1>6

\* No update of the table as it was read makes rows of a member overlap that
\* did not before.
THEOREM TermsStayDisjoint == TermsSpec => DisjointKept
<1>1. TypeOK /\ SnapshotCurrent /\ [TermsNext]_termVars =>
        [\A r \in running : Update(r) /\ r.read = rows =>
           (Disjoint(rows) => Disjoint(rows'))]_termVars
  BY DisjointStep
<1> QED BY <1>1, TypeCorrect, SnapshotsCurrent, PTL DEF TermsSpec, DisjointKept

\* Members not selected leave.
LEMMA LeaversStep ==
  ASSUME TypeOK, SnapshotCurrent, NEW r \in running, Update(r), r.read = rows,
         NEW u \in MembersActive(rows, r.effective), u \notin r.members,
         NEW d \in Dates, r.effective <= d
  PROVE  u \notin MembersActive(rows', d)
<1> SUFFICES ASSUME NEW y \in rows', y.user = u, ActiveOn(y, d)
             PROVE  FALSE
  BY DEF MembersActive
<1>1. r \in Request /\ rows \subseteq Row /\ r.effective \in Dates
  BY DEF TypeOK, Request
<1>2. y \notin Ended(r)
  <2> SUFFICES ASSUME y \in Ended(r) PROVE FALSE
    OBVIOUS
  <2>1. y.finish = r.effective - 1
    BY <1>1, WrittenRows
  <2> QED BY <1>1, <2>1 DEF ActiveOn, Dates
<1>3. y \notin Inserted(r)
  BY <1>1, InsertedRows DEF Update, Starting
<1>4. y \in rows \ Written(r)
  BY <1>2, <1>3, UpdateRows
<1>5. r.effective <= y.finish
  BY <1>1, <1>4 DEF ActiveOn, Row, Dates, Forever
<1>6. CASE y.start <= r.effective
  BY <1>4, <1>5, <1>6 DEF Written, Ending, ActiveOn
<1>7. CASE r.effective < y.start
  BY <1>4, <1>5, <1>7 DEF Written, Purged, MembersFuture
<1> QED BY <1>1, <1>4, <1>6, <1>7 DEF Row, Dates

\* Selected members who are in the position, or have no later row, serve with
\* the selected qualifier.
LEMMA SelectedStep ==
  ASSUME TypeOK, SnapshotCurrent, NEW r \in running, Update(r), r.read = rows,
         NEW u \in r.members,
         \/ u \in MembersActive(rows, r.effective)
         \/ MemberPositions(rows, u, r.effective) = {}
  PROVE  <<u, r.qualifier>> \in Holders(rows', r.effective)
<1>1. r \in Request /\ rows \subseteq Row /\ r.effective \in Dates
  BY DEF TypeOK, Request
<1>2. CASE u \in Starting(r)
  <2> DEFINE n == [user |-> u, slot |-> FreeSlot(rows, u), start |-> r.effective,
                   finish |-> Forever, qualifier |-> r.qualifier]
  <2>a. n \in Inserted(r) /\ n.user = u
    BY <1>2 DEF Inserted
  <2>1. PICK y \in Inserted(r) : y.user = u
    BY <2>a
  <2>2. y \in rows' /\ ActiveOn(y, r.effective) /\ y.qualifier = r.qualifier
    BY <1>1, InsertedRows, UpdateRows DEF Update, ActiveOn, Dates, Forever
  <2> QED BY <2>1, <2>2 DEF Holders
<1>3. CASE u \notin Starting(r)
  <2>1. PICK x \in rows : x.user = u /\ ActiveOn(x, r.effective)
    BY <1>3 DEF Starting, MembersActive
  <2>2. x \notin Ending(r)
    BY <1>3, <2>1 DEF Starting, MembersActive
  <2>3. x.qualifier = r.qualifier
    BY <2>1, <2>2 DEF Ending
  <2>4. x \notin Purged(r)
    BY <1>1, <2>1 DEF Purged, MembersFuture, ActiveOn, Row, Dates
  <2>5. x \in rows'
    BY <2>2, <2>4, UpdateRows DEF Written
  <2> QED BY <2>1, <2>3, <2>5 DEF Holders
<1> QED BY <1>2, <1>3

\* An update of the table as it was read does what the selection says.
THEOREM SelectionIsApplied == TermsSpec => SelectionApplied
<1>1. TypeOK /\ SnapshotCurrent /\ [TermsNext]_termVars =>
        [\A r \in running : Update(r) /\ r.read = rows =>
           /\ \A u \in MembersActive(rows, r.effective) \ r.members :
                \A d \in Dates : r.effective <= d => u \notin MembersActive(rows', d)
           /\ \A u \in r.members :
                \/ u \in MembersActive(rows, r.effective)
                \/ MemberPositions(rows, u, r.effective) = {}
                => <<u, r.qualifier>> \in Holders(rows', r.effective)]_termVars
  BY LeaversStep, SelectedStep
<1> QED BY <1>1, TypeCorrect, SnapshotsCurrent, PTL DEF TermsSpec, SelectionApplied

\* An update of the table as it was read leaves alone the rows of members who
\* are not selected and not in the position on its date.
THEOREM FutureMembersAreKept == TermsSpec => FutureMembersKept
<1>1. ASSUME TypeOK, SnapshotCurrent, NEW r \in running, Update(r), r.read = rows,
             NEW x \in rows, x.user \notin r.members \union MembersActive(rows, r.effective)
      PROVE  x \in rows'
  <2>1. x \notin Written(r)
    BY <1>1 DEF Written, Purged, Ending, MembersActive
  <2> QED BY <1>1, <2>1, UpdateRows
<1>2. TypeOK /\ SnapshotCurrent /\ [TermsNext]_termVars =>
        [\A r \in running : Update(r) /\ r.read = rows =>
           \A x \in rows :
             x.user \notin r.members \union MembersActive(rows, r.effective) => x \in rows']_termVars
  BY <1>1
<1> QED BY <1>2, TypeCorrect, SnapshotsCurrent, PTL DEF TermsSpec, FutureMembersKept
=============================================================================
