------------------------ MODULE MeetingInvitesProofs ------------------------
(***************************************************************************)
(* Proofs about MeetingInvites, for any members, RSVPs and number of       *)
(* requests running at once; and about MotionVotes and MeetingMails, which *)
(* build on it: votes stand and the links that were mailed lead to them    *)
(* and to invitations, whatever becomes of invitations and tags.           *)
(***************************************************************************)
EXTENDS MCMeeting, TLAPS

USE JobAssumption, ResponsesAssumption, BallotsAssumption

-----------------------------------------------------------------------------
(* The inductive invariant *)

\* A text that a request found is still there.
TextsStay == \A r \in running : r.texts <= texts

\* A running request has read every invitation that a request of its name created, so
\* what it adds is not there yet.
OwnRead == \A r \in running : \A i \in invites : i.by = r.id => Key(i) \in Keys(r.read)

IInv == TypeOK /\ SnapshotCurrent /\ InviteTextSaved /\ TextsStay /\ OwnRead

-----------------------------------------------------------------------------
(* The rows a request writes *)

\* What a request makes of the invitation i
After(r, i) == IF Key(i) \in Keys(Written(r)) THEN [i EXCEPT !.active = ActiveAfter(r, i)] ELSE i

\* An update changes the active flag of an invitation and nothing else.
LEMMA AfterRow ==
    ASSUME NEW r \in Request, NEW i \in Invite
    PROVE  /\ After(r, i) \in Invite /\ Key(After(r, i)) = Key(i)
           /\ After(r, i).user = i.user /\ After(r, i).by = i.by
           /\ After(r, i).response = i.response /\ After(r, i).attended = i.attended
           /\ Key(i) \notin Keys(Written(r)) => After(r, i) = i
           /\ Key(i) \in Keys(Written(r)) => After(r, i).active = ActiveAfter(r, i)
<1>1. ActiveAfter(r, i) \in BOOLEAN
  <2>1. i.active \in BOOLEAN /\ (i.user \in r.members) \in BOOLEAN
    BY DEF Invite
  <2> QED BY <2>1, Zenon DEF ActiveAfter
<1>2. CASE Key(i) \in Keys(Written(r))
  <2> DEFINE y == [i EXCEPT !.active = ActiveAfter(r, i)]
  <2>1. /\ y \in Invite /\ y.active = ActiveAfter(r, i) /\ y.user = i.user /\ y.by = i.by
        /\ y.response = i.response /\ y.attended = i.attended
    BY <1>1 DEF Invite
  <2>2. After(r, i) = y
    BY <1>2 DEF After
  <2> HIDE DEF y
  <2>3. Key(y) = Key(i)
    BY <2>1 DEF Key
  <2> QED BY <1>2, <2>1, <2>2, <2>3
<1>3. CASE Key(i) \notin Keys(Written(r))
  BY <1>3 DEF After
<1> QED BY <1>2, <1>3

LEMMA UpdatedRows ==
    ASSUME NEW r
    PROVE  Updated(r) = {After(r, i) : i \in invites}
BY DEF Updated, After

\* What is inserted is for members who had no invitation when the request read.
LEMMA AddedRows ==
    ASSUME NEW r \in Request
    PROVE  /\ Added(r) \subseteq Invite
           /\ \A i \in Added(r) :
                i.by = r.id /\ i.user \in NewUsers(r) /\ i.user \notin Invited(r.read)
           /\ \A i, j \in Added(r) : i.user = j.user => i = j
           /\ \A u \in NewUsers(r) : u \in Invited(Added(r))
<1> DEFINE new(u) == [user |-> u, by |-> r.id, active |-> TRUE, response |-> Pending,
                      attended |-> FALSE]
<1>1. r.id \in Ids /\ NewUsers(r) \subseteq Users /\ NewUsers(r) \intersect Invited(r.read) = {}
  BY DEF Request, NewUsers
<1>2. Added(r) = {new(u) : u \in NewUsers(r)}
  BY DEF Added
<1>3. \A u \in NewUsers(r) : new(u) \in Invite
  BY <1>1 DEF Invite
<1>4. \A u : new(u).user = u /\ new(u).by = r.id
  OBVIOUS
<1> HIDE DEF new
<1> QED BY <1>1, <1>2, <1>3, <1>4 DEF Invited

\* A key that was read is of a member who was found to be invited.
LEMMA ReadKeys ==
    ASSUME NEW r, NEW i, Key(i) \in Keys(r.read)
    PROVE  i.user \in Invited(r.read)
BY DEF Keys, Key, Invited

\* What is inserted is not in the table.
LEMMA AddedAreNew ==
    ASSUME IInv, NEW r \in running, NEW i \in Added(r)
    PROVE  Key(i) \notin Keys(invites)
<1>1. r \in Request
  BY DEF IInv, TypeOK
<1>2. i.by = r.id /\ i.user \notin Invited(r.read)
  BY <1>1, AddedRows
<1>3. ASSUME NEW j \in invites, Key(j) = Key(i) PROVE FALSE
  <2>1. j.by = r.id /\ j.user = i.user
    BY <1>2, <1>3 DEF Key
  <2>2. Key(j) \in Keys(r.read)
    BY <2>1 DEF IInv, OwnRead
  <2> QED BY <1>2, <2>1, <2>2, ReadKeys
<1> QED BY <1>3 DEF Keys

\* An update keeps the keys, and they tell invitations apart as before.
LEMMA CommitKeys ==
    ASSUME IInv, NEW r \in running, Commit(r)
    PROVE  /\ invites' \subseteq Invite
           /\ \A i, j \in invites' : Key(i) = Key(j) => i = j
           /\ Keys(invites) \subseteq Keys(invites')
<1>1. r \in Request /\ invites \subseteq Invite
  BY DEF IInv, TypeOK
<1>2. invites' = Updated(r) \union Added(r)
  BY DEF Commit
<1>3. \A i \in Updated(r) : i \in Invite /\ \E x \in invites : i = After(r, x) /\ Key(x) = Key(i)
  BY <1>1, AfterRow, UpdatedRows
<1>4. \A i, j \in Updated(r) : Key(i) = Key(j) => i = j
  BY <1>3 DEF IInv, TypeOK
<1>5. \A i, j \in Added(r) : Key(i) = Key(j) => i = j
  BY <1>1, AddedRows DEF Key
<1>6. \A i \in Updated(r), j \in Added(r) : Key(i) # Key(j)
  BY <1>3, AddedAreNew DEF Keys
<1>7. \A i \in invites : After(r, i) \in Updated(r) /\ Key(After(r, i)) = Key(i)
  BY <1>1, AfterRow, UpdatedRows
<1>8. Keys(invites) \subseteq Keys(invites')
  BY <1>2, <1>7 DEF Keys
<1>9. invites' \subseteq Invite
  BY <1>1, <1>2, <1>3, AddedRows
<1> QED BY <1>2, <1>4, <1>5, <1>6, <1>8, <1>9

-----------------------------------------------------------------------------
(* Requests that others wrote beside *)

\* A request that is told that the invitations with the keys K were written
Told(r, K) == [r EXCEPT !.stale = @ \union K]

\* Such a request is otherwise the same.
LEMMA OutdatedRequests ==
    ASSUME NEW R \in SUBSET Request, NEW K \in SUBSET (Users \X Ids)
    PROVE  /\ Outdated(R, K) = {Told(r, K) : r \in R}
           /\ \A r \in R : /\ Told(r, K) \in Request
                          /\ Told(r, K).id = r.id /\ Told(r, K).read = r.read
                          /\ Told(r, K).texts = r.texts /\ Told(r, K).stale = r.stale \union K
BY DEF Outdated, Told, Request

LEMMA KeysTyped ==
    ASSUME NEW I, \A i \in I : i.user \in Users /\ i.by \in Ids
    PROVE  Keys(I) \in SUBSET (Users \X Ids)
BY DEF Keys, Key

\* What the other requests rely on, when some invitations, with the keys K, are written
\* and others added.
LEMMA OthersStep ==
    ASSUME IInv, NEW R \in SUBSET running, NEW K \in SUBSET (Users \X Ids),
           running' = Outdated(R, K), texts' \in Nat, texts <= texts',
           Keys(invites) \subseteq Keys(invites'),
           \A j \in invites' :
              \/ j \in invites
              \/ Key(j) \in K /\ Key(j) \in Keys(invites)
              \/ Key(j) \notin Keys(invites) /\ \A r \in R : r.id # j.by
    PROVE  /\ running' \subseteq Request
           /\ \A r, o \in running' : r.id = o.id => r = o
           /\ SnapshotCurrent' /\ TextsStay' /\ OwnRead'
<1> USE DEF IInv
<1>1. R \subseteq Request
  BY DEF TypeOK
<1>2. /\ running' = {Told(r, K) : r \in R}
      /\ \A r \in R : /\ Told(r, K) \in Request
                     /\ Told(r, K).id = r.id /\ Told(r, K).read = r.read
                     /\ Told(r, K).texts = r.texts /\ Told(r, K).stale = r.stale \union K
  <2>1. R \in SUBSET Request /\ K \in SUBSET (Users \X Ids)
    BY <1>1
  <2>2. /\ Outdated(R, K) = {Told(r, K) : r \in R}
        /\ \A r \in R : /\ Told(r, K) \in Request
                       /\ Told(r, K).id = r.id /\ Told(r, K).read = r.read
                       /\ Told(r, K).texts = r.texts /\ Told(r, K).stale = r.stale \union K
    BY ONLY <2>1, OutdatedRequests, Zenon
  <2>3. running' = Outdated(R, K)
    OBVIOUS
  <2> QED BY ONLY <2>2, <2>3, Zenon
<1>3. running' \subseteq Request /\ \A r, o \in running' : r.id = o.id => r = o
  BY <1>2 DEF TypeOK
<1>4. SnapshotCurrent'
  <2> SUFFICES ASSUME NEW o \in running'
               PROVE  /\ Keys(o.read) \subseteq Keys(invites')
                      /\ \A i \in invites' : Key(i) \in Keys(o.read) \ o.stale =>
                            Glimpse(i) \in o.read
    BY DEF SnapshotCurrent
  <2>1. PICK r \in R : o.read = r.read /\ o.stale = r.stale \union K
    BY <1>2
  <2>2. /\ Keys(r.read) \subseteq Keys(invites)
        /\ \A i \in invites : Key(i) \in Keys(r.read) \ r.stale => Glimpse(i) \in r.read
    BY DEF SnapshotCurrent
  <2> QED BY <2>1, <2>2
<1>5. TextsStay'
  <2> SUFFICES ASSUME NEW o \in running' PROVE o.texts <= texts'
    BY DEF TextsStay
  <2>1. PICK r \in R : o.texts = r.texts
    BY <1>2
  <2>2. r.texts <= texts /\ r.texts \in Nat /\ texts \in Nat
    BY <1>1 DEF TextsStay, TypeOK, Request
  <2> QED BY <2>1, <2>2
<1>6. OwnRead'
  <2> SUFFICES ASSUME NEW o \in running', NEW j \in invites', j.by = o.id
               PROVE  Key(j) \in Keys(o.read)
    BY DEF OwnRead
  <2>1. PICK r \in R : o.id = r.id /\ o.read = r.read
    BY <1>2
  <2>2. CASE j \in invites
    BY <2>1, <2>2 DEF OwnRead
  <2>3. CASE Key(j) \in Keys(invites)
    <3>1. PICK i \in invites : Key(i) = Key(j)
      BY <2>3 DEF Keys
    <3>2. i.by = r.id
      BY <2>1, <3>1 DEF Key
    <3> QED BY <2>1, <3>1, <3>2 DEF OwnRead
  <2> QED BY <2>1, <2>2, <2>3
<1> QED BY <1>3, <1>4, <1>5, <1>6

-----------------------------------------------------------------------------
(* One step for each kind of action *)

\* A request reads all there is.
LEMMA BeginStep ==
    ASSUME IInv, NEW i \in Ids, NEW k \in Kinds, NEW M \in SUBSET Users, Begin(i, k, M)
    PROVE  IInv'
<1> USE DEF IInv
<1> DEFINE new == [id |-> i, kind |-> k, members |-> M, read |-> {Glimpse(j) : j \in invites},
                   texts |-> texts, items |-> attendees, stale |-> {}]
<1>1. /\ running' = running \union {new} /\ \A r \in running : r.id # i
      /\ UNCHANGED <<invitees, invites, texts, attendees>>
  BY DEF Begin
<1>2. \A j \in invites : Glimpse(j) \in Seen /\ Key(Glimpse(j)) = Key(j)
  BY DEF TypeOK, Glimpse, Seen, Invite, Key
<1>3. new \in Request
  BY <1>2 DEF Request, TypeOK
<1>4. /\ new.id = i /\ new.read = {Glimpse(j) : j \in invites} /\ new.texts = texts
  OBVIOUS
<1> HIDE DEF new
<1>5. Keys(new.read) = Keys(invites) /\ \A j \in invites : Glimpse(j) \in new.read
  BY <1>2, <1>4 DEF Keys
<1>6. TypeOK'
  BY <1>1, <1>3, <1>4 DEF TypeOK
<1>7. SnapshotCurrent'
  BY <1>1, <1>5 DEF SnapshotCurrent
<1>8. InviteTextSaved' /\ TextsStay'
  BY <1>1, <1>4 DEF InviteTextSaved, TextsStay, TypeOK
<1>9. OwnRead'
  BY <1>1, <1>5 DEF OwnRead, Keys
<1> QED BY <1>6, <1>7, <1>8, <1>9

\* A request that fails leaves no trace.
LEMMA FailStep ==
    ASSUME IInv, NEW r \in running, Fail(r)
    PROVE  IInv'
BY DEF IInv, Fail, TypeOK, SnapshotCurrent, InviteTextSaved, TextsStay, OwnRead

\* Where a request commits there is a text of the mail, if there is an invitation.
LEMMA CommitText ==
    ASSUME IInv, NEW r \in running, Commit(r)
    PROVE  texts' \in Nat /\ attendees' \in Nat /\ texts <= texts' /\ InviteTextSaved'
<1> USE DEF IInv
<1>1. r \in Request /\ r.texts \in Nat /\ r.texts <= texts /\ texts \in Nat /\ attendees \in Nat
  BY DEF TypeOK, Request, TextsStay
<1>2. /\ texts' = texts + (IF Saves(r) /\ r.texts = 0 THEN 1 ELSE 0)
      /\ attendees' = attendees + (IF WantsItem(r) /\ r.items = 0 THEN 1 ELSE 0)
      /\ invites' = Updated(r) \union Added(r) /\ ~ Refused(r)
  BY DEF Commit
<1>3. texts' \in Nat /\ attendees' \in Nat /\ texts <= texts'
  BY <1>1, <1>2
<1>4. CASE invites # {}
  BY <1>1, <1>3, <1>4 DEF InviteTextSaved
<1>5. CASE invites = {} /\ NewUsers(r) # {}
  <2>1. CASE Saves(r)
    BY <1>1, <1>2, <2>1 DEF InviteTextSaved
  <2>2. CASE ~ Saves(r)
    BY <1>1, <1>2, <1>5, <2>2 DEF InviteTextSaved, Refused
  <2> QED BY <1>3, <2>1, <2>2
<1>6. CASE invites = {} /\ NewUsers(r) = {}
  <2>1. Updated(r) = {} /\ Added(r) = {}
    BY <1>6, UpdatedRows DEF Added
  <2> QED BY <1>2, <1>3, <2>1 DEF InviteTextSaved
<1> QED BY <1>3, <1>4, <1>5, <1>6

\* What other requests see of the rows a request commits.
LEMMA CommitRows ==
    ASSUME IInv, NEW r \in running, Commit(r)
    PROVE  /\ Keys(Written(r)) \in SUBSET (Users \X Ids)
           /\ \A j \in invites' :
                \/ j \in invites
                \/ Key(j) \in Keys(Written(r)) /\ Key(j) \in Keys(invites)
                \/ Key(j) \notin Keys(invites) /\ j.by = r.id
<1>1. r \in Request /\ invites \subseteq Invite
  BY DEF IInv, TypeOK
<1>2. Keys(Written(r)) \in SUBSET (Users \X Ids)
  <2>1. \A i \in Written(r) : i.user \in Users /\ i.by \in Ids
    BY <1>1 DEF Written, Request, Seen
  <2> QED BY <2>1, KeysTyped
<1>3. ASSUME NEW j \in Updated(r)
      PROVE  j \in invites \/ (Key(j) \in Keys(Written(r)) /\ Key(j) \in Keys(invites))
  <2>1. PICK i \in invites : j = After(r, i)
    BY UpdatedRows
  <2>2. /\ Key(j) = Key(i) /\ Key(i) \in Keys(invites)
        /\ Key(i) \notin Keys(Written(r)) => j = i
    BY <1>1, <2>1, AfterRow DEF Keys
  <2> QED BY <2>2
<1>4. ASSUME NEW j \in Added(r)
      PROVE  Key(j) \notin Keys(invites) /\ j.by = r.id
  BY <1>1, AddedRows, AddedAreNew
<1> QED BY <1>2, <1>3, <1>4 DEF Commit

\* A request writes what it found to do.
LEMMA CommitStep ==
    ASSUME IInv, NEW r \in running, Commit(r)
    PROVE  IInv'
<1> DEFINE R == running \ {r}
           K == Keys(Written(r))
<1>1. /\ running' = Outdated(R, K) /\ invitees' = invitees
      /\ R \in SUBSET running /\ K \in SUBSET (Users \X Ids)
      /\ \A o \in R : o.id # r.id
  BY CommitRows DEF Commit, IInv, TypeOK
<1>2. /\ texts' \in Nat /\ attendees' \in Nat /\ texts <= texts' /\ InviteTextSaved'
  BY CommitText
<1>3. /\ invites' \subseteq Invite
      /\ \A i, j \in invites' : Key(i) = Key(j) => i = j
      /\ Keys(invites) \subseteq Keys(invites')
  BY CommitKeys
<1>4. \A j \in invites' :
         \/ j \in invites
         \/ Key(j) \in K /\ Key(j) \in Keys(invites)
         \/ Key(j) \notin Keys(invites) /\ \A o \in R : o.id # j.by
  BY <1>1, CommitRows
<1> HIDE DEF R, K
<1>5. /\ running' \subseteq Request
      /\ \A a, o \in running' : a.id = o.id => a = o
      /\ SnapshotCurrent' /\ TextsStay' /\ OwnRead'
  BY <1>1, <1>2, <1>3, <1>4, OthersStep
<1>6. TypeOK'
  BY <1>1, <1>2, <1>3, <1>5 DEF TypeOK, IInv
<1> QED BY <1>2, <1>5, <1>6 DEF IInv

\* One invitation is written by itself and keeps its key.
LEMMA WriteStep ==
    ASSUME IInv, NEW i \in invites, NEW j \in Invite, Key(j) = Key(i), Write(i, j)
    PROVE  IInv'
<1> USE DEF IInv
<1> DEFINE K == {Key(i)}
<1>1. /\ invites' = (invites \ {i}) \union {j}
      /\ running' = Outdated(running, K)
      /\ UNCHANGED <<invitees, texts, attendees>>
  BY DEF Write
<1>2. K \in SUBSET (Users \X Ids)
  BY DEF TypeOK, Invite, Key
<1>3. /\ invites' \subseteq Invite
      /\ \A a, b \in invites' : Key(a) = Key(b) => a = b
      /\ Keys(invites) \subseteq Keys(invites')
  BY <1>1 DEF TypeOK, Keys
<1>4. \A b \in invites' : b \in invites \/ (Key(b) \in K /\ Key(b) \in Keys(invites))
  BY <1>1 DEF Keys
<1>5. texts' \in Nat /\ texts <= texts'
  BY <1>1 DEF TypeOK
<1>6. /\ running' \subseteq Request
      /\ \A a, o \in running' : a.id = o.id => a = o
      /\ SnapshotCurrent' /\ TextsStay' /\ OwnRead'
  BY <1>1, <1>2, <1>3, <1>4, <1>5, OthersStep
<1>7. TypeOK' /\ InviteTextSaved'
  BY <1>1, <1>3, <1>6 DEF TypeOK, InviteTextSaved
<1> QED BY <1>6, <1>7

LEMMA EditStep ==
    ASSUME IInv, EditNext
    PROVE  IInv'
<1>1. PICK i \in invites, v \in Responses :
         \/ AnswerMyMeeting(i, v) \/ AnswerRsvp(i, v)
         \/ \E a, on \in BOOLEAN : EditInvite(i, v, a, on)
  BY DEF EditNext
<1>2. i \in Invite
  BY DEF IInv, TypeOK
<1>3. ASSUME NEW a \in BOOLEAN, NEW on \in BOOLEAN,
             NEW j, j = [i EXCEPT !.response = v, !.attended = a, !.active = on]
      PROVE  j \in Invite /\ Key(j) = Key(i)
  BY <1>2, <1>3 DEF Invite, Key
<1>4. ASSUME NEW a \in BOOLEAN, NEW j, j = [i EXCEPT !.response = v, !.attended = a]
      PROVE  j \in Invite /\ Key(j) = Key(i)
  BY <1>2, <1>4 DEF Invite, Key
<1>5. ASSUME NEW j, j = [i EXCEPT !.response = v]
      PROVE  j \in Invite /\ Key(j) = Key(i)
  BY <1>2, <1>5 DEF Invite, Key
<1>6. (v = Attending) \in BOOLEAN
  OBVIOUS
<1> QED BY <1>1, <1>3, <1>4, <1>5, <1>6, WriteStep DEF AnswerMyMeeting, AnswerRsvp, EditInvite

LEMMA DeleteStep ==
    ASSUME IInv, NEW I \in SUBSET invites, DeleteAttendees(I)
    PROVE  IInv'
<1> USE DEF IInv
<1>1. /\ running' = Outdated(running, Keys(I)) /\ attendees' = attendees - 1 /\ attendees > 0
      /\ UNCHANGED <<invitees, invites, texts>>
  BY DEF DeleteAttendees
<1>2. Keys(I) \in SUBSET (Users \X Ids)
  <2>1. \A i \in I : i.user \in Users /\ i.by \in Ids
    BY DEF TypeOK, Invite
  <2> QED BY <2>1, KeysTyped
<1>3. texts' \in Nat /\ texts <= texts' /\ attendees' \in Nat
  BY <1>1 DEF TypeOK
<1>4. /\ running' \subseteq Request
      /\ \A a, o \in running' : a.id = o.id => a = o
      /\ SnapshotCurrent' /\ TextsStay' /\ OwnRead'
  BY <1>1, <1>2, <1>3, OthersStep
<1> QED BY <1>1, <1>3, <1>4 DEF TypeOK, InviteTextSaved

-----------------------------------------------------------------------------
(* The theorems *)

LEMMA InitIInv == Init => IInv
BY DEF Init, IInv, TypeOK, SnapshotCurrent, InviteTextSaved, TextsStay, OwnRead

LEMMA RequestsStep ==
    ASSUME IInv, RequestsNext
    PROVE  IInv'
<1>1. invitees \in SUBSET Users
  BY DEF IInv, TypeOK
<1>2. ASSUME NEW i \in Requests, Send(i) \/ Discuss(i) \/ \E M \in SUBSET Users : Remind(i, M)
      PROVE  IInv'
  BY <1>1, <1>2, BeginStep DEF Send, Discuss, Remind, Ids, Kinds, WebKinds
<1>3. CASE Nightly
  BY <1>1, <1>3, BeginStep DEF Nightly, Ids, Kinds
<1> QED BY <1>2, <1>3, CommitStep, FailStep DEF RequestsNext

LEMMA NextIInv == IInv /\ [Next]_vars => IInv'
<1> SUFFICES ASSUME IInv, [Next]_vars PROVE IInv'
  OBVIOUS
<1>1. ASSUME NEW M \in SUBSET Users, ChangeInvitees(M) PROVE IInv'
  BY <1>1 DEF ChangeInvitees, IInv, TypeOK, SnapshotCurrent, InviteTextSaved, TextsStay, OwnRead
<1>2. CASE UNCHANGED vars
  BY <1>2 DEF vars, IInv, TypeOK, SnapshotCurrent, InviteTextSaved, TextsStay, OwnRead
<1> QED BY <1>1, <1>2, RequestsStep, EditStep, DeleteStep DEF Next

\* What running requests rely on holds at all times.
THEOREM Invariant == Spec => []IInv
BY InitIInv, NextIInv, PTL DEF Spec

\* Invitations and requests are well formed, and keys tell invitations apart: a request
\* never inserts an invitation that a request of its name inserted before.
THEOREM TypeCorrect == Spec => []TypeOK
<1>1. IInv => TypeOK
  BY DEF IInv
<1> QED BY <1>1, Invariant, PTL

\* Invitations are never lost, and what a request read and nobody wrote since is so still.
THEOREM SnapshotsCurrent == Spec => []SnapshotCurrent
<1>1. IInv => SnapshotCurrent
  BY DEF IInv
<1> QED BY <1>1, Invariant, PTL

\* Where there are invitations there is a text of the invitation mail.
THEOREM TextsAreSaved == Spec => []InviteTextSaved
<1>1. IInv => InviteTextSaved
  BY DEF IInv
<1> QED BY <1>1, Invariant, PTL

\* Requests keep every invitation with the answer and the attendance in it.
THEOREM AnswersAreKept == Spec => AnswersKept
<1>1. ASSUME IInv, RequestsNext, NEW i \in invites
      PROVE  \E j \in invites' :
                Key(j) = Key(i) /\ j.response = i.response /\ j.attended = i.attended
  <2>1. CASE invites' = invites
    BY <2>1
  <2>2. ASSUME NEW r \in running, Commit(r)
        PROVE  \E j \in invites' :
                  Key(j) = Key(i) /\ j.response = i.response /\ j.attended = i.attended
    <3>1. r \in Request /\ i \in Invite
      BY <1>1 DEF IInv, TypeOK
    <3>2. After(r, i) \in invites'
      BY <2>2, UpdatedRows DEF Commit
    <3> QED BY <3>1, <3>2, AfterRow
  <2> QED BY <1>1, <2>1, <2>2 DEF RequestsNext, Send, Discuss, Remind, Nightly, Begin, Fail
<1>2. IInv /\ [Next]_vars =>
        [RequestsNext =>
           \A i \in invites : \E j \in invites' :
             /\ Key(j) = Key(i)
             /\ j.response = i.response /\ j.attended = i.attended]_vars
  BY <1>1
<1> QED BY <1>2, Invariant, PTL DEF Spec, AnswersKept

\* A request after whose readings nobody added an invitation gives nobody a second one.
THEOREM NobodyIsInvitedTwice == Spec => OneInviteEach
<1>1. ASSUME IInv, NEW r \in running, Commit(r), Keys(r.read) = Keys(invites),
             NEW u \in Users, Doubled(invites', u)
      PROVE  Doubled(invites, u)
  <2>1. r \in Request /\ invites \subseteq Invite /\ invites' = Updated(r) \union Added(r)
    BY <1>1 DEF IInv, TypeOK, Commit
  <2>2. PICK i, j \in invites' : i # j /\ i.user = u /\ j.user = u
    BY <1>1 DEF Doubled
  <2>3. ASSUME NEW y \in Updated(r), y.user = u
        PROVE  u \in Invited(r.read) /\ \E x \in invites : y = After(r, x) /\ x.user = u
    <3>1. PICK x \in invites : y = After(r, x)
      BY UpdatedRows
    <3>2. x.user = u
      BY <2>1, <2>3, <3>1, AfterRow
    <3>3. Key(x) \in Keys(r.read)
      BY <1>1 DEF Keys
    <3> QED BY <3>1, <3>2, <3>3, ReadKeys
  <2>4. ASSUME NEW y \in Added(r), y.user = u
        PROVE  u \notin Invited(r.read)
    BY <2>1, <2>4, AddedRows
  <2>5. CASE i \in Updated(r) /\ j \in Updated(r)
    BY <2>2, <2>3, <2>5 DEF Doubled
  <2>6. CASE i \in Added(r) /\ j \in Added(r)
    BY <2>1, <2>2, <2>6, AddedRows
  <2> QED BY <2>1, <2>2, <2>3, <2>4, <2>5, <2>6
<1>2. IInv /\ [Next]_vars =>
        [\A r \in running : Commit(r) /\ Keys(r.read) = Keys(invites) =>
           \A u \in Users : Doubled(invites', u) => Doubled(invites, u)]_vars
  BY <1>1
<1> QED BY <1>2, Invariant, PTL DEF Spec, OneInviteEach

\* When invitations have been generated, those that the request knew and nobody wrote
\* meanwhile are active just for the members whom the invite tags stood for.
THEOREM ActiveFlagsFollowTags == Spec => ActiveFollowsTags
<1>1. ASSUME IInv, NEW r \in running, Commit(r), Generates(r)
      PROVE  /\ r.members \subseteq Invited(invites')
             /\ \A i \in invites' :
                  Key(i) \in Keys(r.read) \ r.stale => (i.active <=> i.user \in r.members)
  <2>1. r \in Request /\ invites \subseteq Invite /\ invites' = Updated(r) \union Added(r)
    BY <1>1 DEF IInv, TypeOK, Commit
  <2>2. ASSUME NEW u \in r.members
        PROVE  u \in Invited(invites')
    <3>1. CASE u \in NewUsers(r)
      BY <2>1, <3>1, AddedRows DEF Invited
    <3>2. CASE u \in Invited(r.read)
      <4>1. PICK s \in r.read : s.user = u
        BY <3>2 DEF Invited
      <4>2. Key(s) \in Keys(invites)
        BY <1>1 DEF IInv, SnapshotCurrent, Keys
      <4>3. PICK x \in invites : Key(x) = Key(s)
        BY <4>2 DEF Keys
      <4>4. x.user = u
        BY <4>1, <4>3 DEF Key
      <4>5. After(r, x) \in invites' /\ After(r, x).user = u
        BY <2>1, <4>4, UpdatedRows, AfterRow
      <4> QED BY <4>5 DEF Invited
    <3> QED BY <3>1, <3>2 DEF NewUsers
  <2>3. ASSUME NEW i \in invites', Key(i) \in Keys(r.read) \ r.stale
        PROVE  i.active <=> i.user \in r.members
    <3>1. i \notin Added(r)
      BY <2>1, <2>3, AddedRows, ReadKeys
    <3>2. PICK x \in invites : i = After(r, x)
      BY <2>1, <3>1, UpdatedRows
    <3>3. x \in Invite /\ Key(x) = Key(i) /\ x.user = i.user
      BY <2>1, <3>2, AfterRow
    <3>4. Glimpse(x) \in r.read
      BY <1>1, <2>3, <3>3 DEF IInv, SnapshotCurrent
    <3>5. CASE Key(x) \in Keys(Written(r))
      <4>1. i.active = ActiveAfter(r, x)
        BY <2>1, <3>2, <3>3, <3>5, AfterRow
      <4> QED BY <1>1, <3>3, <4>1 DEF ActiveAfter
    <3>6. CASE Key(x) \notin Keys(Written(r))
      <4> DEFINE s == Glimpse(x)
      <4>1. s.user = x.user /\ s.active = x.active /\ Key(s) = Key(x)
        BY DEF Glimpse, Key
      <4>2. s \notin Written(r)
        BY <3>6, <4>1 DEF Keys
      <4>3. s.active = ActiveAfter(r, s)
        BY <1>1, <3>4, <4>2 DEF Written
      <4>4. s.active = (s.user \in r.members)
        BY <1>1, <4>3 DEF ActiveAfter
      <4>5. i = x
        BY <2>1, <3>2, <3>3, <3>6, AfterRow
      <4> HIDE DEF s
      <4> QED BY <4>1, <4>4, <4>5
    <3> QED BY <3>5, <3>6
  <2> QED BY <2>2, <2>3
<1>2. IInv /\ [Next]_vars =>
        [\A r \in running : Commit(r) /\ Generates(r) =>
           /\ r.members \subseteq Invited(invites')
           /\ \A i \in invites' :
                Key(i) \in Keys(r.read) \ r.stale => (i.active <=> i.user \in r.members)]_vars
  BY <1>1
<1> QED BY <1>2, Invariant, PTL DEF Spec, ActiveFollowsTags

-----------------------------------------------------------------------------
(* Motions and votes: the inductive invariant *)

Asking == [motion : Motions, stage : {"dialog", "sending", "sent"}, members : SUBSET Users,
           left : SUBSET Users, found : SUBSET Link, gone : BOOLEAN]

\* A link leads to a vote, unless that was removed by hand.
Leads(l) == l \in removed \/ l \in LinksOf(l.motion)

\* The links k and l do not both lead a member to a vote.
Replaced(k, l) == k.motion = l.motion /\ k.user = l.user => k = l \/ {k, l} \intersect removed # {}

\* Votes are on motions there are, with links of their own, and those made with the motion
\* are of invited members.
VotesSound ==
  /\ voters \subseteq Users /\ motions \subseteq Motions /\ votes \subseteq Vote
  /\ made \in 0 .. MaxHand
  /\ \A v \in votes :
       /\ v.link.motion \in motions
       /\ v.link.hand = 0 => v.link.user \in Invited(invites)
       /\ v.link.hand <= made
       /\ \A w \in votes : w.link = v.link => w = v

LinksSound == \A l \in mailed : Leads(l) /\ \A k \in mailed : Replaced(k, l)

\* What a request has found: votes of its motion, still there if not removed; who has one vote
\* only was mailed no other link that leads anywhere; and who is not left has the mail.
FoundSound ==
  /\ \A l \in asking.found : l.motion = asking.motion /\ Leads(l)
  /\ \A l \in asking.found, k \in mailed : IsOnly(l, l.user, asking.found) => Replaced(k, l)
  /\ \A u \in asking.members \ asking.left : \E l \in mailed : IsOnly(l, u, asking.found)

AskingSound ==
  asking # NoAsk =>
    /\ asking \in Asking
    /\ ~ asking.gone =>
         /\ asking.stage \in {"sending", "sent"} => FoundSound
         /\ asking.stage = "sent" => asking.left = {}

VInv == VotesSound /\ LinksSound /\ AskingSound

-----------------------------------------------------------------------------
(* Invitations *)

LEMMA EditKeys ==
  ASSUME IInv, EditNext
  PROVE  Keys(invites') = Keys(invites)
<1>1. PICK i \in invites, v \in Responses :
         \/ AnswerMyMeeting(i, v) \/ AnswerRsvp(i, v)
         \/ \E a, on \in BOOLEAN : EditInvite(i, v, a, on)
  BY DEF EditNext
<1>2. i \in Invite
  BY DEF IInv, TypeOK
<1>3. ASSUME NEW j, Write(i, j), Key(j) = Key(i)
      PROVE  Keys(invites') = Keys(invites)
  BY <1>3 DEF Write, Keys
<1>4. CASE AnswerMyMeeting(i, v)
  BY <1>2, <1>3, <1>4 DEF AnswerMyMeeting, Invite, Key
<1>5. CASE AnswerRsvp(i, v)
  BY <1>2, <1>3, <1>5 DEF AnswerRsvp, Invite, Key
<1>6. ASSUME NEW a \in BOOLEAN, NEW on \in BOOLEAN, EditInvite(i, v, a, on)
      PROVE  Keys(invites') = Keys(invites)
  BY <1>2, <1>3, <1>6 DEF EditInvite, Invite, Key
<1> QED BY <1>1, <1>4, <1>5, <1>6

\* Whatever is done with invitations, none is lost and nobody who was invited is without one.
LEMMA InvitedStay ==
  ASSUME IInv, Next
  PROVE  Keys(invites) \subseteq Keys(invites') /\ Invited(invites) \subseteq Invited(invites')
<1>1. Keys(invites) \subseteq Keys(invites')
  <2>1. CASE UNCHANGED invites
    BY <2>1
  <2> QED BY <2>1, CommitKeys, EditKeys DEF Next, RequestsNext, Send, Discuss, Remind, Nightly, Begin,
             Fail, DeleteAttendees, ChangeInvitees
<1>2. ASSUME NEW i \in invites PROVE i.user \in Invited(invites')
  <2>1. PICK j \in invites' : Key(j) = Key(i)
    BY <1>1 DEF Keys
  <2>2. j.user = i.user
    BY <2>1 DEF Key
  <2> QED BY <2>2 DEF Invited
<1> QED BY <1>1, <1>2 DEF Invited

-----------------------------------------------------------------------------
(* Each step of the motions keeps the invariant *)

LEMMA InitVInv == VotesInit => VInv
BY MaxHandAssumption DEF VotesInit, VInv, VotesSound, LinksSound, AskingSound

\* Where mails stand still, links stay sound if they lead on.
LEMMA LinksStay ==
  ASSUME LinksSound, AskingSound, UNCHANGED <<mailed, asking>>, removed \subseteq removed',
         \A l : Leads(l) => Leads(l)'
  PROVE  LinksSound' /\ AskingSound'
<1>1. \A k, l : Replaced(k, l) => Replaced(k, l)'
  BY DEF Replaced
<1>2. LinksSound'
  BY <1>1 DEF LinksSound
<1>3. FoundSound => FoundSound'
  BY <1>1 DEF FoundSound
<1> QED BY <1>2, <1>3 DEF AskingSound

\* So do they if no vote and no motion changes.
LEMMA VotesStay ==
  ASSUME VotesSound, UNCHANGED <<voters, motions, votes, made>>,
         Invited(invites) \subseteq Invited(invites')
  PROVE  VotesSound'
BY DEF VotesSound

LEMMA ChangeVotersStep ==
  ASSUME VInv, NEW V \in SUBSET Users, ChangeVoters(V), UNCHANGED vars
  PROVE  VInv'
<1>1. UNCHANGED <<motions, votes, asking, mailed, made, removed, invites>> /\ voters' \subseteq Users
  BY DEF ChangeVoters, askVars, handVars, vars
<1>2. VotesSound'
  BY <1>1 DEF VInv, VotesSound, Invited
<1>3. \A l : Leads(l) => Leads(l)'
  BY <1>1 DEF Leads, LinksOf
<1> QED BY <1>1, <1>2, <1>3, LinksStay DEF VInv

LEMMA CreateStep ==
  ASSUME VInv, NEW m \in Motions, CreateMotion(m), UNCHANGED vars
  PROVE  VInv'
<1> DEFINE new(u) == [link |-> LinkTo(m, u, 0), vote |-> IF Attended(u) THEN Approved ELSE NoVote]
<1>1. /\ m \notin motions /\ motions' = motions \union {m}
      /\ votes' = votes \union {new(u) : u \in Voting}
      /\ UNCHANGED <<voters, asking, mailed, made, removed, invites>>
  BY DEF CreateMotion, askVars, handVars, vars
<1>2. Voting \subseteq Users /\ Voting \subseteq Invited(invites)
  BY DEF VInv, VotesSound, Voting
<1>3. \A u \in Voting : /\ new(u) \in Vote /\ new(u).link.motion = m
                        /\ new(u).link.user = u /\ new(u).link.hand = 0
  BY <1>2, BallotsAssumption, MaxHandAssumption DEF Vote, Link, LinkTo
<1>4. \A v \in votes : v.link.motion \in motions /\ v.link.motion # m
  BY <1>1 DEF VInv, VotesSound
<1>5. \A u, w \in Voting : new(u).link = new(w).link => new(u) = new(w)
  BY <1>3
<1> HIDE DEF new
<1>6. VotesSound'
  <2>1. made \in 0 .. MaxHand
    BY DEF VInv, VotesSound
  <2>2. ASSUME NEW v \in votes'
        PROVE  /\ v \in Vote /\ v.link.motion \in motions'
               /\ v.link.hand = 0 => v.link.user \in Invited(invites)
               /\ v.link.hand <= made
               /\ \A w \in votes' : w.link = v.link => w = v
    BY <1>1, <1>2, <1>3, <1>4, <1>5, <2>1 DEF VInv, VotesSound
  <2>3. Invited(invites') = Invited(invites)
    BY <1>1
  <2> QED BY <1>1, <2>1, <2>2, <2>3 DEF VInv, VotesSound
<1>7. \A l : Leads(l) => Leads(l)'
  BY <1>1 DEF Leads, LinksOf
<1> QED BY <1>1, <1>6, <1>7, LinksStay DEF VInv

LEMMA DeleteStepVotes ==
  ASSUME VInv, NEW m \in motions, DeleteMotion(m), UNCHANGED vars
  PROVE  VInv'
<1>1. /\ motions' = motions \ {m} /\ votes' = {v \in votes : v.link.motion # m}
      /\ mailed' = {l \in mailed : l.motion # m}
      /\ removed' = {l \in removed : l.motion # m}
      /\ asking' = IF asking # NoAsk /\ asking.motion = m THEN [asking EXCEPT !.gone = TRUE]
                   ELSE asking
      /\ UNCHANGED <<voters, made, invites>>
  BY DEF DeleteMotion, vars
<1>2. \A l : l.motion # m /\ Leads(l) => Leads(l)'
  BY <1>1 DEF Leads, LinksOf
<1>3. \A k, l : k.motion # m /\ l.motion # m /\ Replaced(k, l) => Replaced(k, l)'
  BY <1>1 DEF Replaced
<1>4. VotesSound'
  BY <1>1 DEF VInv, VotesSound
<1>5. LinksSound'
  BY <1>1, <1>2, <1>3 DEF VInv, LinksSound
<1>6. CASE asking # NoAsk /\ asking.motion = m
  <2>1. asking \in Asking /\ asking' = [asking EXCEPT !.gone = TRUE]
    BY <1>1, <1>6 DEF VInv, AskingSound
  <2>2. asking' \in Asking /\ asking'.gone
    BY <2>1 DEF Asking
  <2> QED BY <1>4, <1>5, <2>2 DEF VInv, AskingSound
<1>7. CASE ~ (asking # NoAsk /\ asking.motion = m)
  <2>1. asking' = asking
    BY <1>1, <1>7
  <2>2. ASSUME asking # NoAsk, FoundSound PROVE FoundSound'
    <3>1. \A l \in asking.found : l.motion = asking.motion /\ l.motion # m /\ Leads(l)'
      BY <1>2, <1>7, <2>2 DEF FoundSound
    <3>2. \A l, u : IsOnly(l, u, asking.found) => l \in asking.found
      BY DEF IsOnly
    <3>3. mailed' \subseteq mailed /\ \A k \in mailed' : k.motion # m
      BY <1>1
    <3>4. \A l \in asking.found, k \in mailed' :
            IsOnly(l, l.user, asking.found) => Replaced(k, l)'
      BY <1>3, <2>2, <3>1, <3>3 DEF FoundSound
    <3>5. \A u \in asking.members \ asking.left : \E l \in mailed' : IsOnly(l, u, asking.found)
      BY <1>1, <2>2, <3>1, <3>2 DEF FoundSound
    <3> QED BY <2>1, <3>1, <3>4, <3>5 DEF FoundSound
  <2> QED BY <1>4, <1>5, <2>1, <2>2 DEF VInv, AskingSound
<1> QED BY <1>6, <1>7

LEMMA CastStep ==
  ASSUME VInv, NEW v \in votes, NEW b \in Ballots, CastVote(v, b), UNCHANGED vars
  PROVE  VInv'
<1> DEFINE y == [v EXCEPT !.vote = b]
<1>1. y \in Vote /\ y.link = v.link
  BY DEF VInv, VotesSound, Vote
<1>2. votes' = (votes \ {v}) \union {y} /\ UNCHANGED <<voters, motions, asking, mailed, made, removed, invites>>
  BY DEF CastVote, askVars, handVars, vars
<1> HIDE DEF y
<1>3. VotesSound'
  <2>1. ASSUME NEW x \in votes'
        PROVE  /\ x \in Vote /\ x.link.motion \in motions'
               /\ x.link.hand = 0 => x.link.user \in Invited(invites)
               /\ x.link.hand <= made
               /\ \A w \in votes' : w.link = x.link => w = x
    BY <1>1, <1>2 DEF VInv, VotesSound
  <2>2. Invited(invites') = Invited(invites)
    BY <1>2
  <2> QED BY <1>2, <2>1, <2>2 DEF VInv, VotesSound
<1>4. \A l : Leads(l) => Leads(l)'
  BY <1>1, <1>2 DEF Leads, LinksOf
<1> QED BY <1>2, <1>3, <1>4, LinksStay DEF VInv

LEMMA AddStep ==
  ASSUME VInv, NEW m \in motions, NEW u \in Users \union {Nobody}, NEW b \in Ballots,
         AddVote(m, u, b), UNCHANGED vars
  PROVE  VInv'
<1> DEFINE n == [link |-> LinkTo(m, u, made'), vote |-> b]
<1>1. /\ made < MaxHand /\ made' = made + 1 /\ votes' = votes \union {n}
      /\ UNCHANGED <<voters, motions, asking, mailed, removed, invites>>
  BY DEF AddVote, askVars, vars
<1>2. made \in 0 .. MaxHand /\ MaxHand \in Nat
  BY MaxHandAssumption DEF VInv, VotesSound
<1>3. made' \in 0 .. MaxHand /\ made' # 0
  BY <1>1, <1>2
<1>4. n \in Vote /\ n.link.motion = m /\ n.link.hand = made'
  BY <1>3 DEF Vote, Link, LinkTo, VInv, VotesSound
<1>5. \A v \in votes : v.link.hand \in Nat /\ v.link.hand <= made
  BY DEF VInv, VotesSound, Vote, Link
<1> HIDE DEF n
<1>6. VotesSound'
  <2>1. ASSUME NEW v \in votes'
        PROVE  /\ v \in Vote /\ v.link.motion \in motions
               /\ v.link.hand = 0 => v.link.user \in Invited(invites)
               /\ v.link.hand <= made'
               /\ \A w \in votes' : w.link = v.link => w = v
    BY <1>1, <1>2, <1>3, <1>4, <1>5 DEF VInv, VotesSound
  <2>2. Invited(invites') = Invited(invites)
    BY <1>1
  <2> QED BY <1>1, <1>3, <2>1, <2>2 DEF VInv, VotesSound
<1>7. \A l : Leads(l) => Leads(l)'
  BY <1>1 DEF Leads, LinksOf
<1> QED BY <1>1, <1>6, <1>7, LinksStay DEF VInv

LEMMA RemoveStep ==
  ASSUME VInv, NEW v \in votes, RemoveVote(v), UNCHANGED vars
  PROVE  VInv'
<1>1. /\ votes' = votes \ {v} /\ removed' = removed \union {v.link}
      /\ UNCHANGED <<voters, motions, asking, mailed, made, invites>>
  BY DEF RemoveVote, askVars, vars
<1>2. VotesSound'
  BY <1>1 DEF VInv, VotesSound
<1>3. \A l : Leads(l) => Leads(l)'
  BY <1>1 DEF Leads, LinksOf
<1> QED BY <1>1, <1>2, <1>3, LinksStay DEF VInv

-----------------------------------------------------------------------------
(* And each step of the eVote requests *)

LEMMA IsOnlyIs ==
  ASSUME NEW l, NEW u, NEW L, IsOnly(l, u, L)
  PROVE  l \in L /\ l.user = u /\ \A k \in L : k.user = u => k = l
BY DEF IsOnly

LEMMA MailStep ==
  ASSUME VInv, NEW u \in Users, MailVoter(u), UNCHANGED vars
  PROVE  VInv'
<1>1. /\ asking # NoAsk /\ asking.stage = "sending" /\ asking \in Asking
      /\ UNCHANGED <<voters, motions, votes, made, removed, invites>>
  BY DEF MailVoter, Asks, handVars, vars, VInv, AskingSound
<1>2. PICK l \in asking.found :
        /\ IsOnly(l, u, asking.found)
        /\ mailed' = IF asking.gone THEN mailed ELSE mailed \union {l}
  BY DEF MailVoter
<1>3. /\ asking' \in Asking /\ asking'.stage = "sending" /\ asking'.motion = asking.motion
      /\ asking'.members = asking.members /\ asking'.left = asking.left \ {u}
      /\ asking'.found = asking.found /\ asking'.gone = asking.gone
  BY <1>1 DEF MailVoter, Asking
<1>4. VotesSound'
  BY <1>1, VotesStay DEF VInv
<1>5. /\ \A k : Leads(k)' <=> Leads(k)
      /\ \A j, k : Replaced(j, k)' <=> Replaced(j, k)
  BY <1>1 DEF Leads, LinksOf, Replaced
<1>6. CASE asking.gone
  <2>1. LinksSound'
    BY <1>2, <1>5, <1>6 DEF VInv, LinksSound
  <2> QED BY <1>3, <1>4, <1>6, <2>1 DEF VInv, AskingSound
<1>7. CASE ~ asking.gone
  <2>1. FoundSound /\ mailed' = mailed \union {l}
    BY <1>1, <1>2, <1>7 DEF VInv, AskingSound
  <2>2. l.user = u /\ IsOnly(l, l.user, asking.found)
    BY <1>2, IsOnlyIs
  <2>3. Leads(l) /\ \A k \in mailed : Replaced(k, l)
    BY <2>1, <2>2 DEF FoundSound
  <2>4. \A j, k : Replaced(j, k) => Replaced(k, j)
    BY DEF Replaced
  <2>5. Replaced(l, l)
    BY DEF Replaced
  <2>6. LinksSound'
    <3>1. ASSUME NEW k \in mailed'
          PROVE  Leads(k) /\ \A j \in mailed' : Replaced(j, k)
      BY <2>1, <2>3, <2>4, <2>5 DEF VInv, LinksSound
    <3> QED BY <1>5, <3>1 DEF LinksSound
  <2>7. ASSUME NEW k \in asking.found, IsOnly(k, k.user, asking.found), NEW j \in mailed'
        PROVE  Replaced(j, k)
    <3>1. CASE j \in mailed
      BY <2>1, <2>7, <3>1 DEF FoundSound
    <3>2. CASE j = l
      BY <2>7, <3>2, IsOnlyIs DEF Replaced
    <3> QED BY <2>1, <3>1, <3>2
  <2>8. ASSUME NEW w \in asking.members \ (asking.left \ {u})
        PROVE  \E k \in mailed' : IsOnly(k, w, asking.found)
    <3>1. CASE w = u
      BY <1>2, <2>1, <3>1
    <3>2. CASE w # u
      BY <2>1, <3>2 DEF FoundSound
    <3> QED BY <3>1, <3>2
  <2>9. FoundSound'
    <3>1. \A k \in asking'.found : k.motion = asking'.motion /\ Leads(k)'
      BY <1>3, <1>5, <2>1 DEF FoundSound
    <3>2. \A k \in asking'.found, j \in mailed' :
            IsOnly(k, k.user, asking'.found) => Replaced(j, k)'
      BY <1>3, <1>5, <2>7
    <3>3. \A w \in asking'.members \ asking'.left : \E k \in mailed' : IsOnly(k, w, asking'.found)
      BY <1>3, <2>8
    <3> QED BY <3>1, <3>2, <3>3 DEF FoundSound
  <2> QED BY <1>3, <1>4, <2>6, <2>9 DEF VInv, AskingSound
<1> QED BY <1>6, <1>7

LEMMA AskStep ==
  ASSUME VInv, UNCHANGED vars,
         \/ \E m \in motions : OpenRequest(m)
         \/ PostRequest \/ EndRequest \/ RequestFails
  PROVE  VInv'
<1>1. UNCHANGED <<voters, motions, votes, mailed, made, removed, invites>>
  BY DEF OpenRequest, PostRequest, EndRequest, RequestFails, handVars, vars
<1>2. VotesSound'
  BY <1>1, VotesStay DEF VInv
<1>3. /\ \A k : Leads(k)' <=> Leads(k)
      /\ \A j, k : Replaced(j, k)' <=> Replaced(j, k)
  BY <1>1 DEF Leads, LinksOf, Replaced
<1>4. LinksSound'
  BY <1>1, <1>3 DEF VInv, LinksSound
<1>5. ASSUME NEW m \in motions, OpenRequest(m) PROVE VInv'
  <2>1. asking' \in Asking /\ asking'.stage = "dialog"
    BY <1>5 DEF OpenRequest, Asking, VInv, VotesSound
  <2> QED BY <1>2, <1>4, <2>1 DEF VInv, AskingSound
<1>6. CASE PostRequest
  <2>1. asking \in Asking /\ voters \subseteq Users /\ votes \subseteq Vote
    BY <1>6 DEF PostRequest, Asks, VInv, VotesSound, AskingSound
  <2>2. LinksOf(asking.motion) \subseteq Link
    BY <2>1 DEF LinksOf, Vote
  <2>3. /\ asking' \in Asking /\ asking'.stage = "sending" /\ asking'.motion = asking.motion
        /\ asking'.members = voters /\ asking'.left = voters
        /\ asking'.found = LinksOf(asking.motion)
    BY <1>6, <2>1, <2>2 DEF PostRequest, Asking
  <2>4. \A l \in LinksOf(asking.motion) : l.motion = asking.motion /\ Leads(l)
    BY DEF LinksOf, Leads
  <2>5. ASSUME NEW l \in LinksOf(asking.motion), NEW k \in mailed,
               IsOnly(l, l.user, LinksOf(asking.motion))
        PROVE  Replaced(k, l)
    <3>1. Leads(k)
      BY DEF VInv, LinksSound
    <3>2. l.motion = asking.motion
      BY <2>4
    <3> QED BY <2>5, <3>1, <3>2, IsOnlyIs DEF Replaced, Leads
  <2>6. FoundSound'
    <3>1. \A k \in asking'.found : k.motion = asking'.motion /\ Leads(k)'
      BY <1>3, <2>3, <2>4
    <3>2. \A k \in asking'.found, j \in mailed' :
            IsOnly(k, k.user, asking'.found) => Replaced(j, k)'
      BY <1>1, <1>3, <2>3, <2>5
    <3>3. asking'.members \ asking'.left = {}
      BY <2>3
    <3> QED BY <3>1, <3>2, <3>3 DEF FoundSound
  <2> QED BY <1>2, <1>4, <2>3, <2>6 DEF VInv, AskingSound
<1>7. CASE EndRequest
  <2>1. asking \in Asking /\ asking # NoAsk /\ asking.stage = "sending"
    BY <1>7 DEF EndRequest, Asks, VInv, AskingSound
  <2>2. /\ asking' \in Asking /\ asking'.stage = "sent" /\ asking'.motion = asking.motion
        /\ asking'.members = asking.members /\ asking'.left = {} /\ asking.left = {}
        /\ asking'.found = asking.found /\ asking'.gone = asking.gone
    BY <1>7, <2>1 DEF EndRequest, Asking
  <2>3. FoundSound => FoundSound'
    BY <1>1, <1>3, <2>2 DEF FoundSound
  <2> QED BY <1>2, <1>4, <2>1, <2>2, <2>3 DEF VInv, AskingSound
<1>8. CASE RequestFails
  BY <1>2, <1>4, <1>8 DEF RequestFails, VInv, AskingSound
<1> QED BY <1>5, <1>6, <1>7, <1>8

-----------------------------------------------------------------------------
(* The theorem *)

LEMMA NextVInv ==
  ASSUME IInv, IInv', VInv, [MeetingNext]_meetingVars
  PROVE  VInv'
<1>1. CASE UNCHANGED voteVars /\ Invited(invites) \subseteq Invited(invites')
  <2>1. UNCHANGED <<voters, motions, votes, asking, mailed, made, removed>>
    BY <1>1 DEF voteVars, askVars, handVars
  <2>2. VotesSound'
    BY <1>1, <2>1, VotesStay DEF VInv
  <2>3. \A l : Leads(l) => Leads(l)'
    BY <2>1 DEF Leads, LinksOf
  <2> QED BY <2>1, <2>2, <2>3, LinksStay DEF VInv
<1>2. CASE Next /\ UNCHANGED voteVars
  BY <1>1, <1>2, InvitedStay
<1>3. CASE VotesNext /\ UNCHANGED vars
  <2>1. CASE \/ \E V \in SUBSET Users : ChangeVoters(V)
             \/ \E m \in Motions : CreateMotion(m)
             \/ \E m \in motions : DeleteMotion(m)
    BY <1>3, <2>1, ChangeVotersStep, CreateStep, DeleteStepVotes
  <2>2. CASE \/ \E v \in votes, b \in Ballots : CastVote(v, b)
             \/ \E m \in motions, u \in Users \union {Nobody}, b \in Ballots : AddVote(m, u, b)
             \/ \E v \in votes : RemoveVote(v)
    BY <1>3, <2>2, CastStep, AddStep, RemoveStep
  <2>3. CASE \/ \E m \in motions : OpenRequest(m)
             \/ PostRequest \/ EndRequest \/ RequestFails
    BY <1>3, <2>3, AskStep
  <2>4. CASE \E u \in Users : MailVoter(u)
    BY <1>3, <2>4, MailStep
  <2> QED BY <1>3, <2>1, <2>2, <2>3, <2>4 DEF VotesNext
<1>4. CASE UNCHANGED meetingVars
  BY <1>1, <1>4 DEF meetingVars, vars
<1> QED BY <1>2, <1>3, <1>4 DEF MeetingNext

\* What a meeting is made of: the invitations behave as they do by themselves, and the
\* motions, votes and requests are sound.
THEOREM MeetingInvariant == MeetingSpec => [](IInv /\ VInv)
<1>1. MeetingInit => IInv /\ VInv
  BY InitIInv, InitVInv DEF MeetingInit
<1>2. IInv /\ VInv /\ [MeetingNext]_meetingVars => IInv' /\ VInv'
  <2> SUFFICES ASSUME IInv, VInv, [MeetingNext]_meetingVars PROVE IInv' /\ VInv'
    OBVIOUS
  <2>1. [Next]_vars
    BY DEF MeetingNext, meetingVars
  <2>2. IInv'
    BY <2>1, NextIInv
  <2> QED BY <2>2, NextVInv
<1> QED BY <1>1, <1>2, PTL DEF MeetingSpec

\* Votes stand: each is on a motion there is, those made with it are of invited members;
\* mailed links lead to votes until these are removed by hand, a member has no two links to
\* votes on one motion, and a request that ended well mailed every voter the link to his only vote.
THEOREM VotesAlwaysStand == MeetingSpec => []VotesStand
<1>1. VInv => VotesStand
  BY DEF VInv, VotesSound, LinksSound, AskingSound, FoundSound, VotesStand, Asks, Leads, Replaced
<1> QED BY <1>1, MeetingInvariant, PTL

-----------------------------------------------------------------------------
(* Mails: the inductive invariant, on a table of invitations with the keys *)
(* K, of the members U, and with the requests R running                    *)

\* The links that were mailed are all to invitations there are, and all there are were mailed.
LinksSoundFor(K) == linked \subseteq K /\ K \subseteq linked \union discussed

\* A request that has mailed a link to a member who was invited has recorded it.
RequestsMail(R) ==
  \A r \in R : \A u \in Users :
    HasMailed(r, u) /\ ~ Discussion(r) => Keys({i \in r.read : i.user = u}) \subseteq linked

PostedByRunning(R) == \A p \in posted : \E r \in R : r.id = p[1]

MailShown(U) == mail # NoMail => mail \subseteq U

MailInv ==
  /\ LinksSoundFor(Keys(invites)) /\ RequestsMail(running)
  /\ PostedByRunning(running) /\ MailShown(Invited(invites))

\* A step that mails nothing and adds no invitation, and leaves requests what they have
\* read and adds new ones.
LEMMA NothingMailed ==
  ASSUME MailInv, UNCHANGED mailVars, Keys(invites') = Keys(invites),
         Invited(invites) \subseteq Invited(invites'),
         \A r \in running : \E o \in running' : o.id = r.id,
         \A o \in running' : \/ \A r \in running : r.id # o.id
                             \/ \E r \in running : o.id = r.id /\ o.kind = r.kind /\ o.read = r.read
  PROVE  MailInv'
<1>1. UNCHANGED <<posted, linked, discussed, mail>>
  BY DEF mailVars
<1>2. PostedByRunning(running)' /\ LinksSoundFor(Keys(invites))' /\ MailShown(Invited(invites))'
  BY <1>1 DEF MailInv, PostedByRunning, LinksSoundFor, MailShown
<1>3. RequestsMail(running)'
  <2> SUFFICES ASSUME NEW o \in running', NEW u \in Users, <<o.id, u>> \in posted, o.kind # "discuss"
               PROVE  Keys({i \in o.read : i.user = u}) \subseteq linked
    BY <1>1 DEF RequestsMail, HasMailed, Discussion
  <2>1. PICK r \in running : o.id = r.id
    BY DEF MailInv, PostedByRunning
  <2>2. PICK q \in running : o.id = q.id /\ o.kind = q.kind /\ o.read = q.read
    BY <2>1
  <2>3. HasMailed(q, u) /\ ~ Discussion(q)
    BY <2>2 DEF HasMailed, Discussion
  <2>4. Keys({i \in q.read : i.user = u}) \subseteq linked
    BY <2>3 DEF MailInv, RequestsMail
  <2> QED BY <2>2, <2>4
<1> QED BY <1>2, <1>3 DEF MailInv

\* Requests that are told of writes are otherwise the same.
LEMMA SameRequests ==
  ASSUME IInv, NEW R \in SUBSET running, NEW K, running' = Outdated(R, K)
  PROVE  /\ \A r \in R : \E o \in running' : o.id = r.id
         /\ \A o \in running' : \E r \in R : o.id = r.id /\ o.kind = r.kind /\ o.read = r.read
<1>1. /\ \A r \in R : Told(r, K) \in running'
      /\ \A o \in running' : \E r \in R : o = Told(r, K)
  BY DEF Outdated, Told
<1>2. R \subseteq Request
  BY DEF IInv, TypeOK
<1>3. \A r \in R : Told(r, K).id = r.id /\ Told(r, K).kind = r.kind /\ Told(r, K).read = r.read
  BY <1>2 DEF Told, Request
<1> QED BY <1>1, <1>3

LEMMA BeginUnmailed ==
  ASSUME IInv, MailInv, NEW i, NEW k, NEW M, Begin(i, k, M), UNCHANGED mailVars
  PROVE  MailInv'
<1> DEFINE new == [id |-> i, kind |-> k, members |-> M, read |-> {Glimpse(j) : j \in invites},
                   texts |-> texts, items |-> attendees, stale |-> {}]
<1>1. running' = running \union {new} /\ invites' = invites /\ \A r \in running : r.id # i
  BY DEF Begin
<1>2. new.id = i
  OBVIOUS
<1> HIDE DEF new
<1> QED BY <1>1, <1>2, NothingMailed

LEMMA MeanwhileUnmailed ==
  ASSUME IInv, MailInv, UNCHANGED mailVars,
         MeanwhileNext \/ \E M \in SUBSET Users : ChangeInvitees(M)
  PROVE  MailInv'
<1>1. CASE EditNext
  <2>1. \E K : running' = Outdated(running, K)
    BY <1>1 DEF EditNext, AnswerMyMeeting, AnswerRsvp, EditInvite, Write
  <2>2. Keys(invites') = Keys(invites) /\ Invited(invites) \subseteq Invited(invites')
    BY <1>1, EditKeys, InvitedStay DEF Next
  <2> QED BY <2>1, <2>2, SameRequests, NothingMailed
<1>2. ASSUME NEW I \in SUBSET invites, DeleteAttendees(I) PROVE MailInv'
  BY <1>2, SameRequests, NothingMailed DEF DeleteAttendees
<1>3. ASSUME NEW M \in SUBSET Users, ChangeInvitees(M) PROVE MailInv'
  BY <1>3, NothingMailed DEF ChangeInvitees
<1> QED BY <1>1, <1>2, <1>3 DEF MeanwhileNext

\* A mail to one more member.
LEMMA MailsStepMember ==
  ASSUME IInv, MailInv, NEW r \in running, NEW u \in Users, MailMember(r, u)
  PROVE  MailInv'
<1> DEFINE new == Keys({i \in r.read : i.user = u})
<1>1. /\ posted' = posted \union {<<r.id, u>>} /\ linked' = linked \union new
      /\ UNCHANGED <<invites, running, discussed, mail>>
  BY DEF MailMember, vars
<1>2. new \subseteq Keys(invites)
  <2>1. new \subseteq Keys(r.read)
    BY DEF Keys
  <2> QED BY <2>1 DEF IInv, SnapshotCurrent
<1>3. LinksSoundFor(Keys(invites))' /\ PostedByRunning(running)' /\ MailShown(Invited(invites))'
  <2> HIDE DEF new
  <2> QED BY <1>1, <1>2 DEF MailInv, LinksSoundFor, PostedByRunning, MailShown
<1>4. RequestsMail(running)'
  <2> SUFFICES ASSUME NEW o \in running, NEW x \in Users, <<o.id, x>> \in posted', ~ Discussion(o)
               PROVE  Keys({i \in o.read : i.user = x}) \subseteq linked'
    BY <1>1 DEF RequestsMail, HasMailed, Discussion
  <2>1. CASE <<o.id, x>> \in posted
    BY <1>1, <2>1 DEF MailInv, RequestsMail, HasMailed
  <2>2. CASE o.id = r.id /\ x = u
    <3>1. o = r
      BY <2>2 DEF IInv, TypeOK
    <3> QED BY <1>1, <2>2, <3>1
  <2> QED BY <1>1, <2>1, <2>2
<1> QED BY <1>3, <1>4 DEF MailInv

LEMMA MailsStepDiscussion ==
  ASSUME IInv, MailInv, NEW r \in running, MailDiscussion(r)
  PROVE  MailInv'
<1>1. /\ Discussion(r) /\ posted' = posted \union ({r.id} \X Addressed(r))
      /\ UNCHANGED <<invites, running, linked, discussed, mail>>
  BY DEF MailDiscussion, vars
<1>2. PostedByRunning(running)' /\ LinksSoundFor(Keys(invites))' /\ MailShown(Invited(invites))'
  BY <1>1 DEF MailInv, LinksSoundFor, PostedByRunning, MailShown
<1>3. RequestsMail(running)'
  <2> SUFFICES ASSUME NEW o \in running, NEW x \in Users, <<o.id, x>> \in posted', ~ Discussion(o)
               PROVE  Keys({i \in o.read : i.user = x}) \subseteq linked
    BY <1>1 DEF RequestsMail, HasMailed, Discussion
  <2>1. o.id # r.id
    BY <1>1 DEF IInv, TypeOK
  <2>2. <<o.id, x>> \in posted
    BY <1>1, <2>1
  <2> QED BY <2>2 DEF MailInv, RequestsMail, HasMailed
<1> QED BY <1>2, <1>3 DEF MailInv

\* The end of a request: what others have mailed stays.
LEMMA RequestEnds ==
  ASSUME IInv, MailInv, NEW r \in running, Ended(r), linked \subseteq linked',
         \A o \in running' : \E x \in running \ {r} : o.id = x.id /\ o.kind = x.kind /\ o.read = x.read,
         \A x \in running \ {r} : \E o \in running' : o.id = x.id
  PROVE  RequestsMail(running)' /\ PostedByRunning(running)'
<1>1. posted' = {p \in posted : p[1] # r.id}
  BY DEF Ended
<1>2. PostedByRunning(running)'
  <2> SUFFICES ASSUME NEW p \in posted, p[1] # r.id PROVE \E o \in running' : o.id = p[1]
    BY <1>1 DEF PostedByRunning
  <2>1. PICK x \in running : x.id = p[1]
    BY DEF MailInv, PostedByRunning
  <2> QED BY <2>1
<1>3. RequestsMail(running)'
  <2> SUFFICES ASSUME NEW o \in running', NEW u \in Users, <<o.id, u>> \in posted', ~ Discussion(o)
               PROVE  Keys({i \in o.read : i.user = u}) \subseteq linked'
    BY DEF RequestsMail, HasMailed, Discussion
  <2>1. PICK x \in running : o.id = x.id /\ o.kind = x.kind /\ o.read = x.read
    OBVIOUS
  <2>2. HasMailed(x, u) /\ ~ Discussion(x)
    BY <1>1, <2>1 DEF HasMailed, Discussion
  <2>3. Keys({i \in x.read : i.user = u}) \subseteq linked
    BY <2>2 DEF MailInv, RequestsMail
  <2> QED BY <2>1, <2>3
<1> QED BY <1>2, <1>3

\* A request ends well when all it addresses, whoever it invites among them, were mailed.
LEMMA AddedMailed ==
  ASSUME NEW r \in Request, \A u \in Addressed(r) : HasMailed(r, u)
  PROVE  {i \in Added(r) : HasMailed(r, i.user)} = Added(r)
<1>1. NewUsers(r) \subseteq Addressed(r)
  BY DEF NewUsers, Addressed
<1>2. \A i \in Added(r) : i.user \in NewUsers(r)
  BY AddedRows
<1> QED BY <1>1, <1>2

LEMMA CommitAdds ==
  ASSUME IInv, NEW r \in running, Commit(r)
  PROVE  Keys(invites') = Keys(invites) \union Keys(Added(r))
<1>1. r \in Request /\ invites \subseteq Invite /\ invites' = Updated(r) \union Added(r)
  BY DEF IInv, TypeOK, Commit
<1>2. Keys(Updated(r)) = Keys(invites)
  <2>1. \A i \in invites : After(r, i) \in Updated(r) /\ Key(After(r, i)) = Key(i)
    BY <1>1, AfterRow, UpdatedRows
  <2>2. \A j \in Updated(r) : \E i \in invites : Key(i) = Key(j)
    BY <1>1, AfterRow, UpdatedRows
  <2> QED BY <2>1, <2>2 DEF Keys
<1>3. Keys(Updated(r) \union Added(r)) = Keys(Updated(r)) \union Keys(Added(r))
  BY DEF Keys
<1> QED BY <1>1, <1>2, <1>3

\* The links that a request which ends well has recorded: those of whom it invited, too.
LEMMA CommitLinks ==
  ASSUME IInv, MailInv, NEW r \in running, CommitMailed(r)
  PROVE  /\ LinksSoundFor(Keys(invites))'
         /\ linked \subseteq linked' /\ discussed \subseteq discussed'
         /\ IF Discussion(r) THEN Keys(Added(r)) \subseteq discussed'
                             ELSE Keys(Added(r)) \subseteq linked'
<1>1. r \in Request /\ Commit(r) /\ \A u \in Addressed(r) : HasMailed(r, u)
  BY DEF IInv, TypeOK, CommitMailed
<1>2. Keys(invites') = Keys(invites) \union Keys(Added(r))
  BY <1>1, CommitAdds
<1>3. {i \in Added(r) : HasMailed(r, i.user)} = Added(r)
  BY <1>1, AddedMailed
<1>4. IF Discussion(r) THEN discussed' = discussed \union Keys(Added(r)) /\ linked' = linked
                       ELSE linked' = linked \union Keys(Added(r)) /\ discussed' = discussed
  BY <1>3 DEF CommitMailed
<1> QED BY <1>2, <1>4 DEF MailInv, LinksSoundFor

LEMMA CommitMailedStep ==
  ASSUME IInv, MailInv, NEW r \in running, CommitMailed(r)
  PROVE  MailInv'
<1>1. Commit(r) /\ Ended(r) /\ mail' = mail
  BY DEF CommitMailed
<1>2. running' = Outdated(running \ {r}, Keys(Written(r)))
  BY <1>1 DEF Commit
<1>3. LinksSoundFor(Keys(invites))' /\ linked \subseteq linked'
  BY CommitLinks
<1>4. RequestsMail(running)' /\ PostedByRunning(running)'
  <2>1. running \ {r} \in SUBSET running
    OBVIOUS
  <2> QED BY <1>1, <1>2, <1>3, <2>1, SameRequests, RequestEnds
<1>5. MailShown(Invited(invites))'
  <2>1. Invited(invites) \subseteq Invited(invites')
    BY <1>1, InvitedStay DEF Next, RequestsNext
  <2> QED BY <1>1, <2>1 DEF MailInv, MailShown
<1> QED BY <1>3, <1>4, <1>5 DEF MailInv

\* Each step does to invitations and requests what MeetingInvites describes, or nothing.
LEMMA MailsRefine ==
  ASSUME MailsNext \/ (MeanwhileNext /\ UNCHANGED mailVars)
  PROVE  [Next]_vars
BY DEF MailsNext, MeanwhileNext, MailMember, MailDiscussion, CommitMailed, FailMailed, OpenMail, SendMail,
       Next, RequestsNext

LEMMA NextMailInv ==
  ASSUME IInv, MailInv, MailsNext \/ (MeanwhileNext /\ UNCHANGED mailVars)
  PROVE  MailInv'
<1>1. ASSUME UNCHANGED mailVars,
             \/ \E i \in Requests : Send(i) \/ Discuss(i) \/ \E M \in SUBSET Users : Remind(i, M)
             \/ Nightly
      PROVE  MailInv'
  BY <1>1, BeginUnmailed DEF Send, Discuss, Remind, Nightly
<1>2. ASSUME NEW r \in running, FailMailed(r) PROVE MailInv'
  <2>1. /\ running' = running \ {r} /\ invites' = invites /\ Ended(r)
        /\ UNCHANGED <<linked, discussed, mail>>
    BY <1>2 DEF FailMailed, Fail
  <2>2. RequestsMail(running)' /\ PostedByRunning(running)'
    BY <2>1, RequestEnds
  <2> QED BY <2>1, <2>2 DEF MailInv, LinksSoundFor, MailShown
<1>3. CASE OpenMail \/ SendMail
  <2>1. /\ UNCHANGED <<invites, running, posted, linked, discussed>>
        /\ mail' = NoMail \/ mail' \subseteq Invited(invites)
    BY <1>3 DEF OpenMail, SendMail, vars
  <2> QED BY <2>1 DEF MailInv, LinksSoundFor, MailShown, RequestsMail, PostedByRunning, HasMailed, Discussion
<1> QED BY <1>1, <1>2, <1>3, MeanwhileUnmailed, MailsStepMember, MailsStepDiscussion, CommitMailedStep
        DEF MailsNext

LEMMA InitMailInv == Init /\ MailsInit => IInv /\ MailInv
<1> SUFFICES ASSUME Init, MailsInit PROVE IInv /\ MailInv
  OBVIOUS
<1>1. invites = {} /\ running = {} /\ posted = {} /\ linked = {} /\ discussed = {} /\ mail = NoMail
  BY DEF Init, MailsInit
<1> QED BY <1>1, InitIInv DEF MailInv, LinksSoundFor, RequestsMail, PostedByRunning, MailShown, Keys

LEMMA MailsStep ==
  ASSUME IInv, MailInv, [MailsNext \/ (MeanwhileNext /\ UNCHANGED mailVars)]_mailingVars
  PROVE  IInv' /\ MailInv'
<1>1. CASE MailsNext \/ (MeanwhileNext /\ UNCHANGED mailVars)
  BY <1>1, MailsRefine, NextIInv, NextMailInv
<1>2. CASE UNCHANGED mailingVars
  <2>1. UNCHANGED vars /\ UNCHANGED mailVars
    BY <1>2 DEF mailingVars
  <2>2. IInv'
    BY <2>1, NextIInv
  <2>3. UNCHANGED <<invites, running, posted, linked, discussed, mail>>
    BY <2>1 DEF vars, mailVars
  <2> QED BY <2>2, <2>3 DEF MailInv, LinksSoundFor, RequestsMail, PostedByRunning, MailShown,
                            HasMailed, Discussion
<1> QED BY <1>1, <1>2

\* What is mailed about a meeting, and its invitations, which behave as by themselves.
THEOREM MailsInvariant == MailsSpec => [](IInv /\ MailInv)
<1>1. /\ Init /\ MailsInit => IInv /\ MailInv
      /\ IInv /\ MailInv /\ [MailsNext \/ (MeanwhileNext /\ UNCHANGED mailVars)]_mailingVars
           => IInv' /\ MailInv'
  BY InitMailInv, MailsStep
<1> QED BY <1>1, PTL DEF MailsSpec

LEMMA UsersOfKeys == ASSUME NEW I PROVE UsersOf(Keys(I)) = Invited(I)
<1>1. \A i \in I : Key(i) \in Keys(I) /\ Key(i)[1] = i.user
  BY DEF Keys, Key
<1>2. \A k \in Keys(I) : \E i \in I : k = Key(i)
  BY DEF Keys
<1> QED BY <1>1, <1>2 DEF UsersOf, Invited

LEMMA UsersOfMore == ASSUME NEW K, NEW L, K \subseteq L PROVE UsersOf(K) \subseteq UsersOf(L)
BY DEF UsersOf

\* A request that ends well has mailed a link to whoever is to have one.
LEMMA MailsTell ==
  ASSUME IInv, MailInv
  PROVE  LinksLead /\ LinksReplaced /\ EmailReaches
<1>1. LinksLead
  BY DEF MailInv, LinksSoundFor, LinksLead
<1>2. EmailReaches
  <2>1. UsersOf(linked) \subseteq Invited(invites) /\ Invited(invites) \subseteq UsersOf(linked \union discussed)
    BY <1>1, UsersOfKeys, UsersOfMore DEF LinksLead
  <2> QED BY <2>1 DEF EmailReaches, SendMail, Recipients, MailInv, MailShown
<1>3. LinksReplaced
  <2> SUFFICES ASSUME NEW r \in running, CommitMailed(r), ~ Discussion(r), NEW u \in r.members
               PROVE  u \in UsersOf(IF r.kind = "remind" THEN linked' ELSE linked' \union discussed')
    BY DEF LinksReplaced
  <2> DEFINE mine == {i \in r.read : i.user = u}
  <2>1. /\ r \in Request /\ u \in Users /\ Keys(r.read) \subseteq Keys(invites)
        /\ \A x \in Addressed(r) : HasMailed(r, x)
    BY DEF IInv, TypeOK, SnapshotCurrent, CommitMailed, Request
  <2>2. /\ linked \subseteq linked' /\ discussed \subseteq discussed'
        /\ Keys(Added(r)) \subseteq linked'
    BY CommitLinks
  <2>3. CASE u \in NewUsers(r)
    <3>1. u \in Invited(Added(r))
      BY <2>1, <2>3, AddedRows
    <3>2. u \in UsersOf(linked')
      BY <2>2, <3>1, UsersOfKeys, UsersOfMore
    <3>3. UsersOf(linked') \subseteq UsersOf(linked' \union discussed')
      BY UsersOfMore
    <3> QED BY <3>2, <3>3
  <2>4. CASE u \notin NewUsers(r)
    <3>1. u \in Invited(mine)
      BY <2>4 DEF NewUsers, Invited
    <3>2. u \in UsersOf(Keys(mine))
      BY <3>1, UsersOfKeys
    <3>3. CASE r.kind = "remind"
      <4>1. HasMailed(r, u)
        BY <2>1, <3>3 DEF Addressed
      <4>2. Keys(mine) \subseteq linked
        BY <2>1, <4>1 DEF MailInv, RequestsMail
      <4>3. Keys(mine) \subseteq linked'
        BY <2>2, <4>2
      <4> HIDE DEF mine
      <4> QED BY <3>2, <3>3, <4>3, UsersOfMore
    <3>4. CASE r.kind # "remind"
      <4>1. Keys(mine) \subseteq Keys(r.read)
        BY DEF Keys
      <4>2. Keys(mine) \subseteq linked' \union discussed'
        BY <1>1, <2>1, <2>2, <4>1 DEF LinksLead
      <4> HIDE DEF mine
      <4> QED BY <3>2, <3>4, <4>2, UsersOfMore
    <3> QED BY <3>3, <3>4
  <2> QED BY <2>3, <2>4
<1> QED BY <1>1, <1>2, <1>3

\* Links of mails lead to invitations or are replaced, and an email goes to whoever holds one
\* (LinksLead, LinksReplaced, EmailReaches), while invitations are answered and edited.
THEOREM MailsAlwaysLead == MailsSpec => []LinksLead /\ [][LinksReplaced /\ EmailReaches]_mailingVars
<1>1. IInv /\ MailInv => LinksLead /\ LinksReplaced /\ EmailReaches
  BY MailsTell
<1> QED BY <1>1, MailsInvariant, PTL

\* The same of the specification that TLC checks (MailsLead).
THEOREM PartsMailsLead == PartsSpec => MailsLead
<1> DEFINE Inv == part = "mails" => IInv /\ MailInv
<1>1. PartsInit => Inv
  BY InitMailInv DEF PartsInit, MeetingInit
<1>2. Inv /\ [PartsNext]_allVars => Inv'
  <2> SUFFICES ASSUME Inv, [PartsNext]_allVars, part' = "mails" PROVE IInv' /\ MailInv'
    OBVIOUS
  <2>1. part = "mails" /\ IInv /\ MailInv
    BY DEF PartsNext, allVars
  <2>2. CASE CalmNext
    BY <2>1, <2>2, MailsStep DEF CalmNext
  <2>3. CASE UNCHANGED mailingVars
    BY <2>1, <2>3, MailsStep
  <2> QED BY <2>1, <2>2, <2>3 DEF PartsNext, allVars, mailingVars, meetingVars
<1>3. Inv => (part = "mails" => LinksLead /\ LinksReplaced /\ EmailReaches)
  BY MailsTell
<1> QED BY <1>1, <1>2, <1>3, PTL DEF PartsSpec, MailsLead

=============================================================================
