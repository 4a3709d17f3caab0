-------------------------- MODULE MemberMigration ---------------------------
(***************************************************************************)
(* The migration of the tables of members (db3ffeebcb11): before it, a     *)
(* person had a Member row for every stretch of days; after it, one, with  *)
(* a MemberDates row for every stretch, to which the Membership rows of    *)
(* the stretch refer.  The update of MembershipUpdate goes on from there.  *)
(*                                                                         *)
(* A person is known by names and birth date; the rows are sorted by the   *)
(* names, the gender, the birth date and, backwards, the last day.  The    *)
(* rows of one person that follow each other are merged into the first.    *)
(***************************************************************************)
EXTENDS Integers, FiniteSets

CONSTANTS
    MemberIds,      \* ids of member rows before the migration
    PersonNames,    \* names, BirthDates and genders, in their order
    BirthDays,
    Genders,
    Stretch,        \* spans of days
    ShipIds,        \* ids of membership rows
    NoTables        \* sentinel: not migrated yet

ASSUME MigrationAssumption ==
    /\ MemberIds \union PersonNames \union BirthDays \union Genders \subseteq Nat
    /\ \A s \in Stretch : {s.start, s.end} \subseteq Nat
    /\ IsFiniteSet(MemberIds) /\ NoTables \notin MemberIds

VARIABLES
    oldMembers,     \* member: id -> row
    oldShips,       \* membership: id -> id of the member
    migrated        \* NoTables or the tables after the migration

migrationVars == <<oldMembers, oldShips, migrated>>

OldMember == [name : PersonNames, gender : Genders, dob : BirthDays, days : Stretch]

(* get_memberdob *)
MemberDob(m) == <<m.name, m.dob>>

-----------------------------------------------------------------------------
(* Whether the query has row a before row b. *)
Sorted(a, b) ==
    LET m == oldMembers[a]
        n == oldMembers[b]
    IN  \/ m.name < n.name
        \/ m.name = n.name /\ m.gender < n.gender
        \/ m.name = n.name /\ m.gender = n.gender
             /\ (m.dob < n.dob \/ (m.dob = n.dob /\ m.days.end > n.days.end))

(* The rows as they come from the query, equal ones in any order. *)
IsQuery(q) ==
    /\ {q[k] : k \in DOMAIN q} = DOMAIN oldMembers
    /\ \A j, k \in DOMAIN q : j < k => ~Sorted(q[k], q[j])

(* Mutation: the memberships of a stay with a row that is no more. *)
MergedWithoutShips(t, a) ==
    [t EXCEPT !.dates = @ \union {[from |-> a, member |-> t.kept, days |-> oldMembers[a].days]},
              !.members = @ \ {a}]

(* The row a of the person whose row is kept becomes memberdates of that    *)
(* row, and the memberships of a refer to the two.                          *)
Merged(t, a) ==
    [t EXCEPT !.dates = @ \union {[from |-> a, member |-> t.kept, days |-> oldMembers[a].days]},
              !.ships = [s \in DOMAIN @ |->
                           IF oldShips[s] = a THEN [member |-> t.kept, dates |-> a] ELSE @[s]],
              !.members = @ \ {a}]

(* The row a is kept, and has memberdates of its own. *)
Kept(t, a) ==
    [t EXCEPT !.kept = a,
              !.dates = @ \union {[from |-> a, member |-> a, days |-> oldMembers[a].days]},
              !.ships = [s \in DOMAIN @ |-> IF oldShips[s] = a THEN [@[s] EXCEPT !.dates = a] ELSE @[s]]]

NextRow(t, a) ==
    IF t.kept # NoTables /\ MemberDob(oldMembers[a]) = MemberDob(oldMembers[t.kept])
    THEN Merged(t, a) ELSE Kept(t, a)

(* The tables at first; memberdates are named by the row they come from. *)
Unmigrated ==
    [kept |-> NoTables, members |-> DOMAIN oldMembers, dates |-> {},
     ships |-> [s \in DOMAIN oldShips |-> [member |-> oldShips[s], dates |-> NoTables]]]

(* The tables after all rows. *)
AfterRows(q) ==
    LET t[k \in 0 .. Cardinality(MemberIds)] ==
          IF k = 0 THEN Unmigrated ELSE NextRow(t[k - 1], q[k])
    IN  t[Cardinality(MemberIds)]

-----------------------------------------------------------------------------
MigrationInit ==
    /\ oldMembers \in [MemberIds -> OldMember]
    /\ oldShips \in [ShipIds -> MemberIds]
    /\ migrated = NoTables

(* In one transaction. *)
Migrate(q) ==
    /\ migrated = NoTables /\ IsQuery(q)
    /\ migrated' = AfterRows(q)
    /\ UNCHANGED <<oldMembers, oldShips>>

MigrationNext ==
    \E q \in [1 .. Cardinality(MemberIds) -> MemberIds] : Migrate(q)

MigrationSpec == MigrationInit /\ [][MigrationNext]_migrationVars

-----------------------------------------------------------------------------
(* Every membership has memberdates with the days that its member had, and  *)
(* both belong to one row of the same person.  No two rows are left with    *)
(* the same names, birth date and gender; and where all rows of a person    *)
(* have one gender, the latest is left.                                     *)
MigrationKeeps ==
    migrated # NoTables =>
      /\ \A s \in ShipIds :
           LET row == migrated.ships[s] IN
           /\ row.member \in migrated.members
           /\ MemberDob(oldMembers[row.member]) = MemberDob(oldMembers[oldShips[s]])
           /\ \E d \in migrated.dates :
                /\ d.from = row.dates /\ d.member = row.member
                /\ d.days = oldMembers[oldShips[s]].days
      /\ \A a \in migrated.members, b \in MemberIds :
           MemberDob(oldMembers[a]) = MemberDob(oldMembers[b]) =>
             /\ oldMembers[a].gender = oldMembers[b].gender => b = a \/ b \notin migrated.members
             /\ (\A c \in MemberIds : MemberDob(oldMembers[c]) = MemberDob(oldMembers[a])
                                        => oldMembers[c].gender = oldMembers[a].gender)
                  => oldMembers[a].days.end >= oldMembers[b].days.end
=============================================================================
