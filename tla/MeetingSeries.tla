--------------------------- MODULE MeetingSeries ---------------------------
(***************************************************************************)
(* Meeting types with their peers, meetings over the days, and the action  *)
(* items that follow from one meeting to the next.                         *)
(*                                                                         *)
(* A meeting shows the action items of its own type and of the type's      *)
(* peers that are not closed, or were changed since the day the meeting    *)
(* gives ("Show Actions Since"), which a renewal sets to the date of the   *)
(* renewed meeting.  The peers of a type are a table of pairs, which       *)
(* MeetingTypesView.updatepeers brings up to date at each save of a type.  *)
(***************************************************************************)
EXTENDS Integers, FiniteSets, FiniteSetsExt

CONSTANTS
    Types,          \* meeting types
    NoType,         \* sentinel: the type of the meeting was deleted
    MaxMeetings,    \* bound
    MaxActions,     \* bound: action items
    FinalDay        \* bound: the days are 0 .. FinalDay

ASSUME MeetingSeriesAssumption ==
    NoType \notin Types /\ MaxMeetings \in Nat /\ MaxActions \in Nat /\ FinalDay \in Nat

VARIABLES
    types,      \* table meetingtype
    peers,      \* type -> peermeetingtypes
    meetings,   \* table meeting
    actions,    \* table actionitem
    day,
    regrouped   \* history: types whose peers were edited into or out of a group

seriesVars == <<types, peers, meetings, actions, day, regrouped>>

Meetings == [num : Nat \ {0}, type : Types \union {NoType}, date : Nat, since : Nat, from : Nat]

\* closedOn is history: the day of the last step that closed the item.
Actions == [num : Nat \ {0}, meeting : Nat \ {0}, closed : BOOLEAN, updated : Nat, closedOn : Nat]

-----------------------------------------------------------------------------
(* updatepeers; Q is the relation with the form's peers of t already set.  *)

Equivalent(Q, t) == {t} \union Q[t]

\* Mutation: the peers of the peers are left out.
NotWidened(Q, t) == Equivalent(Q, t)

\* At a creation, the peers' peers belong to the group too.
Widened(Q, t) == Equivalent(Q, t) \union UNION {Q[u] : u \in Equivalent(Q, t)}

Grouping(Q, group, removed, prev, t) ==
    [u \in Types |-> IF u \in group THEN group \ {u}
                     ELSE IF u \in removed THEN Q[u] \ (prev \union {t})
                     ELSE Q[u]]

Created(t, P) ==
    LET Q == [peers EXCEPT ![t] = P]
    IN Grouping(Q, Widened(Q, t), {}, {}, t)

Edited(t, P) ==
    LET Q == [peers EXCEPT ![t] = P]
    IN Grouping(Q, Equivalent(Q, t), peers[t] \ Equivalent(Q, t), peers[t], t)

\* The type is taken out of its peers' lists; remove() fails where it is missing.
MayRemove(t) == \A u \in peers[t] : t \in peers[u]

Removed(t) ==
    [u \in Types |-> IF u = t THEN {} ELSE IF u \in peers[t] THEN peers[u] \ {t} ELSE peers[u]]

-----------------------------------------------------------------------------
SeriesInit ==
    /\ types = {} /\ peers = [t \in Types |-> {}]
    /\ meetings = {} /\ actions = {} /\ day = 0 /\ regrouped = {}

CreateType(t, P) ==
    /\ t \notin types /\ P \subseteq types
    /\ types' = types \union {t}
    /\ peers' = Created(t, P)
    /\ UNCHANGED <<meetings, actions, day, regrouped>>

\* A save of the form with peers P.  It stays within a group if the types that come in have
\* no peers but those of P, and P is the group's or nobody's.
EditType(t, P) ==
    /\ t \in types /\ P \subseteq types \ {t}
    /\ peers' = Edited(t, P)
    /\ regrouped' = IF \A u \in P \ peers[t] : peers[u] \subseteq P \union {t}
                    THEN regrouped ELSE regrouped \union {t}
    /\ UNCHANGED <<types, meetings, actions, day>>

\* Its meetings lose their type; a pair that still names it refuses the deletion.
DeleteType(t) ==
    /\ t \in types /\ MayRemove(t)
    /\ \A u \in types \ {t} : t \notin Removed(t)[u]
    /\ types' = types \ {t}
    /\ peers' = Removed(t)
    /\ meetings' = {IF m.type = t THEN [m EXCEPT !.type = NoType] ELSE m : m \in meetings}
    /\ UNCHANGED <<actions, day, regrouped>>

NewMeeting(t, date, since) ==
    /\ t \in types /\ Cardinality(meetings) < MaxMeetings
    /\ date >= day /\ since <= date
    /\ meetings' = meetings \union
         {[num |-> Cardinality(meetings) + 1, type |-> t, date |-> date, since |-> since, from |-> 0]}
    /\ UNCHANGED <<types, peers, actions, day, regrouped>>

\* MeetingRenewDataApi: with the option "Show Actions Since Last Meeting".
RenewedSince(m) == m.date

\* Renewal with the data of the form as proposed, but for the date.
Renew(m, date) ==
    /\ m \in meetings /\ m.type # NoType /\ Cardinality(meetings) < MaxMeetings
    /\ date >= day /\ date > m.date
    /\ meetings' = meetings \union
         {[num |-> Cardinality(meetings) + 1, type |-> m.type, date |-> date,
           since |-> RenewedSince(m), from |-> m.num]}
    /\ UNCHANGED <<types, peers, actions, day, regrouped>>

AddAction(m) ==
    /\ m \in meetings /\ m.type # NoType /\ Cardinality(actions) < MaxActions
    /\ actions' = actions \union
         {[num |-> Cardinality(actions) + 1, meeting |-> m.num, closed |-> FALSE,
           updated |-> day, closedOn |-> 0]}
    /\ UNCHANGED <<types, peers, meetings, day, regrouped>>

\* log_update
Logged(a) == day

UpdateAction(a, closed) ==
    /\ a \in actions
    /\ actions' = (actions \ {a}) \union
         {[a EXCEPT !.closed = closed, !.updated = Logged(a),
                    !.closedOn = IF closed /\ ~ a.closed THEN day ELSE @]}
    /\ actions' # actions
    /\ UNCHANGED <<types, peers, meetings, day, regrouped>>

DayPasses ==
    /\ day < FinalDay
    /\ day' = day + 1
    /\ UNCHANGED <<types, peers, meetings, actions, regrouped>>

SeriesNext ==
    \/ \E t \in Types, P \in SUBSET types : CreateType(t, P) \/ EditType(t, P)
    \/ \E t \in Types : DeleteType(t)
    \/ \E t \in Types, date, since \in 0..FinalDay : NewMeeting(t, date, since)
    \/ \E m \in meetings, date \in 0..FinalDay : Renew(m, date)
    \/ \E m \in meetings : AddAction(m)
    \/ \E a \in actions, closed \in BOOLEAN : UpdateAction(a, closed)
    \/ DayPasses

SeriesSpec == SeriesInit /\ [][SeriesNext]_seriesVars

-----------------------------------------------------------------------------
TypeOf(num) == (CHOOSE m \in meetings : m.num = num).type

\* ActionItemsBase.beforequery, for the item that lists the actions of meeting m.
ShownTypes(t) == {t} \union peers[t]

Shown(m) ==
    {a \in actions : (a.updated >= m.since \/ ~ a.closed) /\ TypeOf(a.meeting) \in ShownTypes(m.type)}

SeriesTypeOK ==
    /\ types \subseteq Types
    /\ peers \in [Types -> SUBSET types]
    /\ meetings \subseteq Meetings /\ actions \subseteq Actions
    /\ day \in 0..FinalDay

(* Peers are mutual, and the peers of a type have the same peers, as long  *)
(* as no edit of a type brings in a type that keeps peers of its own (that *)
(* type loses them, and they keep it): updatepeers, meetings_admin.py.     *)
PeersAreGroups ==
    regrouped = {} =>
      \A t \in types : \A u \in peers[t] : peers[u] = (peers[t] \ {u}) \union {t}

(* The end of an action item does not get lost: what was closed in the     *)
(* series since the date of a meeting is shown at the meeting renewed from *)
(* it, whatever was changed since, and with peers at the next meeting of   *)
(* each peer; what is open is shown at every meeting (beforequery of       *)
(* ActionItemsBase, log_update, do_get of MeetingRenewDataApi).            *)
ClosingIsReported ==
    \A m, old \in meetings : m.from = old.num =>
      \A a \in actions :
        /\ ~ a.closed \/ a.closedOn >= old.date
        /\ LET t == TypeOf(a.meeting)
           IN /\ {t, m.type} \subseteq types
              /\ t = m.type \/ (regrouped = {} /\ m.type \in peers[t])
        => a \in Shown(m)

(* The series hangs together: its groups of types and what they tell each other. *)
SeriesHolds == PeersAreGroups /\ ClosingIsReported
=============================================================================
