------------------------------ MODULE MCReview ------------------------------
(***************************************************************************)
(* ReviewNotices without any fault: every category is found, every message *)
(* goes out, no run is cut short.  What is left are items that come, move  *)
(* and are decided on between one run of the command and the next.         *)
(***************************************************************************)
EXTENDS ReviewNotices

CONSTANTS i1, c1, c2

MCPolled == <<c2, c1>>

VARIABLE heard   \* per item: the last message about it where it is pending

Unheard == [i \in Items |-> NoNotice]

Init == ReviewInit /\ heard = Unheard

Next ==
    \/ /\ \/ Tick
          \/ /\ poll.stage = "asleep"
             /\ \E i \in Items : Decide(i) \/ \E c \in Categories : Submit(i, c) \/ MoveItem(i, c)
          \/ StartPoll \/ FetchCategory \/ Commit \/ CommitFails
       /\ heard' = [i \in Items |-> IF queue'[i] = queue[i] THEN heard[i] ELSE NoNotice]
    \/ /\ NotifyCategory
       /\ heard' = [i \in Items |->
                      IF i \in Due /\ queue[i].category = Polling
                      THEN [category |-> Polling, last |-> poll.now] ELSE heard[i]]

Spec == Init /\ [][Next]_<<reviewVars, heard>>

(***************************************************************************)
(* "re-runs don't re-notify on every pass for the same item" (docstring of *)
(* check_pending_reviews): moderators who were told of an item that stayed *)
(* where it is are told again only after EscalationHours.                  *)
(***************************************************************************)
ToldOnce ==
    [][NotifyCategory =>
         \A i \in Due : heard[i].category = Polling =>
                          heard[i].last + EscalationHours <= poll.now]_<<reviewVars, heard>>
=============================================================================
