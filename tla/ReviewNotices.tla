--------------------------- MODULE ReviewNotices ---------------------------
(***************************************************************************)
(* Notices about Discourse's review queue (src/.../community_review.py and *)
(* the DiscourseReviewNotice table).  A run of the command polls the       *)
(* categories in order; a category's moderators get one private message    *)
(* about its items that are due, the notices go into the database session. *)
(* The session does not flush before queries (autoflush=False): its writes *)
(* reach the table at the commit at the end of the run, all or none, with  *)
(* the insertions before the deletions.  Runs do not overlap               *)
(* (InterProcessLock).  A category stands for its slug; wording, labels    *)
(* and group names are left out, as are dry runs, which write nothing.     *)
(***************************************************************************)
EXTENDS Naturals, Sequences

CONSTANTS Items,           \* reviewable items (fewer than the 50 of one request)
          Categories,
          NoCategory,      \* where an item is that is not pending
          Polled,          \* the categories polled, in order (a sequence), each named once
          PendingHours,    \* age of an item at its first notice
          EscalationHours, \* time from a notice to the next
          MaxTime          \* bound of the clock

ASSUME ReviewAssumption ==
    /\ NoCategory \notin Categories /\ Polled \in Seq(Categories)
    /\ \A m, n \in DOMAIN Polled : Polled[m] = Polled[n] => m = n
    /\ PendingHours \in Nat /\ EscalationHours \in Nat \ {0} /\ MaxTime \in Nat

VARIABLES clock,      \* hours
          queue,      \* per item: the category it is pending in and since when
          notices,    \* the committed table: per item its notice
          messaged,   \* items some message was about
          overdue,    \* messaged items whose notice a fault or the end of its term took away
          poll        \* the running poll

reviewVars == <<clock, queue, notices, messaged, overdue, poll>>

Times == 0 .. MaxTime
Unborn == [category |-> NoCategory, created |-> MaxTime + 1]
QueueEntry == [category : Categories \cup {NoCategory}, created : Times \cup {Unborn.created}]
Notice == [category : Categories \cup {NoCategory}, last : Times]
NoNotice == [category |-> NoCategory, last |-> 0]
NoNotices == [i \in Items |-> NoNotice]

\* now: the time of the run; fetched: its category's items are at hand; session: the table as
\* the commit is to leave it; clash: an insertion waits that breaks the unique key;
\* told: items of the run's messages; seen: where each item was fetched last; clean: no error yet
Poll == [stage : {"asleep", "next", "fetched"}, now : Times, todo : Seq(Categories),
         session : [Items -> Notice], clash : BOOLEAN, told : SUBSET Items,
         seen : [Items -> Categories \cup {NoCategory}], clean : BOOLEAN]
Asleep == [stage |-> "asleep", now |-> 0, todo |-> <<>>, session |-> NoNotices, clash |-> FALSE,
           told |-> {}, seen |-> [i \in Items |-> NoCategory], clean |-> TRUE]

ReviewInit ==
    /\ clock = 0
    /\ queue = [i \in Items |-> Unborn]
    /\ notices = NoNotices
    /\ messaged = {} /\ overdue = {}
    /\ poll = Asleep

(* The items whose notice still keeps them from being told again: it is of the category they *)
(* are in, and the running poll has not seen them in another.                                *)
Valid == {i \in Items : /\ notices[i].category # NoCategory
                        /\ notices[i].category = queue[i].category
                        /\ poll.seen[i] \in {NoCategory, queue[i].category}
                        /\ clock < notices[i].last + EscalationHours}

(* An item is submitted, decided on, or its topic moves to another category. *)
ChangeQueue(i, entry) ==
    /\ queue' = [queue EXCEPT ![i] = entry]
    /\ UNCHANGED <<clock, notices, messaged, poll>>
    /\ overdue' = (overdue \cup ({i} \cap messaged)) \ Valid'

Submit(i, c) == /\ queue[i] = Unborn
                /\ ChangeQueue(i, [category |-> c, created |-> clock])
Decide(i) == /\ queue[i].category # NoCategory
             /\ ChangeQueue(i, [queue[i] EXCEPT !.category = NoCategory])
MoveItem(i, c) == /\ queue[i].category \notin {NoCategory, c}
                  /\ ChangeQueue(i, [queue[i] EXCEPT !.category = c])

Tick ==
    /\ clock < MaxTime /\ clock' = clock + 1
    /\ UNCHANGED <<queue, notices, messaged, poll>>
    /\ overdue' = overdue \cup (Valid \ Valid')

StartPoll ==
    /\ poll.stage = "asleep"
    /\ poll' = [Asleep EXCEPT !.stage = "next", !.now = clock, !.todo = Polled,
                              !.session = notices]
    /\ UNCHANGED <<clock, queue, notices, messaged, overdue>>

Polling == Head(poll.todo)

(* The slug is unknown, no moderator group is configured, or the queue cannot be fetched. *)
SkipCategory ==
    /\ poll.stage = "next" /\ poll.todo # <<>>
    /\ poll' = [poll EXCEPT !.todo = Tail(@), !.clean = FALSE]
    /\ UNCHANGED <<clock, queue, notices, messaged, overdue>>

(* The category's pending items are fetched, and its notices, as they are in the table. *)
FetchCategory ==
    /\ poll.stage = "next" /\ poll.todo # <<>>
    /\ poll' = [poll EXCEPT !.stage = "fetched",
                            !.seen = [i \in Items |->
                                        IF queue[i].category = Polling THEN Polling ELSE @[i]]]
    /\ UNCHANGED <<clock, queue, notices, messaged>>
    /\ overdue' = overdue \ Valid'

Fetched == {i \in Items : poll.seen[i] = Polling}
Aged(i) == queue[i].created + PendingHours <= poll.now

ToNotify == {i \in Fetched : Aged(i) /\ notices[i].category # Polling}

ToEscalate == {i \in Fetched : /\ Aged(i) /\ notices[i].category = Polling
                               /\ notices[i].last + EscalationHours <= poll.now}

Due == ToNotify \cup ToEscalate

ResolvedUnlessDue == {i \in Items : notices[i].category = Polling /\ i \notin Due}

(* The rows of the category's items that are pending no more. *)
Resolved == {i \in Items : notices[i].category = Polling /\ i \notin Fetched}

NotedNew == [i \in Items |->
               IF i \in ToNotify THEN [category |-> Polling, last |-> poll.now]
               ELSE IF i \in Resolved \ poll.told THEN NoNotice ELSE poll.session[i]]

(* The session after the category: notices added, renewed and deleted.  An old row of an   *)
(* item that was told elsewhere goes, too, but its new one stays, for which it clashes.    *)
Noted == [i \in Items |->
            IF i \in Due THEN [category |-> Polling, last |-> poll.now]
            ELSE IF i \in Resolved \ poll.told THEN NoNotice ELSE poll.session[i]]

(* The key of the table is the item alone.  An insertion breaks it if the table has a row of *)
(* the item, even one that the session deletes, or the session has inserted one already.    *)
Clashing == \E i \in ToNotify : {notices[i].category, poll.session[i].category} # {NoCategory}

(* The message goes out, if an item is due, and the session takes the notices. *)
NotifyCategory ==
    /\ poll.stage = "fetched"
    /\ messaged' = messaged \cup Due
    /\ overdue' = (overdue \ Due) \cup {i \in Due : queue[i].category # Polling}
    /\ poll' = [poll EXCEPT !.stage = "next", !.todo = Tail(@), !.session = Noted,
                            !.told = @ \cup Due, !.clash = @ \/ Clashing]
    /\ UNCHANGED <<clock, queue, notices>>

(* The message fails, or its answer does: nothing of the category is noted or cleaned up. *)
NotifyFails ==
    /\ poll.stage = "fetched" /\ Due # {}
    /\ \/ UNCHANGED <<messaged, overdue>>
       \/ messaged' = messaged \cup Due /\ overdue' = overdue \cup Due
    /\ poll' = [poll EXCEPT !.stage = "next", !.todo = Tail(@), !.clean = FALSE]
    /\ UNCHANGED <<clock, queue, notices>>

(* Items that left their category, or whose new notice is too old, before the commit. *)
Outdated == {i \in poll.told \cup Valid : \/ queue[i].category # poll.seen[i]
                                          \/ clock >= poll.now + EscalationHours}

Commit ==
    /\ poll.stage = "next" /\ poll.todo = <<>> /\ ~poll.clash
    /\ notices' = poll.session
    /\ poll' = Asleep
    /\ UNCHANGED <<clock, queue, messaged>>
    /\ overdue' = (overdue \cup Outdated) \ Valid'

LoseSession ==
    /\ poll' = Asleep
    /\ UNCHANGED <<clock, queue, notices, messaged>>
    /\ overdue' = (overdue \cup poll.told) \ Valid'

(* The insertion that clashes makes the commit fail, and all that the run has noted is lost. *)
CommitFails == poll.stage = "next" /\ poll.todo = <<>> /\ poll.clash /\ LoseSession

(* The run ends early and its session with it: an error that nothing catches, a crash. *)
AbortPoll == poll.stage # "asleep" /\ LoseSession

PollStep == StartPoll \/ SkipCategory \/ FetchCategory \/ NotifyCategory \/ NotifyFails
            \/ Commit \/ CommitFails \/ AbortPoll

ReviewNext ==
    \/ \E i \in Items :
         \/ Decide(i)
         \/ \E c \in Categories : Submit(i, c) \/ MoveItem(i, c)
    \/ Tick
    \/ PollStep

ReviewSpec == ReviewInit /\ [][ReviewNext]_reviewVars

ReviewTypeOK ==
    /\ clock \in Times /\ queue \in [Items -> QueueEntry] /\ notices \in [Items -> Notice]
    /\ messaged \subseteq Items /\ overdue \subseteq Items
    /\ poll \in Poll

-----------------------------------------------------------------------------
(***************************************************************************)
(* The promise of the table ("re-runs don't re-notify on every pass for    *)
(* the same item"): the moderators hear of an item again only when its     *)
(* notice is EscalationHours old, when the item left the category, or when *)
(* a fault lost the notice; and no item has a notice without a message.    *)
(***************************************************************************)
ReviewAnnouncements ==
    INSTANCE Announcements WITH Things <- Items, announced <- messaged,
                                recorded <- Valid, forgotten <- overdue

NoticesRemember == ReviewAnnouncements!AnnouncementsSpec

(***************************************************************************)
(* A run without errors leaves the table settled: each old enough item it  *)
(* saw has a notice of its category less than EscalationHours old, and no  *)
(* notice of a polled category is about an item that it did not see there. *)
(***************************************************************************)
CleanPollSettles ==
    [][Commit /\ poll.clean =>
         \A i \in Items :
            /\ poll.seen[i] # NoCategory /\ Aged(i) =>
                 /\ notices'[i].category = poll.seen[i]
                 /\ poll.now < notices'[i].last + EscalationHours
            /\ \A n \in DOMAIN Polled :
                 notices'[i].category = Polled[n] => poll.seen[i] = Polled[n]]_reviewVars
=============================================================================
