--------------------------- MODULE Announcements ---------------------------
(***************************************************************************)
(* What a command promises that announces things on the Discourse site and *)
(* keeps a record of what it has announced: nothing is on record that was  *)
(* not announced, and nothing is announced again while it is on record, or *)
(* unless a fault or the end of its term took it off the record.           *)
(***************************************************************************)
CONSTANT Things

VARIABLES announced,   \* the things announced at least once
          recorded,    \* the things on record
          forgotten    \* announced things whose record a fault or the end of a term took away

announcementVars == <<announced, recorded, forgotten>>

AnnouncementsInit == announced = {} /\ recorded = {} /\ forgotten = {}

(* Things not on record are announced: new ones, or forgotten ones again.  Of some, L, there *)
(* will be no record: the answer of the site is lost, or they changed meanwhile.             *)
Announce(S, L) ==
    /\ S \cap recorded = {} /\ S \cap announced \subseteq forgotten
    /\ announced' = announced \cup S
    /\ forgotten' = (forgotten \ S) \cup L
    /\ UNCHANGED recorded

(* The record changes: announced things S go on it; of announced things F it is lost, was *)
(* never made, or is over.                                                                *)
Update(S, F) ==
    /\ S \cup F \subseteq announced /\ S \cap F = {}
    /\ recorded' = (recorded \cup S) \ F
    /\ forgotten' = (forgotten \ S) \cup F
    /\ UNCHANGED announced

AnnouncementsNext ==
    \E S \in SUBSET Things : \/ \E L \in SUBSET S : Announce(S, L)
                             \/ \E F \in SUBSET Things : Update(S, F)

AnnouncementsSpec == AnnouncementsInit /\ [][AnnouncementsNext]_announcementVars
=============================================================================
