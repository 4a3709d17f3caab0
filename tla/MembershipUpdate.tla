-------------------------- MODULE MembershipUpdate --------------------------
(***************************************************************************)
(* The memberships of one person: what the update of membership_cli.py     *)
(* (update, 54-445) makes of the list that RunSignup returns, and what     *)
(* deleting a row of the memberships table does (membership_admin.py,      *)
(* MembershipsView.deleterow).                                             *)
(*                                                                         *)
(* A Membership is a row per purchase.  A MemberDates row is a stretch of  *)
(* days through which the person is a member, meant to join contiguous     *)
(* memberships; each membership refers to one.                             *)
(*                                                                         *)
(* The person keeps one Member record (name, birth date and gender match). *)
(* The update is one transaction: it commits at its end or changes         *)
(* nothing, so Update is one action.                                       *)
(***************************************************************************)
EXTENDS Integers, FiniteSets, SequencesExt, TLC

CONSTANTS
    LastDay,       \* the days are 1..LastDay
    MaxBuys,       \* bound: purchases of the person
    MaxChanges     \* bound: purchases, edits and deletions together

ASSUME BoundsAssumption == {LastDay, MaxBuys, MaxChanges} \subseteq Nat \ {0}

VARIABLES
    service,    \* RunSignup: svc_membership_id -> span
    today,
    ships,      \* table membership: svc_membership_id -> row
    dates,      \* table memberdates: id -> span
    stats,      \* the statistics file: day -> members on it
    pending,    \* something changed since the last update
    changes

vars == <<service, today, ships, dates, stats, pending, changes>>

Days == 1..LastDay
Spans == {s \in [start : Days, end : Days] : s.start <= s.end}
Covers(s, d) == s.start <= d /\ d <= s.end
Empty == [x \in {} |-> x]

(* The ids of f, sorted by the end of their spans. *)
ByEnd(f) ==
    SetToSortSeq(DOMAIN f, LAMBDA a, b : f[a].end < f[b].end \/ (f[a].end = f[b].end /\ a < b))

(* AUTO_INCREMENT: after all ids there are. *)
Fresh(D) == Max(D \union {0}) + 1

-----------------------------------------------------------------------------
(* One record m of the list, with id i, and what the tables db hold.        *)

(* The keys of dbmships.  The container sorts by end date when an item is   *)
(* put in: an existing membership keeps the place of its old end date.      *)
Order(db, i, m) ==
    LET old == ByEnd(db.ships)
    IN  IF i \in DOMAIN db.ships THEN old
        ELSE SelectSeq(old, LAMBDA j : db.ships[j].end <= m.end) \o <<i>>
               \o SelectSeq(old, LAMBDA j : db.ships[j].end > m.end)

(* The spans in that order, each start moved behind the end before it. *)
WithoutOverlaps(db, i, m) ==
    LET o == Order(db, i, m)
        span(n) == IF o[n] = i THEN m ELSE [start |-> db.ships[o[n]].start, end |-> db.ships[o[n]].end]
    IN  [n \in DOMAIN o |->
           IF n > 1 /\ span(n).start <= span(n - 1).end
           THEN [span(n) EXCEPT !.start = span(n - 1).end + 1] ELSE span(n)]

(* Mutation: only the own days count as contiguous. *)
DateRangeAlone(ss, n) == ss[n]

(* mship_date_range: the contiguous stretch that the n-th span belongs to. *)
DateRange(ss, n) ==
    LET joined(a, b) == \A x \in a + 1 .. b : ss[x].start = ss[x - 1].end + 1
    IN  [start |-> ss[Min({a \in 1..n : joined(a, n)})].start,
         end |-> ss[Max({b \in n..Len(ss) : joined(n, b)})].end]

(* The span s starts new memberdates: before the k-th of l, behind the last *)
(* or between two.                                                          *)
NewDates(s, l, D, k) ==
    \/ s.end + 1 < D[l[k]].start
    \/ k = Len(l) /\ s.start > D[l[k]].end + 1
    \/ k > 1 /\ s.start > D[l[k - 1]].end + 1 /\ s.end < D[l[k]].start

(* Mutation: a changed end date is not noticed. *)
CasesEndMissed(s, r, d) ==
    << [if |-> s.end + 1 = d.start,                    then |-> [d EXCEPT !.start = s.start]],
       [if |-> s.start = d.end + 1,                    then |-> [d EXCEPT !.end = s.end]],
       [if |-> Covers(d, s.end) /\ r.start # d.start,  then |-> [d EXCEPT !.start = r.start]],
       [if |-> d.start <= s.start /\ s.end <= d.end,   then |-> d] >>

(* The other cases in their order, with what each makes of memberdates d    *)
(* for a span s in the stretch r.                                           *)
Cases(s, r, d) ==
    << [if |-> s.end + 1 = d.start,                    then |-> [d EXCEPT !.start = s.start]],
       [if |-> s.start = d.end + 1,                    then |-> [d EXCEPT !.end = s.end]],
       [if |-> Covers(d, s.start) /\ r.end # d.end,    then |-> [d EXCEPT !.end = r.end]],
       [if |-> Covers(d, s.end) /\ r.start # d.start,  then |-> [d EXCEPT !.start = r.start]],
       [if |-> d.start <= s.start /\ s.end <= d.end,   then |-> d] >>

Fitting(s, r, d) == SelectSeq(Cases(s, r, d), LAMBDA c : c.if)

(* Membership i, with span s in the stretch r, finds its memberdates.  New  *)
(* ones get the days of the record m, whichever membership they are for.    *)
(* w == [dates, of]: the memberdates, and the ones each membership has.     *)
Place(w, l, m, s, r, i) ==
    LET new(k) == NewDates(s, l, w.dates, k)
        hits == {k \in DOMAIN l : new(k) \/ Fitting(s, r, w.dates[l[k]]) # <<>>}
        k == Min(hits)
    IN  IF hits = {} THEN w
        ELSE IF new(k)
             THEN LET id == Fresh(DOMAIN w.dates)
                  IN  [dates |-> w.dates @@ (id :> m), of |-> [w.of EXCEPT ![i] = id]]
             ELSE [dates |-> [w.dates EXCEPT ![l[k]] = Fitting(s, r, @)[1].then],
                   of |-> [w.of EXCEPT ![i] = l[k]]]

(* The memberdates l that touch are merged into the earlier one, which then *)
(* gets all memberships of the member; its days stay what they are.  The    *)
(* deletion of memberdates without memberships, just before, asks for a     *)
(* MEMBER without memberships, so that it never happens here.               *)
Merge(w, l) ==
    LET step(a, k) ==
          IF a.dates[l[a.this]].end + 1 >= a.dates[l[k]].start
          THEN [a EXCEPT !.of = [j \in DOMAIN @ |-> l[a.this]], !.gone = @ \union {l[k]}]
          ELSE [a EXCEPT !.this = k]
        all == FoldLeft(step, [dates |-> w.dates, of |-> w.of, this |-> 1, gone |-> {}],
                        [k \in 1 .. Len(l) - 1 |-> k + 1])
    IN  [dates |-> Restrict(all.dates, DOMAIN all.dates \ all.gone), of |-> all.of]

Row(s, k) == [start |-> s.start, end |-> s.end, dates |-> k]

First(i, m) == [ships |-> i :> Row(m, 1), dates |-> 1 :> m]

NoDates == 0

Process(db, i, m) ==
    LET o  == Order(db, i, m)
        ss == WithoutOverlaps(db, i, m)
        l  == ByEnd(db.dates)
        found == [dates |-> db.dates,
                  of |-> [j \in DOMAIN db.ships \union {i} |->
                            IF j \in DOMAIN db.ships THEN db.ships[j].dates ELSE NoDates]]
        placed == FoldLeft(LAMBDA w, n : Place(w, l, m, ss[n], DateRange(ss, n), o[n]),
                           found, [n \in DOMAIN o |-> n])
        merged == Merge(placed, l)
    IN  IF db.dates = Empty THEN First(i, m)
        ELSE [ships |-> [j \in DOMAIN merged.of |->
                           Row(ss[CHOOSE n \in DOMAIN o : o[n] = j], merged.of[j])],
              dates |-> merged.dates]

-----------------------------------------------------------------------------
Init ==
    /\ service = Empty /\ today = 1
    /\ ships = Empty /\ dates = Empty /\ stats = Empty
    /\ pending = FALSE /\ changes = 0

(* The list: current and future memberships. *)
Listed == {i \in DOMAIN service : service[i].end >= today}

(* The tables after the records of the list. *)
Updated ==
    FoldLeft(LAMBDA d, i : Process(d, i, service[i]), [ships |-> ships, dates |-> dates],
             ByEnd(Restrict(service, Listed)))

(* analyzemembership: through today, for each day its memberdates. *)
Counted(D) == [d \in 1..today |-> Cardinality({k \in DOMAIN D : Covers(D[k], d)})]

Update ==
    LET db == Updated
    IN  /\ ships' = db.ships /\ dates' = db.dates
        /\ stats' = Counted(db.dates) /\ pending' = FALSE
        /\ UNCHANGED <<service, today, changes>>

(* The tables are not committed, but the file has been written. *)
UpdateFails ==
    LET db == Updated
    IN  /\ pending /\ stats' = Counted(db.dates)
        /\ UNCHANGED <<service, today, ships, dates, pending, changes>>

(* Deleting a row of the memberships table first tests both of these and    *)
(* raises dataError where one fails.                                        *)
WithinDates(i) ==
    /\ dates[ships[i].dates].start <= ships[i].start
    /\ ships[i].end <= dates[ships[i].dates].end

SoleOfSameExtent(i) ==
    dates[ships[i].dates] = [start |-> ships[i].start, end |-> ships[i].end]
        => \A j \in DOMAIN ships \ {i} : ships[j].dates # ships[i].dates

(* What is left of memberdates d without the days of s. *)
Rest(s, d) ==
    {r \in {[start |-> d.start, end |-> s.start - 1], [start |-> s.end + 1, end |-> d.end]} :
        r.start <= r.end}

DeleteMembership(i) ==
    LET s == ships[i]
        k == s.dates
        others == Restrict(ships, DOMAIN ships \ {i})
        rest == Rest(s, dates[k])
        new == Fresh(DOMAIN dates)
        after == [start |-> s.end + 1, end |-> dates[k].end]
    IN  /\ i \in DOMAIN ships /\ WithinDates(i) /\ SoleOfSameExtent(i)
        /\ ~pending /\ changes < MaxChanges
        /\ \/ /\ rest = {}
              /\ dates' = Restrict(dates, DOMAIN dates \ {k}) /\ ships' = others
           \/ /\ Cardinality(rest) = 1
              /\ dates' = [dates EXCEPT ![k] = CHOOSE r \in rest : TRUE] /\ ships' = others
           \/ /\ Cardinality(rest) = 2
              /\ dates' = [dates EXCEPT ![k].end = s.start - 1] @@ (new :> after)
              /\ ships' = [j \in DOMAIN others |->
                             IF others[j].dates = k /\ others[j].start >= after.start /\ others[j].end <= after.end
                             THEN [others[j] EXCEPT !.dates = new] ELSE others[j]]
        /\ pending' = TRUE /\ changes' = changes + 1
        /\ UNCHANGED <<service, today, stats>>

-----------------------------------------------------------------------------
(* RunSignup and the calendar.  The command runs every night: a change of   *)
(* RunSignup, or a day, comes only after an update.                         *)

(* Memberships begin and end in one order: they may overlap, but none lies  *)
(* within another.                                                          *)
Ladder(f) ==
    \A i, j \in DOMAIN f : i < j => f[i].start # f[j].start
                                    /\ (f[i].start < f[j].start <=> f[i].end < f[j].end)
                                    /\ f[i].end # f[j].end

Changed(f) ==
    /\ ~pending /\ changes < MaxChanges
    /\ Ladder(f)
    /\ service' = f /\ changes' = changes + 1 /\ pending' = TRUE
    /\ UNCHANGED <<today, ships, dates, stats>>

Buy(s) ==
    /\ Cardinality(DOMAIN service) < MaxBuys
    /\ s.end >= today
    /\ Changed(service @@ (Cardinality(DOMAIN service) + 1 :> s))

(* One end of a membership that is listed, and stays so, moves. *)
MoveEnd(i, s) ==
    /\ i \in Listed /\ s # service[i] /\ s.end >= today
    /\ s.start = service[i].start \/ s.end = service[i].end
    /\ Changed([service EXCEPT ![i] = s])

Tomorrow ==
    /\ ~pending /\ today < LastDay /\ today' = today + 1
    /\ UNCHANGED <<service, ships, dates, stats, pending, changes>>

Next ==
    \/ Update
    \/ UpdateFails
    \/ \E i \in DOMAIN ships : DeleteMembership(i)
    \/ \E s \in Spans : Buy(s)
    \/ \E i \in DOMAIN service, s \in Spans : MoveEnd(i, s)
    \/ Tomorrow

Spec == Init /\ [][Next]_vars

-----------------------------------------------------------------------------
(* What the pages show. *)

(* Club members and members on a day: a row for each memberdates. *)
MembersOn(d) == {k \in DOMAIN dates : Covers(dates[k], d)}

(* Expired members since a day: the last end among the memberships that do  *)
(* not end before the day is over.                                          *)
ExpiredSince(d) ==
    LET ends == {ships[i].end : i \in DOMAIN ships} \intersect d..LastDay
    IN  ends # {} /\ Max(ends) < today

-----------------------------------------------------------------------------
(* Each row lies in the calendar and refers to memberdates that exist, for  *)
(* a purchase that was made.                                                *)
TypeOK ==
    /\ DOMAIN ships \subseteq DOMAIN service
    /\ \A i \in DOMAIN ships :
          /\ ships[i].dates \in DOMAIN dates
          /\ [start |-> ships[i].start, end |-> ships[i].end] \in Spans
    /\ \A k \in DOMAIN dates : dates[k] \in Spans
    /\ DOMAIN stats \subseteq Days /\ \A d \in DOMAIN stats : stats[d] \in Nat
    /\ today \in Days /\ pending \in BOOLEAN /\ changes \in 0..MaxChanges

(* The memberdates are the contiguous Stretches: no two overlap or touch,   *)
(* whatever purchases, edits, updates and deletions they come from.         *)
Apart ==
    \A k, l \in DOMAIN dates : k # l =>
        dates[k].end + 1 < dates[l].start \/ dates[l].end + 1 < dates[k].start

(* A day is in some memberdates exactly when it is in some membership: the  *)
(* shifts, extensions, merges and cuts at the ends neither lose a day nor   *)
(* leave one behind.                                                        *)
Covered ==
    \A d \in Days :
        (\E k \in DOMAIN dates : Covers(dates[k], d)) <=> (\E i \in DOMAIN ships : Covers(ships[i], d))

(* The pages agree: nobody is listed twice on a day; after an update the    *)
(* file counts whom the page lists; and whoever is no member today, but was *)
(* on some day since then, is expired, unless a membership is to come.      *)
PagesAgree ==
    /\ \A d \in Days : Cardinality(MembersOn(d)) <= 1
    /\ ~pending => \A d \in DOMAIN stats : stats[d] = Cardinality(MembersOn(d))
    /\ \A d \in 1..today :
         ExpiredSince(d) <=> /\ \E e \in d..today : MembersOn(e) # {}
                             /\ \A e \in today..LastDay : MembersOn(e) = {}

Stretches == Apart /\ Covered /\ PagesAgree

(* An update leaves whoever RunSignup lists a member on each day of the     *)
(* membership that is still to come.                                        *)
ListedAreMembers ==
    [][Update => \A i \in Listed, d \in today..LastDay :
                    Covers(service[i], d) => \E k \in DOMAIN dates' : Covers(dates'[k], d)]_vars

(* "if membership is not wholly contained within memberdates, there was     *)
(* some data error" (membership_admin.py:188): every membership lies within *)
(* the memberdates it refers to.                                            *)
Contained == \A i \in DOMAIN ships : WithinDates(i)
=============================================================================
