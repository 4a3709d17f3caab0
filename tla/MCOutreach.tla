----------------------------- MODULE MCOutreach -----------------------------
(***************************************************************************)
(* Small instances of ReviewNotices, EventExport, EventImport,             *)
(* CalendarFeed, CommunityReport and RacingTeam for TLC.  Each behaviour   *)
(* exercises one part, the others stand still.                             *)
(***************************************************************************)
EXTENDS ReviewNotices, EventExport, EventImport, CalendarFeed, CommunityReport, RacingTeam, TLC

CONSTANTS i1, i2, c1, c2, e1, e2, t1, u1, b1, b2, f1, f2, x1, a1, a2

VARIABLE part   \* which part the behaviour exercises

vars == <<reviewVars, exportVars, importVars, calendarVars, reportVars, racingVars, part>>

MCPolled == <<c2, c1>>
MCMonths == 1 .. 2
MCDays == 1 .. 3

MCStarts == 1 .. 4
MCOverrides == ("lowkey" :> "lowkey-race") @@ ("race" :> "")
Plain == [slugs |-> {}, description |-> <<"text">>]
Balanced(h) ==
    LET opened(n) == Cardinality({k \in 1 .. n : h[k] \in {"open", "widget"}})
        closed(n) == Cardinality({k \in 1 .. n : h[k] = "close"})
    IN  opened(Len(h)) = closed(Len(h)) /\ \A n \in DOMAIN h : closed(n) <= opened(n)
Markup == {h \in UNION {[1 .. n -> {"open", "widget", "close", "text"}] : n \in 0 .. 5} : Balanced(h)}
MCContents == [slugs : {{"race", "lowkey", "trails"}}, description : Markup] \cup {Plain}

\* Bound: the first event, alone, has any content; or all have a plain one and come and go.
\* The descriptions are all that close what they open, of at most five tags and texts.
Programmes == {1 :> c : c \in MCContents} \cup {[s \in S |-> Plain] : S \in SUBSET MCStarts}
ExportStep ==
    /\ EventExportNext
    /\ published' # published => \A s \in MCStarts : \A P \in {published, published'} :
                                   s \in DOMAIN P => P[s] = Plain

\* An event without title, one given twice, and one whose tag may be unknown.
Rows == {[event |-> e1, tags |-> {}], [event |-> e2, tags |-> {t1}],
         [event |-> NoEvent, tags |-> {}]}
MCCsvFiles == UNION {[1 .. n -> Rows] : n \in 0 .. 3}

\* Bound: the team changes before the first form, by one row of each kind.
TeamStep ==
    /\ \/ FormStep
       \/ /\ \A f \in Forms : request[f] = NoRequest
          /\ AdminStep /\ configs' = configs /\ ranges' = ranges
    /\ Cardinality(infos' \cup applications') <= 2

\* Bound: one range is any, the other a day; the second configuration has none.
SeasonStep ==
    /\ AdminStep /\ teamVars' = teamVars /\ UNCHANGED <<rowVars, request, unmailed>>
    /\ \A r \in ranges' : /\ r.num = 2 => r.start = r.end
                          /\ r.config # 2

AllEvents == [tags |-> {}, window |-> {1, 2}]
MCKeys == {AllEvents, [tags |-> {t1}, window |-> {1}]}
Talk(T, D) == [tags |-> T, dates |-> D, place |-> x1]
MCForums == {<<Talk({t1}, {1, 2}), Talk({t1}, {1}), Talk(T, {1})>> : T \in {{}, {t1}}}

\* Bound: the first post is deleted or the last one changes its tags; one thread asks for all
\* events; posts are asked for by one request at a time, and the first may fail.
CalendarStep ==
    /\ CalendarNext
    /\ forum' \in {forum, [forum EXCEPT ![1] = NoFeed]}
                  \cup {[forum EXCEPT ![3] = f[3]] : f \in MCForums}
    /\ ~byQuery =>
         Cardinality({r \in Asks : ask'[r] # NoFeed} \ {r \in Asks : AtStep(r, "answered")'}) <= 1
    /\ \A r \in Asks : AtStep(r, "posts")' =>
         \A p \in DOMAIN ask'[r].places : p # 1 => ask'[r].places[p] # NoPlace
    /\ ask'[a2] # NoFeed => ask'[a2].key = AllEvents

Cat(p, r, allowed) == [parent |-> p, restricted |-> r, allowed |-> allowed]
MCCategories == {<<Cat(NoParent, TRUE, {2}), Cat(NoParent, FALSE, {}), Cat(1, TRUE, {})>>,
                 <<Cat(NoParent, FALSE, {1}), Cat(1, TRUE, {}), NoReport>>}
MCInterest == <<2, 1>>
MCListItems == {[num |-> 1, mark |-> FALSE], [num |-> 2, mark |-> TRUE]}
MCSites ==
    {[k \in Lists |-> MCListItems] @@
     [groups |-> G, categories |-> C,
      tag_groups |-> {[num |-> 1, allowed |-> {1, 2}], [num |-> 2, allowed |-> {}]},
      site_settings |-> 1 .. 4] : G \in {1 .. 3, 2 .. 3}, C \in MCCategories}

\* Bound: of the sections other than the watched words, one fails.
ReportStep ==
    /\ ReportNext
    /\ export' # NoReport =>
         Cardinality(export'.failed \ {"watched_words", "permissions"}) <= 1

Init ==
    /\ part \in {"reviews", "export", "import", "calendar", "report", "forms", "season"}
    /\ published \in IF part = "export" THEN Programmes ELSE {1 :> Plain}
    /\ forum \in MCForums /\ forumSite \in Sites
    /\ part # "calendar" => forum[3].tags = {}
    /\ part # "report" => forumSite = CHOOSE s \in Sites : TRUE
    /\ ReviewInit /\ EventExportInit /\ EventImportInit /\ CalendarInit /\ ReportInit
    /\ (part # "calendar" => byQuery) /\ (part # "report" => withQuery)
    /\ IF part = "forms"
       THEN /\ active = Users /\ racers = {} /\ ranges = {}
            /\ configs \in {{}, {[num |-> 1, openbehavior |-> "auto"]}}
            /\ infos = {} /\ applications = {} /\ results = {} /\ volunteered = {}
            /\ request = [f \in Forms |-> NoRequest] /\ unmailed = {}
       ELSE RacingInit

Next ==
    /\ part' = part
    /\ \/ part = "reviews" /\ ReviewNext
          /\ UNCHANGED <<exportVars, importVars, calendarVars, reportVars, racingVars>>
       \/ part = "export" /\ ExportStep
          /\ UNCHANGED <<reviewVars, importVars, calendarVars, reportVars, racingVars>>
       \/ part = "import" /\ EventImportNext
          /\ UNCHANGED <<reviewVars, exportVars, calendarVars, reportVars, racingVars>>
       \/ part = "calendar" /\ CalendarStep
          /\ UNCHANGED <<reviewVars, exportVars, importVars, reportVars, racingVars>>
       \/ part = "report" /\ ReportStep
          /\ UNCHANGED <<reviewVars, exportVars, importVars, calendarVars, racingVars>>
       \/ part = "forms" /\ TeamStep
          /\ UNCHANGED <<reviewVars, exportVars, importVars, calendarVars, reportVars>>
       \/ part = "season" /\ SeasonStep
          /\ UNCHANGED <<reviewVars, exportVars, importVars, calendarVars, reportVars>>

Spec == Init /\ [][Next]_vars

Symmetric == Permutations({i1, i2}) \cup Permutations({b1, b2}) \cup Permutations({f1, f2})
=============================================================================
