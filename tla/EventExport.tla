---------------------------- MODULE EventExport -----------------------------
(***************************************************************************)
(* The export of events from the club's WordPress site into the CSV file   *)
(* that, reviewed, is imported as topics (scripts/export_fsrc_events.py).  *)
(*                                                                         *)
(* The events of the year are asked for page by page, in the order of      *)
(* their start, while the site may change; a row keeps the tags of the     *)
(* event's categories and its description without the widgets of the       *)
(* site's calendar.  An event is named by its start: no two share one.     *)
(***************************************************************************)
EXTENDS Integers, Sequences, FiniteSets, Functions, Sorting

CONSTANTS
    Starts,         \* starts of events within the year
    Overrides,      \* CATEGORY_TAG_OVERRIDES: slug -> tag, or NoTag to remove it
    NoTag,
    Contents,       \* the slugs of its categories and the description of an event
    PerPage,        \* PER_PAGE
    NoExport,       \* sentinel: no export runs, no file
    MaxSiteChanges  \* bound: events published and withdrawn

ASSUME EventExportAssumption ==
    /\ PerPage \in Nat \ {0} /\ Starts \subseteq Nat /\ IsFiniteSet(Starts)
    /\ \A c \in Contents : NoTag \notin c.slugs /\ c.description \in Seq(STRING)

VARIABLES
    published,      \* WordPress: start -> content of an event
    fetched,        \* NoExport or the export that runs
    exported,       \* NoExport or the file, with the changes that it may have missed
    siteChanges

exportVars == <<published, fetched, exported, siteChanges>>

Programme == InOrder(DOMAIN published)
NoMorePages(page) == page * PerPage >= Cardinality(DOMAIN published)
EventPage(page) ==
    LET left == Cardinality(DOMAIN published) - (page - 1) * PerPage
    IN  [n \in 1 .. (IF left < PerPage THEN left ELSE PerPage) |-> Programme[(page - 1) * PerPage + n]]
Answer(page) ==
    [n \in DOMAIN EventPage(page) |->
       [start |-> EventPage(page)[n], content |-> published[EventPage(page)[n]]]]

-----------------------------------------------------------------------------
CategoryToTag(slug) == IF slug \in DOMAIN Overrides THEN Overrides[slug] ELSE slug

(* Mutation: a category without a tag gets an empty one. *)
TagsWithEmpty(c) == {CategoryToTag(slug) : slug \in c.slugs}

TagsOf(c) == {CategoryToTag(slug) : slug \in c.slugs} \ {NoTag}

(* The parser at the next token: a div ("open"), one of the calendar's      *)
(* widgets ("widget"), the end of either ("close"), or anything else.       *)
Parsed(acc, token) ==
    IF acc.depth > 0
    THEN [acc EXCEPT !.depth = CASE token \in {"open", "widget"} -> @ + 1
                                 [] token = "close" -> @ - 1
                                 [] OTHER -> @]
    ELSE IF token = "widget" THEN [acc EXCEPT !.depth = 1]
    ELSE [acc EXCEPT !.parts = Append(@, token)]

Strip(html) ==
    LET acc[n \in 0 .. Len(html)] ==
          IF n = 0 THEN [parts |-> <<>>, depth |-> 0] ELSE Parsed(acc[n - 1], html[n])
    IN  acc[Len(html)].parts

CsvRow(e) == [start |-> e.start, content |-> e.content, tags |-> TagsOf(e.content),
              description |-> Strip(e.content.description)]

-----------------------------------------------------------------------------
EventExportInit ==
    /\ \E S \in SUBSET Starts : published \in [S -> Contents]
    /\ fetched = NoExport /\ exported = NoExport /\ siteChanges = 0

StartEventExport ==
    /\ fetched = NoExport
    /\ fetched' = [page |-> 1, events |-> <<>>, complete |-> FALSE,
                   stood |-> DOMAIN published, grown |-> FALSE, shrunk |-> FALSE]
    /\ UNCHANGED <<published, exported, siteChanges>>

(* Past the last page there is no answer to use. *)
FetchEvents ==
    LET page == fetched.page
        last == NoMorePages(page)
    IN  /\ fetched # NoExport /\ ~fetched.complete
        /\ fetched' = [fetched EXCEPT !.events = @ \o Answer(page), !.complete = last, !.page = @ + 1]
        /\ UNCHANGED <<published, exported, siteChanges>>

WriteCsv ==
    LET events == fetched.events
        sorted == ByNumber([n \in DOMAIN events |-> events[n].start], DOMAIN events)
    IN  /\ fetched # NoExport /\ fetched.complete
        /\ exported' = [rows |-> [n \in DOMAIN sorted |-> CsvRow(events[sorted[n]])],
                        stood |-> fetched.stood, grown |-> fetched.grown, shrunk |-> fetched.shrunk]
        /\ fetched' = NoExport
        /\ UNCHANGED <<published, siteChanges>>

(* A page cannot be fetched: no file is written. *)
ExportFails ==
    /\ fetched # NoExport /\ ~fetched.complete
    /\ fetched' = NoExport
    /\ UNCHANGED <<published, exported, siteChanges>>

PublishEvent(s, c) ==
    /\ siteChanges < MaxSiteChanges /\ siteChanges' = siteChanges + 1
    /\ s \notin DOMAIN published /\ published' = [x \in DOMAIN published \union {s} |-> IF x = s THEN c ELSE published[x]]
    /\ fetched' = IF fetched = NoExport THEN NoExport ELSE [fetched EXCEPT !.grown = TRUE]
    /\ UNCHANGED exported

WithdrawEvent(s) ==
    /\ siteChanges < MaxSiteChanges /\ siteChanges' = siteChanges + 1
    /\ published' = Restrict(published, DOMAIN published \ {s})
    /\ fetched' = IF fetched = NoExport THEN NoExport
                  ELSE [fetched EXCEPT !.shrunk = TRUE, !.stood = @ \ {s}]
    /\ UNCHANGED exported

EventExportNext ==
    \/ StartEventExport
    \/ FetchEvents
    \/ WriteCsv
    \/ ExportFails
    \/ \E s \in Starts, c \in Contents : PublishEvent(s, c)
    \/ \E s \in DOMAIN published : WithdrawEvent(s)

EventExportSpec == EventExportInit /\ [][EventExportNext]_exportVars

-----------------------------------------------------------------------------
EventRow == [start : Starts, content : Contents]
Reading == [page : Nat \ {0}, events : Seq(EventRow), complete : BOOLEAN, stood : SUBSET Starts,
            grown : BOOLEAN, shrunk : BOOLEAN]

EventExportTypeOK ==
    /\ DOMAIN published \subseteq Starts /\ published \in [DOMAIN published -> Contents]
    /\ fetched # NoExport => fetched \in Reading

(* How many of the tags that open from w to k have not ended there. *)
OpenFrom(html, w, k) == Cardinality({x \in w .. k : html[x] \in {"open", "widget"}})
                          - Cardinality({x \in w .. k : html[x] = "close"})

(* The token at n lies in a widget: it begins one, or one has not ended.    *)
InWidget(html, n) ==
    \E w \in 1 .. n : html[w] = "widget" /\ \A k \in w .. n - 1 : OpenFrom(html, w, k) > 0

OutsideWidgets(html) == Picked(html, {n \in DOMAIN html : ~InWidget(html, n)})

(* The file lists the events in order, each with the tags its categories    *)
(* stand for and what its description says outside of widgets.  An event    *)
(* that was there throughout is in it, unless another was withdrawn while   *)
(* the pages were read, and is in it once, unless another was published.    *)
ExportTells ==
    exported # NoExport =>
      LET rows == exported.rows
          of(s) == {n \in DOMAIN rows : rows[n].start = s}
      IN  /\ \A n \in 1 .. Len(rows) - 1 : rows[n].start <= rows[n + 1].start
          /\ \A s \in exported.stood :
               /\ ~exported.shrunk => of(s) # {}
               /\ ~exported.grown => Cardinality(of(s)) <= 1
          /\ \A n \in DOMAIN rows :
               /\ rows[n].description = OutsideWidgets(rows[n].content.description)
               /\ rows[n].content.slugs \ DOMAIN Overrides \subseteq rows[n].tags
               /\ NoTag \notin rows[n].tags
=============================================================================
