--------------------------- MODULE CommunityReport --------------------------
(***************************************************************************)
(* The report of the community forum's structure (community_taxonomy.py,   *)
(* command export-taxonomy).  The sections are fetched one after the other *)
(* from Discourse, the groups by pages, and the permissions of categories  *)
(* at the end by a Data Explorer query; a section that cannot be fetched   *)
(* is empty.  Then the document is built from what was fetched.            *)
(*                                                                         *)
(* A group, a category or an item of a list stands for its name: numbers   *)
(* are in the order of names and ids.  Labels, counts and layout are left  *)
(* out.                                                                    *)
(***************************************************************************)
EXTENDS Integers, FiniteSets, Sequences, Functions, Sorting

CONSTANTS
    GroupIds,        \* numbers
    SystemGroups,    \* those that Discourse keeps by itself
    CategoryIds,     \* numbers
    TagGroupIds,
    Settings,        \* names of settings: numbers
    OfInterest,      \* SETTINGS_OF_INTEREST, a sequence of settings
    Connecting,      \* settings with "connect" or "sso" in their name
    ListItems,       \* entries of the other lists: [num, mark]
    GroupsPage,      \* groups of a page
    NoParent,        \* sentinel: a category of the top level
    NoReport,        \* sentinel: no export, no document, no such category
    Sites,           \* bound: what the forum may be: section -> its rows
    MaxMoves         \* bound: changes of the forum

ASSUME ReportAssumption ==
    /\ GroupIds \subseteq Nat \ {0} /\ CategoryIds \subseteq Nat \ {0} /\ SystemGroups \subseteq GroupIds
    /\ NoParent \notin CategoryIds /\ GroupsPage \in Nat \ {0}
    /\ OfInterest \in Seq(Settings) /\ IsInjective(OfInterest) /\ Connecting \subseteq Settings
    /\ Settings \subseteq Nat /\ ListItems \subseteq [num : Nat, mark : BOOLEAN]
    /\ IsFiniteSet(GroupIds) /\ IsFiniteSet(CategoryIds) /\ IsFiniteSet(Settings) /\ IsFiniteSet(ListItems)

(* The lists that one call fetches and the document shows as they are, or   *)
(* those of the enabled badges, or the themes with the default one first.   *)
Lists == {"tags", "user_fields", "badges", "themes", "nav_items"}

(* steps of fetch_all, and the query at the end *)
ExportSteps == <<"groups", "categories", "tags", "tag_groups", "site_settings", "user_fields",
                 "badges", "themes", "watched_words", "nav_items", "permissions">>

VARIABLES
    forumSite,     \* what Discourse answers: section -> its rows
    withQuery,     \* the query for permissions is configured
    export,        \* NoReport or the run: its step, the data so far, the sections
                   \* that failed, and those that changed since it began
    document,      \* NoReport or the document written, with the same two sets
    moves

reportVars == <<forumSite, withQuery, export, document, moves>>

-----------------------------------------------------------------------------
(* A category: its parent, if it is read_restricted, and the groups that    *)
(* have a permission.                                                       *)
Category == [parent : CategoryIds \union {NoParent}, restricted : BOOLEAN, allowed : SUBSET GroupIds]

TagGroup == [num : TagGroupIds, allowed : SUBSET GroupIds]

There(cats) == {c \in CategoryIds : cats[c] # NoReport}

(* A parent is a category of the top level. *)
SiteOK(site) ==
    /\ DOMAIN site = Lists \union {"groups", "categories", "tag_groups", "site_settings"}
    /\ site.groups \subseteq GroupIds
    /\ site.categories \in [CategoryIds -> Category \union {NoReport}]
    /\ \A c \in There(site.categories) :
         LET p == site.categories[c].parent
         IN  p # NoParent => p \in There(site.categories) /\ site.categories[p].parent = NoParent
    /\ site.tag_groups \subseteq TagGroup
    /\ site.site_settings \subseteq Settings
    /\ \A k \in Lists : site[k] \subseteq ListItems

ASSUME SitesAssumption == \A site \in Sites : SiteOK(site)

ReportInit ==
    /\ forumSite \in Sites
    /\ export = NoReport /\ document = NoReport /\ moves = 0 /\ withQuery \in BOOLEAN

Moved(run, K) == IF run = NoReport THEN NoReport ELSE [run EXCEPT !.moved = @ \union K]

(* Admins of the forum change some sections. *)
ChangeSite(site) ==
    LET K == {k \in DOMAIN site : site[k] # forumSite[k]} IN
    /\ moves < MaxMoves /\ K # {}
    /\ forumSite' = site
    /\ moves' = moves + 1
    /\ export' = Moved(export, K) /\ document' = Moved(document, K)
    /\ UNCHANGED withQuery

-----------------------------------------------------------------------------
StartExport ==
    /\ export = NoReport /\ document = NoReport
    /\ export' = [at |-> 1, page |-> 0, groups |-> <<>>, data |-> <<>>, failed |-> {}, moved |-> {}]
    /\ UNCHANGED <<forumSite, withQuery, document, moves>>

AtSection(k) == export # NoReport /\ export.at <= Len(ExportSteps) /\ ExportSteps[export.at] = k

(* The section k has the rows, and the next one follows. *)
Got(k, rows) ==
    [export EXCEPT !.at = @ + 1,
                   !.data = [j \in DOMAIN @ \union {k} |-> IF j = k THEN rows ELSE @[j]]]

Page(s, p) ==
    LET left == Len(s) - p * GroupsPage
    IN  [n \in 1 .. (IF left < GroupsPage THEN left ELSE GroupsPage) |-> s[p * GroupsPage + n]]

(* fetch_groups: the next page, the last if it is short. *)
FetchGroups ==
    /\ AtSection("groups")
    /\ LET batch == Page(InOrder(forumSite.groups), export.page)
           got == export.groups \o batch
       IN  export' = IF Len(batch) < GroupsPage THEN Got("groups", got)
                     ELSE [export EXCEPT !.groups = got, !.page = @ + 1]
    /\ UNCHANGED <<forumSite, withQuery, document, moves>>

(* fetch_categories: those of the top level and their own, in one list; it *)
(* is sorted when it is shown.                                             *)
Flat(cats) ==
    {[id |-> c, parent |-> cats[c].parent, restricted |-> cats[c].restricted, allowed |-> {}] :
        c \in There(cats)}

FetchSection(k) ==
    /\ AtSection(k) /\ k \notin {"groups", "permissions"}
    /\ export' = Got(k, IF k = "categories" THEN Flat(forumSite.categories)
                        ELSE IF k = "watched_words" THEN {"actions", "words"}
                        ELSE forumSite[k])
    /\ UNCHANGED <<forumSite, withQuery, document, moves>>

(* An error of a section: it is empty. *)
FailSection(k) ==
    /\ AtSection(k) /\ k # "permissions"
    /\ export' = [Got(k, IF k = "groups" THEN <<>> ELSE {})
                  EXCEPT !.failed = @ \union {k}]
    /\ UNCHANGED <<forumSite, withQuery, document, moves>>

(* The rows of the query, merged into the categories that were fetched. *)
Merged(rows, cats) ==
    {[r EXCEPT !.allowed = IF r.id \in There(cats) THEN cats[r.id].allowed ELSE {}] : r \in rows}

FetchPermissions(answered) ==
    /\ AtSection("permissions")
    /\ export' =
         IF withQuery /\ answered
         THEN [export EXCEPT !.at = @ + 1,
                 !.data = [@ EXCEPT !["categories"] =
                             Merged(export.data["categories"], forumSite.categories)]]
         ELSE [export EXCEPT !.at = @ + 1, !.failed = @ \union {"permissions"}]
    /\ UNCHANGED <<forumSite, withQuery, document, moves>>

-----------------------------------------------------------------------------
(* build_docx: the sections of the document. *)

GroupsShown(rows) ==
    LET system == {n \in DOMAIN rows : rows[n] \in SystemGroups}
        custom == ByNumber(rows, DOMAIN rows \ system)
    IN  [custom |-> [n \in DOMAIN custom |-> rows[custom[n]]], system |-> Picked(rows, system)]

(* _cat_sort_key: public before restricted, by name in each. *)
Before(c, d) == IF c.restricted = d.restricted THEN c.id < d.id ELSE ~c.restricted

(* Mutation: what nobody has a permission for is public. *)
AccessByGroups(c) == IF c.allowed # {} THEN "groups" ELSE "Public"

Access(c) ==
    IF c.allowed # {} THEN "groups" ELSE IF c.restricted THEN "Restricted" ELSE "Public"

(* Categories of the top level, each followed by its own. *)
TopLevel(rows) == {c \in rows : c.parent = NoParent}

TopOf(rows, c) == IF c.parent = NoParent THEN c ELSE CHOOSE t \in TopLevel(rows) : t.id = c.parent

ShownBefore(rows, c, d) ==
    IF TopOf(rows, c) # TopOf(rows, d) THEN Before(TopOf(rows, c), TopOf(rows, d))
    ELSE c.parent = NoParent \/ (d.parent # NoParent /\ Before(c, d))

CategoriesShown(rows) ==
    LET listed == TopLevel(rows) \union {c \in rows : \E t \in TopLevel(rows) : t.id = c.parent}
        ordered == Along(listed, {p \in listed \X listed : p[1] # p[2] /\ ShownBefore(rows, p[1], p[2])})
    IN  [i \in DOMAIN ordered |->
           [id |-> ordered[i].id, parent |-> ordered[i].parent,
            access |-> Access(ordered[i]), groups |-> ordered[i].allowed]]

(* The access of tag groups, by the names of the groups that were fetched,  *)
(* otherwise by their ids.                                                  *)
TagGroupsShown(rows, groups) ==
    {[num |-> t.num, access |-> IF t.allowed = {} THEN "All" ELSE "groups",
      named |-> t.allowed \intersect groups, bare |-> t.allowed \ groups] : t \in rows}

(* Those of interest in their order, then the others about logins. *)
SettingsShown(rows) ==
    Picked(OfInterest, {n \in DOMAIN OfInterest : OfInterest[n] \in rows})
      \o InOrder((rows \intersect Connecting) \ Range(OfInterest))

Nums(rows) == InOrder({x.num : x \in rows})
Marked(rows) == {x \in rows : x.mark}

ListShown(k, rows) ==
    CASE k = "badges" -> Nums(Marked(rows))
      [] k = "themes" -> Nums(Marked(rows)) \o Nums(rows \ Marked(rows))
      [] OTHER -> Nums(rows)

(* The answer about watched words is a dictionary: as the rows of a table   *)
(* its keys have no action and no word, and there is no document.           *)
BuildDocument ==
    /\ export # NoReport /\ export.at > Len(ExportSteps)
    /\ LET d == export.data IN
       document' =
         IF d["watched_words"] # {} THEN NoReport
         ELSE [groups |-> GroupsShown(d["groups"]),
               categories |-> CategoriesShown(d["categories"]),
               tag_groups |-> TagGroupsShown(d["tag_groups"], Range(d["groups"])),
               settings |-> SettingsShown(d["site_settings"]),
               lists |-> [k \in Lists |-> ListShown(k, d[k])],
               failed |-> export.failed, moved |-> export.moved]
    /\ export' = NoReport
    /\ UNCHANGED <<forumSite, withQuery, moves>>

ReportNext ==
    \/ \E site \in Sites : ChangeSite(site)
    \/ StartExport
    \/ FetchGroups
    \/ \E k \in Range(ExportSteps) : FetchSection(k)
    \/ \E k \in Range(ExportSteps) : FailSection(k)
    \/ \E answered \in BOOLEAN : FetchPermissions(answered)
    \/ BuildDocument

ReportSpec == ReportInit /\ [][ReportNext]_reportVars

-----------------------------------------------------------------------------
(* What an export has done at a step; the permissions are no section. *)
Done(n) == {ExportSteps[i] : i \in 1 .. n - 1}

ReportTypeOK ==
    /\ SiteOK(forumSite)
    /\ export # NoReport =>
         /\ export.at \in 1 .. Len(ExportSteps) + 1 /\ export.page \in Nat
         /\ DOMAIN export.data = Done(export.at) \ {"permissions"}
         /\ export.failed \subseteq Done(export.at)

Told(k) == k \notin document.failed \union document.moved

(* A category is shown once, a subcategory after its parent and no other    *)
(* top level between, and nothing restricted is called public: even when the   *)
(* permissions could not be fetched.                                        *)
CategoriesTold ==
    LET shown == document.categories
        site == forumSite.categories
    IN  /\ {shown[i].id : i \in DOMAIN shown} = There(site)
        /\ IsInjective([i \in DOMAIN shown |-> shown[i].id])
        /\ \A i \in DOMAIN shown :
             LET c == shown[i] IN
             /\ c.parent = site[c.id].parent
             /\ c.parent # NoParent => i > 1 /\ c.parent \in {shown[i - 1].id, shown[i - 1].parent}
             /\ c.access = "Public" => ~site[c.id].restricted
             /\ "permissions" \notin document.failed =>
                  c.groups = site[c.id].allowed /\ (c.access = "groups" <=> site[c.id].allowed # {})

(* A section that was fetched tells all of it and nothing else, whichever   *)
(* other sections failed, as long as the forum did not change since the     *)
(* export began; a section that failed is empty.                            *)
ReportTells ==
    document # NoReport =>
      /\ Told("groups") =>
           /\ document.groups.custom = InOrder(forumSite.groups \ SystemGroups)
           /\ document.groups.system = InOrder(forumSite.groups \intersect SystemGroups)
      /\ Told("categories") => CategoriesTold
      /\ Told("tag_groups") =>
           /\ {t.num : t \in document.tag_groups} = {t.num : t \in forumSite.tag_groups}
           /\ Told("groups") => \A t \in document.tag_groups : t.bare \intersect forumSite.groups = {}
      /\ Told("site_settings") =>
           /\ IsInjective(document.settings)
           /\ Range(document.settings) = forumSite.site_settings \intersect (Range(OfInterest) \union Connecting)
      /\ \A k \in Lists :
           /\ Told(k) => Range(document.lists[k]) =
                {x.num : x \in IF k = "badges" THEN Marked(forumSite[k]) ELSE forumSite[k]}
           /\ k \in document.failed => document.lists[k] = <<>>
=============================================================================
