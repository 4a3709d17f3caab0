---------------------------- MODULE CalendarFeed ----------------------------
(***************************************************************************)
(* The community's calendar feeds: the events of the Discourse forum that  *)
(* carry one of the asked tags, with their places, kept for TTL by each    *)
(* worker process (community_calendar.py, community_calendar_views.py).    *)
(*                                                                         *)
(* A request that finds no fresh feed under its key fetches the events in  *)
(* one call, then their places: by pages of a Data Explorer query, or, if  *)
(* none is configured, by one call per post.  The forum changes between    *)
(* any two calls, and requests of the same worker overlap.  An event is a  *)
(* post on a date; a recurring event has several.                          *)
(***************************************************************************)
EXTENDS Integers, FiniteSets

CONSTANTS
    Posts,         \* post ids: numbers
    FeedTags,      \* tags of topics
    Places,
    NoPlace,       \* sentinel: the post has no location
    Dates,
    Keys,          \* what is asked for: [tags, window], tags = {} for all
    Asks,          \* threads of one worker
    NoFeed,        \* sentinel: nothing cached, no request, no post
    PageSize,      \* rows of a page of the query
    TTL,
    EndOfTime,     \* bound: now <= EndOfTime
    MaxEdits       \* bound: changes of the forum

ASSUME CalendarAssumption ==
    /\ Posts \subseteq Nat /\ IsFiniteSet(Posts)
    /\ Keys \subseteq [tags : SUBSET FeedTags, window : SUBSET Dates]
    /\ PageSize \in Nat \ {0} /\ TTL \in Nat \ {0}
    /\ EndOfTime \in Nat /\ MaxEdits \in Nat
    /\ NoPlace \notin Places

VARIABLES
    forum,         \* post -> NoFeed or [tags, dates, place]
    byQuery,       \* the query is configured
    seconds,
    icsCache,      \* key -> NoFeed or the feed built last
    ask,           \* request -> NoFeed or its progress
    edits          \* changes so far

calendarVars == <<forum, byQuery, seconds, icsCache, ask, edits>>

Post == [tags : SUBSET FeedTags, dates : SUBSET Dates \ {{}}, place : Places \union {NoPlace}]

-----------------------------------------------------------------------------
Matches(key, p) == key.tags = {} \/ key.tags \intersect p.tags # {}

(* The events that the key asks for: [post, date]. *)
Matching(f, key) ==
    {e \in [post : Posts, date : key.window] :
       f[e.post] # NoFeed /\ e.date \in f[e.post].dates /\ Matches(key, f[e.post])}

(* The page of the query for the posts P: they are ordered by id. *)
PageRows(P, page) ==
    LET found == {p \in P : forum[p] # NoFeed}
        Rank(p) == Cardinality({q \in found : q <= p})
    IN  {p \in found : page * PageSize < Rank(p) /\ Rank(p) <= (page + 1) * PageSize}

CalendarInit ==
    /\ forum \in [Posts -> Post \union {NoFeed}]
    /\ byQuery \in BOOLEAN
    /\ seconds = 0
    /\ icsCache = [k \in Keys |-> NoFeed]
    /\ ask = [r \in Asks |-> NoFeed]
    /\ edits = 0

(* A topic is posted, edited or deleted.  "touched" keeps, for the running  *)
(* builds and the cached feeds, what changed since they began.              *)
EditForum(p, post) ==
    /\ edits < MaxEdits /\ forum[p] # post
    /\ edits' = edits + 1
    /\ forum' = [forum EXCEPT ![p] = post]
    /\ icsCache' = [k \in Keys |-> IF icsCache[k] = NoFeed THEN NoFeed
                                   ELSE [icsCache[k] EXCEPT !.touched = @ \union {p}]]
    /\ ask' = [r \in Asks |-> IF ask[r] = NoFeed THEN NoFeed
                              ELSE [ask[r] EXCEPT !.touched = @ \union {p}]]
    /\ UNCHANGED <<byQuery, seconds>>

TickSeconds ==
    /\ seconds < EndOfTime
    /\ seconds' = seconds + 1
    /\ UNCHANGED <<forum, byQuery, icsCache, ask, edits>>

-----------------------------------------------------------------------------
(* The key of the cache: the interest, the tags in order and the dates. *)
CacheKey(key) == key

FreshFeed(key) ==
    icsCache[CacheKey(key)] # NoFeed /\ seconds - icsCache[CacheKey(key)].at < TTL

Blank(key) ==
    [key |-> key, step |-> "events", touched |-> {}, events |-> {}, places |-> <<>>, page |-> 0]

AtStep(r, step) == ask[r] # NoFeed /\ ask[r].step = step

(* The client's next request for the key: answered from the cache, or the build begins. *)
AskFeed(r, key) ==
    /\ ask[r] = NoFeed \/ AtStep(r, "answered")
    /\ ask' = [ask EXCEPT ![r] =
         IF FreshFeed(key)
         THEN [Blank(key) EXCEPT !.step = "answered", !.events = icsCache[CacheKey(key)].shown,
                                 !.touched = icsCache[CacheKey(key)].touched]
         ELSE Blank(key)]
    /\ UNCHANGED <<forum, byQuery, seconds, icsCache, edits>>

PostsOf(q) == {e.post : e \in q.events}

(* The places known so far, with those of the rows. *)
WithPlaces(rows, places) ==
    [p \in rows \union DOMAIN places |-> IF p \in rows THEN forum[p].place ELSE places[p]]

(* The events of the window, and of these the ones that match. *)
QueryEvents(r) ==
    /\ AtStep(r, "events")
    /\ ask' = [ask EXCEPT ![r].events = Matching(forum, ask[r].key),
                          ![r].step = IF byQuery THEN "pages" ELSE "posts"]
    /\ UNCHANGED <<forum, byQuery, seconds, icsCache, edits>>

(* Mutation: the query is not asked for further pages. *)
FetchFirstPage(r) ==
    /\ AtStep(r, "pages") /\ ask[r].events # {}
    /\ LET rows == PageRows(PostsOf(ask[r]), ask[r].page)
       IN  ask' = [ask EXCEPT ![r].places = WithPlaces(rows, @), ![r].page = @ + 1, ![r].step = "build"]
    /\ UNCHANGED <<forum, byQuery, seconds, icsCache, edits>>

(* run_query_paged: a page, the last if it is short. *)
FetchPage(r) ==
    /\ AtStep(r, "pages") /\ ask[r].events # {}
    /\ LET rows == PageRows(PostsOf(ask[r]), ask[r].page)
       IN  ask' = [ask EXCEPT ![r].places = WithPlaces(rows, @),
                              ![r].page = @ + 1,
                              ![r].step = IF Cardinality(rows) < PageSize THEN "build" ELSE @]
    /\ UNCHANGED <<forum, byQuery, seconds, icsCache, edits>>

(* _fetch_location: a post that cannot be read has no place. *)
FetchPost(r, p, answered) ==
    /\ AtStep(r, "posts") /\ p \in PostsOf(ask[r]) \ DOMAIN ask[r].places
    /\ ask' = [ask EXCEPT ![r].places =
         [x \in DOMAIN @ \union {p} |->
            IF x # p THEN @[x]
            ELSE IF answered /\ forum[p] # NoFeed THEN forum[p].place ELSE NoPlace]]
    /\ UNCHANGED <<forum, byQuery, seconds, icsCache, edits>>

Located(q) ==
    CASE q.step = "pages" -> q.events = {}
      [] q.step = "posts" -> PostsOf(q) = DOMAIN q.places
      [] OTHER -> q.step = "build"

PlaceOf(q, p) == IF p \in DOMAIN q.places THEN q.places[p] ELSE NoPlace

(* The feed is built, kept under its key with the time of now, and sent. *)
BuildFeed(r) ==
    LET q == ask[r]
        shown == {[post |-> e.post, date |-> e.date, place |-> PlaceOf(q, e.post)] : e \in q.events}
    IN  /\ q # NoFeed /\ Located(q)
        /\ icsCache' = [icsCache EXCEPT ![CacheKey(q.key)] =
             [shown |-> shown, touched |-> q.touched, at |-> seconds]]
        /\ ask' = [ask EXCEPT ![r].step = "answered", ![r].events = shown]
        /\ UNCHANGED <<forum, byQuery, seconds, edits>>

(* A call fails, other than for one post: the request fails. *)
FailFeed(r) ==
    /\ AtStep(r, "events") \/ AtStep(r, "pages")
    /\ ask' = [ask EXCEPT ![r] = NoFeed]
    /\ UNCHANGED <<forum, byQuery, seconds, icsCache, edits>>

CalendarNext ==
    \/ \E p \in Posts, post \in Post \union {NoFeed} : EditForum(p, post)
    \/ TickSeconds
    \/ \E r \in Asks, key \in Keys : AskFeed(r, key)
    \/ \E r \in Asks : QueryEvents(r)
    \/ \E r \in Asks : FetchPage(r)
    \/ \E r \in Asks, p \in Posts, answered \in BOOLEAN : FetchPost(r, p, answered)
    \/ \E r \in Asks : BuildFeed(r)
    \/ \E r \in Asks : FailFeed(r)

CalendarSpec == CalendarInit /\ [][CalendarNext]_calendarVars

-----------------------------------------------------------------------------
Shown == [post : Posts, date : Dates, place : Places \union {NoPlace}]

CalendarTypeOK ==
    /\ forum \in [Posts -> Post \union {NoFeed}]
    /\ byQuery \in BOOLEAN /\ seconds \in 0 .. EndOfTime /\ edits \in 0 .. MaxEdits
    /\ \A k \in Keys : icsCache[k] # NoFeed =>
         icsCache[k] \in [shown : SUBSET Shown, touched : SUBSET Posts, at : 0 .. EndOfTime]
    /\ \A r \in Asks : ask[r] # NoFeed =>
         ask[r].key \in Keys /\ ask[r].touched \subseteq Posts /\ ask[r].page \in Nat

(* The events shown of a key are those of the forum that match it, except   *)
(* for the posts changed since the build began; each with its place or, if  *)
(* a call for one post failed or a deletion moved the rows between two      *)
(* pages, with none.                                                        *)
Tells(key, shown, touched) ==
    LET now == Matching(forum, key) IN
    /\ \A e \in now : e.post \notin touched =>
         \E s \in shown : s.post = e.post /\ s.date = e.date
    /\ \A s \in shown : s.post \notin touched =>
         /\ [post |-> s.post, date |-> s.date] \in now
         /\ s.place \in {forum[s.post].place, NoPlace}
         /\ byQuery /\ touched = {} => s.place = forum[s.post].place

(* Every feed, built or from the cache, is a feed of its own key, and       *)
(* differs from the forum by nothing that did not change since.             *)
FeedsTell ==
    /\ \A k \in Keys : icsCache[k] # NoFeed => Tells(k, icsCache[k].shown, icsCache[k].touched)
    /\ \A r \in Asks : AtStep(r, "answered") =>
         Tells(ask[r].key, ask[r].events, ask[r].touched)
=============================================================================
