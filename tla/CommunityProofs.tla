-------------------------- MODULE CommunityProofs ---------------------------
(***************************************************************************)
(* Proofs about the community forum.  The export of events, for any        *)
(* descriptions and pages that shift while they are read; the report of    *)
(* the forum's structure, for any forum; the synchronization of its        *)
(* groups, for any people and groups and any number of changes from        *)
(* outside, failing calls and dying commands; the import of events, which  *)
(* implements the announcements, for any events, CSV files and faults;     *)
(* the notices of what waits for review; the calendar feeds that overlap-  *)
(* ping requests build and cache; and the limiter that every call of the   *)
(* forum goes through, for any number of processes.                        *)
(***************************************************************************)
EXTENDS RateLimiter, CommunitySync, EventImport, ReviewNotices, CalendarFeed, CommunityReport,
        EventExport, SetFacts

-----------------------------------------------------------------------------
(* The export of events: what the parser keeps *)

\* The state of the parser after the first n tokens.
IsParse(html, acc, m) ==
    /\ acc = [n \in 0 .. m |-> acc[n]]
    /\ acc[0] = [parts |-> <<>>, depth |-> 0]
    /\ \A n \in 1 .. m : acc[n] = Parsed(acc[n - 1], html[n])

LEMMA ParseIs ==
    ASSUME NEW html \in Seq(STRING)
    PROVE  \E acc : IsParse(html, acc, Len(html)) /\ Strip(html) = acc[Len(html)].parts
<1> DEFINE N == Len(html)
           Step(f) == [n \in 0 .. N |->
                         IF n = 0 THEN [parts |-> <<>>, depth |-> 0] ELSE Parsed(f[n - 1], html[n])]
           Parses == {k \in Nat : \E f : IsParse(html, f, k)}
<1>0. N \in Nat
  OBVIOUS
<1> HIDE DEF N
<1>1. 0 \in Parses
  <2>1. IsParse(html, [n \in 0 .. 0 |-> [parts |-> <<>>, depth |-> 0]], 0)
    BY DEF IsParse
  <2> QED BY <2>1
<1>2. ASSUME NEW k \in 1 .. N, k - 1 \in Parses PROVE k \in Parses
  <2>1. PICK f : IsParse(html, f, k - 1)
    BY <1>2
  <2> DEFINE p == Parsed(f[k - 1], html[k])
             g == [n \in 0 .. k |-> IF n = k THEN p ELSE f[n]]
  <2>2. k \in Nat /\ \A n \in 1 .. k : n - 1 \in 0 .. k - 1 /\ n - 1 # k /\ n \in 0 .. k /\ n - 1 \in 0 .. k
    BY <1>0
  <2> HIDE DEF p
  <2>3. g = [n \in 0 .. k |-> g[n]]
    OBVIOUS
  <2>4. g[0] = [parts |-> <<>>, depth |-> 0]
    BY <2>1, <2>2 DEF IsParse
  <2>5. ASSUME NEW n \in 1 .. k PROVE g[n] = Parsed(g[n - 1], html[n])
    <3>1. g[n - 1] = f[n - 1]
      BY <2>2
    <3>2. CASE n = k
      BY <2>2, <3>1, <3>2 DEF p
    <3>3. CASE n # k
      <4>1. n \in 1 .. k - 1 /\ g[n] = f[n]
        BY <2>2, <3>3
      <4>2. f[n] = Parsed(f[n - 1], html[n])
        BY <2>1, <4>1 DEF IsParse
      <4> QED BY <3>1, <4>1, <4>2
    <3> QED BY <3>2, <3>3
  <2> HIDE DEF g
  <2>6. IsParse(html, g, k)
    BY <2>3, <2>4, <2>5 DEF IsParse
  <2> QED BY <2>2, <2>6
<1>3. PICK f : IsParse(html, f, N)
  <2>1. 0 .. N \subseteq Parses
    <3> HIDE DEF Parses
    <3> QED BY <1>0, <1>1, <1>2, BoundedInduction
  <2> QED BY <1>0, <2>1
<1>4. f = Step(f)
  <2>1. f = [n \in 0 .. N |-> f[n]]
    BY <1>3 DEF IsParse
  <2>2. \A n \in 0 .. N : f[n] = IF n = 0 THEN [parts |-> <<>>, depth |-> 0] ELSE Parsed(f[n - 1], html[n])
    BY SMTT(30), <1>0, <1>3 DEF IsParse
  <2> QED BY <2>1, <2>2
<1> DEFINE acc == CHOOSE f1 : f1 = Step(f1)
<1>5. acc = Step(acc)
  <2> HIDE DEF Step
  <2> QED BY <1>4
<1>6. Strip(html) = acc[N].parts
  BY DEF Strip, N
<1> HIDE DEF acc
<1>7. IsParse(html, acc, N)
  BY <1>0, <1>5 DEF IsParse
<1> QED BY <1>6, <1>7 DEF N

\* What a token adds to the depth within a widget.
Deeper(token) == CASE token \in {"open", "widget"} -> 1 [] token = "close" -> -1 [] OTHER -> 0

LEMMA OpenFromIs ==
    ASSUME NEW html, NEW w \in Nat, NEW k \in Nat, w <= k
    PROVE  /\ OpenFrom(html, w, w) = Deeper(html[w])
           /\ OpenFrom(html, w, k) \in Int
           /\ OpenFrom(html, w, k + 1) = OpenFrom(html, w, k) + Deeper(html[k + 1])
<1> DEFINE O(j) == {x \in w .. j : html[x] \in {"open", "widget"}}
           C(j) == {x \in w .. j : html[x] = "close"}
<1>1. ASSUME NEW j \in Int
      PROVE  /\ IsFiniteSet(O(j)) /\ Cardinality(O(j)) \in Nat
             /\ IsFiniteSet(C(j)) /\ Cardinality(C(j)) \in Nat
  <2>1. IsFiniteSet(w .. j) /\ O(j) \in SUBSET (w .. j) /\ C(j) \in SUBSET (w .. j)
    BY FS_Interval
  <2> HIDE DEF O, C
  <2> QED BY <2>1, FS_Subset, FS_CardinalityType
<1>2. ASSUME NEW j \in Int, w <= j + 1
      PROVE  /\ Cardinality(O(j + 1)) = Cardinality(O(j)) + (IF html[j + 1] \in {"open", "widget"} THEN 1 ELSE 0)
             /\ Cardinality(C(j + 1)) = Cardinality(C(j)) + (IF html[j + 1] = "close" THEN 1 ELSE 0)
  <2>1. O(j + 1) = IF html[j + 1] \in {"open", "widget"} THEN O(j) \union {j + 1} ELSE O(j)
    BY <1>2
  <2>2. C(j + 1) = IF html[j + 1] = "close" THEN C(j) \union {j + 1} ELSE C(j)
    BY <1>2
  <2>3. j + 1 \notin O(j) /\ j + 1 \notin C(j)
    BY <1>2
  <2>4. IsFiniteSet(O(j)) /\ Cardinality(O(j)) \in Nat /\ IsFiniteSet(C(j)) /\ Cardinality(C(j)) \in Nat
    BY <1>1
  <2> HIDE DEF O, C
  <2>5. Cardinality(O(j) \union {j + 1}) = Cardinality(O(j)) + 1
    BY <2>3, <2>4, FS_AddElement
  <2>6. Cardinality(C(j) \union {j + 1}) = Cardinality(C(j)) + 1
    BY <2>3, <2>4, FS_AddElement
  <2> QED BY <2>1, <2>2, <2>4, <2>5, <2>6
<1>3. \A j : OpenFrom(html, w, j) = Cardinality(O(j)) - Cardinality(C(j))
  BY DEF OpenFrom
<1>4. Cardinality(O(w - 1)) = 0 /\ Cardinality(C(w - 1)) = 0
  <2>1. O(w - 1) = {} /\ C(w - 1) = {}
    OBVIOUS
  <2> HIDE DEF O, C
  <2> QED BY <2>1, FS_EmptySet
<1> HIDE DEF O, C
<1>5. w - 1 \in Int /\ w <= w - 1 + 1 /\ w - 1 + 1 = w /\ w <= k + 1 /\ k \in Int
  OBVIOUS
<1>6. /\ Cardinality(O(w)) = Cardinality(O(w - 1)) + (IF html[w] \in {"open", "widget"} THEN 1 ELSE 0)
      /\ Cardinality(C(w)) = Cardinality(C(w - 1)) + (IF html[w] = "close" THEN 1 ELSE 0)
  BY <1>2, <1>5
<1>7. OpenFrom(html, w, w) = Deeper(html[w])
  BY <1>3, <1>4, <1>6 DEF Deeper
<1>8. OpenFrom(html, w, k) \in Int
  BY <1>1, <1>3
<1>9. /\ Cardinality(O(k + 1)) = Cardinality(O(k)) + (IF html[k + 1] \in {"open", "widget"} THEN 1 ELSE 0)
      /\ Cardinality(C(k + 1)) = Cardinality(C(k)) + (IF html[k + 1] = "close" THEN 1 ELSE 0)
  BY <1>2, <1>5
<1>10. Cardinality(O(k)) \in Nat /\ Cardinality(C(k)) \in Nat
  BY <1>1
<1>11. OpenFrom(html, w, k + 1) = OpenFrom(html, w, k) + Deeper(html[k + 1])
  BY <1>3, <1>9, <1>10 DEF Deeper
<1> QED BY <1>7, <1>8, <1>11

Parses == [parts : Seq(STRING), depth : Nat]

LEMMA ParsedIs ==
    ASSUME NEW a \in Parses, NEW token \in STRING
    PROVE  /\ Parsed(a, token) \in Parses
           /\ a.depth > 0 => Parsed(a, token).depth = a.depth + Deeper(token)
           /\ a.depth = 0 => Parsed(a, token).depth = IF token = "widget" THEN 1 ELSE 0
           /\ Parsed(a, token).parts =
                IF a.depth > 0 \/ token = "widget" THEN a.parts ELSE Append(a.parts, token)
<1>1. a.depth \in Nat /\ a.parts \in Seq(STRING) /\ a = [parts |-> a.parts, depth |-> a.depth]
  BY DEF Parses
<1>2. Append(a.parts, token) \in Seq(STRING)
  BY <1>1
<1>3. CASE a.depth > 0
  <2> DEFINE d == a.depth + Deeper(token)
  <2>1. Parsed(a, token) = [a EXCEPT !.depth = d]
    BY <1>1, <1>3 DEF Parsed, Deeper
  <2>2. d \in Nat
    BY <1>1, <1>3 DEF Deeper
  <2> HIDE DEF d
  <2>3. Parsed(a, token) \in Parses /\ Parsed(a, token).depth = d /\ Parsed(a, token).parts = a.parts
    BY <2>1, <2>2 DEF Parses
  <2> QED BY <1>1, <1>3, <2>3 DEF d
<1>4. CASE a.depth = 0 /\ token = "widget"
  <2>1. Parsed(a, token) = [a EXCEPT !.depth = 1]
    BY <1>4 DEF Parsed
  <2> QED BY <1>1, <1>4, <2>1 DEF Parses
<1>5. CASE a.depth = 0 /\ token # "widget"
  <2>1. Parsed(a, token) = [a EXCEPT !.parts = Append(a.parts, token)]
    BY <1>5 DEF Parsed
  <2> QED BY <1>1, <1>2, <1>5, <2>1 DEF Parses
<1> QED BY <1>1, <1>3, <1>4, <1>5

LEMMA ParseTyped ==
    ASSUME NEW html \in Seq(STRING), NEW acc, IsParse(html, acc, Len(html))
    PROVE  \A n \in 0 .. Len(html) : acc[n] \in Parses
<1> DEFINE N == Len(html)
           S == {n \in Nat : acc[n] \in Parses}
<1>0. N \in Nat
  OBVIOUS
<1>1. \A n \in 1 .. N : html[n] \in STRING /\ n \in Nat
  OBVIOUS
<1> HIDE DEF N
<1>2. 0 \in S
  <2>1. acc[0] = [parts |-> <<>>, depth |-> 0]
    BY DEF IsParse
  <2>2. <<>> \in Seq(STRING)
    OBVIOUS
  <2>3. [parts |-> <<>>, depth |-> 0] \in Parses
    BY <2>2 DEF Parses
  <2> QED BY <2>1, <2>3
<1>3. ASSUME NEW k \in 1 .. N, k - 1 \in S PROVE k \in S
  <2>1. acc[k] = Parsed(acc[k - 1], html[k])
    BY DEF IsParse, N
  <2>2. acc[k - 1] \in Parses
    BY <1>3
  <2> QED BY <1>1, <2>1, <2>2, ParsedIs
<1>4. 0 .. N \subseteq S
  <2> HIDE DEF S
  <2> QED BY <1>0, <1>2, <1>3, BoundedInduction
<1> QED BY <1>4 DEF N

\* The parser from one token to the next.
LEMMA ParseSteps ==
    ASSUME NEW html \in Seq(STRING), NEW acc, IsParse(html, acc, Len(html))
    PROVE  /\ \A n \in 0 .. Len(html) : acc[n].depth \in Nat
           /\ acc[0].depth = 0 /\ acc[0].parts = <<>>
           /\ \A n \in 1 .. Len(html) :
                /\ acc[n - 1].depth \in Nat
                /\ acc[n - 1].depth > 0 => acc[n].depth = acc[n - 1].depth + Deeper(html[n])
                /\ acc[n - 1].depth = 0 => acc[n].depth = IF html[n] = "widget" THEN 1 ELSE 0
                /\ acc[n].parts = IF acc[n - 1].depth > 0 \/ html[n] = "widget" THEN acc[n - 1].parts
                                  ELSE Append(acc[n - 1].parts, html[n])
<1>1. \A n \in 0 .. Len(html) : acc[n] \in Parses /\ acc[n].depth \in Nat
  BY ParseTyped DEF Parses
<1>2. acc[0].depth = 0 /\ acc[0].parts = <<>>
  <2>1. acc[0] = [parts |-> <<>>, depth |-> 0]
    BY DEF IsParse
  <2> QED BY <2>1
<1>3. ASSUME NEW n \in 1 .. Len(html)
      PROVE  /\ acc[n - 1].depth \in Nat
             /\ acc[n - 1].depth > 0 => acc[n].depth = acc[n - 1].depth + Deeper(html[n])
             /\ acc[n - 1].depth = 0 => acc[n].depth = IF html[n] = "widget" THEN 1 ELSE 0
             /\ acc[n].parts = IF acc[n - 1].depth > 0 \/ html[n] = "widget" THEN acc[n - 1].parts
                               ELSE Append(acc[n - 1].parts, html[n])
  <2> DEFINE a == acc[n - 1]
  <2>1. acc[n] = Parsed(a, html[n])
    BY DEF IsParse
  <2>2. html[n] \in STRING /\ n - 1 \in 0 .. Len(html)
    OBVIOUS
  <2>3. a \in Parses /\ a.depth \in Nat
    BY <1>1, <2>2
  <2> HIDE DEF a
  <2>4. /\ a.depth > 0 => Parsed(a, html[n]).depth = a.depth + Deeper(html[n])
        /\ a.depth = 0 => Parsed(a, html[n]).depth = IF html[n] = "widget" THEN 1 ELSE 0
        /\ Parsed(a, html[n]).parts =
             IF a.depth > 0 \/ html[n] = "widget" THEN a.parts ELSE Append(a.parts, html[n])
    BY <2>2, <2>3, ParsedIs
  <2> QED BY <2>1, <2>3, <2>4 DEF a
<1> QED BY <1>1, <1>2, <1>3

\* What the parser counts within a widget is what is open since the outermost one began.
LEMMA ParseDepth ==
    ASSUME NEW html \in Seq(STRING), NEW acc, IsParse(html, acc, Len(html)),
           NEW n \in 0 .. Len(html), acc[n].depth > 0
    PROVE  \E w \in 1 .. n : /\ html[w] = "widget"
                             /\ \A j \in w .. n : OpenFrom(html, w, j) > 0
<1> DEFINE N == Len(html)
           From(k, w) == /\ html[w] = "widget" /\ \A j \in w .. k : OpenFrom(html, w, j) > 0
                         /\ OpenFrom(html, w, k) = acc[k].depth
           S == {k \in Nat : acc[k].depth > 0 => \E w \in 1 .. k : From(k, w)}
<1>0. N \in Nat /\ \A k \in 0 .. N : acc[k].depth \in Nat
  BY ParseSteps
<1>1. 0 \in S
  BY ParseSteps
<1>2. ASSUME NEW k \in 1 .. N, k - 1 \in S PROVE k \in S
  <2>0. k \in Nat /\ k - 1 \in Nat /\ acc[k - 1].depth \in Nat /\ k - 1 \in 0 .. N
    BY ParseSteps
  <2> SUFFICES ASSUME acc[k].depth > 0 PROVE \E w \in 1 .. k : From(k, w)
    BY <2>0
  <2>1. /\ acc[k - 1].depth > 0 => acc[k].depth = acc[k - 1].depth + Deeper(html[k])
        /\ acc[k - 1].depth = 0 => acc[k].depth = IF html[k] = "widget" THEN 1 ELSE 0
    BY ParseSteps
  <2>2. CASE acc[k - 1].depth = 0
    <3>1. html[k] = "widget" /\ acc[k].depth = 1
      BY <2>1, <2>2
    <3>2. OpenFrom(html, k, k) = 1
      BY <2>0, <3>1, OpenFromIs DEF Deeper
    <3>3. \A j \in k .. k : j = k
      BY <2>0
    <3>4. From(k, k)
      BY <3>1, <3>2, <3>3
    <3> QED BY <2>0, <3>4
  <2>3. CASE acc[k - 1].depth > 0
    <3>1. PICK w \in 1 .. k - 1 : From(k - 1, w)
      BY <1>2, <2>3
    <3>2. w \in Nat /\ w <= k - 1 /\ k - 1 + 1 = k /\ w \in 1 .. k
      BY <2>0
    <3>3. OpenFrom(html, w, k) = OpenFrom(html, w, k - 1) + Deeper(html[k])
      <4>1. OpenFrom(html, w, k - 1 + 1) = OpenFrom(html, w, k - 1) + Deeper(html[k - 1 + 1])
        BY <2>0, <3>2, OpenFromIs
      <4> QED BY <3>2, <4>1
    <3>4. OpenFrom(html, w, k) = acc[k].depth
      BY <2>1, <2>3, <3>1, <3>3
    <3>5. \A j \in w .. k : j = k \/ j \in w .. k - 1
      BY <2>0
    <3>6. \A j \in w .. k : OpenFrom(html, w, j) > 0
      BY <3>1, <3>4, <3>5
    <3> QED BY <3>1, <3>2, <3>4, <3>6
  <2> QED BY <2>0, <2>2, <2>3
<1>3. 0 .. N \subseteq S
  <2> HIDE DEF N, S
  <2> QED BY <1>0, <1>1, <1>2, BoundedInduction
<1> QED BY <1>3

\* Within a widget the parser is within one as well: it is at least as deep.
LEMMA DepthGrows ==
    ASSUME NEW html \in Seq(STRING), NEW acc, IsParse(html, acc, Len(html)),
           NEW n \in 1 .. Len(html), NEW w \in 1 .. n - 1, html[w] = "widget",
           \A k \in w .. n - 1 : OpenFrom(html, w, k) > 0
    PROVE  acc[n - 1].depth > 0
<1> DEFINE m == n - 1 - w
           S == {i \in Nat : i <= m => acc[w + i].depth >= OpenFrom(html, w, w + i)}
<1>0. /\ m \in Nat /\ w \in Nat /\ w \in 1 .. Len(html) /\ w + m = n - 1
      /\ \A i \in 0 .. m : /\ w + i \in 0 .. Len(html) /\ w + i \in Nat /\ w <= w + i
                           /\ w + i \in w .. n - 1
  OBVIOUS
<1>1. \A k \in 0 .. Len(html) : acc[k].depth \in Nat
  BY ParseSteps
<1>2. \A k \in 1 .. Len(html) :
        /\ acc[k - 1].depth \in Nat
        /\ acc[k - 1].depth > 0 => acc[k].depth = acc[k - 1].depth + Deeper(html[k])
        /\ acc[k - 1].depth = 0 => acc[k].depth = IF html[k] = "widget" THEN 1 ELSE 0
  BY ParseSteps
<1>3. 0 \in S
  <2>2. acc[w - 1].depth \in Nat
    BY <1>0, <1>2
  <2>3. /\ acc[w - 1].depth > 0 => acc[w].depth = acc[w - 1].depth + Deeper(html[w])
        /\ acc[w - 1].depth = 0 => acc[w].depth = 1
    BY <1>0, <1>2
  <2>4. OpenFrom(html, w, w) = 1 /\ Deeper(html[w]) = 1
    <3>1. w \in Nat /\ w <= w
      BY <1>0
    <3>2. OpenFrom(html, w, w) = Deeper(html[w])
      BY ONLY <3>1, OpenFromIs
    <3> QED BY <3>2 DEF Deeper
  <2>5. acc[w].depth >= OpenFrom(html, w, w)
    BY <2>2, <2>3, <2>4
  <2>6. w + 0 = w
    BY <1>0
  <2> QED BY <2>5, <2>6
<1>4. ASSUME NEW i \in 1 .. m, i - 1 \in S PROVE i \in S
  <2> DEFINE k == w + i
  <2>0. /\ i \in Nat /\ i - 1 \in Nat /\ i - 1 <= m /\ i - 1 \in 0 .. m /\ k \in 1 .. Len(html)
        /\ w + (i - 1) = k - 1 /\ k - 1 + 1 = k /\ k - 1 \in Nat /\ w <= k - 1
        /\ k - 1 \in w .. n - 1 /\ k - 1 \in 0 .. Len(html) /\ k \in 0 .. Len(html)
    BY <1>0
  <2>1. acc[k - 1].depth >= OpenFrom(html, w, k - 1)
    <3>1. acc[w + (i - 1)].depth >= OpenFrom(html, w, w + (i - 1))
      BY <1>4, <2>0
    <3> QED BY <2>0, <3>1
  <2> HIDE DEF m, S, k
  <2>2. OpenFrom(html, w, k - 1) > 0 /\ OpenFrom(html, w, k - 1) \in Int
    BY <1>0, <2>0, OpenFromIs
  <2>3. OpenFrom(html, w, k) = OpenFrom(html, w, k - 1) + Deeper(html[k])
    <3>1. OpenFrom(html, w, k - 1 + 1) = OpenFrom(html, w, k - 1) + Deeper(html[k - 1 + 1])
      BY <1>0, <2>0, OpenFromIs
    <3> QED BY <2>0, <3>1
  <2>4. acc[k - 1].depth \in Nat
    BY <1>1, <2>0
  <2>5. acc[k - 1].depth > 0
    BY <2>1, <2>2, <2>4
  <2>6. acc[k].depth = acc[k - 1].depth + Deeper(html[k])
    BY <1>2, <2>0, <2>5
  <2>7. Deeper(html[k]) \in Int
    BY DEF Deeper
  <2>8. acc[k].depth >= OpenFrom(html, w, k)
    BY <2>1, <2>2, <2>3, <2>4, <2>6, <2>7
  <2> QED BY <2>0, <2>8 DEF S, k
<1>5. 0 .. m \subseteq S
  <2> HIDE DEF m, S
  <2> QED BY <1>0, <1>3, <1>4, BoundedInduction
<1>6. acc[n - 1].depth >= OpenFrom(html, w, n - 1)
  <2>1. m \in S /\ m <= m
    BY <1>0, <1>5
  <2> QED BY <1>0, <2>1
<1>7. OpenFrom(html, w, n - 1) > 0 /\ OpenFrom(html, w, n - 1) \in Int /\ acc[n - 1].depth \in Nat
  <2>1. n - 1 \in Nat /\ w <= n - 1 /\ n - 1 \in w .. n - 1 /\ n - 1 \in 0 .. Len(html)
    OBVIOUS
  <2> QED BY <1>0, <1>1, <2>1, OpenFromIs
<1> QED BY <1>6, <1>7

\* The description of a row is what its event's says outside of widgets.
LEMMA StripIs ==
    ASSUME NEW html \in Seq(STRING)
    PROVE  Strip(html) = OutsideWidgets(html)
<1> DEFINE N == Len(html)
           keep == {n \in DOMAIN html : ~InWidget(html, n)}
<1>1. PICK acc : IsParse(html, acc, N) /\ Strip(html) = acc[N].parts
  BY ParseIs
<1>2. ASSUME NEW n \in 1 .. N
      PROVE  acc[n].parts = IF n \in keep THEN Append(acc[n - 1].parts, html[n]) ELSE acc[n - 1].parts
  <2>0. n - 1 \in 0 .. N /\ acc[n - 1].depth \in Nat /\ n \in DOMAIN html /\ n \in Nat
    BY <1>1, ParseSteps
  <2>1. acc[n].parts = IF acc[n - 1].depth > 0 \/ html[n] = "widget" THEN acc[n - 1].parts
                       ELSE Append(acc[n - 1].parts, html[n])
    BY <1>1, ParseSteps
  <2>2. ASSUME acc[n - 1].depth > 0 PROVE InWidget(html, n)
    <3>1. PICK w \in 1 .. n - 1 : /\ html[w] = "widget"
                                  /\ \A j \in w .. n - 1 : OpenFrom(html, w, j) > 0
      BY <1>1, <2>0, <2>2, ParseDepth
    <3>2. w \in 1 .. n
      BY <2>0
    <3> QED BY <3>1, <3>2 DEF InWidget
  <2>3. ASSUME html[n] = "widget" PROVE InWidget(html, n)
    <3>1. n \in 1 .. n /\ n .. n - 1 = {}
      BY <2>0
    <3> QED BY <2>3, <3>1 DEF InWidget
  <2>4. ASSUME InWidget(html, n) PROVE acc[n - 1].depth > 0 \/ html[n] = "widget"
    <3>1. PICK w \in 1 .. n : html[w] = "widget" /\ \A k \in w .. n - 1 : OpenFrom(html, w, k) > 0
      BY <2>4 DEF InWidget
    <3>2. CASE w = n
      BY <3>1, <3>2
    <3>3. CASE w # n
      <4>1. w \in 1 .. n - 1
        BY <2>0, <3>3
      <4> QED BY <1>1, <3>1, <4>1, DepthGrows
    <3> QED BY <3>2, <3>3
  <2> QED BY <2>0, <2>1, <2>2, <2>3, <2>4
<1> DEFINE K(n) == keep \intersect (1 .. n)
           S == {n \in Nat : acc[n].parts = Picked(html, K(n))}
<1>3. N \in Nat /\ keep \subseteq 1 .. N
  OBVIOUS
<1>4. 0 \in S
  <2>1. K(0) = {}
    OBVIOUS
  <2>2. Picked(html, {}) = <<>>
    BY InOrderEmpty DEF Picked
  <2>3. acc[0].parts = <<>>
    BY <1>1 DEF IsParse
  <2> QED BY <2>1, <2>2, <2>3
<1> HIDE DEF keep, N
<1>5. ASSUME NEW n \in 1 .. N, n - 1 \in S PROVE n \in S
  <2>0. n \in Nat /\ n - 1 \in Nat
    BY <1>3
  <2>1. acc[n - 1].parts = Picked(html, K(n - 1))
    BY <1>5
  <2>2. K(n) = IF n \in keep THEN K(n - 1) \union {n} ELSE K(n - 1)
    BY <2>0
  <2>3. K(n - 1) \subseteq Int /\ IsFiniteSet(K(n - 1)) /\ \A p \in K(n - 1) : p < n
    <3>1. IsFiniteSet(1 .. n - 1) /\ K(n - 1) \in SUBSET (1 .. n - 1)
      BY <2>0, FS_Interval
    <3>2. IsFiniteSet(K(n - 1))
      BY <3>1, FS_Subset
    <3> QED BY <2>0, <3>2
  <2>h. n \in Int
    BY <2>0
  <2> HIDE DEF K
  <2>4. Picked(html, K(n - 1) \union {n}) = Append(Picked(html, K(n - 1)), html[n])
    BY <2>h, <2>3, PickedNext
  <2>5. acc[n].parts = Picked(html, K(n))
    BY <1>2, <2>1, <2>2, <2>4
  <2> QED BY <2>0, <2>5
<1>6. 0 .. N \subseteq S
  <2> HIDE DEF S
  <2> QED BY <1>3, <1>4, <1>5, BoundedInduction
<1>7. K(N) = keep
  BY <1>3
<1>8. acc[N].parts = Picked(html, K(N))
  BY <1>3, <1>6
<1> QED BY <1>1, <1>7, <1>8 DEF OutsideWidgets, keep

-----------------------------------------------------------------------------
(* The export of events: the pages *)

\* How many events start before s: the pages are cut where it reaches a multiple of PerPage.
Earlier(s) == Cardinality({x \in DOMAIN published : x < s})

\* What the export that runs has read. Pages that were read are behind the next one, and
\* what came after an event does not move it: only what is withdrawn lets one slip
\* back past a page that was read, and only what is published lets one be read again.
ReadsOn ==
    /\ fetched \in Reading /\ fetched.stood \subseteq DOMAIN published
    /\ ~ fetched.shrunk =>
         \A s \in fetched.stood :
            fetched.complete \/ Earlier(s) < (fetched.page - 1) * PerPage =>
              \E n \in DOMAIN fetched.events : fetched.events[n].start = s
    /\ ~ fetched.grown =>
         \A s \in fetched.stood : \A n \in DOMAIN fetched.events :
            fetched.events[n].start = s =>
              /\ Earlier(s) < (fetched.page - 1) * PerPage
              /\ \A m \in DOMAIN fetched.events : fetched.events[m].start = s => m = n

PublishedOK == DOMAIN published \subseteq Starts /\ published \in [DOMAIN published -> Contents]

ExportInv ==
    /\ PublishedOK
    /\ fetched # NoExport => ReadsOn
    /\ ExportTells

LEMMA PublishedFinite ==
    ASSUME PublishedOK
    PROVE  /\ IsFiniteSet(DOMAIN published) /\ DOMAIN published \subseteq Int
           /\ Cardinality(DOMAIN published) \in Nat
<1>1. IsFiniteSet(Starts) /\ Starts \subseteq Nat
  BY EventExportAssumption
<1>2. IsFiniteSet(DOMAIN published)
  BY <1>1, FS_Subset DEF PublishedOK
<1>3. Cardinality(DOMAIN published) \in Nat
  BY <1>2, FS_CardinalityType
<1> QED BY <1>1, <1>2, <1>3 DEF PublishedOK

\* A page has the events that come after those of the pages before it.
LEMMA AnswerIs ==
    ASSUME PublishedOK, NEW page \in Nat \ {0}
    PROVE  /\ Answer(page) \in Seq(EventRow)
           /\ (page - 1) * PerPage \in Nat /\ page * PerPage \in Nat
           /\ (page + 1 - 1) * PerPage = page * PerPage
           /\ \A n \in DOMAIN Answer(page) :
                /\ Answer(page)[n].start \in DOMAIN published
                /\ Earlier(Answer(page)[n].start) = (page - 1) * PerPage + n - 1
                /\ Earlier(Answer(page)[n].start) < page * PerPage
           /\ \A s \in DOMAIN published :
                (page - 1) * PerPage <= Earlier(s) /\ Earlier(s) < page * PerPage =>
                  \E n \in DOMAIN Answer(page) : Answer(page)[n].start = s
           /\ \A s \in DOMAIN published :
                NoMorePages(page) => Earlier(s) < page * PerPage
<1> DEFINE D == DOMAIN published
           N == Cardinality(D)
           A == Programme
           b == (page - 1) * PerPage
           left == N - b
           len == IF left < PerPage THEN left ELSE PerPage
           P == EventPage(page)
           Ans == Answer(page)
<1>0. PerPage \in Nat \ {0} /\ b \in Nat /\ page * PerPage = b + PerPage
      /\ (page + 1 - 1) * PerPage = page * PerPage
  <2>1. PerPage \in Nat \ {0}
    BY EventExportAssumption
  <2> QED BY <2>1
<1>1. IsFiniteSet(D) /\ D \subseteq Int /\ N \in Nat
  BY PublishedFinite
<1>2. A = InOrder(D)
  BY DEF Programme
<1>3. /\ A \in [1 .. N -> D]
      /\ \A x \in D : \E k \in 1 .. N : A[k] = x
  BY <1>1, <1>2, InOrderIs
<1>4. \A k \in 1 .. N : Earlier(A[k]) = k - 1
  <2>1. \A k \in 1 .. N : Cardinality({y \in D : y < A[k]}) = k - 1
    <3>1. \A k \in 1 .. N : Cardinality({y \in D : y < InOrder(D)[k]}) = k - 1
      BY <1>1, InOrderIs
    <3> QED BY <1>2, <3>1
  <2> HIDE DEF A
  <2> QED BY <2>1 DEF Earlier
<1>5. /\ DOMAIN Ans = 1 .. len
      /\ \A n \in 1 .. len : Ans[n] = [start |-> A[b + n], content |-> published[A[b + n]]]
  <2>1. P = [n \in 1 .. len |-> A[b + n]]
    BY DEF EventPage
  <2> HIDE DEF P, b, len, A
  <2>2. Ans = [n \in DOMAIN P |-> [start |-> P[n], content |-> published[P[n]]]]
    BY DEF Answer, P
  <2> QED BY <2>1, <2>2
<1>6. Ans = [n \in 1 .. len |-> Ans[n]]
  BY <1>5 DEF Answer
<1>h. left \in Int /\ left = N - b /\ len = IF left < PerPage THEN left ELSE PerPage
  <2> HIDE DEF N, b
  <2> QED BY <1>0, <1>1
<1> HIDE DEF D, N, A, b, P, Ans, left, len
<1>7. ASSUME NEW n \in 1 .. len
      PROVE  /\ b + n \in 1 .. N /\ Ans[n].start = A[b + n] /\ Ans[n] \in EventRow
             /\ Ans[n].start \in D /\ Earlier(Ans[n].start) = b + n - 1
             /\ b + n - 1 < b + PerPage
  <2>1. b + n \in 1 .. N /\ b + n - 1 < b + PerPage
    BY <1>0, <1>1, <1>h
  <2>2. A[b + n] \in D /\ Earlier(A[b + n]) = b + n - 1
    <3>1. PICK k \in 1 .. N : k = b + n
      BY <2>1
    <3>2. A[k] \in D /\ Earlier(A[k]) = k - 1
      BY <1>3, <1>4
    <3>3. b + n - 1 = k - 1
      BY <1>0, <1>1, <3>1
    <3> QED BY ONLY <3>1, <3>2, <3>3
  <2>3. Ans[n].start = A[b + n] /\ Ans[n].content = published[A[b + n]]
    BY <1>5
  <2>4. A[b + n] \in Starts /\ published[A[b + n]] \in Contents
    BY <2>2 DEF PublishedOK, D
  <2>5. Ans[n] \in EventRow
    BY <1>5, <2>4 DEF EventRow
  <2> QED BY <2>1, <2>2, <2>3, <2>5
<1>8. ASSUME NEW s \in D, b <= Earlier(s), Earlier(s) < b + PerPage
      PROVE  \E n \in 1 .. len : Ans[n].start = s
  <2>1. PICK k \in 1 .. N : A[k] = s
    BY <1>3
  <2>2. Earlier(s) = k - 1
    BY <1>4, <2>1
  <2>3. k - b \in 1 .. len /\ b + (k - b) = k
    BY <1>0, <1>1, <1>h, <1>8, <2>2
  <2>4. Ans[k - b].start = A[k]
    BY <1>7, <2>3
  <2> QED BY <2>1, <2>3, <2>4
<1>9. ASSUME NEW s \in D, NoMorePages(page) PROVE Earlier(s) < page * PerPage
  <2>1. page * PerPage >= N
    BY <1>9 DEF NoMorePages, N, D
  <2>2. PICK k \in 1 .. N : A[k] = s
    BY <1>3
  <2>3. Earlier(s) = k - 1
    BY <1>4, <2>2
  <2> QED BY <1>0, <1>1, <2>1, <2>3
<1>10. Ans \in Seq(EventRow)
  <2>1. CASE len \in Nat
    <3>1. Ans \in [1 .. len -> EventRow]
      BY <1>6, <1>7
    <3> QED BY <2>1, <3>1
  <2>2. CASE len \notin Nat
    <3>1. len < 0
      BY <1>0, <1>h, <2>2
    <3>2. 1 .. len = 1 .. 0
      BY <1>0, <1>h, <3>1
    <3>3. Ans \in [1 .. 0 -> EventRow]
      BY <1>6, <3>2
    <3> QED BY <3>3
  <2> QED BY <2>1, <2>2
<1>11. page * PerPage \in Nat
  BY <1>0
<1>12. \A n \in DOMAIN Ans : /\ Ans[n].start \in D /\ Earlier(Ans[n].start) = b + n - 1
                             /\ Earlier(Ans[n].start) < page * PerPage
  BY <1>0, <1>5, <1>7
<1>13. \A s \in D : b <= Earlier(s) /\ Earlier(s) < page * PerPage =>
                     \E n \in DOMAIN Ans : Ans[n].start = s
  BY <1>0, <1>5, <1>8
<1> QED BY <1>0, <1>9, <1>10, <1>11, <1>12, <1>13 DEF D, Ans, b

LEMMA StartReads ==
    ASSUME PublishedOK, StartEventExport
    PROVE  ReadsOn'
<1>1. fetched' = [page |-> 1, events |-> <<>>, complete |-> FALSE,
                  stood |-> DOMAIN published, grown |-> FALSE, shrunk |-> FALSE]
      /\ published' = published
  BY DEF StartEventExport
<1>2. <<>> \in Seq(EventRow) /\ DOMAIN published \subseteq Starts /\ 1 \in Nat \ {0}
  BY DEF PublishedOK
<1>3. fetched' \in Reading
  BY <1>1, <1>2 DEF Reading
<1>4. \A s \in DOMAIN published : ~ (Earlier(s)' < (fetched'.page - 1) * PerPage)
  <2> SUFFICES ASSUME NEW s \in DOMAIN published PROVE ~ (Earlier(s)' < (fetched'.page - 1) * PerPage)
    OBVIOUS
  <2>1. Earlier(s)' = Earlier(s)
    BY <1>1 DEF Earlier
  <2>2. Earlier(s) \in Nat
    <3>1. {x \in DOMAIN published : x < s} \in SUBSET DOMAIN published
      OBVIOUS
    <3>2. IsFiniteSet({x \in DOMAIN published : x < s})
      BY <3>1, PublishedFinite, FS_Subset
    <3> QED BY <3>2, FS_CardinalityType DEF Earlier
  <2>3. (fetched'.page - 1) * PerPage = 0
    BY <1>1, EventExportAssumption
  <2> QED BY <2>1, <2>2, <2>3
<1>5. /\ fetched'.stood = DOMAIN published /\ DOMAIN fetched'.events = {}
      /\ fetched'.complete = FALSE
  BY <1>1
<1> QED BY <1>1, <1>3, <1>4, <1>5 DEF ReadsOn

LEMMA FetchReads ==
    ASSUME PublishedOK, ReadsOn, FetchEvents
    PROVE  ReadsOn'
<1> DEFINE page == fetched.page
           old == fetched.events
           ans == Answer(page)
           new == old \o ans
           b == (page - 1) * PerPage
           c == page * PerPage
           last == NoMorePages(page)
<1>1. /\ page \in Nat \ {0} /\ old \in Seq(EventRow) /\ fetched.stood \subseteq DOMAIN published
      /\ fetched \in Reading /\ ~ fetched.complete
  BY DEF ReadsOn, Reading, FetchEvents
<1>2. /\ fetched' = [fetched EXCEPT !.events = new, !.complete = last, !.page = page + 1]
      /\ published' = published
  BY DEF FetchEvents
<1>3. /\ ans \in Seq(EventRow) /\ b \in Nat /\ c \in Nat /\ (page + 1 - 1) * PerPage = c
      /\ \A n \in DOMAIN ans : /\ ans[n].start \in DOMAIN published
                               /\ Earlier(ans[n].start) = b + n - 1
                               /\ Earlier(ans[n].start) < c
      /\ \A s \in DOMAIN published :
           b <= Earlier(s) /\ Earlier(s) < c => \E n \in DOMAIN ans : ans[n].start = s
      /\ \A s \in DOMAIN published : last => Earlier(s) < c
  BY <1>1, AnswerIs
<1>4. /\ ~ fetched.shrunk =>
           \A s \in fetched.stood : Earlier(s) < b => \E n \in DOMAIN old : old[n].start = s
      /\ ~ fetched.grown =>
           \A s \in fetched.stood : \A n \in DOMAIN old :
              old[n].start = s => /\ Earlier(s) < b
                                  /\ \A m \in DOMAIN old : old[m].start = s => m = n
  BY <1>1 DEF ReadsOn
<1>5. \A s \in DOMAIN published : Earlier(s) \in Nat
  <2> SUFFICES ASSUME NEW s \in DOMAIN published PROVE Earlier(s) \in Nat
    OBVIOUS
  <2>1. {x \in DOMAIN published : x < s} \in SUBSET DOMAIN published
    OBVIOUS
  <2>2. IsFiniteSet({x \in DOMAIN published : x < s})
    BY <2>1, PublishedFinite, FS_Subset
  <2> QED BY <2>2, FS_CardinalityType DEF Earlier
<1>6. \A s : Earlier(s)' = Earlier(s)
  BY <1>2 DEF Earlier
<1>7. last \in BOOLEAN
  BY DEF NoMorePages
<1> HIDE DEF page, old, ans, b, c, last
<1>8. new \in Seq(EventRow)
  BY <1>1, <1>3
<1>9. /\ fetched' \in Reading
      /\ fetched'.page = page + 1 /\ fetched'.events = new /\ fetched'.complete = last
      /\ fetched'.stood = fetched.stood /\ fetched'.grown = fetched.grown
      /\ fetched'.shrunk = fetched.shrunk
  <2>1. page + 1 \in Nat \ {0}
    BY <1>1
  <2> HIDE DEF new
  <2> QED BY <1>1, <1>2, <1>7, <1>8, <2>1 DEF Reading
<1>10. /\ \A n \in DOMAIN old : n \in DOMAIN new /\ new[n] = old[n]
       /\ \A n \in DOMAIN ans : Len(old) + n \in DOMAIN new /\ new[Len(old) + n] = ans[n]
       /\ \A n \in DOMAIN new : n \in DOMAIN old \/ \E k \in DOMAIN ans : n = Len(old) + k
  <2>1. /\ DOMAIN old = 1 .. Len(old) /\ DOMAIN ans = 1 .. Len(ans) /\ Len(old) \in Nat /\ Len(ans) \in Nat
    BY <1>1, <1>3
  <2>2. DOMAIN new = 1 .. Len(old) + Len(ans)
    BY <1>1, <1>3
  <2>3. \A n \in DOMAIN old : n \in DOMAIN new /\ new[n] = old[n]
    BY <1>1, <1>3, <2>1, <2>2
  <2>4. \A n \in DOMAIN ans : Len(old) + n \in DOMAIN new /\ new[Len(old) + n] = ans[n]
    BY <1>1, <1>3, <2>1, <2>2
  <2>5. ASSUME NEW n \in DOMAIN new PROVE n \in DOMAIN old \/ \E k \in DOMAIN ans : n = Len(old) + k
    <3>1. CASE n <= Len(old)
      BY <2>1, <2>2, <3>1
    <3>2. CASE ~ (n <= Len(old))
      <4>1. n - Len(old) \in DOMAIN ans /\ n = Len(old) + (n - Len(old))
        BY <2>1, <2>2, <3>2
      <4> QED BY <4>1
    <3> QED BY <3>1, <3>2
  <2> QED BY <2>3, <2>4, <2>5
<1> HIDE DEF new
<1>11. ASSUME ~ fetched.shrunk, NEW s \in fetched.stood, last \/ Earlier(s) < c
       PROVE  \E n \in DOMAIN new : new[n].start = s
  <2>1. s \in DOMAIN published /\ Earlier(s) \in Nat /\ Earlier(s) < c
    BY <1>1, <1>3, <1>5, <1>11
  <2>2. CASE Earlier(s) < b
    <3>1. PICK n \in DOMAIN old : old[n].start = s
      BY <1>4, <1>11, <2>2
    <3> QED BY <1>10, <3>1
  <2>3. CASE b <= Earlier(s)
    <3>1. PICK n \in DOMAIN ans : ans[n].start = s
      BY <1>3, <2>1, <2>3
    <3> QED BY <1>10, <3>1
  <2> QED BY <1>3, <2>1, <2>2, <2>3
<1>12. ASSUME ~ fetched.grown, NEW s \in fetched.stood, NEW n \in DOMAIN new, new[n].start = s
       PROVE  Earlier(s) < c /\ \A m \in DOMAIN new : new[m].start = s => m = n
  <2>0. s \in DOMAIN published /\ Earlier(s) \in Nat
    BY <1>1, <1>5
  <2>1. ASSUME NEW k \in DOMAIN ans, ans[k].start = s
        PROVE  k \in Nat /\ k > 0 /\ Earlier(s) = b + k - 1 /\ Earlier(s) < c
    BY <1>3, <2>1
  <2>2. ASSUME NEW k \in DOMAIN old, old[k].start = s
        PROVE  Earlier(s) < b /\ \A m \in DOMAIN old : old[m].start = s => m = k
    BY <1>4, <1>12, <2>2
  <2>3. b <= c
    <3>1. PerPage \in Nat \ {0} /\ c = b + PerPage
      <4>1. PerPage \in Nat \ {0}
        BY EventExportAssumption
      <4> QED BY <1>1, <4>1 DEF b, c
    <3> QED BY <1>3, <3>1
  <2>4. CASE n \in DOMAIN old
    <3>1. old[n].start = s
      BY <1>10, <1>12, <2>4
    <3>2. Earlier(s) < b
      BY <2>2, <2>4, <3>1
    <3>3. ASSUME NEW m \in DOMAIN new, new[m].start = s PROVE m = n
      <4>1. CASE m \in DOMAIN old
        BY <1>10, <2>2, <2>4, <3>1, <3>3, <4>1
      <4>2. ASSUME NEW k \in DOMAIN ans, m = Len(old) + k PROVE FALSE
        <5>1. ans[k].start = s
          BY <1>10, <3>3, <4>2
        <5>2. k \in Nat /\ k > 0 /\ Earlier(s) = b + k - 1
          BY <2>1, <5>1
        <5> QED BY <1>3, <3>2, <5>2
      <4> QED BY <1>10, <4>1, <4>2
    <3> QED BY <1>3, <2>0, <2>3, <3>2, <3>3
  <2>5. ASSUME NEW k \in DOMAIN ans, n = Len(old) + k
        PROVE  Earlier(s) < c /\ \A m \in DOMAIN new : new[m].start = s => m = n
    <3>1. ans[k].start = s
      BY <1>10, <1>12, <2>5
    <3>2. k \in Nat /\ k > 0 /\ Earlier(s) = b + k - 1 /\ Earlier(s) < c
      BY <2>1, <3>1
    <3>3. ASSUME NEW m \in DOMAIN new, new[m].start = s PROVE m = n
      <4>1. CASE m \in DOMAIN old
        <5>1. Earlier(s) < b
          BY <1>10, <2>2, <3>3, <4>1
        <5> QED BY <1>3, <3>2, <5>1
      <4>2. ASSUME NEW j \in DOMAIN ans, m = Len(old) + j PROVE m = n
        <5>1. ans[j].start = s
          BY <1>10, <3>3, <4>2
        <5>2. j \in Nat /\ Earlier(s) = b + j - 1
          BY <2>1, <5>1
        <5>3. j = k
          BY <1>3, <3>2, <5>2
        <5> QED BY <2>5, <4>2, <5>3
      <4> QED BY <1>10, <4>1, <4>2
    <3> QED BY <3>2, <3>3
  <2> QED BY <1>10, <2>4, <2>5
<1>13. (fetched'.page - 1) * PerPage = c
  <2>1. fetched'.page - 1 = page
    BY <1>1, <1>9
  <2> QED BY <2>1 DEF c
<1>14. ~ fetched'.shrunk =>
         \A s \in fetched'.stood :
            fetched'.complete \/ Earlier(s)' < (fetched'.page - 1) * PerPage =>
              \E n \in DOMAIN fetched'.events : fetched'.events[n].start = s
  BY <1>6, <1>9, <1>11, <1>13
<1>15. ~ fetched'.grown =>
         \A s \in fetched'.stood : \A n \in DOMAIN fetched'.events :
            fetched'.events[n].start = s =>
              /\ Earlier(s)' < (fetched'.page - 1) * PerPage
              /\ \A m \in DOMAIN fetched'.events : fetched'.events[m].start = s => m = n
  BY <1>6, <1>9, <1>12, <1>13
<1> QED BY <1>1, <1>2, <1>9, <1>14, <1>15 DEF ReadsOn

LEMMA PublishReads ==
    ASSUME PublishedOK, fetched # NoExport => ReadsOn, NEW s \in Starts, NEW c \in Contents,
           PublishEvent(s, c)
    PROVE  PublishedOK' /\ (fetched' # NoExport => ReadsOn')
<1> DEFINE D == DOMAIN published
           E == DOMAIN published \union {s}
<1>1. /\ published' = [x \in E |-> IF x = s THEN c ELSE published[x]]
      /\ fetched' = IF fetched = NoExport THEN NoExport ELSE [fetched EXCEPT !.grown = TRUE]
  BY DEF PublishEvent
<1>2. PublishedOK'
  BY <1>1 DEF PublishedOK
<1> SUFFICES ASSUME fetched' # NoExport PROVE ReadsOn'
  BY <1>2
<1>3. ReadsOn /\ fetched' = [fetched EXCEPT !.grown = TRUE]
  BY <1>1
<1>4. /\ fetched \in Reading /\ fetched' \in Reading
      /\ fetched'.page = fetched.page /\ fetched'.events = fetched.events
      /\ fetched'.complete = fetched.complete /\ fetched'.stood = fetched.stood
      /\ fetched'.grown = TRUE /\ fetched'.shrunk = fetched.shrunk
  BY <1>3 DEF ReadsOn, Reading
<1>5. fetched'.stood \subseteq DOMAIN published'
  BY <1>1, <1>3, <1>4 DEF ReadsOn
<1>6. ASSUME NEW t PROVE Earlier(t) \in Nat /\ Earlier(t)' \in Nat /\ Earlier(t) <= Earlier(t)'
  <2> DEFINE X == {x \in D : x < t}
             Y == {x \in E : x < t}
  <2>1. IsFiniteSet(D)
    BY PublishedFinite
  <2>2. IsFiniteSet(E)
    BY <2>1, FS_AddElement
  <2>3. X \in SUBSET Y /\ Y \in SUBSET E
    OBVIOUS
  <2>4. Earlier(t) = Cardinality(X) /\ Earlier(t)' = Cardinality(Y)
    BY <1>1 DEF Earlier
  <2> HIDE DEF X, Y, E
  <2>5. IsFiniteSet(Y) /\ Cardinality(Y) \in Nat
    BY <2>2, <2>3, FS_Subset, FS_CardinalityType
  <2>6. Cardinality(X) \in Nat /\ Cardinality(X) <= Cardinality(Y)
    BY <2>3, <2>5, FS_Subset, FS_CardinalityType
  <2> QED BY <2>4, <2>5, <2>6
<1>7. ~ fetched'.shrunk =>
         \A t \in fetched'.stood :
            fetched'.complete \/ Earlier(t)' < (fetched'.page - 1) * PerPage =>
              \E n \in DOMAIN fetched'.events : fetched'.events[n].start = t
  <2> SUFFICES ASSUME ~ fetched.shrunk, NEW t \in fetched.stood,
                      fetched.complete \/ Earlier(t)' < (fetched.page - 1) * PerPage
               PROVE  \E n \in DOMAIN fetched.events : fetched.events[n].start = t
    BY <1>4
  <2> DEFINE b == (fetched.page - 1) * PerPage
  <2>1. b \in Nat
    BY <1>4, EventExportAssumption DEF Reading
  <2> HIDE DEF b
  <2>2. fetched.complete \/ Earlier(t) < b
    BY <1>6, <2>1 DEF b
  <2> QED BY <1>3, <2>2 DEF ReadsOn, b
<1> QED BY <1>4, <1>5, <1>7 DEF ReadsOn

LEMMA WithdrawReads ==
    ASSUME PublishedOK, fetched # NoExport => ReadsOn, NEW s \in DOMAIN published, WithdrawEvent(s)
    PROVE  PublishedOK' /\ (fetched' # NoExport => ReadsOn')
<1> DEFINE D == DOMAIN published
           E == DOMAIN published \ {s}
<1>1. /\ published' = [x \in E |-> published[x]]
      /\ fetched' = IF fetched = NoExport THEN NoExport
                    ELSE [fetched EXCEPT !.shrunk = TRUE, !.stood = @ \ {s}]
  BY DEF WithdrawEvent, Restrict
<1>2. PublishedOK'
  BY <1>1 DEF PublishedOK
<1> SUFFICES ASSUME fetched' # NoExport PROVE ReadsOn'
  BY <1>2
<1>3. ReadsOn /\ fetched' = [fetched EXCEPT !.shrunk = TRUE, !.stood = @ \ {s}]
  BY <1>1
<1>4. /\ fetched \in Reading /\ fetched' \in Reading
      /\ fetched'.page = fetched.page /\ fetched'.events = fetched.events
      /\ fetched'.complete = fetched.complete /\ fetched'.stood = fetched.stood \ {s}
      /\ fetched'.grown = fetched.grown /\ fetched'.shrunk = TRUE
  BY <1>3 DEF ReadsOn, Reading
<1>5. fetched'.stood \subseteq DOMAIN published'
  BY <1>1, <1>3, <1>4 DEF ReadsOn
<1>6. ASSUME NEW t PROVE Earlier(t) \in Nat /\ Earlier(t)' \in Nat /\ Earlier(t)' <= Earlier(t)
  <2> DEFINE X == {x \in D : x < t}
             Y == {x \in E : x < t}
  <2>1. IsFiniteSet(D)
    BY PublishedFinite
  <2>3. Y \in SUBSET X /\ X \in SUBSET D
    OBVIOUS
  <2>4. Earlier(t) = Cardinality(X) /\ Earlier(t)' = Cardinality(Y)
    BY <1>1 DEF Earlier
  <2> HIDE DEF X, Y, E, D
  <2>5. IsFiniteSet(X) /\ Cardinality(X) \in Nat
    BY <2>1, <2>3, FS_Subset, FS_CardinalityType
  <2>6. Cardinality(Y) \in Nat /\ Cardinality(Y) <= Cardinality(X)
    BY <2>3, <2>5, FS_Subset, FS_CardinalityType
  <2> QED BY <2>4, <2>5, <2>6
<1>7. ~ fetched'.grown =>
         \A t \in fetched'.stood : \A n \in DOMAIN fetched'.events :
            fetched'.events[n].start = t =>
              /\ Earlier(t)' < (fetched'.page - 1) * PerPage
              /\ \A m \in DOMAIN fetched'.events : fetched'.events[m].start = t => m = n
  <2> SUFFICES ASSUME ~ fetched.grown, NEW t \in fetched.stood, NEW n \in DOMAIN fetched.events,
                      fetched.events[n].start = t
               PROVE  /\ Earlier(t)' < (fetched.page - 1) * PerPage
                      /\ \A m \in DOMAIN fetched.events : fetched.events[m].start = t => m = n
    BY <1>4
  <2> DEFINE b == (fetched.page - 1) * PerPage
  <2>1. b \in Nat
    BY <1>4, EventExportAssumption DEF Reading
  <2>2. /\ Earlier(t) < b
        /\ \A m \in DOMAIN fetched.events : fetched.events[m].start = t => m = n
    BY <1>3 DEF ReadsOn
  <2> HIDE DEF b
  <2>3. Earlier(t)' < b
    BY <1>6, <2>1, <2>2
  <2> QED BY <2>2, <2>3 DEF b
<1> QED BY <1>4, <1>5, <1>7 DEF ReadsOn

LEMMA CsvTells ==
    ASSUME PublishedOK, ReadsOn, WriteCsv
    PROVE  ExportTells'
<1> DEFINE events == fetched.events
           keys == [n \in DOMAIN events |-> events[n].start]
           N == Cardinality(DOMAIN events)
           sorted == ByNumber(keys, DOMAIN events)
           rows == [n \in DOMAIN sorted |-> CsvRow(events[sorted[n]])]
           of(s) == {n \in DOMAIN rows : rows[n].start = s}
<1>1. /\ events \in Seq(EventRow) /\ fetched.complete /\ fetched \in Reading
      /\ exported' = [rows |-> rows, stood |-> fetched.stood, grown |-> fetched.grown,
                      shrunk |-> fetched.shrunk]
  BY DEF WriteCsv, ReadsOn, Reading
<1>2. /\ ~ fetched.shrunk => \A s \in fetched.stood : \E n \in DOMAIN events : events[n].start = s
      /\ ~ fetched.grown =>
           \A s \in fetched.stood : \A n, m \in DOMAIN events :
              events[n].start = s /\ events[m].start = s => m = n
  BY <1>1 DEF ReadsOn
<1> HIDE DEF events
<1>3. /\ DOMAIN events \subseteq Int /\ IsFiniteSet(DOMAIN events)
      /\ \A n \in DOMAIN events : /\ events[n] \in EventRow /\ keys[n] = events[n].start
                                  /\ keys[n] \in Int
  <2>1. DOMAIN events = 1 .. Len(events) /\ Len(events) \in Nat
    BY <1>1
  <2>2. IsFiniteSet(1 .. Len(events))
    BY <2>1, FS_Interval
  <2>3. \A n \in DOMAIN events : events[n] \in EventRow
    BY <1>1
  <2>4. \A n \in DOMAIN events : events[n].start \in Int
    <3>1. EventRow = [start : Starts, content : Contents] /\ Starts \subseteq Int
      BY EventExportAssumption DEF EventRow
    <3>2. ASSUME NEW n \in DOMAIN events PROVE events[n].start \in Starts
      <4>1. events[n] \in EventRow
        BY <2>3
      <4> QED BY ONLY <3>1, <4>1
    <3> QED BY ONLY <3>1, <3>2
  <2>5. \A n \in DOMAIN events : keys[n] = events[n].start
    OBVIOUS
  <2> HIDE DEF keys
  <2>6. DOMAIN events \subseteq Int
    BY <2>1
  <2>7. IsFiniteSet(DOMAIN events)
    BY <2>1, <2>2
  <2> QED BY <2>3, <2>4, <2>5, <2>6, <2>7
<1> HIDE DEF keys
<1>4. /\ N \in Nat /\ sorted \in [1 .. N -> DOMAIN events]
      /\ \A p \in DOMAIN events : \E k \in 1 .. N : sorted[k] = p
      /\ \A k, l \in 1 .. N : sorted[k] = sorted[l] => k = l
  BY <1>3, ByNumberIs
<1>5. \A k, l \in 1 .. N : k < l => keys[sorted[k]] <= keys[sorted[l]]
  BY <1>3, ByNumberIs
<1> HIDE DEF sorted, N
<1>6. /\ DOMAIN rows = 1 .. N
      /\ \A n \in 1 .. N : rows[n] = CsvRow(events[sorted[n]])
  BY <1>4
<1>7. Len(rows) = N
  <2>1. DOMAIN rows = 1 .. N /\ rows = [n \in 1 .. N |-> CsvRow(events[sorted[n]])]
    BY <1>4
  <2> HIDE DEF rows
  <2> DEFINE T == {CsvRow(events[sorted[n]]) : n \in 1 .. N}
  <2>2. rows \in [1 .. N -> T]
    BY <2>1
  <2> HIDE DEF T
  <2> QED BY <1>4, <2>2
<1> HIDE DEF rows
<1>8. \A n \in 1 .. N :
        /\ sorted[n] \in DOMAIN events /\ events[sorted[n]] \in EventRow
        /\ rows[n].start = keys[sorted[n]] /\ rows[n].start = events[sorted[n]].start
        /\ rows[n].content = events[sorted[n]].content
        /\ rows[n].tags = TagsOf(events[sorted[n]].content)
        /\ rows[n].description = Strip(events[sorted[n]].content.description)
  BY <1>3, <1>4, <1>6 DEF CsvRow
<1>9. \A n \in 1 .. Len(rows) - 1 : rows[n].start <= rows[n + 1].start
  <2> SUFFICES ASSUME NEW n \in 1 .. N - 1 PROVE rows[n].start <= rows[n + 1].start
    BY <1>7
  <2>1. n \in 1 .. N /\ n + 1 \in 1 .. N /\ n < n + 1
    BY <1>4
  <2>2. keys[sorted[n]] <= keys[sorted[n + 1]]
    BY <1>5, <2>1
  <2> QED BY <1>8, <2>1, <2>2
<1>10. ASSUME NEW s \in fetched.stood, ~ fetched.shrunk PROVE of(s) # {}
  <2>1. PICK p \in DOMAIN events : events[p].start = s
    BY <1>2, <1>10
  <2>2. PICK k \in 1 .. N : sorted[k] = p
    BY <1>4
  <2>3. k \in DOMAIN rows /\ rows[k].start = s
    BY <1>6, <1>8, <2>1, <2>2
  <2> QED BY <2>3
<1>11. ASSUME NEW s \in fetched.stood, ~ fetched.grown PROVE Cardinality(of(s)) <= 1
  <2>1. ASSUME NEW n \in of(s), NEW m \in of(s) PROVE n = m
    <3>1. n \in 1 .. N /\ m \in 1 .. N /\ rows[n].start = s /\ rows[m].start = s
      BY <1>6
    <3>2. /\ sorted[n] \in DOMAIN events /\ events[sorted[n]].start = s
          /\ sorted[m] \in DOMAIN events /\ events[sorted[m]].start = s
      BY <1>8, <3>1
    <3>3. sorted[n] = sorted[m]
      BY <1>2, <1>11, <3>2
    <3> QED BY <1>4, <3>1, <3>3
  <2>2. IsFiniteSet(of(s))
    <3>1. of(s) \in SUBSET (1 .. N) /\ IsFiniteSet(1 .. N)
      BY <1>4, <1>6, FS_Interval
    <3> HIDE DEF of
    <3> QED BY <3>1, FS_Subset
  <2> HIDE DEF of
  <2>3. ~ (Cardinality(of(s)) > 1)
    BY <2>1, <2>2, SeveralElements
  <2>4. Cardinality(of(s)) \in Nat
    BY <2>2, FS_CardinalityType
  <2> QED BY <2>3, <2>4
<1>12. ASSUME NEW n \in DOMAIN rows
       PROVE  /\ rows[n].description = OutsideWidgets(rows[n].content.description)
              /\ rows[n].content.slugs \ DOMAIN Overrides \subseteq rows[n].tags
              /\ NoTag \notin rows[n].tags
  <2> DEFINE c == rows[n].content
  <2>1. /\ c \in Contents /\ rows[n].tags = TagsOf(c) /\ rows[n].description = Strip(c.description)
    BY <1>6, <1>8 DEF EventRow
  <2> HIDE DEF c
  <2>2. NoTag \notin c.slugs /\ c.description \in Seq(STRING)
    BY <2>1, EventExportAssumption
  <2>3. Strip(c.description) = OutsideWidgets(c.description)
    BY <2>2, StripIs
  <2>4. c.slugs \ DOMAIN Overrides \subseteq TagsOf(c) /\ NoTag \notin TagsOf(c)
    BY <2>2 DEF TagsOf, CategoryToTag
  <2> QED BY <2>1, <2>3, <2>4 DEF c
<1>13. /\ exported'.rows = rows /\ exported'.stood = fetched.stood
       /\ exported'.grown = fetched.grown /\ exported'.shrunk = fetched.shrunk
  BY <1>1
<1> QED BY <1>9, <1>10, <1>11, <1>12, <1>13 DEF ExportTells

LEMMA ExportInvInductive == ExportInv /\ [EventExportNext]_exportVars => ExportInv'
<1> SUFFICES ASSUME ExportInv, [EventExportNext]_exportVars PROVE ExportInv'
  OBVIOUS
<1>0. PublishedOK /\ (fetched # NoExport => ReadsOn) /\ ExportTells
  BY DEF ExportInv
<1>1. ASSUME published' = published PROVE PublishedOK'
  BY <1>0, <1>1 DEF PublishedOK
<1>2. ASSUME exported' = exported PROVE ExportTells'
  BY <1>0, <1>2 DEF ExportTells
<1>3. CASE StartEventExport
  <2>1. published' = published /\ exported' = exported
    BY <1>3 DEF StartEventExport
  <2>2. ReadsOn'
    BY <1>0, <1>3, StartReads
  <2> QED BY <1>1, <1>2, <2>1, <2>2 DEF ExportInv
<1>4. CASE FetchEvents
  <2>1. published' = published /\ exported' = exported /\ fetched # NoExport
    BY <1>4 DEF FetchEvents
  <2>2. ReadsOn'
    BY <1>0, <1>4, <2>1, FetchReads
  <2> QED BY <1>1, <1>2, <2>1, <2>2 DEF ExportInv
<1>5. CASE WriteCsv
  <2>1. published' = published /\ fetched' = NoExport /\ fetched # NoExport
    BY <1>5 DEF WriteCsv
  <2>2. ExportTells'
    BY <1>0, <1>5, <2>1, CsvTells
  <2> QED BY <1>1, <2>1, <2>2 DEF ExportInv
<1>6. CASE ExportFails
  <2>1. published' = published /\ exported' = exported /\ fetched' = NoExport
    BY <1>6 DEF ExportFails
  <2> QED BY <1>1, <1>2, <2>1 DEF ExportInv
<1>7. ASSUME NEW s \in Starts, NEW c \in Contents, PublishEvent(s, c) PROVE ExportInv'
  <2>1. exported' = exported
    BY <1>7 DEF PublishEvent
  <2>2. PublishedOK' /\ (fetched' # NoExport => ReadsOn')
    BY <1>0, <1>7, PublishReads
  <2> QED BY <1>2, <2>1, <2>2 DEF ExportInv
<1>8. ASSUME NEW s \in DOMAIN published, WithdrawEvent(s) PROVE ExportInv'
  <2>1. exported' = exported
    BY <1>8 DEF WithdrawEvent
  <2>2. PublishedOK' /\ (fetched' # NoExport => ReadsOn')
    BY <1>0, <1>8, WithdrawReads
  <2> QED BY <1>2, <2>1, <2>2 DEF ExportInv
<1>9. CASE UNCHANGED exportVars
  <2>1. published' = published /\ exported' = exported /\ fetched' = fetched
    BY <1>9 DEF exportVars
  <2>2. fetched' # NoExport => ReadsOn'
    BY <1>0, <2>1 DEF ReadsOn, Earlier
  <2> QED BY <1>1, <1>2, <2>1, <2>2 DEF ExportInv
<1> QED BY <1>3, <1>4, <1>5, <1>6, <1>7, <1>8, <1>9 DEF EventExportNext

\* The file tells the events of the site, for any events, descriptions and page size, and
\* any number of changes while the pages are read (export_fsrc_events.py).
THEOREM ExportAlwaysTells == EventExportSpec => []ExportTells
<1>1. EventExportInit => ExportInv
  BY DEF EventExportInit, ExportInv, ExportTells, PublishedOK
<1>2. ExportInv => ExportTells
  BY DEF ExportInv
<1> QED BY <1>1, <1>2, ExportInvInductive, PTL DEF EventExportSpec

\* The types of the export.
THEOREM ExportTypes == EventExportSpec => []EventExportTypeOK
<1>1. EventExportInit => ExportInv
  BY DEF EventExportInit, ExportInv, ExportTells, PublishedOK
<1>2. ExportInv => EventExportTypeOK
  BY DEF ExportInv, ReadsOn, PublishedOK, EventExportTypeOK
<1> QED BY <1>1, <1>2, ExportInvInductive, PTL DEF EventExportSpec

-----------------------------------------------------------------------------
(* The report: its sections *)

LEMMA GroupsShownIs ==
    ASSUME NEW G, G \subseteq GroupIds
    PROVE  /\ GroupsShown(InOrder(G)).custom = InOrder(G \ SystemGroups)
           /\ GroupsShown(InOrder(G)).system = InOrder(G \intersect SystemGroups)
<1> DEFINE rows == InOrder(G)
           N == Cardinality(G)
           system == {n \in DOMAIN rows : rows[n] \in SystemGroups}
           other == DOMAIN rows \ system
           custom == ByNumber(rows, other)
           C == [n \in DOMAIN custom |-> rows[custom[n]]]
           S == Picked(rows, system)
<1>1. G \subseteq Int /\ IsFiniteSet(G)
  <2>1. IsFiniteSet(GroupIds) /\ GroupIds \subseteq Nat
    BY ReportAssumption
  <2>2. IsFiniteSet(G)
    BY <2>1, FS_Subset
  <2> QED BY <2>1, <2>2
<1>2. /\ N \in Nat /\ rows \in [1 .. N -> G]
      /\ \A x \in G : \E k \in 1 .. N : rows[k] = x
      /\ \A k, l \in 1 .. N : k < l => rows[k] < rows[l]
      /\ \A k, l \in 1 .. N : rows[k] = rows[l] => k = l
  <2>1. N \in Nat /\ rows \in [1 .. N -> G]
    BY <1>1, InOrderIs
  <2>2. \A x \in G : \E k \in 1 .. N : rows[k] = x
    BY <1>1, InOrderIs
  <2>3. \A k, l \in 1 .. N : k < l => rows[k] < rows[l]
    BY <1>1, InOrderIs
  <2>4. \A k, l \in 1 .. N : rows[k] = rows[l] => k = l
    BY <1>1, InOrderIs
  <2> QED BY <2>1, <2>2, <2>3, <2>4
<1>3. GroupsShown(rows) = [custom |-> C, system |-> S]
  BY DEF GroupsShown
<1> HIDE DEF rows, N
<1>4. /\ system \in SUBSET (1 .. N) /\ other \in SUBSET (1 .. N) /\ IsFiniteSet(1 .. N)
      /\ system \subseteq Int /\ other \subseteq Int
  BY <1>2, FS_Interval
<1>5. IsFiniteSet(system) /\ IsFiniteSet(other)
  <2> HIDE DEF system, other
  <2> QED BY <1>4, FS_Subset
<1>6. S = InOrder(G \intersect SystemGroups)
  <2> DEFINE T == G \intersect SystemGroups
             A == InOrder(system)
             n == Cardinality(system)
  <2>a. \A p \in system : p \in 1 .. N /\ rows[p] \in T
    BY <1>2
  <2>b. \A x \in T : \E p \in system : rows[p] = x
    BY <1>2
  <2> HIDE DEF system
  <2>1. n \in Nat /\ A \in [1 .. n -> system]
    BY <1>4, <1>5, InOrderIs
  <2>2. \A p \in system : \E k \in 1 .. n : A[k] = p
    BY <1>4, <1>5, InOrderIs
  <2>3. \A k, l \in 1 .. n : k < l => A[k] < A[l]
    BY <1>4, <1>5, InOrderIs
  <2>4. S = [k \in 1 .. n |-> rows[A[k]]]
    BY <2>1 DEF Picked
  <2> HIDE DEF n, A, S
  <2>5. S \in [1 .. n -> T]
    BY <2>1, <2>4, <2>a
  <2>6. \A k, l \in 1 .. n : k < l => S[k] < S[l]
    <3> SUFFICES ASSUME NEW k \in 1 .. n, NEW l \in 1 .. n, k < l PROVE S[k] < S[l]
      OBVIOUS
    <3>1. A[k] < A[l] /\ A[k] \in 1 .. N /\ A[l] \in 1 .. N
      BY <2>1, <2>3, <2>a
    <3>2. rows[A[k]] < rows[A[l]]
      BY <1>2, <3>1
    <3> QED BY <2>4, <3>2
  <2>7. \A x \in T : \E k \in 1 .. n : S[k] = x
    <3> SUFFICES ASSUME NEW x \in T PROVE \E k \in 1 .. n : S[k] = x
      OBVIOUS
    <3>1. PICK p \in system : rows[p] = x
      BY <2>b
    <3>2. PICK k \in 1 .. n : A[k] = p
      BY <2>2
    <3> QED BY <2>4, <3>1, <3>2
  <2>8. T \subseteq Int
    BY <1>1
  <2> HIDE DEF T
  <2>9. S = InOrder(T)
    BY <2>1, <2>5, <2>6, <2>7, <2>8, InOrderOnce
  <2> QED BY <2>9 DEF T
<1>7. C = InOrder(G \ SystemGroups)
  <2> DEFINE T == G \ SystemGroups
             n == Cardinality(other)
  <2>a. \A p \in other : p \in 1 .. N /\ rows[p] \in T
    BY <1>2
  <2>b. \A x \in T : \E p \in other : rows[p] = x
    BY <1>2
  <2>c. \A p \in other : rows[p] \in Int
    BY <1>1, <2>a
  <2> HIDE DEF other
  <2>1. n \in Nat /\ custom \in [1 .. n -> other]
    BY <1>4, <1>5, <2>c, ByNumberIs
  <2>2. \A p \in other : \E k \in 1 .. n : custom[k] = p
    BY <1>4, <1>5, <2>c, ByNumberIs
  <2>3. \A k, l \in 1 .. n : custom[k] = custom[l] => k = l
    BY <1>4, <1>5, <2>c, ByNumberIs
  <2>3a. \A k, l \in 1 .. n : k < l => rows[custom[k]] <= rows[custom[l]]
    BY <1>4, <1>5, <2>c, ByNumberIs
  <2>4. C = [k \in 1 .. n |-> rows[custom[k]]]
    BY <2>1
  <2> HIDE DEF n, custom, C
  <2>5. C \in [1 .. n -> T]
    BY <2>1, <2>4, <2>a
  <2>6. \A k, l \in 1 .. n : k < l => C[k] < C[l]
    <3> SUFFICES ASSUME NEW k \in 1 .. n, NEW l \in 1 .. n, k < l PROVE C[k] < C[l]
      OBVIOUS
    <3>0. k # l
      BY <2>1
    <3>1. custom[k] # custom[l] /\ custom[k] \in other /\ custom[l] \in other
      BY <2>1, <2>3, <3>0
    <3>2. /\ custom[k] \in 1 .. N /\ custom[l] \in 1 .. N
          /\ rows[custom[k]] \in Int /\ rows[custom[l]] \in Int
      BY <2>a, <2>c, <3>1
    <3>3. rows[custom[k]] # rows[custom[l]]
      BY <1>2, <3>1, <3>2
    <3>4. rows[custom[k]] < rows[custom[l]]
      BY <2>3a, <3>2, <3>3
    <3> QED BY <2>4, <3>4
  <2>7. \A x \in T : \E k \in 1 .. n : C[k] = x
    <3> SUFFICES ASSUME NEW x \in T PROVE \E k \in 1 .. n : C[k] = x
      OBVIOUS
    <3>1. PICK p \in other : rows[p] = x
      BY <2>b
    <3>2. PICK k \in 1 .. n : custom[k] = p
      BY <2>2
    <3> QED BY <2>4, <3>1, <3>2
  <2>8. T \subseteq Int
    BY <1>1
  <2> HIDE DEF T
  <2>9. C = InOrder(T)
    BY <2>1, <2>5, <2>6, <2>7, <2>8, InOrderOnce
  <2> QED BY <2>9 DEF T
<1> QED BY <1>3, <1>6, <1>7 DEF rows

LEMMA WiderSeq ==
    ASSUME NEW S, NEW T, S \subseteq T, NEW s \in Seq(S)
    PROVE  s \in Seq(T)
<1>1. Len(s) \in Nat /\ s \in [1 .. Len(s) -> S]
  OBVIOUS
<1>2. s \in [1 .. Len(s) -> T]
  BY <1>1
<1> QED BY <1>1, <1>2

\* What a set of numbers in order has.
LEMMA InOrderHas ==
    ASSUME NEW S, S \subseteq Int, IsFiniteSet(S)
    PROVE  /\ Range(InOrder(S)) = S /\ InOrder(S) \in Seq(S) /\ IsInjective(InOrder(S))
<1> DEFINE n == Cardinality(S)
           A == InOrder(S)
<1>1. A \in [1 .. n -> S]
  BY InOrderIs
<1>2. \A x \in S : \E k \in 1 .. n : A[k] = x
  BY InOrderIs
<1>3. \A k, l \in 1 .. n : A[k] = A[l] => k = l
  BY InOrderIs
<1>4. A \in Seq(S)
  BY InOrderIs
<1> HIDE DEF n, A
<1>5. Range(A) = S
  BY <1>1, <1>2 DEF Range
<1>6. IsInjective(A)
  BY <1>1, <1>3 DEF IsInjective
<1> QED BY <1>4, <1>5, <1>6 DEF A

LEMMA JoinedIs ==
    ASSUME NEW T, NEW s \in Seq(T), NEW t \in Seq(T)
    PROVE  /\ Range(s \o t) = Range(s) \union Range(t)
           /\ IsInjective(s) /\ IsInjective(t) /\ Range(s) \intersect Range(t) = {} => IsInjective(s \o t)
<1> DEFINE u == s \o t
<1>0. /\ DOMAIN s = 1 .. Len(s) /\ DOMAIN t = 1 .. Len(t) /\ Len(s) \in Nat /\ Len(t) \in Nat
      /\ DOMAIN u = 1 .. Len(s) + Len(t)
  OBVIOUS
<1>1. \A n \in DOMAIN s : n \in DOMAIN u /\ u[n] = s[n]
  BY <1>0
<1>2. \A n \in DOMAIN t : Len(s) + n \in DOMAIN u /\ u[Len(s) + n] = t[n]
  BY <1>0
<1>3. ASSUME NEW n \in DOMAIN u PROVE n \in DOMAIN s \/ (n - Len(s) \in DOMAIN t /\ n = Len(s) + (n - Len(s)))
  BY <1>0
<1> HIDE DEF u
<1>4. \A n \in DOMAIN u : \/ n \in DOMAIN s /\ u[n] = s[n]
                          \/ n - Len(s) \in DOMAIN t /\ u[n] = t[n - Len(s)]
  BY <1>1, <1>2, <1>3
<1>5. Range(u) = Range(s) \union Range(t)
  BY <1>1, <1>2, <1>4 DEF Range
<1>6. ASSUME IsInjective(s), IsInjective(t), Range(s) \intersect Range(t) = {}
      PROVE  IsInjective(u)
  <2> SUFFICES ASSUME NEW a \in DOMAIN u, NEW b \in DOMAIN u, u[a] = u[b] PROVE a = b
    BY DEF IsInjective
  <2>0. \A x \in DOMAIN s, y \in DOMAIN t : s[x] # t[y]
    BY <1>6 DEF Range
  <2>i. a \in Int /\ b \in Int /\ Len(s) \in Int
    BY <1>0
  <2>1. CASE a \in DOMAIN s /\ u[a] = s[a] /\ b \in DOMAIN s /\ u[b] = s[b]
    BY <1>6, <2>1 DEF IsInjective
  <2>2. CASE /\ a - Len(s) \in DOMAIN t /\ u[a] = t[a - Len(s)]
             /\ b - Len(s) \in DOMAIN t /\ u[b] = t[b - Len(s)]
    <3>1. a - Len(s) = b - Len(s)
      BY <1>6, <2>2 DEF IsInjective
    <3> QED BY <2>i, <3>1
  <2>3. CASE a \in DOMAIN s /\ u[a] = s[a] /\ b - Len(s) \in DOMAIN t /\ u[b] = t[b - Len(s)]
    BY <2>0, <2>3
  <2>4. CASE b \in DOMAIN s /\ u[b] = s[b] /\ a - Len(s) \in DOMAIN t /\ u[a] = t[a - Len(s)]
    BY <2>0, <2>4
  <2> QED BY <1>4, <2>1, <2>2, <2>3, <2>4
<1> QED BY <1>5, <1>6 DEF u

LEMMA NumsIs ==
    ASSUME NEW rows, rows \subseteq ListItems
    PROVE  /\ Nums(rows) \in Seq(Nat) /\ Range(Nums(rows)) = {x.num : x \in rows}
           /\ rows = {} => Nums(rows) = <<>>
<1> DEFINE N == {x.num : x \in rows}
           f == [x \in rows |-> x.num]
<1>0. IsFiniteSet(rows)
  BY ReportAssumption, FS_Subset
<1>1. rows \subseteq [num : Nat, mark : BOOLEAN]
  BY ReportAssumption
<1>2. N \subseteq Nat /\ N \subseteq Int
  BY <1>1
<1>3. IsFiniteSet(N)
  <2>1. f \in [rows -> N]
    OBVIOUS
  <2>2. N = {f[x] : x \in rows}
    OBVIOUS
  <2> HIDE DEF f, N
  <2>3. IsFiniteSet({f[x] : x \in rows})
    BY <1>0, <2>1, ImageFinite
  <2> QED BY <2>2, <2>3
<1>4. Nums(rows) = InOrder(N)
  BY DEF Nums
<1>5. rows = {} => N = {}
  OBVIOUS
<1> HIDE DEF N
<1>6. Range(InOrder(N)) = N /\ InOrder(N) \in Seq(N)
  BY <1>2, <1>3, InOrderHas
<1>7. InOrder(N) \in Seq(Nat)
  BY <1>2, <1>6, WiderSeq
<1> QED BY <1>4, <1>5, <1>6, <1>7, InOrderEmpty DEF N

LEMMA ListShownIs ==
    ASSUME NEW k \in Lists, NEW rows, rows \subseteq ListItems
    PROVE  /\ Range(ListShown(k, rows)) = {x.num : x \in IF k = "badges" THEN Marked(rows) ELSE rows}
           /\ rows = {} => ListShown(k, rows) = <<>>
<1>1. Marked(rows) \subseteq ListItems /\ rows \ Marked(rows) \subseteq ListItems
      /\ rows = Marked(rows) \union (rows \ Marked(rows)) /\ (rows = {} => Marked(rows) = {})
  BY DEF Marked
<1>2. CASE k = "badges"
  BY <1>1, <1>2, NumsIs DEF ListShown
<1>3. CASE k = "themes"
  <2> DEFINE M == Marked(rows)
             O == rows \ Marked(rows)
  <2>1. ListShown(k, rows) = Nums(M) \o Nums(O)
    BY <1>3 DEF ListShown
  <2>2. /\ Nums(M) \in Seq(Nat) /\ Range(Nums(M)) = {x.num : x \in M} /\ (M = {} => Nums(M) = <<>>)
        /\ Nums(O) \in Seq(Nat) /\ Range(Nums(O)) = {x.num : x \in O} /\ (O = {} => Nums(O) = <<>>)
    BY <1>1, NumsIs
  <2>3. Range(Nums(M) \o Nums(O)) = Range(Nums(M)) \union Range(Nums(O))
    BY <2>2, JoinedIs
  <2>4. rows = M \union O /\ (rows = {} => M = {} /\ O = {})
    BY <1>1
  <2> HIDE DEF M, O
  <2>5. {x.num : x \in rows} = {x.num : x \in M} \union {x.num : x \in O}
    BY <2>4
  <2>6. <<>> \o <<>> = <<>>
    OBVIOUS
  <2> QED BY <1>3, <2>1, <2>2, <2>3, <2>4, <2>5, <2>6
<1>4. CASE k \notin {"badges", "themes"}
  BY <1>4, NumsIs DEF ListShown
<1> QED BY <1>2, <1>3, <1>4

LEMMA SettingsShownIs ==
    ASSUME NEW rows, rows \subseteq Settings
    PROVE  /\ IsInjective(SettingsShown(rows))
           /\ Range(SettingsShown(rows)) = rows \intersect (Range(OfInterest) \union Connecting)
<1> DEFINE P == {n \in DOMAIN OfInterest : OfInterest[n] \in rows}
           s == Picked(OfInterest, P)
           C == (rows \intersect Connecting) \ Range(OfInterest)
           t == InOrder(C)
           A == InOrder(P)
           n == Cardinality(P)
<1>0. /\ OfInterest \in Seq(Settings) /\ IsInjective(OfInterest) /\ Connecting \subseteq Settings
      /\ Settings \subseteq Nat /\ IsFiniteSet(Settings)
  BY ReportAssumption
<1>1. P \in SUBSET (1 .. Len(OfInterest)) /\ IsFiniteSet(1 .. Len(OfInterest)) /\ P \subseteq Int
      /\ DOMAIN OfInterest = 1 .. Len(OfInterest) /\ Len(OfInterest) \in Nat
  BY <1>0, FS_Interval
<1>2. IsFiniteSet(P)
  <2> HIDE DEF P
  <2> QED BY <1>1, FS_Subset
<1>3. C \in SUBSET Settings /\ C \subseteq Int
  <2>1. C \in SUBSET Settings
    BY <1>0
  <2> HIDE DEF C
  <2> QED BY <1>0, <2>1
<1>4. IsFiniteSet(C)
  <2> HIDE DEF C
  <2> QED BY <1>0, <1>3, FS_Subset
<1>5. Range(t) = C /\ t \in Seq(C) /\ IsInjective(t)
  <2> HIDE DEF C
  <2> QED BY <1>3, <1>4, InOrderHas
<1>6. t \in Seq(Settings)
  <2> HIDE DEF C, t
  <2>1. C \subseteq Settings
    BY <1>3
  <2> QED BY <1>5, <2>1, WiderSeq
<1>7. /\ n \in Nat /\ A \in [1 .. n -> P]
      /\ \A p \in P : \E k \in 1 .. n : A[k] = p
      /\ \A k, l \in 1 .. n : A[k] = A[l] => k = l
  <2> HIDE DEF P
  <2>1. n \in Nat /\ A \in [1 .. n -> P]
    BY <1>1, <1>2, InOrderIs
  <2>2. \A p \in P : \E k \in 1 .. n : A[k] = p
    BY <1>1, <1>2, InOrderIs
  <2>3. \A k, l \in 1 .. n : A[k] = A[l] => k = l
    BY <1>1, <1>2, InOrderIs
  <2> QED BY <2>1, <2>2, <2>3
<1>8. s = [k \in 1 .. n |-> OfInterest[A[k]]]
  BY <1>7 DEF Picked
<1> HIDE DEF s, n, A
<1>9. \A p \in P : OfInterest[p] \in rows /\ p \in DOMAIN OfInterest
  OBVIOUS
<1>10. s \in Seq(Settings)
  <2>1. s \in [1 .. n -> Settings]
    BY <1>7, <1>8, <1>9
  <2> QED BY <1>7, <2>1
<1>11. IsInjective(s)
  <2> SUFFICES ASSUME NEW k \in 1 .. n, NEW l \in 1 .. n, s[k] = s[l] PROVE k = l
    BY <1>8 DEF IsInjective
  <2>1. A[k] \in DOMAIN OfInterest /\ A[l] \in DOMAIN OfInterest /\ OfInterest[A[k]] = OfInterest[A[l]]
    BY <1>7, <1>8, <1>9
  <2>2. A[k] = A[l]
    BY <1>0, <2>1 DEF IsInjective
  <2> QED BY <1>7, <2>2
<1>12. Range(s) = rows \intersect Range(OfInterest)
  <2>1. ASSUME NEW x \in Range(s) PROVE x \in rows \intersect Range(OfInterest)
    <3>1. PICK k \in 1 .. n : x = s[k]
      BY <1>8 DEF Range
    <3> QED BY <1>7, <1>8, <1>9, <3>1 DEF Range
  <2>2. ASSUME NEW x \in rows \intersect Range(OfInterest) PROVE x \in Range(s)
    <3>1. PICK p \in DOMAIN OfInterest : x = OfInterest[p]
      BY DEF Range
    <3>2. PICK k \in 1 .. n : A[k] = p
      BY <1>7, <3>1
    <3>3. s[k] = x /\ k \in DOMAIN s
      BY <1>8, <3>1, <3>2
    <3> QED BY <3>3 DEF Range
  <2> QED BY <2>1, <2>2
<1>13. SettingsShown(rows) = s \o t
  BY DEF SettingsShown, s
<1>14. Range(s) \intersect Range(t) = {}
       /\ Range(s) \union Range(t) = rows \intersect (Range(OfInterest) \union Connecting)
  <2> HIDE DEF P, t
  <2> QED BY <1>5, <1>12
<1> HIDE DEF P, t, C
<1> QED BY <1>5, <1>6, <1>10, <1>11, <1>13, <1>14, JoinedIs

\* The rows of the categories, with their permissions or without.
FlatWith(cats, known) ==
    {[id |-> c, parent |-> cats[c].parent, restricted |-> cats[c].restricted,
      allowed |-> IF known THEN cats[c].allowed ELSE {}] : c \in There(cats)}

CatsOK(cats) ==
    /\ cats \in [CategoryIds -> Category \union {NoReport}]
    /\ \A c \in There(cats) :
         cats[c].parent # NoParent =>
           cats[c].parent \in There(cats) /\ cats[cats[c].parent].parent = NoParent

\* A row for each category that is there, and each has its row of the top level.
LEMMA FlatIs ==
    ASSUME NEW cats, CatsOK(cats), NEW known \in BOOLEAN, NEW rows, rows = FlatWith(cats, known)
    PROVE  /\ IsFiniteSet(rows)
           /\ \A r \in rows : /\ r.id \in There(cats) /\ r.id \in Nat
                              /\ r.parent = cats[r.id].parent
                              /\ r.restricted = cats[r.id].restricted /\ r.restricted \in BOOLEAN
                              /\ r.allowed = IF known THEN cats[r.id].allowed ELSE {}
           /\ \A r, q \in rows : r.id = q.id => r = q
           /\ \A c \in There(cats) : \E r \in rows : r.id = c
           /\ \A r \in rows : /\ TopOf(rows, r) \in rows /\ TopOf(rows, r).parent = NoParent
                              /\ r.parent = NoParent => TopOf(rows, r) = r
                              /\ r.parent # NoParent => TopOf(rows, r).id = r.parent
<1> DEFINE row == [c \in There(cats) |->
                     [id |-> c, parent |-> cats[c].parent, restricted |-> cats[c].restricted,
                      allowed |-> IF known THEN cats[c].allowed ELSE {}]]
<1>1. There(cats) \subseteq CategoryIds /\ IsFiniteSet(CategoryIds) /\ CategoryIds \subseteq Nat
  BY ReportAssumption DEF There
<1>2. \A c \in There(cats) : cats[c] \in Category
  BY DEF CatsOK, There
<1>3. rows = {row[c] : c \in There(cats)}
  BY DEF FlatWith
<1>4. \A c \in There(cats) : /\ row[c].id = c /\ row[c].parent = cats[c].parent
                             /\ row[c].restricted = cats[c].restricted
                             /\ row[c].allowed = IF known THEN cats[c].allowed ELSE {}
  OBVIOUS
<1>5. IsFiniteSet(rows)
  <2>1. IsFiniteSet(There(cats))
    BY <1>1, FS_Subset
  <2> DEFINE T == {row[c] : c \in There(cats)}
  <2>2. row \in [There(cats) -> T]
    OBVIOUS
  <2> HIDE DEF row, T
  <2>3. IsFiniteSet({row[c] : c \in There(cats)})
    BY <2>1, <2>2, ImageFinite
  <2> QED BY <1>3, <2>3
<1> HIDE DEF row
<1>6. \A c \in There(cats) : cats[c].restricted \in BOOLEAN
  BY <1>2 DEF Category
<1>7. \A r \in rows : /\ r.id \in There(cats) /\ r.id \in Nat
                      /\ r.parent = cats[r.id].parent
                      /\ r.restricted = cats[r.id].restricted /\ r.restricted \in BOOLEAN
                      /\ r.allowed = IF known THEN cats[r.id].allowed ELSE {}
  <2> SUFFICES ASSUME NEW r \in rows
               PROVE  /\ r.id \in There(cats) /\ r.id \in Nat
                      /\ r.parent = cats[r.id].parent
                      /\ r.restricted = cats[r.id].restricted /\ r.restricted \in BOOLEAN
                      /\ r.allowed = IF known THEN cats[r.id].allowed ELSE {}
    OBVIOUS
  <2>1. PICK c \in There(cats) : r = row[c]
    BY <1>3
  <2>2. /\ r.id = c /\ r.parent = cats[c].parent /\ r.restricted = cats[c].restricted
        /\ r.allowed = IF known THEN cats[c].allowed ELSE {}
    BY <1>4, <2>1
  <2>3. c \in Nat /\ cats[c].restricted \in BOOLEAN
    BY <1>1, <1>6
  <2> QED BY <2>2, <2>3
<1>8. \A r, q \in rows : r.id = q.id => r = q
  BY <1>3, <1>4
<1>9. \A c \in There(cats) : \E r \in rows : r.id = c
  BY <1>3, <1>4
<1>10. ASSUME NEW r \in rows
       PROVE  /\ TopOf(rows, r) \in rows /\ TopOf(rows, r).parent = NoParent
              /\ r.parent = NoParent => TopOf(rows, r) = r
              /\ r.parent # NoParent => TopOf(rows, r).id = r.parent
  <2>1. CASE r.parent = NoParent
    BY <2>1 DEF TopOf
  <2>2. CASE r.parent # NoParent
    <3>1. r.parent \in There(cats) /\ cats[r.parent].parent = NoParent
      BY <1>7, <2>2 DEF CatsOK
    <3>2. PICK t \in rows : t.id = r.parent
      BY <1>9, <3>1
    <3>3. t \in TopLevel(rows)
      BY <1>7, <3>1, <3>2 DEF TopLevel
    <3>4. TopOf(rows, r) \in TopLevel(rows) /\ TopOf(rows, r).id = r.parent
      BY <2>2, <3>2, <3>3 DEF TopOf
    <3> QED BY <2>2, <3>4 DEF TopLevel
  <2> QED BY <2>1, <2>2
<1> QED BY <1>5, <1>7, <1>8, <1>9, <1>10

CategoryOrder(rows) == {p \in rows \X rows : p[1] # p[2] /\ ShownBefore(rows, p[1], p[2])}

\* The order of the categories in the document is one.
LEMMA CategoriesOrdered ==
    ASSUME NEW cats, CatsOK(cats), NEW known \in BOOLEAN, NEW rows, rows = FlatWith(cats, known)
    PROVE  Orders(CategoryOrder(rows), rows)
<1>1. \A r \in rows : r.id \in Nat /\ r.restricted \in BOOLEAN
  BY FlatIs
<1>2. \A r, q \in rows : r.id = q.id => r = q
  BY FlatIs
<1>3. \A r \in rows : /\ TopOf(rows, r) \in rows /\ TopOf(rows, r).parent = NoParent
                      /\ r.parent = NoParent => TopOf(rows, r) = r
  BY FlatIs
<1>4. /\ \A c \in rows : ~ Before(c, c)
      /\ \A c, d, e \in rows : Before(c, d) /\ Before(d, e) => Before(c, e)
      /\ \A c, d \in rows : c # d => Before(c, d) \/ Before(d, c)
  BY <1>1, <1>2 DEF Before
<1> DEFINE R == CategoryOrder(rows)
           T(c) == TopOf(rows, c)
           Top(c) == c.parent = NoParent
           In(c, d) == Top(c) \/ (~ Top(d) /\ Before(c, d))
<1>5. \A c, d \in rows : <<c, d>> \in R <=>
         c # d /\ IF T(c) # T(d) THEN Before(T(c), T(d)) ELSE In(c, d)
  BY DEF CategoryOrder, ShownBefore
<1>6. ASSUME NEW c \in rows PROVE T(c) \in rows /\ (Top(c) => T(c) = c)
  BY <1>3
<1> HIDE DEF R, T, Top
<1>7. \A c \in rows : <<c, c>> \notin R
  BY <1>5
<1>8. ASSUME NEW c \in rows, NEW d \in rows, NEW e \in rows, <<c, d>> \in R, <<d, e>> \in R
      PROVE  <<c, e>> \in R
  <2>1. /\ c # d /\ IF T(c) # T(d) THEN Before(T(c), T(d)) ELSE In(c, d)
        /\ d # e /\ IF T(d) # T(e) THEN Before(T(d), T(e)) ELSE In(d, e)
    BY <1>5, <1>8
  <2>2. CASE T(c) # T(d) \/ T(d) # T(e)
    <3>1. Before(T(c), T(e))
      BY <1>4, <1>6, <2>1, <2>2
    <3>2. T(c) # T(e)
      BY <1>4, <1>6, <3>1
    <3> QED BY <1>5, <3>1, <3>2
  <2>3. CASE T(c) = T(d) /\ T(d) = T(e)
    <3>1. In(c, d) /\ In(d, e)
      BY <2>1, <2>3
    <3>2. ~ Top(d) \/ ~ Top(c)
      BY <1>6, <2>1, <2>3
    <3>3. ~ Top(d) \/ Top(c)
      BY <3>1
    <3>4. ~ Top(d) /\ ~ Top(e) /\ Before(d, e)
      BY <3>1, <3>2, <3>3
    <3>5. CASE Top(c)
      BY <1>5, <2>3, <3>4, <3>5
    <3>6. CASE ~ Top(c)
      <4>1. Before(c, e)
        BY <1>4, <3>1, <3>4, <3>6
      <4>2. c # e
        BY <1>4, <4>1
      <4> QED BY <1>5, <2>3, <3>4, <4>1, <4>2
    <3> QED BY <3>5, <3>6
  <2> QED BY <2>2, <2>3
<1>9. ASSUME NEW c \in rows, NEW d \in rows, c # d
      PROVE  <<c, d>> \in R \/ <<d, c>> \in R
  <2>1. CASE T(c) # T(d)
    BY <1>4, <1>5, <1>6, <1>9, <2>1
  <2>2. CASE T(c) = T(d)
    <3>1. Before(c, d) \/ Before(d, c)
      BY <1>4, <1>9
    <3> QED BY <1>5, <1>9, <2>2, <3>1
  <2> QED BY <2>1, <2>2
<1>10. Orders(R, rows)
  BY <1>7, <1>8, <1>9 DEF Orders
<1> QED BY <1>10 DEF R

(* The categories of a document, of the forum's, with their permissions or  *)
(* without.                                                                 *)
ShownAs(shown, cats, known) ==
    /\ {shown[i].id : i \in DOMAIN shown} = There(cats)
    /\ IsInjective([i \in DOMAIN shown |-> shown[i].id])
    /\ \A i \in DOMAIN shown :
         LET c == shown[i] IN
         /\ c.parent = cats[c.id].parent
         /\ c.parent # NoParent => i > 1 /\ c.parent \in {shown[i - 1].id, shown[i - 1].parent}
         /\ c.access = "Public" => ~ cats[c.id].restricted
         /\ known => c.groups = cats[c.id].allowed /\ (c.access = "groups" <=> cats[c.id].allowed # {})

LEMMA ToldAs ==
    /\ CategoriesTold <=> ShownAs(document.categories, forumSite.categories, "permissions" \notin document.failed)
    /\ CategoriesTold' <=> ShownAs(document'.categories, forumSite'.categories, "permissions" \notin document'.failed)
BY DEF CategoriesTold, ShownAs

\* The categories of the document.
LEMMA CategoriesShownIs ==
    ASSUME NEW cats, CatsOK(cats), NEW known \in BOOLEAN, NEW shown,
           shown = CategoriesShown(FlatWith(cats, known))
    PROVE  ShownAs(shown, cats, known)
<1> DEFINE rows == FlatWith(cats, known)
           R == CategoryOrder(rows)
           N == Cardinality(rows)
           A == Along(rows, R)
           listed == TopLevel(rows) \union {c \in rows : \E t \in TopLevel(rows) : t.id = c.parent}
<1> HIDE DEF rows
<1>0. /\ IsFiniteSet(rows)
      /\ \A r \in rows : /\ r.id \in There(cats) /\ r.id \in Nat
                         /\ r.parent = cats[r.id].parent
                         /\ r.restricted = cats[r.id].restricted /\ r.restricted \in BOOLEAN
                         /\ r.allowed = IF known THEN cats[r.id].allowed ELSE {}
      /\ \A r, q \in rows : r.id = q.id => r = q
      /\ \A c \in There(cats) : \E r \in rows : r.id = c
  <2>1. rows = FlatWith(cats, known)
    BY DEF rows
  <2> QED BY <2>1, FlatIs
<1>1. \A r \in rows : /\ TopOf(rows, r) \in rows /\ TopOf(rows, r).parent = NoParent
                      /\ r.parent = NoParent => TopOf(rows, r) = r
                      /\ r.parent # NoParent => TopOf(rows, r).id = r.parent
  <2>1. rows = FlatWith(cats, known)
    BY DEF rows
  <2> QED BY <2>1, FlatIs
<1>2. listed = rows
  <2> SUFFICES ASSUME NEW c \in rows, c.parent # NoParent
               PROVE  \E t \in TopLevel(rows) : t.id = c.parent
    BY DEF TopLevel
  <2>1. /\ TopOf(rows, c) \in rows /\ TopOf(rows, c).parent = NoParent
        /\ TopOf(rows, c).id = c.parent
    BY <1>1
  <2> QED BY <2>1 DEF TopLevel
<1>3. Orders(R, rows)
  BY CategoriesOrdered DEF rows
<1>4. shown = [i \in DOMAIN A |->
                 [id |-> A[i].id, parent |-> A[i].parent, access |-> Access(A[i]), groups |-> A[i].allowed]]
  <2> HIDE DEF listed
  <2> QED BY <1>2 DEF CategoriesShown, CategoryOrder, listed, rows
<1> HIDE DEF R, listed
<1>5. N \in Nat /\ A \in [1 .. N -> rows]
  BY <1>0, <1>3, AlongIs
<1>6. \A k, l \in 1 .. N : (k < l => <<A[k], A[l]>> \in R) /\ (A[k] = A[l] => k = l)
  BY <1>0, <1>3, AlongIs
<1>7. \A x \in rows : \E k \in 1 .. N : A[k] = x
  <2>1. \A x \in rows : RankAlong(rows, R, x) + 1 \in 1 .. N /\ A[RankAlong(rows, R, x) + 1] = x
    BY <1>0, <1>3, AlongIs
  <2> QED BY <2>1
<1> HIDE DEF A, N
<1>8. /\ DOMAIN shown = 1 .. N
      /\ \A i \in 1 .. N : /\ A[i] \in rows
                           /\ shown[i].id = A[i].id /\ shown[i].parent = A[i].parent
                           /\ shown[i].access = Access(A[i]) /\ shown[i].groups = A[i].allowed
  BY <1>4, <1>5
<1>9. {shown[i].id : i \in DOMAIN shown} = There(cats)
  <2>1. \A i \in DOMAIN shown : shown[i].id \in There(cats)
    BY <1>0, <1>8
  <2>2. \A c \in There(cats) : \E i \in DOMAIN shown : shown[i].id = c
    BY <1>0, <1>7, <1>8
  <2> QED BY <2>1, <2>2
<1>10. IsInjective([i \in DOMAIN shown |-> shown[i].id])
  <2> SUFFICES ASSUME NEW i \in 1 .. N, NEW j \in 1 .. N, shown[i].id = shown[j].id PROVE i = j
    BY <1>8 DEF IsInjective
  <2>1. A[i] \in rows /\ A[j] \in rows /\ A[i].id = A[j].id
    BY <1>8
  <2>2. A[i] = A[j]
    BY <1>0, <2>1
  <2> QED BY <1>6, <2>2
<1>11. ASSUME NEW i \in 1 .. N
       PROVE  /\ shown[i].parent = cats[shown[i].id].parent
              /\ shown[i].access = "Public" => ~ cats[shown[i].id].restricted
              /\ known => /\ shown[i].groups = cats[shown[i].id].allowed
                          /\ shown[i].access = "groups" <=> cats[shown[i].id].allowed # {}
  <2>1. /\ A[i] \in rows /\ shown[i].id = A[i].id /\ shown[i].parent = A[i].parent
        /\ shown[i].access = Access(A[i]) /\ shown[i].groups = A[i].allowed
    BY <1>8
  <2>2. /\ A[i].parent = cats[A[i].id].parent /\ A[i].restricted = cats[A[i].id].restricted
        /\ A[i].allowed = IF known THEN cats[A[i].id].allowed ELSE {}
    BY <1>0, <2>1
  <2> QED BY <2>1, <2>2 DEF Access
<1>12. ASSUME NEW i \in 1 .. N, shown[i].parent # NoParent
       PROVE  i > 1 /\ shown[i].parent \in {shown[i - 1].id, shown[i - 1].parent}
  <2> DEFINE c == A[i]
             t == TopOf(rows, c)
  <2>1. /\ c \in rows /\ c.parent # NoParent /\ c.parent = shown[i].parent
        /\ t \in rows /\ t.parent = NoParent /\ t.id = c.parent /\ TopOf(rows, t) = t
    BY <1>1, <1>8, <1>12
  <2> HIDE DEF t
  <2>2. \A a, b \in rows : <<a, b>> \in R <=> a # b /\ ShownBefore(rows, a, b)
    BY DEF R, CategoryOrder
  <2>3. <<t, c>> \in R
    <3>1. TopOf(rows, t) = TopOf(rows, c) /\ t # c
      BY <2>1 DEF t
    <3>2. ShownBefore(rows, t, c)
      BY <2>1, <3>1 DEF ShownBefore
    <3> QED BY <2>1, <2>2, <3>1, <3>2
  <2>4. PICK j \in 1 .. N : A[j] = t
    BY <1>7, <2>1
  <2> HIDE DEF c
  <2>5. j < i
    <3>1. CASE i < j
      <4>1. <<c, t>> \in R
        BY <1>6, <2>4, <3>1 DEF c
      <4> QED BY <1>3, <2>1, <2>3, <4>1 DEF Orders
    <3>2. CASE i = j
      BY <2>1, <2>4, <3>2 DEF c
    <3> QED BY <1>5, <3>1, <3>2
  <2>6. i > 1 /\ i - 1 \in 1 .. N /\ i - 1 < i /\ (j = i - 1 \/ j < i - 1)
    BY <1>5, <2>5
  <2> DEFINE d == A[i - 1]
  <2>7. d \in rows /\ shown[i - 1].id = d.id /\ shown[i - 1].parent = d.parent
    BY <1>8, <2>6
  <2>8. <<d, c>> \in R /\ (d = t \/ <<t, d>> \in R)
    BY <1>6, <2>4, <2>6 DEF c
  <2> HIDE DEF d
  <2>9. TopOf(rows, d) = t
    <3> SUFFICES ASSUME TopOf(rows, d) # t PROVE FALSE
      OBVIOUS
    <3>0. TopOf(rows, c) = t
      BY DEF t
    <3>1. <<t, d>> \in R
      BY <2>1, <2>8
    <3>2. ShownBefore(rows, t, d) /\ ShownBefore(rows, d, c)
      BY <2>1, <2>2, <2>7, <2>8, <3>1
    <3>3. Before(t, TopOf(rows, d)) /\ Before(TopOf(rows, d), t)
      BY <2>1, <3>0, <3>2 DEF ShownBefore
    <3>4. TopOf(rows, d) \in rows
      BY <1>1, <2>7
    <3>5. t.id \in Nat /\ TopOf(rows, d).id \in Nat /\ t.restricted \in BOOLEAN
          /\ TopOf(rows, d).restricted \in BOOLEAN
      BY <1>0, <2>1, <3>4
    <3> QED BY <3>3, <3>5 DEF Before
  <2>10. CASE d.parent = NoParent
    <3>1. d = t
      BY <1>1, <2>7, <2>9, <2>10
    <3> QED BY <2>1, <2>6, <2>7, <3>1
  <2>11. CASE d.parent # NoParent
    <3>1. d.parent = t.id
      BY <1>1, <2>7, <2>9, <2>11
    <3> QED BY <2>1, <2>6, <2>7, <3>1
  <2> QED BY <2>10, <2>11
<1> QED BY <1>8, <1>9, <1>10, <1>11, <1>12 DEF ShownAs
-----------------------------------------------------------------------------
(* The report: what an export has gathered *)

\* The steps of the export are eleven and no two are the same.
LEMMA StepsAre ==
    /\ Len(ExportSteps) = 11 /\ DOMAIN ExportSteps = 1 .. 11
    /\ \A i, j \in 1 .. 11 : ExportSteps[i] = ExportSteps[j] => i = j
    /\ ExportSteps[1] = "groups" /\ ExportSteps[2] = "categories" /\ ExportSteps[11] = "permissions"
    /\ Done(1) = {}
    /\ \A n \in 1 .. 11 : Done(n + 1) = Done(n) \union {ExportSteps[n]} /\ ExportSteps[n] \notin Done(n)
    /\ Done(12) = Range(ExportSteps)
<1>1. Len(ExportSteps) = 11 /\ DOMAIN ExportSteps = 1 .. 11
  BY DEF ExportSteps
<1>2. /\ ExportSteps[1] = "groups" /\ ExportSteps[2] = "categories" /\ ExportSteps[3] = "tags"
      /\ ExportSteps[4] = "tag_groups" /\ ExportSteps[5] = "site_settings"
      /\ ExportSteps[6] = "user_fields" /\ ExportSteps[7] = "badges" /\ ExportSteps[8] = "themes"
      /\ ExportSteps[9] = "watched_words" /\ ExportSteps[10] = "nav_items"
      /\ ExportSteps[11] = "permissions"
  BY DEF ExportSteps
<1>3. \A i \in 1 .. 11 : i \in {1, 2, 3, 4, 5, 6, 7, 8, 9, 10, 11}
  OBVIOUS
<1>4. ASSUME NEW i \in 1 .. 11, NEW j \in 1 .. 11, ExportSteps[i] = ExportSteps[j] PROVE i = j
  BY <1>2, <1>3, <1>4
<1>5. Done(1) = {}
  BY DEF Done
<1>6. ASSUME NEW n \in 1 .. 11
      PROVE  Done(n + 1) = Done(n) \union {ExportSteps[n]} /\ ExportSteps[n] \notin Done(n)
  <2>1. 1 .. (n + 1) - 1 = (1 .. n - 1) \union {n} /\ n \notin 1 .. n - 1 /\ 1 .. n - 1 \subseteq 1 .. 11
    OBVIOUS
  <2> HIDE DEF ExportSteps
  <2>2. Done(n + 1) = Done(n) \union {ExportSteps[n]}
    BY <2>1 DEF Done
  <2>3. ExportSteps[n] \notin Done(n)
    BY <1>4, <2>1 DEF Done
  <2> QED BY <2>2, <2>3
<1>7. Done(12) = Range(ExportSteps)
  <2>1. 1 .. 12 - 1 = DOMAIN ExportSteps
    BY <1>1
  <2> QED BY <2>1 DEF Done, Range
<1> QED BY <1>1, <1>2, <1>4, <1>5, <1>6, <1>7

LEMMA SectionsAre ==
    Range(ExportSteps) =
      Lists \union {"groups", "categories", "tag_groups", "site_settings", "watched_words", "permissions"}
BY DEF ExportSteps, Range, Lists

\* A beginning of a sequence and what follows it there.
LEMMA Continued ==
    ASSUME NEW T, NEW m \in Nat, NEW len \in Nat, NEW A, NEW s, s \in [1 .. m -> T], NEW b, b \in [1 .. len -> T],
           \A n \in 1 .. m : s[n] = A[n], \A n \in 1 .. len : b[n] = A[m + n]
    PROVE  Len(b) = len /\ s \o b = [n \in 1 .. m + len |-> A[n]]
<1>1. s \in Seq(T) /\ Len(s) = m /\ b \in Seq(T) /\ Len(b) = len
  OBVIOUS
<1> DEFINE u == s \o b
<1>2. /\ DOMAIN u = 1 .. Len(s) + Len(b) /\ u = [n \in DOMAIN u |-> u[n]]
      /\ \A n \in 1 .. Len(s) : u[n] = s[n]
      /\ \A n \in 1 .. Len(b) : u[Len(s) + n] = b[n]
  <2>1. s \in Seq(T) /\ b \in Seq(T) /\ Len(s) \in Nat /\ Len(b) \in Nat
    BY <1>1
  <2>2. DOMAIN u = 1 .. Len(s) + Len(b)
    BY ONLY <2>1
  <2>3. u = [n \in DOMAIN u |-> u[n]]
    <3>1. u \in Seq(T)
      BY <2>1
    <3> HIDE DEF u
    <3>2. u \in [1 .. Len(u) -> T]
      BY <3>1
    <3> QED BY <3>2
  <2>4. \A n \in 1 .. Len(s) : u[n] = s[n]
    BY ONLY <2>1
  <2>5. \A n \in 1 .. Len(b) : u[Len(s) + n] = b[n]
    BY ONLY <2>1
  <2> QED BY <2>2, <2>3, <2>4, <2>5
<1>3. /\ DOMAIN u = 1 .. m + len /\ u = [n \in DOMAIN u |-> u[n]]
      /\ \A n \in 1 .. m : u[n] = A[n]
      /\ \A n \in 1 .. len : u[m + n] = A[m + n]
  BY <1>1, <1>2
<1> HIDE DEF u
<1>4. ASSUME NEW n \in 1 .. m + len PROVE u[n] = A[n]
  <2>1. CASE n <= m
    BY <1>3, <2>1
  <2>2. CASE n > m
    <3>1. n - m \in 1 .. len /\ m + (n - m) = n
      BY <2>2
    <3> QED BY <1>3, <3>1
  <2> QED BY <2>1, <2>2
<1>5. u = [n \in 1 .. m + len |-> A[n]]
  BY <1>3, <1>4
<1> QED BY <1>1, <1>5 DEF u

\* The first pages of a sequence, and what the next page adds to them.
FirstPages(A, p) == [n \in 1 .. p * GroupsPage |-> A[n]]

LEMMA PageJoins ==
    ASSUME NEW T, NEW A \in Seq(T), NEW p \in Nat, p * GroupsPage <= Len(A)
    PROVE  /\ Len(Page(A, p)) < GroupsPage => FirstPages(A, p) \o Page(A, p) = A
           /\ ~ (Len(Page(A, p)) < GroupsPage) =>
                /\ FirstPages(A, p) \o Page(A, p) = FirstPages(A, p + 1)
                /\ (p + 1) * GroupsPage <= Len(A)
<1> DEFINE s == FirstPages(A, p)
           g == GroupsPage
           m == p * GroupsPage
           L == Len(A)
           len == IF L - m < g THEN L - m ELSE g
           b == Page(A, p)
<1>1. g \in Nat \ {0} /\ Len(A) \in Nat /\ A \in [1 .. Len(A) -> T]
  BY ReportAssumption
<1>2. m \in Nat /\ m <= Len(A)
  BY <1>1
<1>2a. (p + 1) * GroupsPage = m + g
  BY <1>1
<1>3. b = [n \in 1 .. len |-> A[m + n]]
  BY DEF Page
<1>4. s = [n \in 1 .. m |-> A[n]]
  BY DEF FirstPages
<1> HIDE DEF g, m, b, L, s
<1>5. /\ len \in Nat /\ m + len <= L
      /\ len < g => m + len = L
      /\ ~ (len < g) => len = g
  <2>1. L \in Nat /\ m \in Nat /\ g \in Nat /\ m <= L
    BY <1>1, <1>2 DEF L
  <2> QED BY ONLY <2>1 DEF len
<1> HIDE DEF len
<1>6. s \in [1 .. m -> T]
  BY ONLY <1>1, <1>2, <1>4
<1>7. b \in [1 .. len -> T]
  <2>1. ASSUME NEW n \in 1 .. len PROVE m + n \in 1 .. Len(A)
    <3>1. L \in Nat /\ m \in Nat
      BY <1>1, <1>2 DEF L
    <3>2. m + n \in 1 .. L
      BY <1>5, <3>1
    <3> QED BY <3>2 DEF L
  <2> QED BY ONLY <1>1, <1>3, <2>1
<1>8. Len(b) = len /\ s \o b = [n \in 1 .. m + len |-> A[n]]
  BY ONLY <1>2, <1>3, <1>4, <1>5, <1>6, <1>7, Continued
<1>9. ASSUME len < g PROVE s \o b = A
  <2>1. m + len = Len(A)
    BY <1>5, <1>9 DEF L
  <2> QED BY ONLY <1>1, <1>8, <2>1
<1>10. ASSUME ~ (len < g)
       PROVE  s \o b = FirstPages(A, p + 1) /\ (p + 1) * GroupsPage <= Len(A)
  BY ONLY <1>2, <1>2a, <1>5, <1>8, <1>10 DEF L, FirstPages
<1>11. (Len(b) < GroupsPage) <=> (len < g)
  BY ONLY <1>8 DEF g
<1> QED BY ONLY <1>9, <1>10, <1>11 DEF b, s

\* The permissions, merged into the rows of the categories.
LEMMA MergedIs ==
    ASSUME NEW cats PROVE Merged(FlatWith(cats, FALSE), cats) = FlatWith(cats, TRUE)
<1> DEFINE row(c, a) == [id |-> c, parent |-> cats[c].parent, restricted |-> cats[c].restricted,
                         allowed |-> a]
           rows == {row(c, {}) : c \in There(cats)}
<1>1. FlatWith(cats, FALSE) = rows
  BY DEF FlatWith
<1>2. FlatWith(cats, TRUE) = {row(c, cats[c].allowed) : c \in There(cats)}
  BY DEF FlatWith
<1>3. \A c \in There(cats) : [row(c, {}) EXCEPT !.allowed = cats[c].allowed] = row(c, cats[c].allowed)
  OBVIOUS
<1>4. \A c \in There(cats) : row(c, {}).id = c
  OBVIOUS
<1> DEFINE with(r) == [r EXCEPT !.allowed = IF r.id \in There(cats) THEN cats[r.id].allowed ELSE {}]
<1>5. \A c \in There(cats) : with(row(c, {})) = row(c, cats[c].allowed)
  BY <1>3, <1>4
<1>6. Merged(rows, cats) = {with(r) : r \in rows}
  BY DEF Merged
<1> HIDE DEF row, with
<1>7. {with(r) : r \in rows} = {row(c, cats[c].allowed) : c \in There(cats)}
  BY <1>5
<1> QED BY <1>1, <1>2, <1>6, <1>7

(* The rows of a section as the forum has them, of the categories with      *)
(* their permissions or without.                                            *)
Rows(site, k, known) ==
    IF k = "groups" THEN InOrder(site.groups)
    ELSE IF k = "categories" THEN FlatWith(site.categories, known)
    ELSE site[k]

KnownTo(r) == r.at = 12 /\ "permissions" \notin r.failed

GroupPagesRead(r, site) ==
    /\ r.groups = FirstPages(InOrder(site.groups), r.page)
    /\ r.page * GroupsPage <= Cardinality(site.groups)

(* A run has the rows of each section it has done, and of the groups those  *)
(* of the pages it has read, as the forum has them; of a section that       *)
(* failed it has nothing.                                                   *)
Gathers(r, site) ==
    /\ DOMAIN r = {"at", "page", "groups", "data", "failed", "moved"}
    /\ r.at \in 1 .. 12 /\ r.page \in Nat
    /\ DOMAIN r.data = Done(r.at) \ {"permissions"}
    /\ r.failed \subseteq Done(r.at)
    /\ r.at = 1 /\ "groups" \notin r.moved => GroupPagesRead(r, site)
    /\ \A k \in DOMAIN r.data \ (r.failed \union r.moved) :
         k # "watched_words" => r.data[k] = Rows(site, k, KnownTo(r))
    /\ \A k \in r.failed \intersect Lists : r.data[k] = {}

DocumentFields == {"groups", "categories", "tag_groups", "settings", "lists", "failed", "moved"}

ReportInv ==
    /\ SiteOK(forumSite)
    /\ export # NoReport => Gathers(export, forumSite)
    /\ document # NoReport => DOMAIN document = DocumentFields
    /\ ReportTells

-----------------------------------------------------------------------------
(* The steps *)

\* What was gathered before the forum changed is marked.
LEMMA GathersMoved ==
    ASSUME NEW old, NEW site, SiteOK(old), SiteOK(site), NEW K, K = {k \in DOMAIN site : site[k] # old[k]},
           NEW r, Gathers(r, old), NEW q, q = [r EXCEPT !.moved = @ \union K]
    PROVE  Gathers(q, site)
<1>1. DOMAIN site = DOMAIN old
      /\ DOMAIN old = Lists \union {"groups", "categories", "tag_groups", "site_settings"}
  BY DEF SiteOK
<1>2. \A k \in DOMAIN old \ K : site[k] = old[k]
  BY <1>1
<1>3. DOMAIN r = {"at", "page", "groups", "data", "failed", "moved"}
  BY DEF Gathers
<1>4. /\ DOMAIN q = DOMAIN r /\ q.at = r.at /\ q.page = r.page /\ q.groups = r.groups
      /\ q.data = r.data /\ q.failed = r.failed /\ q.moved = r.moved \union K
  BY <1>3
<1>5. ASSUME q.at = 1, "groups" \notin q.moved PROVE GroupPagesRead(q, site)
  <2>1. site.groups = old.groups
    BY <1>1, <1>2, <1>4, <1>5
  <2>2. GroupPagesRead(r, old)
    BY <1>4, <1>5 DEF Gathers
  <2> QED BY <1>4, <2>1, <2>2 DEF GroupPagesRead
<1>6. ASSUME NEW k \in DOMAIN q.data \ (q.failed \union q.moved), k # "watched_words"
      PROVE  q.data[k] = Rows(site, k, KnownTo(q))
  <2>1. k \in DOMAIN r.data \ (r.failed \union r.moved) /\ k \notin K
    BY <1>4, <1>6
  <2>2. r.data[k] = Rows(old, k, KnownTo(r))
    BY <1>6, <2>1 DEF Gathers
  <2>3. KnownTo(q) = KnownTo(r)
    BY <1>4 DEF KnownTo
  <2>4. k \in DOMAIN old
    <3>1. k \in Done(r.at) \ {"permissions"} /\ r.at \in 1 .. 12
      BY <2>1 DEF Gathers
    <3>2. k \in Range(ExportSteps) \ {"permissions", "watched_words"}
      <4>1. PICK i \in 1 .. 11 : k = ExportSteps[i]
        BY <3>1 DEF Done
      <4> QED BY <1>6, <3>1, <4>1, StepsAre DEF Range
    <3>3. Range(ExportSteps) \subseteq DOMAIN old \union {"permissions", "watched_words"}
      BY <1>1, SectionsAre
    <3> QED BY <3>2, <3>3
  <2>5. site[k] = old[k]
    BY <1>2, <2>1, <2>4
  <2> QED BY <1>4, <2>2, <2>3, <2>5 DEF Rows
<1>7. \A k \in q.failed \intersect Lists : q.data[k] = {}
  BY <1>4 DEF Gathers
<1> QED BY <1>3, <1>4, <1>5, <1>6, <1>7 DEF Gathers

LEMMA SiteChanges ==
    ASSUME ReportInv, NEW site \in Sites, ChangeSite(site)
    PROVE  ReportInv'
<1> DEFINE K == {k \in DOMAIN site : site[k] # forumSite[k]}
<1>1. SiteOK(forumSite) /\ SiteOK(site) /\ forumSite' = site
  BY SitesAssumption DEF ReportInv, ChangeSite
<1>2. DOMAIN site = DOMAIN forumSite
      /\ DOMAIN forumSite = Lists \union {"groups", "categories", "tag_groups", "site_settings"}
  BY <1>1 DEF SiteOK
<1>3. \A k \in DOMAIN forumSite \ K : site[k] = forumSite[k]
  BY <1>2
<1>4. export' = Moved(export, K) /\ document' = Moved(document, K)
  BY DEF ChangeSite
<1>5. ASSUME export' # NoReport PROVE Gathers(export', site)
  <2> DEFINE q == [export EXCEPT !.moved = @ \union K]
  <2>1. Gathers(export, forumSite) /\ export' = q
    BY <1>4, <1>5 DEF ReportInv, Moved
  <2> QED BY ZenonT(30), <1>1, <2>1, GathersMoved
<1> HIDE DEF K
<1>6. ASSUME document' # NoReport
      PROVE  DOMAIN document' = DocumentFields /\ ReportTells'
  <2>1. /\ document # NoReport /\ document' = [document EXCEPT !.moved = @ \union K]
        /\ DOMAIN document = DocumentFields /\ ReportTells
    BY <1>4, <1>6 DEF ReportInv, Moved
  <2>2. /\ DOMAIN document' = DocumentFields
        /\ document'.groups = document.groups /\ document'.categories = document.categories
        /\ document'.tag_groups = document.tag_groups /\ document'.settings = document.settings
        /\ document'.lists = document.lists /\ document'.failed = document.failed
        /\ document'.moved = document.moved \union K
    BY <2>1 DEF DocumentFields
  <2>3. ASSUME NEW k \in DOMAIN forumSite, Told(k)' PROVE Told(k) /\ site[k] = forumSite[k]
    BY <1>3, <2>2, <2>3 DEF Told
  <2>4. Told("groups")' => Told("groups") /\ site.groups = forumSite.groups
    BY <1>2, <2>3
  <2>5. Told("categories")' => Told("categories") /\ site.categories = forumSite.categories
    BY <1>2, <2>3
  <2>6. Told("tag_groups")' => Told("tag_groups") /\ site.tag_groups = forumSite.tag_groups
    BY <1>2, <2>3
  <2>7. Told("site_settings")' => Told("site_settings") /\ site.site_settings = forumSite.site_settings
    BY <1>2, <2>3
  <2>8. \A k \in Lists : Told(k)' => Told(k) /\ site[k] = forumSite[k]
    BY <1>2, <2>3
  <2>9. ASSUME Told("categories")' PROVE CategoriesTold'
    <3>1. CategoriesTold
      BY <2>1, <2>5, <2>9 DEF ReportTells
    <3> QED BY <1>1, <2>2, <2>5, <2>9, <3>1, ToldAs
  <2>10. ASSUME Told("groups")'
         PROVE  /\ document'.groups.custom = InOrder(forumSite'.groups \ SystemGroups)
                /\ document'.groups.system = InOrder(forumSite'.groups \intersect SystemGroups)
    BY <1>1, <2>1, <2>2, <2>4, <2>10 DEF ReportTells
  <2>11. ASSUME Told("tag_groups")'
         PROVE  /\ {t.num : t \in document'.tag_groups} = {t.num : t \in forumSite'.tag_groups}
                /\ Told("groups")' => \A t \in document'.tag_groups : t.bare \intersect forumSite'.groups = {}
    BY <1>1, <2>1, <2>2, <2>4, <2>6, <2>11 DEF ReportTells
  <2>12. ASSUME Told("site_settings")'
         PROVE  /\ IsInjective(document'.settings)
                /\ Range(document'.settings) = forumSite'.site_settings \intersect (Range(OfInterest) \union Connecting)
    BY <1>1, <2>1, <2>2, <2>7, <2>12 DEF ReportTells
  <2>13. ASSUME NEW k \in Lists
         PROVE  /\ Told(k)' => Range(document'.lists[k]) =
                     {x.num : x \in IF k = "badges" THEN Marked(forumSite'[k]) ELSE forumSite'[k]}
                /\ k \in document'.failed => document'.lists[k] = <<>>
    BY <1>1, <2>1, <2>2, <2>8 DEF ReportTells
  <2>14. ReportTells'
    BY <2>9, <2>10, <2>11, <2>12, <2>13 DEF ReportTells
  <2> QED BY <2>2, <2>14
<1>7. document' = NoReport => ReportTells'
  BY DEF ReportTells
<1> QED BY <1>1, <1>5, <1>6, <1>7 DEF ReportInv

\* Rows of categories without their permissions, the others as they are.
LEMMA RowsWithout ==
    ASSUME NEW site, NEW j, NEW r, ~ KnownTo(r)
    PROVE  Rows(site, j, KnownTo(r)) = Rows(site, j, FALSE)
<1> DEFINE known == KnownTo(r)
<1>1. \A c : (IF known THEN site.categories[c].allowed ELSE {}) = {}
  OBVIOUS
<1> HIDE DEF known
<1>2. FlatWith(site.categories, known) = FlatWith(site.categories, FALSE)
  BY <1>1 DEF FlatWith
<1> QED BY <1>2 DEF Rows, known

WithRows(data, k, rows) == [j \in DOMAIN data \union {k} |-> IF j = k THEN rows ELSE data[j]]

\* A section is done: fetched, or failed and empty.
LEMMA SectionDone ==
    ASSUME ReportInv, NEW k, AtSection(k), k # "permissions", NEW rows, NEW q,
           DOMAIN q = DOMAIN export, q.at = export.at + 1, q.page = export.page,
           q.data = WithRows(export.data, k, rows),
           q.failed \in {export.failed, export.failed \union {k}}, q.moved = export.moved,
           k \notin q.failed \union q.moved /\ k # "watched_words" => rows = Rows(forumSite, k, FALSE),
           k \in q.failed \intersect Lists => rows = {}
    PROVE  Gathers(q, forumSite)
<1> DEFINE r == export
<1>1. Gathers(r, forumSite) /\ r.at <= 11 /\ ExportSteps[r.at] = k
  BY StepsAre DEF ReportInv, AtSection
<1>2. /\ DOMAIN r = {"at", "page", "groups", "data", "failed", "moved"}
      /\ r.at \in 1 .. 12 /\ r.page \in Nat
      /\ DOMAIN r.data = Done(r.at) \ {"permissions"} /\ r.failed \subseteq Done(r.at)
      /\ \A j \in DOMAIN r.data \ (r.failed \union r.moved) :
           j # "watched_words" => r.data[j] = Rows(forumSite, j, KnownTo(r))
      /\ \A j \in r.failed \intersect Lists : r.data[j] = {}
  BY <1>1 DEF Gathers
<1> HIDE DEF r
<1>d. /\ DOMAIN q.data = DOMAIN r.data \union {k}
      /\ \A j \in DOMAIN q.data : q.data[j] = IF j = k THEN rows ELSE r.data[j]
  BY DEF WithRows, r
<1>3. r.at \in 1 .. 11
  BY <1>1, <1>2
<1>4. r.at # 11
  BY <1>1, <1>3, StepsAre
<1>5. q.at \in 2 .. 11 /\ ~ KnownTo(q) /\ ~ KnownTo(r)
  BY <1>3, <1>4 DEF KnownTo, r
<1>6. Done(q.at) = Done(r.at) \union {k} /\ k \notin Done(r.at)
  BY <1>1, <1>3, StepsAre DEF r
<1>7. DOMAIN q.data = Done(q.at) \ {"permissions"}
  BY <1>2, <1>6, <1>d
<1>8. q.failed \subseteq Done(q.at)
  BY <1>2, <1>6 DEF r
<1>9. ASSUME NEW j \in DOMAIN q.data \ (q.failed \union q.moved), j # "watched_words"
      PROVE  q.data[j] = Rows(forumSite, j, KnownTo(q))
  <2>1. Rows(forumSite, j, KnownTo(q)) = Rows(forumSite, j, FALSE)
    BY <1>5, RowsWithout
  <2>2. Rows(forumSite, j, KnownTo(r)) = Rows(forumSite, j, FALSE)
    BY <1>5, RowsWithout
  <2>3. CASE j = k
    <3>1. k \notin q.failed \union q.moved /\ q.data[j] = rows
      BY <1>9, <1>d, <2>3
    <3> QED BY <1>9, <2>1, <2>3, <3>1
  <2>4. CASE j # k
    <3>1. j \in DOMAIN r.data \ (r.failed \union r.moved) /\ q.data[j] = r.data[j]
      BY <1>9, <1>d, <2>4 DEF r
    <3> QED BY <1>2, <1>9, <2>1, <2>2, <3>1
  <2> QED BY <2>3, <2>4
<1>10. ASSUME NEW j \in q.failed \intersect Lists PROVE q.data[j] = {}
  <2>1. CASE j = k
    <3>1. q.data[j] = rows
      BY <1>d, <2>1
    <3> QED BY <1>10, <2>1, <3>1
  <2>2. CASE j # k
    <3>1. j \in r.failed \intersect Lists
      BY <1>10, <2>2 DEF r
    <3>2. j \in DOMAIN r.data
      BY <1>2, <3>1 DEF Lists
    <3> QED BY <1>2, <1>d, <2>2, <3>1, <3>2
  <2> QED BY <2>1, <2>2
<1>11. /\ DOMAIN q = {"at", "page", "groups", "data", "failed", "moved"}
       /\ q.at \in 1 .. 12 /\ q.at # 1 /\ q.page \in Nat
  BY <1>2, <1>5 DEF r
<1> QED BY <1>7, <1>8, <1>9, <1>10, <1>11 DEF Gathers

\* The fields of a run after a section.
LEMMA GotIs ==
    ASSUME NEW r, r = export, DOMAIN r = {"at", "page", "groups", "data", "failed", "moved"},
           NEW k, NEW rows, NEW q, q = Got(k, rows)
    PROVE  /\ DOMAIN q = DOMAIN r /\ q.at = r.at + 1 /\ q.page = r.page
           /\ q.data = WithRows(r.data, k, rows)
           /\ q.failed = r.failed /\ q.moved = r.moved
BY DEF Got, WithRows

\* The section at hand has not failed.
LEMMA AtIsNew ==
    ASSUME Gathers(export, forumSite), NEW k, AtSection(k)
    PROVE  k \notin export.failed
<1>1. export.at \in 1 .. 11 /\ ExportSteps[export.at] = k
  BY StepsAre DEF Gathers, AtSection
<1> QED BY <1>1, StepsAre DEF Gathers

LEMMA StartGathers ==
    ASSUME ReportInv, StartExport
    PROVE  Gathers(export', forumSite)
<1> DEFINE q == [at |-> 1, page |-> 0, groups |-> <<>>, data |-> <<>>, failed |-> {}, moved |-> {}]
           A == InOrder(forumSite.groups)
           n == Cardinality(forumSite.groups)
<1>1. export' = q
  BY DEF StartExport
<1>2. /\ DOMAIN q = {"at", "page", "groups", "data", "failed", "moved"}
      /\ q.at = 1 /\ q.page = 0 /\ q.groups = <<>> /\ q.data = <<>> /\ q.failed = {} /\ q.moved = {}
  OBVIOUS
<1> HIDE DEF q
<1>3. IsFiniteSet(forumSite.groups)
  BY ReportAssumption, FS_Subset DEF ReportInv, SiteOK
<1>4. n \in Nat
  BY <1>3, FS_CardinalityType
<1> HIDE DEF n, A
<1>5. q.page * GroupsPage = 0
  BY <1>2, ReportAssumption
<1>6. q.groups = FirstPages(A, q.page)
  BY <1>2, <1>5 DEF FirstPages
<1>7. GroupPagesRead(q, forumSite)
  BY <1>4, <1>5, <1>6 DEF GroupPagesRead, A, n
<1>8. DOMAIN q.data = {} /\ Done(1) = {}
  BY <1>2, StepsAre
<1> QED BY <1>1, <1>2, <1>7, <1>8 DEF Gathers

LEMMA GroupsGather ==
    ASSUME ReportInv, FetchGroups
    PROVE  Gathers(export', forumSite)
<1> DEFINE r == export
           A == InOrder(forumSite.groups)
           batch == Page(A, r.page)
           got == r.groups \o batch
<1>1. Gathers(r, forumSite) /\ AtSection("groups") /\ export # NoReport
  BY DEF ReportInv, FetchGroups, AtSection
<1>2. /\ DOMAIN r = {"at", "page", "groups", "data", "failed", "moved"}
      /\ r.at \in 1 .. 12 /\ r.page \in Nat
  BY <1>1 DEF Gathers
<1>3. r.at = 1
  BY <1>1, <1>2, StepsAre DEF AtSection
<1>4. forumSite.groups \subseteq GroupIds /\ IsFiniteSet(forumSite.groups) /\ forumSite.groups \subseteq Int
  <2>1. forumSite.groups \subseteq GroupIds
    BY DEF ReportInv, SiteOK
  <2>2. GroupIds \subseteq Int /\ IsFiniteSet(GroupIds)
    BY ReportAssumption
  <2>3. IsFiniteSet(forumSite.groups)
    BY <2>1, <2>2, FS_Subset
  <2> QED BY <2>1, <2>2, <2>3
<1>5. A \in Seq(forumSite.groups) /\ Len(A) = Cardinality(forumSite.groups)
  <2>1. A \in Seq(forumSite.groups)
    BY <1>4, InOrderIs
  <2>2. Cardinality(forumSite.groups) \in Nat /\ DOMAIN A = 1 .. Cardinality(forumSite.groups)
    BY <1>4, InOrderIs
  <2> HIDE DEF A
  <2> QED BY <2>1, <2>2
<1>6. export' = IF Len(batch) < GroupsPage THEN Got("groups", got)
                ELSE [export EXCEPT !.groups = got, !.page = @ + 1]
  BY DEF FetchGroups
<1> HIDE DEF A
<1>7. ASSUME "groups" \notin r.moved
      PROVE  /\ Len(batch) < GroupsPage => got = A
             /\ ~ (Len(batch) < GroupsPage) => /\ got = FirstPages(A, r.page + 1)
                                               /\ (r.page + 1) * GroupsPage <= Len(A)
  <2>1. r.groups = FirstPages(A, r.page) /\ r.page * GroupsPage <= Len(A)
    BY <1>1, <1>3, <1>5, <1>7 DEF Gathers, GroupPagesRead, A
  <2> DEFINE p == r.page
             s == r.groups
  <2>2. p \in Nat /\ p * GroupsPage <= Len(A) /\ s = FirstPages(A, p)
    BY <1>2, <2>1
  <2>3. batch = Page(A, p) /\ got = s \o Page(A, p)
    OBVIOUS
  <2> HIDE DEF batch, got, p, s
  <2>4. /\ Len(Page(A, p)) < GroupsPage => FirstPages(A, p) \o Page(A, p) = A
        /\ ~ (Len(Page(A, p)) < GroupsPage) =>
             /\ FirstPages(A, p) \o Page(A, p) = FirstPages(A, p + 1)
             /\ (p + 1) * GroupsPage <= Len(A)
    BY ONLY <1>5, <2>2, PageJoins
  <2> QED BY <2>2, <2>3, <2>4 DEF p
<1> HIDE DEF batch, got
<1>8. CASE Len(batch) < GroupsPage
  <2>1. export' = Got("groups", got)
    BY <1>6, <1>8
  <2>2. /\ DOMAIN export' = DOMAIN export /\ export'.at = export.at + 1 /\ export'.page = export.page
        /\ export'.data = WithRows(export.data, "groups", got)
        /\ export'.failed = export.failed /\ export'.moved = export.moved
    BY <1>2, <2>1, GotIs
  <2>f. "groups" \notin export.failed
    BY <1>1, AtIsNew
  <2>3. "groups" \notin export.moved => got = Rows(forumSite, "groups", FALSE)
    BY <1>7, <1>8 DEF Rows, A
  <2>4. /\ export'.failed \in {export.failed, export.failed \union {"groups"}}
        /\ "groups" \notin export'.failed \union export'.moved /\ "groups" # "watched_words" =>
             got = Rows(forumSite, "groups", FALSE)
        /\ "groups" \in export'.failed \intersect Lists => got = {}
    BY <2>2, <2>f, <2>3
  <2> QED BY ONLY ReportInv, <1>1, <2>2, <2>4, SectionDone
<1>9. CASE ~ (Len(batch) < GroupsPage)
  <2> DEFINE q == [r EXCEPT !.groups = got, !.page = @ + 1]
  <2>1. export' = q
    BY <1>6, <1>9
  <2>2. /\ DOMAIN q = DOMAIN r /\ q.at = r.at /\ q.page = r.page + 1 /\ q.groups = got
        /\ q.data = r.data /\ q.failed = r.failed /\ q.moved = r.moved
    BY <1>2
  <2> HIDE DEF q
  <2>3. "groups" \notin q.moved => GroupPagesRead(q, forumSite)
    BY <1>5, <1>7, <1>9, <2>2 DEF GroupPagesRead, A
  <2>4. KnownTo(q) = KnownTo(r) /\ q.page \in Nat
    BY <1>2, <2>2 DEF KnownTo
  <2>5. Gathers(q, forumSite)
    BY <1>1, <2>2, <2>3, <2>4 DEF Gathers
  <2> QED BY <2>1, <2>5
<1> QED BY <1>8, <1>9

LEMMA SectionGathers ==
    ASSUME ReportInv, NEW k, FetchSection(k) \/ FailSection(k)
    PROVE  Gathers(export', forumSite)
<1>1. Gathers(export, forumSite) /\ AtSection(k) /\ k # "permissions" /\ export # NoReport
  BY DEF ReportInv, FetchSection, FailSection, AtSection
<1>2. DOMAIN export = {"at", "page", "groups", "data", "failed", "moved"}
  BY <1>1 DEF Gathers
<1>3. CASE FetchSection(k)
  <2> DEFINE rows == IF k = "categories" THEN Flat(forumSite.categories)
                     ELSE IF k = "watched_words" THEN {"actions", "words"}
                     ELSE forumSite[k]
  <2>1. export' = Got(k, rows) /\ k # "groups"
    BY <1>3 DEF FetchSection
  <2>2. k # "watched_words" => rows = Rows(forumSite, k, FALSE)
    BY <2>1 DEF Rows, Flat, FlatWith
  <2> HIDE DEF rows
  <2>f. k \notin export.failed
    BY <1>1, AtIsNew
  <2>3. /\ DOMAIN export' = DOMAIN export /\ export'.at = export.at + 1 /\ export'.page = export.page
        /\ export'.data = WithRows(export.data, k, rows)
        /\ export'.failed = export.failed /\ export'.moved = export.moved
    BY <1>2, <2>1, GotIs
  <2>4. /\ export'.failed \in {export.failed, export.failed \union {k}}
        /\ k \notin export'.failed \union export'.moved /\ k # "watched_words" =>
             rows = Rows(forumSite, k, FALSE)
        /\ k \in export'.failed \intersect Lists => rows = {}
    BY <2>2, <2>3, <2>f
  <2> QED BY ONLY ReportInv, <1>1, <2>3, <2>4, SectionDone
<1>4. CASE FailSection(k)
  <2> DEFINE rows == IF k = "groups" THEN <<>> ELSE {}
             g == Got(k, rows)
  <2>1. export' = [g EXCEPT !.failed = @ \union {k}]
    BY <1>4 DEF FailSection
  <2>2. k \in Lists => rows = {}
    BY DEF Lists
  <2> HIDE DEF rows
  <2>3. /\ DOMAIN g = DOMAIN export /\ g.at = export.at + 1 /\ g.page = export.page
        /\ g.data = WithRows(export.data, k, rows)
        /\ g.failed = export.failed /\ g.moved = export.moved
    BY <1>2, GotIs
  <2> HIDE DEF g
  <2>4. /\ DOMAIN export' = DOMAIN export /\ export'.at = export.at + 1 /\ export'.page = export.page
        /\ export'.data = WithRows(export.data, k, rows)
        /\ export'.failed = export.failed \union {k} /\ export'.moved = export.moved
    BY <1>2, <2>1, <2>3
  <2>5. /\ export'.failed \in {export.failed, export.failed \union {k}}
        /\ k \notin export'.failed \union export'.moved /\ k # "watched_words" =>
             rows = Rows(forumSite, k, FALSE)
        /\ k \in export'.failed \intersect Lists => rows = {}
    BY <2>2, <2>4
  <2> QED BY ONLY ReportInv, <1>1, <2>4, <2>5, SectionDone
<1> QED BY <1>3, <1>4

LEMMA PermissionsGather ==
    ASSUME ReportInv, NEW answered \in BOOLEAN, FetchPermissions(answered)
    PROVE  Gathers(export', forumSite)
<1> DEFINE r == export
<1>1. Gathers(r, forumSite) /\ AtSection("permissions") /\ export # NoReport
  BY DEF ReportInv, FetchPermissions, AtSection
<1>2. /\ DOMAIN r = {"at", "page", "groups", "data", "failed", "moved"}
      /\ r.at \in 1 .. 12 /\ r.page \in Nat
      /\ DOMAIN r.data = Done(r.at) \ {"permissions"} /\ r.failed \subseteq Done(r.at)
      /\ \A j \in DOMAIN r.data \ (r.failed \union r.moved) :
           j # "watched_words" => r.data[j] = Rows(forumSite, j, KnownTo(r))
      /\ \A j \in r.failed \intersect Lists : r.data[j] = {}
  BY <1>1 DEF Gathers
<1>3. r.at = 11
  BY <1>1, <1>2, StepsAre DEF AtSection
<1>4. Done(12) = Done(11) \union {"permissions"} /\ "permissions" \notin Done(11) /\ "categories" \in Done(11)
  <2>1. /\ Done(11 + 1) = Done(11) \union {ExportSteps[11]} /\ ExportSteps[11] \notin Done(11)
        /\ ExportSteps[11] = "permissions"
    BY StepsAre
  <2>2. "categories" \in Done(11)
    BY StepsAre DEF Done
  <2> QED BY <2>1, <2>2
<1>5. ~ KnownTo(r) /\ "permissions" \notin r.failed /\ "categories" \in DOMAIN r.data
  BY <1>2, <1>3, <1>4 DEF KnownTo
<1>6. \A j \in DOMAIN r.data \ (r.failed \union r.moved) :
        j # "watched_words" => r.data[j] = Rows(forumSite, j, FALSE)
  BY <1>2, <1>5, RowsWithout
<1>8. CASE withQuery /\ answered
  <2> DEFINE cats == Merged(r.data["categories"], forumSite.categories)
             q == [r EXCEPT !.at = @ + 1, !.data = [@ EXCEPT !["categories"] = cats]]
  <2>1. export' = q
    BY <1>8 DEF FetchPermissions
  <2>2. /\ DOMAIN q = DOMAIN r /\ q.at = 12 /\ q.page = r.page /\ q.groups = r.groups
        /\ q.data = [r.data EXCEPT !["categories"] = cats] /\ q.failed = r.failed /\ q.moved = r.moved
    BY <1>2, <1>3
  <2>3. "categories" \notin r.failed \union r.moved => cats = FlatWith(forumSite.categories, TRUE)
    <3>1. SUFFICES ASSUME "categories" \notin r.failed \union r.moved
                   PROVE  cats = FlatWith(forumSite.categories, TRUE)
      OBVIOUS
    <3>2. r.data["categories"] = FlatWith(forumSite.categories, FALSE)
      BY <1>5, <1>6, <3>1 DEF Rows
    <3> QED BY <3>2, MergedIs
  <2> HIDE DEF q, cats
  <2>4. DOMAIN q.data = DOMAIN r.data /\ q.data["categories"] = cats
        /\ \A j \in DOMAIN r.data \ {"categories"} : q.data[j] = r.data[j]
    BY <1>5, <2>2
  <2>5. KnownTo(q)
    BY <1>5, <2>2 DEF KnownTo
  <2>6. ASSUME NEW j \in DOMAIN q.data \ (q.failed \union q.moved), j # "watched_words"
        PROVE  q.data[j] = Rows(forumSite, j, KnownTo(q))
    <3>1. CASE j = "categories"
      <4>1. Rows(forumSite, j, KnownTo(q)) = FlatWith(forumSite.categories, TRUE)
        BY <2>5, <3>1 DEF Rows, FlatWith
      <4> QED BY <2>2, <2>3, <2>4, <2>6, <3>1, <4>1
    <3>2. CASE j # "categories"
      <4>1. Rows(forumSite, j, KnownTo(q)) = Rows(forumSite, j, FALSE)
        BY <3>2 DEF Rows
      <4> QED BY <1>6, <2>2, <2>4, <2>6, <3>2, <4>1
    <3> QED BY <3>1, <3>2
  <2>7. DOMAIN q.data = Done(q.at) \ {"permissions"} /\ q.failed \subseteq Done(q.at)
    BY <1>2, <1>3, <1>4, <2>2, <2>4
  <2>8. ASSUME NEW j \in q.failed \intersect Lists PROVE q.data[j] = {}
    <3>1. j \in DOMAIN r.data \ {"categories"}
      BY <1>2, <2>2, <2>8 DEF Lists
    <3> QED BY <1>2, <2>2, <2>4, <2>8, <3>1
  <2>9. Gathers(q, forumSite)
    BY <1>2, <2>2, <2>6, <2>7, <2>8 DEF Gathers
  <2> QED BY <2>1, <2>9
<1>9. CASE ~ (withQuery /\ answered)
  <2> DEFINE q == [r EXCEPT !.at = @ + 1, !.failed = @ \union {"permissions"}]
  <2>1. export' = q
    BY <1>9 DEF FetchPermissions
  <2>2. /\ DOMAIN q = DOMAIN r /\ q.at = 12 /\ q.page = r.page /\ q.groups = r.groups
        /\ q.data = r.data /\ q.failed = r.failed \union {"permissions"} /\ q.moved = r.moved
    BY <1>2, <1>3
  <2> HIDE DEF q
  <2>3. ~ KnownTo(q)
    BY <2>2 DEF KnownTo
  <2>4. ASSUME NEW j \in DOMAIN q.data \ (q.failed \union q.moved), j # "watched_words"
        PROVE  q.data[j] = Rows(forumSite, j, KnownTo(q))
    <3>1. Rows(forumSite, j, KnownTo(q)) = Rows(forumSite, j, FALSE)
      BY <2>3, RowsWithout
    <3> QED BY <1>6, <2>2, <2>4, <3>1
  <2>5. DOMAIN q.data = Done(q.at) \ {"permissions"} /\ q.failed \subseteq Done(q.at)
    BY <1>2, <1>3, <1>4, <2>2
  <2>6. ASSUME NEW j \in q.failed \intersect Lists PROVE q.data[j] = {}
    BY <1>2, <2>2, <2>6 DEF Lists
  <2>7. Gathers(q, forumSite)
    BY <1>2, <2>2, <2>4, <2>5, <2>6 DEF Gathers
  <2> QED BY <2>1, <2>7
<1> QED BY <1>8, <1>9

\* What is built from a whole run tells what the forum has.
LEMMA DocumentTells ==
    ASSUME ReportInv, BuildDocument
    PROVE  ReportInv'
<1> DEFINE r == export
           d == export.data
           doc == [groups |-> GroupsShown(d["groups"]),
                   categories |-> CategoriesShown(d["categories"]),
                   tag_groups |-> TagGroupsShown(d["tag_groups"], Range(d["groups"])),
                   settings |-> SettingsShown(d["site_settings"]),
                   lists |-> [k \in Lists |-> ListShown(k, d[k])],
                   failed |-> export.failed, moved |-> export.moved]
           Fine(k) == k \notin r.failed \union r.moved
<1>1. Gathers(r, forumSite) /\ SiteOK(forumSite) /\ r.at > 11 /\ UNCHANGED forumSite
  BY StepsAre DEF ReportInv, BuildDocument
<1>2. r.at = 12 /\ DOMAIN d = Done(r.at) \ {"permissions"}
      /\ (\A k \in DOMAIN d \ (r.failed \union r.moved) :
            k # "watched_words" => d[k] = Rows(forumSite, k, KnownTo(r)))
      /\ (\A k \in r.failed \intersect Lists : d[k] = {})
  BY <1>1 DEF Gathers
<1>3. DOMAIN d = Lists \union {"groups", "categories", "tag_groups", "site_settings", "watched_words"}
  <2>1. Done(12) = Lists \union {"groups", "categories", "tag_groups", "site_settings", "watched_words", "permissions"}
    BY StepsAre, SectionsAre
  <2>2. "permissions" \notin Lists
    BY DEF Lists
  <2> QED BY <1>2, <2>1, <2>2
<1>4. document' = doc \/ document' = NoReport
  BY DEF BuildDocument
<1>5. export' = NoReport
  BY DEF BuildDocument
<1>6. /\ DOMAIN doc = DocumentFields
      /\ doc.groups = GroupsShown(d["groups"]) /\ doc.categories = CategoriesShown(d["categories"])
      /\ doc.tag_groups = TagGroupsShown(d["tag_groups"], Range(d["groups"]))
      /\ doc.settings = SettingsShown(d["site_settings"])
      /\ doc.lists = [k \in Lists |-> ListShown(k, d[k])]
      /\ doc.failed = r.failed /\ doc.moved = r.moved
  BY DEF DocumentFields
<1>7. Fine("groups") => d["groups"] = InOrder(forumSite.groups)
  BY <1>2, <1>3 DEF Rows
<1>8. Fine("categories") => d["categories"] = FlatWith(forumSite.categories, KnownTo(r))
  BY <1>2, <1>3 DEF Rows
<1>9. Fine("tag_groups") => d["tag_groups"] = forumSite.tag_groups
  BY <1>2, <1>3 DEF Rows
<1>10. Fine("site_settings") => d["site_settings"] = forumSite.site_settings
  BY <1>2, <1>3 DEF Rows
<1>11. \A k \in Lists : Fine(k) => d[k] = forumSite[k]
  <2>1. \A k \in Lists : k \in DOMAIN d /\ k # "watched_words" /\ k # "groups" /\ k # "categories"
    BY <1>3 DEF Lists
  <2> QED BY <1>2, <2>1 DEF Rows
<1>12. KnownTo(r) <=> "permissions" \notin r.failed
  BY <1>2 DEF KnownTo
<1>13. KnownTo(r) \in BOOLEAN
  BY DEF KnownTo
<1>14. forumSite.groups \subseteq GroupIds /\ CatsOK(forumSite.categories)
       /\ forumSite.site_settings \subseteq Settings /\ \A k \in Lists : forumSite[k] \subseteq ListItems
  BY <1>1 DEF SiteOK, CatsOK
<1> HIDE DEF doc, d
<1>15. ASSUME Fine("groups")
       PROVE  /\ doc.groups.custom = InOrder(forumSite.groups \ SystemGroups)
              /\ doc.groups.system = InOrder(forumSite.groups \intersect SystemGroups)
              /\ Range(d["groups"]) = forumSite.groups
  <2>1. IsFiniteSet(forumSite.groups) /\ forumSite.groups \subseteq Int
    <3>1. GroupIds \subseteq Int /\ IsFiniteSet(GroupIds)
      BY ReportAssumption
    <3>2. IsFiniteSet(forumSite.groups)
      BY <1>14, <3>1, FS_Subset
    <3> QED BY <1>14, <3>1, <3>2
  <2>2. Range(InOrder(forumSite.groups)) = forumSite.groups
    BY <2>1, InOrderHas
  <2>3. /\ GroupsShown(InOrder(forumSite.groups)).custom = InOrder(forumSite.groups \ SystemGroups)
        /\ GroupsShown(InOrder(forumSite.groups)).system = InOrder(forumSite.groups \intersect SystemGroups)
    BY <1>14, GroupsShownIs
  <2> QED BY <1>6, <1>7, <1>15, <2>2, <2>3
<1>16. ASSUME Fine("categories")
       PROVE  ShownAs(doc.categories, forumSite.categories, "permissions" \notin doc.failed)
  <2>1. doc.categories = CategoriesShown(FlatWith(forumSite.categories, KnownTo(r)))
    BY <1>6, <1>8, <1>16
  <2> DEFINE known == KnownTo(r)
  <2>2. known \in BOOLEAN /\ doc.categories = CategoriesShown(FlatWith(forumSite.categories, known))
    BY <1>13, <2>1
  <2>3. known <=> "permissions" \notin doc.failed
    BY <1>6, <1>12
  <2> HIDE DEF known
  <2>4. ShownAs(doc.categories, forumSite.categories, known)
    BY <1>14, <2>2, CategoriesShownIs
  <2> QED BY <2>3, <2>4 DEF ShownAs
<1>17. ASSUME Fine("tag_groups")
       PROVE  /\ {t.num : t \in doc.tag_groups} = {t.num : t \in forumSite.tag_groups}
              /\ Fine("groups") => \A t \in doc.tag_groups : t.bare \intersect forumSite.groups = {}
  <2> DEFINE G == Range(d["groups"])
             told(t) == [num |-> t.num, access |-> IF t.allowed = {} THEN "All" ELSE "groups",
                         named |-> t.allowed \intersect G, bare |-> t.allowed \ G]
  <2>1. doc.tag_groups = {told(t) : t \in forumSite.tag_groups}
    BY <1>6, <1>9, <1>17 DEF TagGroupsShown
  <2>2. \A t : told(t).num = t.num /\ told(t).bare = t.allowed \ G
    OBVIOUS
  <2> HIDE DEF told, G
  <2>3. {t.num : t \in doc.tag_groups} = {t.num : t \in forumSite.tag_groups}
    BY <2>1, <2>2
  <2>4. ASSUME Fine("groups"), NEW t \in doc.tag_groups PROVE t.bare \intersect forumSite.groups = {}
    <3>1. PICK u \in forumSite.tag_groups : t = told(u)
      BY <2>1
    <3>2. t.bare = u.allowed \ G /\ G = forumSite.groups
      BY <1>15, <2>2, <2>4, <3>1 DEF G
    <3> QED BY <3>2
  <2> QED BY <2>3, <2>4
<1>18. ASSUME Fine("site_settings")
       PROVE  /\ IsInjective(doc.settings)
              /\ Range(doc.settings) = forumSite.site_settings \intersect (Range(OfInterest) \union Connecting)
  BY <1>6, <1>10, <1>14, <1>18, SettingsShownIs
<1>19. ASSUME NEW k \in Lists
       PROVE  /\ Fine(k) => Range(doc.lists[k]) =
                   {x.num : x \in IF k = "badges" THEN Marked(forumSite[k]) ELSE forumSite[k]}
              /\ k \in doc.failed => doc.lists[k] = <<>>
  <2>1. doc.lists[k] = ListShown(k, d[k])
    BY <1>6
  <2>2. CASE Fine(k)
    <3>1. d[k] = forumSite[k] /\ forumSite[k] \subseteq ListItems /\ k \notin doc.failed
      BY <1>6, <1>11, <1>14, <2>2
    <3> QED BY <2>1, <3>1, ListShownIs
  <2>3. CASE ~ Fine(k)
    <3>1. ASSUME k \in doc.failed PROVE doc.lists[k] = <<>>
      <4>1. d[k] = {}
        BY <1>2, <1>6, <3>1
      <4>2. ListShown(k, {}) = <<>>
        BY ListShownIs
      <4> QED BY <2>1, <4>1, <4>2
    <3> QED BY <2>3, <3>1
  <2> QED BY <2>2, <2>3
<1>20. ASSUME document' = doc PROVE ReportTells'
  <2>1. \A k : Told(k)' <=> Fine(k)
    BY <1>6, <1>20 DEF Told
  <2>2. Told("categories")' => CategoriesTold'
    BY <1>1, <1>16, <1>20, <2>1, ToldAs
  <2>3. Told("groups")' =>
          /\ document'.groups.custom = InOrder(forumSite'.groups \ SystemGroups)
          /\ document'.groups.system = InOrder(forumSite'.groups \intersect SystemGroups)
    BY <1>1, <1>15, <1>20, <2>1
  <2>4. Told("tag_groups")' =>
          /\ {t.num : t \in document'.tag_groups} = {t.num : t \in forumSite'.tag_groups}
          /\ Told("groups")' => \A t \in document'.tag_groups : t.bare \intersect forumSite'.groups = {}
    BY <1>1, <1>17, <1>20, <2>1
  <2>5. Told("site_settings")' =>
          /\ IsInjective(document'.settings)
          /\ Range(document'.settings) = forumSite'.site_settings \intersect (Range(OfInterest) \union Connecting)
    BY <1>1, <1>18, <1>20, <2>1
  <2>6. \A k \in Lists :
          /\ Told(k)' => Range(document'.lists[k]) =
               {x.num : x \in IF k = "badges" THEN Marked(forumSite'[k]) ELSE forumSite'[k]}
          /\ k \in document'.failed => document'.lists[k] = <<>>
    BY <1>1, <1>19, <1>20, <2>1
  <2> QED BY <2>2, <2>3, <2>4, <2>5, <2>6 DEF ReportTells
<1>21. document' = NoReport => ReportTells'
  BY DEF ReportTells
<1> QED BY <1>1, <1>4, <1>5, <1>6, <1>20, <1>21 DEF ReportInv

LEMMA ReportInvInductive ==
    /\ ReportInit => ReportInv
    /\ ReportInv /\ [ReportNext]_reportVars => ReportInv'
<1>1. ASSUME ReportInit PROVE ReportInv
  BY <1>1, SitesAssumption DEF ReportInit, ReportInv, ReportTells
<1>2. ASSUME ReportInv, UNCHANGED <<forumSite, document>>, export' # NoReport => Gathers(export', forumSite)
      PROVE  ReportInv'
  <2>1. ReportTells'
    BY <1>2 DEF ReportInv, ReportTells, CategoriesTold, Told
  <2> QED BY <1>2, <2>1 DEF ReportInv
<1>3. ASSUME ReportInv, [ReportNext]_reportVars PROVE ReportInv'
  <2>1. ASSUME NEW site \in Sites, ChangeSite(site) PROVE ReportInv'
    BY <1>3, <2>1, SiteChanges
  <2>2. CASE StartExport
    BY <1>2, <1>3, <2>2, StartGathers DEF StartExport
  <2>3. CASE FetchGroups
    BY <1>2, <1>3, <2>3, GroupsGather DEF FetchGroups
  <2>4. ASSUME NEW k \in Range(ExportSteps), FetchSection(k) PROVE ReportInv'
    <3>1. UNCHANGED <<forumSite, document>>
      BY <2>4 DEF FetchSection
    <3>2. Gathers(export', forumSite)
      BY <1>3, <2>4, SectionGathers
    <3> QED BY <1>2, <1>3, <3>1, <3>2
  <2>5. ASSUME NEW k \in Range(ExportSteps), FailSection(k) PROVE ReportInv'
    <3>1. UNCHANGED <<forumSite, document>>
      BY <2>5 DEF FailSection
    <3>2. Gathers(export', forumSite)
      BY <1>3, <2>5, SectionGathers
    <3> QED BY <1>2, <1>3, <3>1, <3>2
  <2>6. ASSUME NEW answered \in BOOLEAN, FetchPermissions(answered) PROVE ReportInv'
    <3>1. UNCHANGED <<forumSite, document>>
      BY <2>6 DEF FetchPermissions
    <3> QED BY <1>2, <1>3, <2>6, <3>1, PermissionsGather
  <2>7. CASE BuildDocument
    BY <1>3, <2>7, DocumentTells
  <2>8. CASE UNCHANGED reportVars
    <3>1. UNCHANGED <<forumSite, document, export>>
      BY <2>8 DEF reportVars
    <3> QED BY <1>2, <1>3, <3>1 DEF ReportInv
  <2> QED BY <1>3, <2>1, <2>2, <2>3, <2>4, <2>5, <2>6, <2>7, <2>8 DEF ReportNext
<1> QED BY <1>1, <1>3

(* The document tells, of each section that was fetched and did not change  *)
(* meanwhile, all that the forum has and nothing else, whichever others     *)
(* failed, for every forum: export-taxonomy of community_taxonomy.py.       *)
THEOREM ReportAlwaysTells == ReportSpec => []ReportTells
<1>1. ReportInv => ReportTells
  BY DEF ReportInv
<1> QED BY <1>1, ReportInvInductive, PTL DEF ReportSpec

THEOREM ReportTypes == ReportSpec => []ReportTypeOK
<1>1. ReportInv => ReportTypeOK
  BY StepsAre DEF ReportInv, ReportTypeOK, Gathers
<1> QED BY <1>1, ReportInvInductive, PTL DEF ReportSpec

-----------------------------------------------------------------------------
(* The synchronization of groups *)

USE NamesAssumption, BoundsAssumption

-----------------------------------------------------------------------------
(* What a run relies on *)

\* A run knows of registered accounts only; the address of each was listed after it.
KnowsAccounts(run) ==
    /\ run.users \subseteq registered
    /\ run.emails \subseteq registered
    /\ run.adding \subseteq registered
    /\ run.step = "members" => run.users \subseteq run.emails

\* A run takes out nobody whom it read to be listed, and the group only off
\* invitations it read to be for the group; it takes out nobody before it has read all.
PlansWell(run, g) ==
    /\ run.removing \intersect run.wanted = {}
    /\ \A p \in run.dropping : g \in GroupsOf(run.invites[p])
    /\ run.step \notin {"adding", "removing", "dropping"} =>
          run.removing = {} /\ run.dropping = {}

\* An invitation is for the other groups it was for when the run read it. One that is
\* gone was redeemed, or deleted by the run because there were no others.
ReadHolds(run, g) ==
    run.step \notin {"idle", "invites"} =>
        \A p \in Persons : run.invites[p] # NoInvite =>
            IF invite[p] = NoInvite
              THEN p \in registered \/ run.invites[p] \subseteq {g}
              ELSE run.invites[p] \ {g} = invite[p] \ {g}

RunOK(g) == KnowsAccounts(sync[g]) /\ PlansWell(sync[g], g) /\ ReadHolds(sync[g], g)

IInv == TypeOK /\ \A g \in Groups : RunOK(g)

-----------------------------------------------------------------------------
(* Steps of the proof that IInv is inductive *)

\* Nothing is wrong with a command that does not run.
LEMMA IdleIsOK ==
    ASSUME NEW g \in Groups, sync[g] = Idle
    PROVE  RunOK(g)
BY DEF RunOK, KnowsAccounts, PlansWell, ReadHolds, Idle

LEMMA IdleIsRun == Idle \in Run
BY DEF Idle, Run, Steps, Invites

\* Only the command that holds the lock runs: the others are not disturbed by what it
\* does to Discourse as long as there is no run of theirs.
LEMMA OthersIdle ==
    ASSUME TypeOK, NEW g \in Groups, lock = g, NEW h \in Groups \ {g}
    PROVE  At(h, "idle")
BY DEF TypeOK

\* Of a command that does not run nothing is asked but that it knows registered accounts.
LEMMA IdleStays ==
    ASSUME NEW h \in Groups, RunOK(h), At(h, "idle"),
           sync'[h] = sync[h], registered \subseteq registered'
    PROVE  RunOK(h)'
BY DEF RunOK, KnowsAccounts, PlansWell, ReadHolds, At

\* Changes from outside keep what a run relies on.
LEMMA OutsideStep ==
    ASSUME IInv, Outside
    PROVE  IInv'
<1> USE DEF IInv
<1>1. /\ UNCHANGED <<lock, sync, trouble>>
      /\ registered \subseteq registered'
      /\ changes \in Nat /\ changes < MaxChanges /\ changes' = changes + 1
  BY DEF Outside, Register, InviteByHand, Entitle, EditGroup, Change, discourse, TypeOK
<1>2. /\ registered' \in SUBSET Persons
      /\ members' \in [Groups -> SUBSET registered']
      /\ invite' \in [Persons -> Invites]
      /\ entitled' \in [Groups -> SUBSET Persons]
  <2>1. CASE \E p \in Persons : Register(p)
    BY <2>1 DEF Register, TypeOK, Invites
  <2>2. CASE \E p \in Persons : InviteByHand(p)
    BY <2>2 DEF InviteByHand, TypeOK, Invites
  <2>3. CASE \E g \in Groups, p \in Persons : Entitle(g, p)
    BY <2>3 DEF Entitle, discourse, TypeOK
  <2>4. CASE \E g \in Groups, p \in Persons : EditGroup(g, p)
    BY <2>4 DEF EditGroup, TypeOK
  <2> QED BY <2>1, <2>2, <2>3, <2>4 DEF Outside
<1>3. TypeOK'
  BY <1>1, <1>2 DEF TypeOK, At
<1>4. ASSUME NEW g \in Groups
      PROVE  RunOK(g)'
  <2>1. KnowsAccounts(sync[g])' /\ PlansWell(sync[g], g)'
    BY <1>1 DEF RunOK, KnowsAccounts, PlansWell
  <2>2. ASSUME NEW p \in Persons
        PROVE  \/ invite'[p] = invite[p]
               \/ invite'[p] = NoInvite /\ p \in registered'
               \/ invite[p] = NoInvite /\ invite'[p] = {} /\ p \notin registered
    BY DEF Outside, Register, InviteByHand, Entitle, EditGroup, discourse, TypeOK
  <2>3. ReadHolds(sync[g], g)'
    <3> SUFFICES ASSUME sync[g].step \notin {"idle", "invites"},
                        NEW p \in Persons, sync[g].invites[p] # NoInvite
                 PROVE  IF invite'[p] = NoInvite
                          THEN p \in registered' \/ sync[g].invites[p] \subseteq {g}
                          ELSE sync[g].invites[p] \ {g} = invite'[p] \ {g}
      BY <1>1 DEF ReadHolds
    <3>1. IF invite[p] = NoInvite
            THEN p \in registered \/ sync[g].invites[p] \subseteq {g}
            ELSE sync[g].invites[p] \ {g} = invite[p] \ {g}
      BY DEF RunOK, ReadHolds
    <3>2. {} # NoInvite
      OBVIOUS
    <3> QED BY <1>1, <2>2, <3>1, <3>2
  <2> QED BY <2>1, <2>3 DEF RunOK
<1> QED BY <1>3, <1>4

\* The start of a run.
LEMMA StartStep ==
    ASSUME IInv, NEW g \in Groups, Start(g)
    PROVE  IInv'
<1> USE DEF IInv
<1>1. UNCHANGED <<registered, members, invite, entitled, changes, trouble>>
  BY DEF Start, discourse
<1>2. /\ sync[g] \in Run /\ sync[g].step = "idle"
      /\ sync' = [sync EXCEPT ![g] = [@ EXCEPT !.step = "invites", !.users = registered]]
      /\ lock = NoOne /\ lock' = g
  BY DEF Start, At, Free, TypeOK
<1>3. /\ sync'[g] \in Run /\ sync'[g].step = "invites" /\ sync'[g].users = registered
      /\ sync'[g].emails = sync[g].emails /\ sync'[g].adding = sync[g].adding
      /\ sync'[g].removing = sync[g].removing /\ sync'[g].wanted = sync[g].wanted
      /\ sync'[g].dropping = sync[g].dropping /\ sync'[g].invites = sync[g].invites
  BY <1>2 DEF TypeOK, Run, Steps
<1>4. \A h \in Groups \ {g} : sync'[h] = sync[h]
  BY <1>2 DEF TypeOK
<1>5. TypeOK'
  BY <1>1, <1>2, <1>3, <1>4 DEF TypeOK, At
<1>6. RunOK(g)'
  BY <1>1, <1>2, <1>3 DEF RunOK, KnowsAccounts, PlansWell, ReadHolds
<1>7. \A h \in Groups \ {g} : RunOK(h)'
  BY <1>1, <1>4 DEF RunOK, KnowsAccounts, PlansWell, ReadHolds
<1> QED BY <1>5, <1>6, <1>7

\* The end of a run.
LEMMA EndStep ==
    ASSUME IInv, NEW g \in Groups, ~At(g, "idle"), End(g),
           UNCHANGED <<discourse, entitled, changes>>, trouble' \in 0..MaxTrouble
    PROVE  IInv'
<1> USE DEF IInv, discourse
<1>1. sync'[g] = Idle /\ \A h \in Groups \ {g} : sync'[h] = sync[h]
  BY DEF End, TypeOK
<1>2. lock = g /\ lock' = NoOne
  BY DEF End, TypeOK
<1>3. TypeOK'
  <2>1. sync' \in [Groups -> Run]
    BY IdleIsRun DEF End, TypeOK
  <2>2. \A h \in Groups : At(h, "idle")' <=> lock' # h
    BY <1>1, <1>2 DEF At, TypeOK, Idle
  <2> QED BY <1>2, <2>1, <2>2 DEF TypeOK
<1>4. ASSUME NEW h \in Groups
      PROVE  RunOK(h)'
  BY <1>1 DEF RunOK, KnowsAccounts, PlansWell, ReadHolds, Idle
<1> QED BY <1>3, <1>4

\* A call that lists something changes the run alone.
LEMMA ReadStep ==
    ASSUME IInv, NEW g \in Groups, Reads(g)
    PROVE  IInv'
<1> USE DEF IInv, discourse
<1>1. UNCHANGED <<discourse, entitled, lock, changes, trouble>>
  BY DEF Reads, ReadInvites, ReadService, ReadEmails, ReadMembers
<1>2. sync[g] \in Run /\ RunOK(g) /\ \A h \in Groups \ {g} : sync'[h] = sync[h]
  BY DEF Reads, ReadInvites, ReadService, ReadEmails, ReadMembers, TypeOK
<1>3. /\ sync' \in [Groups -> Run] /\ ~At(g, "idle") /\ ~At(g, "idle")'
      /\ KnowsAccounts(sync[g])' /\ PlansWell(sync[g], g)' /\ ReadHolds(sync[g], g)'
  <2>1. CASE ReadInvites(g)
    <3> DEFINE run == [sync[g] EXCEPT !.step = "service", !.invites = invite]
    <3>1. sync' = [sync EXCEPT ![g] = run] /\ sync'[g] = run
      BY <2>1 DEF ReadInvites, TypeOK
    <3>2. run \in Run
      BY <1>2 DEF Run, Steps, TypeOK
    <3> QED BY <1>1, <1>2, <2>1, <3>1, <3>2
      DEF ReadInvites, At, TypeOK, Run, RunOK, KnowsAccounts, PlansWell, ReadHolds
  <2>2. CASE ReadService(g)
    <3> DEFINE run == [sync[g] EXCEPT !.step = "emails", !.wanted = entitled[g]]
    <3>1. sync' = [sync EXCEPT ![g] = run] /\ sync'[g] = run
      BY <2>2 DEF ReadService, TypeOK
    <3>2. run \in Run
      BY <1>2 DEF Run, Steps, TypeOK
    <3> QED BY <1>1, <1>2, <2>2, <3>1, <3>2
      DEF ReadService, At, TypeOK, Run, RunOK, KnowsAccounts, PlansWell, ReadHolds
  <2>3. CASE ReadEmails(g)
    <3> DEFINE run == [sync[g] EXCEPT !.step = "members", !.emails = registered]
    <3>1. sync' = [sync EXCEPT ![g] = run] /\ sync'[g] = run
      BY <2>3 DEF ReadEmails, TypeOK
    <3>2. run \in Run
      BY <1>2 DEF Run, Steps, TypeOK
    <3> QED BY <1>1, <1>2, <2>3, <3>1, <3>2
      DEF ReadEmails, At, TypeOK, Run, RunOK, KnowsAccounts, PlansWell, ReadHolds
  <2>4. CASE ReadMembers(g)
    <3> DEFINE accounts == sync[g].wanted \intersect sync[g].emails
               addresses == sync[g].wanted \ sync[g].emails
               run == [sync[g] EXCEPT !.step = "adding",
                                      !.inviting = addresses \ Invited(g),
                                      !.adding = accounts \ Joined(g),
                                      !.removing = Joined(g) \ accounts,
                                      !.dropping = Invited(g) \ addresses]
    <3>1. sync' = [sync EXCEPT ![g] = run] /\ sync'[g] = run
      BY <2>4 DEF ReadMembers, TypeOK
    <3>2. Joined(g) \subseteq sync[g].users /\ Invited(g) \subseteq Persons
      BY DEF Joined, Known, Invited
    <3>3. run \in Run
      BY <1>2, <3>2 DEF Run, Steps
    <3>4. (Joined(g) \ accounts) \intersect sync[g].wanted = {}
      BY <1>2, <2>4, <3>2 DEF ReadMembers, At, RunOK, KnowsAccounts
    <3>5. \A p \in Invited(g) : g \in GroupsOf(sync[g].invites[p])
      BY DEF Invited
    <3>6. /\ run.step = "adding" /\ run.users = sync[g].users /\ run.emails = sync[g].emails
          /\ run.wanted = sync[g].wanted /\ run.invites = sync[g].invites
          /\ run.adding = accounts \ Joined(g) /\ run.removing = Joined(g) \ accounts
          /\ run.dropping = Invited(g) \ addresses
      BY <1>2 DEF Run
    <3>7. KnowsAccounts(run) /\ PlansWell(run, g) /\ ReadHolds(run, g)
      <4> HIDE DEF run
      <4>1. /\ KnowsAccounts(sync[g]) /\ PlansWell(sync[g], g) /\ ReadHolds(sync[g], g)
            /\ sync[g].step = "members"
        BY <2>4 DEF ReadMembers, At, RunOK
      <4>2. KnowsAccounts(run)
        BY <3>6, <4>1 DEF KnowsAccounts
      <4>3. PlansWell(run, g)
        BY <3>4, <3>5, <3>6 DEF PlansWell
      <4>4. ReadHolds(run, g)
        BY <3>6, <4>1 DEF ReadHolds
      <4> QED BY <4>2, <4>3, <4>4
    <3>8. sync' \in [Groups -> Run] /\ ~At(g, "idle") /\ ~At(g, "idle")'
      BY <2>4, <3>1, <3>3, <3>6 DEF ReadMembers, At, TypeOK
    <3>9. KnowsAccounts(sync[g])' /\ PlansWell(sync[g], g)' /\ ReadHolds(sync[g], g)'
      <4> HIDE DEF run
      <4> QED BY <1>1, <3>1, <3>7 DEF KnowsAccounts, PlansWell, ReadHolds
    <3> QED BY <3>8, <3>9
  <2> QED BY <2>1, <2>2, <2>3, <2>4 DEF Reads
<1>4. TypeOK'
  BY <1>1, <1>2, <1>3 DEF TypeOK, At
<1>5. \A h \in Groups \ {g} : RunOK(h)'
  BY <1>1, <1>2 DEF RunOK, KnowsAccounts, PlansWell, ReadHolds
<1> QED BY <1>3, <1>4, <1>5 DEF RunOK

-----------------------------------------------------------------------------
(* The calls that change Discourse *)

\* What a run relies on survives as it goes on to a later call and has less to do.
LEMMA RunGoesOn ==
    ASSUME IInv, NEW g \in Groups, NEW run \in Run,
           sync' = [sync EXCEPT ![g] = run], UNCHANGED <<registered, lock>>,
           sync[g].step \in {"adding", "removing", "dropping"},
           run.step \in {"adding", "removing", "dropping"},
           run.users = sync[g].users, run.emails = sync[g].emails,
           run.wanted = sync[g].wanted, run.invites = sync[g].invites,
           run.adding = sync[g].adding, run.removing = sync[g].removing,
           run.dropping \subseteq sync[g].dropping
    PROVE  /\ sync' \in [Groups -> Run]
           /\ \A h \in Groups : At(h, "idle")' <=> lock' # h
           /\ KnowsAccounts(sync[g])' /\ PlansWell(sync[g], g)'
           /\ \A h \in Groups \ {g} : RunOK(h)'
<1> USE DEF IInv
<1>1. sync'[g] = run /\ \A h \in Groups \ {g} : sync'[h] = sync[h]
  BY DEF TypeOK
<1>2. lock = g
  BY DEF TypeOK, At
<1>3. sync' \in [Groups -> Run] /\ \A h \in Groups : At(h, "idle")' <=> lock' # h
  BY <1>1, <1>2 DEF TypeOK, At
<1>4. KnowsAccounts(sync[g])' /\ PlansWell(sync[g], g)'
  BY <1>1 DEF RunOK, KnowsAccounts, PlansWell
<1>5. \A h \in Groups \ {g} : RunOK(h)'
  BY <1>1, <1>2, OthersIdle, IdleStays
<1> QED BY <1>3, <1>4, <1>5

\* The accounts that are added or removed.
LEMMA MembersStep ==
    ASSUME IInv, NEW g \in Groups, Add(g) \/ Remove(g)
    PROVE  IInv'
<1> USE DEF IInv
<1> DEFINE run == [sync[g] EXCEPT !.step = IF Add(g) THEN "removing" ELSE "dropping"]
<1>1. sync' = [sync EXCEPT ![g] = run]
      /\ UNCHANGED <<registered, invite, entitled, lock, changes>>
      /\ sync[g].step \in {"adding", "removing"}
  BY DEF Add, Remove, At
<1>2. sync[g] \in Run /\ RunOK(g)
  BY DEF TypeOK
<1>3. run \in Run
  BY <1>2 DEF Run, Steps
<1>4. /\ run.step \in {"adding", "removing", "dropping"}
      /\ run.users = sync[g].users /\ run.emails = sync[g].emails
      /\ run.wanted = sync[g].wanted /\ run.invites = sync[g].invites
      /\ run.adding = sync[g].adding /\ run.removing = sync[g].removing
      /\ run.dropping = sync[g].dropping
  BY <1>2 DEF Run
<1> HIDE DEF run
<1>5. /\ sync' \in [Groups -> Run]
      /\ \A h \in Groups : At(h, "idle")' <=> lock' # h
      /\ KnowsAccounts(sync[g])' /\ PlansWell(sync[g], g)'
      /\ \A h \in Groups \ {g} : RunOK(h)'
  BY <1>1, <1>3, <1>4, RunGoesOn
<1>6. ReadHolds(sync[g], g)'
  BY <1>1, <1>2, <1>4 DEF RunOK, ReadHolds, TypeOK
<1>7. members' \in [Groups -> SUBSET registered'] /\ trouble' \in 0..MaxTrouble
  BY <1>1, <1>2 DEF Add, Remove, Trouble, TypeOK, RunOK, KnowsAccounts
<1>8. TypeOK'
  BY <1>1, <1>5, <1>7 DEF TypeOK
<1> QED BY <1>5, <1>6, <1>8 DEF RunOK

\* What a call does to an invitation: the groups other than g stay, and so does what
\* the run read of them.
LEMMA InvitationsStep ==
    ASSUME IInv, NEW g \in Groups, NEW p \in Persons, Invite(g, p) \/ Drop(g, p)
    PROVE  /\ invite' \in [Persons -> Invites]
           /\ \A q \in Persons : GroupsOf(invite'[q]) \ {g} = GroupsOf(invite[q]) \ {g}
           /\ \A q \in Persons : sync[g].invites[q] # NoInvite =>
                IF invite'[q] = NoInvite
                  THEN q \in registered \/ sync[g].invites[q] \subseteq {g}
                  ELSE sync[g].invites[q] \ {g} = invite'[q] \ {g}
<1> USE DEF IInv
<1> DEFINE read == sync[g].invites[p]
<1>1. invite \in [Persons -> Invites] /\ read \in Invites
  BY DEF TypeOK, Run
<1>2. \A q \in Persons : sync[g].invites[q] # NoInvite =>
        IF invite[q] = NoInvite
          THEN q \in registered \/ sync[g].invites[q] \subseteq {g}
          ELSE sync[g].invites[q] \ {g} = invite[q] \ {g}
  BY DEF Invite, Drop, At, RunOK, ReadHolds
<1>3. CASE invite' = invite
  BY <1>1, <1>2, <1>3
<1>4. CASE read = NoInvite /\ CreateInvite(g, p)
  <2>1. CASE p \in registered
    BY <1>3, <1>4, <2>1 DEF CreateInvite
  <2>2. CASE p \notin registered
    <3> DEFINE now == GroupsOf(invite[p]) \union {g}
    <3>1. invite' = [invite EXCEPT ![p] = now]
      BY <1>4, <2>2 DEF CreateInvite
    <3>2. now \in Invites /\ GroupsOf(now) \ {g} = GroupsOf(invite[p]) \ {g}
      BY <1>1 DEF Invites, GroupsOf
    <3> HIDE DEF now
    <3> QED BY <1>1, <1>2, <1>4, <3>1, <3>2
  <2> QED BY <2>1, <2>2
<1>5. CASE read # NoInvite /\ SetGroups(p, read \union {g})
  <2>1. CASE invite[p] = NoInvite
    BY <1>3, <1>5, <2>1 DEF SetGroups
  <2>2. CASE invite[p] # NoInvite
    <3> DEFINE now == read \union {g}
    <3>1. invite' = [invite EXCEPT ![p] = now]
      BY <1>5, <2>2 DEF SetGroups
    <3>2. read \ {g} = invite[p] \ {g}
      BY <1>2, <1>5, <2>2
    <3>3. now \in SUBSET Groups /\ now \ {g} = invite[p] \ {g} /\ read \ {g} = now \ {g}
      BY <1>1, <1>5, <3>2 DEF Invites
    <3>4. now # NoInvite
      BY <3>3
    <3> HIDE DEF now
    <3> QED BY <1>1, <1>2, <2>2, <3>1, <3>3, <3>4 DEF GroupsOf, Invites
  <2> QED BY <2>1, <2>2
<1>6. CASE Drop(g, p) /\ SetGroups(p, IF read \ {g} = {} THEN NoInvite ELSE read \ {g})
  <2>1. g \in GroupsOf(read)
    BY <1>6 DEF Drop, RunOK, PlansWell
  <2>2. read # NoInvite /\ read \in SUBSET Groups
    BY <1>1, <2>1 DEF GroupsOf, Invites
  <2>3. CASE invite[p] = NoInvite
    BY <1>3, <1>6, <2>3 DEF SetGroups
  <2>4. CASE invite[p] # NoInvite
    <3>1. read \ {g} = invite[p] \ {g}
      BY <1>2, <2>2, <2>4
    <3>2. CASE read \ {g} = {}
      <4>1. invite' = [invite EXCEPT ![p] = NoInvite]
        BY <1>6, <2>4, <3>2 DEF SetGroups
      <4> QED BY <1>1, <1>2, <2>2, <2>4, <3>1, <3>2, <4>1 DEF GroupsOf, Invites
    <3>3. CASE read \ {g} # {}
      <4> DEFINE now == read \ {g}
      <4>1. invite' = [invite EXCEPT ![p] = now]
        BY <1>6, <2>4, <3>3 DEF SetGroups
      <4>2. now \in SUBSET Groups /\ now # NoInvite
        BY <2>2
      <4>3. now \ {g} = invite[p] \ {g} /\ read \ {g} = now \ {g}
        BY <3>1
      <4> HIDE DEF now
      <4> QED BY <1>1, <1>2, <2>4, <4>1, <4>2, <4>3 DEF GroupsOf, Invites
    <3> QED BY <3>2, <3>3
  <2> QED BY <2>3, <2>4
<1> QED BY <1>3, <1>4, <1>5, <1>6 DEF Invite, Drop

\* The invitations that are made, changed or deleted.
LEMMA InviteStep ==
    ASSUME IInv, NEW g \in Groups, NEW p \in Persons, Invite(g, p) \/ Drop(g, p)
    PROVE  IInv'
<1> USE DEF IInv
<1> DEFINE run == IF Invite(g, p) THEN [sync[g] EXCEPT !.inviting = @ \ {p}]
                                  ELSE [sync[g] EXCEPT !.dropping = @ \ {p}]
<1>1. sync' = [sync EXCEPT ![g] = run]
      /\ UNCHANGED <<registered, members, entitled, lock, changes>>
      /\ sync[g].step \in {"adding", "dropping"}
      /\ trouble' \in 0..MaxTrouble
  BY DEF Invite, Drop, At, Trouble, TypeOK
<1>2. sync[g] \in Run /\ RunOK(g)
  BY DEF TypeOK
<1>3. run \in Run
  BY <1>2 DEF Run
<1>4. /\ run.step \in {"adding", "removing", "dropping"}
      /\ run.users = sync[g].users /\ run.emails = sync[g].emails
      /\ run.wanted = sync[g].wanted /\ run.invites = sync[g].invites
      /\ run.adding = sync[g].adding /\ run.removing = sync[g].removing
      /\ run.dropping \subseteq sync[g].dropping
  BY <1>1, <1>2 DEF Run
<1> HIDE DEF run
<1>5. /\ sync' \in [Groups -> Run]
      /\ \A h \in Groups : At(h, "idle")' <=> lock' # h
      /\ KnowsAccounts(sync[g])' /\ PlansWell(sync[g], g)'
      /\ \A h \in Groups \ {g} : RunOK(h)'
  BY <1>1, <1>3, <1>4, RunGoesOn
<1>6. sync'[g].invites = sync[g].invites
  BY <1>1, <1>4 DEF TypeOK
<1>7. ReadHolds(sync[g], g)'
  BY <1>1, <1>6, InvitationsStep DEF ReadHolds
<1>8. TypeOK'
  BY <1>1, <1>5, InvitationsStep DEF TypeOK
<1> QED BY <1>5, <1>7, <1>8 DEF RunOK

-----------------------------------------------------------------------------
(* The theorems *)

LEMMA InitIInv == Init => IInv
<1> SUFFICES ASSUME Init PROVE IInv
  OBVIOUS
<1>1. TypeOK
  BY IdleIsRun DEF Init, TypeOK, At, Idle, Invites
<1> QED BY <1>1, IdleIsOK DEF Init, IInv

LEMMA NextIInv == IInv /\ [Next]_vars => IInv'
<1> SUFFICES ASSUME IInv, [Next]_vars PROVE IInv'
  OBVIOUS
<1>1. CASE Outside
  BY <1>1, OutsideStep
<1>2. ASSUME NEW g \in Groups, Start(g) PROVE IInv'
  BY <1>2, StartStep
<1>3. ASSUME NEW g \in Groups, Reads(g) PROVE IInv'
  BY <1>3, ReadStep
<1>4. ASSUME NEW g \in Groups, Writes(g) PROVE IInv'
  BY <1>4, MembersStep, InviteStep DEF Writes
<1>5. ASSUME NEW g \in Groups, AddUnknown(g) \/ Finish(g) \/ Die(g) PROVE IInv'
  <2>1. ~At(g, "idle") /\ End(g) /\ UNCHANGED <<discourse, entitled, changes>>
    BY <1>5 DEF AddUnknown, Finish, Die, At
  <2>2. trouble' \in 0..MaxTrouble
    BY <1>5 DEF AddUnknown, Finish, Die, Trouble, IInv, TypeOK
  <2> QED BY <2>1, <2>2, EndStep
<1>6. CASE UNCHANGED vars
  BY <1>6 DEF vars, discourse, IInv, TypeOK, At, RunOK, KnowsAccounts, PlansWell, ReadHolds
<1> QED BY <1>1, <1>2, <1>3, <1>4, <1>5, <1>6 DEF Next, GoesOn

\* What every run relies on holds at all times: finish_import() and its callers read
\* Discourse in an order, and under a lock, that make it so.
THEOREM Invariant == Spec => []IInv
BY InitIInv, NextIInv, PTL DEF Spec

\* The variables keep their types; a command runs as long as it holds the lock.
THEOREM TypeCorrect == Spec => []TypeOK
<1>1. IInv => TypeOK
  BY DEF IInv
<1> QED BY <1>1, Invariant, PTL

\* The command of one group leaves the other groups of every invitation as they are.
THEOREM OthersInvitationsKept == Spec => OtherGroupsKept
<1>1. ASSUME IInv, NEW g \in Groups, Writes(g), NEW p \in Persons, NEW h \in Groups \ {g}
      PROVE  h \in GroupsOf(invite[p]) <=> h \in GroupsOf(invite'[p])
  <2>1. CASE Add(g) \/ Remove(g)
    BY <2>1 DEF Add, Remove
  <2>2. ASSUME NEW q \in Persons, Invite(g, q) \/ Drop(g, q)
        PROVE  h \in GroupsOf(invite[p]) <=> h \in GroupsOf(invite'[p])
    <3>1. GroupsOf(invite'[p]) \ {g} = GroupsOf(invite[p]) \ {g}
      BY <1>1, <2>2, InvitationsStep
    <3> QED BY <3>1
  <2> QED BY <1>1, <2>1, <2>2 DEF Writes
<1>2. IInv /\ [Next]_vars =>
        [\A g \in Groups : Writes(g) =>
            \A p \in Persons, h \in Groups \ {g} :
                h \in GroupsOf(invite[p]) <=> h \in GroupsOf(invite'[p])]_vars
  BY <1>1
<1> QED BY <1>2, Invariant, PTL DEF Spec, OtherGroupsKept

\* A run takes nobody out of its group whom the service listed when it was asked.
THEOREM ListedPeopleAreKept == Spec => ListedAreKept
<1>1. ASSUME IInv, NEW g \in Groups, Writes(g), NEW p \in members[g] \ members'[g]
      PROVE  p \notin sync[g].wanted
  <2>1. CASE Remove(g)
    <3>1. members'[g] = members[g] \/ members'[g] = members[g] \ sync[g].removing
      BY <1>1, <2>1 DEF Remove, IInv, TypeOK
    <3>2. p \in sync[g].removing
      BY <3>1
    <3> QED BY <1>1, <3>2 DEF IInv, RunOK, PlansWell
  <2>2. CASE Add(g)
    BY <1>1, <2>2 DEF Add, IInv, TypeOK
  <2>3. CASE \E q \in Persons : Invite(g, q) \/ Drop(g, q)
    BY <2>3 DEF Invite, Drop
  <2> QED BY <1>1, <2>1, <2>2, <2>3 DEF Writes
<1>2. IInv /\ [Next]_vars =>
        [\A g \in Groups : Writes(g) =>
            \A p \in members[g] \ members'[g] : p \notin sync[g].wanted]_vars
  BY <1>1
<1> QED BY <1>2, Invariant, PTL DEF Spec, ListedAreKept
-----------------------------------------------------------------------------
(* The import of events: the inductive invariant *)

USE EventImportAssumption

\* An import knows what the file holds; every topic is in what it knows (or in the file,
\* when none runs) or was hidden by a fault; and it knows no event without a topic.
ImportKnows ==
    /\ stateFile \subseteq topics /\ importer.state \subseteq topics
    /\ IF importer.stage = "idle" THEN topics \subseteq stateFile \cup unconfirmed
       ELSE /\ stateFile \subseteq importer.state
            /\ topics \subseteq importer.state \cup unconfirmed
            /\ IF importer.stage = "write" THEN importer.todo # <<>>
               ELSE topics \subseteq stateFile \cup unconfirmed

ImportInv == EventImportTypeOK /\ ImportKnows

LEMMA UnstartedTyped ==
    /\ Unstarted \in [stage : Stages, dry : BOOLEAN, todo : Seq(Row), state : SUBSET Events]
    /\ Unstarted.stage = "idle" /\ Unstarted.state = {}
BY DEF Unstarted, Stages

LEMMA InitImportInv == EventImportInit => ImportInv
<1> SUFFICES ASSUME EventImportInit PROVE ImportInv
  OBVIOUS
<1>1. <<>> \in Seq(Row)
  OBVIOUS
<1>2. EventImportTypeOK
  BY <1>1, UnstartedTyped DEF EventImportInit, EventImportTypeOK
<1>3. ImportKnows
  BY UnstartedTyped DEF EventImportInit, ImportKnows
<1> QED BY <1>2, <1>3 DEF ImportInv

\* The rows that are left after the first.
LEMMA RowLeft ==
    ASSUME EventImportTypeOK, importer.todo # <<>>
    PROVE  /\ TheEvent \in Events \cup {NoEvent}
           /\ NextRow \in [stage : Stages, dry : BOOLEAN, todo : Seq(Row), state : SUBSET Events]
           /\ NextRow.stage = "rows" /\ NextRow.state = importer.state
<1>1. importer.todo \in Seq(Row) /\ Head(importer.todo) \in Row /\ Tail(importer.todo) \in Seq(Row)
  BY DEF EventImportTypeOK
<1>2. Head(importer.todo).event \in Events \cup {NoEvent}
  BY <1>1 DEF Row
<1> QED BY <1>1, <1>2 DEF EventImportTypeOK, TheEvent, NextRow, Stages

-----------------------------------------------------------------------------
(* Each step keeps the invariant and is one of the announcements *)

\* What is told of every step.
Implements == ImportInv' /\ [EventAnnouncements!AnnouncementsNext]_<<topics, stateFile, unconfirmed>>

LEMMA QuietStep ==
    ASSUME ImportInv,
           \/ \E t \in Tags : CreateTag(t)
           \/ \E rows \in CsvFiles : EditCsv(rows)
           \/ RemoveStateFile \/ CheckTags \/ FinishImport
           \/ \E dry \in BOOLEAN : StartImport(dry)
           \/ UNCHANGED importVars
    PROVE  Implements
<1> USE DEF ImportInv, EventImportTypeOK, ImportKnows, Implements
<1>1. ASSUME NEW t \in Tags, CreateTag(t) PROVE Implements
  BY <1>1 DEF CreateTag
<1>2. ASSUME NEW rows \in CsvFiles, EditCsv(rows) PROVE Implements
  BY <1>2 DEF EditCsv
<1>3. CASE RemoveStateFile
  BY <1>3 DEF RemoveStateFile
<1>4. CASE CheckTags
  BY <1>4 DEF CheckTags, Unstarted, Stages
<1>5. CASE FinishImport
  BY <1>5 DEF FinishImport, Unstarted, Stages
<1>6. ASSUME NEW dry \in BOOLEAN, StartImport(dry) PROVE Implements
  BY <1>6 DEF StartImport, Unstarted, Stages
<1>7. CASE UNCHANGED importVars
  BY <1>7 DEF importVars
<1> QED BY <1>1, <1>2, <1>3, <1>4, <1>5, <1>6, <1>7

\* A topic is posted for an event that the file does not hold, and that has a topic only
\* if a fault hid it.
LEMMA PostStep ==
    ASSUME ImportInv, PostTopic \/ AnswerLost
    PROVE  Implements
<1>1. AtRow /\ ~Skipped /\ importer.todo # <<>> /\ importer.stage = "rows"
  BY DEF PostTopic, AnswerLost, AtRow
<1>2. /\ TheEvent \in Events \ importer.state
      /\ NextRow \in [stage : Stages, dry : BOOLEAN, todo : Seq(Row), state : SUBSET Events]
      /\ NextRow.stage = "rows" /\ NextRow.state = importer.state
  BY <1>1, RowLeft DEF Skipped, ImportInv
<1>3. /\ {TheEvent} \subseteq Events /\ {TheEvent} \cap stateFile = {}
      /\ {TheEvent} \cap topics \subseteq unconfirmed
  BY <1>1, <1>2 DEF ImportInv, ImportKnows
<1>4. /\ topics' = topics \cup {TheEvent} /\ stateFile' = stateFile
      /\ unconfirmed' \in {unconfirmed \ {TheEvent}, unconfirmed \cup {TheEvent}}
  BY DEF PostTopic, AnswerLost
<1>5. \E L \in SUBSET {TheEvent} : EventAnnouncements!Announce({TheEvent}, L)
  <2>1. CASE unconfirmed' = unconfirmed \ {TheEvent}
    BY <1>3, <1>4, <2>1 DEF EventAnnouncements!Announce
  <2>2. CASE unconfirmed' = unconfirmed \cup {TheEvent}
    <3>1. unconfirmed' = (unconfirmed \ {TheEvent}) \cup {TheEvent}
      BY <2>2
    <3> QED BY <1>3, <1>4, <3>1 DEF EventAnnouncements!Announce
  <2> QED BY <1>4, <2>1, <2>2
<1>6. ImportInv'
  <2> USE DEF ImportInv, EventImportTypeOK, ImportKnows
  <2>1. CASE PostTopic
    <3>1. /\ importer' = [importer EXCEPT !.stage = "write", !.state = @ \cup {TheEvent}]
          /\ UNCHANGED <<csv, knownTags, stateFile, torn>>
          /\ unconfirmed' = unconfirmed \ {TheEvent}
      BY <2>1 DEF PostTopic
    <3>2. /\ importer' \in [stage : Stages, dry : BOOLEAN, todo : Seq(Row), state : SUBSET Events]
          /\ importer'.stage = "write" /\ importer'.state = importer.state \cup {TheEvent}
      BY <1>2, <3>1 DEF Stages
    <3> QED BY <1>1, <1>2, <1>4, <3>1, <3>2
  <2>2. CASE AnswerLost
    BY <1>1, <1>2, <1>4, <2>2 DEF AnswerLost, Stages
  <2> QED BY <2>1, <2>2
<1> QED BY <1>3, <1>5, <1>6 DEF Implements, EventAnnouncements!AnnouncementsNext

\* The row passes by, or nothing was posted for it.
LEMMA PassStep ==
    ASSUME ImportInv, SkipRow \/ PostFails
    PROVE  Implements
<1>1. importer.todo # <<>> /\ importer.stage = "rows" /\ importer' = NextRow
  BY DEF SkipRow, PostFails, AtRow
<1>2. UNCHANGED <<csv, knownTags, topics, stateFile, torn, unconfirmed>>
  BY DEF SkipRow, PostFails
<1> QED BY <1>1, <1>2, RowLeft DEF ImportInv, EventImportTypeOK, ImportKnows, Implements

\* A write of the file puts everything the import knows on record; one that fails may lose it.
LEMMA WriteStep ==
    ASSUME ImportInv, WriteState \/ WriteFails
    PROVE  Implements
<1> USE DEF ImportInv, EventImportTypeOK, ImportKnows
<1>1. /\ importer.stage = "write" /\ importer.todo # <<>> /\ importer' = NextRow
      /\ UNCHANGED <<csv, knownTags, topics>>
  BY DEF WriteState, WriteFails
<1>2. CASE WriteState
  <2>1. EventAnnouncements!Update(importer.state, {})
    BY <1>1, <1>2 DEF WriteState, EventAnnouncements!Update
  <2>2. ImportInv'
    BY <1>1, <1>2, RowLeft DEF WriteState
  <2> QED BY <2>1, <2>2 DEF Implements, EventAnnouncements!AnnouncementsNext
<1>3. CASE WriteFails
  <2> DEFINE lost == importer.state \ stateFile'
  <2>1. /\ unconfirmed' = unconfirmed \cup lost
        /\ \/ stateFile' = stateFile /\ torn' = torn
           \/ stateFile' = {} /\ torn' = TRUE
    BY <1>3 DEF WriteFails
  <2>2. EventAnnouncements!Update({}, lost)
    BY <1>1, <2>1 DEF EventAnnouncements!Update
  <2>3. ImportInv'
    BY <1>1, <2>1, RowLeft
  <2>4. lost \subseteq Events
    OBVIOUS
  <2> QED BY <2>2, <2>3, <2>4 DEF Implements, EventAnnouncements!AnnouncementsNext
<1> QED BY <1>2, <1>3

\* What a process that dies knew and the file does not hold is forgotten.
LEMMA CrashStep ==
    ASSUME ImportInv, CrashImport
    PROVE  Implements
<1> USE DEF ImportInv, EventImportTypeOK, ImportKnows
<1> DEFINE lost == importer.state \ stateFile'
<1>1. /\ importer' = Unstarted /\ unconfirmed' = unconfirmed \cup lost
      /\ UNCHANGED <<csv, knownTags, topics>>
      /\ \/ stateFile' = stateFile /\ torn' = torn
         \/ importer.stage = "write" /\ stateFile' = {} /\ torn' = TRUE
  BY DEF CrashImport
<1>2. EventAnnouncements!Update({}, lost)
  BY <1>1 DEF EventAnnouncements!Update
<1>3. ImportInv'
  BY <1>1, UnstartedTyped
<1>4. lost \subseteq Events
  OBVIOUS
<1> QED BY <1>2, <1>3, <1>4 DEF Implements, EventAnnouncements!AnnouncementsNext

-----------------------------------------------------------------------------
(* The theorems *)

LEMMA NextImplements ==
    ASSUME ImportInv, [EventImportNext]_importVars
    PROVE  Implements
BY QuietStep, PostStep, PassStep, WriteStep, CrashStep
   DEF EventImportNext, ImportStep, ImportFault

\* Types, and what an import knows: each topic is in the file, in the memory of the import
\* that runs, or was hidden by a fault.
THEOREM ImportInvariant == EventImportSpec => []ImportInv
<1>1. ImportInv /\ [EventImportNext]_importVars => ImportInv'
  BY NextImplements DEF Implements
<1> QED BY <1>1, InitImportInv, PTL DEF EventImportSpec

\* The import implements the announcements: an event gets a second topic only after a
\* fault hid the first one, and the file holds no event without a topic.
THEOREM ImportImplementsAnnouncements == EventImportSpec => ImportRemembers
<1>1. EventImportInit => EventAnnouncements!AnnouncementsInit
  BY DEF EventImportInit, EventAnnouncements!AnnouncementsInit
<1>2. ImportInv /\ [EventImportNext]_importVars
        => [EventAnnouncements!AnnouncementsNext]_(EventAnnouncements!announcementVars)
  BY NextImplements DEF Implements, EventAnnouncements!announcementVars
<1> QED BY <1>1, <1>2, ImportInvariant, PTL
        DEF EventImportSpec, ImportRemembers, EventAnnouncements!AnnouncementsSpec

-----------------------------------------------------------------------------
(* The notices about the review queue *)

\* How many categories of the run are done with, and which.
DoneCount == Len(Polled) - Len(poll.todo)
DoneWith == {Polled[n] : n \in 1 .. DoneCount}

(* Who has a notice was old enough for it, and still is.                    *)
NoticesOld ==
    \A i \in Items :
      /\ queue[i].category # NoCategory \/ poll.seen[i] # NoCategory => queue[i].created \in Times
      /\ notices[i].category # NoCategory =>
           queue[i].created + PendingHours <= notices[i].last /\ notices[i].last <= clock
      /\ poll.session[i].category # NoCategory =>
           queue[i].created + PendingHours <= poll.session[i].last /\ poll.session[i].last <= poll.now

(* The session has the notices of the table, but for items the run has told *)
(* of, whose notice is of a category done with, and for items that were     *)
(* pending no more where the table has them.  A run that is to commit has   *)
(* told of no item that has a notice elsewhere.                             *)
SessionIs ==
    \A i \in Items :
      /\ i \in poll.told =>
           /\ poll.session[i].category \in DoneWith /\ poll.session[i].last = poll.now
           /\ poll.clash \/ notices[i].category \in {NoCategory, poll.session[i].category}
      /\ i \notin poll.told =>
           \/ poll.session[i] = notices[i]
           \/ poll.session[i] = NoNotice /\ notices[i].category \in DoneWith \ {poll.seen[i]}

(* The session has the notices of what was seen, and of the categories done *)
(* with no others; those of the category at hand are not settled yet.       *)
AtHand(i) == poll.stage = "fetched" /\ poll.seen[i] = Polling
Settled ==
    /\ \A i \in Items : poll.seen[i] # NoCategory /\ Aged(i) /\ ~ AtHand(i) =>
         poll.session[i].category = poll.seen[i] /\ poll.now < poll.session[i].last + EscalationHours
    /\ \A i \in Items : poll.session[i].category \in DoneWith /\ ~ AtHand(i) =>
         poll.seen[i] = poll.session[i].category

PollInv ==
    /\ poll.now <= clock
    /\ poll.stage = "asleep" =>
         ~ poll.clash /\ poll.told = {} /\ \A i \in Items : poll.seen[i] = NoCategory
    /\ poll.stage # "asleep" => SessionIs /\ Len(poll.todo) <= Len(Polled) /\
         \A n \in DOMAIN poll.todo : poll.todo[n] = Polled[DoneCount + n]
    /\ poll.stage = "fetched" => poll.todo # <<>>
    /\ poll.stage # "asleep" /\ poll.clean /\ ~ poll.clash => Settled

ReviewInv == ReviewTypeOK /\ NoticesOld /\ PollInv

LEMMA ReviewStart == ReviewInit => ReviewInv
<1>1. SUFFICES ASSUME ReviewInit PROVE ReviewInv
  OBVIOUS
<1>2. /\ poll.stage = "asleep" /\ poll.now = 0 /\ poll.session = NoNotices
      /\ poll.seen = [i \in Items |-> NoCategory] /\ poll \in Poll
      /\ poll.clash = FALSE /\ poll.told = {}
  BY <1>1, ReviewAssumption DEF ReviewInit, Asleep, Poll, NoNotices, NoNotice, Notice, Times
<1>3. ReviewTypeOK
  BY <1>1, <1>2, ReviewAssumption
     DEF ReviewInit, ReviewTypeOK, Unborn, QueueEntry, NoNotices, NoNotice, Notice, Times
<1>4. NoticesOld
  BY <1>1, <1>2 DEF ReviewInit, NoticesOld, Unborn, NoNotices, NoNotice
<1>5. PollInv
  BY <1>1, <1>2 DEF ReviewInit, PollInv
<1> QED BY <1>3, <1>4, <1>5 DEF ReviewInv

\* What does not touch a run, and what of the queue and the clock a run relies on.
LEMMA PollStays ==
    ASSUME ReviewInv, UNCHANGED <<poll, notices>>, clock <= clock', clock' \in Times,
           queue' \in [Items -> QueueEntry], ReviewTypeOK',
           \A i \in Items : /\ queue'[i].category # NoCategory => queue'[i].created \in Times
                            /\ queue[i].created \in Times => queue'[i].created = queue[i].created
    PROVE  ReviewInv'
<1>1. ReviewTypeOK /\ NoticesOld /\ PollInv /\ UNCHANGED <<poll, notices>>
  BY DEF ReviewInv
<1>2. /\ PendingHours \in Nat /\ MaxTime \in Nat /\ clock \in Times /\ poll \in Poll
      /\ notices \in [Items -> Notice] /\ queue \in [Items -> QueueEntry]
  BY <1>1, ReviewAssumption DEF ReviewTypeOK
<1>3. \A i \in Items : /\ notices[i].last \in Times /\ poll.session[i].last \in Times
                       /\ queue[i].created \in Times \union {MaxTime + 1}
  BY <1>2 DEF Poll, Notice, QueueEntry, Unborn
<1>4. \A i \in Items : notices[i].category # NoCategory \/ poll.session[i].category # NoCategory
                         \/ poll.seen[i] # NoCategory
                       => queue[i].created \in Times /\ queue'[i].created = queue[i].created
  BY <1>1, <1>2, <1>3 DEF NoticesOld, Times
<1>5. NoticesOld'
  <2>1. \A i \in Items : notices[i].last <= clock => notices[i].last <= clock'
    BY <1>2, <1>3 DEF Times
  <2> QED BY <1>1, <1>4, <2>1 DEF NoticesOld
<1>6. PollInv'
  <2>1. poll.now <= clock'
    BY <1>1, <1>2 DEF PollInv, Poll, Times
  <2>2. ASSUME Settled PROVE Settled'
    BY <2>2, <1>1, <1>4 DEF Settled, Aged, AtHand, Polling, DoneWith, DoneCount
  <2>3. SessionIs' <=> SessionIs
    BY <1>1 DEF SessionIs, DoneWith, DoneCount
  <2> QED BY <1>1, <2>1, <2>2, <2>3 DEF PollInv, DoneCount
<1> QED BY <1>5, <1>6 DEF ReviewInv

\* A step of the run: queue and clock stand still, and the notices are older than now.
LEMMA RunGoesToSleep ==
    ASSUME ReviewInv, poll' = Asleep, UNCHANGED <<queue, clock>>, notices' \in {notices, poll.session},
           ReviewTypeOK'
    PROVE  ReviewInv'
<1>1. ReviewTypeOK /\ NoticesOld /\ PollInv
  BY DEF ReviewInv
<1>2. /\ poll'.stage = "asleep" /\ poll'.now = 0 /\ poll'.session = NoNotices
      /\ poll'.seen = [i \in Items |-> NoCategory] /\ poll'.clash = FALSE /\ poll'.told = {}
  BY DEF Asleep
<1>3. \A i \in Items : poll.session[i].last \in Nat /\ poll.now \in Nat /\ clock \in Nat
  BY <1>1 DEF ReviewTypeOK, Poll, Notice, Times
<1>4. NoticesOld'
  BY <1>1, <1>2, <1>3 DEF NoticesOld, PollInv, NoNotices, NoNotice
<1>5. PollInv'
  BY <1>2, <1>3, <1>1 DEF PollInv, ReviewTypeOK, Times
<1> QED BY <1>4, <1>5 DEF ReviewInv

LEMMA StartKeeps == ReviewInv /\ StartPoll => ReviewInv'
<1>1. SUFFICES ASSUME ReviewInv, StartPoll PROVE ReviewInv'
  OBVIOUS
<1>2. /\ poll'.stage = "next" /\ poll'.now = clock /\ poll'.todo = Polled /\ poll'.session = notices
      /\ poll'.seen = [i \in Items |-> NoCategory] /\ poll'.clash = FALSE /\ poll'.told = {}
      /\ poll'.clean = TRUE /\ UNCHANGED <<clock, queue, notices, messaged, overdue>>
      /\ poll' = [stage |-> "next", now |-> clock, todo |-> Polled, session |-> notices, clash |-> FALSE,
                  told |-> {}, seen |-> [i \in Items |-> NoCategory], clean |-> TRUE]
  BY <1>1 DEF StartPoll, Asleep
<1>3. ReviewTypeOK /\ NoticesOld /\ PollInv /\ clock \in Nat
  BY <1>1 DEF ReviewInv, ReviewTypeOK, Times
<1>4. ReviewTypeOK'
  BY <1>2, <1>3, ReviewAssumption DEF ReviewTypeOK, Poll
<1>5. NoticesOld'
  BY <1>2, <1>3 DEF NoticesOld
<1>6. Len(Polled) \in Nat
  BY ReviewAssumption
<1>7. DoneCount' = 0 /\ DoneWith' = {}
  BY <1>2, <1>6 DEF DoneCount, DoneWith
<1>8. Settled' /\ SessionIs'
  BY <1>2, <1>7 DEF Settled, SessionIs
<1>9. PollInv'
  BY <1>2, <1>3, <1>6, <1>7, <1>8, ReviewAssumption DEF PollInv
<1> QED BY <1>4, <1>5, <1>9 DEF ReviewInv

LEMMA TodoLeft ==
    ASSUME ReviewInv, poll.stage # "asleep", poll.todo # <<>>, poll'.todo = Tail(poll.todo)
    PROVE  /\ Len(poll'.todo) <= Len(Polled)
           /\ \A n \in DOMAIN poll'.todo : poll'.todo[n] = Polled[DoneCount' + n]
           /\ DoneWith' = DoneWith \union {Polling}
           /\ Polling \in Categories /\ poll'.todo \in Seq(Categories)
<1>1. poll.todo \in Seq(Categories) /\ Len(Polled) \in Nat
  BY ReviewAssumption DEF ReviewInv, ReviewTypeOK, Poll
<1>2. /\ Len(poll.todo) <= Len(Polled) /\ Len(poll.todo) \in Nat \ {0}
      /\ \A n \in DOMAIN poll.todo : poll.todo[n] = Polled[DoneCount + n]
  BY <1>1 DEF ReviewInv, PollInv
<1>3. /\ Len(poll'.todo) = Len(poll.todo) - 1 /\ DOMAIN poll'.todo = 1 .. Len(poll.todo) - 1
      /\ DOMAIN poll.todo = 1 .. Len(poll.todo) /\ Polling = poll.todo[1]
      /\ \A n \in DOMAIN poll'.todo : poll'.todo[n] = poll.todo[n + 1]
      /\ Polling \in Categories /\ poll'.todo \in Seq(Categories)
  BY <1>1 DEF Polling
<1>4. DoneCount \in Nat /\ DoneCount' = DoneCount + 1
  <2>1. DoneCount = Len(Polled) - Len(poll.todo) /\ DoneCount' = Len(Polled) - Len(poll'.todo)
    BY DEF DoneCount
  <2>2. /\ Len(Polled) \in Nat /\ Len(poll.todo) \in Nat \ {0} /\ Len(poll.todo) <= Len(Polled)
        /\ Len(poll'.todo) = Len(poll.todo) - 1
    BY <1>1, <1>2, <1>3
  <2> HIDE DEF DoneCount
  <2> QED BY ONLY <2>1, <2>2
<1>5. ASSUME NEW n \in DOMAIN poll'.todo PROVE poll'.todo[n] = Polled[DoneCount' + n]
  <2>1. n + 1 \in DOMAIN poll.todo /\ DoneCount' + n = DoneCount + (n + 1)
    <3>1. n \in 1 .. Len(poll.todo) - 1 /\ Len(poll.todo) \in Nat \ {0}
      BY <1>2, <1>3
    <3>2. n + 1 \in DOMAIN poll.todo
      BY <1>3, <3>1
    <3> HIDE DEF DoneCount
    <3>3. DoneCount' + n = DoneCount + (n + 1)
      BY ONLY <1>4, <3>1
    <3> QED BY ONLY <3>2, <3>3
  <2> QED BY <2>1, <1>2, <1>3, <1>5
<1>6. Polling = Polled[DoneCount + 1]
  BY <1>2, <1>3
<1>7. DoneWith' = DoneWith \union {Polling}
  BY <1>4, <1>6 DEF DoneWith
<1> QED BY <1>1, <1>2, <1>3, <1>5, <1>7

\* No category is polled that the run is done with.
LEMMA PollingIsNew ==
    ASSUME ReviewInv, poll.stage # "asleep", poll.todo # <<>>
    PROVE  /\ Polling \notin DoneWith /\ Polling # NoCategory /\ Polling \in Categories
           /\ NoCategory \notin DoneWith
<1>0. ReviewInv /\ poll \in Poll
  BY DEF ReviewInv, ReviewTypeOK
<1>1. poll.todo # <<>> /\ poll.todo \in Seq(Categories) /\ Len(Polled) \in Nat
  BY <1>0, ReviewAssumption DEF ReviewInv, PollInv, Poll
<1>2. /\ Len(poll.todo) \in Nat \ {0} /\ Len(poll.todo) <= Len(Polled) /\ Polling = poll.todo[1]
      /\ 1 \in DOMAIN poll.todo /\ Polling \in Categories
      /\ \A n \in DOMAIN poll.todo : poll.todo[n] = Polled[DoneCount + n]
  BY <1>0, <1>1 DEF ReviewInv, PollInv, Polling
<1>3. DoneCount \in Nat /\ DoneCount + 1 \in 1 .. Len(Polled)
  <2> DEFINE m == Len(poll.todo)
             n == Len(Polled)
  <2>1. m \in Nat \ {0} /\ n \in Nat /\ m <= n /\ DoneCount = n - m
    BY <1>1, <1>2 DEF DoneCount
  <2> HIDE DEF m, n
  <2>2. DoneCount \in Nat /\ DoneCount + 1 \in 1 .. n
    BY <2>1
  <2> QED BY <2>2 DEF n
<1>4. DOMAIN Polled = 1 .. Len(Polled)
  BY ReviewAssumption
<1>5. \A n \in 1 .. DoneCount : n \in 1 .. Len(Polled) /\ n # DoneCount + 1
  BY <1>1, <1>3
<1>6. Polling = Polled[DoneCount + 1]
  BY <1>2
<1>7. \A n \in 1 .. DoneCount : Polled[n] # Polling
  BY <1>3, <1>4, <1>5, <1>6, ReviewAssumption
<1>8. \A n \in 1 .. DoneCount : Polled[n] # NoCategory
  BY <1>4, <1>5, ReviewAssumption
<1> QED BY <1>2, <1>7, <1>8, ReviewAssumption DEF DoneWith

\* A category that fails leaves the run unclean.
LEMMA FailureKeeps ==
    ASSUME ReviewInv, SkipCategory \/ NotifyFails
    PROVE  ReviewInv'
<1>1. /\ poll.stage # "asleep" /\ poll.todo # <<>> /\ UNCHANGED <<clock, queue, notices>>
      /\ poll' = [poll EXCEPT !.stage = "next", !.todo = Tail(@), !.clean = FALSE]
      /\ messaged' \in {messaged, messaged \union Due} /\ overdue' \in {overdue, overdue \union Due}
  <2>1. CASE SkipCategory
    <3>1. poll = [poll EXCEPT !.stage = "next"]
      BY <2>1 DEF SkipCategory, ReviewInv, ReviewTypeOK, Poll
    <3> QED BY <2>1, <3>1 DEF SkipCategory
  <2>2. CASE NotifyFails
    BY <2>2 DEF NotifyFails, ReviewInv, PollInv
  <2> QED BY <2>1, <2>2
<1>2. ReviewTypeOK /\ NoticesOld /\ PollInv /\ poll \in Poll
  BY DEF ReviewInv, ReviewTypeOK
<1>3. /\ poll'.stage = "next" /\ poll'.todo = Tail(poll.todo) /\ poll'.clean = FALSE
      /\ poll'.now = poll.now /\ poll'.session = poll.session /\ poll'.seen = poll.seen
      /\ poll'.told = poll.told /\ poll'.clash = poll.clash
  BY <1>1, <1>2 DEF Poll
<1>4. poll'.todo \in Seq(Categories)
  BY <1>1, <1>3, TodoLeft
<1>5. poll' \in Poll
  BY <1>1, <1>2, <1>3, <1>4 DEF Poll
<1>6. ReviewTypeOK'
  BY <1>1, <1>2, <1>5 DEF ReviewTypeOK, Due, ToNotify, ToEscalate, Fetched
<1>7. NoticesOld'
  BY <1>1, <1>2, <1>3 DEF NoticesOld
<1>8. SessionIs'
  <2>1. SessionIs /\ DoneWith \subseteq DoneWith'
    BY <1>1, <1>2, <1>3, TodoLeft DEF PollInv
  <2> QED BY <2>1, <1>1, <1>3 DEF SessionIs
<1>9. PollInv'
  BY <1>1, <1>2, <1>3, <1>8, TodoLeft DEF PollInv
<1> QED BY <1>6, <1>7, <1>9 DEF ReviewInv

LEMMA FetchKeeps == ReviewInv /\ FetchCategory => ReviewInv'
<1>1. SUFFICES ASSUME ReviewInv, FetchCategory PROVE ReviewInv'
  OBVIOUS
<1> DEFINE seen == [i \in Items |-> IF queue[i].category = Polling THEN Polling ELSE poll.seen[i]]
<1>2. ReviewTypeOK /\ NoticesOld /\ PollInv /\ poll \in Poll
  BY <1>1 DEF ReviewInv, ReviewTypeOK
<1>3. /\ poll.stage = "next" /\ poll.todo # <<>> /\ UNCHANGED <<clock, queue, notices, messaged>>
      /\ overdue' \subseteq overdue
      /\ poll' = [poll EXCEPT !.stage = "fetched", !.seen = seen]
  BY <1>1 DEF FetchCategory
<1>4. Polling \in Categories /\ NoCategory # Polling
  BY <1>2, <1>3, ReviewAssumption DEF Poll, Polling
<1>5. seen \in [Items -> Categories \union {NoCategory}]
  BY <1>2, <1>4 DEF Poll
<1>6. \A i \in Items : seen[i] = IF queue[i].category = Polling THEN Polling ELSE poll.seen[i]
  OBVIOUS
<1> HIDE DEF seen
<1>7. /\ poll'.stage = "fetched" /\ poll'.todo = poll.todo /\ poll'.now = poll.now
      /\ poll'.session = poll.session /\ poll'.seen = seen /\ poll'.clean = poll.clean /\ poll' \in Poll
      /\ poll'.told = poll.told /\ poll'.clash = poll.clash
  BY <1>2, <1>3, <1>5 DEF Poll
<1>8. Polling' = Polling /\ DoneWith' = DoneWith /\ DoneCount' = DoneCount
  BY <1>7 DEF Polling, DoneWith, DoneCount
<1>9. ReviewTypeOK'
  BY <1>2, <1>3, <1>7 DEF ReviewTypeOK
<1>10. NoticesOld'
  BY <1>2, <1>3, <1>4, <1>6, <1>7 DEF NoticesOld
<1>11. ASSUME Settled PROVE Settled'
  <2>1. \A i \in Items : ~ AtHand(i) /\ Aged(i)' = Aged(i) /\ (AtHand(i)' <=> seen[i] = Polling)
    BY <1>3, <1>7, <1>8 DEF AtHand, Aged
  <2>2. ASSUME NEW i \in Items, seen[i] # NoCategory, Aged(i), seen[i] # Polling
        PROVE  poll.session[i].category = seen[i] /\ poll.now < poll.session[i].last + EscalationHours
    BY <2>1, <2>2, <1>6, <1>11 DEF Settled
  <2>3. ASSUME NEW i \in Items, poll.session[i].category \in DoneWith, seen[i] # Polling
        PROVE  seen[i] = poll.session[i].category
    <3>1. poll.seen[i] = poll.session[i].category
      BY <2>1, <2>3, <1>11 DEF Settled
    <3> QED BY <3>1, <2>3, <1>6
  <2> QED BY <2>1, <2>2, <2>3, <1>7, <1>8 DEF Settled
<1>12. SessionIs'
  <2>1. SessionIs /\ Polling \notin DoneWith
    BY <1>1, <1>2, <1>3, PollingIsNew DEF PollInv
  <2>2. \A i \in Items : notices[i].category \in DoneWith \ {poll.seen[i]}
                         => notices[i].category \in DoneWith \ {seen[i]}
    BY <2>1, <1>6
  <2> QED BY <2>1, <2>2, <1>3, <1>7, <1>8 DEF SessionIs
<1>13. PollInv'
  BY <1>2, <1>3, <1>7, <1>8, <1>11, <1>12 DEF PollInv
<1> QED BY <1>9, <1>10, <1>13 DEF ReviewInv

LEMMA NotifyKeeps == ReviewInv /\ NotifyCategory => ReviewInv'
<1>1. SUFFICES ASSUME ReviewInv, NotifyCategory PROVE ReviewInv'
  OBVIOUS
<1>2. ReviewTypeOK /\ NoticesOld /\ PollInv /\ poll \in Poll
  BY <1>1 DEF ReviewInv, ReviewTypeOK
<1>3. /\ poll.stage = "fetched" /\ poll.todo # <<>> /\ UNCHANGED <<clock, queue, notices>>
      /\ messaged' = messaged \union Due /\ overdue' \subseteq overdue \union Due
      /\ poll' = [poll EXCEPT !.stage = "next", !.todo = Tail(@), !.session = Noted, !.told = @ \union Due,
                              !.clash = @ \/ Clashing]
  BY <1>1, <1>2 DEF NotifyCategory, PollInv
<1>4. Clashing \in BOOLEAN
  BY DEF Clashing
<1>5. /\ poll.session \in [Items -> Notice] /\ poll.now \in Times
      /\ poll.seen \in [Items -> Categories \union {NoCategory}] /\ poll.told \subseteq Items
      /\ poll.todo \in Seq(Categories) /\ Polling \in Categories /\ Polling # NoCategory
      /\ EscalationHours \in Nat \ {0} /\ Due \subseteq Items /\ notices \in [Items -> Notice]
  BY <1>2, <1>3, ReviewAssumption DEF ReviewTypeOK, Poll, Polling, Due, ToNotify, ToEscalate, Fetched
<1>6. Noted \in [Items -> Notice]
  BY <1>5, ReviewAssumption DEF Noted, Notice, NoNotice, Times
<1>7. /\ poll'.stage = "next" /\ poll'.todo = Tail(poll.todo) /\ poll'.now = poll.now
      /\ poll'.session = Noted /\ poll'.seen = poll.seen /\ poll'.clean = poll.clean
      /\ poll'.told = poll.told \union Due /\ poll'.clash = (poll.clash \/ Clashing)
  BY <1>2, <1>3 DEF Poll
<1>8. poll' \in Poll
  <2>1. Tail(poll.todo) \in Seq(Categories) /\ (poll.clash \/ Clashing) \in BOOLEAN
    BY <1>3, <1>5
  <2> QED BY <2>1, <1>2, <1>3, <1>4, <1>5, <1>6 DEF Poll
<1>9. ReviewTypeOK'
  BY <1>2, <1>3, <1>5, <1>8 DEF ReviewTypeOK
<1>10. \A i \in Items : /\ i \in Due => Aged(i) /\ poll.seen[i] = Polling
                        /\ i \in Fetched <=> poll.seen[i] = Polling
                        /\ i \in Resolved <=> notices[i].category = Polling /\ poll.seen[i] # Polling
                        /\ i \notin Due /\ Aged(i) /\ poll.seen[i] = Polling =>
                             notices[i].category = Polling /\ ~ (notices[i].last + EscalationHours <= poll.now)
  BY DEF Due, ToNotify, ToEscalate, Fetched, Resolved
<1>11. \A i \in Items :
          /\ i \in Due => Noted[i] = [category |-> Polling, last |-> poll.now]
          /\ i \notin Due /\ i \in Resolved /\ i \notin poll.told => Noted[i] = NoNotice
          /\ i \notin Due /\ (i \notin Resolved \/ i \in poll.told) => Noted[i] = poll.session[i]
  BY DEF Noted
<1>12. NoticesOld'
  <2>1. \A i \in Items : Noted[i].category # NoCategory =>
          queue[i].created + PendingHours <= Noted[i].last /\ Noted[i].last <= poll.now
    BY <1>2, <1>5, <1>10, <1>11 DEF NoticesOld, Aged, NoNotice, Times
  <2> QED BY <2>1, <1>2, <1>3, <1>7 DEF NoticesOld
<1>13. /\ SessionIs /\ Polling \notin DoneWith /\ NoCategory \notin DoneWith
       /\ DoneWith' = DoneWith \union {Polling}
  BY <1>1, <1>2, <1>3, <1>7, PollingIsNew, TodoLeft DEF PollInv
<1>14. SessionIs'
  <2>1. ASSUME NEW i \in Items, i \in Due
        PROVE  /\ Noted[i].category = Polling /\ Noted[i].last = poll.now
               /\ poll'.clash \/ notices[i].category \in {NoCategory, Polling}
    <3>1. Noted[i] = [category |-> Polling, last |-> poll.now]
      BY <2>1, <1>11
    <3>2. CASE i \in ToEscalate
      <4>1. notices[i].category = Polling
        BY <3>2 DEF ToEscalate
      <4> QED BY <3>1, <4>1
    <3>3. CASE i \in ToNotify
      <4>1. ASSUME notices[i].category # NoCategory PROVE Clashing
        <5>1. {notices[i].category, poll.session[i].category} # {NoCategory}
          BY <4>1
        <5> QED BY <3>3, <5>1 DEF Clashing
      <4>2. Clashing => poll'.clash
        BY <1>7
      <4>3. Noted[i].category = Polling /\ Noted[i].last = poll.now
        BY <3>1
      <4> QED BY <4>1, <4>2, <4>3
    <3> QED BY <2>1, <3>2, <3>3 DEF Due
  <2>2. ASSUME NEW i \in Items, i \in poll.told, i \notin Due
        PROVE  /\ Noted[i].category \in DoneWith /\ Noted[i].last = poll.now
               /\ poll'.clash \/ notices[i].category \in {NoCategory, Noted[i].category}
    BY <2>2, <1>7, <1>11, <1>13 DEF SessionIs
  <2>3. ASSUME NEW i \in Items, i \notin poll.told, i \notin Due
        PROVE  \/ Noted[i] = notices[i]
               \/ Noted[i] = NoNotice /\ notices[i].category \in (DoneWith \union {Polling}) \ {poll.seen[i]}
    <3>1. CASE i \in Resolved
      BY <2>3, <3>1, <1>10, <1>11
    <3>2. CASE i \notin Resolved
      BY <2>3, <3>2, <1>11, <1>13 DEF SessionIs
    <3> QED BY <3>1, <3>2
  <2> QED BY <2>1, <2>2, <2>3, <1>3, <1>7, <1>13 DEF SessionIs
<1>15. ASSUME Settled, ~ poll'.clash PROVE Settled'
  <2>1. \A i \in Items : /\ AtHand(i) <=> poll.seen[i] = Polling
                         /\ ~ AtHand(i)' /\ Aged(i)' = Aged(i)
    BY <1>3, <1>7 DEF AtHand, Aged
  <2>2. ASSUME NEW i \in Items, notices[i].category = Polling
        PROVE  poll.session[i] = notices[i] /\ i \notin poll.told
    BY <2>2, <1>5, <1>7, <1>13, <1>15 DEF SessionIs
  <2>3. ASSUME NEW i \in Items, poll.seen[i] = Polling, Aged(i)
        PROVE  Noted[i].category = Polling /\ poll.now < Noted[i].last + EscalationHours
    <3>1. CASE i \in Due
      BY <3>1, <1>5, <1>11 DEF Times
    <3>2. CASE i \notin Due
      <4>1. /\ notices[i].category = Polling /\ ~ (notices[i].last + EscalationHours <= poll.now)
            /\ i \notin Resolved
        BY <2>3, <3>2, <1>10
      <4>2. Noted[i] = notices[i]
        BY <3>2, <4>1, <2>2, <1>11
      <4> QED BY <4>1, <4>2, <1>5 DEF Notice, Times
    <3> QED BY <3>1, <3>2
  <2>4. ASSUME NEW i \in Items, poll.seen[i] = Polling, ~ Aged(i)
        PROVE  Noted[i].category = NoCategory
    <3>1. poll.session[i].category = NoCategory
      <4>1. /\ queue[i].created \in Nat /\ PendingHours \in Nat /\ poll.now \in Nat
            /\ poll.session[i].last \in Nat
        BY <1>2, <1>5, ReviewAssumption DEF ReviewTypeOK, QueueEntry, Unborn, Times, Notice
      <4>2. ~ (queue[i].created + PendingHours <= poll.now)
        BY <2>4 DEF Aged
      <4> QED BY <4>1, <4>2, <1>2 DEF NoticesOld
    <3> QED BY <2>4, <3>1, <1>10, <1>11
  <2>5. ASSUME NEW i \in Items, poll.seen[i] # Polling, Noted[i].category # NoCategory
        PROVE  Noted[i] = poll.session[i] /\ Noted[i].category # Polling
    <3>1. i \notin Due /\ Noted[i] = poll.session[i] /\ (i \notin Resolved \/ i \in poll.told)
      BY <2>5, <1>10, <1>11 DEF NoNotice
    <3>2. notices[i].category # Polling
      BY <2>2, <2>5, <3>1, <1>10
    <3>3. poll.session[i].category # Polling
      BY <2>5, <3>1, <3>2, <1>13 DEF SessionIs, NoNotice
    <3> QED BY <3>1, <3>3
  <2>6. ASSUME NEW i \in Items, poll.seen[i] # NoCategory, Aged(i)
        PROVE  Noted[i].category = poll.seen[i] /\ poll.now < Noted[i].last + EscalationHours
    <3>1. CASE poll.seen[i] = Polling
      BY <2>3, <2>6, <3>1
    <3>2. CASE poll.seen[i] # Polling
      <4>1. /\ poll.session[i].category = poll.seen[i]
            /\ poll.now < poll.session[i].last + EscalationHours
        BY <2>1, <2>6, <3>2, <1>15 DEF Settled
      <4>2. notices[i].category # Polling /\ i \notin Due
        BY <2>2, <3>2, <4>1, <1>10
      <4> QED BY <4>1, <4>2, <1>10, <1>11
    <3> QED BY <3>1, <3>2
  <2>7. ASSUME NEW i \in Items, Noted[i].category \in DoneWith \union {Polling}
        PROVE  poll.seen[i] = Noted[i].category
    <3>1. Noted[i].category # NoCategory
      BY <2>7, <1>5, <1>13
    <3>2. CASE poll.seen[i] = Polling
      BY <2>3, <2>4, <3>1, <3>2
    <3>3. CASE poll.seen[i] # Polling
      BY <2>1, <2>5, <2>7, <3>1, <3>3, <1>15 DEF Settled
    <3> QED BY <3>2, <3>3
  <2> QED BY <2>1, <2>6, <2>7, <1>7, <1>13 DEF Settled
<1>16. PollInv'
  <2>1. ~ poll'.clash => ~ poll.clash
    BY <1>7
  <2> QED BY <2>1, <1>1, <1>2, <1>3, <1>7, <1>14, <1>15, TodoLeft DEF PollInv
<1> QED BY <1>9, <1>12, <1>16 DEF ReviewInv

LEMMA QueueKeeps ==
    ASSUME ReviewInv, NEW i \in Items, Decide(i) \/ \E c \in Categories : Submit(i, c) \/ MoveItem(i, c)
    PROVE  ReviewInv'
<1>1. ReviewTypeOK /\ NoticesOld /\ clock \in Times /\ queue[i] \in QueueEntry
  BY DEF ReviewInv, ReviewTypeOK
<1> DEFINE Goes(entry) ==
             /\ entry.category # NoCategory => entry.created \in Times
             /\ queue[i].created \in Times => entry.created = queue[i].created
<1>2. \E entry \in QueueEntry : ChangeQueue(i, entry) /\ Goes(entry)
  <2>1. CASE Decide(i)
    <3> DEFINE entry == [queue[i] EXCEPT !.category = NoCategory]
    <3>1. entry \in QueueEntry /\ entry.category = NoCategory /\ entry.created = queue[i].created
      BY <1>1 DEF QueueEntry
    <3> QED BY <2>1, <3>1 DEF Decide
  <2>2. ASSUME NEW c \in Categories, Submit(i, c) PROVE <1>2
    <3> DEFINE entry == [category |-> c, created |-> clock]
    <3>1. entry \in QueueEntry /\ entry.created = clock
      BY <1>1 DEF QueueEntry
    <3>2. queue[i].created \notin Times
      BY <2>2, ReviewAssumption DEF Submit, Unborn, Times
    <3> QED BY <1>1, <2>2, <3>1, <3>2 DEF Submit
  <2>3. ASSUME NEW c \in Categories, MoveItem(i, c) PROVE <1>2
    <3> DEFINE entry == [queue[i] EXCEPT !.category = c]
    <3>1. entry \in QueueEntry /\ entry.created = queue[i].created
      BY <1>1 DEF QueueEntry
    <3>2. queue[i].created \in Times
      BY <1>1, <2>3 DEF MoveItem, NoticesOld
    <3> QED BY <2>3, <3>1, <3>2 DEF MoveItem
  <2> QED BY <2>1, <2>2, <2>3
<1>3. PICK entry \in QueueEntry : ChangeQueue(i, entry) /\ Goes(entry)
  BY <1>2
<1>4. /\ queue' = [queue EXCEPT ![i] = entry] /\ UNCHANGED <<clock, notices, messaged, poll>>
      /\ overdue' \subseteq overdue \union messaged
  <2>1. ChangeQueue(i, entry)
    BY <1>3
  <2> QED BY <2>1 DEF ChangeQueue
<1>5. /\ queue' \in [Items -> QueueEntry]
      /\ \A j \in Items : queue'[j] = IF j = i THEN entry ELSE queue[j]
  BY <1>1, <1>4 DEF ReviewTypeOK
<1>6. ReviewTypeOK'
  BY <1>1, <1>4, <1>5 DEF ReviewTypeOK
<1>7. \A j \in Items : /\ queue'[j].category # NoCategory => queue'[j].created \in Times
                       /\ queue[j].created \in Times => queue'[j].created = queue[j].created
  <2>1. \A j \in Items : queue[j].category # NoCategory => queue[j].created \in Times
    BY <1>1 DEF NoticesOld
  <2>2. Goes(entry)
    BY <1>3
  <2> QED BY <2>1, <2>2, <1>5
<1>8. clock <= clock' /\ clock' \in Times /\ UNCHANGED <<poll, notices>>
  BY <1>1, <1>4 DEF Times
<1> QED BY <1>5, <1>6, <1>7, <1>8, PollStays

LEMMA ReviewSteps == ReviewInv /\ [ReviewNext]_reviewVars => ReviewInv'
<1>1. SUFFICES ASSUME ReviewInv, [ReviewNext]_reviewVars PROVE ReviewInv'
  OBVIOUS
<1>2. /\ ReviewTypeOK /\ NoticesOld /\ PollInv /\ poll \in Poll /\ clock \in Times /\ MaxTime \in Nat
      /\ queue \in [Items -> QueueEntry]
  BY <1>1, ReviewAssumption DEF ReviewInv, ReviewTypeOK
<1>3. CASE UNCHANGED reviewVars \/ Tick
  <2>1. UNCHANGED <<queue, notices, messaged, poll>> /\ overdue' \subseteq overdue \union Valid
    BY <1>3 DEF reviewVars, Tick
  <2>2. clock <= clock' /\ clock' \in Times
    BY <1>2, <1>3 DEF reviewVars, Tick, Times
  <2>3. ReviewTypeOK'
    BY <1>2, <2>1, <2>2 DEF ReviewTypeOK, Valid
  <2>4. \A j \in Items : queue[j].category # NoCategory => queue[j].created \in Times
    BY <1>2 DEF NoticesOld
  <2> QED BY <1>1, <1>2, <2>1, <2>2, <2>3, <2>4, PollStays
<1>4. CASE Commit \/ CommitFails \/ AbortPoll
  <2>1. /\ poll' = Asleep /\ UNCHANGED <<queue, clock, messaged>> /\ notices' \in {notices, poll.session}
        /\ overdue' \subseteq overdue \union Items
    BY <1>2, <1>4 DEF Commit, CommitFails, AbortPoll, LoseSession, Outdated, Poll, Valid
  <2>2. Asleep \in Poll
    BY <1>2, ReviewAssumption DEF Asleep, Poll, NoNotices, NoNotice, Notice, Times
  <2>3. ReviewTypeOK'
    BY <1>2, <2>1, <2>2 DEF ReviewTypeOK, Poll
  <2> QED BY <1>1, <2>1, <2>3, RunGoesToSleep
<1> QED
  BY <1>1, <1>3, <1>4, QueueKeeps, StartKeeps, FailureKeeps, FetchKeeps, NotifyKeeps DEF ReviewNext, PollStep

\* The notices of a run: who has one was old enough, and is where it was seen.
THEOREM ReviewInvariant == ReviewSpec => []ReviewInv
BY ReviewStart, ReviewSteps, PTL DEF ReviewSpec

\* A run without errors that commits leaves the table settled, whatever the queue did
\* meanwhile, for any items, categories and times.
THEOREM CleanPollsSettle == ReviewSpec => CleanPollSettles
<1> DEFINE SettlesAll ==
      Commit /\ poll.clean =>
         \A i \in Items :
            /\ poll.seen[i] # NoCategory /\ Aged(i) =>
                 /\ notices'[i].category = poll.seen[i]
                 /\ poll.now < notices'[i].last + EscalationHours
            /\ \A n \in DOMAIN Polled :
                 notices'[i].category = Polled[n] => poll.seen[i] = Polled[n]
<1>1. ReviewInv => SettlesAll
  <2>1. SUFFICES ASSUME ReviewInv, Commit, poll.clean, NEW i \in Items
                 PROVE  /\ poll.seen[i] # NoCategory /\ Aged(i) =>
                             /\ notices'[i].category = poll.seen[i]
                             /\ poll.now < notices'[i].last + EscalationHours
                        /\ \A n \in DOMAIN Polled :
                             notices'[i].category = Polled[n] => poll.seen[i] = Polled[n]
    OBVIOUS
  <2>2. /\ poll.stage = "next" /\ poll.todo = <<>> /\ notices' = poll.session /\ Settled /\ ~ AtHand(i)
    BY <2>1 DEF Commit, ReviewInv, PollInv, AtHand
  <2>3. DoneWith = {Polled[n] : n \in DOMAIN Polled}
    BY <2>2, ReviewAssumption DEF DoneWith, DoneCount
  <2> QED BY <2>2, <2>3 DEF Settled
<1>2. ReviewInv /\ [ReviewNext]_reviewVars => [SettlesAll]_reviewVars
  <2> HIDE DEF SettlesAll
  <2> QED BY <1>1
<1>3. ReviewSpec => [][SettlesAll]_reviewVars
  <2> HIDE DEF SettlesAll
  <2> QED BY <1>2, ReviewInvariant, PTL DEF ReviewSpec
<1> QED BY <1>3 DEF CleanPollSettles

-----------------------------------------------------------------------------
(* The notices are announcements *)

\* Told by this run, which will note it where it still is.
JustTold(i) ==
    /\ i \in poll.told /\ poll.seen[i] # NoCategory /\ queue[i].category = poll.seen[i]
    /\ poll.session[i] = [category |-> poll.seen[i], last |-> poll.now]

(* A message was sent about whatever is noted; and whatever a message was   *)
(* sent about is on record, overdue or about to be noted.                   *)
Accounted ==
    /\ overdue \subseteq messaged /\ poll.told \subseteq messaged
    /\ \A i \in Items : notices[i].category # NoCategory => i \in messaged
    /\ \A i \in messaged : i \in Valid \/ i \in overdue \/ JustTold(i)

RecordInv == ReviewInv /\ Accounted

\* What is told of every step.
Remembers ==
    /\ RecordInv'
    /\ [ReviewAnnouncements!AnnouncementsNext]_<<messaged, Valid, overdue>>

LEMMA RecordStart == ReviewInit => RecordInv /\ ReviewAnnouncements!AnnouncementsInit
<1>1. SUFFICES ASSUME ReviewInit PROVE RecordInv /\ ReviewAnnouncements!AnnouncementsInit
  OBVIOUS
<1>2. /\ poll.stage = "asleep" /\ poll.session = NoNotices /\ poll.told = {} /\ poll.clash = FALSE
      /\ \A i \in Items : poll.seen[i] = NoCategory
      /\ notices = NoNotices /\ messaged = {} /\ overdue = {}
  BY <1>1 DEF ReviewInit, Asleep
<1>3. \A i \in Items : NoNotices[i].category = NoCategory
  BY DEF NoNotices, NoNotice
<1>4. Valid = {}
  BY <1>2, <1>3 DEF Valid
<1>5. Accounted
  BY <1>2, <1>3 DEF Accounted
<1> QED BY <1>1, <1>2, <1>4, <1>5, ReviewStart DEF RecordInv, ReviewAnnouncements!AnnouncementsInit

\* A step that sends no message: what goes off the record is overdue, what goes on it is not.
LEMMA RecordChanges ==
    ASSUME messaged \subseteq Items, messaged' = messaged, Valid \subseteq messaged, Valid' \subseteq messaged,
           NEW X, X \subseteq messaged, overdue' = (overdue \union X) \ Valid', Valid \ Valid' \subseteq overdue'
    PROVE  ReviewAnnouncements!AnnouncementsNext
<1> DEFINE S == Valid'
           F == (Valid \ Valid') \union (X \ Valid')
<1>1. S \in SUBSET Items /\ F \in SUBSET Items /\ S \union F \subseteq messaged /\ S \cap F = {}
  OBVIOUS
<1>2. Valid' = (Valid \union S) \ F
  OBVIOUS
<1>3. overdue' = (overdue \ S) \union F
  OBVIOUS
<1>4. ReviewAnnouncements!Update(S, F)
  BY <1>1, <1>2, <1>3 DEF ReviewAnnouncements!Update
<1> QED BY <1>1, <1>4 DEF ReviewAnnouncements!AnnouncementsNext

\* The types of what the steps below are about.
LEMMA RecordTypes ==
    ASSUME RecordInv
    PROVE  /\ ReviewInv /\ Accounted /\ PollInv /\ poll \in Poll /\ messaged \subseteq Items
           /\ queue \in [Items -> QueueEntry] /\ notices \in [Items -> Notice] /\ overdue \subseteq Items
           /\ clock \in Nat /\ poll.now \in Nat /\ poll.now <= clock /\ EscalationHours \in Nat \ {0}
           /\ \A i \in Items : notices[i].last \in Nat /\ poll.session[i].last \in Nat
           /\ poll.clash \in BOOLEAN /\ Valid \subseteq messaged
           /\ poll.seen \in [Items -> Categories \union {NoCategory}]
<1>1. ReviewTypeOK /\ Accounted /\ PollInv /\ ReviewInv
  BY DEF RecordInv, ReviewInv
<1>2. poll \in Poll /\ clock \in Times /\ notices \in [Items -> Notice]
  BY <1>1 DEF ReviewTypeOK
<1>3. Valid \subseteq messaged
  BY <1>1 DEF Accounted, Valid
<1>4. \A i \in Items : notices[i].last \in Nat /\ poll.session[i].last \in Nat
  BY <1>2 DEF Poll, Notice, Times
<1> QED BY <1>1, <1>2, <1>3, <1>4, ReviewAssumption DEF ReviewTypeOK, Poll, Times, PollInv

LEMMA RecordItem ==
    ASSUME RecordInv, NEW i \in Items, Decide(i) \/ \E c \in Categories : Submit(i, c) \/ MoveItem(i, c)
    PROVE  Remembers
<1>1. PICK entry : ChangeQueue(i, entry)
  BY DEF Decide, Submit, MoveItem
<1>2. /\ queue' = [queue EXCEPT ![i] = entry] /\ UNCHANGED <<clock, notices, messaged, poll>>
      /\ overdue' = (overdue \union ({i} \cap messaged)) \ Valid'
  BY <1>1 DEF ChangeQueue
<1>3. /\ Accounted /\ messaged \subseteq Items /\ Valid \subseteq messaged
      /\ queue \in [Items -> QueueEntry]
  BY RecordTypes
<1>4. \A j \in Items \ {i} : queue'[j] = queue[j]
  BY <1>2, <1>3
<1>5. \A j \in Items \ {i} : (j \in Valid <=> j \in Valid') /\ (JustTold(j) <=> JustTold(j)')
  BY <1>2, <1>4 DEF Valid, JustTold
<1>6. Valid' \subseteq messaged
  BY <1>2, <1>3 DEF Valid, Accounted
<1>7. Valid \ Valid' \subseteq overdue'
  BY <1>2, <1>3, <1>5
<1>8. ReviewAnnouncements!AnnouncementsNext
  BY <1>2, <1>3, <1>6, <1>7, RecordChanges
<1>9. Accounted'
  <2>1. \A j \in messaged : j \in Valid' \/ j \in overdue' \/ JustTold(j)'
    BY <1>2, <1>3, <1>5 DEF Accounted
  <2> QED BY <1>2, <1>3, <2>1 DEF Accounted
<1>10. ReviewInv'
  BY QueueKeeps DEF RecordInv
<1> QED BY <1>8, <1>9, <1>10 DEF Remembers, RecordInv

LEMMA RecordTick == RecordInv /\ Tick => Remembers
<1>1. SUFFICES ASSUME RecordInv, Tick PROVE Remembers
  OBVIOUS
<1>2. /\ clock' = clock + 1 /\ UNCHANGED <<queue, notices, messaged, poll>>
      /\ overdue' = overdue \union (Valid \ Valid')
  BY <1>1 DEF Tick
<1>3. /\ Accounted /\ messaged \subseteq Items /\ Valid \subseteq messaged
      /\ clock \in Nat /\ EscalationHours \in Nat /\ \A i \in Items : notices[i].last \in Nat
  BY <1>1, RecordTypes
<1>4. Valid' \subseteq Valid
  BY <1>2, <1>3 DEF Valid
<1>5. ReviewAnnouncements!AnnouncementsNext
  <2> DEFINE F == Valid \ Valid'
  <2>1. F \in SUBSET Items /\ {} \in SUBSET Items /\ {} \union F \subseteq messaged
    BY <1>3
  <2>2. Valid' = (Valid \union {}) \ F /\ overdue' = (overdue \ {}) \union F
    BY <1>2, <1>4
  <2>3. ReviewAnnouncements!Update({}, F)
    BY <1>2, <2>1, <2>2 DEF ReviewAnnouncements!Update
  <2> QED BY <2>1, <2>3 DEF ReviewAnnouncements!AnnouncementsNext
<1>6. Accounted'
  <2>1. \A j \in messaged : JustTold(j) <=> JustTold(j)'
    BY <1>2 DEF JustTold
  <2> QED BY <1>2, <1>3, <2>1 DEF Accounted
<1>7. ReviewInv'
  BY <1>1, ReviewSteps DEF RecordInv, ReviewNext
<1> QED BY <1>5, <1>6, <1>7 DEF Remembers, RecordInv

LEMMA RecordStutter == RecordInv /\ UNCHANGED reviewVars => Remembers
<1>1. SUFFICES ASSUME RecordInv, UNCHANGED reviewVars PROVE Remembers
  OBVIOUS
<1>2. UNCHANGED <<clock, queue, notices, messaged, overdue, poll>>
  BY <1>1 DEF reviewVars
<1>3. UNCHANGED <<messaged, Valid, overdue>>
  BY <1>2 DEF Valid
<1>4. ReviewInv'
  BY <1>1, ReviewSteps DEF RecordInv
<1>5. Accounted'
  BY <1>1, <1>2 DEF RecordInv, Accounted, JustTold, Valid
<1> QED BY <1>3, <1>4, <1>5 DEF Remembers, RecordInv

LEMMA RecordStartPoll == RecordInv /\ StartPoll => Remembers
<1>1. SUFFICES ASSUME RecordInv, StartPoll PROVE Remembers
  OBVIOUS
<1>2. /\ poll.stage = "asleep" /\ poll'.stage = "next" /\ poll'.todo = Polled /\ poll'.session = notices
      /\ poll'.seen = [i \in Items |-> NoCategory] /\ poll'.clash = FALSE /\ poll'.told = {}
      /\ UNCHANGED <<clock, queue, notices, messaged, overdue>>
  BY <1>1 DEF StartPoll, Asleep
<1>3. Accounted /\ PollInv
  BY <1>1, RecordTypes
<1>4. \A i \in Items : poll.seen[i] = NoCategory /\ poll'.seen[i] = NoCategory /\ ~ JustTold(i)
  BY <1>2, <1>3 DEF PollInv, JustTold
<1>5. Valid' = Valid
  BY <1>2, <1>4 DEF Valid
<1>6. Accounted'
  <2>1. messaged \subseteq Items
    BY <1>1, RecordTypes
  <2>2. \A j \in messaged : j \in Valid' \/ j \in overdue'
    BY <1>2, <1>3, <1>4, <1>5, <2>1 DEF Accounted
  <2> QED BY <1>2, <1>3, <2>2 DEF Accounted
<1>7. ReviewInv'
  BY <1>1, StartKeeps DEF RecordInv
<1> QED BY <1>2, <1>5, <1>6, <1>7 DEF Remembers, RecordInv

LEMMA RecordSkip == RecordInv /\ SkipCategory => Remembers
<1>1. SUFFICES ASSUME RecordInv, SkipCategory PROVE Remembers
  OBVIOUS
<1>2. Accounted /\ ReviewInv /\ poll \in Poll /\ messaged \subseteq Items
  BY <1>1, RecordTypes
<1>3. /\ poll'.seen = poll.seen /\ poll'.session = poll.session /\ poll'.now = poll.now
      /\ poll'.told = poll.told /\ UNCHANGED <<clock, queue, notices, messaged, overdue>>
  BY <1>1, <1>2 DEF SkipCategory, Poll
<1>4. Valid' = Valid /\ \A i \in Items : JustTold(i)' <=> JustTold(i)
  BY <1>3 DEF Valid, JustTold
<1>5. Accounted'
  BY <1>2, <1>3, <1>4 DEF Accounted
<1>6. ReviewInv'
  BY <1>1, <1>2, FailureKeeps
<1> QED BY <1>3, <1>4, <1>5, <1>6 DEF Remembers, RecordInv

LEMMA RecordFetch == RecordInv /\ FetchCategory => Remembers
<1>1. SUFFICES ASSUME RecordInv, FetchCategory PROVE Remembers
  OBVIOUS
<1>2. Accounted /\ PollInv /\ ReviewInv /\ poll \in Poll /\ messaged \subseteq Items /\ Valid \subseteq messaged
  BY <1>1, RecordTypes
<1>3. /\ poll.stage = "next" /\ poll.todo # <<>>
      /\ poll'.seen = [i \in Items |-> IF queue[i].category = Polling THEN Polling ELSE poll.seen[i]]
      /\ poll'.session = poll.session /\ poll'.now = poll.now /\ poll'.told = poll.told
      /\ UNCHANGED <<clock, queue, notices, messaged>> /\ overdue' = overdue \ Valid'
  BY <1>1, <1>2 DEF FetchCategory, Poll
<1>4. \A i \in Items : poll'.seen[i] = IF queue[i].category = Polling THEN Polling ELSE poll.seen[i]
  BY <1>3
<1>5. Valid \subseteq Valid' /\ Valid' \subseteq messaged
  BY <1>2, <1>3, <1>4 DEF Valid, Accounted
<1>6. \A i \in Items : JustTold(i) => JustTold(i)'
  <2>1. SUFFICES ASSUME NEW i \in Items, JustTold(i) PROVE JustTold(i)'
    OBVIOUS
  <2>2. poll'.seen[i] = poll.seen[i]
    BY <1>4, <2>1 DEF JustTold
  <2> QED BY <1>3, <2>1, <2>2 DEF JustTold
<1>7. Accounted'
  BY <1>2, <1>3, <1>5, <1>6 DEF Accounted
<1>8. ReviewAnnouncements!AnnouncementsNext
  BY <1>2, <1>3, <1>5, RecordChanges, overdue' = (overdue \union {}) \ Valid', {} \subseteq messaged
<1>9. ReviewInv'
  BY <1>1, <1>2, FetchKeeps
<1> QED BY <1>7, <1>8, <1>9 DEF Remembers, RecordInv

\* What is about to be told is not on record, and what was told of it before is overdue.
LEMMA DueIsOverdue ==
    ASSUME RecordInv, poll.stage = "fetched"
    PROVE  Due \cap Valid = {} /\ Due \cap messaged \subseteq overdue
<1>1. /\ Accounted /\ PollInv /\ ReviewInv /\ poll \in Poll /\ clock \in Nat /\ poll.now \in Nat
      /\ poll.now <= clock /\ EscalationHours \in Nat \ {0}
      /\ \A i \in Items : notices[i].last \in Nat /\ poll.session[i].last \in Nat
  BY RecordTypes
<1>2. Polling \notin DoneWith /\ Polling # NoCategory /\ SessionIs
  BY <1>1, PollingIsNew DEF PollInv
<1>3. \A i \in Due : i \in Items /\ poll.seen[i] = Polling
  BY DEF Due, ToNotify, ToEscalate, Fetched
<1>4. ASSUME NEW i \in Due PROVE i \notin Valid
  <2>1. SUFFICES ASSUME i \in Valid PROVE FALSE
    OBVIOUS
  <2>2. notices[i].category = Polling /\ clock < notices[i].last + EscalationHours
    BY <1>2, <1>3, <1>4, <2>1 DEF Valid
  <2>3. notices[i].last + EscalationHours <= poll.now
    BY <1>4, <2>2 DEF Due, ToNotify, ToEscalate
  <2> QED BY <1>1, <1>3, <1>4, <2>2, <2>3
<1>5. ASSUME NEW i \in Due, i \in messaged PROVE i \in overdue
  <2>1. SUFFICES ASSUME JustTold(i) PROVE FALSE
    BY <1>1, <1>4, <1>5 DEF Accounted
  <2>2. i \in poll.told /\ poll.session[i].category = Polling
    BY <1>3, <1>5, <2>1 DEF JustTold
  <2> QED BY <1>2, <1>3, <1>5, <2>2 DEF SessionIs
<1> QED BY <1>4, <1>5

LEMMA RecordNotify == RecordInv /\ NotifyCategory => Remembers
<1>1. SUFFICES ASSUME RecordInv, NotifyCategory PROVE Remembers
  OBVIOUS
<1>2. Accounted /\ PollInv /\ ReviewInv /\ poll \in Poll /\ messaged \subseteq Items /\ Valid \subseteq messaged
  BY <1>1, RecordTypes
<1> DEFINE Left == {i \in Due : queue[i].category # Polling}
<1>3. /\ poll.stage = "fetched" /\ poll.todo # <<>> /\ UNCHANGED <<clock, queue, notices>>
      /\ messaged' = messaged \union Due /\ overdue' = (overdue \ Due) \union Left
      /\ poll'.seen = poll.seen /\ poll'.session = Noted /\ poll'.now = poll.now
      /\ poll'.told = poll.told \union Due
  BY <1>1, <1>2 DEF NotifyCategory, PollInv, Poll
<1>4. Due \subseteq Items /\ (\A i \in Due : poll.seen[i] = Polling) /\ Polling # NoCategory
  BY <1>2, <1>3, PollingIsNew DEF Due, ToNotify, ToEscalate, Fetched
<1>5. \A i \in Items : /\ i \in Due => Noted[i] = [category |-> Polling, last |-> poll.now]
                       /\ i \notin Due /\ i \in poll.told => Noted[i] = poll.session[i]
  BY DEF Noted
<1>6. Valid' = Valid
  BY <1>3 DEF Valid
<1>7. ReviewAnnouncements!AnnouncementsNext
  <2>1. Due \cap Valid = {} /\ Due \cap messaged \subseteq overdue
    BY <1>1, <1>3, DueIsOverdue
  <2>2. ReviewAnnouncements!Announce(Due, Left)
    BY <1>3, <1>6, <2>1 DEF ReviewAnnouncements!Announce
  <2> QED BY <1>4, <2>2 DEF ReviewAnnouncements!AnnouncementsNext
<1>8. Accounted'
  <2>1. \A i \in Items : notices[i].category # NoCategory => i \in messaged \union Due
    BY <1>2 DEF Accounted
  <2>2. ASSUME NEW i \in Due PROVE i \in overdue' \/ JustTold(i)'
    BY <1>3, <1>4, <1>5, <2>2 DEF JustTold
  <2>3. ASSUME NEW i \in messaged \ Due PROVE i \in Valid' \/ i \in overdue' \/ JustTold(i)'
    <3>1. CASE i \in Valid \/ i \in overdue
      BY <1>3, <1>6, <2>3, <3>1
    <3>2. CASE JustTold(i)
      BY <1>2, <1>3, <1>5, <2>3, <3>2 DEF JustTold
    <3> QED BY <1>2, <2>3, <3>1, <3>2 DEF Accounted
  <2> QED BY <1>2, <1>3, <2>1, <2>2, <2>3 DEF Accounted
<1>9. ReviewInv'
  BY <1>1, <1>2, NotifyKeeps
<1> QED BY <1>7, <1>8, <1>9 DEF Remembers, RecordInv

LEMMA RecordNotifyFails == RecordInv /\ NotifyFails => Remembers
<1>1. SUFFICES ASSUME RecordInv, NotifyFails PROVE Remembers
  OBVIOUS
<1>2. Accounted /\ ReviewInv /\ poll \in Poll /\ messaged \subseteq Items /\ Valid \subseteq messaged
  BY <1>1, RecordTypes
<1>3. /\ poll.stage = "fetched" /\ poll'.seen = poll.seen /\ poll'.session = poll.session /\ poll'.now = poll.now
      /\ poll'.told = poll.told /\ UNCHANGED <<clock, queue, notices>>
      /\ \/ UNCHANGED <<messaged, overdue>>
         \/ messaged' = messaged \union Due /\ overdue' = overdue \union Due
  BY <1>1, <1>2 DEF NotifyFails, Poll
<1>4. Valid' = Valid /\ Due \subseteq Items /\ \A i \in Items : JustTold(i)' <=> JustTold(i)
  BY <1>3 DEF Valid, JustTold, Due, ToNotify, ToEscalate, Fetched
<1>5. Accounted'
  <2>1. \A i \in messaged : i \in Valid' \/ i \in overdue' \/ JustTold(i)'
    BY <1>2, <1>3, <1>4 DEF Accounted
  <2>2. \A i \in messaged' : i \in messaged \/ i \in overdue'
    BY <1>3
  <2>3. messaged \subseteq messaged' /\ overdue' \subseteq messaged'
    BY <1>2, <1>3 DEF Accounted
  <2> QED BY <1>2, <1>3, <2>1, <2>2, <2>3 DEF Accounted
<1>6. [ReviewAnnouncements!AnnouncementsNext]_<<messaged, Valid, overdue>>
  <2>1. CASE UNCHANGED <<messaged, overdue>>
    BY <1>4, <2>1
  <2>2. CASE messaged' = messaged \union Due /\ overdue' = overdue \union Due
    <3>1. Due \cap Valid = {} /\ Due \cap messaged \subseteq overdue
      BY <1>1, <1>3, DueIsOverdue
    <3>2. overdue' = (overdue \ Due) \union Due
      BY <2>2
    <3>3. ReviewAnnouncements!Announce(Due, Due)
      BY <1>4, <2>2, <3>1, <3>2 DEF ReviewAnnouncements!Announce
    <3> QED BY <1>4, <3>3 DEF ReviewAnnouncements!AnnouncementsNext
  <2> QED BY <1>3, <2>1, <2>2
<1>7. ReviewInv'
  BY <1>1, <1>2, FailureKeeps
<1> QED BY <1>5, <1>6, <1>7 DEF Remembers, RecordInv

\* What is on record and was not told by the run keeps its notice, where it was seen.
LEMMA CommitHolds ==
    ASSUME RecordInv, Commit, NEW i \in Valid, poll.seen[i] = queue[i].category
    PROVE  \/ poll.session[i] = notices[i]
           \/ poll.session[i] = [category |-> queue[i].category, last |-> poll.now]
<1>1. PollInv /\ poll \in Poll /\ i \in Items
  BY RecordTypes DEF Valid
<1>2. SessionIs /\ ~ poll.clash /\ poll.session[i] \in Notice
  BY <1>1 DEF Commit, PollInv, Poll
<1>3. notices[i].category = poll.seen[i] /\ notices[i].category # NoCategory
  BY DEF Valid
<1>4. CASE i \in poll.told
  <2>1. /\ notices[i].category \in {NoCategory, poll.session[i].category}
        /\ poll.session[i].last = poll.now
    BY <1>1, <1>2, <1>4 DEF SessionIs
  <2>2. poll.session[i].category = queue[i].category
    BY <1>3, <2>1
  <2> QED BY <1>2, <2>1, <2>2 DEF Notice
<1>5. CASE i \notin poll.told
  BY <1>1, <1>2, <1>3, <1>5 DEF SessionIs
<1> QED BY <1>4, <1>5

LEMMA RecordEnd == RecordInv /\ (Commit \/ CommitFails \/ AbortPoll) => Remembers
<1>1. SUFFICES ASSUME RecordInv, Commit \/ CommitFails \/ AbortPoll PROVE Remembers
  OBVIOUS
<1>2. /\ Accounted /\ PollInv /\ ReviewInv /\ poll \in Poll /\ messaged \subseteq Items
      /\ Valid \subseteq messaged /\ clock \in Nat /\ poll.now \in Nat /\ EscalationHours \in Nat \ {0}
      /\ \A i \in Items : notices[i].last \in Nat /\ poll.session[i].last \in Nat
  BY <1>1, RecordTypes
<1> DEFINE X == IF Commit THEN Outdated ELSE poll.told
<1>3. /\ poll' = Asleep /\ UNCHANGED <<clock, queue, messaged>> /\ poll.stage # "asleep"
      /\ overdue' = (overdue \union X) \ Valid' /\ notices' = IF Commit THEN poll.session ELSE notices
  BY <1>1 DEF Commit, CommitFails, AbortPoll, LoseSession
<1>4. X \subseteq messaged
  BY <1>2 DEF Accounted, Outdated
<1>5. /\ poll'.told = {} /\ \A i \in Items : poll'.seen[i] = NoCategory
  BY <1>3 DEF Asleep
<1>6. \A i \in Items : notices'[i].category # NoCategory => i \in messaged
  <2>1. ASSUME NEW i \in Items, poll.session[i].category # NoCategory PROVE i \in messaged
    <3>1. SessionIs
      BY <1>2, <1>3 DEF PollInv
    <3>2. CASE i \in poll.told
      BY <1>2, <3>2 DEF Accounted
    <3>3. CASE i \notin poll.told
      <4>1. poll.session[i] = notices[i]
        BY <2>1, <3>1, <3>3 DEF SessionIs, NoNotice
      <4> QED BY <1>2, <2>1, <4>1 DEF Accounted
    <3> QED BY <3>2, <3>3
  <2> QED BY <1>2, <1>3, <2>1 DEF Accounted
<1>7. Valid' \subseteq messaged
  BY <1>6 DEF Valid
<1>8. ASSUME NEW i \in messaged PROVE i \in Valid' \/ i \in overdue'
  <2>1. SUFFICES ASSUME i \notin Valid', i \notin X, i \notin overdue PROVE FALSE
    BY <1>3
  <2>2. i \in Items /\ (i \in Valid \/ JustTold(i))
    BY <1>2, <1>8, <2>1 DEF Accounted
  <2>3. CASE ~ Commit
    <3>1. i \in Valid
      BY <2>1, <2>2, <2>3 DEF JustTold
    <3> QED BY <1>3, <1>5, <2>1, <2>2, <2>3, <3>1 DEF Valid
  <2>4. CASE Commit
    <3>1. queue[i].category = poll.seen[i] /\ ~ (clock >= poll.now + EscalationHours)
      BY <2>1, <2>2, <2>4 DEF Outdated, JustTold
    <3>2. queue[i].category # NoCategory /\ notices' = poll.session
      BY <1>3, <2>2, <2>4, <3>1 DEF Valid, JustTold
    <3>3. \/ poll.session[i] = [category |-> queue[i].category, last |-> poll.now]
          \/ i \in Valid /\ poll.session[i] = notices[i]
      <4>1. CASE JustTold(i)
        BY <3>1, <4>1 DEF JustTold
      <4>2. CASE i \in Valid
        BY <1>1, <2>4, <3>1, <4>2, CommitHolds
      <4> QED BY <2>2, <4>1, <4>2
    <3>4. /\ poll.session[i].category = queue[i].category
          /\ clock < poll.session[i].last + EscalationHours
      <4>1. CASE poll.session[i] = [category |-> queue[i].category, last |-> poll.now]
        BY <1>2, <3>1, <4>1
      <4>2. CASE i \in Valid /\ poll.session[i] = notices[i]
        BY <4>2 DEF Valid
      <4> QED BY <3>3, <4>1, <4>2
    <3> QED BY <1>3, <1>5, <2>1, <2>2, <3>2, <3>4 DEF Valid
  <2> QED BY <2>3, <2>4
<1>9. ReviewAnnouncements!AnnouncementsNext
  <2>1. Valid \ Valid' \subseteq overdue'
    BY <1>2, <1>8
  <2> HIDE DEF X
  <2> QED BY <1>2, <1>3, <1>4, <1>7, <2>1, RecordChanges
<1>10. Accounted'
  <2>1. overdue' \subseteq messaged
    BY <1>2, <1>3, <1>4 DEF Accounted
  <2> QED BY <1>3, <1>5, <1>6, <1>8, <2>1 DEF Accounted
<1>11. ReviewInv'
  BY <1>1, <1>2, ReviewSteps DEF ReviewNext, PollStep
<1> QED BY <1>9, <1>10, <1>11 DEF Remembers, RecordInv

\* The notices are a record of what the moderators were told: however items move between
\* categories while a poll runs, and whatever fails, commits included, for any items,
\* categories and times.
THEOREM NoticesAlwaysRemember == ReviewSpec => NoticesRemember
<1>1. RecordInv /\ [ReviewNext]_reviewVars => Remembers
  <2>1. SUFFICES ASSUME RecordInv, [ReviewNext]_reviewVars PROVE Remembers
    OBVIOUS
  <2>2. ASSUME NEW i \in Items, Decide(i) \/ \E c \in Categories : Submit(i, c) \/ MoveItem(i, c)
        PROVE  Remembers
    BY <2>1, <2>2, RecordItem
  <2>3. CASE Tick \/ UNCHANGED reviewVars
    BY <2>1, <2>3, RecordTick, RecordStutter
  <2>4. CASE StartPoll \/ SkipCategory \/ FetchCategory
    BY <2>1, <2>4, RecordStartPoll, RecordSkip, RecordFetch
  <2>5. CASE NotifyCategory \/ NotifyFails
    BY <2>1, <2>5, RecordNotify, RecordNotifyFails
  <2>6. CASE Commit \/ CommitFails \/ AbortPoll
    BY <2>1, <2>6, RecordEnd
  <2> QED BY <2>1, <2>2, <2>3, <2>4, <2>5, <2>6 DEF ReviewNext, PollStep
<1>2. RecordInv /\ [ReviewNext]_reviewVars => RecordInv' /\
        [ReviewAnnouncements!AnnouncementsNext]_(ReviewAnnouncements!announcementVars)
  BY <1>1 DEF Remembers, ReviewAnnouncements!announcementVars
<1> QED BY <1>2, RecordStart, PTL
        DEF ReviewSpec, NoticesRemember, ReviewAnnouncements!AnnouncementsSpec

-----------------------------------------------------------------------------
(* The limiter: lists of ages, and what is left of them within the window *)

USE LimitsAssumption

\* Ages in a list come oldest first.
Falls(list) == \A i, j \in 1 .. Len(list) : i <= j => list[j] <= list[i]

\* The entries of a list after the first k
After(list, k) == [i \in 1 .. Len(list) - k |-> list[i + k]]

LEMMA AfterIs ==
    ASSUME NEW list \in Seq(Ages), NEW k \in 0 .. Len(list)
    PROVE  /\ After(list, k) \in Seq(Ages) /\ Len(After(list, k)) = Len(list) - k
           /\ \A i \in 1 .. Len(list) - k : After(list, k)[i] = list[i + k]
BY DEF After

LEMMA CountTo ==
    ASSUME NEW n \in Nat
    PROVE  IsFiniteSet(1 .. n) /\ Cardinality(1 .. n) = n
<1>1. Cardinality(1 .. n) = IF 1 > n THEN 0 ELSE n - 1 + 1
  BY FS_Interval
<1>2. (IF 1 > n THEN 0 ELSE n - 1 + 1) = n
  OBVIOUS
<1> QED BY <1>1, <1>2, FS_Interval

LEMMA AppendIs ==
    ASSUME NEW list \in Seq(Ages), NEW a \in Ages
    PROVE  /\ Append(list, a) \in Seq(Ages) /\ Len(Append(list, a)) = Len(list) + 1
           /\ \A i \in 1 .. Len(list) : Append(list, a)[i] = list[i]
           /\ Append(list, a)[Len(list) + 1] = a
OBVIOUS

LEMMA OlderIs ==
    ASSUME NEW list \in Seq(Ages)
    PROVE  /\ Older(list) \in Seq(Ages) /\ Len(Older(list)) = Len(list)
           /\ \A i \in 1 .. Len(list) :
                Older(list)[i] = IF list[i] < Window THEN list[i] + 1 ELSE Window
<1>1. \A i \in 1 .. Len(list) : list[i] \in 0 .. Window
  BY DEF Ages
<1>2. \A i \in 1 .. Len(list) : (IF list[i] < Window THEN list[i] + 1 ELSE Window) \in 0 .. Window
  BY <1>1
<1>3. Older(list) = [i \in 1 .. Len(list) |-> IF list[i] < Window THEN list[i] + 1 ELSE Window]
  BY DEF Older
<1>4. Older(list) \in [1 .. Len(list) -> 0 .. Window]
  BY <1>2, <1>3
<1>5. Older(list) \in Seq(0 .. Window) /\ Len(Older(list)) = Len(list)
  BY <1>4
<1> QED BY <1>3, <1>5 DEF Ages

\* In a list that falls, those within the window are what comes after the first few.
LEMMA WithinCuts ==
    ASSUME NEW list \in Seq(Ages), Falls(list)
    PROVE  \E k \in 0 .. Len(list) :
             /\ Within(list) = After(list, k)
             /\ \A i \in 1 .. Len(list) : list[i] < Window <=> i > k
<1> DEFINE n == Len(list)
           New == {i \in 1 .. n : list[i] < Window}
<1>0. n \in Nat /\ \A i \in 1 .. n : list[i] \in Ages
  OBVIOUS
<1>1. PICK k \in 0 .. n : \A i \in 1 .. n : list[i] < Window <=> i > k
  <2>1. CASE New = {}
    <3>1. n \in 0 .. n /\ \A i \in 1 .. n : ~ (list[i] < Window) /\ ~ (i > n)
      BY <1>0, <2>1
    <3> QED BY <3>1
  <2>2. CASE New # {}
    <3>1. New \subseteq Int /\ IsFiniteSet(New)
      <4>1. IsFiniteSet(1 .. n)
        BY <1>0, FS_Interval
      <4> QED BY <4>1, FS_Subset
    <3>2. Min(New) \in New /\ \A x \in New : Min(New) <= x
      BY <2>2, <3>1, FiniteMin
    <3> DEFINE m == Min(New)
    <3>3. m \in 1 .. n /\ list[m] < Window /\ \A i \in 1 .. n : list[i] < Window => m <= i
      BY <3>2
    <3> HIDE DEF m
    <3>4. \A i \in 1 .. n : m <= i => list[i] < Window
      <4> SUFFICES ASSUME NEW i \in 1 .. n, m <= i PROVE list[i] < Window
        OBVIOUS
      <4>1. list[i] <= list[m]
        BY <1>0, <3>3 DEF Falls
      <4> QED BY <1>0, <3>3, <4>1 DEF Ages
    <3>5. m - 1 \in 0 .. n /\ \A i \in 1 .. n : list[i] < Window <=> i > m - 1
      BY <1>0, <3>3, <3>4
    <3> QED BY <3>5
  <2> QED BY <2>1, <2>2
<1> DEFINE Rule(f) == [j \in 0 .. n |-> IF j = 0 THEN <<>>
                         ELSE IF list[j] < Window THEN Append(f[j - 1], list[j]) ELSE f[j - 1]]
           g == [j \in 0 .. n |-> IF j <= k THEN <<>> ELSE [i \in 1 .. j - k |-> list[i + k]]]
<1>2. g = Rule(g)
  <2>1. \A j \in 0 .. n : g[j] = Rule(g)[j]
    <3> SUFFICES ASSUME NEW j \in 0 .. n PROVE g[j] = Rule(g)[j]
      OBVIOUS
    <3>1. CASE j <= k
      BY <1>0, <1>1, <3>1
    <3>2. CASE j > k
      <4> DEFINE before == g[j - 1]
      <4>1. j - 1 \in 0 .. n /\ j \in 1 .. n /\ j - k \in Nat /\ list[j] < Window
        BY <1>0, <1>1, <3>2
      <4>2. before \in Seq(Ages) /\ Len(before) = j - 1 - k
            /\ \A i \in 1 .. j - 1 - k : before[i] = list[i + k]
        <5>1. CASE j - 1 <= k
          BY <1>0, <3>2, <4>1, <5>1
        <5>2. CASE j - 1 > k
          <6>1. before = [i \in 1 .. j - 1 - k |-> list[i + k]]
            BY <4>1, <5>2
          <6>2. \A i \in 1 .. j - 1 - k : list[i + k] \in Ages
            BY <1>0, <4>1
          <6>3. j - 1 - k \in Nat
            BY <1>0, <4>1, <5>2
          <6> DEFINE m == j - 1 - k
          <6>4. before \in [1 .. m -> Ages]
            BY <6>1, <6>2
          <6> HIDE DEF before, m
          <6>5. before \in Seq(Ages) /\ Len(before) = m
            BY <6>3, <6>4 DEF m
          <6> QED BY <6>1, <6>5 DEF m
        <5>3. j - 1 <= k \/ j - 1 > k
          BY <1>0, <4>1
        <5> HIDE DEF before
        <5> QED BY <5>1, <5>2, <5>3
      <4>3. g[j] = [i \in 1 .. j - k |-> list[i + k]]
        BY <3>2, <4>1
      <4>4. Rule(g)[j] = Append(before, list[j])
        BY <4>1
      <4>5. \A i \in 1 .. j - k : Append(before, list[j])[i] = list[i + k]
        <5> HIDE DEF before
        <5>1. list[j] \in Ages
          BY <1>0, <4>1
        <5>2. /\ \A i \in 1 .. j - 1 - k : Append(before, list[j])[i] = before[i]
              /\ Append(before, list[j])[j - k] = list[j]
          <6>1. j - 1 - k + 1 = j - k
            BY <1>0, <4>1
          <6> QED BY <4>2, <5>1, <6>1, AppendIs
        <5>3. \A i \in 1 .. j - k : i \in 1 .. j - 1 - k \/ (i = j - k /\ i + k = j)
          BY <1>0, <4>1
        <5> QED BY <4>2, <5>2, <5>3
      <4>6. Append(before, list[j]) = [i \in 1 .. j - k |-> Append(before, list[j])[i]]
        <5> HIDE DEF before
        <5> QED BY <1>0, <4>1, <4>2
      <4> HIDE DEF before, g, Rule
      <4> QED BY <4>3, <4>4, <4>5, <4>6
    <3> QED BY <1>0, <3>1, <3>2
  <2> QED BY <2>1
<1>3. \E f : f = Rule(f)
  BY <1>2
<1> DEFINE f == CHOOSE h : h = Rule(h)
<1>4. Within(list) = f[n]
  BY DEF Within
<1>5. f = Rule(f)
  <2> HIDE DEF Rule
  <2> QED BY <1>3
<1>6. 0 .. n \subseteq {j \in Nat : f[j] = g[j]}
  <2> DEFINE S == {j \in Nat : f[j] = g[j]}
  <2>0. \A j \in 0 .. n : f[j] = Rule(f)[j] /\ g[j] = Rule(g)[j]
    <3> HIDE DEF f, g, Rule
    <3> QED BY <1>2, <1>5
  <2>1. 0 \in S
    <3> HIDE DEF f, g
    <3> QED BY <1>0, <2>0
  <2>2. ASSUME NEW j \in 1 .. n, j - 1 \in S PROVE j \in S
    <3>1. f[j - 1] = g[j - 1] /\ j \in 0 .. n /\ j \in Nat /\ j # 0
      BY <1>0, <2>2
    <3>2. Rule(f)[j] = Rule(g)[j]
      <4> HIDE DEF f, g
      <4> QED BY <3>1
    <3> HIDE DEF f, g, Rule
    <3> QED BY <2>0, <3>1, <3>2
  <2> HIDE DEF S
  <2> QED BY <1>0, <2>1, <2>2, BoundedInduction DEF S
<1>7. g[n] = After(list, k)
  <2>1. CASE n <= k
    BY <1>0, <1>1, <2>1 DEF After
  <2>2. CASE n > k
    BY <1>0, <1>1, <2>2 DEF After
  <2> QED BY <1>0, <2>1, <2>2
<1>8. Within(list) = After(list, k)
  <2> HIDE DEF f, g
  <2> QED BY <1>0, <1>4, <1>6, <1>7
<1> QED BY <1>1, <1>8

\* The ages of a list within the window are what comes after the first k; the list stays one
\* that falls.
LEMMA WithinIs ==
    ASSUME NEW list \in Seq(Ages), Falls(list)
    PROVE  /\ Within(list) \in Seq(Ages) /\ Falls(Within(list))
           /\ Len(Within(list)) <= Len(list)
           /\ \A i \in 1 .. Len(Within(list)) : Within(list)[i] < Window
           /\ \E k \in 0 .. Len(list) :
                /\ Len(Within(list)) = Len(list) - k
                /\ \A i \in 1 .. Len(list) - k : Within(list)[i] = list[i + k]
                /\ \A i \in 1 .. Len(list) : list[i] < Window <=> i > k
<1>1. PICK k \in 0 .. Len(list) : /\ Within(list) = After(list, k)
                                  /\ \A i \in 1 .. Len(list) : list[i] < Window <=> i > k
  BY WithinCuts
<1> DEFINE new == Within(list)
<1>2. /\ new \in Seq(Ages) /\ Len(new) = Len(list) - k /\ Len(list) \in Nat
      /\ \A i \in 1 .. Len(list) - k : new[i] = list[i + k]
  <2>1. /\ After(list, k) \in Seq(Ages) /\ Len(After(list, k)) = Len(list) - k
        /\ \A i \in 1 .. Len(list) - k : After(list, k)[i] = list[i + k]
    BY AfterIs
  <2>2. Len(list) \in Nat
    OBVIOUS
  <2> QED BY <1>1, <2>1, <2>2
<1> HIDE DEF new
<1>3. \A i \in 1 .. Len(new) : i + k \in 1 .. Len(list) /\ i + k > k
  BY <1>2
<1>4. \A i \in 1 .. Len(new) : new[i] = list[i + k] /\ list[i + k] < Window
  BY <1>1, <1>2, <1>3
<1>5. \A i, j \in 1 .. Len(new) : i <= j => i + k <= j + k
  BY <1>2
<1>6. \A i, j \in 1 .. Len(new) : i <= j => new[j] <= new[i]
  BY <1>3, <1>4, <1>5 DEF Falls
<1>7. Falls(new) /\ Len(new) <= Len(list)
  BY <1>2, <1>6 DEF Falls
<1>8. \A i \in 1 .. Len(new) : new[i] < Window
  BY <1>4
<1> QED BY <1>1, <1>2, <1>7, <1>8 DEF new

LEMMA AppendFalls ==
    ASSUME NEW list \in Seq(Ages), Falls(list), NEW a \in Ages,
           \A i \in 1 .. Len(list) : list[i] >= a
    PROVE  Falls(Append(list, a))
<1> DEFINE new == Append(list, a)
<1>1. /\ Len(new) = Len(list) + 1 /\ Len(list) \in Nat
      /\ \A i \in 1 .. Len(list) : new[i] = list[i]
      /\ new[Len(list) + 1] = a
  BY AppendIs
<1> HIDE DEF new
<1>2. SUFFICES ASSUME NEW i \in 1 .. Len(new), NEW j \in 1 .. Len(new), i <= j
               PROVE  new[j] <= new[i]
  BY DEF Falls, new
<1>3. CASE j \in 1 .. Len(list)
  BY <1>1, <1>2, <1>3 DEF Falls
<1>4. CASE j = Len(list) + 1 /\ i \in 1 .. Len(list)
  BY <1>1, <1>4
<1>5. CASE j = Len(list) + 1 /\ i = Len(list) + 1
  BY <1>1, <1>5 DEF Ages
<1> QED BY <1>1, <1>2, <1>3, <1>4, <1>5

LEMMA OlderFalls ==
    ASSUME NEW list \in Seq(Ages), Falls(list)
    PROVE  Falls(Older(list))
<1>1. \A i \in 1 .. Len(list) : list[i] \in 0 .. Window
  BY DEF Ages
<1>2. \A i, j \in 1 .. Len(list) : i <= j => list[j] <= list[i]
  BY DEF Falls
<1>3. \A i, j \in 1 .. Len(list) : i <= j => Older(list)[j] <= Older(list)[i]
  BY <1>1, <1>2, OlderIs
<1> QED BY <1>3, OlderIs DEF Falls

-----------------------------------------------------------------------------
(* What has been granted: every token within the window has a place of its own among the *)
(* MaxCalls of an epoch, and an epoch ends with each loss. *)

\* Epochs count from the latest, which is 0. The tokens G of the others are as old as the
\* loss, of the losses L, that ended the epoch; those of the latest are among the first n of
\* the list, at their place.
PlacedAt(G, L, list, n, epoch, place) ==
    /\ epoch \in [1 .. Len(G) -> 0 .. Len(L)]
    /\ place \in [1 .. Len(G) -> 1 .. MaxCalls]
    /\ \A i, j \in 1 .. Len(G) : (epoch[i] = epoch[j] /\ place[i] = place[j]) => i = j
    /\ \A i \in 1 .. Len(G) : epoch[i] # 0 => G[i] >= L[Len(L) - epoch[i] + 1]
    /\ \A i \in 1 .. Len(G) : epoch[i] = 0 => (place[i] \in 1 .. n /\ list[place[i]] = G[i])

Placed(G, L, list, n) == \E epoch, place : PlacedAt(G, L, list, n, epoch, place)

\* acquire() drops the calls that left the window.
LEMMA PlacedFiltered ==
    ASSUME NEW G \in Seq(Ages), NEW L \in Seq(Ages), NEW list \in Seq(Ages), Falls(list),
           \A i \in 1 .. Len(G) : G[i] < Window, Placed(G, L, list, Len(list))
    PROVE  Placed(G, L, Within(list), Len(Within(list)))
<1>1. PICK epoch, place : PlacedAt(G, L, list, Len(list), epoch, place)
  BY DEF Placed
<1>2. PICK k \in 0 .. Len(list) :
        /\ Len(Within(list)) = Len(list) - k
        /\ \A i \in 1 .. Len(list) - k : Within(list)[i] = list[i + k]
        /\ \A i \in 1 .. Len(list) : list[i] < Window <=> i > k
  BY WithinIs
<1>3. Len(G) \in Nat /\ Len(L) \in Nat /\ Len(list) \in Nat
  OBVIOUS
<1> DEFINE moved(i) == IF epoch[i] = 0 THEN place[i] - k ELSE place[i]
           new == [i \in 1 .. Len(G) |-> moved(i)]
<1>4. \A i \in 1 .. Len(G) : epoch[i] \in 0 .. Len(L) /\ place[i] \in 1 .. MaxCalls
  BY <1>1 DEF PlacedAt
<1>5. \A i \in 1 .. Len(G) : epoch[i] = 0 =>
        (place[i] \in 1 .. Len(list) /\ place[i] > k /\ list[place[i]] = G[i])
  BY <1>1, <1>2 DEF PlacedAt
<1>6. \A i \in 1 .. Len(G) : moved(i) \in 1 .. MaxCalls
  BY <1>4, <1>5
<1>7. \A i \in 1 .. Len(G) : epoch[i] = 0 =>
        (place[i] - k \in 1 .. Len(list) - k /\ Within(list)[place[i] - k] = G[i])
  <2> SUFFICES ASSUME NEW i \in 1 .. Len(G), epoch[i] = 0
               PROVE  place[i] - k \in 1 .. Len(list) - k /\ Within(list)[place[i] - k] = G[i]
    OBVIOUS
  <2>1. place[i] \in 1 .. Len(list) /\ place[i] > k /\ list[place[i]] = G[i]
    BY <1>5
  <2>2. place[i] - k \in 1 .. Len(list) - k /\ place[i] - k + k = place[i]
    BY <1>3, <2>1
  <2> QED BY <1>2, <2>1, <2>2
<1>8. \A i, j \in 1 .. Len(G) : (epoch[i] = epoch[j] /\ moved(i) = moved(j)) =>
        (epoch[i] = epoch[j] /\ place[i] = place[j])
  BY <1>4
<1>9. new \in [1 .. Len(G) -> 1 .. MaxCalls] /\ \A i \in 1 .. Len(G) : new[i] = moved(i)
  BY <1>6
<1>10. PlacedAt(G, L, Within(list), Len(Within(list)), epoch, new)
  <2>1. \A i, j \in 1 .. Len(G) : (epoch[i] = epoch[j] /\ new[i] = new[j]) => i = j
    <3> HIDE DEF moved
    <3> QED BY <1>1, <1>8, <1>9 DEF PlacedAt
  <2>2. \A i \in 1 .. Len(G) : epoch[i] = 0 =>
          (new[i] \in 1 .. Len(Within(list)) /\ Within(list)[new[i]] = G[i])
    BY <1>2, <1>7, <1>9
  <2> HIDE DEF new, moved
  <2> QED BY <1>1, <1>9, <2>1, <2>2 DEF PlacedAt
<1> QED BY <1>10 DEF Placed

\* A call's own time comes last in the list.
LEMMA PlacedStamped ==
    ASSUME NEW G \in Seq(Ages), NEW L \in Seq(Ages), NEW list \in Seq(Ages), NEW a \in Ages,
           Placed(G, L, list, Len(list))
    PROVE  Placed(G, L, Append(list, a), Len(list))
<1>1. PICK epoch, place : PlacedAt(G, L, list, Len(list), epoch, place)
  BY DEF Placed
<1>2. \A i \in 1 .. Len(list) : Append(list, a)[i] = list[i]
  BY AppendIs
<1>3. PlacedAt(G, L, Append(list, a), Len(list), epoch, place)
  BY <1>1, <1>2 DEF PlacedAt
<1> QED BY <1>3 DEF Placed

\* The token is granted with the time of the call.
LEMMA PlacedGranted ==
    ASSUME NEW G \in Seq(Ages), NEW L \in Seq(Ages), NEW list \in Seq(Ages),
           Len(list) \in 1 .. MaxCalls, Placed(G, L, list, Len(list) - 1)
    PROVE  Placed(Append(G, list[Len(list)]), L, list, Len(list))
<1>1. PICK epoch, place : PlacedAt(G, L, list, Len(list) - 1, epoch, place)
  BY DEF Placed
<1> DEFINE last == Len(list)
           new == Append(G, list[last])
           e == [i \in 1 .. Len(G) + 1 |-> IF i = Len(G) + 1 THEN 0 ELSE epoch[i]]
           s == [i \in 1 .. Len(G) + 1 |-> IF i = Len(G) + 1 THEN last ELSE place[i]]
<1>2. Len(G) \in Nat /\ Len(L) \in Nat /\ last \in 1 .. MaxCalls /\ list[last] \in Ages
  OBVIOUS
<1>3. /\ Len(new) = Len(G) + 1 /\ new[Len(G) + 1] = list[last]
      /\ \A i \in 1 .. Len(G) : new[i] = G[i]
  BY <1>2, AppendIs
<1>4. \A i \in 1 .. Len(G) + 1 : i \in 1 .. Len(G) \/ i = Len(G) + 1
  BY <1>2
<1>5. \A i \in 1 .. Len(G) : i # Len(G) + 1 /\ i \in 1 .. Len(G) + 1
  BY <1>2
<1>6. \A i \in 1 .. Len(G) : epoch[i] \in 0 .. Len(L) /\ place[i] \in 1 .. MaxCalls
  BY <1>1 DEF PlacedAt
<1>7. /\ e \in [1 .. Len(G) + 1 -> 0 .. Len(L)] /\ e[Len(G) + 1] = 0
      /\ s \in [1 .. Len(G) + 1 -> 1 .. MaxCalls] /\ s[Len(G) + 1] = last
      /\ \A i \in 1 .. Len(G) : e[i] = epoch[i] /\ s[i] = place[i]
  <2>1. Len(G) + 1 \in 1 .. Len(G) + 1 /\ 0 \in 0 .. Len(L)
    BY <1>2
  <2> QED BY <1>2, <1>4, <1>5, <1>6, <2>1
<1> HIDE DEF e, s, new
<1>8. \A i \in 1 .. Len(G) : epoch[i] = 0 =>
        (place[i] \in 1 .. last - 1 /\ place[i] # last /\ list[place[i]] = G[i])
  BY <1>1, <1>2 DEF PlacedAt
<1>9. \A i \in 1 .. Len(G) : epoch[i] # 0 => G[i] >= L[Len(L) - epoch[i] + 1]
  BY <1>1 DEF PlacedAt
<1>10. PlacedAt(new, L, list, last, e, s)
  <2>1. ASSUME NEW i \in 1 .. Len(new), NEW j \in 1 .. Len(new), e[i] = e[j], s[i] = s[j]
        PROVE  i = j
    <3>1. CASE i \in 1 .. Len(G) /\ j \in 1 .. Len(G)
      BY <1>1, <1>7, <2>1, <3>1 DEF PlacedAt
    <3>2. CASE i = Len(G) + 1 /\ j \in 1 .. Len(G)
      BY <1>7, <1>8, <2>1, <3>2
    <3>3. CASE i \in 1 .. Len(G) /\ j = Len(G) + 1
      BY <1>7, <1>8, <2>1, <3>3
    <3> QED BY <1>3, <1>4, <3>1, <3>2, <3>3
  <2>2. \A i \in 1 .. Len(new) : e[i] # 0 => new[i] >= L[Len(L) - e[i] + 1]
    BY <1>3, <1>4, <1>7, <1>9
  <2>3. ASSUME NEW i \in 1 .. Len(new), e[i] = 0
        PROVE  s[i] \in 1 .. last /\ list[s[i]] = new[i]
    <3>1. CASE i = Len(G) + 1
      BY <1>2, <1>3, <1>7, <3>1
    <3>2. CASE i \in 1 .. Len(G)
      <4>1. place[i] \in 1 .. last - 1 /\ list[place[i]] = G[i]
        BY <1>7, <1>8, <2>3, <3>2
      <4> QED BY <1>2, <1>3, <1>7, <3>2, <4>1
    <3> QED BY <1>3, <1>4, <3>1, <3>2
  <2> QED BY <1>3, <1>7, <2>1, <2>2, <2>3 DEF PlacedAt
<1> QED BY <1>10 DEF Placed, new

\* Tokens that leave the window are forgotten.
LEMMA PlacedTrimmed ==
    ASSUME NEW G \in Seq(Ages), NEW L \in Seq(Ages), NEW list \in Seq(Ages), NEW n \in Nat,
           Falls(G), Placed(G, L, list, n)
    PROVE  Placed(Within(G), L, list, n)
<1>1. PICK epoch, place : PlacedAt(G, L, list, n, epoch, place)
  BY DEF Placed
<1>2. PICK k \in 0 .. Len(G) :
        /\ Len(Within(G)) = Len(G) - k
        /\ \A i \in 1 .. Len(G) - k : Within(G)[i] = G[i + k]
  BY WithinIs
<1> DEFINE new == Within(G)
           e == [i \in 1 .. Len(G) - k |-> epoch[i + k]]
           s == [i \in 1 .. Len(G) - k |-> place[i + k]]
<1>3. \A i \in 1 .. Len(G) - k : i + k \in 1 .. Len(G)
  OBVIOUS
<1>4. /\ epoch \in [1 .. Len(G) -> 0 .. Len(L)]
      /\ place \in [1 .. Len(G) -> 1 .. MaxCalls]
  BY <1>1 DEF PlacedAt
<1>5. /\ e \in [1 .. Len(G) - k -> 0 .. Len(L)] /\ s \in [1 .. Len(G) - k -> 1 .. MaxCalls]
      /\ \A i \in 1 .. Len(G) - k : e[i] = epoch[i + k] /\ s[i] = place[i + k]
  BY <1>3, <1>4
<1>6. \A i, j \in 1 .. Len(G) - k : i + k = j + k => i = j
  OBVIOUS
<1> HIDE DEF e, s, new
<1>7. \A i \in 1 .. Len(G) - k : new[i] = G[i + k]
  BY <1>2 DEF new
<1>8. Len(new) = Len(G) - k
  BY <1>2 DEF new
<1>9. \A i, j \in 1 .. Len(G) - k : (e[i] = e[j] /\ s[i] = s[j]) => i = j
  BY <1>1, <1>3, <1>5, <1>6 DEF PlacedAt
<1>10. \A i \in 1 .. Len(G) - k : e[i] # 0 => new[i] >= L[Len(L) - e[i] + 1]
  BY <1>1, <1>3, <1>5, <1>7 DEF PlacedAt
<1>11. \A i \in 1 .. Len(G) - k : e[i] = 0 => (s[i] \in 1 .. n /\ list[s[i]] = new[i])
  BY <1>1, <1>3, <1>5, <1>7 DEF PlacedAt
<1>12. PlacedAt(new, L, list, n, e, s)
  BY <1>5, <1>8, <1>9, <1>10, <1>11 DEF PlacedAt
<1> QED BY <1>12 DEF Placed, new

\* A loss that leaves the window has no token left in the window from before it.
LEMMA PlacedLossForgotten ==
    ASSUME NEW G \in Seq(Ages), NEW L \in Seq(Ages), NEW list \in Seq(Ages), NEW n \in Nat,
           Falls(L), \A i \in 1 .. Len(G) : G[i] < Window, Placed(G, L, list, n)
    PROVE  Placed(G, Within(L), list, n)
<1>1. PICK epoch, place : PlacedAt(G, L, list, n, epoch, place)
  BY DEF Placed
<1>2. PICK k \in 0 .. Len(L) :
        /\ Len(Within(L)) = Len(L) - k
        /\ \A i \in 1 .. Len(L) - k : Within(L)[i] = L[i + k]
        /\ \A i \in 1 .. Len(L) : L[i] < Window <=> i > k
  BY WithinIs
<1>3. /\ epoch \in [1 .. Len(G) -> 0 .. Len(L)]
      /\ place \in [1 .. Len(G) -> 1 .. MaxCalls]
      /\ Len(L) \in Nat /\ \A i \in 1 .. Len(G) : G[i] \in 0 .. Window
      /\ \A i \in 1 .. Len(L) : L[i] \in 0 .. Window
  BY <1>1 DEF PlacedAt, Ages
<1>4. ASSUME NEW i \in 1 .. Len(G), epoch[i] # 0
      PROVE  /\ epoch[i] \in 0 .. Len(L) - k
             /\ G[i] >= Within(L)[Len(Within(L)) - epoch[i] + 1]
  <2> DEFINE m == Len(L) - epoch[i] + 1
  <2>0. epoch[i] \in 0 .. Len(L) /\ epoch[i] # 0
    BY <1>3, <1>4
  <2>1. G[i] >= L[m] /\ m \in 1 .. Len(L)
    <3>1. G[i] >= L[Len(L) - epoch[i] + 1]
      BY <1>1, <1>4 DEF PlacedAt
    <3>2. m \in 1 .. Len(L)
      BY <1>3, <2>0
    <3> QED BY <3>1, <3>2
  <2>2. L[m] < Window
    BY <1>3, <2>1
  <2>3. m > k
    BY <1>2, <2>1, <2>2
  <2>4. /\ epoch[i] \in 0 .. Len(L) - k /\ m - k \in 1 .. Len(L) - k /\ m - k + k = m
        /\ m - k = Len(L) - k - epoch[i] + 1
    <3>1. /\ Len(L) \in Nat /\ k \in Nat /\ k <= Len(L) /\ epoch[i] \in Nat
          /\ epoch[i] # 0 /\ epoch[i] <= Len(L) /\ Len(L) - epoch[i] + 1 > k
      BY <1>3, <2>0, <2>3
    <3>2. epoch[i] \in 0 .. Len(L) - k
      BY <3>1
    <3>3. m - k \in 1 .. Len(L) - k
      BY <3>1
    <3>4. m - k + k = m /\ m - k = Len(L) - k - epoch[i] + 1
      BY <3>1
    <3> QED BY <3>2, <3>3, <3>4
  <2> HIDE DEF m
  <2>5. Within(L)[m - k] = L[m]
    BY <1>2, <2>4
  <2> QED BY <1>2, <2>1, <2>4, <2>5
<1>5. epoch \in [1 .. Len(G) -> 0 .. Len(Within(L))]
  BY <1>2, <1>3, <1>4
<1>6. PlacedAt(G, Within(L), list, n, epoch, place)
  BY <1>1, <1>4, <1>5 DEF PlacedAt
<1> QED BY <1>6 DEF Placed

\* A second passes for all of them.
LEMMA PlacedOlder ==
    ASSUME NEW G \in Seq(Ages), NEW L \in Seq(Ages), NEW list \in Seq(Ages), NEW n \in Nat,
           n <= Len(list), Placed(G, L, list, n)
    PROVE  Placed(Older(G), Older(L), Older(list), n)
<1>1. PICK epoch, place : PlacedAt(G, L, list, n, epoch, place)
  BY DEF Placed
<1>2. /\ epoch \in [1 .. Len(G) -> 0 .. Len(L)]
      /\ place \in [1 .. Len(G) -> 1 .. MaxCalls]
      /\ Len(L) \in Nat /\ \A i \in 1 .. Len(G) : G[i] \in 0 .. Window
      /\ \A i \in 1 .. Len(L) : L[i] \in 0 .. Window
  <2>1. epoch \in [1 .. Len(G) -> 0 .. Len(L)] /\ place \in [1 .. Len(G) -> 1 .. MaxCalls]
    BY <1>1, Zenon DEF PlacedAt
  <2>2. Len(L) \in Nat /\ \A i \in 1 .. Len(L) : L[i] \in 0 .. Window
    BY DEF Ages
  <2>3. \A i \in 1 .. Len(G) : G[i] \in 0 .. Window
    BY DEF Ages
  <2> QED BY ONLY <2>1, <2>2, <2>3
<1>3. /\ Len(Older(G)) = Len(G) /\ Len(Older(L)) = Len(L) /\ Len(Older(list)) = Len(list)
      /\ \A i \in 1 .. Len(G) : Older(G)[i] = IF G[i] < Window THEN G[i] + 1 ELSE Window
      /\ \A i \in 1 .. Len(L) : Older(L)[i] = IF L[i] < Window THEN L[i] + 1 ELSE Window
      /\ \A i \in 1 .. Len(list) :
           Older(list)[i] = IF list[i] < Window THEN list[i] + 1 ELSE Window
  BY OlderIs
<1>4. ASSUME NEW i \in 1 .. Len(G), epoch[i] # 0
      PROVE  Older(G)[i] >= Older(L)[Len(Older(L)) - epoch[i] + 1]
  <2> DEFINE m == Len(L) - epoch[i] + 1
  <2>1. m \in 1 .. Len(L) /\ G[i] >= L[m]
    <3>1. G[i] >= L[Len(L) - epoch[i] + 1]
      BY <1>1, <1>4 DEF PlacedAt
    <3>2. epoch[i] \in 0 .. Len(L) /\ epoch[i] # 0
      BY <1>2, <1>4
    <3>3. m \in 1 .. Len(L)
      BY <1>2, <3>2
    <3> QED BY <3>1, <3>3
  <2> HIDE DEF m
  <2>2. Older(G)[i] >= Older(L)[m]
    BY <1>2, <1>3, <2>1
  <2> QED BY <1>3, <2>2 DEF m
<1>5. ASSUME NEW i \in 1 .. Len(G), epoch[i] = 0
      PROVE  place[i] \in 1 .. n /\ Older(list)[place[i]] = Older(G)[i]
  <2>1. place[i] \in 1 .. n /\ list[place[i]] = G[i]
    BY <1>1, <1>5 DEF PlacedAt
  <2>2. place[i] \in 1 .. Len(list)
    BY <2>1
  <2> QED BY <1>3, <2>1, <2>2
<1>6. PlacedAt(Older(G), Older(L), Older(list), n, epoch, place)
  BY <1>1, <1>3, <1>4, <1>5 DEF PlacedAt
<1> QED BY <1>6 DEF Placed

\* A process dies while it writes: what was granted before is of an earlier epoch.
LEMMA PlacedLost ==
    ASSUME NEW G \in Seq(Ages), NEW L \in Seq(Ages), NEW list \in Seq(Ages), NEW n \in Nat,
           Placed(G, L, list, n)
    PROVE  Placed(G, Append(L, 0), <<>>, 0)
<1>1. PICK epoch, place : PlacedAt(G, L, list, n, epoch, place)
  BY DEF Placed
<1> DEFINE e == [i \in 1 .. Len(G) |-> epoch[i] + 1]
           new == Append(L, 0)
<1>2. /\ epoch \in [1 .. Len(G) -> 0 .. Len(L)]
      /\ place \in [1 .. Len(G) -> 1 .. MaxCalls]
      /\ Len(L) \in Nat /\ \A i \in 1 .. Len(G) : G[i] \in 0 .. Window
  BY <1>1 DEF PlacedAt, Ages
<1>3. /\ Len(new) = Len(L) + 1 /\ new[Len(L) + 1] = 0
      /\ \A i \in 1 .. Len(L) : new[i] = L[i]
  <2>1. 0 \in Ages
    BY DEF Ages
  <2> QED BY <2>1, AppendIs
<1> HIDE DEF new
<1>4. /\ e \in [1 .. Len(G) -> 0 .. Len(L) + 1]
      /\ \A i \in 1 .. Len(G) : e[i] = epoch[i] + 1 /\ e[i] # 0
  <2>1. \A i \in 1 .. Len(G) : epoch[i] + 1 \in 0 .. Len(L) + 1 /\ epoch[i] + 1 # 0
    <3>1. \A i \in 1 .. Len(G) : epoch[i] \in 0 .. Len(L)
      BY <1>2
    <3>2. \A x \in 0 .. Len(L) : x + 1 \in 0 .. Len(L) + 1 /\ x + 1 # 0
      BY <1>2
    <3> QED BY <3>1, <3>2
  <2> QED BY <2>1
<1> HIDE DEF e
<1>5. ASSUME NEW i \in 1 .. Len(G) PROVE G[i] >= new[Len(new) - e[i] + 1]
  <2>1. Len(new) - e[i] + 1 = Len(L) - epoch[i] + 1 /\ epoch[i] \in 0 .. Len(L)
    <3>1. e[i] = epoch[i] + 1 /\ epoch[i] \in 0 .. Len(L)
      BY <1>2, <1>4
    <3> QED BY <1>2, <1>3, <3>1
  <2>2. CASE epoch[i] = 0
    BY <1>2, <1>3, <2>1, <2>2
  <2>3. CASE epoch[i] # 0
    <3>1. Len(L) - epoch[i] + 1 \in 1 .. Len(L)
      BY <1>2, <2>1, <2>3
    <3>2. G[i] >= L[Len(L) - epoch[i] + 1]
      BY <1>1, <2>3 DEF PlacedAt
    <3> QED BY <1>3, <2>1, <3>1, <3>2
  <2> QED BY <2>2, <2>3
<1>6. \A i, j \in 1 .. Len(G) : (e[i] = e[j] /\ place[i] = place[j]) => i = j
  <2>1. \A i, j \in 1 .. Len(G) : e[i] = e[j] => epoch[i] = epoch[j]
    <3>1. \A i \in 1 .. Len(G) : e[i] = epoch[i] + 1 /\ epoch[i] \in 0 .. Len(L)
      BY <1>2, <1>4
    <3>2. \A x, y \in 0 .. Len(L) : x + 1 = y + 1 => x = y
      BY <1>2
    <3> QED BY <3>1, <3>2
  <2> QED BY <1>1, <2>1 DEF PlacedAt
<1>7. PlacedAt(G, new, <<>>, 0, e, place)
  BY <1>2, <1>3, <1>4, <1>5, <1>6 DEF PlacedAt
<1> QED BY <1>7 DEF Placed, new

\* Every epoch within the window, one more than the losses in it, has MaxCalls tokens at most.
LEMMA PlacedBounded ==
    ASSUME NEW G \in Seq(Ages), NEW L \in Seq(Ages), NEW list \in Seq(Ages), NEW n \in Nat,
           Placed(G, L, list, n)
    PROVE  Len(G) <= MaxCalls * (1 + Len(L))
<1>1. PICK epoch, place : PlacedAt(G, L, list, n, epoch, place)
  BY DEF Placed
<1> DEFINE A == 1 .. Len(G)
           E == 0 .. Len(L)
           B == E \X (1 .. MaxCalls)
           f == [i \in A |-> <<epoch[i], place[i]>>]
<1>2. /\ Len(G) \in Nat /\ Len(L) \in Nat
      /\ epoch \in [A -> E] /\ place \in [A -> 1 .. MaxCalls]
  BY <1>1 DEF PlacedAt
<1>3. f \in [A -> B]
  BY <1>2
<1>4. \A i, j \in A : f[i] = f[j] => i = j
  BY <1>1 DEF PlacedAt
<1>5. IsFiniteSet(A) /\ Cardinality(A) = Len(G)
  BY <1>2, CountTo
<1>6. IsFiniteSet(E) /\ Cardinality(E) = Len(L) + 1
  BY <1>2, FS_Interval
<1>7. IsFiniteSet(1 .. MaxCalls) /\ Cardinality(1 .. MaxCalls) = MaxCalls
  BY FS_Interval
<1>8. IsFiniteSet(B) /\ Cardinality(B) = (Len(L) + 1) * MaxCalls
  <2> DEFINE D == 1 .. MaxCalls
  <2>1. IsFiniteSet(E) /\ IsFiniteSet(D) /\ Cardinality(D) = MaxCalls
    BY <1>6, <1>7
  <2> HIDE DEF D, E
  <2>2. IsFiniteSet(E \X D) /\ Cardinality(E \X D) = Cardinality(E) * Cardinality(D)
    BY ONLY <2>1, FS_Product
  <2>3. B = E \X D
    BY DEF D
  <2> HIDE DEF B
  <2> QED BY <1>6, <2>1, <2>2, <2>3
<1>9. f \in Injection(A, B)
  <2> HIDE DEF A, B, f
  <2> QED BY <1>3, <1>4 DEF Injection, IsInjective
<1>10. Cardinality(A) <= Cardinality(B)
  <2> HIDE DEF A, B, f
  <2> QED BY <1>8, <1>9, FS_Injection
<1>11. Len(G) <= (Len(L) + 1) * MaxCalls
  BY <1>5, <1>8, <1>10
<1> QED BY <1>2, <1>11

-----------------------------------------------------------------------------
(* What Discourse sees: every call has the token that a process was granted for it, and   *)
(* a call whose token left the window is the only one of its process that has none. *)

\* Of the calls S the one at k is of process maker[k], with token token[k] of G; those that
\* were granted one and did not call yet, T, have kept[p]. 0 is a token that left the window.
\* What a process does next it has the token for after its last call: a process of H is about
\* to be granted one of age a.
TracedAt(S, G, T, H, a, maker, token, kept) ==
    /\ maker \in [1 .. Len(S) -> Processes]
    /\ token \in [1 .. Len(S) -> 0 .. Len(G)]
    /\ kept \in [Processes -> 0 .. Len(G)]
    /\ \A k, j \in 1 .. Len(S) : (token[k] = token[j] /\ token[k] # 0) => k = j
    /\ \A p, q \in Processes : (kept[p] = kept[q] /\ kept[p] # 0) => p = q
    /\ \A k \in 1 .. Len(S), p \in Processes : token[k] = kept[p] => token[k] = 0
    /\ \A p \in Processes : p \notin T => kept[p] = 0
    /\ \A k, j \in 1 .. Len(S) : (k < j /\ maker[k] = maker[j]) =>
         (token[j] # 0 /\ S[k] >= G[token[j]])
    /\ \A k \in 1 .. Len(S) : maker[k] \in T =>
         (kept[maker[k]] # 0 /\ S[k] >= G[kept[maker[k]]])
    /\ \A k \in 1 .. Len(S) : maker[k] \in H => S[k] >= a

Traced(S, G, T, H, a) == \E maker, token, kept : TracedAt(S, G, T, H, a, maker, token, kept)

LEMMA TracedTypes ==
    ASSUME NEW S \in Seq(Ages), NEW G \in Seq(Ages), NEW T, NEW H, NEW a,
           NEW maker, NEW token, NEW kept, TracedAt(S, G, T, H, a, maker, token, kept)
    PROVE  /\ Len(S) \in Nat /\ Len(G) \in Nat
           /\ \A k \in 1 .. Len(S) : maker[k] \in Processes /\ token[k] \in 0 .. Len(G)
           /\ \A p \in Processes : kept[p] \in 0 .. Len(G)
           /\ \A k \in 1 .. Len(S) : S[k] \in 0 .. Window
           /\ \A i \in 1 .. Len(G) : G[i] \in 0 .. Window
<1>1. Len(S) \in Nat /\ Len(G) \in Nat
  OBVIOUS
<1>2. /\ \A k \in 1 .. Len(S) : maker[k] \in Processes /\ token[k] \in 0 .. Len(G)
      /\ \A p \in Processes : kept[p] \in 0 .. Len(G)
  BY DEF TracedAt
<1>3. /\ \A k \in 1 .. Len(S) : S[k] \in 0 .. Window
      /\ \A i \in 1 .. Len(G) : G[i] \in 0 .. Window
  BY DEF Ages
<1> QED BY <1>1, <1>2, <1>3

\* A process is granted a token, or about to be: no call of it is later.
LEMMA TracedStamped ==
    ASSUME NEW S \in Seq(Ages), NEW G \in Seq(Ages), NEW T, NEW H, NEW a, NEW J,
           Traced(S, G, T, H, a)
    PROVE  Traced(S, G, T, J, 0)
<1>1. PICK maker, token, kept : TracedAt(S, G, T, H, a, maker, token, kept)
  BY DEF Traced
<1>2. \A k \in 1 .. Len(S) : S[k] >= 0
  BY <1>1, TracedTypes
<1>3. TracedAt(S, G, T, J, 0, maker, token, kept)
  BY <1>1, <1>2 DEF TracedAt
<1> QED BY <1>3 DEF Traced

LEMMA TracedEnded ==
    ASSUME NEW S \in Seq(Ages), NEW G \in Seq(Ages), NEW T, NEW H, NEW a,
           NEW R \in SUBSET T, NEW J \in SUBSET H, NEW b, J = {} \/ b = a,
           Traced(S, G, T, H, a)
    PROVE  Traced(S, G, R, J, b)
<1>1. PICK maker, token, kept : TracedAt(S, G, T, H, a, maker, token, kept)
  BY DEF Traced
<1> DEFINE new == [p \in Processes |-> IF p \in R THEN kept[p] ELSE 0]
<1>2. /\ \A k \in 1 .. Len(S) : maker[k] \in Processes /\ token[k] \in 0 .. Len(G)
      /\ \A p \in Processes : kept[p] \in 0 .. Len(G)
      /\ Len(G) \in Nat
  BY <1>1, TracedTypes
<1>3. /\ new \in [Processes -> 0 .. Len(G)]
      /\ \A p \in Processes : new[p] = IF p \in R THEN kept[p] ELSE 0
  BY <1>2
<1> HIDE DEF new
<1>4. \A p, q \in Processes : (new[p] = new[q] /\ new[p] # 0) => p = q
  BY <1>1, <1>3 DEF TracedAt
<1>5. \A k \in 1 .. Len(S), p \in Processes : token[k] = new[p] => token[k] = 0
  BY <1>1, <1>3 DEF TracedAt
<1>6. \A p \in Processes : p \notin R => new[p] = 0
  BY <1>3
<1>7. \A k \in 1 .. Len(S) : maker[k] \in R =>
         (new[maker[k]] # 0 /\ S[k] >= G[new[maker[k]]])
  BY <1>1, <1>2, <1>3 DEF TracedAt
<1>8. \A k \in 1 .. Len(S) : maker[k] \in J => S[k] >= b
  BY <1>1 DEF TracedAt
<1>9. TracedAt(S, G, R, J, b, maker, token, new)
  BY <1>1, <1>3, <1>4, <1>5, <1>6, <1>7, <1>8 DEF TracedAt
<1> QED BY <1>9 DEF Traced

\* The process that was about to be is granted its token.
LEMMA TracedGranted ==
    ASSUME NEW S \in Seq(Ages), NEW G \in Seq(Ages), NEW T, NEW H, NEW a \in Ages,
           NEW p \in Processes, p \notin T, p \in H, Traced(S, G, T, H, a)
    PROVE  Traced(S, Append(G, a), T \cup {p}, {}, 0)
<1>1. PICK maker, token, kept : TracedAt(S, G, T, H, a, maker, token, kept)
  BY DEF Traced
<1> DEFINE g == Append(G, a)
           last == Len(G) + 1
           new == [q \in Processes |-> IF q = p THEN last ELSE kept[q]]
<1>2. /\ \A k \in 1 .. Len(S) : maker[k] \in Processes /\ token[k] \in 0 .. Len(G)
      /\ \A q \in Processes : kept[q] \in 0 .. Len(G)
      /\ Len(G) \in Nat /\ last \in Nat /\ last # 0
      /\ \A i \in 0 .. Len(G) : i # last /\ i \in 0 .. last /\ (i # 0 => i \in 1 .. Len(G))
      /\ last \in 0 .. last
  BY <1>1, TracedTypes
<1>3. Len(g) = last /\ g[last] = a /\ \A i \in 1 .. Len(G) : g[i] = G[i]
  BY AppendIs
<1> HIDE DEF g, last
<1>4. /\ new \in [Processes -> 0 .. last]
      /\ \A q \in Processes : new[q] = IF q = p THEN last ELSE kept[q]
  BY <1>2
<1> HIDE DEF new
<1>5. token \in [1 .. Len(S) -> 0 .. last]
  BY <1>1, <1>2 DEF TracedAt
<1>6. \A q, r \in Processes : (new[q] = new[r] /\ new[q] # 0) => q = r
  BY <1>1, <1>2, <1>4 DEF TracedAt
<1>7. \A k \in 1 .. Len(S), q \in Processes : token[k] = new[q] => token[k] = 0
  BY <1>1, <1>2, <1>4 DEF TracedAt
<1>8. \A q \in Processes : q \notin T \cup {p} => new[q] = 0
  BY <1>1, <1>4 DEF TracedAt
<1>9. \A k, j \in 1 .. Len(S) : (k < j /\ maker[k] = maker[j]) =>
         (token[j] # 0 /\ S[k] >= g[token[j]])
  BY <1>1, <1>2, <1>3 DEF TracedAt
<1>10. ASSUME NEW k \in 1 .. Len(S), maker[k] \in T \cup {p}
       PROVE  new[maker[k]] # 0 /\ S[k] >= g[new[maker[k]]]
  <2>1. CASE maker[k] = p
    BY <1>1, <1>2, <1>3, <1>4, <2>1 DEF TracedAt
  <2>2. CASE maker[k] # p
    <3>1. kept[maker[k]] # 0 /\ S[k] >= G[kept[maker[k]]]
      BY <1>1, <1>10, <2>2 DEF TracedAt
    <3> QED BY <1>2, <1>3, <1>4, <2>2, <3>1
  <2> QED BY <2>1, <2>2
<1>11. TracedAt(S, g, T \cup {p}, {}, 0, maker, token, new)
  BY <1>1, <1>3, <1>4, <1>5, <1>6, <1>7, <1>8, <1>9, <1>10 DEF TracedAt
<1> QED BY <1>11 DEF Traced, g

\* A process that has a token calls.
LEMMA TracedCalled ==
    ASSUME NEW S \in Seq(Ages), NEW G \in Seq(Ages), NEW T, NEW H, NEW a,
           NEW p \in T, p \in Processes, p \notin H, Traced(S, G, T, H, a)
    PROVE  Traced(Append(S, 0), G, T \ {p}, H, a)
<1>1. PICK maker, token, kept : TracedAt(S, G, T, H, a, maker, token, kept)
  BY DEF Traced
<1> DEFINE s == Append(S, 0)
           last == Len(S) + 1
           m == [k \in 1 .. last |-> IF k = last THEN p ELSE maker[k]]
           t == [k \in 1 .. last |-> IF k = last THEN kept[p] ELSE token[k]]
           new == [q \in Processes |-> IF q = p THEN 0 ELSE kept[q]]
<1>2. /\ \A k \in 1 .. Len(S) : maker[k] \in Processes /\ token[k] \in 0 .. Len(G)
      /\ \A q \in Processes : kept[q] \in 0 .. Len(G)
      /\ Len(S) \in Nat /\ last \in 1 .. last /\ Len(G) \in Nat /\ 0 \in 0 .. Len(G)
      /\ \A k \in 1 .. Len(S) : k # last /\ k \in 1 .. last /\ ~ (last < k)
      /\ \A k \in 1 .. last : k = last \/ k \in 1 .. Len(S)
      /\ ~ (last < last)
  BY <1>1, TracedTypes
<1>3. Len(s) = last /\ s[last] = 0 /\ \A k \in 1 .. Len(S) : s[k] = S[k]
  <2>1. 0 \in Ages
    BY DEF Ages
  <2> QED BY <2>1, AppendIs
<1> HIDE DEF s, last
<1>4. /\ m \in [1 .. last -> Processes] /\ m[last] = p
      /\ \A k \in 1 .. Len(S) : m[k] = maker[k]
  BY <1>2
<1>5. /\ t \in [1 .. last -> 0 .. Len(G)] /\ t[last] = kept[p]
      /\ \A k \in 1 .. Len(S) : t[k] = token[k]
  BY <1>2
<1>6. /\ new \in [Processes -> 0 .. Len(G)]
      /\ \A q \in Processes : new[q] = IF q = p THEN 0 ELSE kept[q]
  BY <1>2
<1> HIDE DEF m, t, new
<1>a. /\ \A k, j \in 1 .. Len(S) : (token[k] = token[j] /\ token[k] # 0) => k = j
      /\ \A q, r \in Processes : (kept[q] = kept[r] /\ kept[q] # 0) => q = r
      /\ \A k \in 1 .. Len(S), q \in Processes : token[k] = kept[q] => token[k] = 0
  BY <1>1 DEF TracedAt
<1>7. ASSUME NEW k \in 1 .. last, NEW j \in 1 .. last, t[k] = t[j], t[k] # 0
      PROVE  k = j
  <2>1. CASE k = last /\ j \in 1 .. Len(S)
    BY <1>a, <1>5, <1>7, <2>1
  <2>2. CASE j = last /\ k \in 1 .. Len(S)
    BY <1>a, <1>5, <1>7, <2>2
  <2>3. CASE k \in 1 .. Len(S) /\ j \in 1 .. Len(S)
    BY <1>a, <1>5, <1>7, <2>3
  <2> QED BY <1>2, <2>1, <2>2, <2>3
<1>8. \A q, r \in Processes : (new[q] = new[r] /\ new[q] # 0) => q = r
  BY <1>1, <1>6 DEF TracedAt
<1>9. \A k \in 1 .. last, q \in Processes : t[k] = new[q] => t[k] = 0
  <2> SUFFICES ASSUME NEW k \in 1 .. last, NEW q \in Processes, t[k] = new[q], t[k] # 0
               PROVE  FALSE
    OBVIOUS
  <2>1. q # p /\ new[q] = kept[q]
    BY <1>6
  <2>2. CASE k = last
    BY <1>a, <1>5, <2>1, <2>2
  <2>3. CASE k \in 1 .. Len(S)
    BY <1>a, <1>5, <2>1, <2>3
  <2> QED BY <1>2, <2>2, <2>3
<1>10. \A q \in Processes : q \notin T \ {p} => new[q] = 0
  BY <1>1, <1>6 DEF TracedAt
<1>11. ASSUME NEW k \in 1 .. last, NEW j \in 1 .. last, k < j, m[k] = m[j]
       PROVE  t[j] # 0 /\ s[k] >= G[t[j]]
  <2>1. k \in 1 .. Len(S)
    BY <1>2, <1>11
  <2>2. CASE j \in 1 .. Len(S)
    BY <1>1, <1>3, <1>4, <1>5, <1>11, <2>1, <2>2 DEF TracedAt
  <2>3. CASE j = last
    BY <1>1, <1>3, <1>4, <1>5, <1>11, <2>1, <2>3 DEF TracedAt
  <2> QED BY <1>2, <2>2, <2>3
<1>12. ASSUME NEW k \in 1 .. last, m[k] \in T \ {p}
       PROVE  new[m[k]] # 0 /\ s[k] >= G[new[m[k]]]
  <2>1. k \in 1 .. Len(S) /\ m[k] = maker[k] /\ maker[k] \in T /\ maker[k] # p
    BY <1>2, <1>4, <1>12
  <2>2. new[m[k]] = kept[maker[k]]
    BY <1>2, <1>6, <2>1
  <2> QED BY <1>1, <1>3, <2>1, <2>2 DEF TracedAt
<1>13. \A k \in 1 .. last : m[k] \in H => s[k] >= a
  BY <1>1, <1>2, <1>3, <1>4 DEF TracedAt
<1>14. TracedAt(s, G, T \ {p}, H, a, m, t, new)
  BY <1>3, <1>4, <1>5, <1>6, <1>7, <1>8, <1>9, <1>10, <1>11, <1>12, <1>13 DEF TracedAt
<1> QED BY <1>14 DEF Traced, s

LEMMA TracedOlder ==
    ASSUME NEW S \in Seq(Ages), NEW G \in Seq(Ages), NEW T, NEW H, NEW a \in Ages, NEW b \in Ages,
           H # {} => b = IF a < Window THEN a + 1 ELSE Window, Traced(S, G, T, H, a)
    PROVE  Traced(Older(S), Older(G), T, H, b)
<1>1. PICK maker, token, kept : TracedAt(S, G, T, H, a, maker, token, kept)
  BY DEF Traced
<1> DEFINE old(x) == IF x < Window THEN x + 1 ELSE Window
<1>2. /\ \A k \in 1 .. Len(S) : maker[k] \in Processes /\ token[k] \in 0 .. Len(G)
      /\ \A q \in Processes : kept[q] \in 0 .. Len(G)
      /\ \A k \in 1 .. Len(S) : S[k] \in 0 .. Window
      /\ \A i \in 1 .. Len(G) : G[i] \in 0 .. Window
      /\ a \in 0 .. Window
      /\ Len(G) \in Nat /\ \A i \in 0 .. Len(G) : i # 0 => i \in 1 .. Len(G)
  BY <1>1, TracedTypes DEF Ages
<1>3. /\ Len(Older(S)) = Len(S) /\ Len(Older(G)) = Len(G)
      /\ \A k \in 1 .. Len(S) : Older(S)[k] = old(S[k])
      /\ \A i \in 1 .. Len(G) : Older(G)[i] = old(G[i])
  BY OlderIs
<1>4. \A x, y \in 0 .. Window : x >= y => old(x) >= old(y)
  OBVIOUS
<1>5. H # {} => b = old(a)
  OBVIOUS
<1> HIDE DEF old
<1>6. ASSUME NEW k \in 1 .. Len(S), NEW j \in 1 .. Len(S), k < j, maker[k] = maker[j]
      PROVE  token[j] # 0 /\ Older(S)[k] >= Older(G)[token[j]]
  <2>1. token[j] # 0 /\ S[k] >= G[token[j]]
    BY <1>1, <1>6 DEF TracedAt
  <2>2. token[j] \in 1 .. Len(G) /\ S[k] \in 0 .. Window /\ G[token[j]] \in 0 .. Window
    BY <1>2, <2>1
  <2> QED BY <1>3, <1>4, <2>1, <2>2
<1>7. ASSUME NEW k \in 1 .. Len(S), maker[k] \in T
      PROVE  kept[maker[k]] # 0 /\ Older(S)[k] >= Older(G)[kept[maker[k]]]
  <2>1. kept[maker[k]] # 0 /\ S[k] >= G[kept[maker[k]]]
    BY <1>1, <1>7 DEF TracedAt
  <2>2. /\ kept[maker[k]] \in 1 .. Len(G) /\ S[k] \in 0 .. Window
        /\ G[kept[maker[k]]] \in 0 .. Window
    BY <1>2, <2>1
  <2> QED BY <1>3, <1>4, <2>1, <2>2
<1>8. ASSUME NEW k \in 1 .. Len(S), maker[k] \in H PROVE Older(S)[k] >= b
  <2>1. S[k] >= a
    BY <1>1, <1>8 DEF TracedAt
  <2> QED BY <1>2, <1>3, <1>4, <1>5, <1>8, <2>1
<1>9. TracedAt(Older(S), Older(G), T, H, b, maker, token, kept)
  BY <1>1, <1>3, <1>6, <1>7, <1>8 DEF TracedAt
<1> QED BY <1>9 DEF Traced

\* A call that leaves the window is forgotten.
LEMMA TracedCallForgotten ==
    ASSUME NEW S \in Seq(Ages), NEW G \in Seq(Ages), NEW T, NEW H, NEW a, Falls(S),
           Traced(S, G, T, H, a)
    PROVE  Traced(Within(S), G, T, H, a)
<1>1. PICK maker, token, kept : TracedAt(S, G, T, H, a, maker, token, kept)
  BY DEF Traced
<1>2. PICK k \in 0 .. Len(S) :
        /\ Len(Within(S)) = Len(S) - k
        /\ \A i \in 1 .. Len(S) - k : Within(S)[i] = S[i + k]
  BY WithinIs
<1> DEFINE s == Within(S)
           n == Len(S) - k
           m == [i \in 1 .. n |-> maker[i + k]]
           t == [i \in 1 .. n |-> token[i + k]]
<1>3. /\ \A i \in 1 .. Len(S) : maker[i] \in Processes /\ token[i] \in 0 .. Len(G)
      /\ Len(S) \in Nat
  BY <1>1, TracedTypes
<1>4. /\ \A i \in 1 .. n : i + k \in 1 .. Len(S)
      /\ \A i, j \in 1 .. n : i < j => i + k < j + k
      /\ \A i, j \in 1 .. n : i + k = j + k => i = j
  BY <1>3
<1>5. Len(s) = n /\ \A i \in 1 .. n : s[i] = S[i + k]
  BY <1>2
<1>6. /\ m \in [1 .. n -> Processes] /\ \A i \in 1 .. n : m[i] = maker[i + k]
      /\ t \in [1 .. n -> 0 .. Len(G)] /\ \A i \in 1 .. n : t[i] = token[i + k]
  BY <1>3, <1>4
<1> HIDE DEF s, n, m, t
<1>7. \A i, j \in 1 .. n : (t[i] = t[j] /\ t[i] # 0) => i = j
  BY <1>1, <1>4, <1>6 DEF TracedAt
<1>8. \A i \in 1 .. n, p \in Processes : t[i] = kept[p] => t[i] = 0
  BY <1>1, <1>4, <1>6 DEF TracedAt
<1>9. \A i, j \in 1 .. n : (i < j /\ m[i] = m[j]) => (t[j] # 0 /\ s[i] >= G[t[j]])
  BY <1>1, <1>4, <1>5, <1>6 DEF TracedAt
<1>10. ASSUME NEW i \in 1 .. n, m[i] \in T PROVE kept[m[i]] # 0 /\ s[i] >= G[kept[m[i]]]
  <2> DEFINE j == i + k
  <2>1. j \in 1 .. Len(S) /\ m[i] = maker[j] /\ s[i] = S[j]
    BY <1>4, <1>5, <1>6
  <2> HIDE DEF j
  <2>2. kept[maker[j]] # 0 /\ S[j] >= G[kept[maker[j]]]
    BY <1>1, <1>10, <2>1 DEF TracedAt
  <2> QED BY <2>1, <2>2
<1>11. ASSUME NEW i \in 1 .. n, m[i] \in H PROVE s[i] >= a
  <2> DEFINE j == i + k
  <2>1. j \in 1 .. Len(S) /\ m[i] = maker[j] /\ s[i] = S[j]
    BY <1>4, <1>5, <1>6
  <2> HIDE DEF j
  <2>2. \A l \in 1 .. Len(S) : maker[l] \in H => S[l] >= a
    BY <1>1, Zenon DEF TracedAt
  <2> QED BY <1>11, <2>1, <2>2
<1>12. TracedAt(s, G, T, H, a, m, t, kept)
  BY <1>1, <1>5, <1>6, <1>7, <1>8, <1>9, <1>10, <1>11 DEF TracedAt
<1> QED BY <1>12 DEF Traced, s

\* A token that leaves the window is forgotten: no call of its process within the window was
\* made before it was granted.
LEMMA TracedTokenForgotten ==
    ASSUME NEW S \in Seq(Ages), NEW G \in Seq(Ages), NEW T, NEW H, NEW a, Falls(G),
           \A k \in 1 .. Len(S) : S[k] < Window, Traced(S, G, T, H, a)
    PROVE  Traced(S, Within(G), T, H, a)
<1>1. PICK maker, token, kept : TracedAt(S, G, T, H, a, maker, token, kept)
  BY DEF Traced
<1>2. PICK c \in 0 .. Len(G) :
        /\ Len(Within(G)) = Len(G) - c
        /\ \A i \in 1 .. Len(G) - c : Within(G)[i] = G[i + c]
        /\ \A i \in 1 .. Len(G) : G[i] < Window <=> i > c
  BY WithinIs
<1> DEFINE g == Within(G)
           n == Len(G) - c
           left(i) == IF i > c THEN i - c ELSE 0
           t == [k \in 1 .. Len(S) |-> left(token[k])]
           new == [p \in Processes |-> left(kept[p])]
<1>3. /\ \A k \in 1 .. Len(S) : maker[k] \in Processes /\ token[k] \in 0 .. Len(G)
      /\ \A p \in Processes : kept[p] \in 0 .. Len(G)
      /\ \A k \in 1 .. Len(S) : S[k] \in 0 .. Window
      /\ \A i \in 1 .. Len(G) : G[i] \in 0 .. Window
      /\ Len(S) \in Nat /\ Len(G) \in Nat
  BY <1>1, TracedTypes
<1>4. /\ \A i \in 0 .. Len(G) : left(i) \in 0 .. n /\ (left(i) # 0 => i # 0)
      /\ \A i, j \in 0 .. Len(G) : (left(i) = left(j) /\ left(i) # 0) => i = j
      /\ left(0) = 0
  BY <1>3
<1>5. \A i \in 0 .. Len(G), x \in 0 .. Window : (i # 0 /\ x < Window /\ x >= G[i]) =>
        (left(i) # 0 /\ x >= g[left(i)])
  <2> SUFFICES ASSUME NEW i \in 0 .. Len(G), NEW x \in 0 .. Window, i # 0, x < Window, x >= G[i]
               PROVE  left(i) # 0 /\ x >= g[left(i)]
    OBVIOUS
  <2>1. i \in 1 .. Len(G) /\ G[i] < Window
    BY <1>3
  <2>2. i > c
    BY <1>2, <2>1
  <2>3. i - c \in 1 .. n /\ i - c + c = i /\ left(i) = i - c
    BY <1>3, <2>1, <2>2
  <2>4. g[i - c] = G[i]
    BY <1>2, <2>3
  <2> HIDE DEF left, n, g
  <2> QED BY <2>3, <2>4
<1>6. Len(g) = n
  BY <1>2
<1> HIDE DEF left, n, g
<1>7. /\ t \in [1 .. Len(S) -> 0 .. n] /\ \A k \in 1 .. Len(S) : t[k] = left(token[k])
      /\ new \in [Processes -> 0 .. n] /\ \A p \in Processes : new[p] = left(kept[p])
  BY <1>3, <1>4
<1> HIDE DEF t, new
<1>8. \A k, j \in 1 .. Len(S) : (t[k] = t[j] /\ t[k] # 0) => k = j
  BY <1>1, <1>3, <1>4, <1>7 DEF TracedAt
<1>9. \A p, q \in Processes : (new[p] = new[q] /\ new[p] # 0) => p = q
  BY <1>1, <1>3, <1>4, <1>7 DEF TracedAt
<1>10. \A k \in 1 .. Len(S), p \in Processes : t[k] = new[p] => t[k] = 0
  BY <1>1, <1>3, <1>4, <1>7 DEF TracedAt
<1>11. \A p \in Processes : p \notin T => new[p] = 0
  BY <1>1, <1>4, <1>7 DEF TracedAt
<1>12. \A k, j \in 1 .. Len(S) : (k < j /\ maker[k] = maker[j]) =>
         (t[j] # 0 /\ S[k] >= g[t[j]])
  <2> SUFFICES ASSUME NEW k \in 1 .. Len(S), NEW j \in 1 .. Len(S), k < j, maker[k] = maker[j]
               PROVE  t[j] # 0 /\ S[k] >= g[t[j]]
    OBVIOUS
  <2>1. token[j] # 0 /\ S[k] >= G[token[j]]
    BY <1>1 DEF TracedAt
  <2> QED BY <1>3, <1>5, <1>7, <2>1
<1>13. ASSUME NEW k \in 1 .. Len(S), maker[k] \in T
       PROVE  new[maker[k]] # 0 /\ S[k] >= g[new[maker[k]]]
  <2>1. kept[maker[k]] # 0 /\ S[k] >= G[kept[maker[k]]]
    BY <1>1, <1>13 DEF TracedAt
  <2>2. /\ kept[maker[k]] \in 0 .. Len(G) /\ S[k] \in 0 .. Window /\ S[k] < Window
        /\ new[maker[k]] = left(kept[maker[k]])
    BY <1>3, <1>7
  <2> QED BY <1>5, <2>1, <2>2
<1>14. TracedAt(S, g, T, H, a, maker, t, new)
  BY <1>1, <1>6, <1>7, <1>8, <1>9, <1>10, <1>11, <1>12, <1>13 DEF TracedAt
<1> QED BY <1>14 DEF Traced, g

\* A call without token within the window is the only one of its process.
LEMMA TracedBounded ==
    ASSUME NEW S \in Seq(Ages), NEW G \in Seq(Ages), NEW T, NEW H, NEW a, Traced(S, G, T, H, a)
    PROVE  Len(S) <= Len(G) + Cardinality(Processes)
<1>1. PICK maker, token, kept : TracedAt(S, G, T, H, a, maker, token, kept)
  BY DEF Traced
<1> DEFINE Old == {k \in 1 .. Len(S) : token[k] = 0}
           New == {k \in 1 .. Len(S) : token[k] # 0}
           N == 1 .. Len(G)
           f == [k \in New |-> token[k]]
           h == [k \in Old |-> maker[k]]
<1>2. /\ \A k \in 1 .. Len(S) : maker[k] \in Processes /\ token[k] \in 0 .. Len(G)
      /\ Len(S) \in Nat /\ Len(G) \in Nat
      /\ \A i \in 0 .. Len(G) : i # 0 => i \in N
      /\ \A k, j \in 1 .. Len(S) : k = j \/ k < j \/ j < k
  BY <1>1, TracedTypes
<1>3. IsFiniteSet(1 .. Len(S)) /\ Cardinality(1 .. Len(S)) = Len(S)
  BY <1>2, CountTo
<1>4. IsFiniteSet(N) /\ Cardinality(N) = Len(G)
  BY <1>2, CountTo
<1>5. f \in [New -> N] /\ \A k, j \in New : f[k] = f[j] => k = j
  BY <1>1, <1>2 DEF TracedAt
<1>6. h \in [Old -> Processes] /\ \A k, j \in Old : h[k] = h[j] => k = j
  <2>1. h \in [Old -> Processes]
    BY <1>2
  <2>2. ASSUME NEW k \in Old, NEW j \in Old, h[k] = h[j] PROVE k = j
    <3>1. maker[k] = maker[j] /\ token[k] = 0 /\ token[j] = 0
      BY <2>2
    <3> QED BY <1>1, <1>2, <3>1 DEF TracedAt
  <2> QED BY <2>1, <2>2
<1>7. IsFiniteSet(Old) /\ IsFiniteSet(New) /\ Old \cup New = 1 .. Len(S) /\ Old \cap New = {}
  BY <1>3, FS_Subset
<1> HIDE DEF Old, New, N, f, h
<1>8. Cardinality(New) <= Len(G)
  BY <1>4, <1>5, FS_Injection DEF Injection, IsInjective
<1>9. IsFiniteSet(Processes)
  BY LimitsAssumption
<1>10. Cardinality(Old) <= Cardinality(Processes)
  BY <1>6, <1>9, FS_Injection DEF Injection, IsInjective
<1>11. Cardinality(Old \cup New) = Cardinality(Old) + Cardinality(New) - Cardinality(Old \cap New)
  BY <1>7, FS_Union
<1>12. Cardinality(Old \cap New) = 0
  BY <1>7, FS_EmptySet
<1>13. /\ Cardinality(Old) \in Nat /\ Cardinality(New) \in Nat
       /\ Cardinality(Processes) \in Nat
  BY <1>7, <1>9, FS_CardinalityType
<1>14. Len(S) = Cardinality(Old) + Cardinality(New)
  <2>1. Cardinality(Old \cup New) = Len(S)
    BY <1>3, <1>7
  <2> QED BY <1>11, <1>12, <1>13, <2>1
<1> QED BY <1>2, <1>8, <1>10, <1>13, <1>14

-----------------------------------------------------------------------------
(* The invariant of the limiter *)

\* Lists are in the order of time; the histories are of the window.
ListsOK ==
    /\ Falls(file) /\ Falls(calls) /\ Falls(granted) /\ Falls(sent) /\ Falls(losses)
    /\ \A i \in 1 .. Len(granted) : granted[i] < Window
    /\ \A i \in 1 .. Len(sent) : sent[i] < Window
    /\ Len(file) <= MaxCalls

\* The holder of the lock: its sleep lasts until its oldest call has left the window; then its
\* list has room for the time of the call, which is no older than any token granted.
HolderOK ==
    \A p \in Processes :
      /\ pc[p] = "sleeping" =>
           Len(calls) \in 1 .. MaxCalls /\ calls[1] + wait >= Window
      /\ pc[p] \in {"stamped", "writing"} =>
           /\ Len(calls) \in 1 .. MaxCalls
           /\ \A i \in 1 .. Len(granted) : granted[i] >= calls[Len(calls)]
      /\ pc[p] = "writing" => file = <<>>

\* The tokens since the latest loss are in the state file, or, while it is written, in the
\* list of who writes it.
GrantsOK ==
    /\ (\A p \in Processes : pc[p] # "writing") => Placed(granted, losses, file, Len(file))
    /\ \A p \in Processes :
         /\ pc[p] = "sleeping" => Placed(granted, losses, calls, Len(calls))
         /\ pc[p] \in {"stamped", "writing"} => Placed(granted, losses, calls, Len(calls) - 1)

Granted == {p \in Processes : pc[p] = "granted"}
Stamped == {p \in Processes : pc[p] \in {"stamped", "writing"}}
Stamp == IF calls = <<>> THEN 0 ELSE calls[Len(calls)]

SentOK == Traced(sent, granted, Granted, Stamped, Stamp)

LimiterInv == LimiterTypeOK /\ ListsOK /\ HolderOK /\ GrantsOK /\ SentOK

LEMMA EmptyList == <<>> \in Seq(Ages) /\ Len(<<>>) = 0 /\ Falls(<<>>)
BY DEF Falls

\* The holder is the one process inside acquire().
LEMMA OneInside ==
    ASSUME LimiterTypeOK, NEW p \in Processes, NEW q \in Processes,
           pc[p] \in {"sleeping", "stamped", "writing"},
           pc[q] \in {"sleeping", "stamped", "writing"}
    PROVE  p = q
BY DEF LimiterTypeOK

LEMMA StampIs ==
    ASSUME LimiterTypeOK
    PROVE  /\ Stamp \in Ages /\ 0 \in Ages
           /\ calls # <<>> => Stamp = calls[Len(calls)]
<1>1. 0 \in Ages
  BY DEF Ages
<1>2. ASSUME calls # <<>> PROVE calls[Len(calls)] \in Ages
  BY <1>2 DEF LimiterTypeOK
<1> QED BY <1>1, <1>2 DEF Stamp

LEMMA LimiterStarts == LimiterInit => LimiterInv
<1> SUFFICES ASSUME LimiterInit PROVE LimiterInv
  OBVIOUS
<1>1. /\ file = <<>> /\ holder = Unlocked /\ pc = [p \in Processes |-> "idle"]
      /\ calls = <<>> /\ wait = 0 /\ granted = <<>> /\ sent = <<>> /\ losses = <<>>
  BY DEF LimiterInit
<1>2. LimiterTypeOK
  BY <1>1, EmptyList DEF LimiterTypeOK, Ages
<1>3. ListsOK
  BY <1>1, EmptyList DEF ListsOK
<1>4. HolderOK
  BY <1>1 DEF HolderOK
<1>5. GrantsOK
  <2>1. PlacedAt(<<>>, <<>>, <<>>, 0, [i \in 1 .. 0 |-> 0], [i \in 1 .. 0 |-> 1])
    <3>1. \A i \in 1 .. 0 : FALSE
      OBVIOUS
    <3> QED BY <3>1, EmptyList DEF PlacedAt
  <2>2. Placed(<<>>, <<>>, <<>>, 0)
    BY <2>1 DEF Placed
  <2> QED BY <1>1, <2>2, EmptyList DEF GrantsOK
<1>6. SentOK
  <2> DEFINE kept == [p \in Processes |-> 0]
             none == [i \in 1 .. 0 |-> 0]
  <2>1. \A i \in 1 .. 0 : FALSE
    OBVIOUS
  <2>2. none \in [1 .. 0 -> Processes] /\ none \in [1 .. 0 -> 0 .. 0]
    BY <2>1
  <2>3. kept \in [Processes -> 0 .. 0] /\ \A p \in Processes : kept[p] = 0
    OBVIOUS
  <2> HIDE DEF kept, none
  <2>4. TracedAt(<<>>, <<>>, Granted, Stamped, Stamp, none, none, kept)
    BY <2>1, <2>2, <2>3, EmptyList DEF TracedAt
  <2>5. Traced(<<>>, <<>>, Granted, Stamped, Stamp)
    BY <2>4 DEF Traced
  <2> QED BY <1>1, <2>5 DEF SentOK
<1> QED BY <1>2, <1>3, <1>4, <1>5, <1>6 DEF LimiterInv

\* The facts of the invariant that the steps use
LEMMA LimiterFacts ==
    ASSUME LimiterInv
    PROVE  /\ file \in Seq(Ages) /\ calls \in Seq(Ages) /\ granted \in Seq(Ages)
           /\ sent \in Seq(Ages) /\ losses \in Seq(Ages) /\ wait \in 0 .. Window
           /\ Falls(file) /\ Falls(calls) /\ Falls(granted) /\ Falls(sent) /\ Falls(losses)
           /\ \A i \in 1 .. Len(granted) : granted[i] < Window
           /\ \A i \in 1 .. Len(sent) : sent[i] < Window
           /\ Len(file) <= MaxCalls
           /\ Traced(sent, granted, Granted, Stamped, Stamp)
           /\ LimiterTypeOK
BY DEF LimiterInv, LimiterTypeOK, ListsOK, SentOK, Ages

\* A process asks for a token.
LEMMA RequestKeeps ==
    ASSUME LimiterInv, NEW p \in Processes, Request(p)
    PROVE  LimiterInv'
<1>1. /\ pc[p] = "idle" /\ pc' = [pc EXCEPT ![p] = "waiting"]
      /\ UNCHANGED <<file, holder, calls, wait, granted, sent, losses>>
  BY DEF Request, Moves
<1>2. pc \in [Processes -> {"idle", "waiting", "sleeping", "stamped", "writing", "granted"}]
  BY DEF LimiterInv, LimiterTypeOK
<1>3. \A q \in Processes : pc'[q] = IF q = p THEN "waiting" ELSE pc[q]
  BY <1>1, <1>2
<1>4. LimiterTypeOK'
  BY <1>1, <1>2, <1>3 DEF LimiterInv, LimiterTypeOK
<1>5. ListsOK'
  BY <1>1 DEF LimiterInv, ListsOK
<1>6. HolderOK'
  BY <1>1, <1>3 DEF LimiterInv, HolderOK
<1>7. GrantsOK'
  BY <1>1, <1>3 DEF LimiterInv, GrantsOK
<1>8. Granted' = Granted /\ Stamped' = Stamped /\ Stamp' = Stamp
  BY <1>1, <1>3 DEF Granted, Stamped, Stamp
<1>9. SentOK'
  BY <1>1, <1>8 DEF LimiterInv, SentOK
<1> QED BY <1>4, <1>5, <1>6, <1>7, <1>9 DEF LimiterInv

\* acquire() finds room: it keeps what is within the window, and adds its time.
LEMMA LockWithRoomKeeps ==
    ASSUME LimiterInv, NEW p \in Processes, LockWithRoom(p)
    PROVE  LimiterInv'
<1> DEFINE fresh == Within(file)
<1>1. /\ pc[p] = "waiting" /\ pc' = [pc EXCEPT ![p] = "stamped"]
      /\ holder = Unlocked /\ holder' = p /\ calls' = Append(fresh, 0)
      /\ Len(fresh) < MaxCalls
      /\ UNCHANGED <<file, wait, granted, sent, losses>>
  <2>1. fresh \in Seq(Ages)
    BY LimiterFacts, WithinIs
  <2>2. Len(fresh) \in Nat
    BY <2>1
  <2> QED BY <2>2 DEF LockWithRoom, Moves, Full, Fresh
<1>2. /\ pc \in [Processes -> {"idle", "waiting", "sleeping", "stamped", "writing", "granted"}]
      /\ \A q \in Processes : pc[q] \notin {"sleeping", "stamped", "writing"}
      /\ p # Unlocked
  BY <1>1 DEF LimiterInv, LimiterTypeOK
<1>3. \A q \in Processes : pc'[q] = IF q = p THEN "stamped" ELSE pc[q]
  BY <1>1, <1>2
<1>4. fresh \in Seq(Ages) /\ Falls(fresh) /\ \A i \in 1 .. Len(fresh) : fresh[i] >= 0
  <2>1. fresh \in Seq(Ages) /\ Falls(fresh)
    BY LimiterFacts, WithinIs
  <2>2. \A i \in 1 .. Len(fresh) : fresh[i] \in Ages
    BY <2>1
  <2> QED BY <2>1, <2>2 DEF Ages
<1> HIDE DEF fresh
<1>5. /\ calls' \in Seq(Ages) /\ Len(calls') = Len(fresh) + 1 /\ calls'[Len(fresh) + 1] = 0
      /\ Falls(calls') /\ Len(fresh) \in Nat
  <2>1. 0 \in Ages
    BY DEF Ages
  <2>2. Len(fresh) \in Nat
    BY <1>4
  <2> QED BY <1>1, <1>4, <2>1, <2>2, AppendIs, AppendFalls
<1>6. LimiterTypeOK'
  BY <1>1, <1>2, <1>3, <1>5 DEF LimiterInv, LimiterTypeOK
<1>7. ListsOK'
  BY <1>1, <1>5 DEF LimiterInv, ListsOK
<1>8. Len(calls') \in 1 .. MaxCalls /\ calls'[Len(calls')] = 0 /\ calls' # <<>>
  BY <1>1, <1>5
<1>9. HolderOK'
  <2>1. \A i \in 1 .. Len(granted) : granted[i] >= 0
    BY LimiterFacts DEF Ages
  <2> QED BY <1>1, <1>2, <1>3, <1>8, <2>1 DEF HolderOK
<1>10. GrantsOK'
  <2>1. Placed(granted, losses, file, Len(file))
    BY <1>2 DEF LimiterInv, GrantsOK
  <2>2. Placed(granted, losses, fresh, Len(fresh))
    BY <2>1, LimiterFacts, PlacedFiltered DEF fresh
  <2>3. Placed(granted, losses, calls', Len(fresh))
    <3>1. 0 \in Ages
      BY DEF Ages
    <3> QED BY <1>1, <1>4, <2>2, <3>1, LimiterFacts, PlacedStamped
  <2>4. Len(calls') - 1 = Len(fresh)
    BY <1>5
  <2> QED BY <1>1, <1>2, <1>3, <2>1, <2>3, <2>4 DEF GrantsOK
<1>11. SentOK'
  <2>1. Granted' = Granted
    BY <1>1, <1>3 DEF Granted
  <2>2. Stamp' = 0
    BY <1>8 DEF Stamp
  <2>3. Traced(sent, granted, Granted, Stamped', 0)
    BY LimiterFacts, TracedStamped
  <2> QED BY <1>1, <2>1, <2>2, <2>3 DEF SentOK
<1> QED BY <1>6, <1>7, <1>9, <1>10, <1>11 DEF LimiterInv

\* acquire() finds no room: it sleeps until its oldest call has left the window.
LEMMA LockAndSleepKeeps ==
    ASSUME LimiterInv, NEW p \in Processes, LockAndSleep(p)
    PROVE  LimiterInv'
<1> DEFINE fresh == Within(file)
<1>1. /\ pc[p] = "waiting" /\ pc' = [pc EXCEPT ![p] = "sleeping"]
      /\ holder = Unlocked /\ holder' = p /\ calls' = fresh
      /\ Len(fresh) >= MaxCalls /\ wait' = Window - Head(fresh)
      /\ UNCHANGED <<file, granted, sent, losses>>
  BY DEF LockAndSleep, Moves, Full, Fresh
<1>2. /\ pc \in [Processes -> {"idle", "waiting", "sleeping", "stamped", "writing", "granted"}]
      /\ \A q \in Processes : pc[q] \notin {"sleeping", "stamped", "writing"}
      /\ p # Unlocked
  BY <1>1 DEF LimiterInv, LimiterTypeOK
<1>3. \A q \in Processes : pc'[q] = IF q = p THEN "sleeping" ELSE pc[q]
  BY <1>1, <1>2
<1>4. /\ fresh \in Seq(Ages) /\ Falls(fresh) /\ Len(fresh) <= Len(file) /\ Len(fresh) \in Nat
      /\ Len(file) \in Nat
  <2>1. fresh \in Seq(Ages) /\ Falls(fresh) /\ Len(fresh) <= Len(file)
    BY LimiterFacts, WithinIs
  <2>2. file \in Seq(Ages)
    BY LimiterFacts
  <2> HIDE DEF fresh
  <2> QED BY <2>1, <2>2
<1> HIDE DEF fresh
<1>5. Len(fresh) \in 1 .. MaxCalls /\ fresh # <<>>
  <2>1. Len(file) <= MaxCalls
    BY LimiterFacts
  <2> QED BY <1>1, <1>4, <2>1
<1>6. Head(fresh) = fresh[1] /\ fresh[1] \in 0 .. Window
  BY <1>4, <1>5 DEF Ages
<1>7. wait' \in 0 .. Window /\ fresh[1] + wait' >= Window
  BY <1>1, <1>6
<1>8. LimiterTypeOK'
  BY <1>1, <1>2, <1>3, <1>4, <1>7 DEF LimiterInv, LimiterTypeOK, Ages
<1>9. ListsOK'
  BY <1>1, <1>4 DEF LimiterInv, ListsOK
<1>10. HolderOK'
  BY <1>1, <1>2, <1>3, <1>5, <1>7 DEF HolderOK
<1>11. GrantsOK'
  <2>1. Placed(granted, losses, file, Len(file))
    BY <1>2 DEF LimiterInv, GrantsOK
  <2>2. Placed(granted, losses, fresh, Len(fresh))
    BY <2>1, LimiterFacts, PlacedFiltered DEF fresh
  <2> QED BY <1>1, <1>2, <1>3, <2>1, <2>2 DEF GrantsOK
<1>12. SentOK'
  <2>1. Granted' = Granted /\ Stamped' = {} /\ {} \in SUBSET Stamped /\ Granted \in SUBSET Granted
    BY <1>1, <1>2, <1>3 DEF Granted, Stamped
  <2>2. Traced(sent, granted, Granted, {}, Stamp')
    BY <2>1, LimiterFacts, TracedEnded
  <2> QED BY <1>1, <2>1, <2>2 DEF SentOK
<1> QED BY <1>8, <1>9, <1>10, <1>11, <1>12 DEF LimiterInv

\* The sleep is over: the oldest call has left the window, so that there is room.
LEMMA WakeKeeps ==
    ASSUME LimiterInv, NEW p \in Processes, Wake(p)
    PROVE  LimiterInv'
<1> DEFINE fresh == Within(calls)
<1>1. /\ pc[p] = "sleeping" /\ pc' = [pc EXCEPT ![p] = "stamped"]
      /\ wait = 0 /\ calls' = Append(fresh, 0)
      /\ UNCHANGED <<file, holder, wait, granted, sent, losses>>
  BY DEF Wake, Moves, Fresh
<1>2. /\ pc \in [Processes -> {"idle", "waiting", "sleeping", "stamped", "writing", "granted"}]
      /\ holder = p
      /\ \A q \in Processes : q # p => pc[q] \notin {"sleeping", "stamped", "writing"}
  BY <1>1 DEF LimiterInv, LimiterTypeOK
<1>3. \A q \in Processes : pc'[q] = IF q = p THEN "stamped" ELSE pc[q]
  BY <1>1, <1>2
<1>4. /\ fresh \in Seq(Ages) /\ Falls(fresh) /\ Len(fresh) \in Nat
      /\ \A i \in 1 .. Len(fresh) : fresh[i] >= 0
  <2>1. fresh \in Seq(Ages) /\ Falls(fresh)
    BY LimiterFacts, WithinIs
  <2>2. \A i \in 1 .. Len(fresh) : fresh[i] \in Ages
    BY <2>1
  <2>3. Len(fresh) \in Nat
    BY <2>1
  <2> QED BY <2>1, <2>2, <2>3 DEF Ages
<1>5. Len(fresh) < MaxCalls
  <2>1. Len(calls) \in 1 .. MaxCalls /\ calls[1] + wait >= Window
    BY <1>1 DEF LimiterInv, HolderOK
  <2>2. calls \in Seq(Ages) /\ Falls(calls)
    BY LimiterFacts
  <2>3. PICK k \in 0 .. Len(calls) :
          /\ Len(Within(calls)) = Len(calls) - k
          /\ \A i \in 1 .. Len(calls) : calls[i] < Window <=> i > k
    BY <2>2, WithinIs
  <2>4. calls[1] \in 0 .. Window /\ 1 \in 1 .. Len(calls)
    BY <2>1, <2>2 DEF Ages
  <2>5. ~ (calls[1] < Window)
    BY <1>1, <2>1, <2>4
  <2>6. ~ (1 > k)
    BY <2>3, <2>4, <2>5
  <2> QED BY <2>1, <2>3, <2>6
<1> HIDE DEF fresh
<1>6. /\ calls' \in Seq(Ages) /\ Len(calls') = Len(fresh) + 1 /\ calls'[Len(fresh) + 1] = 0
      /\ Falls(calls')
  <2>1. 0 \in Ages
    BY DEF Ages
  <2> QED BY <1>1, <1>4, <2>1, AppendIs, AppendFalls
<1>7. LimiterTypeOK'
  BY <1>1, <1>2, <1>3, <1>6 DEF LimiterInv, LimiterTypeOK
<1>8. ListsOK'
  BY <1>1, <1>6 DEF LimiterInv, ListsOK
<1>9. Len(calls') \in 1 .. MaxCalls /\ calls'[Len(calls')] = 0 /\ calls' # <<>>
  BY <1>4, <1>5, <1>6
<1>10. HolderOK'
  <2>1. \A i \in 1 .. Len(granted) : granted[i] >= 0
    BY LimiterFacts DEF Ages
  <2> QED BY <1>1, <1>2, <1>3, <1>9, <2>1 DEF HolderOK
<1>11. GrantsOK'
  <2>0. Placed(granted, losses, file, Len(file))
    BY <1>1, <1>2 DEF LimiterInv, GrantsOK
  <2>1. Placed(granted, losses, calls, Len(calls))
    BY <1>1 DEF LimiterInv, GrantsOK
  <2>2. Placed(granted, losses, fresh, Len(fresh))
    BY <2>1, LimiterFacts, PlacedFiltered DEF fresh
  <2>3. Placed(granted, losses, calls', Len(fresh))
    <3>1. 0 \in Ages
      BY DEF Ages
    <3> QED BY <1>1, <1>4, <2>2, <3>1, LimiterFacts, PlacedStamped
  <2>4. Len(calls') - 1 = Len(fresh)
    BY <1>4, <1>6
  <2> QED BY <1>1, <1>2, <1>3, <2>0, <2>3, <2>4 DEF GrantsOK
<1>12. SentOK'
  <2>1. Granted' = Granted
    BY <1>1, <1>3 DEF Granted
  <2>2. Stamp' = 0
    BY <1>9 DEF Stamp
  <2>3. Traced(sent, granted, Granted, Stamped', 0)
    BY LimiterFacts, TracedStamped
  <2> QED BY <1>1, <2>1, <2>2, <2>3 DEF SentOK
<1> QED BY <1>7, <1>8, <1>10, <1>11, <1>12 DEF LimiterInv

\* The state file is emptied: what it held is in the list of who writes it.
LEMMA TruncateKeeps ==
    ASSUME LimiterInv, NEW p \in Processes, Truncate(p)
    PROVE  LimiterInv'
<1>1. /\ pc[p] = "stamped" /\ pc' = [pc EXCEPT ![p] = "writing"] /\ file' = <<>>
      /\ UNCHANGED <<holder, calls, wait, granted, sent, losses>>
  BY DEF Truncate, Moves
<1>2. /\ pc \in [Processes -> {"idle", "waiting", "sleeping", "stamped", "writing", "granted"}]
      /\ holder = p
      /\ \A q \in Processes : q # p => pc[q] \notin {"sleeping", "stamped", "writing"}
  BY <1>1 DEF LimiterInv, LimiterTypeOK
<1>3. \A q \in Processes : pc'[q] = IF q = p THEN "writing" ELSE pc[q]
  BY <1>1, <1>2
<1>4. LimiterTypeOK'
  BY <1>1, <1>2, <1>3, EmptyList DEF LimiterInv, LimiterTypeOK
<1>5. ListsOK'
  BY <1>1, EmptyList DEF LimiterInv, ListsOK
<1>6. HolderOK'
  BY <1>1, <1>2, <1>3 DEF LimiterInv, HolderOK
<1>7. GrantsOK'
  <2>1. Placed(granted, losses, calls, Len(calls) - 1)
    BY <1>1 DEF LimiterInv, GrantsOK
  <2> QED BY <1>1, <1>2, <1>3, <2>1 DEF GrantsOK
<1>8. Granted' = Granted /\ Stamped' = Stamped /\ Stamp' = Stamp
  BY <1>1, <1>3 DEF Granted, Stamped, Stamp
<1>9. SentOK'
  BY <1>1, <1>8 DEF LimiterInv, SentOK
<1> QED BY <1>4, <1>5, <1>6, <1>7, <1>9 DEF LimiterInv

\* The list is written, the lock is freed, and the process has its token.
LEMMA StoreKeeps ==
    ASSUME LimiterInv, NEW p \in Processes, Store(p)
    PROVE  LimiterInv'
<1> DEFINE a == calls[Len(calls)]
           all == Append(granted, a)
<1>0. pc[p] = "writing" /\ holder = p
  BY DEF Store, Moves, LimiterInv, LimiterTypeOK
<1>1. /\ pc' = [pc EXCEPT ![p] = "granted"] /\ file' = calls
      /\ holder' = Unlocked /\ calls' = <<>> /\ wait' = 0
      /\ granted' = Within(all)
      /\ UNCHANGED <<sent, losses>>
  BY <1>0 DEF Store, Moves, Recorded, FreeLock
<1>2. /\ pc \in [Processes -> {"idle", "waiting", "sleeping", "stamped", "writing", "granted"}]
      /\ \A q \in Processes : q # p => pc[q] \notin {"sleeping", "stamped", "writing"}
  BY <1>0 DEF LimiterInv, LimiterTypeOK
<1>3. \A q \in Processes : pc'[q] = IF q = p THEN "granted" ELSE pc[q]
  BY <1>1, <1>2
<1>4. /\ calls \in Seq(Ages) /\ Falls(calls) /\ Len(calls) \in 1 .. MaxCalls
      /\ a \in Ages /\ \A i \in 1 .. Len(granted) : granted[i] >= a
      /\ calls # <<>>
  <2>1. calls \in Seq(Ages) /\ Falls(calls)
    BY LimiterFacts
  <2>2. /\ Len(calls) \in 1 .. MaxCalls
        /\ \A i \in 1 .. Len(granted) : granted[i] >= a
    BY <1>0 DEF LimiterInv, HolderOK
  <2>3. a \in Ages /\ calls # <<>>
    BY <2>1, <2>2
  <2> QED BY <2>1, <2>2, <2>3
<1>5. Stamp = a
  BY <1>4 DEF Stamp
<1>6. Placed(all, losses, calls, Len(calls))
  <2>1. Placed(granted, losses, calls, Len(calls) - 1)
    BY <1>0 DEF LimiterInv, GrantsOK
  <2> QED BY <1>4, <2>1, LimiterFacts, PlacedGranted
<1> HIDE DEF a
<1>7. all \in Seq(Ages) /\ Falls(all)
  BY <1>4, LimiterFacts, AppendIs, AppendFalls
<1> HIDE DEF all
<1>8. /\ granted' \in Seq(Ages) /\ Falls(granted')
      /\ \A i \in 1 .. Len(granted') : granted'[i] < Window
  BY <1>1, <1>7, WithinIs
<1>9. LimiterTypeOK'
  BY <1>0, <1>1, <1>2, <1>3, <1>4, <1>8, EmptyList, LimiterFacts DEF LimiterTypeOK, Ages
<1>10. ListsOK'
  BY <1>1, <1>4, <1>8, EmptyList DEF LimiterInv, ListsOK
<1>11. \A q \in Processes : pc'[q] \notin {"sleeping", "stamped", "writing"}
  BY <1>2, <1>3
<1>12. HolderOK'
  BY <1>11 DEF HolderOK
<1>13. GrantsOK'
  <2>1. Placed(granted', losses, calls, Len(calls))
    <3>1. Len(calls) \in Nat
      BY <1>4
    <3> QED BY <1>1, <1>4, <1>6, <1>7, <3>1, LimiterFacts, PlacedTrimmed
  <2> QED BY <1>1, <1>11, <2>1 DEF GrantsOK
<1>14. SentOK'
  <2>1. Granted' = Granted \cup {p} /\ Stamped' = {} /\ p \notin Granted /\ p \in Stamped
    BY <1>0, <1>2, <1>3 DEF Granted, Stamped
  <2>2. Traced(sent, all, Granted \cup {p}, {}, 0)
    BY <1>4, <1>5, <2>1, LimiterFacts, TracedGranted DEF all
  <2>3. Traced(sent, granted', Granted \cup {p}, {}, 0)
    BY <1>1, <1>7, <2>2, LimiterFacts, TracedTokenForgotten
  <2>4. Stamp' = 0
    BY <1>1 DEF Stamp
  <2> QED BY <1>1, <2>1, <2>3, <2>4 DEF SentOK
<1> QED BY <1>9, <1>10, <1>12, <1>13, <1>14 DEF LimiterInv

\* A process that has a token calls Discourse.
LEMMA CallKeeps ==
    ASSUME LimiterInv, NEW p \in Processes, Call(p)
    PROVE  LimiterInv'
<1>1. /\ pc[p] = "granted" /\ pc' = [pc EXCEPT ![p] = "idle"] /\ sent' = Append(sent, 0)
      /\ UNCHANGED <<file, holder, calls, wait, granted, losses>>
  BY DEF Call, Moves
<1>2. pc \in [Processes -> {"idle", "waiting", "sleeping", "stamped", "writing", "granted"}]
  BY DEF LimiterInv, LimiterTypeOK
<1>3. \A q \in Processes : pc'[q] = IF q = p THEN "idle" ELSE pc[q]
  BY <1>1, <1>2
<1>4. /\ sent' \in Seq(Ages) /\ Falls(sent')
      /\ \A i \in 1 .. Len(sent') : sent'[i] < Window
  <2>1. sent \in Seq(Ages) /\ Falls(sent) /\ \A i \in 1 .. Len(sent) : sent[i] < Window
    BY LimiterFacts
  <2>2. \A i \in 1 .. Len(sent) : sent[i] >= 0
    BY <2>1 DEF Ages
  <2>3. 0 \in Ages /\ 0 < Window /\ Len(sent) \in Nat
    BY <2>1 DEF Ages
  <2>4. sent' \in Seq(Ages) /\ Falls(sent')
    BY <1>1, <2>1, <2>2, <2>3, AppendIs, AppendFalls
  <2>5. /\ Len(sent') = Len(sent) + 1 /\ sent'[Len(sent) + 1] = 0
        /\ \A i \in 1 .. Len(sent) : sent'[i] = sent[i]
    BY <1>1, <2>1, <2>3, AppendIs
  <2>6. \A i \in 1 .. Len(sent') : i \in 1 .. Len(sent) \/ i = Len(sent) + 1
    BY <2>3, <2>5
  <2> QED BY <2>1, <2>3, <2>4, <2>5, <2>6
<1>5. LimiterTypeOK'
  BY <1>1, <1>2, <1>3, <1>4 DEF LimiterInv, LimiterTypeOK
<1>6. ListsOK'
  BY <1>1, <1>4 DEF LimiterInv, ListsOK
<1>7. HolderOK'
  BY <1>1, <1>3 DEF LimiterInv, HolderOK
<1>8. GrantsOK'
  BY <1>1, <1>3 DEF LimiterInv, GrantsOK
<1>9. SentOK'
  <2>1. /\ Granted' = Granted \ {p} /\ Stamped' = Stamped /\ p \in Granted /\ p \notin Stamped
        /\ Stamp' = Stamp
    BY <1>1, <1>3 DEF Granted, Stamped, Stamp
  <2>2. Traced(sent', granted, Granted \ {p}, Stamped, Stamp)
    BY <1>1, <2>1, LimiterFacts, TracedCalled
  <2> QED BY <1>1, <2>1, <2>2 DEF SentOK
<1> QED BY <1>5, <1>6, <1>7, <1>8, <1>9 DEF LimiterInv

\* A process ends. One that was writing loses the record; any other leaves the file as it was.
LEMMA CrashKeeps ==
    ASSUME LimiterInv, NEW p \in Processes, Crash(p)
    PROVE  LimiterInv'
<1>1. /\ pc' = [pc EXCEPT ![p] = "idle"]
      /\ losses' = IF pc[p] = "writing" THEN Append(losses, 0) ELSE losses
      /\ IF holder = p THEN holder' = Unlocked /\ calls' = <<>> /\ wait' = 0
                       ELSE UNCHANGED <<holder, calls, wait>>
      /\ UNCHANGED <<file, granted, sent>>
  BY DEF Crash, Moves, FreeLock
<1>2. /\ pc \in [Processes -> {"idle", "waiting", "sleeping", "stamped", "writing", "granted"}]
      /\ \A q \in Processes : pc[q] \in {"sleeping", "stamped", "writing"} <=> holder = q
      /\ p # Unlocked
  BY DEF LimiterInv, LimiterTypeOK
<1>3. \A q \in Processes : pc'[q] = IF q = p THEN "idle" ELSE pc[q]
  BY <1>1, <1>2
<1>4. losses' \in Seq(Ages) /\ Falls(losses')
  <2>1. losses \in Seq(Ages) /\ Falls(losses) /\ 0 \in Ages
    BY LimiterFacts DEF Ages
  <2>2. \A i \in 1 .. Len(losses) : losses[i] >= 0
    BY <2>1 DEF Ages
  <2> QED BY <1>1, <2>1, <2>2, AppendIs, AppendFalls
<1>5. calls' \in Seq(Ages) /\ Falls(calls')
  BY <1>1, EmptyList, LimiterFacts
<1>6. wait' \in Ages /\ holder' \in Processes \cup {Unlocked}
  BY <1>1, <1>2 DEF LimiterInv, LimiterTypeOK, Ages
<1>7. \A q \in Processes : pc'[q] \in {"sleeping", "stamped", "writing"} <=> holder' = q
  BY <1>1, <1>2, <1>3
<1>8. pc' \in [Processes -> {"idle", "waiting", "sleeping", "stamped", "writing", "granted"}]
  BY <1>1, <1>2
<1>9. LimiterTypeOK'
  BY <1>1, <1>4, <1>5, <1>6, <1>7, <1>8 DEF LimiterInv, LimiterTypeOK
<1>10. ListsOK'
  BY <1>1, <1>4, <1>5 DEF LimiterInv, ListsOK
<1>11. \A q \in Processes : pc'[q] \in {"sleeping", "stamped", "writing"} =>
         /\ q # p /\ pc'[q] = pc[q]
         /\ UNCHANGED <<file, holder, calls, wait, granted, sent, losses>>
  BY <1>1, <1>2, <1>3
<1>12. HolderOK'
  BY <1>11 DEF LimiterInv, HolderOK
<1>13. GrantsOK'
  <2>1. ASSUME \A q \in Processes : pc'[q] # "writing"
        PROVE  Placed(granted, losses', file, Len(file))
    <3>1. CASE pc[p] = "writing"
      <4>1. Placed(granted, losses, calls, Len(calls) - 1) /\ file = <<>>
            /\ Len(calls) \in 1 .. MaxCalls
        BY <3>1 DEF LimiterInv, GrantsOK, HolderOK
      <4>2. Placed(granted, Append(losses, 0), <<>>, 0)
        <5>1. Len(calls) - 1 \in Nat
          BY <4>1
        <5> QED BY <4>1, <5>1, LimiterFacts, PlacedLost
      <4> QED BY <1>1, <3>1, <4>1, <4>2, EmptyList
    <3>2. CASE pc[p] # "writing"
      BY <1>1, <1>3, <2>1, <3>2 DEF LimiterInv, GrantsOK
    <3> QED BY <3>1, <3>2
  <2>2. \A q \in Processes :
          /\ pc'[q] = "sleeping" => Placed(granted', losses', calls', Len(calls'))
          /\ pc'[q] \in {"stamped", "writing"} =>
               Placed(granted', losses', calls', Len(calls') - 1)
    BY <1>11 DEF LimiterInv, GrantsOK
  <2> QED BY <1>1, <2>1, <2>2 DEF GrantsOK
<1>14. SentOK'
  <2>1. Granted' \in SUBSET Granted /\ Stamped' \in SUBSET Stamped
    BY <1>3 DEF Granted, Stamped
  <2>2. Stamped' = {} \/ Stamp' = Stamp
    BY <1>11 DEF Stamped, Stamp
  <2>3. Traced(sent, granted, Granted', Stamped', Stamp')
    BY <2>1, <2>2, LimiterFacts, TracedEnded
  <2> QED BY <1>1, <2>3 DEF SentOK
<1> QED BY <1>9, <1>10, <1>12, <1>13, <1>14 DEF LimiterInv

\* A second passes: everything is older, and what leaves the window is forgotten.
LEMMA TickKeeps ==
    ASSUME LimiterInv, TickSecond
    PROVE  LimiterInv'
<1>1. /\ file' = Older(file) /\ calls' = Older(calls)
      /\ wait' = IF wait > 0 THEN wait - 1 ELSE 0
      /\ granted' = Within(Older(granted)) /\ sent' = Within(Older(sent))
      /\ losses' = Within(Older(losses)) /\ UNCHANGED <<holder, pc>>
  BY DEF TickSecond
<1> DEFINE g == Older(granted)
           s == Older(sent)
           l == Older(losses)
<1>2. /\ file' \in Seq(Ages) /\ Falls(file') /\ Len(file') = Len(file)
      /\ calls' \in Seq(Ages) /\ Falls(calls') /\ Len(calls') = Len(calls)
      /\ g \in Seq(Ages) /\ Falls(g) /\ s \in Seq(Ages) /\ Falls(s)
      /\ l \in Seq(Ages) /\ Falls(l)
  BY <1>1, LimiterFacts, OlderIs, OlderFalls
<1> HIDE DEF g, s, l
<1>3. /\ granted' \in Seq(Ages) /\ Falls(granted')
      /\ sent' \in Seq(Ages) /\ Falls(sent') /\ losses' \in Seq(Ages) /\ Falls(losses')
      /\ \A i \in 1 .. Len(granted') : granted'[i] < Window
      /\ \A i \in 1 .. Len(sent') : sent'[i] < Window
  BY <1>1, <1>2, WithinIs DEF g, s, l
<1>4. wait \in 0 .. Window /\ wait' \in 0 .. Window /\ wait' >= wait - 1
  <2>1. wait \in 0 .. Window
    BY LimiterFacts
  <2> QED BY <1>1, <2>1
<1>5. LimiterTypeOK'
  BY <1>1, <1>2, <1>3, <1>4 DEF LimiterInv, LimiterTypeOK, Ages
<1>6. ListsOK'
  BY <1>2, <1>3 DEF LimiterInv, ListsOK
<1>7. /\ \A i \in 1 .. Len(calls) : calls[i] \in 0 .. Window
      /\ \A i \in 1 .. Len(granted) : granted[i] \in 0 .. Window
      /\ \A i \in 1 .. Len(calls) :
           calls'[i] = IF calls[i] < Window THEN calls[i] + 1 ELSE Window
      /\ Len(g) = Len(granted)
      /\ \A i \in 1 .. Len(g) :
           g[i] = IF granted[i] < Window THEN granted[i] + 1 ELSE Window
  <2>1. calls \in Seq(Ages) /\ granted \in Seq(Ages)
    BY LimiterFacts
  <2>2. /\ \A i \in 1 .. Len(calls) : calls[i] \in 0 .. Window
        /\ \A i \in 1 .. Len(granted) : granted[i] \in 0 .. Window
    BY <2>1 DEF Ages
  <2>3. /\ Len(g) = Len(granted)
        /\ \A i \in 1 .. Len(granted) :
             g[i] = IF granted[i] < Window THEN granted[i] + 1 ELSE Window
    BY <2>1, OlderIs DEF g
  <2>4. \A i \in 1 .. Len(calls) :
          calls'[i] = IF calls[i] < Window THEN calls[i] + 1 ELSE Window
    BY <1>1, <2>1, OlderIs
  <2> QED BY <2>2, <2>3, <2>4
<1>8. HolderOK'
  <2> SUFFICES ASSUME NEW p \in Processes
               PROVE  /\ pc[p] = "sleeping" =>
                           Len(calls') \in 1 .. MaxCalls /\ calls'[1] + wait' >= Window
                      /\ pc[p] \in {"stamped", "writing"} =>
                           /\ Len(calls') \in 1 .. MaxCalls
                           /\ \A i \in 1 .. Len(granted') : granted'[i] >= calls'[Len(calls')]
                      /\ pc[p] = "writing" => file' = <<>>
    BY <1>1 DEF HolderOK
  <2>1. ASSUME pc[p] = "sleeping"
        PROVE  Len(calls') \in 1 .. MaxCalls /\ calls'[1] + wait' >= Window
    <3>1. Len(calls) \in 1 .. MaxCalls /\ calls[1] + wait >= Window
      BY <2>1 DEF LimiterInv, HolderOK
    <3>2. 1 \in 1 .. Len(calls)
      BY <3>1
    <3>3. /\ calls[1] \in 0 .. Window
          /\ calls'[1] = IF calls[1] < Window THEN calls[1] + 1 ELSE Window
      BY <1>7, <3>2
    <3> DEFINE x == calls[1]
               y == calls'[1]
               w == wait
               v == wait'
    <3>4. /\ x \in 0 .. Window /\ y = (IF x < Window THEN x + 1 ELSE Window)
          /\ w \in 0 .. Window /\ v \in 0 .. Window /\ v >= w - 1 /\ x + w >= Window
      BY <1>4, <3>1, <3>3
    <3> HIDE DEF x, y, w, v
    <3>5. y + v >= Window
      BY <3>4
    <3> QED BY <1>2, <3>1, <3>5 DEF y, v
  <2>2. ASSUME pc[p] \in {"stamped", "writing"}
        PROVE  /\ Len(calls') \in 1 .. MaxCalls
               /\ \A i \in 1 .. Len(granted') : granted'[i] >= calls'[Len(calls')]
    <3>1. /\ Len(calls) \in 1 .. MaxCalls
          /\ \A i \in 1 .. Len(granted) : granted[i] >= calls[Len(calls)]
      BY <2>2 DEF LimiterInv, HolderOK
    <3>2. Len(calls) \in 1 .. Len(calls)
      BY <3>1
    <3>3. \A i \in 1 .. Len(g) : g[i] >= calls'[Len(calls')]
      BY <1>2, <1>7, <3>1, <3>2
    <3>4. PICK k \in 0 .. Len(g) :
            /\ Len(granted') = Len(g) - k
            /\ \A i \in 1 .. Len(g) - k : granted'[i] = g[i + k]
      <4>1. granted' = Within(g)
        BY <1>1 DEF g
      <4> QED BY <1>2, <4>1, WithinIs
    <3>5. \A i \in 1 .. Len(g) - k : i + k \in 1 .. Len(g)
      BY <1>2
    <3> QED BY <1>2, <3>1, <3>3, <3>4, <3>5
  <2>3. ASSUME pc[p] = "writing" PROVE file' = <<>>
    <3>1. file = <<>>
      BY <2>3 DEF LimiterInv, HolderOK
    <3>2. file' \in Seq(Ages) /\ Len(file') = 0
      BY <1>2, <3>1
    <3> QED BY <3>2
  <2> QED BY <2>1, <2>2, <2>3
<1>9. ASSUME NEW list \in Seq(Ages), NEW n \in Nat, n <= Len(list),
             Placed(granted, losses, list, n)
      PROVE  Placed(granted', losses', Older(list), n)
  <2>1. Placed(g, l, Older(list), n) /\ Older(list) \in Seq(Ages)
    BY <1>9, LimiterFacts, PlacedOlder, OlderIs DEF g, l
  <2>2. Placed(granted', l, Older(list), n)
    BY <1>1, <1>2, <2>1, PlacedTrimmed DEF g
  <2> QED BY <1>1, <1>2, <1>3, <2>1, <2>2, PlacedLossForgotten DEF l
<1>10. GrantsOK'
  <2>0. file \in Seq(Ages) /\ calls \in Seq(Ages) /\ Len(file) \in Nat /\ Len(calls) \in Nat
    <3>1. file \in Seq(Ages) /\ calls \in Seq(Ages)
      BY LimiterFacts
    <3> QED BY <3>1
  <2>1. ASSUME \A p \in Processes : pc[p] # "writing"
        PROVE  Placed(granted', losses', file', Len(file'))
    <3>1. Placed(granted, losses, file, Len(file))
      BY <2>1 DEF LimiterInv, GrantsOK
    <3> QED BY <1>1, <1>2, <1>9, <2>0, <3>1
  <2>2. ASSUME NEW p \in Processes, pc[p] = "sleeping"
        PROVE  Placed(granted', losses', calls', Len(calls'))
    <3>1. Placed(granted, losses, calls, Len(calls))
      BY <2>2 DEF LimiterInv, GrantsOK
    <3> QED BY <1>1, <1>2, <1>9, <2>0, <3>1
  <2>3. ASSUME NEW p \in Processes, pc[p] \in {"stamped", "writing"}
        PROVE  Placed(granted', losses', calls', Len(calls') - 1)
    <3>1. Placed(granted, losses, calls, Len(calls) - 1) /\ Len(calls) \in 1 .. MaxCalls
      BY <2>3 DEF LimiterInv, GrantsOK, HolderOK
    <3>2. Len(calls) - 1 \in Nat /\ Len(calls) - 1 <= Len(calls)
      BY <3>1
    <3> QED BY <1>1, <1>2, <1>9, <2>0, <3>1, <3>2
  <2> QED BY <1>1, <2>1, <2>2, <2>3 DEF GrantsOK
<1>11. SentOK'
  <2>1. Granted' = Granted /\ Stamped' = Stamped
    BY <1>1 DEF Granted, Stamped
  <2>2. Stamped # {} => Stamp' = IF Stamp < Window THEN Stamp + 1 ELSE Window
    <3> SUFFICES ASSUME NEW p \in Stamped
                 PROVE  Stamp' = IF Stamp < Window THEN Stamp + 1 ELSE Window
      OBVIOUS
    <3>1. Len(calls) \in 1 .. MaxCalls
      BY DEF LimiterInv, HolderOK, Stamped
    <3>2. calls # <<>> /\ calls' # <<>> /\ Len(calls) \in 1 .. Len(calls)
      BY <1>2, <3>1
    <3> QED BY <1>2, <1>7, <3>2 DEF Stamp
  <2>3. Stamp \in Ages /\ Stamp' \in Ages
    <3>1. Stamp \in Ages
      BY LimiterFacts, StampIs
    <3>2. Stamp' \in Ages
      <4>1. 0 \in Ages
        BY DEF Ages
      <4>2. ASSUME calls' # <<>> PROVE calls'[Len(calls')] \in Ages
        BY <1>2, <4>2
      <4> QED BY <4>1, <4>2 DEF Stamp
    <3> QED BY <3>1, <3>2
  <2>4. Traced(s, g, Granted, Stamped, Stamp')
    BY <2>2, <2>3, LimiterFacts, TracedOlder DEF s, g
  <2>5. Traced(sent', g, Granted, Stamped, Stamp')
    BY <1>1, <1>2, <2>4, TracedCallForgotten DEF s
  <2>6. Traced(sent', granted', Granted, Stamped, Stamp')
    BY <1>1, <1>2, <1>3, <2>5, TracedTokenForgotten DEF g
  <2> QED BY <2>1, <2>6 DEF SentOK
<1> QED BY <1>5, <1>6, <1>8, <1>10, <1>11 DEF LimiterInv

\* The budget is kept: the tokens have their places, and the calls their tokens.
LEMMA InvariantKeepsBudget == LimiterInv => LimiterOK
<1> SUFFICES ASSUME LimiterInv PROVE LimiterOK
  OBVIOUS
<1>1. /\ granted \in Seq(Ages) /\ sent \in Seq(Ages) /\ losses \in Seq(Ages)
      /\ file \in Seq(Ages) /\ calls \in Seq(Ages)
  BY LimiterFacts
<1>2. Len(granted) <= MaxCalls * (1 + Len(losses))
  <2>1. CASE \A p \in Processes : pc[p] # "writing"
    <3>1. Placed(granted, losses, file, Len(file)) /\ Len(file) \in Nat
      BY <1>1, <2>1 DEF LimiterInv, GrantsOK
    <3> QED BY <1>1, <3>1, PlacedBounded
  <2>2. CASE \E p \in Processes : pc[p] = "writing"
    <3>1. Placed(granted, losses, calls, Len(calls) - 1) /\ Len(calls) \in 1 .. MaxCalls
      BY <2>2 DEF LimiterInv, GrantsOK, HolderOK
    <3>2. Len(calls) - 1 \in Nat
      BY <3>1
    <3> QED BY <1>1, <3>1, <3>2, PlacedBounded
  <2> QED BY <2>1, <2>2
<1>3. Len(sent) <= Len(granted) + Cardinality(Processes)
  BY <1>1, LimiterFacts, TracedBounded
<1> DEFINE budget == MaxCalls * (1 + Len(losses))
<1>4. budget \in Int /\ Len(granted) \in Nat /\ Len(sent) \in Nat /\ Cardinality(Processes) \in Nat
  <2>1. Len(losses) \in Nat /\ Len(granted) \in Nat /\ Len(sent) \in Nat
    BY <1>1
  <2>2. budget \in Int
    BY <2>1
  <2>3. IsFiniteSet(Processes)
    BY LimitsAssumption
  <2> QED BY <2>1, <2>2, <2>3, FS_CardinalityType
<1>5. Len(granted) <= budget
  BY <1>2
<1> HIDE DEF budget
<1>6. Len(sent) <= budget + Cardinality(Processes)
  BY <1>3, <1>4, <1>5
<1> QED BY <1>5, <1>6 DEF LimiterInv, LimiterOK, WithinBudget, budget

\* What is inductive about the limiter: the tokens granted within the window fill, one each,
\* the MaxCalls places of as many epochs as there were losses, and one; those of the latest
\* epoch are in the state file or in the list of who writes it; every call was granted one.
THEOREM LimiterInvariant == LimiterSpec => []LimiterInv
<1>1. LimiterInit => LimiterInv
  BY LimiterStarts
<1>2. LimiterInv /\ [LimiterNext]_limiterVars => LimiterInv'
  <2> SUFFICES ASSUME LimiterInv, [LimiterNext]_limiterVars PROVE LimiterInv'
    OBVIOUS
  <2>1. ASSUME NEW p \in Processes, Request(p) PROVE LimiterInv'
    BY <2>1, RequestKeeps
  <2>2. ASSUME NEW p \in Processes, Acquires(p) PROVE LimiterInv'
    BY <2>2, LockWithRoomKeeps, LockAndSleepKeeps DEF Acquires
  <2>3. ASSUME NEW p \in Processes, MovesOn(p) PROVE LimiterInv'
    BY <2>3, WakeKeeps, TruncateKeeps, StoreKeeps, CallKeeps DEF MovesOn
  <2>4. ASSUME NEW p \in Processes, Crash(p) PROVE LimiterInv'
    BY <2>4, CrashKeeps
  <2>5. CASE TickSecond
    BY <2>5, TickKeeps
  <2>6. CASE UNCHANGED limiterVars
    BY <2>6 DEF limiterVars, LimiterInv, LimiterTypeOK, ListsOK, HolderOK, GrantsOK, SentOK,
                Granted, Stamped, Stamp
  <2> QED BY <2>1, <2>2, <2>3, <2>4, <2>5, <2>6 DEF LimiterNext
<1> QED BY <1>1, <1>2, PTL DEF LimiterSpec

\* For any number of processes, any budget and window, and processes that die wherever they are:
\* acquire() grants no more than MaxCalls tokens in a window, and as many again for each record
\* lost in it; Discourse sees at most one call more of each process.
THEOREM BudgetKept == LimiterSpec => []LimiterOK
BY LimiterInvariant, InvariantKeepsBudget, PTL

-----------------------------------------------------------------------------
(* The calendar feeds *)

USE CalendarAssumption

\* The feed "shown" differs from the forum f by nothing that is not in "touched".
TellsOf(f, b, key, shown, touched) ==
    /\ \A e \in Matching(f, key) : e.post \notin touched =>
         \E s \in shown : s.post = e.post /\ s.date = e.date
    /\ \A s \in shown : s.post \notin touched =>
         /\ [post |-> s.post, date |-> s.date] \in Matching(f, key)
         /\ s.place \in {f[s.post].place, NoPlace}
         /\ b /\ touched = {} => s.place = f[s.post].place

EventsOf(key) == [post : Posts, date : key.window]
FoundIn(f, P) == {p \in P : f[p] # NoFeed}
UpTo(f, P, n) == {p \in FoundIn(f, P) : p <= n}
RankIn(f, P, p) == Cardinality(UpTo(f, P, p))

\* The events that a build has found, but for those touched since, are those that match.
EventsFollow(f, q) ==
    /\ q.events \subseteq EventsOf(q.key)
    /\ \A e \in EventsOf(q.key) : e.post \notin q.touched => (e \in q.events <=> e \in Matching(f, q.key))

\* The places it knows, but for those, are those of the forum, or a call for one failed.
PlacesFollow(f, b, q) ==
    \A p \in DOMAIN q.places : p \notin q.touched =>
       /\ q.places[p] \in {f[p].place, NoPlace}
       /\ b => q.places[p] = f[p].place

\* The places are there of all posts on the pages that were read.
PagesRead(f, q) ==
    \A p \in FoundIn(f, PostsOf(q)) : RankIn(f, PostsOf(q), p) <= q.page * PageSize => p \in DOMAIN q.places

Follows(f, b, q) ==
    /\ q.step \in {"events", "pages", "posts", "build", "answered"}
    /\ q.step = "events" => q.places = <<>> /\ q.page = 0
    /\ q.step \in {"pages", "posts", "build"} => EventsFollow(f, q) /\ PlacesFollow(f, b, q)
    /\ q.step = "pages" => b /\ (q.touched = {} => PagesRead(f, q))
    /\ q.step = "posts" => ~ b
    /\ q.step = "build" => b /\ (q.touched = {} => PostsOf(q) \subseteq DOMAIN q.places)
    /\ q.step = "answered" => TellsOf(f, b, q.key, q.events, q.touched)

IsBuild(q) ==
    /\ q = [key |-> q.key, step |-> q.step, touched |-> q.touched, events |-> q.events,
            places |-> q.places, page |-> q.page]
    /\ q.key \in Keys /\ q.touched \subseteq Posts /\ q.page \in Nat
    /\ DOMAIN q.places \subseteq Posts
    /\ \A p \in DOMAIN q.places : q.places[p] \in Places \union {NoPlace}
    /\ q.step = "answered" => q.events \subseteq Shown

IsCached(c) ==
    /\ c = [shown |-> c.shown, touched |-> c.touched, at |-> c.at]
    /\ c.shown \subseteq Shown /\ c.touched \subseteq Posts /\ c.at \in 0 .. EndOfTime

FeedTypes ==
    /\ forum \in [Posts -> Post \union {NoFeed}]
    /\ byQuery \in BOOLEAN /\ seconds \in 0 .. EndOfTime /\ edits \in 0 .. MaxEdits
    /\ DOMAIN icsCache = Keys /\ icsCache = [k \in Keys |-> icsCache[k]]
    /\ DOMAIN ask = Asks /\ ask = [r \in Asks |-> ask[r]]

CalendarInv ==
    /\ FeedTypes
    /\ \A k \in Keys : icsCache[k] # NoFeed =>
         IsCached(icsCache[k]) /\ TellsOf(forum, byQuery, k, icsCache[k].shown, icsCache[k].touched)
    /\ \A r \in Asks : ask[r] # NoFeed => IsBuild(ask[r]) /\ Follows(forum, byQuery, ask[r])

-----------------------------------------------------------------------------
(* Ranks and pages *)

LEMMA FoundFinite ==
    ASSUME NEW f, NEW P \in SUBSET Posts, NEW n
    PROVE  /\ IsFiniteSet(FoundIn(f, P)) /\ FoundIn(f, P) \subseteq Nat
           /\ IsFiniteSet(UpTo(f, P, n)) /\ Cardinality(UpTo(f, P, n)) \in Nat
           /\ RankIn(f, P, n) = Cardinality(UpTo(f, P, n))
<1>1. FoundIn(f, P) \in SUBSET Posts /\ UpTo(f, P, n) \in SUBSET Posts /\ IsFiniteSet(Posts)
  BY DEF FoundIn, UpTo
<1> QED BY <1>1, FS_Subset, FS_CardinalityType DEF RankIn

\* Whoever is found has a rank of one at least.
LEMMA RankPositive ==
    ASSUME NEW f, NEW P \in SUBSET Posts, NEW p \in FoundIn(f, P)
    PROVE  RankIn(f, P, p) \in Nat /\ RankIn(f, P, p) # 0
<1>1. p \in UpTo(f, P, p)
  <2>1. p \in Nat
    BY FoundFinite
  <2> QED BY <2>1 DEF UpTo
<1> QED BY <1>1, FoundFinite, FS_EmptySet

\* The ranks are without gaps.
LEMMA RanksOnto ==
    ASSUME NEW f, NEW P \in SUBSET Posts, NEW p \in FoundIn(f, P), NEW k \in 1 .. RankIn(f, P, p)
    PROVE  \E x \in FoundIn(f, P) : RankIn(f, P, x) = k
<1> DEFINE S == {n \in Nat : \A j \in 1 .. Cardinality(UpTo(f, P, n)) :
                               \E x \in FoundIn(f, P) : RankIn(f, P, x) = j}
<1>1. \A x \in FoundIn(f, P) : x \in Nat
  BY FoundFinite
<1>2. 0 \in S
  <2>1. ASSUME NEW j \in 1 .. Cardinality(UpTo(f, P, 0))
        PROVE  \E x \in FoundIn(f, P) : RankIn(f, P, x) = j
    <3>1. UpTo(f, P, 0) \subseteq {0}
      BY <1>1 DEF UpTo
    <3>2. Cardinality({0}) = 1 /\ IsFiniteSet({0})
      BY FS_Singleton
    <3>3. Cardinality(UpTo(f, P, 0)) <= 1
      BY <3>1, <3>2, FS_Subset
    <3>4. j = 1 /\ Cardinality(UpTo(f, P, 0)) = 1
      BY <3>3, FoundFinite
    <3>5. UpTo(f, P, 0) # {}
      <4>1. Cardinality({}) = 0
        BY FS_EmptySet
      <4>2. Cardinality(UpTo(f, P, 0)) = 1 /\ 1 # 0
        BY <3>4
      <4> QED BY <4>1, <4>2, Zenon
    <3>6. 0 \in FoundIn(f, P)
      BY <3>1, <3>5 DEF UpTo
    <3> QED BY <3>4, <3>6, FoundFinite
  <2> QED BY <2>1
<1>3. ASSUME NEW n \in 1 .. p, n - 1 \in S PROVE n \in S
  <2>1. n \in Nat /\ n - 1 \in Nat
    BY <1>1
  <2>2. UpTo(f, P, n) = UpTo(f, P, n - 1) \cup ({n} \cap FoundIn(f, P))
    BY <1>1, <2>1 DEF UpTo
  <2>3. CASE n \notin FoundIn(f, P)
    <3>1. UpTo(f, P, n) = UpTo(f, P, n - 1)
      BY <2>2, <2>3
    <3> QED BY <1>3, <2>1, <3>1
  <2>4. CASE n \in FoundIn(f, P)
    <3>1. UpTo(f, P, n) = UpTo(f, P, n - 1) \cup {n}
      BY <2>2, <2>4
    <3>2. n \notin UpTo(f, P, n - 1)
      BY <2>1 DEF UpTo
    <3>3. Cardinality(UpTo(f, P, n)) = Cardinality(UpTo(f, P, n - 1)) + 1
      <4>1. IsFiniteSet(UpTo(f, P, n - 1))
        BY FoundFinite
      <4> QED BY <3>1, <3>2, <4>1, FS_AddElement
    <3>4. ASSUME NEW j \in 1 .. Cardinality(UpTo(f, P, n))
          PROVE  \E x \in FoundIn(f, P) : RankIn(f, P, x) = j
      <4>1. Cardinality(UpTo(f, P, n - 1)) \in Nat
        BY FoundFinite
      <4>2. CASE j = Cardinality(UpTo(f, P, n))
        BY <2>4, <4>2 DEF RankIn
      <4>3. CASE j # Cardinality(UpTo(f, P, n))
        <5>1. j \in 1 .. Cardinality(UpTo(f, P, n - 1))
          BY <3>3, <4>1, <4>3
        <5> QED BY <1>3, <5>1
      <4> QED BY <4>2, <4>3
    <3> QED BY <2>1, <3>4
  <2> QED BY <2>3, <2>4
<1>4. p \in 0 .. p /\ p \in Nat
  BY <1>1
<1>5. p \in S
  <2> HIDE DEF S
  <2> QED BY <1>2, <1>3, <1>4, BoundedInduction
<1> QED BY <1>5, FoundFinite

LEMMA PageRowsIs ==
    ASSUME NEW P, NEW page
    PROVE  PageRows(P, page) =
             {p \in FoundIn(forum, P) : /\ page * PageSize < RankIn(forum, P, p)
                                        /\ RankIn(forum, P, p) <= (page + 1) * PageSize}
BY DEF PageRows, FoundIn, RankIn, UpTo

\* A page that is short is the last one.
LEMMA ShortPageLast ==
    ASSUME NEW P \in SUBSET Posts, NEW page \in Nat, Cardinality(PageRows(P, page)) < PageSize,
           NEW p \in FoundIn(forum, P)
    PROVE  RankIn(forum, P, p) <= (page + 1) * PageSize
<1> DEFINE m == page * PageSize
           rows == PageRows(P, page)
           rank == [x \in rows |-> RankIn(forum, P, x)]
<1>1. m \in Nat /\ PageSize \in Nat /\ (page + 1) * PageSize = m + PageSize
  OBVIOUS
<1> HIDE DEF m
<1>2. SUFFICES ASSUME ~ (RankIn(forum, P, p) <= m + PageSize) PROVE FALSE
  BY <1>1
<1>3. RankIn(forum, P, p) \in Nat
  BY RankPositive
<1>4. rows = {x \in FoundIn(forum, P) : m < RankIn(forum, P, x) /\ RankIn(forum, P, x) <= m + PageSize}
  BY <1>1, PageRowsIs DEF m
<1>5. IsFiniteSet(rows)
  <2>1. rows \subseteq FoundIn(forum, P)
    BY <1>4
  <2> QED BY <2>1, FoundFinite, FS_Subset
<1>6. ASSUME NEW k \in m + 1 .. m + PageSize PROVE \E x \in rows : rank[x] = k
  <2>1. k \in 1 .. RankIn(forum, P, p)
    BY <1>1, <1>2, <1>3
  <2>2. PICK x \in FoundIn(forum, P) : RankIn(forum, P, x) = k
    BY <2>1, RanksOnto
  <2>3. x \in rows
    BY <1>1, <1>4, <2>2
  <2> QED BY <2>2, <2>3
<1> DEFINE D == m + 1 .. m + PageSize
<1>7. IsFiniteSet(D) /\ Cardinality(D) <= Cardinality(rows)
  <2>1. \A k \in D : \E x \in rows : rank[x] = k
    BY <1>6
  <2> HIDE DEF rank, rows, D
  <2> QED BY <1>5, <2>1, CoveredBySize
<1>8. Cardinality(m + 1 .. m + PageSize) = PageSize
  <2>1. Cardinality(m + 1 .. m + PageSize) =
          IF m + 1 > m + PageSize THEN 0 ELSE m + PageSize - (m + 1) + 1
    BY <1>1, FS_Interval
  <2>2. (IF m + 1 > m + PageSize THEN 0 ELSE m + PageSize - (m + 1) + 1) = PageSize
    BY <1>1
  <2> QED BY <2>1, <2>2
<1>9. Cardinality(rows) \in Nat
  BY <1>5, FS_CardinalityType
<1> QED BY <1>1, <1>7, <1>8, <1>9

-----------------------------------------------------------------------------
(* What a change of the forum leaves *)

ForumSame(f, g, u) == \A p \in Posts : p \notin u => g[p] = f[p]

LEMMA MatchingSame ==
    ASSUME NEW f, NEW g, NEW u, ForumSame(f, g, u), NEW key, NEW e, e.post \notin u
    PROVE  e \in Matching(f, key) <=> e \in Matching(g, key)
<1>1. e \in EventsOf(key) => g[e.post] = f[e.post]
  BY DEF ForumSame, EventsOf
<1> QED BY <1>1 DEF Matching, EventsOf

LEMMA TellsStay ==
    ASSUME NEW f, NEW g, NEW u, ForumSame(f, g, u), NEW b, NEW key, NEW shown, NEW t,
           shown \subseteq Shown, t \subseteq u, u = {} => f = g, TellsOf(f, b, key, shown, t)
    PROVE  TellsOf(g, b, key, shown, u)
<1>1. ASSUME NEW e \in Matching(g, key), e.post \notin u
      PROVE  \E s \in shown : s.post = e.post /\ s.date = e.date
  BY <1>1, MatchingSame DEF TellsOf
<1>2. ASSUME NEW s \in shown, s.post \notin u
      PROVE  /\ [post |-> s.post, date |-> s.date] \in Matching(g, key)
             /\ s.place \in {g[s.post].place, NoPlace}
             /\ b /\ u = {} => s.place = g[s.post].place
  <2> DEFINE e == [post |-> s.post, date |-> s.date]
  <2>1. e.post = s.post /\ s.post \notin t /\ s.post \in Posts
    BY <1>2 DEF Shown
  <2>2. /\ e \in Matching(f, key)
        /\ s.place \in {f[s.post].place, NoPlace}
        /\ b /\ t = {} => s.place = f[s.post].place
    BY <2>1 DEF TellsOf
  <2>3. g[s.post] = f[s.post]
    BY <1>2, <2>1 DEF ForumSame
  <2> HIDE DEF e
  <2>4. e \in Matching(g, key)
    BY <1>2, <2>1, <2>2, MatchingSame
  <2> QED BY <2>2, <2>3, <2>4 DEF e
<1> QED BY <1>1, <1>2 DEF TellsOf

Touching(q, p) == [q EXCEPT !.touched = @ \union {p}]

LEMMA BuildStays ==
    ASSUME NEW f, NEW g, NEW p \in Posts, \A x \in Posts : x # p => g[x] = f[x], NEW b, NEW q,
           IsBuild(q), Follows(f, b, q)
    PROVE  IsBuild(Touching(q, p)) /\ Follows(g, b, Touching(q, p))
<1> DEFINE v == Touching(q, p)
           u == q.touched \cup {p}
<1>1. q = [key |-> q.key, step |-> q.step, touched |-> q.touched, events |-> q.events,
           places |-> q.places, page |-> q.page]
  BY DEF IsBuild
<1>2. v = [q EXCEPT !.touched = u]
  BY DEF Touching
<1> HIDE DEF v, u
<1>3. v = [key |-> q.key, step |-> q.step, touched |-> u, events |-> q.events,
           places |-> q.places, page |-> q.page]
  BY <1>1, <1>2
<1>4. /\ v.key = q.key /\ v.step = q.step /\ v.touched = u /\ v.events = q.events
      /\ v.places = q.places /\ v.page = q.page
  BY <1>3
<1>5. u # {} /\ q.touched \subseteq u /\ u \subseteq Posts /\ p \in u
  BY DEF u, IsBuild
<1>6. ForumSame(f, g, u)
  BY <1>5 DEF ForumSame
<1>7. IsBuild(v)
  BY <1>3, <1>4, <1>5 DEF IsBuild
<1>8. q.step \in {"pages", "posts", "build"} => EventsFollow(g, v) /\ PlacesFollow(g, b, v)
  <2> SUFFICES ASSUME q.step \in {"pages", "posts", "build"}
               PROVE  EventsFollow(g, v) /\ PlacesFollow(g, b, v)
    OBVIOUS
  <2>1. EventsFollow(f, q) /\ PlacesFollow(f, b, q)
    BY DEF Follows
  <2>2. EventsFollow(g, v)
    BY <1>4, <1>5, <1>6, <2>1, MatchingSame DEF EventsFollow
  <2>3. \A x \in DOMAIN q.places : x \notin u => g[x] = f[x]
    BY <1>6 DEF ForumSame, IsBuild
  <2>4. PlacesFollow(g, b, v)
    BY <1>4, <1>5, <2>1, <2>3 DEF PlacesFollow
  <2> QED BY <2>2, <2>4
<1>9. q.step = "answered" => TellsOf(g, b, q.key, q.events, u)
  <2> SUFFICES ASSUME q.step = "answered" PROVE TellsOf(g, b, q.key, q.events, u)
    OBVIOUS
  <2>1. TellsOf(f, b, q.key, q.events, q.touched) /\ q.events \subseteq Shown
    BY DEF Follows, IsBuild
  <2> QED BY <1>5, <1>6, <2>1, TellsStay
<1>10. Follows(g, b, v)
  BY <1>4, <1>5, <1>8, <1>9 DEF Follows
<1> QED BY <1>7, <1>10 DEF v

-----------------------------------------------------------------------------
(* The steps of a build *)

\* A step of one request, and what it needs to keep the invariant
LEMMA OneBuildStep ==
    ASSUME CalendarInv, NEW r \in Asks, NEW v, ask' = [ask EXCEPT ![r] = v],
           UNCHANGED <<forum, byQuery, seconds, icsCache, edits>>,
           v # NoFeed => IsBuild(v) /\ Follows(forum, byQuery, v)
    PROVE  CalendarInv'
<1>1. /\ DOMAIN ask' = Asks /\ ask' = [x \in Asks |-> ask'[x]]
      /\ \A x \in Asks : ask'[x] = IF x = r THEN v ELSE ask[x]
  BY DEF CalendarInv, FeedTypes
<1>2. \A x \in Asks : ask'[x] # NoFeed => IsBuild(ask'[x]) /\ Follows(forum, byQuery, ask'[x])
  BY <1>1 DEF CalendarInv
<1> QED BY <1>1, <1>2 DEF CalendarInv, FeedTypes

LEMMA EditKeeps ==
    ASSUME CalendarInv, NEW p \in Posts, NEW post \in Post \union {NoFeed}, EditForum(p, post)
    PROVE  CalendarInv'
<1>1. /\ forum' \in [Posts -> Post \union {NoFeed}]
      /\ \A x \in Posts : x # p => forum'[x] = forum[x]
      /\ UNCHANGED <<byQuery, seconds>> /\ edits' \in 0 .. MaxEdits
  BY DEF EditForum, CalendarInv, FeedTypes
<1>2. /\ DOMAIN icsCache' = Keys /\ icsCache' = [k \in Keys |-> icsCache'[k]]
      /\ DOMAIN ask' = Asks /\ ask' = [r \in Asks |-> ask'[r]]
  BY DEF EditForum
<1>3. ASSUME NEW k \in Keys, icsCache'[k] # NoFeed
      PROVE  /\ IsCached(icsCache'[k])
             /\ TellsOf(forum', byQuery, k, icsCache'[k].shown, icsCache'[k].touched)
  <2> DEFINE c == icsCache[k]
             d == icsCache'[k]
             u == c.touched \cup {p}
  <2>1. c # NoFeed /\ d = [c EXCEPT !.touched = u]
    BY <1>3 DEF EditForum
  <2>2. IsCached(c) /\ TellsOf(forum, byQuery, k, c.shown, c.touched)
    BY <2>1 DEF CalendarInv
  <2>3. c = [shown |-> c.shown, touched |-> c.touched, at |-> c.at]
    BY <2>2 DEF IsCached
  <2> HIDE DEF c, d, u
  <2>4. d = [shown |-> c.shown, touched |-> u, at |-> c.at]
    BY <2>1, <2>3
  <2>5. d.shown = c.shown /\ d.touched = u /\ d.at = c.at
    BY <2>4
  <2>6. u # {} /\ c.touched \subseteq u /\ u \subseteq Posts /\ c.shown \subseteq Shown
    BY <2>2 DEF u, IsCached
  <2>7. ForumSame(forum, forum', u)
    BY <1>1 DEF ForumSame, u
  <2>8. TellsOf(forum', byQuery, k, c.shown, u)
    BY <2>2, <2>6, <2>7, TellsStay
  <2>9. IsCached(d)
    BY <2>2, <2>4, <2>5, <2>6 DEF IsCached
  <2> QED BY <2>5, <2>8, <2>9 DEF d
<1>4. ASSUME NEW r \in Asks, ask'[r] # NoFeed
      PROVE  IsBuild(ask'[r]) /\ Follows(forum', byQuery, ask'[r])
  <2>1. ask[r] # NoFeed /\ ask'[r] = Touching(ask[r], p)
    BY <1>4 DEF EditForum, Touching
  <2>2. IsBuild(ask[r]) /\ Follows(forum, byQuery, ask[r])
    BY <2>1 DEF CalendarInv
  <2>3. \A x \in Posts : x # p => forum'[x] = forum[x]
    BY <1>1
  <2>4. IsBuild(Touching(ask[r], p)) /\ Follows(forum', byQuery, Touching(ask[r], p))
    BY <2>2, <2>3, BuildStays
  <2> QED BY <2>1, <2>4
<1> QED BY <1>1, <1>2, <1>3, <1>4 DEF CalendarInv, FeedTypes

LEMMA AskKeeps ==
    ASSUME CalendarInv, NEW r \in Asks, NEW key \in Keys, AskFeed(r, key)
    PROVE  CalendarInv'
<1> DEFINE c == icsCache[key]
           new == Blank(key)
           old == [Blank(key) EXCEPT !.step = "answered", !.events = c.shown, !.touched = c.touched]
<1>1. /\ ask' = [ask EXCEPT ![r] = IF FreshFeed(key) THEN old ELSE new]
      /\ UNCHANGED <<forum, byQuery, seconds, icsCache, edits>>
  BY DEF AskFeed, CacheKey
<1>2. /\ new = [key |-> key, step |-> "events", touched |-> {}, events |-> {}, places |-> <<>>, page |-> 0]
      /\ new.key = key /\ new.step = "events" /\ new.touched = {} /\ new.events = {}
      /\ new.places = <<>> /\ new.page = 0
  BY DEF Blank
<1>3. DOMAIN <<>> = {}
  OBVIOUS
<1>4. IsBuild(new) /\ Follows(forum, byQuery, new)
  <2> HIDE DEF new
  <2> QED BY <1>2, <1>3 DEF IsBuild, Follows
<1>5. ASSUME FreshFeed(key) PROVE IsBuild(old) /\ Follows(forum, byQuery, old)
  <2>1. c # NoFeed
    BY <1>5 DEF FreshFeed, CacheKey
  <2>2. IsCached(c) /\ TellsOf(forum, byQuery, key, c.shown, c.touched)
    BY <2>1 DEF CalendarInv
  <2> HIDE DEF c
  <2> DEFINE S == c.shown
             T == c.touched
  <2>5. old = [new EXCEPT !.step = "answered", !.events = S, !.touched = T]
    OBVIOUS
  <2> HIDE DEF S, T, new, old
  <2>6. old = [key |-> key, step |-> "answered", touched |-> T, events |-> S,
               places |-> <<>>, page |-> 0]
    BY <1>2, <2>5
  <2>3. /\ old = [key |-> key, step |-> "answered", touched |-> c.touched, events |-> c.shown,
                  places |-> <<>>, page |-> 0]
        /\ old.key = key /\ old.step = "answered" /\ old.touched = c.touched /\ old.events = c.shown
        /\ old.places = <<>> /\ old.page = 0
    BY <2>6 DEF S, T
  <2>4. c.shown \subseteq Shown /\ c.touched \subseteq Posts
    BY <2>2 DEF IsCached
  <2> QED BY <1>3, <2>2, <2>3, <2>4 DEF IsBuild, Follows
<1> HIDE DEF old, new
<1> DEFINE v == IF FreshFeed(key) THEN old ELSE new
<1>6. IsBuild(v) /\ Follows(forum, byQuery, v)
  BY <1>4, <1>5
<1>7. ask' = [ask EXCEPT ![r] = v]
  BY <1>1
<1> HIDE DEF v
<1> QED BY <1>1, <1>6, <1>7, OneBuildStep

LEMMA QueryKeeps ==
    ASSUME CalendarInv, NEW r \in Asks, QueryEvents(r)
    PROVE  CalendarInv'
<1> DEFINE q == ask[r]
           E == Matching(forum, q.key)
           step == IF byQuery THEN "pages" ELSE "posts"
           v == [q EXCEPT !.events = E, !.step = step]
<1>1. q # NoFeed /\ q.step = "events" /\ ask' = [ask EXCEPT ![r] = v]
  BY DEF QueryEvents, AtStep
<1>2. UNCHANGED <<forum, byQuery, seconds, icsCache, edits>>
  BY DEF QueryEvents
<1>3. IsBuild(q) /\ Follows(forum, byQuery, q)
  BY <1>1 DEF CalendarInv
<1>4. q = [key |-> q.key, step |-> q.step, touched |-> q.touched, events |-> q.events,
           places |-> q.places, page |-> q.page]
  BY <1>3 DEF IsBuild
<1>5. E \subseteq EventsOf(q.key)
  BY DEF Matching, EventsOf
<1>6. step \in {"pages", "posts"} /\ (step = "pages" <=> byQuery)
  BY DEF CalendarInv, FeedTypes
<1>14. v = [q EXCEPT !.events = E, !.step = step]
  OBVIOUS
<1> HIDE DEF q, E, step, v
<1>15. v = [key |-> q.key, step |-> step, touched |-> q.touched, events |-> E,
            places |-> q.places, page |-> q.page]
  BY <1>4, <1>14
<1>7. /\ v = [key |-> q.key, step |-> step, touched |-> q.touched, events |-> E,
             places |-> q.places, page |-> q.page]
      /\ v.key = q.key /\ v.step = step /\ v.touched = q.touched /\ v.events = E
      /\ v.places = q.places /\ v.page = q.page
  BY <1>15
<1>8. v.places = <<>> /\ v.page = 0 /\ DOMAIN v.places = {}
  BY <1>1, <1>3, <1>7 DEF Follows
<1>9. EventsFollow(forum, v)
  BY <1>5, <1>7 DEF EventsFollow, E
<1>10. PlacesFollow(forum, byQuery, v)
  BY <1>8 DEF PlacesFollow
<1>11. PagesRead(forum, v)
  <2>1. PostsOf(v) \subseteq Posts
    BY <1>5, <1>7 DEF PostsOf, EventsOf
  <2>2. \A p \in FoundIn(forum, PostsOf(v)) : ~ (RankIn(forum, PostsOf(v), p) <= 0)
    BY <2>1, RankPositive
  <2>3. 0 * PageSize = 0
    OBVIOUS
  <2> QED BY <1>8, <2>2, <2>3 DEF PagesRead
<1>12. IsBuild(v)
  BY <1>3, <1>6, <1>7 DEF IsBuild
<1>13. Follows(forum, byQuery, v)
  BY <1>6, <1>7, <1>9, <1>10, <1>11 DEF Follows
<1> QED BY <1>1, <1>2, <1>12, <1>13, OneBuildStep

LEMMA PageKeeps ==
    ASSUME CalendarInv, NEW r \in Asks, FetchPage(r)
    PROVE  CalendarInv'
<1> DEFINE q == ask[r]
           P == PostsOf(q)
           rows == PageRows(P, q.page)
           W == WithPlaces(rows, q.places)
           page == q.page + 1
           step == IF Cardinality(rows) < PageSize THEN "build" ELSE q.step
           v == [q EXCEPT !.places = W, !.page = page, !.step = step]
<1>1. q # NoFeed /\ q.step = "pages" /\ ask' = [ask EXCEPT ![r] = v]
  BY DEF FetchPage, AtStep
<1>2. UNCHANGED <<forum, byQuery, seconds, icsCache, edits>>
  BY DEF FetchPage
<1>3. IsBuild(q) /\ Follows(forum, byQuery, q)
  BY <1>1 DEF CalendarInv
<1>4. q = [key |-> q.key, step |-> q.step, touched |-> q.touched, events |-> q.events,
           places |-> q.places, page |-> q.page]
  BY <1>3 DEF IsBuild
<1>5. /\ byQuery /\ EventsFollow(forum, q) /\ PlacesFollow(forum, byQuery, q)
      /\ q.touched = {} => PagesRead(forum, q)
  BY <1>1, <1>3 DEF Follows
<1>6. P \subseteq Posts /\ \A p \in P : \E e \in EventsOf(q.key) : e \in q.events /\ e.post = p
  BY <1>5 DEF EventsFollow, EventsOf, PostsOf
<1>7. rows = {p \in FoundIn(forum, P) : /\ q.page * PageSize < RankIn(forum, P, p)
                                        /\ RankIn(forum, P, p) <= (q.page + 1) * PageSize}
  BY PageRowsIs
<1>8. rows \subseteq FoundIn(forum, P) /\ \A p \in FoundIn(forum, P) : p \in Posts /\ forum[p] # NoFeed
  BY <1>6, <1>7 DEF FoundIn
<1>9. q.page \in Nat /\ DOMAIN q.places \subseteq Posts
  BY <1>3 DEF IsBuild
<1>10. step \in {"pages", "build"} /\ (step = "build" <=> Cardinality(rows) < PageSize)
  BY <1>1
<1>11. v = [q EXCEPT !.places = W, !.page = page, !.step = step]
  OBVIOUS
<1> HIDE DEF q, P, rows, W, page, step, v
<1>12. v = [key |-> q.key, step |-> step, touched |-> q.touched, events |-> q.events,
            places |-> W, page |-> page]
  BY <1>4, <1>11
<1>13. /\ v = [key |-> v.key, step |-> v.step, touched |-> v.touched, events |-> v.events,
               places |-> v.places, page |-> v.page]
       /\ v.key = q.key /\ v.step = step /\ v.touched = q.touched /\ v.events = q.events
       /\ v.places = W /\ v.page = page
  BY <1>12
<1>14. /\ DOMAIN W = rows \union DOMAIN q.places
       /\ \A p \in DOMAIN W : W[p] = IF p \in rows THEN forum[p].place ELSE q.places[p]
  BY DEF W, WithPlaces
<1>15. \A p \in rows : forum[p].place \in Places \union {NoPlace}
  BY <1>8 DEF CalendarInv, FeedTypes, Post
<1>16. IsBuild(v)
  <2>1. DOMAIN W \subseteq Posts
    BY <1>8, <1>9, <1>14
  <2>2. \A p \in DOMAIN W : W[p] \in Places \union {NoPlace}
    BY <1>3, <1>14, <1>15 DEF IsBuild
  <2>3. page \in Nat
    BY <1>9 DEF page
  <2> QED BY <1>3, <1>10, <1>13, <2>1, <2>2, <2>3 DEF IsBuild
<1>17. EventsFollow(forum, v)
  BY <1>5, <1>13 DEF EventsFollow
<1>18. PlacesFollow(forum, byQuery, v)
  BY <1>5, <1>13, <1>14 DEF PlacesFollow
<1>19. PostsOf(v) = P
  BY <1>13 DEF PostsOf, P
<1>20. q.touched = {} => PagesRead(forum, v)
  <2> SUFFICES ASSUME q.touched = {}, NEW p \in FoundIn(forum, P),
                      RankIn(forum, P, p) <= page * PageSize
               PROVE  p \in DOMAIN W
    BY <1>13, <1>19 DEF PagesRead
  <2>1. CASE RankIn(forum, P, p) <= q.page * PageSize
    <3>1. p \in DOMAIN q.places
      BY <1>5, <2>1 DEF PagesRead, P
    <3> QED BY <1>14, <3>1
  <2>2. CASE ~ (RankIn(forum, P, p) <= q.page * PageSize)
    <3>1. RankIn(forum, P, p) \in Nat /\ q.page * PageSize \in Nat
      BY <1>6, <1>9, RankPositive
    <3>2. p \in rows
      BY <1>7, <2>2, <3>1 DEF page
    <3> QED BY <1>14, <3>2
  <2> QED BY <2>1, <2>2
<1>21. q.touched = {} /\ step = "build" => P \subseteq DOMAIN W
  <2> SUFFICES ASSUME q.touched = {}, step = "build", NEW p \in P PROVE p \in DOMAIN W
    OBVIOUS
  <2>1. PICK e \in EventsOf(q.key) : e \in q.events /\ e.post = p
    BY <1>6
  <2>2. e \in Matching(forum, q.key)
    BY <1>5, <2>1 DEF EventsFollow
  <2>3. p \in FoundIn(forum, P)
    BY <2>1, <2>2 DEF Matching, FoundIn
  <2>4. Cardinality(PageRows(P, q.page)) < PageSize
    BY <1>10 DEF rows
  <2>5. RankIn(forum, P, p) <= page * PageSize
    BY <1>6, <1>9, <2>3, <2>4, ShortPageLast DEF page
  <2> QED BY <1>13, <1>19, <1>20, <2>3, <2>5 DEF PagesRead
<1>22. Follows(forum, byQuery, v)
  BY <1>5, <1>10, <1>13, <1>17, <1>18, <1>19, <1>20, <1>21 DEF Follows
<1> QED BY <1>1, <1>2, <1>16, <1>22, OneBuildStep

LEMMA PostKeeps ==
    ASSUME CalendarInv, NEW r \in Asks, NEW p \in Posts, NEW answered \in BOOLEAN,
           FetchPost(r, p, answered)
    PROVE  CalendarInv'
<1> DEFINE q == ask[r]
           place == IF answered /\ forum[p] # NoFeed THEN forum[p].place ELSE NoPlace
           W == [x \in DOMAIN q.places \union {p} |-> IF x # p THEN q.places[x] ELSE place]
           v == [q EXCEPT !.places = W]
<1>1. q # NoFeed /\ q.step = "posts" /\ ask' = [ask EXCEPT ![r] = v]
  BY DEF FetchPost, AtStep
<1>2. UNCHANGED <<forum, byQuery, seconds, icsCache, edits>>
  BY DEF FetchPost
<1>3. IsBuild(q) /\ Follows(forum, byQuery, q)
  BY <1>1 DEF CalendarInv
<1>4. q = [key |-> q.key, step |-> q.step, touched |-> q.touched, events |-> q.events,
           places |-> q.places, page |-> q.page]
  BY <1>3 DEF IsBuild
<1>5. ~ byQuery /\ EventsFollow(forum, q) /\ PlacesFollow(forum, byQuery, q)
  BY <1>1, <1>3 DEF Follows
<1>6. place \in {forum[p].place, NoPlace} /\ place \in Places \union {NoPlace}
  BY DEF CalendarInv, FeedTypes, Post
<1>7. v = [q EXCEPT !.places = W]
  OBVIOUS
<1>8. /\ DOMAIN W = DOMAIN q.places \union {p}
      /\ \A x \in DOMAIN W : W[x] = IF x # p THEN q.places[x] ELSE place
  OBVIOUS
<1> HIDE DEF q, W, place, v
<1>9. v = [key |-> q.key, step |-> q.step, touched |-> q.touched, events |-> q.events,
           places |-> W, page |-> q.page]
  BY <1>4, <1>7
<1>10. /\ v = [key |-> v.key, step |-> v.step, touched |-> v.touched, events |-> v.events,
               places |-> v.places, page |-> v.page]
       /\ v.key = q.key /\ v.step = "posts" /\ v.touched = q.touched /\ v.events = q.events
       /\ v.places = W /\ v.page = q.page
  BY <1>1, <1>9
<1>11. IsBuild(v)
  BY <1>3, <1>6, <1>8, <1>10 DEF IsBuild
<1>12. EventsFollow(forum, v)
  BY <1>5, <1>10 DEF EventsFollow
<1>13. PlacesFollow(forum, byQuery, v)
  BY <1>5, <1>6, <1>8, <1>10 DEF PlacesFollow
<1>14. Follows(forum, byQuery, v)
  BY <1>5, <1>10, <1>12, <1>13 DEF Follows
<1> QED BY <1>1, <1>2, <1>11, <1>14, OneBuildStep

\* What a build has found and located tells of the forum.
LEMMA BuiltTells ==
    ASSUME CalendarInv, NEW q, IsBuild(q), Follows(forum, byQuery, q), Located(q),
           NEW shown, shown = {[post |-> e.post, date |-> e.date, place |-> PlaceOf(q, e.post)] : e \in q.events}
    PROVE  shown \subseteq Shown /\ TellsOf(forum, byQuery, q.key, shown, q.touched)
<1>1. q.step \in {"pages", "posts", "build"}
  BY DEF Located
<1>2. EventsFollow(forum, q) /\ PlacesFollow(forum, byQuery, q)
  BY <1>1 DEF Follows
<1>3. \A e \in q.events : /\ e \in EventsOf(q.key) /\ e.post \in Posts /\ e.date \in q.key.window
                          /\ e = [post |-> e.post, date |-> e.date]
  BY <1>2 DEF EventsFollow, EventsOf
<1>4. \A e \in q.events : PlaceOf(q, e.post) \in Places \union {NoPlace}
  BY DEF PlaceOf, IsBuild
<1>5. q.key.window \subseteq Dates
  BY DEF IsBuild
<1>6. shown \subseteq Shown
  BY <1>3, <1>4, <1>5 DEF Shown
<1>7. ASSUME NEW e \in Matching(forum, q.key), e.post \notin q.touched
      PROVE  \E s \in shown : s.post = e.post /\ s.date = e.date
  <2>1. e \in q.events
    BY <1>2, <1>7 DEF EventsFollow, Matching, EventsOf
  <2> DEFINE s == [post |-> e.post, date |-> e.date, place |-> PlaceOf(q, e.post)]
  <2>2. s \in shown /\ s.post = e.post /\ s.date = e.date
    BY <2>1
  <2> QED BY <2>2
<1>8. ASSUME NEW s \in shown, s.post \notin q.touched
      PROVE  /\ [post |-> s.post, date |-> s.date] \in Matching(forum, q.key)
             /\ s.place \in {forum[s.post].place, NoPlace}
             /\ byQuery /\ q.touched = {} => s.place = forum[s.post].place
  <2>1. PICK e \in q.events : s = [post |-> e.post, date |-> e.date, place |-> PlaceOf(q, e.post)]
    OBVIOUS
  <2>2. s.post = e.post /\ s.date = e.date /\ s.place = PlaceOf(q, e.post)
    BY <2>1
  <2>3. [post |-> s.post, date |-> s.date] = e /\ e \in EventsOf(q.key) /\ e.post \notin q.touched
    BY <1>3, <1>8, <2>2
  <2>4. e \in Matching(forum, q.key)
    BY <1>2, <2>3 DEF EventsFollow
  <2>5. PlaceOf(q, e.post) \in {forum[e.post].place, NoPlace}
    BY <1>2, <2>3 DEF PlacesFollow, PlaceOf
  <2>6. ASSUME byQuery, q.touched = {} PROVE PlaceOf(q, e.post) = forum[e.post].place
    <3>1. q.step = "build"
      BY <1>1, <2>6 DEF Located, Follows
    <3>2. e.post \in DOMAIN q.places
      BY <2>6, <3>1 DEF Follows, PostsOf
    <3> QED BY <1>2, <2>3, <2>6, <3>2 DEF PlacesFollow, PlaceOf
  <2> QED BY <2>2, <2>3, <2>4, <2>5, <2>6
<1> QED BY <1>6, <1>7, <1>8 DEF TellsOf

LEMMA BuildKeeps ==
    ASSUME CalendarInv, NEW r \in Asks, BuildFeed(r)
    PROVE  CalendarInv'
<1> DEFINE q == ask[r]
           shown == {[post |-> e.post, date |-> e.date, place |-> PlaceOf(q, e.post)] : e \in q.events}
           c == [shown |-> shown, touched |-> q.touched, at |-> seconds]
           v == [q EXCEPT !.step = "answered", !.events = shown]
<1>1. /\ q # NoFeed /\ Located(q) /\ ask' = [ask EXCEPT ![r] = v]
      /\ icsCache' = [icsCache EXCEPT ![q.key] = c]
      /\ UNCHANGED <<forum, byQuery, seconds, edits>>
  BY DEF BuildFeed, CacheKey
<1>2. IsBuild(q) /\ Follows(forum, byQuery, q)
  BY <1>1 DEF CalendarInv
<1>3. q = [key |-> q.key, step |-> q.step, touched |-> q.touched, events |-> q.events,
           places |-> q.places, page |-> q.page]
  BY <1>2 DEF IsBuild
<1>4. shown \subseteq Shown /\ TellsOf(forum, byQuery, q.key, shown, q.touched)
  BY <1>1, <1>2, BuiltTells
<1>5. c = [shown |-> shown, touched |-> q.touched, at |-> seconds]
  OBVIOUS
<1>6. v = [q EXCEPT !.step = "answered", !.events = shown]
  OBVIOUS
<1>7. q.key \in Keys /\ q.touched \subseteq Posts /\ seconds \in 0 .. EndOfTime
  BY <1>2 DEF IsBuild, CalendarInv, FeedTypes
<1> HIDE DEF q, shown, c, v
<1>8. v = [key |-> q.key, step |-> "answered", touched |-> q.touched, events |-> shown,
           places |-> q.places, page |-> q.page]
  BY <1>3, <1>6
<1>9. /\ v = [key |-> v.key, step |-> v.step, touched |-> v.touched, events |-> v.events,
               places |-> v.places, page |-> v.page]
      /\ v.key = q.key /\ v.step = "answered" /\ v.touched = q.touched /\ v.events = shown
      /\ v.places = q.places /\ v.page = q.page
  BY <1>8
<1>10. IsBuild(v) /\ Follows(forum, byQuery, v)
  BY <1>2, <1>4, <1>9 DEF IsBuild, Follows
<1>11. /\ c.shown = shown /\ c.touched = q.touched /\ c.at = seconds
       /\ c = [shown |-> c.shown, touched |-> c.touched, at |-> c.at]
  BY <1>5
<1>12. IsCached(c) /\ TellsOf(forum, byQuery, q.key, c.shown, c.touched)
  BY <1>4, <1>7, <1>11 DEF IsCached
<1>13. /\ DOMAIN icsCache' = Keys /\ icsCache' = [k \in Keys |-> icsCache'[k]]
       /\ \A k \in Keys : icsCache'[k] = IF k = q.key THEN c ELSE icsCache[k]
  BY <1>1 DEF CalendarInv, FeedTypes
<1>14. /\ DOMAIN ask' = Asks /\ ask' = [x \in Asks |-> ask'[x]]
       /\ \A x \in Asks : ask'[x] = IF x = r THEN v ELSE ask[x]
  BY <1>1 DEF CalendarInv, FeedTypes
<1>15. \A k \in Keys : icsCache'[k] # NoFeed =>
         IsCached(icsCache'[k]) /\ TellsOf(forum, byQuery, k, icsCache'[k].shown, icsCache'[k].touched)
  BY <1>12, <1>13 DEF CalendarInv
<1>16. \A x \in Asks : ask'[x] # NoFeed => IsBuild(ask'[x]) /\ Follows(forum, byQuery, ask'[x])
  BY <1>10, <1>14 DEF CalendarInv
<1> QED BY <1>1, <1>13, <1>14, <1>15, <1>16 DEF CalendarInv, FeedTypes

LEMMA CalendarStarts == CalendarInit => CalendarInv
BY DEF CalendarInit, CalendarInv, FeedTypes

LEMMA CalendarSteps ==
    ASSUME CalendarInv, [CalendarNext]_calendarVars
    PROVE  CalendarInv'
<1>1. CASE TickSeconds
  <2>1. seconds' \in 0 .. EndOfTime /\ UNCHANGED <<forum, byQuery, icsCache, ask, edits>>
    BY <1>1 DEF TickSeconds, CalendarInv, FeedTypes
  <2> QED BY <2>1 DEF CalendarInv, FeedTypes
<1>2. ASSUME NEW r \in Asks, FailFeed(r) PROVE CalendarInv'
  <2>1. /\ ask' = [ask EXCEPT ![r] = NoFeed]
        /\ UNCHANGED <<forum, byQuery, seconds, icsCache, edits>>
    BY <1>2 DEF FailFeed
  <2> QED BY <2>1, OneBuildStep
<1>3. CASE UNCHANGED calendarVars
  BY <1>3 DEF calendarVars, CalendarInv, FeedTypes
<1> QED
  BY <1>1, <1>2, <1>3, EditKeeps, AskKeeps, QueryKeeps, PageKeeps, PostKeeps, BuildKeeps DEF CalendarNext

\* What a build has read so far, the pages included, and what it made of it.
THEOREM CalendarInvariant == CalendarSpec => []CalendarInv
BY CalendarStarts, CalendarSteps, PTL DEF CalendarSpec

\* For any posts, keys and pages, and builds that overlap in whatever way: a feed, built or
\* cached, has the events that match its key, but for those changed since, and with the query
\* their places, since a short page is the last one.
THEOREM FeedsAlwaysTell == CalendarSpec => []FeedsTell
<1>1. CalendarInv => FeedsTell
  <2> SUFFICES ASSUME CalendarInv PROVE FeedsTell
    OBVIOUS
  <2>1. \A k, s, t : TellsOf(forum, byQuery, k, s, t) <=> Tells(k, s, t)
    BY DEF TellsOf, Tells
  <2>2. \A k \in Keys : icsCache[k] # NoFeed => TellsOf(forum, byQuery, k, icsCache[k].shown, icsCache[k].touched)
    BY DEF CalendarInv
  <2>3. \A r \in Asks : AtStep(r, "answered") =>
          TellsOf(forum, byQuery, ask[r].key, ask[r].events, ask[r].touched)
    BY DEF CalendarInv, Follows, AtStep
  <2> QED BY <2>1, <2>2, <2>3 DEF FeedsTell
<1> QED BY <1>1, CalendarInvariant, PTL

\* The forum, the cache and the requests are what their types say.
THEOREM CalendarTypes == CalendarSpec => []CalendarTypeOK
<1>1. CalendarInv => CalendarTypeOK
  BY DEF CalendarInv, FeedTypes, IsCached, IsBuild, CalendarTypeOK
<1> QED BY <1>1, CalendarInvariant, PTL
=============================================================================
