------------------------------ MODULE CpmProofs ------------------------------
(***************************************************************************)
(* Cpm, proved for every set of activities and links: what the sort leaves *)
(* out, and that the dates are the earliest and the latest there are.      *)
(* Each pass is right for the part of topo it has come through, because    *)
(* whoever an activity waits for stands before it.                         *)
(***************************************************************************)
EXTENDS Cpm, FoldLemmas, SequenceTheorems

-------------------------------------------------------------------------------
(* The sort.                                                                *)

\* The links that still hold an activity back: from those not sorted.
Waiting(b) == {l \in Into(b) : l.pred \notin Range(topo)}

Input ==
    /\ duration \in [Activities -> Durations]
    /\ links \in LinkSets
Sorting ==
    /\ topo \in Seq(Activities)
    /\ deg \in [Activities -> Int]
    /\ phase \in {"sort", "forward", "backward", "done"}
NoRepeats == \A j, k \in DOMAIN topo : topo[j] = topo[k] => j = k
SortedBefore == \A k \in DOMAIN topo : \A l \in Into(topo[k]) : \E j \in 1..k - 1 : topo[j] = l.pred
Counts ==
    phase = "sort" =>
        /\ \A b \in Activities : deg[b] = Cardinality(Waiting(b))
        /\ queue = {b \in Activities \ Range(topo) : Waiting(b) = {}}
Stuck == phase # "sort" => \A b \in Activities \ Range(topo) : Waiting(b) # {}
SortInv == Input /\ Sorting /\ NoRepeats /\ SortedBefore /\ Counts /\ Stuck

LEMMA LinksTyped ==
  ASSUME Input
  PROVE  /\ IsFiniteSet(links)
         /\ \A l \in links : /\ l.pred \in Activities /\ l.succ \in Activities
                             /\ l.pred # l.succ /\ l.lag \in Int
                             /\ l.type \in {"FS", "SS", "FF", "SF"}
         /\ \A a \in Activities : duration[a] \in Nat
         /\ \A a : IsFiniteSet(Into(a)) /\ IsFiniteSet(OutOf(a))
<1>1. IsFiniteSet(links) /\ \A l \in links : l \in Links /\ l.pred # l.succ
  BY CpmAssumption DEF Input
<1>2. \A l \in links : /\ l.pred \in Activities /\ l.succ \in Activities /\ l.lag \in Int
                       /\ l.type \in {"FS", "SS", "FF", "SF"}
  BY <1>1 DEF Links
<1>3. \A a \in Activities : duration[a] \in Nat
  BY CpmAssumption DEF Input
<1>4. \A a : IsFiniteSet(Into(a)) /\ IsFiniteSet(OutOf(a))
  BY <1>1, FS_Subset DEF Into, OutOf
<1>5. QED
  BY <1>1, <1>2, <1>3, <1>4

\* What is taken from a finite set.
LEMMA CardinalityLess ==
  ASSUME NEW S, IsFiniteSet(S), NEW T \in SUBSET S
  PROVE  /\ IsFiniteSet(S \ T) /\ IsFiniteSet(T)
         /\ Cardinality(S \ T) = Cardinality(S) - Cardinality(T)
         /\ Cardinality(S) \in Nat /\ Cardinality(T) \in Nat /\ Cardinality(S \ T) \in Nat
<1>1. IsFiniteSet(S \ T) /\ IsFiniteSet(T)
  BY FS_Subset
<1>2. Cardinality(S) \in Nat /\ Cardinality(T) \in Nat /\ Cardinality(S \ T) \in Nat
  BY <1>1, FS_CardinalityType
<1>3. (S \ T) \cup T = S /\ (S \ T) \cap T = {}
  OBVIOUS
<1>4. Cardinality((S \ T) \cup T) = Cardinality(S \ T) + Cardinality(T) - Cardinality((S \ T) \cap T)
  BY <1>1, FS_Union
<1>5. Cardinality((S \ T) \cap T) = 0
  BY <1>3, FS_EmptySet
<1>6. QED
  BY <1>1, <1>2, <1>3, <1>4, <1>5

LEMMA Appended ==
  ASSUME NEW a \in Activities, topo \in Seq(Activities), topo' = Append(topo, a)
  PROVE  LET n == Len(topo)
         IN  /\ topo' \in Seq(Activities) /\ n \in Nat
             /\ DOMAIN topo = 1..n /\ DOMAIN topo' = 1..n + 1
             /\ \A k \in 1..n : topo'[k] = topo[k]
             /\ topo'[n + 1] = a
             /\ Range(topo') = Range(topo) \cup {a}
<1> DEFINE n == Len(topo)
<1>1. /\ topo' \in Seq(Activities) /\ n \in Nat
      /\ DOMAIN topo = 1..n /\ DOMAIN topo' = 1..n + 1
      /\ \A k \in 1..n : topo'[k] = topo[k]
      /\ topo'[n + 1] = a
  OBVIOUS
<1>2. \A k \in 1..n + 1 : k \in 1..n \/ k = n + 1
  BY <1>1
<1>3. 1..n \subseteq 1..n + 1 /\ n + 1 \in 1..n + 1
  BY <1>1
<1> HIDE DEF n
<1>4. Range(topo') = Range(topo) \cup {a}
  BY <1>1, <1>2, <1>3 DEF Range
<1>5. QED
  BY <1>1, <1>4 DEF n

LEMMA VisitKeeps ==
  ASSUME SortInv, NEW a \in Activities, Visit(a)
  PROVE  SortInv'
<1> DEFINE n == Len(topo)
           Freed(b) == OutOf(a) \cap Into(b)
<1>1. /\ phase = "sort" /\ a \in queue /\ UNCHANGED <<duration, links, phase>>
      /\ topo \in Seq(Activities) /\ topo' = Append(topo, a)
  BY DEF Visit, input, SortInv, Sorting
<1>2. /\ topo' \in Seq(Activities) /\ n \in Nat
      /\ DOMAIN topo = 1..n /\ DOMAIN topo' = 1..n + 1
      /\ \A k \in 1..n : topo'[k] = topo[k]
      /\ topo'[n + 1] = a
      /\ Range(topo') = Range(topo) \cup {a}
  BY <1>1, Appended
<1>3. \A k \in 1..n + 1 : k \in 1..n \/ k = n + 1
  BY <1>2
<1>4. a \notin Range(topo) /\ Waiting(a) = {}
  BY <1>1 DEF SortInv, Counts
<1>5. Input' /\ \A b : Into(b)' = Into(b)
  BY <1>1 DEF SortInv, Input, Into
<1> HIDE DEF n
<1>6. ASSUME NEW b \in Activities
      PROVE  /\ Waiting(b)' = Waiting(b) \ Freed(b) /\ Freed(b) \in SUBSET Waiting(b)
             /\ deg'[b] = Cardinality(Waiting(b)') /\ deg'[b] \in Nat
             /\ IsFiniteSet(Waiting(b))
             /\ deg[b] = Cardinality(Waiting(b))
  <2>1. Waiting(b)' = Waiting(b) \ Freed(b) /\ Freed(b) \in SUBSET Waiting(b)
    BY <1>2, <1>4, <1>5 DEF Waiting, OutOf, Into
  <2>2. deg[b] = Cardinality(Waiting(b)) /\ deg'[b] = deg[b] - Cardinality(Freed(b))
    BY <1>1 DEF SortInv, Counts, Visit
  <2>3. IsFiniteSet(Waiting(b))
    <3>1. IsFiniteSet(Into(b))
      BY LinksTyped DEF SortInv
    <3>2. QED
      BY <3>1, FS_Subset DEF Waiting
  <2> HIDE DEF Freed
  <2>4. QED
    BY <2>1, <2>2, <2>3, CardinalityLess
<1>7. Sorting'
  <2>1. deg' \in [Activities -> Int]
    <3>1. deg' = [b \in Activities |-> deg[b] - Cardinality(OutOf(a) \cap Into(b))]
      BY DEF Visit
    <3>2. \A b \in Activities : deg'[b] \in Int
      BY <1>6
    <3>3. QED
      BY <3>1, <3>2
  <2>2. QED
    BY <1>1, <1>2, <2>1 DEF SortInv, Sorting
<1>8. NoRepeats'
  <2>1. \A k \in 1..n : topo[k] # a
    BY <1>2, <1>4 DEF Range
  <2>2. QED
    BY <1>2, <1>3, <2>1 DEF SortInv, NoRepeats
<1>9. SortedBefore'
  <2> SUFFICES ASSUME NEW k \in 1..n + 1, NEW l \in Into(topo'[k])
               PROVE  \E j \in 1..k - 1 : topo'[j] = l.pred
    BY <1>2, <1>5 DEF SortedBefore
  <2>1. CASE k \in 1..n
    <3>1. PICK j \in 1..k - 1 : topo[j] = l.pred
      BY <1>2, <2>1 DEF SortInv, SortedBefore
    <3>2. j \in 1..n
      BY <1>2, <2>1
    <3>3. QED
      BY <1>2, <3>1, <3>2
  <2>2. CASE k = n + 1
    <3>1. l.pred \in Range(topo)
      BY <1>2, <1>4, <2>2 DEF Waiting
    <3>2. PICK j \in 1..n : topo[j] = l.pred
      BY <1>2, <3>1 DEF Range
    <3>3. k - 1 = n
      BY <1>2, <2>2
    <3>4. QED
      BY <1>2, <3>2, <3>3
  <2>3. QED
    BY <1>3, <2>1, <2>2
<1>10. ASSUME NEW b \in Range(topo) PROVE Waiting(b) = {}
  <2>1. PICK k \in 1..n : topo[k] = b
    BY <1>2, <1>10 DEF Range
  <2>2. \A l \in Into(b) : \E j \in 1..k - 1 : topo[j] = l.pred
    BY <1>2, <2>1 DEF SortInv, SortedBefore
  <2>3. \A j \in 1..k - 1 : j \in 1..n
    BY <1>2
  <2>4. \A l \in Into(b) : l.pred \in Range(topo)
    BY <1>2, <2>2, <2>3 DEF Range
  <2>5. QED
    BY <2>4 DEF Waiting
<1>11. queue' = {b \in Activities \ Range(topo') : Waiting(b)' = {}}
  <2>1. queue = {b \in Activities \ Range(topo) : Waiting(b) = {}}
    BY <1>1 DEF SortInv, Counts
  <2>2. queue' = (queue \ {a}) \cup {b \in Activities : deg[b] > 0 /\ deg'[b] = 0}
    BY DEF Visit
  <2>3. ASSUME NEW b \in Activities
        PROVE  /\ deg[b] > 0 <=> Waiting(b) # {}
               /\ deg'[b] = 0 <=> Waiting(b)' = {}
               /\ Waiting(b)' \subseteq Waiting(b)
    <3>1. /\ IsFiniteSet(Waiting(b)) /\ IsFiniteSet(Waiting(b)')
          /\ deg[b] = Cardinality(Waiting(b)) /\ deg'[b] = Cardinality(Waiting(b)')
          /\ Waiting(b)' \subseteq Waiting(b)
      BY <1>6, FS_Subset
    <3>2. \A S : IsFiniteSet(S) => /\ Cardinality(S) \in Nat
                                   /\ Cardinality(S) = 0 <=> S = {}
      BY FS_EmptySet, FS_CardinalityType
    <3>3. Cardinality(Waiting(b)) \in Nat /\ (Cardinality(Waiting(b)) = 0 <=> Waiting(b) = {})
      BY <3>1, <3>2
    <3>4. Cardinality(Waiting(b)') = 0 <=> Waiting(b)' = {}
      BY <3>1, <3>2
    <3>5. QED
      BY <3>1, <3>3, <3>4
  <2>4. ASSUME NEW b \in queue' PROVE b \in Activities \ Range(topo') /\ Waiting(b)' = {}
    BY <1>2, <1>4, <1>10, <2>1, <2>2, <2>3, <2>4
  <2>5. ASSUME NEW b \in Activities \ Range(topo'), Waiting(b)' = {} PROVE b \in queue'
    BY <1>2, <2>1, <2>2, <2>3, <2>5
  <2>6. queue' \subseteq Activities
    BY <2>1, <2>2
  <2>7. QED
    BY <2>4, <2>5, <2>6
<1>12. Counts' /\ Stuck'
  BY <1>1, <1>6, <1>11 DEF Counts, Stuck
<1>13. QED
  BY <1>5, <1>7, <1>8, <1>9, <1>12 DEF SortInv

LEMMA SortInitial == CpmInit => SortInv
<1> SUFFICES ASSUME CpmInit PROVE SortInv
  OBVIOUS
<1>1. Input
  BY DEF CpmInit, Input
<1>2. topo \in Seq(Activities) /\ DOMAIN topo = {} /\ Range(topo) = {}
  BY DEF CpmInit, Range
<1>3. \A b : Waiting(b) = Into(b)
  BY <1>2 DEF Waiting
<1>4. deg \in [Activities -> Int]
  <2>1. \A b \in Activities : Cardinality(Into(b)) \in Int
    BY <1>1, LinksTyped, FS_CardinalityType
  <2>2. QED
    BY <2>1 DEF CpmInit
<1>5. Sorting
  BY <1>2, <1>4 DEF CpmInit, Sorting
<1>6. NoRepeats /\ SortedBefore
  BY <1>2 DEF NoRepeats, SortedBefore
<1>7. Counts /\ Stuck
  BY <1>2, <1>3 DEF CpmInit, Counts, Stuck
<1>8. QED
  BY <1>1, <1>5, <1>6, <1>7 DEF SortInv

LEMMA SortStep ==
  ASSUME SortInv, [CpmNext]_cpmVars
  PROVE  SortInv'
<1>1. ASSUME NEW a \in Activities, Visit(a) PROVE SortInv'
  BY <1>1, VisitKeeps
<1>2. CASE Sorted
  <2>1. /\ phase = "sort" /\ queue = {} /\ phase' = "forward"
        /\ UNCHANGED <<duration, links, deg, topo>>
    BY <1>2 DEF Sorted, input
  <2>2. Stuck'
    BY <2>1 DEF SortInv, Counts, Stuck, Waiting, Into
  <2>3. QED
    BY <2>1, <2>2 DEF SortInv, Input, Sorting, NoRepeats, SortedBefore, Counts, Into
<1>3. CASE Forward \/ Turn \/ Backward \/ Finish \/ UNCHANGED cpmVars
  <2>1. /\ UNCHANGED <<duration, links, deg, queue, topo>>
        /\ phase' = phase \/ (phase # "sort" /\ phase' \in {"backward", "done"})
    BY <1>3 DEF Forward, Turn, Backward, Finish, cpmVars, input
  <2>2. QED
    BY <2>1 DEF SortInv, Input, Sorting, NoRepeats, SortedBefore, Counts, Stuck, Waiting, Into
<1>4. QED
  BY <1>1, <1>2, <1>3 DEF CpmNext

\* Kahn's sort keeps, at every visit, the order, the counts and the queue right.
THEOREM SortInductive == CpmSpec => []SortInv
<1>1. CpmInit => SortInv
  BY SortInitial
<1>2. SortInv /\ [CpmNext]_cpmVars => SortInv'
  BY SortStep
<1>3. QED
  BY <1>1, <1>2, PTL DEF CpmSpec

LEMMA TopoPlaces ==
  ASSUME SortInv
  PROVE  /\ DOMAIN topo = 1..Len(topo) /\ Len(topo) \in Nat
         /\ IsFiniteSet(DOMAIN topo) /\ IsFiniteSet(Range(topo))
         /\ \A k \in DOMAIN topo : topo[k] \in Activities /\ topo[k] \in Range(topo)
         /\ \A a \in Range(topo) : a \in Activities /\ \E k \in DOMAIN topo : topo[k] = a
<1>1. topo \in Seq(Activities)
  BY DEF SortInv, Sorting
<1>2. DOMAIN topo = 1..Len(topo) /\ Len(topo) \in Nat /\ \A k \in DOMAIN topo : topo[k] \in Activities
  BY <1>1
<1>3. \A a \in Range(topo) : \E k \in DOMAIN topo : topo[k] = a
  BY DEF Range
<1>4. \A k \in DOMAIN topo : topo[k] \in Range(topo)
  BY DEF Range
<1>5. Range(topo) \subseteq Activities
  BY <1>2, <1>3
<1>6. IsFiniteSet(Range(topo))
  BY <1>5, CpmAssumption, FS_Subset
<1>7. IsFiniteSet(DOMAIN topo)
  BY <1>2, FS_Interval
<1>8. QED
  BY <1>2, <1>3, <1>4, <1>5, <1>6, <1>7

\* The first place in topo of an activity of some kind.
LEMMA FirstPlace ==
  ASSUME SortInv, NEW P \in SUBSET DOMAIN topo, P # {}
  PROVE  \E k \in P : \A j \in P : k <= j
<1>1. IsFiniteSet(P) /\ \A k \in P : k \in Int
  BY TopoPlaces, FS_Subset
<1>2. Min(P) \in P /\ \A j \in P : Min(P) <= j
  BY <1>1, MinExists
<1>3. QED
  BY <1>2

LEMMA LastPlace ==
  ASSUME SortInv, NEW P \in SUBSET DOMAIN topo, P # {}
  PROVE  \E k \in P : \A j \in P : j <= k
<1>1. IsFiniteSet(P) /\ \A k \in P : k \in Int
  BY TopoPlaces, FS_Subset
<1>2. Max(P) \in P /\ \A j \in P : j <= Max(P)
  BY <1>1, MaxExists
<1>3. QED
  BY <1>2

\* The sort leaves out the activities of loops and those that wait for one, and
\* no others, whatever the links.
THEOREM SortsAllItCan == CpmSpec => []LoopsLeftOut
<1>1. SortInv => LoopsLeftOut
  <2> SUFFICES ASSUME SortInv, phase = "done"
               PROVE  Activities \ Range(topo) =
                        UNION {s \in SUBSET Activities : \A a \in s : \E l \in Into(a) : l.pred \in s}
    BY DEF LoopsLeftOut
  <2> DEFINE left == Activities \ Range(topo)
             Held(s) == \A a \in s : \E l \in Into(a) : l.pred \in s
  <2>1. Held(left)
    <3> SUFFICES ASSUME NEW a \in left PROVE \E l \in Into(a) : l.pred \in left
      OBVIOUS
    <3>1. PICK l \in Into(a) : l.pred \notin Range(topo)
      BY DEF SortInv, Stuck, Waiting
    <3>2. l.pred \in Activities
      BY LinksTyped DEF SortInv, Into
    <3>3. QED
      BY <3>1, <3>2
  <2>2. ASSUME NEW s \in SUBSET Activities, Held(s), NEW b \in s PROVE b \notin Range(topo)
    <3> DEFINE P == {k \in DOMAIN topo : topo[k] \in s}
    <3> SUFFICES ASSUME P # {} PROVE FALSE
      BY TopoPlaces
    <3>1. PICK k \in P : \A j \in P : k <= j
      BY FirstPlace
    <3>2. PICK l \in Into(topo[k]) : l.pred \in s
      BY <2>2, <3>1
    <3>3. PICK j \in 1..k - 1 : topo[j] = l.pred
      BY <3>1, <3>2 DEF SortInv, SortedBefore
    <3>4. k \in 1..Len(topo) /\ Len(topo) \in Nat /\ DOMAIN topo = 1..Len(topo)
      BY <3>1, TopoPlaces
    <3>5. j \in P /\ j < k
      BY <3>2, <3>3, <3>4
    <3>6. QED
      BY <3>1, <3>4, <3>5
  <2>3. QED
    BY <2>1, <2>2
<1>2. QED
  BY <1>1, SortInductive, PTL
-------------------------------------------------------------------------------
(* The passes.                                                              *)

EarlyDone(a) ==
    /\ \A l \in Into(a) : NotBefore(l) <= earlyStart[a]
    /\ (earlyStart[a] = 0 \/ \E l \in Into(a) : NotBefore(l) = earlyStart[a])
Followed(a) == {l \in OutOf(a) : ~inCycle(l.succ)}
LateDone(a) ==
    /\ lateFinish[a] <= projectFinish
    /\ \A l \in Followed(a) : lateFinish[a] <= NotAfter(l)
    /\ (lateFinish[a] = projectFinish \/ \E l \in Followed(a) : lateFinish[a] = NotAfter(l))

\* The places of topo that a pass has come through.
ComeForward(k) == phase \in {"backward", "done"} \/ (phase = "forward" /\ k < at)
ComeBack(k) == phase = "done" \/ (phase = "backward" /\ k > at)

DatesOK ==
    /\ earlyStart \in [Activities -> Nat]
    /\ lateFinish \in [Activities -> Int]
    /\ at \in Int
    /\ phase = "forward" => at \in 1..Len(topo) + 1
    /\ phase = "backward" => at \in 0..Len(topo)
DatesInv ==
    /\ DatesOK
    /\ \A k \in DOMAIN topo : /\ ComeForward(k) => EarlyDone(topo[k])
                              /\ ComeBack(k) => LateDone(topo[k])

LEMMA DatesTyped ==
  ASSUME Input, DatesOK
  PROVE  /\ \A a \in Activities : earlyFinish(a) \in Nat /\ lateStart(a) \in Int
         /\ \A l \in links : NotBefore(l) \in Int /\ NotAfter(l) \in Int
<1>1. ASSUME NEW a \in Activities PROVE earlyFinish(a) \in Nat /\ lateStart(a) \in Int
  <2>1. earlyStart[a] \in Nat /\ lateFinish[a] \in Int /\ duration[a] \in Nat
    BY LinksTyped DEF DatesOK
  <2>2. QED
    BY <2>1 DEF earlyFinish, lateStart
<1>2. ASSUME NEW l \in links PROVE NotBefore(l) \in Int /\ NotAfter(l) \in Int
  <2>1. /\ l.pred \in Activities /\ l.succ \in Activities /\ l.lag \in Int
        /\ l.type \in {"FS", "SS", "FF", "SF"}
    BY LinksTyped
  <2>2. /\ earlyFinish(l.pred) \in Int /\ lateStart(l.succ) \in Int
        /\ duration[l.succ] \in Int /\ duration[l.pred] \in Int
    BY <1>1, <2>1, LinksTyped
  <2>3. earlyStart[l.pred] \in Int /\ lateFinish[l.succ] \in Int
    BY <2>1 DEF DatesOK
  <2>4. QED
    BY <2>1, <2>2, <2>3 DEF NotBefore, NotAfter
<1>3. QED
  BY <1>1, <1>2

LEMMA ProjectEnds ==
  ASSUME SortInv, DatesOK
  PROVE  /\ projectFinish \in Nat
         /\ \A a \in Range(topo) : earlyFinish(a) <= projectFinish
         /\ (projectFinish = 0 \/ \E a \in Range(topo) : projectFinish = earlyFinish(a))
<1> DEFINE f == [a \in Range(topo) |-> earlyFinish(a)]
<1>1. IsFiniteSet(Range(topo)) /\ \A a \in Range(topo) : f[a] \in Int
  BY TopoPlaces, DatesTyped DEF SortInv
<1>2. {earlyFinish(a) : a \in Range(topo)} = Values(f, Range(topo))
  BY DEF Values
<1>3. \A a \in Range(topo) : f[a] = earlyFinish(a)
  OBVIOUS
<1> HIDE DEF f
<1>4. LET m == Max({0} \cup Values(f, Range(topo)))
      IN  /\ m \in Int /\ 0 <= m
          /\ \A a \in Range(topo) : f[a] <= m
          /\ (m = 0 \/ \E a \in Range(topo) : m = f[a])
  BY <1>1, MaxOfValues
<1>5. projectFinish = Max({0} \cup Values(f, Range(topo)))
  BY <1>2 DEF projectFinish
<1>6. QED
  BY <1>3, <1>4, <1>5

\* Whoever the activity at a place waits for stands before it, and whoever waits
\* for it behind, if it is sorted.
LEMMA BeforeAndBehind ==
  ASSUME SortInv, NEW k \in DOMAIN topo
  PROVE  /\ topo[k] \in Activities
         /\ \A l \in Into(topo[k]) :
               l \in links /\ ~inCycle(l.pred) /\ \E j \in DOMAIN topo : j < k /\ topo[j] = l.pred
         /\ \A l \in Followed(topo[k]) :
               l \in links /\ \E j \in DOMAIN topo : k < j /\ topo[j] = l.succ
<1>1. DOMAIN topo = 1..Len(topo) /\ Len(topo) \in Nat /\ topo[k] \in Activities
  BY TopoPlaces
<1>2. ASSUME NEW l \in Into(topo[k])
      PROVE  l \in links /\ ~inCycle(l.pred) /\ \E j \in DOMAIN topo : j < k /\ topo[j] = l.pred
  <2>1. PICK j \in 1..k - 1 : topo[j] = l.pred
    BY DEF SortInv, SortedBefore
  <2>2. j \in DOMAIN topo /\ j < k
    BY <1>1
  <2>3. topo[j] \in Range(topo)
    BY <2>2, TopoPlaces
  <2>4. QED
    BY <2>1, <2>2, <2>3 DEF inCycle, Into
<1>3. ASSUME NEW l \in Followed(topo[k])
      PROVE  l \in links /\ \E j \in DOMAIN topo : k < j /\ topo[j] = l.succ
  <2>1. l \in links /\ l.pred = topo[k] /\ l.succ \in Range(topo)
    BY DEF Followed, OutOf, inCycle
  <2>2. PICK j \in DOMAIN topo : topo[j] = l.succ
    BY <2>1, TopoPlaces
  <2>3. l \in Into(topo[j])
    BY <2>1, <2>2 DEF Into
  <2>4. PICK i \in 1..j - 1 : topo[i] = l.pred
    BY <2>3 DEF SortInv, SortedBefore
  <2>5. i \in DOMAIN topo /\ i < j
    BY <1>1
  <2>6. i = k
    BY <2>1, <2>4, <2>5 DEF SortInv, NoRepeats
  <2>7. QED
    BY <2>1, <2>2, <2>5, <2>6
<1>4. QED
  BY <1>1, <1>2, <1>3

LEMMA ForwardKeeps ==
  ASSUME SortInv, DatesInv, Forward
  PROVE  DatesInv'
<1> DEFINE a == topo[at]
           f == [l \in Into(a) |-> NotBefore(l)]
<1>1. /\ phase = "forward" /\ at \in DOMAIN topo /\ at' = at + 1 /\ a \in Activities
      /\ UNCHANGED <<duration, links, phase, topo, lateFinish>>
  BY TopoPlaces DEF Forward, input, DatesInv, DatesOK
<1>2. \A l \in Into(a) : l \in links /\ ~inCycle(l.pred) /\ \E j \in DOMAIN topo : j < at /\ topo[j] = l.pred
  BY <1>1, BeforeAndBehind
<1>3. {l \in Into(a) : ~inCycle(l.pred)} = Into(a)
  BY <1>2
<1>4. IsFiniteSet(Into(a)) /\ \A l \in Into(a) : f[l] \in Int
  BY <1>2, LinksTyped, DatesTyped DEF SortInv, DatesInv
<1>5. (\A l \in Into(a) : f[l] = NotBefore(l))
      /\ {NotBefore(l) : l \in Into(a)} = Values(f, Into(a))
  BY DEF Values
<1> DEFINE m == Max({0} \cup Values(f, Into(a)))
<1>6. earlyStart' = [earlyStart EXCEPT ![a] = m]
  BY <1>3, <1>5 DEF Forward
<1> HIDE DEF f, a
<1>7. /\ m \in Int /\ 0 <= m
      /\ \A l \in Into(a) : f[l] <= m
      /\ (m = 0 \/ \E l \in Into(a) : m = f[l])
  BY <1>4, MaxOfValues
<1> HIDE DEF m
<1>8. /\ earlyStart' \in [Activities -> Nat] /\ earlyStart'[a] = m
      /\ \A b \in Activities \ {a} : earlyStart'[b] = earlyStart[b]
  BY <1>1, <1>6, <1>7 DEF DatesInv, DatesOK
<1>9. DatesOK'
  BY <1>1, <1>8, TopoPlaces DEF DatesInv, DatesOK
<1>10. ASSUME NEW l \in links, l.pred # a PROVE NotBefore(l)' = NotBefore(l)
  <2>1. earlyStart'[l.pred] = earlyStart[l.pred]
    BY <1>8, <1>10, LinksTyped DEF SortInv
  <2>2. QED
    BY <1>1, <2>1 DEF NotBefore, earlyFinish
<1>11. \A b : Into(b)' = Into(b)
  BY <1>1 DEF Into
<1>12. ASSUME NEW k \in DOMAIN topo, k < at + 1 PROVE EarlyDone(topo[k])'
  <2>1. CASE k = at
    <3>1. \A l \in Into(a) : l.pred # a
      BY LinksTyped DEF SortInv, Into
    <3>2. \A l \in Into(a) : NotBefore(l)' = f[l]
      BY <1>2, <1>5, <1>10, <3>1
    <3>3. QED
      BY <1>1, <1>7, <1>8, <1>11, <2>1, <3>2 DEF EarlyDone, a
  <2>2. CASE k < at
    <3>1. EarlyDone(topo[k]) /\ topo[k] # a /\ topo[k] \in Activities
      BY <1>1, <2>2, TopoPlaces DEF DatesInv, ComeForward, SortInv, NoRepeats, a
    <3>2. \A l \in Into(topo[k]) : l \in links /\ l.pred # a
      <4> SUFFICES ASSUME NEW l \in Into(topo[k]) PROVE l \in links /\ l.pred # a
        OBVIOUS
      <4>1. PICK j \in DOMAIN topo : j < k /\ topo[j] = l.pred
        BY BeforeAndBehind
      <4>2. j # at
        BY <1>1, <2>2, <4>1, TopoPlaces
      <4>3. QED
        BY <1>1, <4>1, <4>2, BeforeAndBehind DEF SortInv, NoRepeats, a
    <3>3. \A l \in Into(topo[k]) : NotBefore(l)' = NotBefore(l)
      BY <1>10, <3>2
    <3>4. earlyStart'[topo[k]] = earlyStart[topo[k]]
      BY <1>8, <3>1
    <3>5. QED
      BY <1>1, <1>11, <3>1, <3>3, <3>4 DEF EarlyDone
  <2>3. QED
    BY <1>1, <1>12, <2>1, <2>2, TopoPlaces
<1>13. QED
  BY <1>1, <1>9, <1>12 DEF DatesInv, ComeForward, ComeBack

LEMMA BackwardKeeps ==
  ASSUME SortInv, DatesInv, Backward
  PROVE  DatesInv'
<1> DEFINE a == topo[at]
           f == [l \in Followed(a) |-> NotAfter(l)]
<1>1. /\ phase = "backward" /\ at \in DOMAIN topo /\ at' = at - 1 /\ a \in Activities
      /\ UNCHANGED <<duration, links, phase, topo, earlyStart>>
  BY TopoPlaces DEF Backward, input, DatesInv, DatesOK
<1>2. \A l \in Followed(a) : l \in links /\ \E j \in DOMAIN topo : at < j /\ topo[j] = l.succ
  BY <1>1, BeforeAndBehind
<1>3. {l \in OutOf(a) : ~inCycle(l.succ)} = Followed(a)
  BY DEF Followed
<1>4. IsFiniteSet(Followed(a)) /\ \A l \in Followed(a) : f[l] \in Int
  <2>1. IsFiniteSet(Followed(a))
    BY LinksTyped, FS_Subset DEF SortInv, Followed
  <2>2. QED
    BY <1>2, <2>1, DatesTyped DEF SortInv, DatesInv
<1>5. (\A l \in Followed(a) : f[l] = NotAfter(l))
      /\ {NotAfter(l) : l \in Followed(a)} = Values(f, Followed(a))
  BY DEF Values
<1> DEFINE m == Min({projectFinish} \cup Values(f, Followed(a)))
<1>6. lateFinish' = [lateFinish EXCEPT ![a] = m]
  BY <1>3, <1>5 DEF Backward
<1> HIDE DEF f, a
<1>7. /\ m \in Int /\ m <= projectFinish
      /\ \A l \in Followed(a) : m <= f[l]
      /\ (m = projectFinish \/ \E l \in Followed(a) : m = f[l])
  <2>1. projectFinish \in Int
    BY ProjectEnds DEF DatesInv
  <2>2. QED
    BY <1>4, <2>1, MinOfValues
<1> HIDE DEF m
<1>8. /\ lateFinish' \in [Activities -> Int] /\ lateFinish'[a] = m
      /\ \A b \in Activities \ {a} : lateFinish'[b] = lateFinish[b]
  BY <1>1, <1>6, <1>7 DEF DatesInv, DatesOK
<1>9. DatesOK'
  BY <1>1, <1>8, TopoPlaces DEF DatesInv, DatesOK
<1>10. ASSUME NEW l \in links, l.succ # a PROVE NotAfter(l)' = NotAfter(l)
  <2>1. lateFinish'[l.succ] = lateFinish[l.succ]
    BY <1>8, <1>10, LinksTyped DEF SortInv
  <2>2. QED
    BY <1>1, <2>1 DEF NotAfter, lateStart
<1>11. /\ \A b : Followed(b)' = Followed(b) /\ EarlyDone(b)' = EarlyDone(b)
       /\ projectFinish' = projectFinish
  <2>1. \A b : Into(b)' = Into(b) /\ OutOf(b)' = OutOf(b) /\ earlyFinish(b)' = earlyFinish(b)
               /\ inCycle(b)' = inCycle(b)
    BY <1>1 DEF Into, OutOf, earlyFinish, inCycle
  <2>2. \A l : NotBefore(l)' = NotBefore(l)
    BY <1>1, <2>1 DEF NotBefore
  <2>3. projectFinish' = projectFinish
    BY <1>1, <2>1 DEF projectFinish
  <2>4. QED
    BY <1>1, <2>1, <2>2, <2>3 DEF Followed, EarlyDone
<1>12. ASSUME NEW k \in DOMAIN topo, at - 1 < k PROVE LateDone(topo[k])'
  <2>1. CASE k = at
    <3>1. \A l \in Followed(a) : l.succ # a
      BY LinksTyped DEF SortInv, Followed, OutOf
    <3>2. \A l \in Followed(a) : NotAfter(l)' = f[l]
      BY <1>2, <1>5, <1>10, <3>1
    <3>3. QED
      BY <1>1, <1>7, <1>8, <1>11, <2>1, <3>2 DEF LateDone, a
  <2>2. CASE at < k
    <3>1. LateDone(topo[k]) /\ topo[k] # a /\ topo[k] \in Activities
      BY <1>1, <2>2, TopoPlaces DEF DatesInv, ComeBack, SortInv, NoRepeats, a
    <3>2. \A l \in Followed(topo[k]) : l \in links /\ l.succ # a
      <4> SUFFICES ASSUME NEW l \in Followed(topo[k]) PROVE l \in links /\ l.succ # a
        OBVIOUS
      <4>1. PICK j \in DOMAIN topo : k < j /\ topo[j] = l.succ
        BY BeforeAndBehind
      <4>2. j # at
        BY <1>1, <2>2, <4>1, TopoPlaces
      <4>3. QED
        BY <1>1, <4>1, <4>2, BeforeAndBehind DEF SortInv, NoRepeats, a
    <3>3. \A l \in Followed(topo[k]) : NotAfter(l)' = NotAfter(l)
      BY <1>10, <3>2
    <3>4. lateFinish'[topo[k]] = lateFinish[topo[k]]
      BY <1>8, <3>1
    <3>5. QED
      BY <1>1, <1>11, <3>1, <3>3, <3>4 DEF LateDone
  <2>3. QED
    BY <1>1, <1>12, <2>1, <2>2, TopoPlaces
<1>13. QED
  BY <1>1, <1>9, <1>11, <1>12 DEF DatesInv, ComeForward, ComeBack

LEMMA DatesInitial == CpmInit => DatesInv
BY DEF CpmInit, DatesInv, DatesOK, ComeForward, ComeBack

\* The dates depend on nothing that other steps change.
LEMMA DatesKept ==
  ASSUME DatesInv, UNCHANGED <<duration, links, topo, earlyStart, lateFinish>>, DatesOK',
         \A k \in DOMAIN topo : /\ ComeForward(k)' => ComeForward(k)
                                /\ ComeBack(k)' => ComeBack(k)
  PROVE  DatesInv'
<1>1. \A b : /\ Into(b)' = Into(b) /\ OutOf(b)' = OutOf(b)
             /\ earlyFinish(b)' = earlyFinish(b) /\ lateStart(b)' = lateStart(b)
             /\ inCycle(b)' = inCycle(b)
  BY DEF Into, OutOf, earlyFinish, lateStart, inCycle
<1>2. \A l : NotBefore(l)' = NotBefore(l) /\ NotAfter(l)' = NotAfter(l)
  BY <1>1 DEF NotBefore, NotAfter
<1>3. projectFinish' = projectFinish
  BY <1>1 DEF projectFinish
<1>4. \A b : EarlyDone(b)' = EarlyDone(b) /\ LateDone(b)' = LateDone(b)
  BY <1>1, <1>2, <1>3 DEF EarlyDone, LateDone, Followed
<1>5. QED
  BY <1>4 DEF DatesInv

LEMMA DatesStep ==
  ASSUME SortInv, DatesInv, [CpmNext]_cpmVars
  PROVE  DatesInv'
<1>1. /\ DatesOK /\ DOMAIN topo = 1..Len(topo) /\ Len(topo) \in Nat
      /\ \A k \in DOMAIN topo : k \in Nat /\ 0 < k /\ k <= Len(topo)
  BY TopoPlaces DEF DatesInv
<1>2. ASSUME NEW a \in Activities, Visit(a) PROVE DatesInv'
  <2>1. phase = "sort" /\ UNCHANGED <<duration, links, phase, at, earlyStart, lateFinish>>
    BY <1>2 DEF Visit, input
  <2>2. QED
    BY <1>1, <2>1 DEF DatesInv, DatesOK, ComeForward, ComeBack
<1>3. CASE Sorted
  <2>1. phase' = "forward" /\ at' = 1 /\ UNCHANGED <<duration, links, topo, earlyStart, lateFinish>>
    BY <1>3 DEF Sorted, input
  <2>2. DatesOK' /\ \A k \in DOMAIN topo : ~ComeForward(k)' /\ ~ComeBack(k)'
    BY <1>1, <2>1 DEF DatesOK, ComeForward, ComeBack
  <2>3. QED
    BY <2>1, <2>2, DatesKept
<1>4. CASE Turn
  <2>1. /\ phase = "forward" /\ at > Len(topo) /\ phase' = "backward" /\ at' = Len(topo)
        /\ UNCHANGED <<duration, links, topo, earlyStart, lateFinish>>
    BY <1>4 DEF Turn, input
  <2>2. DatesOK' /\ \A k \in DOMAIN topo : ComeForward(k) /\ ~ComeBack(k)'
    BY <1>1, <2>1 DEF DatesOK, ComeForward, ComeBack
  <2>3. QED
    BY <2>1, <2>2, DatesKept
<1>5. CASE Finish
  <2>1. /\ phase = "backward" /\ at = 0 /\ phase' = "done"
        /\ UNCHANGED <<duration, links, topo, at, earlyStart, lateFinish>>
    BY <1>5 DEF Finish, input
  <2>2. DatesOK' /\ \A k \in DOMAIN topo : ComeForward(k) /\ ComeBack(k)
    BY <1>1, <2>1 DEF DatesOK, ComeForward, ComeBack
  <2>3. QED
    BY <2>1, <2>2, DatesKept
<1>6. CASE UNCHANGED cpmVars
  <2>1. UNCHANGED <<duration, links, phase, topo, at, earlyStart, lateFinish>>
    BY <1>6 DEF cpmVars, input
  <2>2. DatesOK' /\ \A k : ComeForward(k)' = ComeForward(k) /\ ComeBack(k)' = ComeBack(k)
    BY <1>1, <2>1 DEF DatesOK, ComeForward, ComeBack
  <2>3. QED
    BY <2>1, <2>2, DatesKept
<1>7. QED
  BY <1>2, <1>3, <1>4, <1>5, <1>6, ForwardKeeps, BackwardKeeps DEF CpmNext

\* Each pass has the dates right of all it has come through.
THEOREM DatesInductive == CpmSpec => []DatesInv
<1>1. CpmInit => DatesInv
  BY DatesInitial
<1>2. SortInv /\ DatesInv /\ [CpmNext]_cpmVars => DatesInv'
  BY DatesStep
<1>3. QED
  BY <1>1, <1>2, SortInductive, PTL DEF CpmSpec
-------------------------------------------------------------------------------
(* The dates of a finished run, against all schedules there are.            *)

Finished == SortInv /\ DatesInv /\ phase = "done"
OnTime == {s \in Schedules : \A a \in Range(topo) : s[a] + duration[a] <= projectFinish}

LEMMA Products ==
  ASSUME NEW j \in Nat, NEW k \in Nat, j <= k, NEW m \in Nat
  PROVE  j * m \in Nat /\ k * m \in Nat /\ j * m <= k * m
OBVIOUS

LEMMA NextProduct ==
  ASSUME NEW j \in Nat, NEW k \in Nat, j < k, NEW m \in Nat
  PROVE  j * m \in Nat /\ k * m \in Nat /\ j * m + m <= k * m
<1>1. (j + 1) * m <= k * m /\ k * m \in Nat /\ j * m \in Nat
  BY Products
<1>2. (j + 1) * m = j * m + m
  OBVIOUS
<1>3. QED
  BY <1>1, <1>2

LEMMA CountTo ==
  ASSUME NEW n \in Nat
  PROVE  Cardinality(1..n) = n
BY FS_Interval

LEMMA TopoLength ==
  ASSUME SortInv
  PROVE  Len(topo) <= Cardinality(Activities) /\ Cardinality(Activities) \in Nat
<1>1. topo \in [1..Len(topo) -> Activities] /\ Len(topo) \in Nat
  BY DEF SortInv, Sorting
<1>2. topo \in Injection(1..Len(topo), Activities)
  BY <1>1 DEF SortInv, NoRepeats, Injection, IsInjective
<1>3. Cardinality(1..Len(topo)) = Len(topo)
  BY <1>1, CountTo
<1>4. QED
  BY <1>2, <1>3, CpmAssumption, FS_Injection, FS_CardinalityType

\* A chain of so many activities takes no longer than the longest for each.
LEMMA WithinHorizon ==
  ASSUME Finished
  PROVE  projectFinish <= Horizon /\ \A a \in Range(topo) : earlyStart[a] \in 0..Horizon
<1>1. PICK most \in 0..Horizon :
          /\ Cardinality(Activities) * most <= Horizon
          /\ \A n \in Durations :
                n <= most /\ \A ls \in LinkSets : \A l \in ls : n + l.lag <= most
  BY HorizonAssumption
<1>2. /\ DOMAIN topo = 1..Len(topo) /\ Len(topo) \in Nat /\ most \in Nat
      /\ Horizon \in Nat
      /\ SortInv /\ DatesOK /\ Input
      /\ \A k \in DOMAIN topo : topo[k] \in Activities /\ EarlyDone(topo[k])
  BY <1>1, HorizonAssumption, TopoPlaces DEF Finished, DatesInv, ComeForward, SortInv
<1>3. \A a \in Activities : duration[a] \in Nat /\ earlyStart[a] \in Nat
                            /\ earlyFinish(a) = earlyStart[a] + duration[a]
  BY <1>2, LinksTyped DEF DatesOK, earlyFinish
<1>4. \A a \in Activities : duration[a] <= most /\ \A l \in links : duration[a] + l.lag <= most
  BY <1>1, <1>2 DEF Input
<1>5. ASSUME NEW k \in DOMAIN topo PROVE earlyFinish(topo[k]) <= k * most
  <2> DEFINE P == {j \in DOMAIN topo : ~(earlyFinish(topo[j]) <= j * most)}
  <2> SUFFICES ASSUME P # {} PROVE FALSE
    OBVIOUS
  <2>1. PICK i \in P : \A j \in P : i <= j
    BY <1>2, FirstPlace
  <2>2. /\ i \in DOMAIN topo /\ i \in Nat /\ 1 <= i /\ topo[i] \in Activities
        /\ ~(earlyFinish(topo[i]) <= i * most)
    BY <1>2, <2>1
  <2>3. earlyStart[topo[i]] # 0
    <3>1. 1 * most <= i * most /\ 1 * most = most /\ i * most \in Nat
      BY <1>2, <2>2, Products
    <3>2. QED
      BY <1>3, <1>4, <2>2, <3>1
  <2>4. PICK l \in Into(topo[i]) : NotBefore(l) = earlyStart[topo[i]]
    BY <1>2, <2>2, <2>3 DEF EarlyDone
  <2>5. PICK j \in DOMAIN topo : j < i /\ topo[j] = l.pred
    BY <1>2, <2>2, BeforeAndBehind
  <2>6. earlyFinish(topo[j]) <= j * most /\ j \in Nat /\ topo[j] \in Activities
    BY <1>2, <2>1, <2>5
  <2>7. earlyFinish(topo[i]) <= earlyFinish(topo[j]) + most
    <3>1. /\ l \in links /\ l.succ = topo[i] /\ l.lag \in Int /\ l.type \in {"FS", "SS", "FF", "SF"}
      BY <1>2, LinksTyped DEF Into
    <3>2. NotBefore(l) + duration[topo[i]] <= earlyFinish(topo[j]) + most
      <4>1. /\ duration[topo[i]] \in Nat /\ duration[topo[j]] \in Nat /\ earlyStart[topo[j]] \in Nat
            /\ earlyFinish(topo[j]) = earlyStart[topo[j]] + duration[topo[j]]
            /\ duration[topo[i]] + l.lag <= most /\ l.lag <= most
        BY <1>3, <1>4, <2>2, <2>6, <3>1
      <4>2. NotBefore(l) = CASE l.type = "FS" -> earlyFinish(topo[j]) + l.lag
                             [] l.type = "SS" -> earlyStart[topo[j]] + l.lag
                             [] l.type = "FF" -> earlyFinish(topo[j]) + l.lag - duration[topo[i]]
                             [] l.type = "SF" -> earlyStart[topo[j]] + l.lag - duration[topo[i]]
        BY <2>5, <3>1 DEF NotBefore
      <4>3. most \in Nat /\ l.lag \in Int
        BY <1>2, <3>1
      <4>4. CASE l.type = "FS"
        BY <4>1, <4>2, <4>3, <4>4
      <4>5. CASE l.type = "SS"
        BY <4>1, <4>2, <4>3, <4>5
      <4>6. CASE l.type = "FF"
        BY <4>1, <4>2, <4>3, <4>6
      <4>7. CASE l.type = "SF"
        BY <4>1, <4>2, <4>3, <4>7
      <4>8. QED
        BY <3>1, <4>4, <4>5, <4>6, <4>7
    <3>3. QED
      BY <1>3, <2>2, <2>4, <3>2
  <2>8. j * most + most <= i * most /\ j * most \in Nat /\ i * most \in Nat
    BY <1>2, <2>2, <2>5, <2>6, NextProduct
  <2>9. earlyFinish(topo[i]) \in Nat /\ earlyFinish(topo[j]) \in Nat
    BY <1>3, <2>2, <2>6
  <2> DEFINE jMost == j * most
             iMost == i * most
  <2>10. /\ earlyFinish(topo[j]) <= jMost /\ jMost + most <= iMost
         /\ jMost \in Nat /\ iMost \in Nat /\ ~(earlyFinish(topo[i]) <= iMost)
    BY <2>2, <2>6, <2>8
  <2> HIDE DEF jMost, iMost
  <2>11. QED
    BY <1>2, <2>7, <2>9, <2>10
<1>6. Len(topo) <= Cardinality(Activities) /\ Cardinality(Activities) \in Nat
  BY <1>2, TopoLength
<1>7. ASSUME NEW a \in Range(topo) PROVE earlyFinish(a) <= Horizon
  <2>1. PICK k \in DOMAIN topo : topo[k] = a
    BY <1>2, TopoPlaces
  <2>2. k \in Nat /\ k <= Cardinality(Activities)
    BY <1>2, <1>6
  <2>3. /\ k * most <= Cardinality(Activities) * most
        /\ k * most \in Nat /\ Cardinality(Activities) * most \in Nat
    BY <1>2, <1>6, <2>2, Products
  <2>4. earlyFinish(a) \in Nat
    BY <1>2, <1>3, <2>1
  <2>5. QED
    BY <1>1, <1>2, <1>5, <2>1, <2>3, <2>4
<1>8. \A a \in Range(topo) : earlyStart[a] \in 0..Horizon
  BY <1>2, <1>3, <1>7, TopoPlaces
<1>9. QED
  BY <1>2, <1>7, <1>8, ProjectEnds

\* What a link asks of a schedule, as a bound on either end.
LEMMA KeptLink ==
  ASSUME Finished, NEW l \in links, NEW s, s[l.pred] \in Int, s[l.succ] \in Int
  PROVE  /\ Keeps(s, l) /\ earlyStart[l.pred] <= s[l.pred] => NotBefore(l) <= s[l.succ]
         /\ Keeps(s, l) /\ s[l.succ] <= lateStart(l.succ) => s[l.pred] + duration[l.pred] <= NotAfter(l)
         /\ /\ s[l.pred] = earlyStart[l.pred]
            /\ NotBefore(l) <= s[l.succ]
            => Keeps(s, l)
         /\ /\ s[l.pred] = lateStart(l.pred) /\ s[l.succ] = lateStart(l.succ)
            /\ lateFinish[l.pred] <= NotAfter(l)
            => Keeps(s, l)
<1>1. /\ l.pred \in Activities /\ l.succ \in Activities /\ l.lag \in Int
      /\ l.type \in {"FS", "SS", "FF", "SF"}
  BY LinksTyped DEF Finished, SortInv
<1>2. \A a \in Activities : /\ duration[a] \in Nat /\ earlyStart[a] \in Nat /\ lateFinish[a] \in Int
                            /\ earlyFinish(a) = earlyStart[a] + duration[a]
                            /\ lateStart(a) = lateFinish[a] - duration[a]
  BY LinksTyped DEF Finished, SortInv, DatesInv, DatesOK, earlyFinish, lateStart
<1>3. CASE l.type = "FS"
  BY <1>1, <1>2, <1>3 DEF Keeps, NotBefore, NotAfter
<1>4. CASE l.type = "SS"
  BY <1>1, <1>2, <1>4 DEF Keeps, NotBefore, NotAfter
<1>5. CASE l.type = "FF"
  BY <1>1, <1>2, <1>5 DEF Keeps, NotBefore, NotAfter
<1>6. CASE l.type = "SF"
  BY <1>1, <1>2, <1>6 DEF Keeps, NotBefore, NotAfter
<1>7. QED
  BY <1>1, <1>3, <1>4, <1>5, <1>6

\* The dates of what is sorted, with their types.
LEMMA FinishedDates ==
  ASSUME Finished
  PROVE  /\ Horizon \in Nat /\ projectFinish \in Nat
         /\ \A a \in Range(topo) :
               /\ a \in Activities /\ EarlyDone(a) /\ LateDone(a)
               /\ duration[a] \in Nat /\ earlyStart[a] \in Nat /\ lateFinish[a] \in Int
               /\ earlyFinish(a) = earlyStart[a] + duration[a]
               /\ lateStart(a) = lateFinish[a] - duration[a]
               /\ earlyFinish(a) <= projectFinish
<1>1. \A k \in DOMAIN topo : EarlyDone(topo[k]) /\ LateDone(topo[k])
  BY DEF Finished, DatesInv, ComeForward, ComeBack
<1>2. ASSUME NEW a \in Range(topo) PROVE a \in Activities /\ EarlyDone(a) /\ LateDone(a)
  BY <1>1, TopoPlaces DEF Finished
<1>3. \A a \in Activities : duration[a] \in Nat /\ earlyStart[a] \in Nat /\ lateFinish[a] \in Int
  BY LinksTyped DEF Finished, SortInv, DatesInv, DatesOK
<1>4. projectFinish \in Nat /\ \A a \in Range(topo) : earlyFinish(a) <= projectFinish
  BY ProjectEnds DEF Finished, DatesInv
<1>5. QED
  BY <1>2, <1>3, <1>4, HorizonAssumption DEF earlyFinish, lateStart

\* A link between two activities that are sorted.
LEMMA SortedLink ==
  ASSUME Finished, NEW l \in links, ~inCycle(l.pred), ~inCycle(l.succ)
  PROVE  /\ l.pred \in Range(topo) /\ l.succ \in Range(topo)
         /\ l \in Into(l.succ) /\ l \in Followed(l.pred)
BY DEF inCycle, Into, OutOf, Followed

LEMMA EarlyLeast ==
  ASSUME Finished, NEW s \in Schedules, NEW a \in Range(topo)
  PROVE  earlyStart[a] <= s[a]
<1> DEFINE P == {k \in DOMAIN topo : ~(earlyStart[topo[k]] <= s[topo[k]])}
<1> SUFFICES ASSUME P # {} PROVE FALSE
  BY TopoPlaces DEF Finished
<1>1. PICK i \in P : \A j \in P : i <= j
  BY FirstPlace DEF Finished
<1>2. /\ i \in DOMAIN topo /\ i \in Nat /\ topo[i] \in Range(topo)
      /\ ~(earlyStart[topo[i]] <= s[topo[i]])
  BY <1>1, TopoPlaces DEF Finished
<1>3. \A b \in Range(topo) : s[b] \in Nat
  BY FinishedDates DEF Schedules
<1>4. earlyStart[topo[i]] # 0
  BY <1>2, <1>3, FinishedDates
<1>5. PICK l \in Into(topo[i]) : NotBefore(l) = earlyStart[topo[i]]
  BY <1>2, <1>4, FinishedDates DEF EarlyDone
<1>6. l \in links /\ ~inCycle(l.pred) /\ l.succ = topo[i] /\ ~inCycle(l.succ)
  BY <1>2, BeforeAndBehind DEF Finished, Into, inCycle
<1>7. PICK j \in DOMAIN topo : j < i /\ topo[j] = l.pred
  BY <1>2, BeforeAndBehind DEF Finished
<1>8. j \in Nat /\ topo[j] \in Range(topo)
  BY TopoPlaces DEF Finished
<1>9. earlyStart[l.pred] <= s[l.pred]
  BY <1>1, <1>2, <1>7, <1>8
<1>10. Keeps(s, l)
  BY <1>6 DEF Schedules
<1>11. NotBefore(l) <= s[l.succ]
  BY <1>2, <1>3, <1>6, <1>7, <1>8, <1>9, <1>10, KeptLink
<1>12. QED
  BY <1>2, <1>5, <1>6, <1>11

LEMMA LateMost ==
  ASSUME Finished, NEW s \in OnTime, NEW a \in Range(topo)
  PROVE  s[a] <= lateStart(a)
<1> DEFINE P == {k \in DOMAIN topo : ~(s[topo[k]] <= lateStart(topo[k]))}
<1> SUFFICES ASSUME P # {} PROVE FALSE
  BY TopoPlaces DEF Finished
<1>1. PICK i \in P : \A j \in P : j <= i
  BY LastPlace DEF Finished
<1>2. /\ i \in DOMAIN topo /\ i \in Nat /\ topo[i] \in Range(topo)
      /\ ~(s[topo[i]] <= lateStart(topo[i]))
  BY <1>1, TopoPlaces DEF Finished
<1>3. s \in Schedules /\ \A b \in Range(topo) : s[b] \in Nat /\ s[b] + duration[b] <= projectFinish
  BY FinishedDates DEF OnTime, Schedules
<1>4. lateFinish[topo[i]] # projectFinish
  BY <1>2, <1>3, FinishedDates
<1>5. PICK l \in Followed(topo[i]) : lateFinish[topo[i]] = NotAfter(l)
  BY <1>2, <1>4, FinishedDates DEF LateDone
<1>6. l \in links /\ ~inCycle(l.succ) /\ l.pred = topo[i] /\ ~inCycle(l.pred)
  BY <1>2 DEF Followed, OutOf, inCycle
<1>7. PICK j \in DOMAIN topo : i < j /\ topo[j] = l.succ
  BY <1>2, BeforeAndBehind DEF Finished
<1>8. j \in Nat /\ topo[j] \in Range(topo)
  BY TopoPlaces DEF Finished
<1>9. s[l.succ] <= lateStart(l.succ)
  BY <1>1, <1>2, <1>7, <1>8
<1>10. Keeps(s, l)
  BY <1>3, <1>6 DEF Schedules
<1>11. s[l.pred] + duration[l.pred] <= NotAfter(l)
  BY <1>2, <1>3, <1>6, <1>7, <1>8, <1>9, <1>10, KeptLink
<1>12. s[topo[i]] + duration[topo[i]] <= lateFinish[topo[i]]
  BY <1>5, <1>6, <1>11
<1>13. QED
  BY <1>2, <1>3, <1>12, FinishedDates

Earliest == [a \in Range(topo) |-> earlyStart[a]]
Latest == [a \in Range(topo) |-> lateStart(a)]

LEMMA EarliestOnTime ==
  ASSUME Finished
  PROVE  Earliest \in Schedules /\ Earliest \in OnTime
<1>1. Earliest \in [Range(topo) -> 0..Horizon] /\ projectFinish <= Horizon
  BY WithinHorizon DEF Earliest
<1>2. ASSUME NEW l \in links, ~inCycle(l.pred), ~inCycle(l.succ) PROVE Keeps(Earliest, l)
  <2>1. l.pred \in Range(topo) /\ l.succ \in Range(topo) /\ l \in Into(l.succ)
    BY <1>2, SortedLink
  <2>2. Earliest[l.pred] = earlyStart[l.pred] /\ Earliest[l.succ] = earlyStart[l.succ]
    BY <2>1 DEF Earliest
  <2>3. NotBefore(l) <= Earliest[l.succ] /\ Earliest[l.pred] \in Int /\ Earliest[l.succ] \in Int
    BY <2>1, <2>2, FinishedDates DEF EarlyDone
  <2>4. QED
    BY <2>2, <2>3, KeptLink
<1>3. \A a \in Range(topo) : Earliest[a] + duration[a] <= projectFinish
  BY FinishedDates DEF Earliest
<1>4. QED
  BY <1>1, <1>2, <1>3 DEF Schedules, OnTime

LEMMA LatestOnTime ==
  ASSUME Finished
  PROVE  Latest \in OnTime
<1>1. ASSUME NEW a \in Range(topo)
      PROVE  /\ Latest[a] = lateStart(a) /\ Latest[a] \in 0..Horizon
             /\ Latest[a] + duration[a] <= projectFinish
  <2>1. Earliest[a] <= lateStart(a) /\ Earliest[a] = earlyStart[a]
    BY EarliestOnTime, LateMost DEF Earliest
  <2>2. lateFinish[a] <= projectFinish
    BY FinishedDates DEF LateDone
  <2>3. /\ duration[a] \in Nat /\ earlyStart[a] \in Nat /\ lateFinish[a] \in Int
        /\ lateStart(a) = lateFinish[a] - duration[a] /\ projectFinish \in Nat
        /\ Horizon \in Nat /\ projectFinish <= Horizon
    BY FinishedDates, WithinHorizon
  <2>4. Latest[a] = lateStart(a)
    BY DEF Latest
  <2>5. QED
    BY <2>1, <2>2, <2>3, <2>4
<1>2. Latest \in [Range(topo) -> 0..Horizon]
  BY <1>1 DEF Latest
<1>3. ASSUME NEW l \in links, ~inCycle(l.pred), ~inCycle(l.succ) PROVE Keeps(Latest, l)
  <2>1. l.pred \in Range(topo) /\ l.succ \in Range(topo) /\ l \in Followed(l.pred)
    BY <1>3, SortedLink
  <2>2. /\ Latest[l.pred] = lateStart(l.pred) /\ Latest[l.succ] = lateStart(l.succ)
        /\ Latest[l.pred] \in Int /\ Latest[l.succ] \in Int
    BY <1>1, <2>1
  <2>3. lateFinish[l.pred] <= NotAfter(l)
    BY <2>1, FinishedDates DEF LateDone
  <2>4. QED
    BY <2>2, <2>3, KeptLink
<1>4. QED
  BY <1>1, <1>2, <1>3 DEF Schedules, OnTime

\* The dates computed are the best there are: no schedule that keeps the links
\* starts an activity earlier than its early start, none that ends with the
\* project starts it later than its late start, and some schedule attains each,
\* for any activities, durations, links and lags.
THEOREM DatesExact == CpmSpec => []ScheduleExact
<1>1. SortInv /\ DatesInv => ScheduleExact
  <2> SUFFICES ASSUME Finished, NEW a \in Range(topo)
               PROVE  /\ earlyStart[a] = Min({s[a] : s \in Schedules})
                      /\ lateStart(a) = Max({s[a] : s \in OnTime})
    BY DEF ScheduleExact, Finished, OnTime
  <2>1. /\ \A s \in Schedules : s[a] \in Int /\ earlyStart[a] <= s[a]
        /\ \E s \in Schedules : s[a] = earlyStart[a]
    <3>1. \A s \in Schedules : s[a] \in Int
      BY FinishedDates DEF Schedules
    <3>2. Earliest \in Schedules /\ Earliest[a] = earlyStart[a]
      BY EarliestOnTime DEF Earliest
    <3>3. QED
      BY <3>1, <3>2, EarlyLeast
  <2>2. /\ \A s \in OnTime : s[a] \in Int /\ s[a] <= lateStart(a)
        /\ \E s \in OnTime : s[a] = lateStart(a)
    <3>1. \A s \in OnTime : s[a] \in Int
      BY FinishedDates DEF OnTime, Schedules
    <3>2. Latest \in OnTime /\ Latest[a] = lateStart(a)
      BY LatestOnTime DEF Latest
    <3>3. QED
      BY <3>1, <3>2, LateMost
  <2>3. earlyStart[a] \in Int /\ lateStart(a) \in Int
    BY FinishedDates
  <2>4. earlyStart[a] = Min({s[a] : s \in Schedules})
    <3> DEFINE S == {s[a] : s \in Schedules}
    <3>1. earlyStart[a] \in S /\ \A x \in S : x \in Int /\ earlyStart[a] <= x
      BY <2>1
    <3> HIDE DEF S
    <3>2. Min(S) = earlyStart[a]
      BY <2>3, <3>1, MinIs
    <3>3. QED
      BY <3>2 DEF S
  <2>5. lateStart(a) = Max({s[a] : s \in OnTime})
    <3> DEFINE S == {s[a] : s \in OnTime}
    <3>1. lateStart(a) \in S /\ \A x \in S : x \in Int /\ x <= lateStart(a)
      BY <2>2
    <3> HIDE DEF S
    <3>2. Max(S) = lateStart(a)
      BY <2>3, <3>1, MaxIs
    <3>3. QED
      BY <3>2 DEF S
  <2>6. QED
    BY <2>4, <2>5
<1>2. QED
  BY <1>1, SortInductive, DatesInductive, PTL

\* What the planner is shown as critical.
CriticalPath ==
    phase = "done" =>
        /\ \A a \in Range(topo) : totalFloat(a) >= 0
        /\ Range(topo) # {} =>
              \E a \in Range(topo) : isCritical(a) /\ earlyFinish(a) = projectFinish
        /\ \A a \in Activities : isCritical(a) =>
              \/ earlyStart[a] = 0
              \/ \E l \in Into(a) : isCritical(l.pred) /\ NotBefore(l) = earlyStart[a]

\* A link that holds back a critical activity leaves its predecessor no float
\* either, whichever ends it ties.
LEMMA CriticalBefore ==
  ASSUME Finished, NEW l \in links, ~inCycle(l.pred), ~inCycle(l.succ),
         totalFloat(l.succ) = 0, NotBefore(l) = earlyStart[l.succ]
  PROVE  lateStart(l.pred) <= earlyStart[l.pred]
<1>1. l.pred \in Range(topo) /\ l.succ \in Range(topo) /\ l \in Followed(l.pred)
  BY SortedLink
<1>2. lateFinish[l.pred] <= NotAfter(l)
  BY <1>1, FinishedDates DEF LateDone
<1>3. l.lag \in Int /\ l.type \in {"FS", "SS", "FF", "SF"}
  BY LinksTyped DEF Finished, SortInv
<1>4. \A a \in {l.pred, l.succ} :
         /\ duration[a] \in Nat /\ earlyStart[a] \in Nat /\ lateFinish[a] \in Int
         /\ earlyFinish(a) = earlyStart[a] + duration[a]
         /\ lateStart(a) = lateFinish[a] - duration[a]
  BY <1>1, FinishedDates
<1>5. lateStart(l.succ) = earlyStart[l.succ]
  BY <1>4 DEF totalFloat
<1>6. CASE l.type = "FS"
  BY <1>2, <1>3, <1>4, <1>5, <1>6 DEF NotBefore, NotAfter
<1>7. CASE l.type = "SS"
  BY <1>2, <1>3, <1>4, <1>5, <1>7 DEF NotBefore, NotAfter
<1>8. CASE l.type = "FF"
  BY <1>2, <1>3, <1>4, <1>5, <1>8 DEF NotBefore, NotAfter
<1>9. CASE l.type = "SF"
  BY <1>2, <1>3, <1>4, <1>5, <1>9 DEF NotBefore, NotAfter
<1>10. QED
  BY <1>3, <1>6, <1>7, <1>8, <1>9

\* No float is negative, an activity that ends with the project is critical, and
\* back from any critical activity a path of critical ones, each held back by the
\* one before, leads to a start on day 0: it leads down in topo, which is finite.
THEOREM PathIsCritical == CpmSpec => []CriticalPath
<1>1. SortInv /\ DatesInv => CriticalPath
  <2> SUFFICES ASSUME Finished
               PROVE  /\ \A a \in Range(topo) : totalFloat(a) >= 0
                      /\ Range(topo) # {} =>
                            \E a \in Range(topo) : isCritical(a) /\ earlyFinish(a) = projectFinish
                      /\ \A a \in Activities : isCritical(a) =>
                            \/ earlyStart[a] = 0
                            \/ \E l \in Into(a) : isCritical(l.pred) /\ NotBefore(l) = earlyStart[a]
    BY DEF CriticalPath, Finished
  <2>1. ASSUME NEW a \in Range(topo)
        PROVE  lateStart(a) \in Int /\ earlyStart[a] \in Int /\ earlyStart[a] <= lateStart(a)
    BY EarliestOnTime, LateMost, FinishedDates DEF Earliest
  <2>2. \A a \in Range(topo) : lateStart(a) <= earlyStart[a] => isCritical(a)
    BY <2>1 DEF isCritical, totalFloat, inCycle
  <2>3. ASSUME Range(topo) # {}
        PROVE  \E a \in Range(topo) : isCritical(a) /\ earlyFinish(a) = projectFinish
    <3>1. PICK a \in Range(topo) : earlyFinish(a) = projectFinish
      <4>1. CASE projectFinish = 0
        BY <2>3, <4>1, FinishedDates
      <4>2. CASE projectFinish # 0
        BY <4>2, ProjectEnds DEF Finished, DatesInv
      <4>3. QED
        BY <4>1, <4>2
    <3>2. lateStart(a) <= earlyStart[a]
      BY <3>1, FinishedDates DEF LateDone
    <3>3. QED
      BY <2>2, <3>1, <3>2
  <2>4. ASSUME NEW a \in Activities, isCritical(a), earlyStart[a] # 0
        PROVE  \E l \in Into(a) : isCritical(l.pred) /\ NotBefore(l) = earlyStart[a]
    <3>1. a \in Range(topo) /\ totalFloat(a) = 0
      BY <2>4 DEF isCritical, inCycle
    <3>2. PICK l \in Into(a) : NotBefore(l) = earlyStart[a]
      BY <2>4, <3>1, FinishedDates DEF EarlyDone
    <3>3. PICK k \in DOMAIN topo : topo[k] = a
      BY <3>1, TopoPlaces DEF Finished
    <3>4. l \in links /\ l.succ = a /\ ~inCycle(l.pred) /\ ~inCycle(l.succ)
      BY <3>1, <3>3, BeforeAndBehind DEF Finished, Into, inCycle
    <3>5. lateStart(l.pred) <= earlyStart[l.pred]
      BY <3>1, <3>2, <3>4, CriticalBefore
    <3>6. l.pred \in Range(topo)
      BY <3>4 DEF inCycle
    <3>7. QED
      BY <2>2, <3>2, <3>5, <3>6
  <2>5. QED
    BY <2>1, <2>3, <2>4 DEF totalFloat
<1>2. QED
  BY <1>1, SortInductive, DatesInductive, PTL
==============================================================================
