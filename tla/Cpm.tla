----------------------------------- MODULE Cpm -----------------------------------
(***************************************************************************)
(* The critical path of a project's milestones (web/lib/scheduling/cpm.ts):*)
(* a topological sort that leaves loops out, a forward pass for the early  *)
(* dates and a backward pass for the late ones.  A link ties the start or  *)
(* the finish of its successor to the start or the finish of its           *)
(* predecessor, with a lag that may be negative.                           *)
(***************************************************************************)
EXTENDS Integers, Sequences, FiniteSets, FiniteSetsExt, Functions

CONSTANTS
    Activities,
    Durations,    \* durations an activity may have, in days
    LinkSets,     \* the sets of links explored
    Horizon       \* bound: no chain of activities leads to a date beyond it

Links == [pred : Activities, succ : Activities, type : {"FS", "SS", "FF", "SF"},
          lag : Int]

\* A link to an activity that is not there is skipped, and updateMilestoneSchedule
\* refuses one of an activity to itself.  A project has so many rows of each.
ASSUME CpmAssumption ==
    /\ Durations \subseteq Nat
    /\ \A ls \in LinkSets : ls \subseteq Links /\ \A l \in ls : l.pred # l.succ
    /\ IsFiniteSet(Activities) /\ \A ls \in LinkSets : IsFiniteSet(ls)

\* No activity, with the lag before it, takes more days than the horizon has for
\* each: whatever the links, every date lies within it.
ASSUME HorizonAssumption ==
    /\ Horizon \in Nat
    /\ \E most \in 0..Horizon :
          /\ Cardinality(Activities) * most <= Horizon
          /\ \A n \in Durations :
                n <= most /\ \A ls \in LinkSets : \A l \in ls : n + l.lag <= most

VARIABLES
    duration, links,    \* the input
    phase,
    deg,                \* links that still hold an activity back
    queue,              \* activities that none holds back, not sorted yet
    topo,               \* the activities sorted
    at,                 \* how far the pass has come in topo
    earlyStart, lateFinish

input == <<duration, links>>
cpmVars == <<input, phase, deg, queue, topo, at, earlyStart, lateFinish>>

Into(a) == {l \in links : l.succ = a}
OutOf(a) == {l \in links : l.pred = a}

CpmInit ==
    /\ duration \in [Activities -> Durations]
    /\ links \in LinkSets
    /\ phase = "sort"
    /\ deg = [a \in Activities |-> Cardinality(Into(a))]
    /\ queue = {a \in Activities : Into(a) = {}}
    /\ topo = <<>>
    /\ at = 0
    /\ earlyStart = [a \in Activities |-> 0]
    /\ lateFinish = [a \in Activities |-> 0]

\* A variant with a longer name before a definition is a plausible mistake in
\* the same lines, which the properties must tell from the code.

inCycle(a) == a \notin Range(topo)

\* The queue is first in, first out in the order of the rows, which the database
\* leaves open for equal sort_order: any activity in it may be next.
VisitUncounted(a) ==
    /\ phase = "sort"
    /\ a \in queue
    /\ topo' = Append(topo, a)
    /\ deg' = [b \in Activities |-> deg[b] - Cardinality(OutOf(a) \cap Into(b))]
    /\ queue' = (queue \ {a}) \cup {b \in Activities : b # a /\ OutOf(a) \cap Into(b) # {}
                                      /\ \A k \in DOMAIN topo : topo[k] # b}
    /\ UNCHANGED <<input, phase, at, earlyStart, lateFinish>>

Visit(a) ==
    /\ phase = "sort"
    /\ a \in queue
    /\ topo' = Append(topo, a)
    /\ deg' = [b \in Activities |-> deg[b] - Cardinality(OutOf(a) \cap Into(b))]
    /\ queue' = (queue \ {a}) \cup {b \in Activities : deg[b] > 0 /\ deg'[b] = 0}
    /\ UNCHANGED <<input, phase, at, earlyStart, lateFinish>>

Sorted ==
    /\ phase = "sort"
    /\ queue = {}
    /\ phase' = "forward"
    /\ at' = 1
    /\ UNCHANGED <<input, deg, queue, topo, earlyStart, lateFinish>>

earlyFinish(a) == earlyStart[a] + duration[a]
lateStart(a) == lateFinish[a] - duration[a]
totalFloat(a) == lateStart(a) - earlyStart[a]
isCritical(a) == ~inCycle(a) /\ totalFloat(a) = 0
projectFinish == Max({0} \cup {earlyFinish(a) : a \in Range(topo)})

NotBefore(l) ==
    CASE l.type = "FS" -> earlyFinish(l.pred) + l.lag
      [] l.type = "SS" -> earlyStart[l.pred] + l.lag
      [] l.type = "FF" -> earlyFinish(l.pred) + l.lag - duration[l.succ]
      [] l.type = "SF" -> earlyStart[l.pred] + l.lag - duration[l.succ]

Forward ==
    /\ phase = "forward"
    /\ at <= Len(topo)
    /\ LET a == topo[at]
       IN  earlyStart' = [earlyStart EXCEPT ![a] =
              Max({0} \cup {NotBefore(l) : l \in {k \in Into(a) : ~inCycle(k.pred)}})]
    /\ at' = at + 1
    /\ UNCHANGED <<input, phase, deg, queue, topo, lateFinish>>

Turn ==
    /\ phase = "forward"
    /\ at > Len(topo)
    /\ phase' = "backward"
    /\ at' = Len(topo)
    /\ UNCHANGED <<input, deg, queue, topo, earlyStart, lateFinish>>

NotAfterFromStart(l) ==
    CASE l.type = "FS" -> lateStart(l.succ) - l.lag
      [] l.type = "SS" -> lateStart(l.succ) - l.lag
      [] l.type = "FF" -> lateFinish[l.succ] - l.lag
      [] l.type = "SF" -> lateFinish[l.succ] - l.lag

NotAfter(l) ==
    CASE l.type = "FS" -> lateStart(l.succ) - l.lag
      [] l.type = "SS" -> lateStart(l.succ) - l.lag + duration[l.pred]
      [] l.type = "FF" -> lateFinish[l.succ] - l.lag
      [] l.type = "SF" -> lateFinish[l.succ] - l.lag + duration[l.pred]

Backward ==
    /\ phase = "backward"
    /\ at > 0
    /\ LET a == topo[at]
       IN  lateFinish' = [lateFinish EXCEPT ![a] =
              Min({projectFinish}
                  \cup {NotAfter(l) : l \in {k \in OutOf(a) : ~inCycle(k.succ)}})]
    /\ at' = at - 1
    /\ UNCHANGED <<input, phase, deg, queue, topo, earlyStart>>

Finish ==
    /\ phase = "backward"
    /\ at = 0
    /\ phase' = "done"
    /\ UNCHANGED <<input, deg, queue, topo, at, earlyStart, lateFinish>>

CpmNext == (\E a \in Activities : Visit(a)) \/ Sorted \/ Forward \/ Turn \/ Backward \/ Finish

CpmSpec == CpmInit /\ [][CpmNext]_cpmVars

-------------------------------------------------------------------------------
(* Properties.                                                              *)

\* What is sorted leaves out the activities of loops and those that wait for
\* one, and nothing else: the largest set in which everyone waits for someone.
LoopsLeftOut ==
    phase = "done" =>
        Activities \ Range(topo) =
            UNION {s \in SUBSET Activities : \A a \in s : \E l \in Into(a) : l.pred \in s}

\* A schedule keeps every link between activities that are sorted.
Keeps(start, l) ==
    LET from == IF l.type \in {"FS", "FF"} THEN start[l.pred] + duration[l.pred]
                                           ELSE start[l.pred]
        to == IF l.type \in {"FF", "SF"} THEN start[l.succ] + duration[l.succ]
                                         ELSE start[l.succ]
    IN  to >= from + l.lag

Schedules ==
    {start \in [Range(topo) -> 0..Horizon] :
        \A l \in links : ~inCycle(l.pred) /\ ~inCycle(l.succ) => Keeps(start, l)}

\* The early dates are those of the schedule in which everything starts as soon
\* as it can, whatever mix of links and negative lags; the late dates those of
\* the one in which everything starts as late as the project can bear.
ScheduleExact ==
    phase = "done" =>
        LET all == Schedules
            finish == projectFinish
            onTime == {s \in all : \A a \in Range(topo) : s[a] + duration[a] <= finish}
        IN  \A a \in Range(topo) :
               /\ earlyStart[a] = Min({s[a] : s \in all})
               /\ lateStart(a) = Max({s[a] : s \in onTime})
===============================================================================
