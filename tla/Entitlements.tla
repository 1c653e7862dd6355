----------------------------- MODULE Entitlements -----------------------------
(***************************************************************************)
(* What a buyer may expect of the AORMS platform: a captured payment buys  *)
(* its entitlement exactly once, and a licence payment adds a whole period *)
(* to what is left of the licence.  Payments implements it, see there.     *)
(***************************************************************************)
EXTENDS Integers

CONSTANTS Studios, Orders, BuyerOf, Period, MaxNow

VARIABLES
    now,
    paid,     \* orders captured at Razorpay
    granted,  \* orders whose entitlement was given
    expires   \* [Studios -> Nat], when the licence ends
vars == <<now, paid, granted, expires>>

Init ==
    /\ now = 1
    /\ paid = {} /\ granted = {}
    /\ expires = [s \in Studios |-> 0]

Tick == /\ now < MaxNow
        /\ now' = now + 1
        /\ UNCHANGED <<paid, granted, expires>>

Pay(o) == /\ o \notin paid
          /\ paid' = paid \cup {o}
          /\ UNCHANGED <<now, granted, expires>>

\* The instant the term counts from is one the clock has shown; it may be a
\* little in the past when the entitlement is written.
Extended(old, t) == (IF t > old THEN t ELSE old) + Period

GrantOrder(o) ==
    /\ o \in paid \ granted
    /\ granted' = granted \cup {o}
    /\ IF BuyerOf[o] \in Studios
       THEN \E t \in 1..now :
               expires' = [expires EXCEPT ![BuyerOf[o]] = Extended(@, t)]
       ELSE UNCHANGED expires
    /\ UNCHANGED <<now, paid>>

Next == Tick \/ \E o \in Orders : Pay(o) \/ GrantOrder(o)

Spec == Init /\ [][Next]_vars
FairSpec == Spec /\ \A o \in Orders : WF_vars(GrantOrder(o))
===============================================================================
