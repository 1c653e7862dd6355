------------------------------ MODULE MCPayments ------------------------------
(* Small instances of Payments for TLC.                                    *)
EXTENDS Payments, TLC

CONSTANTS o1, o2, s1, s2, a1, c1, r1, r2

MCPlanOf == [o \in Orders |-> "STUDIO"]

OneOrder == o1 :> s1                    \* a licence
TwoStudios == o1 :> s1 @@ o2 :> s2      \* licences of two studios
Renewal == o1 :> s1 @@ o2 :> s1         \* a licence bought twice
Mixed == o1 :> a1 @@ o2 :> c1           \* an identity and an onboarding

\* What createLicenceOrder sells.  The check constraint accepts it here; as
\* 0019_studio_pro_enterprise_tiers.sql leaves it, it does not.
CheckoutPlans == {"STUDIO", "PROFESSIONAL"}
StudioPlan == {"STUDIO"}

NoFaults == {}
CrashFaults == FaultKinds \ {"grantReply"}
SerialFaults == {"insert", "dedup", "claim", "read", "grant"}
\* No answer of a claim or of a lookup is lost, and what is undone is undone.
UndoneFaults == FaultKinds \ {"lookup", "claimReply", "release", "undedup", "crash"}
===============================================================================
