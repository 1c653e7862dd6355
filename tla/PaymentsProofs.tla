---------------------------- MODULE PaymentsProofs ----------------------------
(***************************************************************************)
(* Payments, proved for every set of orders, buyers and requests and every *)
(* number of failures: the types, that a payment is granted at most once,  *)
(* that a captured row has been paid out or is about to be, that the       *)
(* quiet case implements Entitlements, that nothing paid for is left       *)
(* behind or answered with nobody at work on it, and that an applied       *)
(* onboarding fee makes its company active.                                *)
(***************************************************************************)
EXTENDS Payments, TLAPS

\* An idle request has no work, a running one has some, and what it works on
\* for Razorpay is something Razorpay reported.  Only a licence has an expiry
\* to read.
JobsOK ==
    \A p \in Requests :
        /\ pc[p] = "idle" <=> job[p] = NoJob
        /\ pc[p] # "idle" /\ job[p].via # "confirm" => job[p] \in events
        /\ pc[p] = "dedup" => job[p].via # "confirm"
        /\ pc[p] = "read" => IsLicence(job[p].order)

TypeInv == TypeOK /\ JobsOK

\* Only flaky orders have failed attempts, so only they are marked failed.
FailuresAreFlaky ==
    /\ \A o \in Orders \ Flaky : Failed(o) \notin events
    /\ \A p \in Requests :
          pc[p] = "markFailed" => job[p].via = "failed"

\* The claim on the row is a lock, and the grant makes it permanent.
OneHolder(o) ==
    \A p, q \in Requests : Holds(p, o) /\ Holds(q, o) => p = q
HolderFirst(o) ==
    \A p \in Requests : Holds(p, o) => row[o] = "CAPTURED" /\ grants[o] = 0
GrantLocks(o) == grants[o] = 0 \/ (grants[o] = 1 /\ row[o] = "CAPTURED")

ClaimIsLock ==
    \A o \in Orders \ Flaky : OneHolder(o) /\ HolderFirst(o) /\ GrantLocks(o)

LockInv == TypeInv /\ FailuresAreFlaky /\ ClaimIsLock
\* What the creation of an order does, wherever it stands: it writes the row.
OrderRow(o) ==
    /\ row[o] \in {"NONE", "CHECKED"}
    /\ \E status \in {"CHECKED", "CREATED", "REFUSED"} :
          row' = [row EXCEPT ![o] = status]
    /\ faults' \in {faults, faults + 1}
    /\ UNCHANGED <<now, entitlements, events, acked, dedup, confirmed,
                   pc, job, term, grants>>
-------------------------------------------------------------------------------
\* What TypeInv and an enabled step say of a request.
LEMMA JobTypes ==
    ASSUME TypeInv, NEW p \in Requests, pc[p] # "idle"
    PROVE  /\ job[p] \in Jobs
           /\ job[p].order \in Orders
           /\ job[p].via \in {"captured", "failed", "confirm"}
           /\ job[p] # NoJob
BY PaymentsAssumption DEF TypeInv, TypeOK, JobsOK, entitlements, Jobs, NoJob

\* The steps of Next, by the part of the state they write.
LEMMA NextSplit ==
    ASSUME Next
    PROVE  \/ Tick
           \/ \E s \in Studios : AdminUpdateLicence(s)
           \/ \E c \in Companies : CompanyStep(c)
           \/ \E o \in Orders : OrderRow(o) \/ FailAttempt(o) \/ Capture(o)
           \/ \E p \in Requests, e \in events : Deliver(p, e)
           \/ \E p \in Requests, o \in Orders,
                 B \in {Studios, Accounts, Companies} : Confirm(p, o, B)
           \/ \E p \in Requests : HandlerStep(p) \/ Crash(p)
<1>1. ASSUME NEW o \in Orders, OrderStep(o)
      PROVE  OrderRow(o) \/ FailAttempt(o) \/ Capture(o)
  <2>1. ASSUME NEW from \in {"NONE", "CHECKED"}, NEW ok, InsertRow(o, from, ok)
        PROVE  OrderRow(o)
    BY <2>1 DEF InsertRow, OrderRow, Works, Fault
  <2>2. ASSUME CheckBuyer(o) PROVE OrderRow(o)
    BY <2>2 DEF CheckBuyer, OrderRow
  <2>3. CASE CreateLicenceOrder(o)
    BY <2>1, <2>3 DEF CreateLicenceOrder
  <2>4. CASE CreateIdentityOrder(o) \/ CreateConnectDexOnboardingOrder(o)
    BY <2>1, <2>4 DEF CreateIdentityOrder, CreateConnectDexOnboardingOrder
  <2>5. CASE CheckIdentity(o) \/ CheckCompany(o)
    BY <2>2, <2>5 DEF CheckIdentity, CheckCompany
  <2>6. QED
    BY <1>1, <2>3, <2>4, <2>5 DEF OrderStep
<1>2. ASSUME NEW p \in Requests, BeginStep(p)
      PROVE  \/ \E e \in events : Deliver(p, e)
             \/ \E o \in Orders, B \in {Studios, Accounts, Companies} :
                   Confirm(p, o, B)
  BY <1>2 DEF BeginStep, ConfirmPaymentClientSide,
     ConfirmIdentityPaymentClientSide, ConfirmConnectDexPaymentClientSide
<1>3. QED
  BY <1>1, <1>2 DEF Next

\* The types are invariant.
THEOREM TypeStep == TypeInv /\ [Next]_vars => TypeInv'
<1> SUFFICES ASSUME TypeInv, [Next]_vars PROVE TypeInv'
  OBVIOUS
<1> USE PaymentsAssumption
<1>j. \A p \in Requests : pc[p] # "idle" =>
        /\ job[p] \in Jobs /\ job[p].order \in Orders
        /\ job[p].via \in {"captured", "failed", "confirm"} /\ job[p] # NoJob
  BY JobTypes
<1>l. \A o \in Orders : IsLicence(o) => BuyerOf[o] \in Studios
  BY DEF IsLicence
<1>1. CASE Tick
  BY <1>1 DEF TypeInv, TypeOK, JobsOK, entitlements, Tick
<1>2. ASSUME NEW s \in Studios, AdminUpdateLicence(s) PROVE TypeInv'
  BY <1>2 DEF TypeInv, TypeOK, JobsOK, entitlements, AdminUpdateLicence
<1>3. ASSUME NEW c \in Companies, CompanyStep(c) PROVE TypeInv'
  BY <1>3 DEF TypeInv, TypeOK, JobsOK, entitlements, CompanyStep, Onboard,
    SubmitConnectDexOnboardingForm, AdminVerifyConnectDexCompany,
    AdminActivateCompany, CompanyStatuses
<1>4. ASSUME NEW o \in Orders, OrderRow(o) PROVE TypeInv'
  BY <1>4 DEF TypeInv, TypeOK, JobsOK, entitlements, OrderRow, Statuses, Rowless
<1>5. ASSUME NEW o \in Orders, FailAttempt(o) PROVE TypeInv'
  BY <1>5 DEF TypeInv, TypeOK, JobsOK, entitlements, FailAttempt, Failed, Reports
<1>6. ASSUME NEW o \in Orders, Capture(o) PROVE TypeInv'
  BY <1>6 DEF TypeInv, TypeOK, JobsOK, entitlements, Capture, Captured, Reports
<1>7. ASSUME NEW p \in Requests, NEW e \in events, Deliver(p, e) PROVE TypeInv'
  <2>1. e \in Jobs /\ e # NoJob /\ e.via # "confirm"
    BY DEF TypeInv, TypeOK, Reports, Jobs, NoJob
  <2>2. QED
    BY <1>7, <2>1 DEF TypeInv, TypeOK, JobsOK, entitlements, Deliver, Begin, Steps
<1>8. ASSUME NEW p \in Requests, NEW o \in Orders, NEW B, Confirm(p, o, B) PROVE TypeInv'
  <2> DEFINE w == [via |-> "confirm", order |-> o]
  <2>1. w \in Jobs /\ w # NoJob /\ w.via = "confirm"
    BY DEF Jobs, NoJob
  <2>2. QED
    BY <1>8, <2>1 DEF TypeInv, TypeOK, JobsOK, entitlements, Confirm, Begin, Steps
<1>9. ASSUME NEW p \in Requests, Dedup(p) PROVE TypeInv'
  BY <1>9, <1>j DEF TypeInv, TypeOK, JobsOK, entitlements, Dedup, Works, Fault, Goto, Respond, Steps
<1>10. ASSUME NEW p \in Requests, Lookup(p) PROVE TypeInv'
  BY <1>10, <1>j DEF TypeInv, TypeOK, JobsOK, entitlements, Lookup, Works, Fault, Goto, Respond, Steps
<1>11. ASSUME NEW p \in Requests, Claim(p) PROVE TypeInv'
  BY <1>11, <1>j DEF TypeInv, TypeOK, JobsOK, entitlements, Claim, Claimable, Works, Fault, Goto, Respond, Steps, Statuses
<1>12. ASSUME NEW p \in Requests, ReadExpiry(p) PROVE TypeInv'
  <2>1. BuyerOf[job[p].order] \in Studios
    BY <1>12, <1>j, <1>l DEF TypeInv, JobsOK, ReadExpiry
  <2>2. NewExpiry(BuyerOf[job[p].order]) \in Nat
    BY <2>1 DEF TypeInv, TypeOK, NewExpiry, Later
  <2>3. term' \in [Requests -> Nat]
    BY <1>12, <2>2 DEF TypeInv, TypeOK, ReadExpiry
  <2>4. QED
    BY <1>12, <1>j, <2>3 DEF TypeInv, TypeOK, JobsOK, entitlements, ReadExpiry, Works, Fault, Goto, Steps
<1>13. ASSUME NEW p \in Requests, Grant(p) PROVE TypeInv'
  <2>1. job[p] \in Jobs /\ job[p].order \in Orders /\ job[p] # NoJob
        /\ (job[p].via # "confirm" => job[p] \in events)
    BY <1>13, <1>j DEF Grant, TypeInv, JobsOK
  <2>2. Goto(p, "release") \/ Respond(p, TRUE)
    BY <1>13 DEF Grant
  <2>3. /\ pc' \in [Requests -> Steps]
        /\ job' \in [Requests -> Jobs \cup {NoJob}]
        /\ acked' \subseteq events
    BY <2>1, <2>2 DEF Goto, Respond, Steps, TypeInv, TypeOK
  <2>4. UNCHANGED <<now, row, events, dedup, confirmed>>
    BY <1>13 DEF Grant
  <2>5. JobsOK'
    <3>1. ASSUME NEW q \in Requests, q # p
          PROVE  pc'[q] = pc[q] /\ job'[q] = job[q]
      BY <2>2, <3>1 DEF Goto, Respond, TypeInv, TypeOK
    <3>2. \/ pc'[p] = "release" /\ job'[p] = job[p]
          \/ pc'[p] = "idle" /\ job'[p] = NoJob
      BY <2>2 DEF Goto, Respond, TypeInv, TypeOK
    <3>3. QED
      BY <2>1, <2>4, <3>1, <3>2 DEF JobsOK, TypeInv, IsLicence
  <2>6. term' \in [Requests -> Nat] /\ faults' \in Nat
    <3>1. term' = [term EXCEPT ![p] = 0]
      BY <1>13 DEF Grant
    <3>2. faults' = faults \/ faults' = faults + 1
      BY <1>13 DEF Grant, Works, Fault
    <3>3. QED
      BY <3>1, <3>2 DEF TypeInv, TypeOK
  <2>7. CASE WriteEntitlement(p)
    <3>1. /\ licence' \in [Studios -> [plan : Plans \cup {"FREE"}, expires : Nat]]
          /\ verified' \subseteq Accounts
          /\ company' \in [Companies -> CompanyStatuses]
      BY <2>1, <2>7 DEF WriteEntitlement, WriteLicence, WriteIdentity, WriteCompany,
         CompanyStatuses, TypeInv, TypeOK
    <3>2. grants' \in [Orders -> Nat]
      BY <2>1, <2>7 DEF WriteEntitlement, TypeInv, TypeOK
    <3>3. QED
      BY <2>3, <2>4, <2>5, <2>6, <3>1, <3>2 DEF TypeInv, TypeOK
  <2>8. CASE UNCHANGED <<entitlements, grants>>
    BY <2>3, <2>4, <2>5, <2>6, <2>8 DEF TypeInv, TypeOK, entitlements
  <2>9. QED
    BY <1>13, <2>7, <2>8 DEF Grant
<1>14. ASSUME NEW p \in Requests, Release(p) PROVE TypeInv'
  BY <1>14, <1>j DEF TypeInv, TypeOK, JobsOK, entitlements, Release, Unclaim, Works, Fault, Goto, Steps, Statuses
<1>15. ASSUME NEW p \in Requests, Catch(p) PROVE TypeInv'
  BY <1>15, <1>j DEF TypeInv, TypeOK, JobsOK, entitlements, Catch, Forget, Works, Fault, Respond, Steps
<1>16. ASSUME NEW p \in Requests, MarkFailed(p) PROVE TypeInv'
  BY <1>16, <1>j DEF TypeInv, TypeOK, JobsOK, entitlements, MarkFailed, Works, Fault, Respond, Steps, Statuses
<1>17. ASSUME NEW p \in Requests, Crash(p) PROVE TypeInv'
  BY <1>17, <1>j DEF TypeInv, TypeOK, JobsOK, entitlements, Crash, Fault, Respond, Steps
<1>18. CASE UNCHANGED vars
  BY <1>18 DEF TypeInv, TypeOK, JobsOK, entitlements, vars
<1>19. QED
  BY <1>1, <1>2, <1>3, <1>4, <1>5, <1>6, <1>7, <1>8, <1>9, <1>10, <1>11,
     <1>12, <1>13, <1>14, <1>15, <1>16, <1>17, <1>18, NextSplit DEF HandlerStep

\* Every value a variable takes is of its type.
THEOREM TypeCorrect == Spec => []TypeOK
<1>1. Init => TypeInv
  BY PaymentsAssumption
  DEF Init, TypeInv, TypeOK, JobsOK, Statuses, Rowless, Steps, Unlicensed, CompanyStatuses, NoJob
<1>2. TypeInv => TypeOK
  BY DEF TypeInv
<1>3. QED
  BY <1>1, <1>2, TypeStep, PTL DEF Spec
-------------------------------------------------------------------------------
\* The lock on a row: what each step does to it, for one order that never had
\* a failed attempt.
LEMMA LockStep ==
    ASSUME LockInv, [Next]_vars, "grantReply" \notin Faults
    PROVE  FailuresAreFlaky' /\ ClaimIsLock'
<1> USE PaymentsAssumption
<1>t. TypeInv /\ FailuresAreFlaky /\ ClaimIsLock
  BY DEF LockInv
<1>j. \A p \in Requests : pc[p] # "idle" => job[p] \in Jobs /\ job[p] # NoJob
  BY <1>t, JobTypes
<1>k. ASSUME UNCHANGED <<row, grants, events, pc, job>>
      PROVE  FailuresAreFlaky' /\ ClaimIsLock'
  BY <1>t, <1>k DEF FailuresAreFlaky, ClaimIsLock, OneHolder, HolderFirst,
                    GrantLocks, Holds, Works_on
<1>0. CASE Tick \/ UNCHANGED vars
  BY <1>0, <1>k DEF Tick, vars, entitlements
<1>2. ASSUME NEW s \in Studios, AdminUpdateLicence(s)
      PROVE  FailuresAreFlaky' /\ ClaimIsLock'
  BY <1>2, <1>k DEF AdminUpdateLicence
<1>3. ASSUME NEW c \in Companies, CompanyStep(c)
      PROVE  FailuresAreFlaky' /\ ClaimIsLock'
  BY <1>3, <1>k DEF CompanyStep, Onboard, SubmitConnectDexOnboardingForm,
    AdminVerifyConnectDexCompany, AdminActivateCompany
<1>4. ASSUME NEW o \in Orders, OrderRow(o)
      PROVE  FailuresAreFlaky' /\ ClaimIsLock'
  BY <1>t, <1>4
  DEF FailuresAreFlaky, ClaimIsLock, OneHolder, HolderFirst, GrantLocks,
      Holds, Works_on, OrderRow, TypeInv, TypeOK
<1>5. ASSUME NEW o \in Orders, FailAttempt(o)
      PROVE  FailuresAreFlaky' /\ ClaimIsLock'
  BY <1>t, <1>5
  DEF FailuresAreFlaky, ClaimIsLock, OneHolder, HolderFirst, GrantLocks,
      Holds, Works_on, FailAttempt, Failed
<1>6. ASSUME NEW o \in Orders, Capture(o)
      PROVE  FailuresAreFlaky' /\ ClaimIsLock'
  BY <1>t, <1>6
  DEF FailuresAreFlaky, ClaimIsLock, OneHolder, HolderFirst, GrantLocks,
      Holds, Works_on, Capture, Captured, Failed
<1>7. ASSUME NEW p \in Requests, NEW e \in events, Deliver(p, e)
      PROVE  FailuresAreFlaky' /\ ClaimIsLock'
  BY <1>t, <1>7
  DEF FailuresAreFlaky, ClaimIsLock, OneHolder, HolderFirst, GrantLocks,
      Holds, Works_on, Deliver, Begin, TypeInv, TypeOK
<1>8. ASSUME NEW p \in Requests, NEW o \in Orders, NEW B, Confirm(p, o, B)
      PROVE  FailuresAreFlaky' /\ ClaimIsLock'
  BY <1>t, <1>8
  DEF FailuresAreFlaky, ClaimIsLock, OneHolder, HolderFirst, GrantLocks,
      Holds, Works_on, Confirm, Begin, TypeInv, TypeOK
<1>9. ASSUME NEW p \in Requests, Dedup(p)
      PROVE  FailuresAreFlaky' /\ ClaimIsLock'
  BY <1>t, <1>9, <1>j
  DEF FailuresAreFlaky, ClaimIsLock, OneHolder, HolderFirst, GrantLocks,
      Holds, Works_on, Dedup, Goto, Respond, TypeInv, TypeOK
<1>10. ASSUME NEW p \in Requests, Lookup(p)
       PROVE  FailuresAreFlaky' /\ ClaimIsLock'
  <2>1. \A q \in Requests, o \in Orders : Holds(q, o)' => Holds(q, o)
    BY <1>t, <1>10, <1>j
    DEF Holds, Works_on, Lookup, Goto, Respond, TypeInv, TypeOK, NoJob
  <2>2. FailuresAreFlaky'
    BY <1>t, <1>10
    DEF FailuresAreFlaky, Lookup, Goto, Respond, TypeInv, TypeOK
  <2>3. UNCHANGED <<row, grants>>
    BY <1>10 DEF Lookup
  <2>4. QED
    BY <1>t, <2>1, <2>2, <2>3
    DEF ClaimIsLock, OneHolder, HolderFirst, GrantLocks
<1>11. ASSUME NEW p \in Requests, Claim(p)
       PROVE  FailuresAreFlaky' /\ ClaimIsLock'
  \* The one step that takes the lock: on a row nobody holds, for a holder
  \* would have left it CAPTURED.
  BY <1>t, <1>11, <1>j
  DEF FailuresAreFlaky, ClaimIsLock, OneHolder, HolderFirst, GrantLocks,
      Holds, Works_on, Claim, Claimable, Goto, Respond, TypeInv, TypeOK
<1>12. ASSUME NEW p \in Requests, ReadExpiry(p)
       PROVE  FailuresAreFlaky' /\ ClaimIsLock'
  BY <1>t, <1>12, <1>j
  DEF FailuresAreFlaky, ClaimIsLock, OneHolder, HolderFirst, GrantLocks,
      Holds, Works_on, ReadExpiry, Goto, TypeInv, TypeOK
<1>13. ASSUME NEW p \in Requests, Grant(p)
       PROVE  FailuresAreFlaky' /\ ClaimIsLock'
  <2> DEFINE o == job[p].order
  <2>1. \A q \in Requests, x \in Orders : Holds(q, x)' => Holds(q, x)
    BY <1>t, <1>13, <1>j
    DEF Holds, Works_on, Grant, Goto, Respond, TypeInv, TypeOK, NoJob
  <2>2. FailuresAreFlaky'
    BY <1>t, <1>13
    DEF FailuresAreFlaky, Grant, Goto, Respond, TypeInv, TypeOK
  <2>3. UNCHANGED row /\ Holds(p, o)
    BY <1>13 DEF Grant, Holds, Works_on
  <2>4. CASE UNCHANGED grants
    BY <1>t, <2>1, <2>2, <2>3, <2>4
    DEF ClaimIsLock, OneHolder, HolderFirst, GrantLocks
  \* The holder lets go, and was the only one.
  <2>5. CASE WriteEntitlement(p) /\ Respond(p, TRUE)
    <3>1. ~ Holds(p, o)'
      BY <1>t, <2>5 DEF Holds, Respond, TypeInv, TypeOK
    <3>2. grants' = [grants EXCEPT ![o] = @ + 1]
      BY <2>5 DEF WriteEntitlement
    <3>3. ASSUME NEW x \in Orders \ Flaky
          PROVE  OneHolder(x)' /\ HolderFirst(x)' /\ GrantLocks(x)'
      <4>1. CASE x = o
        <5>1. \A q \in Requests : ~ Holds(q, x)'
          <6>1. Holds(p, x) /\ ~ Holds(p, x)'
            BY <2>3, <3>1, <4>1 DEF Holds, Works_on
          <6>2. QED
            BY <1>t, <2>1, <6>1 DEF ClaimIsLock, OneHolder
        <5>2. grants[x] = 0 /\ row[x] = "CAPTURED"
          BY <1>t, <2>3, <4>1 DEF ClaimIsLock, HolderFirst, Holds, Works_on
        <5>3. grants'[x] = 1
          BY <1>t, <3>2, <4>1, <5>2 DEF TypeInv, TypeOK
        <5>4. QED
          BY <2>3, <5>1, <5>2, <5>3 DEF OneHolder, HolderFirst, GrantLocks
      <4>2. CASE x # o
        <5>1. grants'[x] = grants[x]
          BY <1>t, <3>2, <4>2 DEF TypeInv, TypeOK
        <5>2. QED
          BY <1>t, <2>1, <2>3, <5>1
          DEF ClaimIsLock, OneHolder, HolderFirst, GrantLocks
      <4>3. QED
        BY <4>1, <4>2
    <3>4. QED
      BY <2>2, <3>3 DEF ClaimIsLock
  <2>6. QED
    BY <1>13, <2>4, <2>5 DEF Grant, Fault
<1>14. ASSUME NEW p \in Requests, Release(p)
       PROVE  FailuresAreFlaky' /\ ClaimIsLock'
  BY <1>t, <1>14, <1>j
  DEF FailuresAreFlaky, ClaimIsLock, OneHolder, HolderFirst, GrantLocks,
      Holds, Works_on, Release, Unclaim, Goto, TypeInv, TypeOK
<1>15. ASSUME NEW p \in Requests, Catch(p)
       PROVE  FailuresAreFlaky' /\ ClaimIsLock'
  BY <1>t, <1>15, <1>j
  DEF FailuresAreFlaky, ClaimIsLock, OneHolder, HolderFirst, GrantLocks,
      Holds, Works_on, Catch, Respond, TypeInv, TypeOK
<1>16. ASSUME NEW p \in Requests, MarkFailed(p)
       PROVE  FailuresAreFlaky' /\ ClaimIsLock'
  \* Only the row of a flaky order is overwritten.
  <2>1. job[p].order \in Flaky
    BY <1>t, <1>16, <1>j
    DEF MarkFailed, FailuresAreFlaky, TypeInv, JobsOK, Jobs, Failed
  <2>2. QED
    BY <1>t, <1>16, <1>j, <2>1
    DEF FailuresAreFlaky, ClaimIsLock, OneHolder, HolderFirst, GrantLocks,
        Holds, Works_on, MarkFailed, Respond, TypeInv, TypeOK
<1>17. ASSUME NEW p \in Requests, Crash(p)
       PROVE  FailuresAreFlaky' /\ ClaimIsLock'
  BY <1>t, <1>17, <1>j
  DEF FailuresAreFlaky, ClaimIsLock, OneHolder, HolderFirst, GrantLocks,
      Holds, Works_on, Crash, Respond, TypeInv, TypeOK
<1>18. QED
  BY <1>0, <1>2, <1>3, <1>4, <1>5, <1>6, <1>7, <1>8, <1>9, <1>10, <1>11,
     <1>12, <1>13, <1>14, <1>15, <1>16, <1>17, NextSplit DEF HandlerStep

\* A payment buys its entitlement at most once, whatever the number of
\* deliveries, confirmations, crashes and failed database calls.
THEOREM GrantedOnce == Spec => []GrantOnce
<1>1. CASE "grantReply" \in Faults
  <2>1. GrantOnce
    BY <1>1 DEF GrantOnce
  <2>2. QED
    BY <2>1, PTL
<1>2. CASE "grantReply" \notin Faults
  <2>1. Init => LockInv
    BY PaymentsAssumption
    DEF Init, LockInv, TypeInv, TypeOK, JobsOK, Statuses, Rowless, Steps, Unlicensed, CompanyStatuses,
        NoJob, FailuresAreFlaky, ClaimIsLock, OneHolder, HolderFirst,
        GrantLocks, Holds
  <2>2. LockInv /\ [Next]_vars => LockInv'
    BY <1>2, LockStep, TypeStep DEF LockInv
  <2>3. LockInv => GrantOnce
    BY DEF LockInv, TypeInv, TypeOK, ClaimIsLock, GrantLocks, GrantOnce
  <2>4. QED
    BY <2>1, <2>2, <2>3, PTL DEF Spec
<1>3. QED
  BY <1>1, <1>2
-------------------------------------------------------------------------------
\* CapturedMeansGranted is inductive: only a claim writes CAPTURED, and a holder
\* leaves by a grant or by taking CAPTURED back.
PaidOut(o) == grants[o] > 0 \/ \E p \in Requests : Holds(p, o)
CapturedPaidOut == \A o \in Orders : row[o] = "CAPTURED" => PaidOut(o)

LEMMA PaidOutStep ==
    ASSUME TypeInv, CapturedPaidOut, [Next]_vars,
           Faults \cap {"claimReply", "release", "crash"} = {}
    PROVE  CapturedPaidOut'
<1> USE PaymentsAssumption
<1>j. \A p \in Requests : pc[p] # "idle" => job[p] \in Jobs /\ job[p] # NoJob
  BY JobTypes
<1>t. grants \in [Orders -> Nat] /\ grants' \in [Orders -> Nat]
  BY TypeStep DEF TypeInv, TypeOK
<1>g. ASSUME \A o \in Orders : row'[o] = "CAPTURED" => row[o] = "CAPTURED",
             \A o \in Orders : grants'[o] >= grants[o],
             \A o \in Orders, q \in Requests : Holds(q, o) => Holds(q, o)'
      PROVE  CapturedPaidOut'
  <2>1. ASSUME NEW o \in Orders, row'[o] = "CAPTURED" PROVE PaidOut(o)'
    <3>1. PaidOut(o) /\ grants'[o] >= grants[o]
      BY <1>g, <2>1 DEF CapturedPaidOut
    <3>2. QED
      BY <1>t, <1>g, <3>1 DEF PaidOut
  <2>2. QED
    BY <2>1 DEF CapturedPaidOut
<1>1. CASE UNCHANGED <<row, grants, pc, job>>
  BY <1>1 DEF CapturedPaidOut, PaidOut, Holds, Works_on
<1>2. CASE Tick \/ UNCHANGED vars
           \/ (\E s \in Studios : AdminUpdateLicence(s))
           \/ (\E c \in Companies : CompanyStep(c))
           \/ (\E o \in Orders : FailAttempt(o) \/ Capture(o))
  BY <1>1, <1>2 DEF Tick, vars, entitlements, AdminUpdateLicence, CompanyStep, Onboard,
    SubmitConnectDexOnboardingForm, AdminVerifyConnectDexCompany, AdminActivateCompany,
                    FailAttempt, Capture
<1>3. ASSUME NEW o \in Orders, OrderRow(o) PROVE CapturedPaidOut'
  BY <1>3, <1>g DEF OrderRow, Holds, Works_on, TypeInv, TypeOK
<1>4. ASSUME NEW p \in Requests,
             (\E e \in events : Deliver(p, e)) \/ (\E o \in Orders, B \in {Studios, Accounts, Companies} : Confirm(p, o, B))
      PROVE  CapturedPaidOut'
  BY <1>4, <1>g DEF Deliver, Confirm, Begin, Holds, Works_on, TypeInv, TypeOK
<1>5. ASSUME NEW p \in Requests, Dedup(p) \/ Lookup(p) \/ ReadExpiry(p) \/ Catch(p)
      PROVE  CapturedPaidOut'
  <2>1. UNCHANGED <<row, grants>>
    BY <1>5 DEF Dedup, Lookup, ReadExpiry, Catch
  <2>2. \A o \in Orders, q \in Requests : Holds(q, o) => Holds(q, o)'
    <3>1. CASE Dedup(p)
      BY <3>1 DEF Dedup, Goto, Respond, Holds, Works_on, TypeInv, TypeOK
    <3>2. CASE Lookup(p)
      BY <3>2 DEF Lookup, Goto, Respond, Holds, Works_on, TypeInv, TypeOK
    <3>3. CASE ReadExpiry(p)
      BY <3>3 DEF ReadExpiry, Goto, Holds, Works_on, TypeInv, TypeOK
    <3>4. CASE Catch(p)
      BY <3>4 DEF Catch, Respond, Holds, Works_on, TypeInv, TypeOK
    <3>5. QED
      BY <1>5, <3>1, <3>2, <3>3, <3>4
  <2>3. QED
    BY <1>g, <2>1, <2>2 DEF TypeInv, TypeOK
<1>6. ASSUME NEW p \in Requests, Claim(p) PROVE CapturedPaidOut'
  <2> DEFINE x == job[p].order
  <2>1. UNCHANGED grants
    BY <1>6 DEF Claim
  <2>2. \A o \in Orders, q \in Requests : Holds(q, o) => Holds(q, o)'
    BY <1>6 DEF Claim, Goto, Respond, Holds, Works_on, TypeInv, TypeOK
  <2>3. CASE UNCHANGED row
    BY <1>g, <2>1, <2>2, <2>3 DEF TypeInv, TypeOK
  <2>4. CASE /\ row' = [row EXCEPT ![x] = "CAPTURED"]
             /\ Goto(p, IF IsLicence(x) THEN "read" ELSE "grant")
    <3>1. Holds(p, x)'
      BY <1>6, <2>4 DEF Claim, Goto, Holds, Works_on, TypeInv, TypeOK
    <3>2. \A o \in Orders : o # x => row'[o] = row[o]
      BY <2>4 DEF TypeInv, TypeOK
    <3>3. ASSUME NEW o \in Orders, row'[o] = "CAPTURED" PROVE PaidOut(o)'
      <4>1. CASE o = x
        <5>1. Holds(p, o)'
          BY <2>4, <3>1, <4>1 DEF Goto, Holds, Works_on
        <5>2. QED
          BY <5>1 DEF PaidOut
      <4>2. CASE o # x
        BY <2>1, <2>2, <3>2, <3>3, <4>2 DEF CapturedPaidOut, PaidOut
      <4>3. QED
        BY <4>1, <4>2
    <3>4. QED
      BY <3>3 DEF CapturedPaidOut
  <2>5. QED
    <3>1. ~ Fault("claimReply")
      BY DEF Fault
    <3>2. QED
      BY <1>6, <2>3, <2>4, <3>1 DEF Claim, Claimable
<1>7. ASSUME NEW p \in Requests, Grant(p) PROVE CapturedPaidOut'
  <2> DEFINE x == job[p].order
  <2>1. UNCHANGED row
    BY <1>7 DEF Grant
  <2>2. CASE WriteEntitlement(p)
    <3>1. grants' = [grants EXCEPT ![x] = @ + 1]
      BY <2>2 DEF WriteEntitlement
    <3>2. \A o \in Orders : grants'[o] = IF o = x THEN grants[o] + 1 ELSE grants[o]
      BY <3>1 DEF TypeInv, TypeOK
    <3>3. \A o \in Orders, q \in Requests : Holds(q, o) /\ o # x => Holds(q, o)'
      BY <1>7 DEF Grant, Goto, Respond, Holds, Works_on, TypeInv, TypeOK
    <3>4. QED
      BY <2>1, <3>2, <3>3 DEF CapturedPaidOut, PaidOut, TypeInv, TypeOK
  <2>3. CASE UNCHANGED grants /\ Goto(p, "release")
    <3>1. \A o \in Orders, q \in Requests : Holds(q, o) => Holds(q, o)'
      BY <2>3 DEF Goto, Holds, Works_on, TypeInv, TypeOK
    <3>2. QED
      BY <1>g, <2>1, <2>3, <3>1 DEF TypeInv, TypeOK
  <2>4. QED
    BY <1>7, <2>2, <2>3 DEF Grant
<1>8. ASSUME NEW p \in Requests, Release(p) PROVE CapturedPaidOut'
  <2> DEFINE x == job[p].order
  <2>1. row' = [row EXCEPT ![x] = "AUTHORIZED"] /\ UNCHANGED grants
    BY <1>8 DEF Release, Unclaim, Fault
  <2>2. \A o \in Orders, q \in Requests : Holds(q, o) /\ o # x => Holds(q, o)'
    BY <1>8 DEF Release, Goto, Holds, Works_on, TypeInv, TypeOK
  <2>3. ASSUME NEW o \in Orders, row'[o] = "CAPTURED" PROVE PaidOut(o)'
    <3>1. o # x /\ row[o] = "CAPTURED"
      BY <2>1, <2>3 DEF TypeInv, TypeOK
    <3>2. QED
      BY <2>1, <2>2, <3>1 DEF CapturedPaidOut, PaidOut
  <2>4. QED
    BY <2>3 DEF CapturedPaidOut
<1>9. ASSUME NEW p \in Requests, MarkFailed(p) PROVE CapturedPaidOut'
  <2>1. \A o \in Orders, q \in Requests : Holds(q, o) => Holds(q, o)'
    BY <1>9 DEF MarkFailed, Respond, Holds, Works_on, TypeInv, TypeOK
  <2>2. QED
    BY <1>9, <1>g, <2>1 DEF MarkFailed, TypeInv, TypeOK
<1>10. ASSUME NEW p \in Requests, Crash(p) PROVE CapturedPaidOut'
  BY <1>10 DEF Crash, Fault
<1>11. QED
  BY <1>2, <1>3, <1>4, <1>5, <1>6, <1>7, <1>8, <1>9, <1>10, NextSplit DEF HandlerStep

\* No captured row is left behind unpaid, as long as a claim is not orphaned by
\* a lost answer, a failed release or a crash.
THEOREM CapturedIsGranted == Spec => []CapturedMeansGranted
<1>1. CASE Faults \cap {"claimReply", "release", "crash"} # {}
  <2>1. CapturedMeansGranted
    BY <1>1 DEF CapturedMeansGranted
  <2>2. QED
    BY <2>1, PTL
<1>2. CASE Faults \cap {"claimReply", "release", "crash"} = {}
  <2> DEFINE Inv == TypeInv /\ CapturedPaidOut
  <2>1. Init => Inv
    BY PaymentsAssumption
    DEF Init, TypeInv, TypeOK, JobsOK, Statuses, Rowless, Steps, Unlicensed, CompanyStatuses, NoJob,
        CapturedPaidOut
  <2>2. Inv /\ [Next]_vars => Inv'
    BY <1>2, PaidOutStep, TypeStep
  <2>3. Inv => CapturedMeansGranted
    BY DEF CapturedPaidOut, PaidOut, CapturedMeansGranted
  <2> HIDE DEF Inv
  <2>4. QED
    BY <2>1, <2>2, <2>3, PTL DEF Spec
<1>3. QED
  BY <1>1, <1>2

-------------------------------------------------------------------------------
(***************************************************************************)
(* Payments implements Entitlements: where no attempt of an order fails,   *)
(* no write is reported as an error after it happened, no administrator    *)
(* overwrites licences and no two requests work for one studio, either     *)
(* because it has one order or because they run one at a time, every       *)
(* step of the requests is a step of the simple machine that grants each   *)
(* captured payment once, or changes nothing a buyer can see.              *)
(***************************************************************************)

OneOrderPerStudio ==
    \A o, x \in Orders : IsLicence(o) /\ BuyerOf[o] = BuyerOf[x] => o = x

OneAtATime == \A p, q \in Requests : p = q

Quiet == /\ "grantReply" \notin Faults
         /\ Flaky = {} /\ AdminTerms = {}
         /\ OneOrderPerStudio \/ OneAtATime

\* Requests work on captured payments only.
WorkIsPaid == \A p \in Requests : pc[p] # "idle" => job[p].order \in Paid

\* The new expiry a request is about to write still is one that extends the
\* licence as it stands: nobody else writes it between the read and the write.
TermFits ==
    \A p \in Requests :
        pc[p] = "grant" /\ IsLicence(job[p].order) =>
            \E t \in 1..now :
                term[p] = Sold!Extended(licence[BuyerOf[job[p].order]].expires, t)

RefInv == LockInv /\ now >= 1 /\ WorkIsPaid /\ TermFits
-------------------------------------------------------------------------------
\* What a running request works on: what it did before, or what it was called
\* with.
LEMMA WorkBegins ==
    ASSUME TypeInv, Next, NEW p \in Requests, pc'[p] # "idle"
    PROVE  \/ pc[p] # "idle" /\ job'[p] = job[p]
           \/ \E e \in events : job'[p] = e
           \/ \E o \in Paid : job'[p] = [via |-> "confirm", order |-> o]
<1>1. CASE UNCHANGED <<pc, job>>
  BY <1>1
<1>2. CASE \/ Tick
           \/ \E s \in Studios : AdminUpdateLicence(s)
           \/ \E c \in Companies : CompanyStep(c)
           \/ \E o \in Orders : OrderRow(o) \/ FailAttempt(o) \/ Capture(o)
  BY <1>1, <1>2 DEF Tick, AdminUpdateLicence, CompanyStep, Onboard,
     SubmitConnectDexOnboardingForm, AdminVerifyConnectDexCompany,
     AdminActivateCompany, OrderRow, FailAttempt, Capture
<1>3. ASSUME NEW q \in Requests, NEW e \in events, Deliver(q, e)
      PROVE  \/ pc[p] # "idle" /\ job'[p] = job[p]
             \/ job'[p] = e
  BY <1>3 DEF Deliver, Begin, TypeInv, TypeOK
<1>4. ASSUME NEW q \in Requests, NEW o \in Orders, NEW B, Confirm(q, o, B)
      PROVE  \/ pc[p] # "idle" /\ job'[p] = job[p]
             \/ o \in Paid /\ job'[p] = [via |-> "confirm", order |-> o]
  BY <1>4 DEF Confirm, Begin, TypeInv, TypeOK
<1>5. ASSUME NEW q \in Requests, HandlerStep(q) \/ Crash(q)
      PROVE  pc[p] # "idle" /\ job'[p] = job[p]
  <2>1. pc[q] # "idle"
    BY <1>5 DEF HandlerStep, Crash, Dedup, Lookup, Claim, ReadExpiry, Grant,
       Release, Catch, MarkFailed
  <2>2. \/ \E step \in Steps : Goto(q, step)
        \/ \E ok \in BOOLEAN : Respond(q, ok)
    <3>1. CASE Dedup(q) \/ Lookup(q)
      BY <3>1 DEF Dedup, Lookup, Steps
    <3>2. CASE Claim(q) \/ ReadExpiry(q)
      BY <3>2 DEF Claim, ReadExpiry, Steps
    <3>3. CASE Grant(q) \/ Release(q)
      BY <3>3 DEF Grant, Release, Steps
    <3>4. CASE Catch(q) \/ MarkFailed(q) \/ Crash(q)
      BY <3>4 DEF Catch, MarkFailed, Crash
    <3>5. QED
      BY <1>5, <3>1, <3>2, <3>3, <3>4 DEF HandlerStep
  <2>3. QED
    BY <2>1, <2>2 DEF Goto, Respond, TypeInv, TypeOK
<1>6. QED
  BY <1>2, <1>3, <1>4, <1>5, NextSplit

LEMMA WorkStep ==
    ASSUME RefInv, Quiet, Next
    PROVE  WorkIsPaid'
<1> USE PaymentsAssumption
<1>t. TypeInv /\ TypeInv' /\ LockInv' /\ FailuresAreFlaky /\ FailuresAreFlaky'
  BY TypeStep, LockStep DEF RefInv, LockInv, Quiet
<1>1. events \subseteq events'
  BY NextSplit DEF Tick, AdminUpdateLicence, CompanyStep, Onboard,
     SubmitConnectDexOnboardingForm, AdminVerifyConnectDexCompany,
     AdminActivateCompany, OrderRow, FailAttempt, Capture, Deliver, Confirm,
     Begin, HandlerStep, Dedup, Lookup, Claim, ReadExpiry, Grant, Release,
     Catch, MarkFailed, Crash
<1>2. Paid \subseteq Paid'
  BY <1>1 DEF Paid
<1>3. ASSUME NEW p \in Requests, pc'[p] # "idle" PROVE job'[p].order \in Paid'
  <2>1. CASE job'[p].via # "confirm"
    <3>1. job'[p] \in events' /\ job'[p] \in Jobs /\ job'[p].via # "none"
      BY <1>t, <1>3, <2>1 DEF TypeInv, TypeOK, JobsOK, NoJob, Jobs
    <3>2. job'[p].via # "failed"
      BY <1>t, <3>1 DEF FailuresAreFlaky, Quiet, Failed, Jobs
    <3>3. job'[p] = Captured(job'[p].order)
      BY <2>1, <3>1, <3>2 DEF Jobs, Captured
    <3>4. QED
      BY <3>1, <3>3 DEF Paid, Jobs, Captured
  <2>2. CASE job'[p].via = "confirm" /\ job'[p] = job[p] /\ pc[p] # "idle"
    BY <1>2, <2>2 DEF RefInv, WorkIsPaid
  <2>3. CASE \E e \in events : job'[p] = e
    BY <2>1, <2>3 DEF Reports, RefInv, LockInv, TypeInv, TypeOK
  <2>4. CASE \E o \in Paid : job'[p] = [via |-> "confirm", order |-> o]
    BY <1>2, <2>4
  <2>5. CASE pc[p] # "idle" /\ job'[p] = job[p]
    BY <2>1, <2>2, <2>5
  <2>6. QED
    BY <1>t, <1>3, <2>3, <2>4, <2>5, WorkBegins
<1>4. QED
  BY <1>3 DEF WorkIsPaid

LEMMA TermStep ==
    ASSUME RefInv, Quiet, Next
    PROVE  TermFits' /\ now' >= 1
<1> USE PaymentsAssumption
<1>t. TypeInv /\ ClaimIsLock /\ Flaky = {} /\ now \in Nat /\ now >= 1
  BY DEF RefInv, LockInv, TypeInv, TypeOK, Quiet
<1> DEFINE Waits(q) == pc[q] = "grant" /\ IsLicence(job[q].order)
           Old(q) == licence[BuyerOf[job[q].order]].expires
\* Enough: whoever waits to write already did, and its studio's licence is
\* as it was.
<1>f. ASSUME now' >= now, now' \in Nat,
             \A q \in Requests : Waits(q)' =>
                Waits(q) /\ job'[q] = job[q] /\ term'[q] = term[q] /\ Old(q)' = Old(q)
      PROVE  TermFits' /\ now' >= 1
  BY <1>t, <1>f DEF RefInv, TermFits, Sold!Extended
<1>1. CASE UNCHANGED <<pc, job, term, licence>> /\ now' >= now /\ now' \in Nat
  BY <1>1, <1>f
<1>2. CASE \/ Tick
           \/ \E c \in Companies : CompanyStep(c)
           \/ \E o \in Orders : OrderRow(o) \/ FailAttempt(o) \/ Capture(o)
  BY <1>1, <1>2, <1>t DEF Tick, CompanyStep, Onboard,
     SubmitConnectDexOnboardingForm, AdminVerifyConnectDexCompany,
     AdminActivateCompany, OrderRow, FailAttempt, Capture, entitlements
<1>3. ASSUME NEW s \in Studios, AdminUpdateLicence(s) PROVE FALSE
  BY <1>3 DEF AdminUpdateLicence, Quiet
<1>4. ASSUME NEW p \in Requests,
             \/ \E e \in events : Deliver(p, e)
             \/ \E o \in Orders, B \in {Studios, Accounts, Companies} : Confirm(p, o, B)
      PROVE  TermFits' /\ now' >= 1
  <2>1. UNCHANGED <<now, term, licence>>
    BY <1>4 DEF Deliver, Confirm, Begin, entitlements
  <2>2. \A q \in Requests : pc'[q] = "grant" => pc[q] = "grant" /\ job'[q] = job[q]
    BY <1>4, <1>t DEF Deliver, Confirm, Begin, TypeInv, TypeOK
  <2>3. QED
    BY <1>t, <1>f, <2>1, <2>2
<1>5. ASSUME NEW p \in Requests,
             \/ Dedup(p) \/ Lookup(p) \/ Claim(p) \/ Release(p) \/ Catch(p)
             \/ MarkFailed(p) \/ Crash(p)
      PROVE  TermFits' /\ now' >= 1
  <2>1. UNCHANGED <<now, licence>> /\ (UNCHANGED term \/ Crash(p))
    BY <1>5 DEF Dedup, Lookup, Claim, Release, Catch, MarkFailed, Crash, entitlements
  <2>2. \A q \in Requests : Waits(q)' =>
           Waits(q) /\ job'[q] = job[q] /\ (q = p => ~ Crash(p))
    <3>1. CASE Dedup(p) \/ Lookup(p)
      BY <3>1, <1>t DEF Dedup, Lookup, Goto, Respond, Crash, TypeInv, TypeOK
    <3>2. CASE Claim(p)
      BY <3>2, <1>t DEF Claim, Goto, Respond, Crash, TypeInv, TypeOK
    <3>3. CASE Release(p) \/ Catch(p) \/ MarkFailed(p) \/ Crash(p)
      BY <3>3, <1>t DEF Release, Catch, MarkFailed, Goto, Respond, Crash, TypeInv, TypeOK
    <3>4. QED
      BY <1>5, <3>1, <3>2, <3>3
  <2>3. \A q \in Requests : Waits(q)' => term'[q] = term[q]
    BY <2>1, <2>2, <1>t DEF Crash, TypeInv, TypeOK
  <2>4. QED
    BY <1>t, <1>f, <2>1, <2>2, <2>3
<1>6. ASSUME NEW p \in Requests, ReadExpiry(p) PROVE TermFits' /\ now' >= 1
  <2>1. UNCHANGED <<now, licence, job>>
    BY <1>6 DEF ReadExpiry, Goto, entitlements
  <2>2. \A q \in Requests : q # p => pc'[q] = pc[q] /\ term'[q] = term[q]
    BY <1>6, <1>t DEF ReadExpiry, Goto, TypeInv, TypeOK
  <2>3. pc'[p] = "grant" => term'[p] = NewExpiry(BuyerOf[job[p].order])
    BY <1>6, <1>t DEF ReadExpiry, Goto, TypeInv, TypeOK
  <2>4. NewExpiry(BuyerOf[job[p].order]) = Sold!Extended(Old(p), now)
    BY DEF NewExpiry, Later, Sold!Extended
  <2>5. now \in 1..now
    BY <1>t
  <2>6. QED
    BY <1>t, <2>1, <2>2, <2>3, <2>4, <2>5 DEF RefInv, TermFits, Sold!Extended
<1>7. ASSUME NEW p \in Requests, Grant(p) PROVE TermFits' /\ now' >= 1
  <2> DEFINE x == job[p].order
  <2>0. x \in Orders /\ pc[p] = "grant"
    BY <1>t, <1>7, JobTypes DEF Grant
  <2>1. now' = now
    BY <1>7 DEF Grant
  <2>2. pc'[p] # "grant"
    BY <1>7, <1>t DEF Grant, Goto, Respond, TypeInv, TypeOK
  <2>3. \A q \in Requests : q # p =>
           pc'[q] = pc[q] /\ job'[q] = job[q] /\ term'[q] = term[q]
    BY <1>7, <1>t DEF Grant, Goto, Respond, TypeInv, TypeOK
  <2>4. \A s \in Studios : s # BuyerOf[x] => licence'[s] = licence[s]
    <3>1. WriteEntitlement(p) \/ UNCHANGED entitlements
      BY <1>7 DEF Grant
    <3>2. QED
      BY <3>1, <1>t DEF WriteEntitlement, WriteLicence, WriteIdentity,
         WriteCompany, entitlements, TypeInv, TypeOK
  <2>5. ASSUME NEW q \in Requests, q # p, Waits(q)
        PROVE  BuyerOf[job[q].order] \in Studios /\ BuyerOf[job[q].order] # BuyerOf[x]
    <3>1. job[q].order \in Orders
      BY <1>t, <2>5, JobTypes
    <3>2. OneOrderPerStudio
      BY <2>5 DEF Quiet, OneAtATime
    <3>3. BuyerOf[job[q].order] = BuyerOf[x] => Holds(q, x) /\ Holds(p, x)
      BY <2>0, <2>5, <3>1, <3>2 DEF OneOrderPerStudio, Holds, Works_on
    <3>4. QED
      BY <1>t, <2>0, <2>5, <3>1, <3>3 DEF ClaimIsLock, OneHolder, IsLicence
  <2>6. QED
    BY <1>t, <1>f, <2>1, <2>2, <2>3, <2>4, <2>5
<1>8. QED
  BY <1>2, <1>3, <1>4, <1>5, <1>6, <1>7, NextSplit DEF HandlerStep

\* Every step is one of the abstract machine or invisible to it.
LEMMA StepImplements ==
    ASSUME RefInv, Quiet, [Next]_vars
    PROVE  [Sold!Next]_Sold!vars
<1> DEFINE granted == {o \in Orders : grants[o] > 0}
           expires == [s \in Studios |-> licence[s].expires]
<1> USE PaymentsAssumption
<1>t. TypeInv /\ TypeInv' /\ ClaimIsLock /\ Flaky = {}
  BY TypeStep DEF RefInv, LockInv, Quiet
<1>s. ASSUME UNCHANGED <<now, events, grants, licence>>
      PROVE  UNCHANGED Sold!vars
  BY <1>s DEF Sold!vars, Paid
<1>1. CASE UNCHANGED vars
  BY <1>1, <1>s DEF vars, entitlements
<1>2. CASE Tick
  BY <1>2 DEF Tick, Sold!Next, Sold!Tick, Paid, entitlements
<1>3. ASSUME NEW s \in Studios, AdminUpdateLicence(s) PROVE FALSE
  BY <1>3 DEF AdminUpdateLicence, Quiet
<1>4. CASE \/ \E c \in Companies : CompanyStep(c)
           \/ \E o \in Orders : OrderRow(o)
           \/ \E p \in Requests, e \in events : Deliver(p, e)
           \/ \E p \in Requests, o \in Orders,
                 B \in {Studios, Accounts, Companies} : Confirm(p, o, B)
  BY <1>4, <1>s DEF CompanyStep, Onboard, SubmitConnectDexOnboardingForm,
     AdminVerifyConnectDexCompany, AdminActivateCompany, OrderRow, Deliver,
     Confirm, Begin, entitlements
<1>5. ASSUME NEW o \in Orders, FailAttempt(o) PROVE FALSE
  BY <1>5, <1>t DEF FailAttempt
<1>6. ASSUME NEW o \in Orders, Capture(o) PROVE Sold!Next
  <2>1. o \notin Paid /\ Paid' = Paid \cup {o}
    BY <1>6 DEF Capture, CheckoutOpen, Paid, Captured
  <2>2. Sold!Pay(o)
    BY <1>6, <2>1 DEF Capture, Sold!Pay, entitlements
  <2>3. QED
    BY <2>2 DEF Sold!Next
<1>7. ASSUME NEW p \in Requests,
             \/ Dedup(p) \/ Lookup(p) \/ Claim(p) \/ ReadExpiry(p)
             \/ Release(p) \/ Catch(p) \/ MarkFailed(p) \/ Crash(p)
      PROVE  UNCHANGED Sold!vars
  BY <1>7, <1>s DEF Dedup, Lookup, Claim, ReadExpiry, Release, Catch,
     MarkFailed, Crash, entitlements
<1>g. ASSUME NEW o \in Orders, Sold!GrantOrder(o) PROVE Sold!Next
  BY <1>g DEF Sold!Next
<1>8. ASSUME NEW p \in Requests, Grant(p) PROVE [Sold!Next]_Sold!vars
  <2>0. PICK x \in Orders : x = job[p].order
    BY <1>t, <1>8, JobTypes DEF Grant
  <2>1. CASE UNCHANGED <<entitlements, grants>>
    BY <1>8, <2>1, <1>s DEF Grant, entitlements
  <2>2. CASE WriteEntitlement(p)
    <3>1. x \in Orders /\ x \in Paid /\ grants[x] = 0
      BY <1>t, <1>8, <2>0
      DEF Grant, RefInv, WorkIsPaid, ClaimIsLock, HolderFirst, Holds, Works_on
    <3>2. granted' = granted \cup {x} /\ x \notin granted
      BY <1>t, <2>0, <2>2, <3>1 DEF WriteEntitlement, TypeInv, TypeOK
    <3>3. UNCHANGED <<now, Paid>>
      BY <1>8 DEF Grant, Paid
    <3>4. CASE IsLicence(x)
      <4>1. PICK t \in 1..now : term[p] = Sold!Extended(licence[BuyerOf[x]].expires, t)
        BY <1>8, <2>0, <3>4 DEF Grant, RefInv, TermFits
      <4>2. BuyerOf[x] \in Studios
        BY <3>4 DEF IsLicence
      <4>3. licence' = [licence EXCEPT ![BuyerOf[x]] =
                          [plan |-> PlanOf[x], expires |-> term[p]]]
        BY <2>0, <2>2, <4>2 DEF WriteEntitlement, WriteLicence, WriteIdentity, WriteCompany
      <4>4. expires' = [expires EXCEPT ![BuyerOf[x]] =
                          Sold!Extended(expires[BuyerOf[x]], t)]
        BY <1>t, <4>1, <4>2, <4>3 DEF TypeInv, TypeOK
      <4>5. Sold!GrantOrder(x)
        BY <3>1, <3>2, <3>3, <4>2, <4>4 DEF Sold!GrantOrder
      <4>6. QED
        BY <3>1, <4>5, <1>g
    <3>5. CASE ~ IsLicence(x)
      <4>1. BuyerOf[x] \notin Studios /\ licence' = licence
        BY <2>0, <2>2, <3>5 DEF IsLicence, WriteEntitlement, WriteLicence,
           WriteIdentity, WriteCompany
      <4>2. Sold!GrantOrder(x)
        BY <3>1, <3>2, <3>3, <4>1 DEF Sold!GrantOrder
      <4>3. QED
        BY <3>1, <4>2, <1>g
    <3>6. QED
      BY <3>4, <3>5
  <2>3. QED
    BY <1>8, <2>1, <2>2 DEF Grant
<1>9. QED
  BY <1>1, <1>2, <1>3, <1>4, <1>5, <1>6, <1>7, <1>8, NextSplit DEF HandlerStep, Sold!Next

LEMMA RefStep ==
    ASSUME RefInv, Quiet, [Next]_vars
    PROVE  RefInv'
<1>1. CASE Next
  BY <1>1, TypeStep, LockStep, WorkStep, TermStep DEF RefInv, LockInv, Quiet
<1>2. CASE UNCHANGED vars
  BY <1>2 DEF vars, entitlements, RefInv, LockInv, TypeInv, TypeOK, JobsOK,
     FailuresAreFlaky, ClaimIsLock, OneHolder, HolderFirst, GrantLocks,
     Holds, Works_on, WorkIsPaid, Paid, TermFits
<1>3. QED
  BY <1>1, <1>2

\* Buyers get what Entitlements promises, in the quiet case.
THEOREM Implements == ASSUME Quiet PROVE Spec => Entitles
<1>1. Init => RefInv
  BY PaymentsAssumption
  DEF Init, RefInv, LockInv, TypeInv, TypeOK, JobsOK, Statuses, Rowless, Steps,
      Unlicensed, CompanyStatuses, NoJob, FailuresAreFlaky, ClaimIsLock,
      OneHolder, HolderFirst, GrantLocks, Holds, WorkIsPaid, TermFits
<1>2. RefInv /\ [Next]_vars => RefInv'
  BY RefStep
<1>3. Init => Sold!Init
  BY DEF Init, Sold!Init, Paid, Unlicensed
<1>4. RefInv /\ [Next]_vars => [Sold!Next]_Sold!vars
  BY StepImplements
<1>5. QED
  BY <1>1, <1>2, <1>3, <1>4, PTL DEF Spec, Entitles, Sold!Spec

-------------------------------------------------------------------------------
(***************************************************************************)
(* Nothing paid for is left behind, however many requests overlap.  A      *)
(* CAPTURED row has a holder (CapturedPaidOut), and a row in               *)
(* razorpay_webhook_events that would make Razorpay's next delivery a      *)
(* replay has a delivery at work (DedupWorked): it ends in a grant, in a   *)
(* 200 that the holder of the row justifies, or in a Catch that forgets    *)
(* the row.                                                                *)
(***************************************************************************)

\* No answer of a claim is lost, and what a request undoes is undone.
UndoWorks == Faults \cap {"lookup", "claimReply", "release", "undedup", "crash"} = {}

Serves(q, o) == job[q] = Captured(o) /\ pc[q] \notin {"idle", "dedup"}

DedupWorked ==
    \A o \in Orders :
        Captured(o) \in dedup \ acked /\ grants[o] = 0 =>
            \E q \in Requests : Serves(q, o)

OnlyFailedMarked ==
    \A p \in Requests : pc[p] = "markFailed" => job[p].via = "failed"

WorkInv == TypeInv /\ CapturedPaidOut /\ DedupWorked /\ OnlyFailedMarked
-------------------------------------------------------------------------------
\* A step of the request p takes its own delivery further or ends it, and
\* touches no other request.
LEMMA RequestSteps ==
    ASSUME TypeInv, NEW p \in Requests, HandlerStep(p) \/ Crash(p)
    PROVE  /\ \A q \in Requests : q # p => pc'[q] = pc[q] /\ job'[q] = job[q]
           /\ pc[p] # "idle" /\ job[p] \in Jobs
           /\ \/ /\ pc'[p] \notin {"idle", "dedup"}
                 /\ job'[p] = job[p] /\ acked' = acked
              \/ /\ pc'[p] = "idle"
                 /\ acked' \in {acked, acked \cup {job[p]}}
<1>1. pc[p] # "idle"
  BY DEF HandlerStep, Crash, Dedup, Lookup, Claim, ReadExpiry, Grant,
     Release, Catch, MarkFailed
<1>2. \/ \E step \in Steps \ {"idle", "dedup"} : Goto(p, step)
      \/ \E ok \in BOOLEAN : Respond(p, ok)
  <2>1. CASE Dedup(p) \/ Lookup(p)
    BY <2>1 DEF Dedup, Lookup, Steps
  <2>2. CASE Claim(p) \/ ReadExpiry(p)
    BY <2>2 DEF Claim, ReadExpiry, Steps
  <2>3. CASE Grant(p) \/ Release(p)
    BY <2>3 DEF Grant, Release, Steps
  <2>4. CASE Catch(p) \/ MarkFailed(p) \/ Crash(p)
    BY <2>4 DEF Catch, MarkFailed, Crash
  <2>5. QED
    BY <2>1, <2>2, <2>3, <2>4 DEF HandlerStep
<1>3. job[p] \in Jobs
  BY <1>1, JobTypes
<1>4. CASE \E step \in Steps \ {"idle", "dedup"} : Goto(p, step)
  BY <1>1, <1>3, <1>4 DEF Goto, TypeInv, TypeOK
<1>5. CASE \E ok \in BOOLEAN : Respond(p, ok)
  BY <1>1, <1>3, <1>5 DEF Respond, TypeInv, TypeOK
<1>6. QED
  BY <1>2, <1>4, <1>5

\* What a request has done for its delivery when it lets go of it.
LEMMA ServedInTheEnd ==
    ASSUME WorkInv, UndoWorks, NEW p \in Requests, HandlerStep(p) \/ Crash(p),
           NEW o \in Orders, Serves(p, o), ~ Serves(p, o)'
    PROVE  Captured(o) \in acked' \/ Captured(o) \notin dedup'
<1> USE PaymentsAssumption
<1>t. TypeInv /\ OnlyFailedMarked
  BY DEF WorkInv
<1>1. job[p] = Captured(o) /\ pc[p] \notin {"idle", "dedup"} /\ job[p].via = "captured"
  BY DEF Serves, Captured
<1>2. \A step \in Steps \ {"idle", "dedup"} : ~ Goto(p, step)
  BY <1>t, <1>1 DEF Serves, Goto, TypeInv, TypeOK
<1>3. \A k \in {"lookup", "claimReply", "release", "undedup", "crash"} : ~ Fault(k)
  BY DEF Fault, UndoWorks
<1>4. Respond(p, TRUE) => Captured(o) \in acked'
  BY <1>1 DEF Respond
<1>5. CASE Lookup(p)
  BY <1>2, <1>4, <1>5 DEF Lookup, Steps
<1>6. CASE Claim(p)
  BY <1>2, <1>4, <1>6 DEF Claim, Steps
<1>7. CASE ReadExpiry(p) \/ Release(p)
  BY <1>2, <1>7 DEF ReadExpiry, Release, Steps
<1>8. CASE Grant(p)
  BY <1>2, <1>4, <1>8 DEF Grant, Steps
<1>9. CASE Catch(p)
  BY <1>1, <1>3, <1>9 DEF Catch, Forget
<1>10. CASE Dedup(p) \/ MarkFailed(p) \/ Crash(p)
  BY <1>t, <1>1, <1>3, <1>10 DEF Dedup, MarkFailed, Crash, OnlyFailedMarked
<1>11. QED
  BY <1>5, <1>6, <1>7, <1>8, <1>9, <1>10 DEF HandlerStep

LEMMA DedupStep ==
    ASSUME WorkInv, UndoWorks, [Next]_vars
    PROVE  DedupWorked' /\ OnlyFailedMarked'
<1> USE PaymentsAssumption
<1>t. TypeInv /\ TypeInv' /\ DedupWorked /\ OnlyFailedMarked
  BY TypeStep DEF WorkInv
<1>1. CASE \/ Tick \/ UNCHANGED vars
           \/ \E s \in Studios : AdminUpdateLicence(s)
           \/ \E c \in Companies : CompanyStep(c)
           \/ \E o \in Orders : OrderRow(o) \/ FailAttempt(o) \/ Capture(o)
  <2>1. UNCHANGED <<acked, dedup, pc, job, grants>>
    BY <1>1 DEF Tick, vars, entitlements, AdminUpdateLicence, CompanyStep,
       Onboard, SubmitConnectDexOnboardingForm, AdminVerifyConnectDexCompany,
       AdminActivateCompany, OrderRow, FailAttempt, Capture
  <2>2. QED
    BY <1>t, <2>1 DEF DedupWorked, OnlyFailedMarked, Serves
<1>2. CASE \/ \E p \in Requests, e \in events : Deliver(p, e)
           \/ \E p \in Requests, o \in Orders,
                 B \in {Studios, Accounts, Companies} : Confirm(p, o, B)
  <2>0. \E p \in Requests, w \in Jobs, step \in {"dedup", "lookup"} : Begin(p, w, step)
    <3>1. ASSUME NEW p \in Requests, NEW e \in events, Deliver(p, e)
          PROVE  e \in Jobs /\ Begin(p, e, "dedup")
      BY <1>t, <3>1 DEF Deliver, TypeInv, TypeOK, Reports, Jobs
    <3>2. ASSUME NEW p \in Requests, NEW o \in Orders, NEW B, Confirm(p, o, B)
          PROVE  \E w \in Jobs : Begin(p, w, "lookup")
      <4>1. [via |-> "confirm", order |-> o] \in Jobs
        BY DEF Jobs
      <4>2. Begin(p, [via |-> "confirm", order |-> o], "lookup")
        BY <3>2 DEF Confirm
      <4>3. QED
        BY <4>1, <4>2, Zenon
    <3>3. CASE \E p \in Requests, e \in events : Deliver(p, e)
      BY <3>1, <3>3, Zenon
    <3>4. CASE \E p \in Requests, o \in Orders,
                  B \in {Studios, Accounts, Companies} : Confirm(p, o, B)
      BY <3>2, <3>4, Zenon
    <3>5. QED
      BY <1>2, <3>3, <3>4, Zenon
  <2>1. PICK p \in Requests, w \in Jobs, step \in {"dedup", "lookup"} : Begin(p, w, step)
    BY <2>0, Zenon
  <2>2. /\ UNCHANGED <<acked, dedup, grants>> /\ pc[p] = "idle"
        /\ \A q \in Requests : q # p => pc'[q] = pc[q] /\ job'[q] = job[q]
        /\ pc'[p] = step
    BY <1>t, <2>1 DEF Begin, TypeInv, TypeOK
  <2>3. QED
    BY <1>t, <2>2 DEF DedupWorked, OnlyFailedMarked, Serves
<1>3. ASSUME NEW p \in Requests, HandlerStep(p) \/ Crash(p)
      PROVE  DedupWorked' /\ OnlyFailedMarked'
  <2>1. /\ \A q \in Requests : q # p => pc'[q] = pc[q] /\ job'[q] = job[q]
        /\ pc[p] # "idle" /\ acked \subseteq acked' /\ job[p] \in Jobs
    BY <1>t, <1>3, RequestSteps
  <2>2. pc'[p] = "idle" \/ (pc'[p] # "dedup" /\ job'[p] = job[p])
    BY <1>t, <1>3, RequestSteps
  <2>3. \A o \in Orders : grants'[o] = 0 => grants[o] = 0
    <3>1. UNCHANGED grants \/ WriteEntitlement(p)
      BY <1>3 DEF HandlerStep, Crash, Dedup, Lookup, Claim, ReadExpiry, Grant,
         Release, Catch, MarkFailed
    <3>2. QED
      BY <1>t, <3>1 DEF WriteEntitlement, TypeInv, TypeOK
  <2>4. \A o \in Orders : Captured(o) \in dedup' => Captured(o) \in dedup \/ Serves(p, o)'
    <3>1. CASE Dedup(p)
      <4>1. CASE UNCHANGED dedup
        BY <4>1
      <4>2. CASE dedup' = dedup \cup {job[p]}
                 /\ Goto(p, IF job[p].via = "failed" THEN "markFailed" ELSE "lookup")
        BY <1>t, <4>2 DEF Goto, Serves, TypeInv, TypeOK
      <4>3. QED
        BY <3>1, <4>1, <4>2 DEF Dedup
    <3>2. CASE Catch(p)
      BY <3>2 DEF Catch, Forget
    <3>3. CASE ~ Dedup(p) /\ ~ Catch(p)
      BY <1>3, <3>3 DEF HandlerStep, Crash, Lookup, Claim, ReadExpiry, Grant,
         Release, MarkFailed
    <3>4. QED
      BY <3>1, <3>2, <3>3
  <2>5. DedupWorked'
    <3>1. ASSUME NEW o \in Orders, Captured(o) \in dedup' \ acked', grants'[o] = 0
          PROVE  \E q \in Requests : Serves(q, o)'
      <4>1. CASE Serves(p, o)'
        BY <4>1
      <4>2. CASE ~ Serves(p, o)'
        <5>1. Captured(o) \in dedup \ acked /\ grants[o] = 0
          BY <2>1, <2>3, <2>4, <3>1, <4>2
        <5>2. PICK q \in Requests : Serves(q, o)
          BY <1>t, <5>1 DEF DedupWorked
        <5>3. q # p
          BY <1>3, <3>1, <4>2, <5>2, ServedInTheEnd
        <5>4. QED
          BY <2>1, <5>2, <5>3 DEF Serves
      <4>3. QED
        BY <4>1, <4>2
    <3>2. QED
      BY <3>1 DEF DedupWorked, Serves
  <2>6. OnlyFailedMarked'
    <3>1. pc'[p] = "markFailed" => job[p].via = "failed"
      <4>1. CASE Dedup(p)
        BY <1>t, <4>1 DEF Dedup, Goto, Respond, TypeInv, TypeOK
      <4>2. CASE ~ Dedup(p)
        <5>1. \/ \E step \in Steps \ {"markFailed"} : Goto(p, step)
              \/ \E ok \in BOOLEAN : Respond(p, ok)
          <6>1. CASE Lookup(p) \/ Claim(p)
            BY <6>1 DEF Lookup, Claim, Steps
          <6>2. CASE ReadExpiry(p) \/ Grant(p) \/ Release(p)
            BY <6>2 DEF ReadExpiry, Grant, Release, Steps
          <6>3. CASE Catch(p) \/ MarkFailed(p) \/ Crash(p)
            BY <6>3 DEF Catch, MarkFailed, Crash
          <6>4. QED
            BY <1>3, <4>2, <6>1, <6>2, <6>3 DEF HandlerStep
        <5>2. QED
          BY <1>t, <5>1 DEF Goto, Respond, TypeInv, TypeOK
      <4>3. QED
        BY <4>1, <4>2
    <3>2. QED
      BY <1>t, <2>1, <2>2, <3>1 DEF OnlyFailedMarked
  <2>7. QED
    BY <2>5, <2>6
<1>4. QED
  BY <1>1, <1>2, <1>3, NextSplit

LEMMA WorkInitial == Init => WorkInv
BY PaymentsAssumption
DEF Init, WorkInv, TypeInv, TypeOK, JobsOK, Statuses, Rowless, Steps, Unlicensed,
    CompanyStatuses, NoJob, CapturedPaidOut, DedupWorked, OnlyFailedMarked

LEMMA WorkInvStep ==
    ASSUME WorkInv, UndoWorks, [Next]_vars
    PROVE  WorkInv'
<1>1. TypeInv /\ CapturedPaidOut /\ Faults \cap {"claimReply", "release", "crash"} = {}
  BY DEF WorkInv, UndoWorks
<1>2. QED
  BY <1>1, TypeStep, PaidOutStep, DedupStep DEF WorkInv

\* A payment nobody works on and that bought nothing yet can still be applied,
\* however many requests overlap and however often attempts, claims, reads of
\* the expiry and writes fail, as long as no read of the row and no answer of
\* the claim is lost, no request dies and what is undone is undone.
THEOREM NothingDropped == ASSUME UndoWorks PROVE Spec => []NotDropped
<1>1. WorkInv /\ [Next]_vars => WorkInv'
  BY WorkInvStep
<1>2. WorkInv => NotDropped
  <2> SUFFICES ASSUME WorkInv, NEW o \in Orders, grants[o] = 0,
                      \A p \in Requests : ~ Works_on(p, o)
               PROVE  /\ row[o] # "CAPTURED"
                      /\ Captured(o) \in dedup => Captured(o) \in acked
    BY DEF NotDropped, Paid
  <2>1. row[o] # "CAPTURED"
    BY DEF WorkInv, CapturedPaidOut, PaidOut, Holds
  <2>2. \A p \in Requests : ~ Serves(p, o)
    BY DEF Serves, Works_on, Captured
  <2>3. QED
    BY <2>1, <2>2 DEF WorkInv, DedupWorked
<1>3. QED
  BY <1>1, <1>2, WorkInitial, PTL DEF Spec

\* Who acknowledges a payment that bought nothing yet has seen its dedup row or
\* its CAPTURED row, and both have a request at work: another one, for the one
\* that answers is done.
LEMMA AckedStep ==
    ASSUME WorkInv, UndoWorks, [Next]_vars, NEW o \in Orders,
           Captured(o) \in acked' \ acked, grants'[o] = 0
    PROVE  \E q \in Requests : Works_on(q, o)' /\ pc'[q] \notin {"idle", "dedup"}
<1> USE PaymentsAssumption
<1>t. TypeInv /\ CapturedPaidOut /\ DedupWorked /\ OnlyFailedMarked
  BY DEF WorkInv
<1>1. PICK p \in Requests : HandlerStep(p) \/ Crash(p)
  <2>1. acked' # acked
    OBVIOUS
  <2>2. QED
    BY <2>1, NextSplit DEF Tick, vars, entitlements, AdminUpdateLicence,
       CompanyStep, Onboard, SubmitConnectDexOnboardingForm,
       AdminVerifyConnectDexCompany, AdminActivateCompany, OrderRow,
       FailAttempt, Capture, Deliver, Confirm, Begin
<1>2. /\ \A q \in Requests : q # p => pc'[q] = pc[q] /\ job'[q] = job[q]
      /\ job[p] = Captured(o)
  BY <1>t, <1>1, RequestSteps
<1>3. ASSUME NEW q \in Requests, q # p, Works_on(q, o), pc[q] \notin {"idle", "dedup"}
      PROVE  Works_on(q, o)' /\ pc'[q] \notin {"idle", "dedup"}
  BY <1>2, <1>3 DEF Works_on
<1>4. job[p].order = o /\ job[p].via = "captured"
  BY <1>2 DEF Captured
<1>5. ASSUME grants[o] = 0, row[o] = "CAPTURED", pc[p] \notin {"read", "grant", "release"}
      PROVE  \E q \in Requests : Works_on(q, o)' /\ pc'[q] \notin {"idle", "dedup"}
  <2>1. PICK q \in Requests : Holds(q, o)
    BY <1>t, <1>5 DEF CapturedPaidOut, PaidOut, TypeInv, TypeOK
  <2>2. q # p /\ Works_on(q, o) /\ pc[q] \notin {"idle", "dedup"}
    BY <1>5, <2>1 DEF Holds
  <2>3. QED
    BY <1>3, <2>2
<1>6. ~ Respond(p, FALSE) /\ \A step \in Steps : ~ Goto(p, step)
  BY DEF Respond, Goto
<1>7. \A k \in {"lookup", "crash"} : ~ Fault(k)
  BY DEF Fault, UndoWorks
<1>8. CASE Dedup(p)
  <2>1. job[p] \in dedup /\ grants[o] = 0
    BY <1>6, <1>8 DEF Dedup, Steps
  <2>2. PICK q \in Requests : Serves(q, o)
    BY <1>t, <1>2, <2>1 DEF DedupWorked
  <2>3. q # p /\ Works_on(q, o) /\ pc[q] \notin {"idle", "dedup"}
    BY <1>8, <2>2 DEF Serves, Works_on, Captured, Dedup
  <2>4. QED
    BY <1>3, <2>3
<1>9. CASE Lookup(p)
  BY <1>4, <1>5, <1>6, <1>7, <1>9 DEF Lookup, Steps
<1>10. CASE Claim(p)
  BY <1>4, <1>5, <1>6, <1>10 DEF Claim, Claimable, Steps
<1>11. CASE Grant(p)
  <2>1. WriteEntitlement(p)
    BY <1>6, <1>11 DEF Grant, Steps
  <2>2. QED
    BY <1>t, <1>4, <2>1 DEF WriteEntitlement, TypeInv, TypeOK
<1>12. CASE ReadExpiry(p) \/ Release(p) \/ Catch(p)
  BY <1>6, <1>12 DEF ReadExpiry, Release, Catch, Steps
<1>13. CASE MarkFailed(p) \/ Crash(p)
  BY <1>t, <1>4, <1>7, <1>13 DEF MarkFailed, Crash, OnlyFailedMarked
<1>14. QED
  BY <1>1, <1>8, <1>9, <1>10, <1>11, <1>12, <1>13 DEF HandlerStep

\* Razorpay is told 200 for a payment that bought nothing yet only while another
\* request is at work on it, under the same failures.
THEOREM AckedOnlyAtWork == ASSUME UndoWorks PROVE Spec => AckedAtWork
<1> DEFINE Step == \A o \in Orders :
                      Captured(o) \in acked' \ acked /\ grants'[o] = 0 =>
                          \E q \in Requests :
                              Works_on(q, o)' /\ pc'[q] \notin {"idle", "dedup"}
<1>1. WorkInv /\ [Next]_vars => WorkInv'
  BY WorkInvStep
<1>2. WorkInv /\ [Next]_vars => [Step]_vars
  BY AckedStep
<1>3. AckedAtWork <=> [][Step]_vars
  BY PTL DEF AckedAtWork
<1>4. QED
  BY <1>1, <1>2, <1>3, WorkInitial, PTL DEF Spec
-------------------------------------------------------------------------------
\* Every company with an order has passed its verification, and one whose order
\* was granted is active.
CompaniesOnboarded ==
    \A o \in Orders :
        BuyerOf[o] \in Companies =>
            /\ row[o] \notin {"NONE", "REFUSED"} =>
                  company[BuyerOf[o]] \in {"PENDING_PAYMENT", "ACTIVE"}
            /\ grants[o] > 0 => company[BuyerOf[o]] = "ACTIVE"

\* Razorpay knows only orders whose row was inserted.
ReportsHaveRows ==
    /\ \A e \in events : row[e.order] \notin Rowless
    /\ \A p \in Requests :
          pc[p] # "idle" => row[job[p].order] \notin Rowless

OnboardInv == TypeInv /\ CompaniesOnboarded /\ ReportsHaveRows

-------------------------------------------------------------------------------
LEMMA OnboardStep ==
    ASSUME OnboardInv, [Next]_vars
    PROVE  OnboardInv'
<1> USE PaymentsAssumption
<1>t. TypeInv /\ CompaniesOnboarded /\ ReportsHaveRows
  BY DEF OnboardInv
<1>0. TypeInv'
  BY <1>t, TypeStep
<1>j. \A p \in Requests : pc[p] # "idle" => job[p].order \in Orders
  BY <1>t, JobTypes
\* A company is never set back.
<1>k. ASSUME UNCHANGED <<row, events, pc, job, grants>>,
             \A c \in Companies : company[c] \in {"PENDING_PAYMENT", "ACTIVE"} =>
                                      company'[c] \in {company[c], "ACTIVE"}
      PROVE  OnboardInv'
  <2>1. CompaniesOnboarded'
    BY <1>t, <1>k DEF CompaniesOnboarded, IsLicence
  <2>2. ReportsHaveRows'
    BY <1>t, <1>j, <1>k DEF ReportsHaveRows, TypeInv, TypeOK, Reports
  <2>3. QED
    BY <1>0, <2>1, <2>2 DEF OnboardInv
<1>1. CASE Tick \/ UNCHANGED vars \/ (\E s \in Studios : AdminUpdateLicence(s))
  BY <1>1, <1>k DEF Tick, vars, entitlements, AdminUpdateLicence
<1>2. ASSUME NEW c \in Companies, CompanyStep(c) PROVE OnboardInv'
  BY <1>t, <1>2, <1>k DEF CompanyStep, Onboard, SubmitConnectDexOnboardingForm,
     AdminVerifyConnectDexCompany, AdminActivateCompany, TypeInv, TypeOK
<1>3. ASSUME NEW x \in Orders, OrderStep(x), ~ FailAttempt(x), ~ Capture(x)
      PROVE  OnboardInv'
  <2>1. /\ UNCHANGED <<events, pc, job, grants, company>>
        /\ \A o \in Orders : o # x => row'[o] = row[o]
        /\ row[x] \in {"NONE", "CHECKED"}
    BY <1>t, <1>3 DEF OrderStep, CreateLicenceOrder, CheckIdentity, CreateIdentityOrder,
       CheckCompany, CreateConnectDexOnboardingOrder, CheckBuyer, InsertRow,
       entitlements, TypeInv, TypeOK
  \* The company is checked in the first of the two steps, and keeps what the
  \* check found.
  <2>2. BuyerOf[x] \in Companies =>
           company[BuyerOf[x]] = "PENDING_PAYMENT" \/ row[x] = "CHECKED"
    BY <1>3 DEF OrderStep, CreateLicenceOrder, CheckIdentity, CreateIdentityOrder,
       CheckCompany, CreateConnectDexOnboardingOrder, InsertRow
  <2>3. CompaniesOnboarded'
    BY <1>t, <2>1, <2>2 DEF CompaniesOnboarded
  <2>4. ReportsHaveRows'
    BY <1>t, <1>j, <2>1 DEF ReportsHaveRows, Rowless, TypeInv, TypeOK, Reports
  <2>5. QED
    BY <1>0, <2>3, <2>4 DEF OnboardInv
<1>4. ASSUME NEW x \in Orders, FailAttempt(x) \/ Capture(x) PROVE OnboardInv'
  <2>1. /\ UNCHANGED <<row, pc, job, grants, company>> /\ row[x] \notin Rowless
        /\ \A e \in events' : e \in events \/ e.order = x
    BY <1>4 DEF FailAttempt, Capture, CheckoutOpen, Failed, Captured, entitlements
  <2>2. CompaniesOnboarded'
    BY <1>t, <2>1 DEF CompaniesOnboarded
  <2>3. ReportsHaveRows'
    BY <1>t, <2>1 DEF ReportsHaveRows
  <2>4. QED
    BY <1>0, <2>2, <2>3 DEF OnboardInv
<1>5. ASSUME NEW p \in Requests,
             \/ \E e \in events : Deliver(p, e)
             \/ \E o \in Orders, B \in {Studios, Accounts, Companies} : Confirm(p, o, B)
      PROVE  OnboardInv'
  <2>1. UNCHANGED <<row, company, grants, events>>
    BY <1>5 DEF Deliver, Confirm, Begin, entitlements
  <2>2. PICK e \in events : pc'[p] # "idle" /\ job'[p].order = e.order
    <3>1. CASE \E e \in events : Deliver(p, e)
      BY <1>t, <3>1 DEF Deliver, Begin, TypeInv, TypeOK
    <3>2. ASSUME NEW o \in Orders, NEW B, Confirm(p, o, B)
          PROVE  Captured(o) \in events /\ pc'[p] # "idle" /\ job'[p].order = Captured(o).order
      BY <1>t, <3>2 DEF Confirm, Begin, Paid, Captured, TypeInv, TypeOK
    <3>3. QED
      BY <1>5, <3>1, <3>2
  <2>3. \A q \in Requests : q # p => pc'[q] = pc[q] /\ job'[q] = job[q]
    BY <1>t, <1>5 DEF Deliver, Confirm, Begin, TypeInv, TypeOK
  <2>4. CompaniesOnboarded'
    BY <1>t, <2>1 DEF CompaniesOnboarded
  <2>5. ReportsHaveRows'
    <3>1. \A q \in Requests : pc'[q] # "idle" => row[job'[q].order] \notin Rowless
      BY <1>t, <2>2, <2>3 DEF ReportsHaveRows
    <3>2. QED
      BY <1>t, <2>1, <3>1 DEF ReportsHaveRows
  <2>6. QED
    BY <1>0, <2>4, <2>5 DEF OnboardInv
<1>6. ASSUME NEW p \in Requests, HandlerStep(p) \/ Crash(p) PROVE OnboardInv'
  <2> DEFINE x == job[p].order
  <2>1. pc[p] # "idle" /\ UNCHANGED events
    BY <1>6 DEF HandlerStep, Crash, Dedup, Lookup, Claim, ReadExpiry, Grant,
       Release, Catch, MarkFailed
  <2>2. x \in Orders /\ row[x] \notin Rowless
    BY <1>t, <1>j, <2>1 DEF ReportsHaveRows
  <2>3. /\ \A q \in Requests : q # p => pc'[q] = pc[q] /\ job'[q] = job[q]
        /\ pc'[p] = "idle" \/ job'[p] = job[p]
    <3>1. (\E step \in Steps : Goto(p, step)) \/ (\E ok \in BOOLEAN : Respond(p, ok))
      <4>1. CASE Dedup(p) \/ Lookup(p)
        BY <4>1 DEF Dedup, Lookup, Steps
      <4>2. CASE Claim(p) \/ ReadExpiry(p)
        BY <4>2 DEF Claim, ReadExpiry, Steps
      <4>3. CASE Grant(p) \/ Release(p)
        BY <4>3 DEF Grant, Release, Steps
      <4>4. CASE Catch(p) \/ MarkFailed(p) \/ Crash(p)
        BY <4>4 DEF Catch, MarkFailed, Crash
      <4>5. QED
        BY <1>6, <4>1, <4>2, <4>3, <4>4 DEF HandlerStep
    <3>2. QED
      BY <1>t, <3>1 DEF Goto, Respond, TypeInv, TypeOK
  <2>4. /\ \A o \in Orders : o # x => row'[o] = row[o]
        /\ row'[x] \notin Rowless
    <3>1. \/ UNCHANGED row
          \/ \E st \in {"CAPTURED", "AUTHORIZED", "FAILED"} : row' = [row EXCEPT ![x] = st]
      BY <1>6 DEF HandlerStep, Crash, Dedup, Lookup, Claim, ReadExpiry, Grant,
         Release, Catch, MarkFailed, Unclaim
    <3>2. QED
      BY <1>t, <2>2, <3>1 DEF Rowless, TypeInv, TypeOK
  <2>5. ReportsHaveRows'
    <3>1. \A o \in Orders : row[o] \notin Rowless => row'[o] \notin Rowless
      BY <2>4
    <3>2. \A q \in Requests : pc'[q] # "idle" => row'[job'[q].order] \notin Rowless
      BY <1>t, <1>j, <2>1, <2>2, <2>3, <3>1 DEF ReportsHaveRows
    <3>3. QED
      BY <1>t, <2>1, <3>1, <3>2 DEF ReportsHaveRows, TypeInv, TypeOK, Reports
  <2>6. CASE UNCHANGED <<company, grants>>
    BY <1>0, <1>t, <2>2, <2>4, <2>5, <2>6 DEF CompaniesOnboarded, OnboardInv, Rowless
  <2>7. CASE WriteEntitlement(p)
    <3>1. \A o \in Orders : o # x => grants'[o] = grants[o]
      BY <1>t, <2>7 DEF WriteEntitlement, TypeInv, TypeOK
    <3>2. BuyerOf[x] \in Companies => company'[BuyerOf[x]] = "ACTIVE"
      <4>1. BuyerOf[x] \in Companies =>
               WriteCompany(x) /\ company[BuyerOf[x]] \in {"PENDING_PAYMENT", "ACTIVE"}
        BY <1>t, <2>2, <2>7 DEF WriteEntitlement, WriteLicence, WriteIdentity,
           CompaniesOnboarded, Rowless
      <4>2. QED
        BY <1>t, <4>1 DEF WriteCompany, TypeInv, TypeOK
    <3>3. \A c \in Companies : company[c] \in {"PENDING_PAYMENT", "ACTIVE"} =>
                                   company'[c] \in {company[c], "ACTIVE"}
      BY <1>t, <2>7 DEF WriteEntitlement, WriteLicence, WriteIdentity, WriteCompany,
         TypeInv, TypeOK
    <3>4. CompaniesOnboarded'
      BY <1>t, <2>4, <3>1, <3>2, <3>3 DEF CompaniesOnboarded
    <3>5. QED
      BY <1>0, <2>5, <3>4 DEF OnboardInv
  <2>8. QED
    BY <1>6, <2>6, <2>7 DEF HandlerStep, Crash, Dedup, Lookup, Claim, ReadExpiry, Grant,
       Release, Catch, MarkFailed, entitlements
<1>7. QED
  <2>1. CASE Next
    BY <2>1, <1>1, <1>2, <1>3, <1>4, <1>5, <1>6
    DEF Next, OrderStep, BeginStep, ConfirmPaymentClientSide,
        ConfirmIdentityPaymentClientSide, ConfirmConnectDexPaymentClientSide
  <2>2. QED
    BY <2>1, <1>1

\* An onboarding fee that was applied has made its company ACTIVE, whatever
\* fails, however many requests run and whatever administrators do.
THEOREM FeeActivates == Spec => []PaidCompanyActive
<1>1. Init => OnboardInv
  BY PaymentsAssumption
  DEF Init, OnboardInv, TypeInv, TypeOK, JobsOK, Statuses, Rowless, Steps, Unlicensed,
      CompanyStatuses, NoJob, CompaniesOnboarded, ReportsHaveRows
<1>2. OnboardInv => PaidCompanyActive
  BY DEF OnboardInv, CompaniesOnboarded, PaidCompanyActive
<1>3. OnboardInv /\ [Next]_vars => OnboardInv'
  BY OnboardStep
<1>4. QED
  BY <1>1, <1>2, <1>3, PTL DEF Spec
===============================================================================
