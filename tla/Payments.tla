------------------------------- MODULE Payments -------------------------------
(***************************************************************************)
(* Razorpay payments of the AORMS platform: studio licences, the one-time  *)
(* AORMS Identity fee and the ConnectDeX onboarding fee.                   *)
(*                                                                         *)
(* A payment row lives in one of three tables; the entitlement it buys     *)
(* lives in another.  Two kinds of server request write both: the webhook  *)
(* (app/api/razorpay/webhook/route.ts) and the client confirmation         *)
(* (confirm*PaymentClientSide).  Neither runs in a database transaction,   *)
(* so every database round trip is one step here and other requests run    *)
(* between any two of them.                                                *)
(***************************************************************************)
EXTENDS Integers

CONSTANTS
    Studios,        \* buy a licence that runs for Period
    Accounts,       \* buy a permanent identity
    Companies,      \* buy the ConnectDeX onboarding
    Orders,         \* Razorpay orders, each with its row in a payments table
    NoOrder,        \* stands for no order
    BuyerOf,        \* [Orders -> Buyers]
    PlanOf,         \* [Orders -> Plans], payments.plan
    Plans,
    AcceptedPlans,  \* what the check constraint payments_plan_check lets in
    Flaky,          \* orders whose first payment attempt fails at Razorpay
    Requests,       \* server requests that can run at the same time
    AdminTerms,     \* the expiries an administrator may enter, 0 for none
    Faults,         \* the steps that may fail, see FaultKinds
    MaxFaults,      \* bound: how many failures a behaviour has
    Period,         \* LICENCE_PERIOD_DAYS
    MaxNow          \* bound: the last value of the clock

Buyers == Studios \cup Accounts \cup Companies

FaultKinds == {"insert", "dedup", "lookup", "claim", "claimReply", "read",
               "grant", "grantReply", "release", "undedup", "markFailed",
               "crash"}

ASSUME PaymentsAssumption ==
    /\ Studios \cap (Accounts \cup Companies) = {}
    /\ Accounts \cap Companies = {}
    /\ NoOrder \notin Orders
    /\ BuyerOf \in [Orders -> Buyers]
    /\ PlanOf \in [Orders -> Plans]
    /\ Flaky \subseteq Orders
    /\ AdminTerms \subseteq Nat
    /\ Faults \subseteq FaultKinds
    /\ MaxFaults \in Nat /\ MaxNow \in Nat /\ Period \in Nat \ {0}

(* Some definitions are preceded by a variant with a longer name: a        *)
(* plausible mistake in the same line of code, which the properties must   *)
(* tell from the code.  No specification uses the variants.                *)

VARIABLES
    now,       \* the clock
    row,       \* status of the payment row; CHECKED: the buyer may have an
               \* order, no row yet; REFUSED: the insert failed
    licence,   \* licences: plan (and the seats that go with it), expires_at
    verified,  \* accounts whose identity_licences say AORMS_IDENTITY
    company,   \* status of the ConnectDeX companies
    events,    \* what Razorpay reports: one record per order and outcome
    acked,     \* events Razorpay got a 2xx for
    dedup,     \* razorpay_webhook_events
    confirmed, \* orders whose Checkout success handler has called the server
    pc, job,   \* per request: its next step, and what it works on
    term,      \* per request: the local newExpiry of applyCapturedPayment
    grants,    \* how often the entitlement of an order was written
    faults     \* failures so far

entitlements == <<licence, verified, company>>
vars == <<now, row, entitlements, events, acked, dedup, confirmed,
          pc, job, term, grants, faults>>

Rowless == {"NONE", "CHECKED", "REFUSED"}
Statuses == Rowless \cup {"CREATED", "AUTHORIZED", "CAPTURED", "FAILED"}
CompanyStatuses == {"PENDING_ONBOARDING", "PENDING_VERIFICATION",
                    "PENDING_PAYMENT", "ACTIVE"}
Steps == {"idle", "dedup", "lookup", "claim", "read", "grant", "release",
          "catch", "markFailed"}
Reports == [via : {"captured", "failed"}, order : Orders]
Jobs == [via : {"captured", "failed", "confirm"}, order : Orders]
NoJob == [via |-> "none", order |-> NoOrder]
Captured(o) == [via |-> "captured", order |-> o]
Failed(o) == [via |-> "failed", order |-> o]

Paid == {o \in Orders : Captured(o) \in events}
IsLicence(o) == BuyerOf[o] \in Studios

\* A null expires_at is 0: both lie in the past.
Unlicensed == [plan |-> "FREE", expires |-> 0]
Later(m, n) == IF m > n THEN m ELSE n

TypeOK ==
    /\ now \in Nat
    /\ row \in [Orders -> Statuses]
    /\ licence \in [Studios -> [plan : Plans \cup {"FREE"}, expires : Nat]]
    /\ verified \subseteq Accounts
    /\ company \in [Companies -> CompanyStatuses]
    /\ events \subseteq Reports
    /\ acked \subseteq events
    /\ dedup \subseteq events
    /\ confirmed \subseteq Orders
    /\ pc \in [Requests -> Steps]
    /\ job \in [Requests -> Jobs \cup {NoJob}]
    /\ term \in [Requests -> Nat]
    /\ grants \in [Orders -> Nat]
    /\ faults \in Nat

Init ==
    /\ now = 1
    /\ row = [o \in Orders |-> "NONE"]
    /\ licence = [s \in Studios |-> Unlicensed]
    /\ verified = {}
    /\ company = [c \in Companies |-> "PENDING_ONBOARDING"]
    /\ events = {} /\ acked = {} /\ dedup = {} /\ confirmed = {}
    /\ pc = [p \in Requests |-> "idle"]
    /\ job = [p \in Requests |-> NoJob]
    /\ term = [p \in Requests |-> 0]
    /\ grants = [o \in Orders |-> 0]
    /\ faults = 0

-------------------------------------------------------------------------------
(* A step either goes well or, while failures are left, fails in one of    *)
(* the ways Faults allows.  "...Reply" is a write that the database did    *)
(* and whose answer was lost: supabase-js reports it as an error too.      *)

Works == UNCHANGED faults
Fault(kind) == /\ kind \in Faults
               /\ faults < MaxFaults
               /\ faults' = faults + 1

Goto(p, step) == /\ pc' = [pc EXCEPT ![p] = step]
                 /\ UNCHANGED <<job, acked>>

RespondToAnyone(p, ok) ==
    /\ pc' = [pc EXCEPT ![p] = "idle"]
    /\ job' = [job EXCEPT ![p] = NoJob]
    /\ acked' = IF ok THEN acked \cup {job[p]} ELSE acked

\* The request ends.  Razorpay stops retrying an event it got a 2xx for.
Respond(p, ok) ==
    /\ pc' = [pc EXCEPT ![p] = "idle"]
    /\ job' = [job EXCEPT ![p] = NoJob]
    /\ acked' = IF ok /\ job[p].via # "confirm" THEN acked \cup {job[p]}
                                                ELSE acked

-------------------------------------------------------------------------------
(* The buyer, Razorpay and the clock.                                      *)

\* The state of the buyer is read, the order is made at Razorpay, and then its
\* row is inserted.
CheckBuyer(o) ==
    /\ row[o] = "NONE"
    /\ row' = [row EXCEPT ![o] = "CHECKED"]
    /\ UNCHANGED <<now, entitlements, events, acked, dedup, confirmed,
                   pc, job, term, grants, faults>>

InsertRow(o, from, accepted) ==
    /\ row[o] = from
    /\ \/ /\ Works
          /\ row' = [row EXCEPT ![o] = IF accepted THEN "CREATED" ELSE "REFUSED"]
       \/ /\ Fault("insert")
          /\ row' = [row EXCEPT ![o] = "REFUSED"]
    /\ UNCHANGED <<now, entitlements, events, acked, dedup, confirmed,
                   pc, job, term, grants>>

\* A licence is renewed as often as its owner likes, so there is nothing to
\* check; an identity and an onboarding are not sold to who has them.
CreateLicenceOrder(o) ==
    /\ BuyerOf[o] \in Studios
    /\ InsertRow(o, "NONE", PlanOf[o] \in AcceptedPlans)

CheckIdentity(o) == BuyerOf[o] \in Accounts \ verified /\ CheckBuyer(o)
CreateIdentityOrder(o) ==
    BuyerOf[o] \in Accounts /\ InsertRow(o, "CHECKED", TRUE)

CheckCompanyExists(o) == BuyerOf[o] \in Companies /\ CheckBuyer(o)
CheckCompany(o) ==
    /\ BuyerOf[o] \in Companies /\ company[BuyerOf[o]] = "PENDING_PAYMENT"
    /\ CheckBuyer(o)
CreateConnectDexOnboardingOrder(o) ==
    BuyerOf[o] \in Companies /\ InsertRow(o, "CHECKED", TRUE)

CheckoutOpen(o) == row[o] \notin Rowless /\ o \notin Paid

FailAttempt(o) ==
    /\ o \in Flaky /\ CheckoutOpen(o)
    /\ Failed(o) \notin events
    /\ events' = events \cup {Failed(o)}
    /\ UNCHANGED <<now, row, entitlements, acked, dedup, confirmed,
                   pc, job, term, grants, faults>>

Capture(o) ==
    /\ CheckoutOpen(o)
    /\ events' = events \cup {Captured(o)}
    /\ UNCHANGED <<now, row, entitlements, acked, dedup, confirmed,
                   pc, job, term, grants, faults>>

Tick ==
    /\ now < MaxNow
    /\ now' = now + 1
    /\ UNCHANGED <<row, entitlements, events, acked, dedup, confirmed,
                   pc, job, term, grants, faults>>

\* adminUpdateLicence overwrites plan and expiry with what the form says.
AdminUpdateLicence(s) ==
    /\ \E plan \in Plans, t \in AdminTerms :
          licence' = [licence EXCEPT ![s] = [plan |-> plan, expires |-> t]]
    /\ UNCHANGED <<now, row, verified, company, events, acked, dedup, confirmed,
                   pc, job, term, grants, faults>>

Onboard(c, from, to) ==
    /\ company[c] \in from
    /\ company' = [company EXCEPT ![c] = to]
    /\ UNCHANGED <<now, row, licence, verified, events, acked, dedup,
                   confirmed, pc, job, term, grants, faults>>

SubmitConnectDexOnboardingForm(c) ==
    Onboard(c, {"PENDING_ONBOARDING"}, "PENDING_VERIFICATION")
AdminVerifyConnectDexCompany(c) ==
    Onboard(c, {"PENDING_VERIFICATION"}, "PENDING_PAYMENT")
\* An override that needs no payment.
AdminActivateCompany(c) ==
    AdminTerms # {} /\ Onboard(c, CompanyStatuses \ {"ACTIVE"}, "ACTIVE")

-------------------------------------------------------------------------------
(* Requests.                                                               *)

Begin(p, work, step) ==
    /\ pc[p] = "idle"
    /\ pc' = [pc EXCEPT ![p] = step]
    /\ job' = [job EXCEPT ![p] = work]
    /\ UNCHANGED <<now, row, entitlements, events, acked, dedup,
                   term, grants, faults>>

\* Razorpay delivers at least once: again until it gets a 2xx, and it may
\* deliver again after one.
Deliver(p, e) ==
    /\ e \in events
    /\ Begin(p, e, "dedup")
    /\ UNCHANGED confirmed

\* The success handler of Checkout calls the server once, or never.
Confirm(p, o, buyers) ==
    /\ o \in Paid \ confirmed
    /\ BuyerOf[o] \in buyers
    /\ confirmed' = confirmed \cup {o}
    /\ Begin(p, [via |-> "confirm", order |-> o], "lookup")

ConfirmPaymentClientSide(p, o) == Confirm(p, o, Studios)
ConfirmIdentityPaymentClientSide(p, o) == Confirm(p, o, Accounts)
ConfirmConnectDexPaymentClientSide(p, o) == Confirm(p, o, Companies)

Dedup(p) ==
    /\ pc[p] = "dedup"
    /\ LET process == Goto(p, IF job[p].via = "failed" THEN "markFailed"
                                                       ELSE "lookup")
       IN  \/ Works /\ job[p] \in dedup /\ Respond(p, TRUE) /\ UNCHANGED dedup
           \/ Works /\ job[p] \notin dedup /\ process
                    /\ dedup' = dedup \cup {job[p]}
           \/ Fault("dedup") /\ process /\ UNCHANGED dedup
    /\ UNCHANGED <<now, row, entitlements, events, confirmed, term, grants>>

\* The webhook ignores the error of its reads: a failed one looks like an
\* order of no table, and is answered 200.
Lookup(p) ==
    /\ pc[p] = "lookup"
    /\ \/ Works /\ row[job[p].order] = "CAPTURED" /\ Respond(p, TRUE)
       \/ Works /\ row[job[p].order] # "CAPTURED" /\ Goto(p, "claim")
       \/ Fault("lookup") /\ Respond(p, TRUE)
    /\ UNCHANGED <<now, row, entitlements, events, dedup, confirmed,
                   term, grants>>

\* UPDATE ... SET status = CAPTURED WHERE status <> CAPTURED
ClaimableAlways(o) == TRUE
Claimable(o) == row[o] # "CAPTURED"

Claim(p) ==
    LET o == job[p].order
        take == row' = [row EXCEPT ![o] = "CAPTURED"]
    IN  /\ pc[p] = "claim"
        /\ \/ Works /\ ~ Claimable(o) /\ Respond(p, TRUE) /\ UNCHANGED row
           \/ Works /\ Claimable(o) /\ take
                    /\ Goto(p, IF IsLicence(o) THEN "read" ELSE "grant")
           \/ Fault("claim") /\ Goto(p, "catch") /\ UNCHANGED row
           \/ Fault("claimReply") /\ Goto(p, "catch") /\ take
        /\ UNCHANGED <<now, entitlements, events, dedup, confirmed,
                       term, grants>>

NewExpiryFromNow(s) == now + Period
NewExpiryFromOld(s) == licence[s].expires + Period
NewExpiry(s) == Later(now, licence[s].expires) + Period

ReadExpiry(p) ==
    /\ pc[p] = "read"
    /\ \/ /\ Works /\ Goto(p, "grant")
          /\ term' = [term EXCEPT ![p] = NewExpiry(BuyerOf[job[p].order])]
       \/ Fault("read") /\ Goto(p, "release") /\ UNCHANGED term
    /\ UNCHANGED <<now, row, entitlements, events, dedup, confirmed, grants>>

WriteLicence(p, o) ==
    /\ BuyerOf[o] \in Studios
    /\ licence' = [licence EXCEPT ![BuyerOf[o]] =
                     [plan |-> PlanOf[o], expires |-> term[p]]]
    /\ UNCHANGED <<verified, company>>

WriteIdentity(o) ==
    /\ BuyerOf[o] \in Accounts
    /\ verified' = verified \cup {BuyerOf[o]}
    /\ UNCHANGED <<licence, company>>

\* UPDATE ... SET status = ACTIVE WHERE status = PENDING_PAYMENT
WriteCompany(o) ==
    /\ BuyerOf[o] \in Companies
    /\ company' = [company EXCEPT ![BuyerOf[o]] =
                     IF @ = "PENDING_PAYMENT" THEN "ACTIVE" ELSE @]
    /\ UNCHANGED <<licence, verified>>

WriteEntitlement(p) ==
    LET o == job[p].order
    IN  /\ grants' = [grants EXCEPT ![o] = @ + 1]
        /\ WriteLicence(p, o) \/ WriteIdentity(o) \/ WriteCompany(o)

Grant(p) ==
    /\ pc[p] = "grant"
    /\ \/ Works /\ WriteEntitlement(p) /\ Respond(p, TRUE)
       \/ Fault("grant") /\ Goto(p, "release")
                         /\ UNCHANGED <<entitlements, grants>>
       \/ Fault("grantReply") /\ WriteEntitlement(p) /\ Goto(p, "release")
    /\ term' = [term EXCEPT ![p] = 0]
    /\ UNCHANGED <<now, row, events, dedup, confirmed>>

\* The release is unconditional and its own error is not looked at.
UnclaimForgotten(o) == UNCHANGED row
Unclaim(o) == row' = [row EXCEPT ![o] = "AUTHORIZED"]

Release(p) ==
    /\ pc[p] = "release"
    /\ \/ Works /\ Unclaim(job[p].order)
       \/ Fault("release") /\ UNCHANGED row
    /\ Goto(p, "catch")
    /\ UNCHANGED <<now, entitlements, events, dedup, confirmed, term, grants>>

\* The webhook deletes its dedup row and answers 500; the confirmation
\* reports an error to the browser.
ForgetNothing(e) == UNCHANGED dedup
Forget(e) == dedup' = dedup \ {e}

CatchAnswered(p) ==
    /\ pc[p] = "catch"
    /\ Works /\ Forget(job[p]) /\ Respond(p, TRUE)
    /\ UNCHANGED <<now, row, entitlements, events, confirmed, term, grants>>
Catch(p) ==
    /\ pc[p] = "catch"
    /\ \/ Works /\ Forget(job[p])
       \/ Fault("undedup") /\ UNCHANGED dedup
    /\ Respond(p, FALSE)
    /\ UNCHANGED <<now, row, entitlements, events, confirmed, term, grants>>

\* payment.failed: an update with no condition on the status.
MarkFailed(p) ==
    /\ pc[p] = "markFailed"
    /\ \/ Works /\ row' = [row EXCEPT ![job[p].order] = "FAILED"]
       \/ Fault("markFailed") /\ UNCHANGED row
    /\ Respond(p, TRUE)
    /\ UNCHANGED <<now, entitlements, events, dedup, confirmed, term, grants>>

\* The process serving the request dies: no answer, nothing is undone.
Crash(p) ==
    /\ pc[p] # "idle"
    /\ Fault("crash")
    /\ Respond(p, FALSE)
    /\ term' = [term EXCEPT ![p] = 0]
    /\ UNCHANGED <<now, row, entitlements, events, dedup, confirmed, grants>>

-------------------------------------------------------------------------------
HandlerStep(p) ==
    \/ Dedup(p) \/ Lookup(p) \/ Claim(p) \/ ReadExpiry(p) \/ Grant(p)
    \/ Release(p) \/ Catch(p) \/ MarkFailed(p)

OrderStep(o) ==
    \/ CreateLicenceOrder(o)
    \/ CheckIdentity(o) \/ CreateIdentityOrder(o)
    \/ CheckCompany(o) \/ CreateConnectDexOnboardingOrder(o)
    \/ FailAttempt(o) \/ Capture(o)

CompanyStep(c) ==
    \/ SubmitConnectDexOnboardingForm(c) \/ AdminVerifyConnectDexCompany(c)
    \/ AdminActivateCompany(c)

BeginStep(p) ==
    \/ \E e \in events : Deliver(p, e)
    \/ \E o \in Orders : \/ ConfirmPaymentClientSide(p, o)
                         \/ ConfirmIdentityPaymentClientSide(p, o)
                         \/ ConfirmConnectDexPaymentClientSide(p, o)

Next ==
    \/ Tick
    \/ \E s \in Studios : AdminUpdateLicence(s)
    \/ \E c \in Companies : CompanyStep(c)
    \/ \E o \in Orders : OrderStep(o)
    \/ \E p \in Requests : BeginStep(p) \/ HandlerStep(p) \/ Crash(p)

Spec == Init /\ [][Next]_vars

\* A running request keeps running, and Razorpay keeps delivering what it got
\* no 2xx for.
Redeliver(e) == e \notin acked /\ \E p \in Requests : Deliver(p, e)
Fairness ==
    /\ \A p \in Requests : WF_vars(HandlerStep(p))
    /\ \A e \in Reports : SF_vars(Redeliver(e))
FairSpec == Spec /\ Fairness

-------------------------------------------------------------------------------
(* Properties.                                                             *)

Works_on(p, o) == job[p].order = o
Holds(p, o) == Works_on(p, o) /\ pc[p] \in {"read", "grant", "release"}

\* A payment buys its entitlement once, however often the webhook is delivered
\* and whatever the confirmation does meanwhile: of all the requests that find
\* the row unclaimed only one gets past the conditional update, and none after
\* a grant.  The two ways around it are excluded: an attempt of the same order
\* that failed, whose late event takes the claim away, and a write that
\* succeeded but was reported as an error.
GrantOnce ==
    "grantReply" \notin Faults =>
        \A o \in Orders \ Flaky : grants[o] <= 1

\* A row that says CAPTURED has been paid out, or somebody is about to: the
\* rest of the code takes CAPTURED for "done" and never looks again.  True as
\* long as a claim cannot be orphaned.
CapturedMeansGranted ==
    Faults \cap {"claimReply", "release", "crash"} = {} =>
        \A o \in Orders :
            row[o] = "CAPTURED" =>
                grants[o] > 0 \/ \E p \in Requests : Holds(p, o)

\* A payment nobody is working on and that bought nothing yet can still be
\* applied: its row does not look captured, and a retry of Razorpay, which
\* comes until there was a 200, will not be taken for a replay.
NotDropped ==
    \A o \in Paid :
        grants[o] = 0 /\ (\A p \in Requests : ~ Works_on(p, o)) =>
            /\ row[o] # "CAPTURED"
            /\ Captured(o) \in dedup => Captured(o) \in acked

\* Whenever Razorpay is told 200 for a payment that bought nothing yet, another
\* request is at work on it.  That request may fail: EventuallyGranted.
AckedAtWork ==
    [][\A o \in Orders :
        Captured(o) \in acked' \ acked /\ grants'[o] = 0 =>
            \E q \in Requests :
                Works_on(q, o)' /\ pc'[q] \notin {"idle", "dedup"}]_vars

\* An onboarding fee that was applied has made its company ACTIVE, although the
\* update does so from PENDING_PAYMENT only: whatever the administrators do in
\* between, no company is elsewhere once its order could be made.
PaidCompanyActive ==
    \A o \in Orders :
        BuyerOf[o] \in Companies /\ grants[o] > 0 =>
            company[BuyerOf[o]] = "ACTIVE"

\* GrantOnce without exceptions, as the comment of confirmPaymentClientSide has
\* it: whichever path runs first wins and the other is a no-op.
AppliedOnce == \A o \in Orders : grants[o] <= 1

\* A licence payment adds a whole period to what the studio still has, as the
\* comment of applyCapturedPayment says.  Two payments of one studio at once do
\* not: both read the expiry before either writes it.
RenewalExtends ==
    [][\A o \in Orders :
        IsLicence(o) /\ grants'[o] > grants[o] =>
            LET s == BuyerOf[o]
            IN  licence'[s].expires >= licence[s].expires + Period]_vars

\* Every payment Razorpay captured is applied in the end, as the message of a
\* confirmation that could not apply it promises.  This fails when the webhook
\* is answered while the confirmation holds a claim it has to release.
EventuallyGranted == \A o \in Orders : (o \in Paid) ~> (grants[o] > 0)

\* The platform, seen from outside: see Entitlements.
Sold == INSTANCE Entitlements WITH
            paid <- Paid,
            granted <- {o \in Orders : grants[o] > 0},
            expires <- [s \in Studios |-> licence[s].expires]
Entitles == Sold!Spec
EntitlesInTheEnd == Sold!FairSpec
===============================================================================
