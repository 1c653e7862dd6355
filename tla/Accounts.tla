-------------------------------- MODULE Accounts --------------------------------
(***************************************************************************)
(* The life of a project beside the ledger of its invoices: the status of  *)
(* project_offices (web/lib/actions/activation.ts, lib/project-os.ts) and  *)
(* the gate of its activation, which asks among others that reconciliation *)
(* has found the advance paid.  A Server Action reads in separate calls    *)
(* and then writes by the id of the project alone.                         *)
(***************************************************************************)
EXTENDS Reconcile

CONSTANTS
    Projects,
    Advance,     \* per project: its invoices with is_advance
    Kept,        \* the records the gate looks for that nothing takes back:
                 \* DNA, assessment, approved fee
    Managers     \* requests about projects that can be under way

ASSUME AccountsAssumption ==
    /\ None \notin Projects
    /\ Advance \in [Projects -> SUBSET Invoices]
    /\ "dna" \in Kept /\ Kept \cap {"onboarding", "status", "advance"} = {}

VARIABLES
    stage,    \* project_offices.status, "NONE" before the row
    facts,    \* what has been captured of each project
    doing,    \* per request: what it is about
    target,   \* per request: its project
    from,     \* per request: the status it has read
    to,       \* per request: the status it wants
    checked   \* per request: the checks of the gate that have come back true

officeVars == <<stage, facts, doing, target, from, to, checked>>
officeRequest == <<doing, target, from, to, checked>>
vars == <<reconcileVars, officeVars>>

Stages == {"ENQUIRY", "PROPOSAL", "ACTIVE", "ON_HOLD", "COMPLETED", "CANCELLED"}
Facts == Kept \cup {"onboarding"}
Checks == Facts \cup {"status", "advance"}

OfficeTypeOK ==
    /\ stage \in [Projects -> Stages]
    /\ facts \in [Projects -> SUBSET Facts]
    /\ doing \in [Managers -> {"idle", "move", "gate", "activate"}]
    /\ target \in [Managers -> Projects \cup {None}]
    /\ from \in [Managers -> Stages \cup {None}]
    /\ to \in [Managers -> Stages \cup {None}]
    /\ checked \in [Managers -> SUBSET Checks]

TypeOK == ReconcileTypeOK /\ OfficeTypeOK

Init ==
    /\ ReconcileInit
    /\ stage = [p \in Projects |-> "ENQUIRY"]
    /\ facts = [p \in Projects |-> {}]
    /\ doing = [m \in Managers |-> "idle"]
    /\ target = [m \in Managers |-> None]
    /\ from = [m \in Managers |-> None]
    /\ to = [m \in Managers |-> None]
    /\ checked = [m \in Managers |-> {}]

-------------------------------------------------------------------------------
(* canTransition and the Server Actions.                                    *)

Transitions ==
    [ENQUIRY   |-> {"PROPOSAL", "CANCELLED"},
     PROPOSAL  |-> {"ENQUIRY", "ON_HOLD", "CANCELLED"},
     ACTIVE    |-> {"ON_HOLD", "COMPLETED", "CANCELLED"},
     ON_HOLD   |-> {"ACTIVE", "COMPLETED", "CANCELLED"},
     COMPLETED |-> {},
     CANCELLED |-> {"ENQUIRY"}]

OfficeStart(m, p, what) ==
    /\ doing[m] = "idle"
    /\ requests < MaxRequests
    /\ requests' = requests + 1
    /\ doing' = [doing EXCEPT ![m] = what]
    /\ target' = [target EXCEPT ![m] = p]
    /\ UNCHANGED <<invoices, rows, pc, batch, open, transaction>>

OfficeEnd(m) ==
    /\ doing' = [doing EXCEPT ![m] = "idle"]
    /\ target' = [target EXCEPT ![m] = None]
    /\ from' = [from EXCEPT ![m] = None]
    /\ to' = [to EXCEPT ![m] = None]
    /\ checked' = [checked EXCEPT ![m] = {}]
    /\ UNCHANGED reconcileVars

\* updateProjectStatus: what it reads (from PROPOSAL on there is a DNA to be
\* found by a second call, which never goes away) ...
Move(m, p, new) ==
    /\ new \in Transitions[stage[p]]
    /\ new = "PROPOSAL" => "dna" \in facts[p]
    /\ OfficeStart(m, p, "move")
    /\ from' = [from EXCEPT ![m] = stage[p]]
    /\ to' = [to EXCEPT ![m] = new]
    /\ UNCHANGED <<stage, facts, checked>>

MoveTo(m) ==
    /\ doing[m] = "move"
    /\ stage' = [stage EXCEPT ![target[m]] = to[m]]
    /\ OfficeEnd(m)
    /\ UNCHANGED facts

\* getActivationGate: six reads at the same time, in whatever order they come.
Activate(m, p) ==
    /\ OfficeStart(m, p, "gate")
    /\ UNCHANGED <<stage, facts, from, to, checked>>

HoldsIssued(p, check) ==
    CASE check = "status"  -> stage[p] = "PROPOSAL"
      [] check = "advance" -> \E i \in Advance[p] : paid[i] > 0
      [] OTHER             -> check \in facts[p]

Holds(p, check) ==
    CASE check = "status"  -> stage[p] = "PROPOSAL"
      [] check = "advance" -> \E i \in Advance[p] : status[i] = "PAID"
      [] OTHER             -> check \in facts[p]

Check(m, check) ==
    /\ doing[m] = "gate"
    /\ check \notin checked[m]
    /\ Holds(target[m], check)
    /\ checked' = [checked EXCEPT ![m] = @ \cup {check}]
    /\ doing' = [doing EXCEPT ![m] = IF checked'[m] = Checks THEN "activate" ELSE @]
    /\ UNCHANGED <<reconcileVars, stage, facts, target, from, to>>

\* One false check is enough to answer with its label.
Blocked(m) ==
    /\ doing[m] = "gate"
    /\ \E check \in Checks \ checked[m] : ~Holds(target[m], check)
    /\ OfficeEnd(m)
    /\ UNCHANGED <<stage, facts>>

ActivateNow(m) ==
    /\ doing[m] = "activate"
    /\ stage' = [stage EXCEPT ![target[m]] = "ACTIVE"]
    /\ OfficeEnd(m)
    /\ UNCHANGED facts

\* The records the gate looks for.  Only the onboarding can be undone.
Capture(p, fact) ==
    /\ facts' = [facts EXCEPT ![p] = @ \cup {fact}]
    /\ UNCHANGED <<reconcileVars, stage, officeRequest>>

Reopen(p) ==
    /\ facts' = [facts EXCEPT ![p] = @ \ {"onboarding"}]
    /\ UNCHANGED <<reconcileVars, stage, officeRequest>>

OfficeDies(m) ==
    /\ doing[m] # "idle"
    /\ OfficeEnd(m)
    /\ UNCHANGED <<stage, facts>>

OfficeNext ==
    \/ \E m \in Managers, p \in Projects, new \in Stages : Move(m, p, new)
    \/ \E m \in Managers, p \in Projects : Activate(m, p)
    \/ \E m \in Managers, check \in Checks : Check(m, check)
    \/ \E m \in Managers : MoveTo(m) \/ Blocked(m) \/ ActivateNow(m) \/ OfficeDies(m)
    \/ \E p \in Projects, fact \in Facts : Capture(p, fact)
    \/ \E p \in Projects : Reopen(p)

Next ==
    \/ ReconcileNext /\ UNCHANGED officeVars
    \/ OfficeNext

Spec == Init /\ [][Next]_vars /\ \A s \in Staff : WF_vars(SettleStep(s) /\ UNCHANGED officeVars)

-------------------------------------------------------------------------------
(* Properties.                                                              *)

\* A request that is about to make a project ACTIVE can rely on what nothing
\* takes back: the receipts cover an advance invoice, and the records exist.
\* The gate has read this before, while reconciliation went on.
ActivationCovered ==
    \A m \in Managers : doing[m] = "activate" =>
        /\ \E i \in Advance[target[m]] : Covered(i, paid[i])
        /\ Kept \subseteq facts[target[m]]
===============================================================================
