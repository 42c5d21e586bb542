----------------------------- MODULE Governance -----------------------------
(***************************************************************************)
(* The circuit breaker and the two kinds of durable human approval:         *)
(*   governance/circuit_breaker.py     pause, resume                        *)
(*   governance/admin_governance.py    the quorum that resume spends        *)
(*   governance/execution_approval.py  an approval for one execution        *)
(*                                                                          *)
(* A call is a process; every commit, and every read whose result is used   *)
(* after it, is an action.  An organisation stands for the code's pair      *)
(* (tenant_id, organisation_id), so a scope check covers both.              *)
(*                                                                          *)
(* An administrative approval is a signed record that no table holds until  *)
(* it is consumed: Signed gives what each one says, issued which signatures *)
(* exist, and a record whose signature does not exist is a forgery.         *)
(***************************************************************************)
EXTENDS Naturals, Sequences, FiniteSets

CONSTANTS
    Orgs,           \* organisations with a breaker
    Approvals,      \* ids of administrative approvals
    Approvers,      \* administrative identities
    Signed,         \* what an approval binds
    ResumeCalls,    \* calls of SystemCircuitBreaker.resume at once
    PauseCalls,     \* calls of SystemCircuitBreaker.pause at once
    ExecApprovals,  \* ids of execution approvals
    Intents,        \* everything an execution approval is bound to, as one value
    Bound,          \* the intent an execution approval is bound to
    ConsumeCalls,   \* calls of ExecutionApprovalManager.verify_and_consume
    MaxPauses,      \* bound on pauses
    MaxCrashes,     \* bound on resumptions that die half-way
    None            \* no value

Actions == {"CIRCUIT_BREAKER_RESUME", "OTHER"}

ASSUME ConstantsOK ==
    /\ Signed \in [Approvals -> [org : Orgs, action : Actions, payload : Orgs, approver : Approvers]]
    /\ Bound \in [ExecApprovals -> Intents]
    /\ IsFiniteSet(ResumeCalls)
    /\ MaxPauses \in Nat
    /\ MaxCrashes \in Nat
    /\ None \notin Orgs
    /\ None \notin ExecApprovals

VARIABLES
    breaker,    \* system_circuit_breaker.state of each organisation
    audit,      \* circuit_breaker_audit, in the order of the commits
    clock,      \* stamps taken so far: the time of datetime.now
    issued,     \* administrative approvals that were signed
    expired,    \* approvals of either kind past expires_at
    consumed,   \* administrative approvals with consumed = 1
    rpc, rorg, rquorum, rleft, rat, rbefore, \* a resume call and what it holds
    ppc, porg, pat, pbefore,                 \* a pause call and what it holds
    contested,  \* history: organisations two calls wrote about at once
    pauses, crashes,
    durable,    \* rows of execution_approvals
    used,       \* of those, the ones with consumed = 1
    carg,       \* the execution approval a consuming call has checked
    granted     \* how many callers were told that the approval is theirs

breakerVars == <<breaker, audit>>
clockVars == <<clock, contested>>
adminVars == <<issued, consumed>>
resumeVars == <<rpc, rorg, rquorum, rleft, rat, rbefore, crashes>>
pauseVars == <<ppc, porg, pat, pbefore, pauses>>
execVars == <<durable, used, carg, granted>>
governanceVars == <<breaker, audit, clock, contested, issued, expired, consumed, rpc, rorg, rquorum,
                    rleft, rat, rbefore, ppc, porg, pat, pbefore, pauses, crashes,
                    durable, used, carg, granted>>

GovernanceInit ==
    /\ breaker = [o \in Orgs |-> "NORMAL"]
    /\ audit = <<>>
    /\ clock = 0
    /\ contested = {}
    /\ issued = {}
    /\ expired = {}
    /\ consumed = {}
    /\ rpc = [r \in ResumeCalls |-> "idle"]
    /\ rorg = [r \in ResumeCalls |-> None]
    /\ rquorum = [r \in ResumeCalls |-> {}]
    /\ rleft = [r \in ResumeCalls |-> {}]
    /\ rat = [r \in ResumeCalls |-> 0]
    /\ rbefore = [r \in ResumeCalls |-> "NORMAL"]
    /\ ppc = [p \in PauseCalls |-> "idle"]
    /\ porg = [p \in PauseCalls |-> None]
    /\ pat = [p \in PauseCalls |-> 0]
    /\ pbefore = [p \in PauseCalls |-> "NORMAL"]
    /\ pauses = 0
    /\ crashes = 0
    /\ durable = {}
    /\ used = {}
    /\ carg = [c \in ConsumeCalls |-> None]
    /\ granted = [e \in ExecApprovals |-> 0]

-----------------------------------------------------------------------------
(* Administrative approvals *)

\* create_approval signs and returns; nothing is written.
CreateApproval(a) ==
    /\ a \notin issued
    /\ issued' = issued \cup {a}
    /\ UNCHANGED <<breakerVars, clockVars, expired, consumed, resumeVars, pauseVars, execVars>>

\* The clock passes expires_at of an approval of either kind.
Expire(a) ==
    /\ a \in (issued \cup durable) \ expired
    /\ expired' = expired \cup {a}
    /\ UNCHANGED <<breakerVars, adminVars, clockVars, resumeVars, pauseVars, execVars>>

\* verify_single_approval: scope, action and payload of an approval to resume o.
BindsResume(a, o) ==
    /\ Signed[a].org = o
    /\ Signed[a].action = "CIRCUIT_BREAKER_RESUME"
    /\ Signed[a].payload = o

\* The distinct-approver check of verify_and_consume_quorum.
DistinctApprovers(q) ==
    \A a, b \in q : a # b => Signed[a].approver # Signed[b].approver

\* What resume and verify_and_consume_quorum accept for o, whatever the time.
Quorums ==
    [o \in Orgs |->
        {q \in SUBSET Approvals :
            /\ \E a, b \in q : a # b
            /\ DistinctApprovers(q)
            /\ \A a \in q : BindsResume(a, o)}]

-----------------------------------------------------------------------------
(* SystemCircuitBreaker.resume *)

\* Calls of o between the time they took as created_at and their commit.
Writing(o) ==
    {p \in PauseCalls : ppc[p] # "idle" /\ porg[p] = o}
        \cup {r \in ResumeCalls : rpc[r] \in {"read", "write"} /\ rorg[r] = o}

\* datetime.now, taken before the state is read and the transaction begins.
Stamp(o) ==
    /\ clock' = clock + 1
    /\ contested' = IF Writing(o) = {} THEN contested ELSE contested \cup {o}

\* The call returns or dies: what it held in memory is gone.
ResumeReturn(r) ==
    /\ rpc' = [rpc EXCEPT ![r] = "idle"]
    /\ rorg' = [rorg EXCEPT ![r] = None]
    /\ rquorum' = [rquorum EXCEPT ![r] = {}]
    /\ rleft' = [rleft EXCEPT ![r] = {}]
    /\ rat' = [rat EXCEPT ![r] = 0]
    /\ rbefore' = [rbefore EXCEPT ![r] = "NORMAL"]

\* Counts, identities, bindings, expiry and signatures; a call that fails one
\* of these raises and changes nothing.
ResumeStart(r, o, q) ==
    /\ rpc[r] = "idle"
    /\ q \subseteq issued
    /\ q \cap expired = {}
    /\ rpc' = [rpc EXCEPT ![r] = "verify"]
    /\ rorg' = [rorg EXCEPT ![r] = o]
    /\ rquorum' = [rquorum EXCEPT ![r] = q]
    /\ rleft' = [rleft EXCEPT ![r] = q]
    /\ UNCHANGED <<breakerVars, adminVars, clockVars, expired, rat, rbefore,
                   crashes, pauseVars, execVars>>

\* One SELECT consumed per approval.
Fresh(a) == a \notin consumed

ResumeVerify(r) ==
    /\ rpc[r] = "verify"
    /\ \E a \in rleft[r] :
        /\ Fresh(a)
        /\ rleft' = [rleft EXCEPT ![r] = @ \ {a}]
        /\ rpc' = [rpc EXCEPT ![r] = IF rleft[r] = {a} THEN "consume" ELSE "verify"]
    /\ UNCHANGED <<breakerVars, adminVars, clockVars, expired, rorg, rquorum, rat, rbefore,
                   crashes, pauseVars, execVars>>

\* A consumed approval: verify_and_consume_quorum returns False and resume raises.
ResumeRejected(r) ==
    /\ rpc[r] = "verify"
    /\ \E a \in rleft[r] : ~Fresh(a)
    /\ ResumeReturn(r)
    /\ UNCHANGED <<breakerVars, adminVars, clockVars, expired, crashes, pauseVars, execVars>>

\* mutant: the approvals are recorded and left unconsumed.
ResumeConsumeUnmarked(r) ==
    /\ rpc[r] = "consume"
    /\ rpc' = [rpc EXCEPT ![r] = "stamp"]
    /\ UNCHANGED <<breakerVars, adminVars, clockVars, expired, rorg, rquorum, rleft, rat, rbefore,
                   crashes, pauseVars, execVars>>

\* The upsert that marks every approval, without looking at consumed again.
ResumeConsume(r) ==
    /\ rpc[r] = "consume"
    /\ consumed' = consumed \cup rquorum[r]
    /\ rpc' = [rpc EXCEPT ![r] = "stamp"]
    /\ UNCHANGED <<breakerVars, issued, clockVars, expired, rorg, rquorum, rleft, rat, rbefore,
                   crashes, pauseVars, execVars>>

ResumeStamp(r) ==
    /\ rpc[r] = "stamp"
    /\ Stamp(rorg[r])
    /\ rat' = [rat EXCEPT ![r] = clock + 1]
    /\ rpc' = [rpc EXCEPT ![r] = "read"]
    /\ UNCHANGED <<breakerVars, adminVars, expired, rorg, rquorum, rleft, rbefore, crashes, pauseVars,
                   execVars>>

\* mutant: a resumption is taken to find the organisation paused.
ResumeReadAssumed(r) ==
    /\ rpc[r] = "read"
    /\ rbefore' = [rbefore EXCEPT ![r] = "PAUSED"]
    /\ rpc' = [rpc EXCEPT ![r] = "write"]
    /\ UNCHANGED <<breakerVars, adminVars, clockVars, expired, rorg, rquorum, rleft, rat, crashes,
                   pauseVars, execVars>>

ResumeRead(r) ==
    /\ rpc[r] = "read"
    /\ rbefore' = [rbefore EXCEPT ![r] = breaker[rorg[r]]]
    /\ rpc' = [rpc EXCEPT ![r] = "write"]
    /\ UNCHANGED <<breakerVars, adminVars, clockVars, expired, rorg, rquorum, rleft, rat, crashes,
                   pauseVars, execVars>>

\* created_at is the stamp, not the time of the commit.
Record(o, quorum, at, before, after) ==
    [org |-> o, quorum |-> quorum, at |-> at, before |-> before, after |-> after]

\* One transaction: the state row and its audit record.
ResumeWrite(r) ==
    /\ rpc[r] = "write"
    /\ breaker' = [breaker EXCEPT ![rorg[r]] = "NORMAL"]
    /\ audit' = Append(audit, Record(rorg[r], rquorum[r], rat[r], rbefore[r], "NORMAL"))
    /\ ResumeReturn(r)
    /\ UNCHANGED <<adminVars, clockVars, expired, crashes, pauseVars, execVars>>

\* The process dies: its commits stay, the call is gone.
ResumeCrash(r) ==
    /\ rpc[r] # "idle"
    /\ crashes < MaxCrashes
    /\ crashes' = crashes + 1
    /\ ResumeReturn(r)
    /\ UNCHANGED <<breakerVars, adminVars, clockVars, expired, pauseVars, execVars>>

-----------------------------------------------------------------------------
(* SystemCircuitBreaker.pause *)

PauseStart(p, o) ==
    /\ ppc[p] = "idle"
    /\ pauses < MaxPauses
    /\ pauses' = pauses + 1
    /\ Stamp(o)
    /\ pat' = [pat EXCEPT ![p] = clock + 1]
    /\ ppc' = [ppc EXCEPT ![p] = "read"]
    /\ porg' = [porg EXCEPT ![p] = o]
    /\ UNCHANGED <<breakerVars, adminVars, expired, pbefore, resumeVars, execVars>>

PauseRead(p) ==
    /\ ppc[p] = "read"
    /\ pbefore' = [pbefore EXCEPT ![p] = breaker[porg[p]]]
    /\ ppc' = [ppc EXCEPT ![p] = "write"]
    /\ UNCHANGED <<breakerVars, adminVars, clockVars, expired, porg, pat, pauses, resumeVars, execVars>>

PauseReturn(p) ==
    /\ ppc' = [ppc EXCEPT ![p] = "idle"]
    /\ porg' = [porg EXCEPT ![p] = None]
    /\ pat' = [pat EXCEPT ![p] = 0]
    /\ pbefore' = [pbefore EXCEPT ![p] = "NORMAL"]

\* One transaction, whatever the row says by now.
PauseWrite(p) ==
    /\ ppc[p] = "write"
    /\ breaker' = [breaker EXCEPT ![porg[p]] = "PAUSED"]
    /\ audit' = Append(audit, Record(porg[p], {}, pat[p], pbefore[p], "PAUSED"))
    /\ PauseReturn(p)
    /\ UNCHANGED <<adminVars, clockVars, expired, pauses, resumeVars, execVars>>

-----------------------------------------------------------------------------
(* ExecutionApprovalManager *)

\* issue inserts the row; the id is a fresh uuid.
Issue(e) ==
    /\ e \notin durable
    /\ durable' = durable \cup {e}
    /\ UNCHANGED <<breakerVars, adminVars, clockVars, expired, resumeVars, pauseVars, used, carg, granted>>

\* Scope, principal, authority, intent, decision, expiry, signature, and the
\* consumed flag as it is now; a call that fails one returns False.
CheckApproval(c, e, i) ==
    /\ carg[c] = None
    /\ Bound[e] = i
    /\ e \in durable
    /\ e \notin expired
    /\ e \notin used
    /\ carg' = [carg EXCEPT ![c] = e]
    /\ UNCHANGED <<breakerVars, adminVars, clockVars, expired, resumeVars, pauseVars, durable, used, granted>>

\* mutant: the UPDATE without "AND consumed = 0".
ConsumeApprovalUnconditionally(c) ==
    /\ carg[c] # None
    /\ used' = used \cup {carg[c]}
    /\ granted' = [granted EXCEPT ![carg[c]] = @ + 1]
    /\ carg' = [carg EXCEPT ![c] = None]
    /\ UNCHANGED <<breakerVars, adminVars, clockVars, expired, resumeVars, pauseVars, durable>>

\* UPDATE ... WHERE consumed = 0, and its row count.
ConsumeApproval(c) ==
    /\ carg[c] # None
    /\ used' = used \cup {carg[c]}
    /\ granted' = [granted EXCEPT ![carg[c]] = IF carg[c] \in used THEN @ ELSE @ + 1]
    /\ carg' = [carg EXCEPT ![c] = None]
    /\ UNCHANGED <<breakerVars, adminVars, clockVars, expired, resumeVars, pauseVars, durable>>

-----------------------------------------------------------------------------
GovernanceNext ==
    \/ \E a \in Approvals : CreateApproval(a)
    \/ \E a \in Approvals \cup ExecApprovals : Expire(a)
    \/ \E r \in ResumeCalls :
        \/ \E o \in Orgs : \E q \in Quorums[o] : ResumeStart(r, o, q)
        \/ ResumeVerify(r)
        \/ ResumeRejected(r)
        \/ ResumeConsume(r)
        \/ ResumeStamp(r)
        \/ ResumeRead(r)
        \/ ResumeWrite(r)
        \/ ResumeCrash(r)
    \/ \E p \in PauseCalls :
        \/ \E o \in Orgs : PauseStart(p, o)
        \/ PauseRead(p)
        \/ PauseWrite(p)
    \/ \E e \in ExecApprovals : Issue(e)
    \/ \E c \in ConsumeCalls :
        \/ \E e \in ExecApprovals, i \in Intents : CheckApproval(c, e, i)
        \/ ConsumeApproval(c)

GovernanceSpec == GovernanceInit /\ [][GovernanceNext]_governanceVars

-----------------------------------------------------------------------------
(* Properties *)

States == {"NORMAL", "PAUSED"}

Records == [org : Orgs, quorum : SUBSET Approvals, at : Nat, before : States, after : States]

BreakerTypeOK ==
    /\ breaker \in [Orgs -> States]
    /\ audit \in Seq(Records)
    /\ clock \in Nat
    /\ contested \subseteq Orgs
    /\ issued \subseteq Approvals
    /\ expired \subseteq Approvals \cup ExecApprovals
    /\ consumed \subseteq Approvals

CallTypeOK ==
    /\ rpc \in [ResumeCalls -> {"idle", "verify", "consume", "stamp", "read", "write"}]
    /\ rorg \in [ResumeCalls -> Orgs \cup {None}]
    /\ rquorum \in [ResumeCalls -> SUBSET Approvals]
    /\ rleft \in [ResumeCalls -> SUBSET Approvals]
    /\ rat \in [ResumeCalls -> Nat]
    /\ rbefore \in [ResumeCalls -> States]
    /\ ppc \in [PauseCalls -> {"idle", "read", "write"}]
    /\ porg \in [PauseCalls -> Orgs \cup {None}]
    /\ pat \in [PauseCalls -> Nat]
    /\ pbefore \in [PauseCalls -> States]
    /\ pauses \in Nat
    /\ crashes \in Nat
    /\ \A r \in ResumeCalls : rpc[r] # "idle" => rorg[r] \in Orgs
    /\ \A p \in PauseCalls : ppc[p] # "idle" => porg[p] \in Orgs

ExecTypeOK ==
    /\ durable \subseteq ExecApprovals
    /\ used \subseteq durable
    /\ carg \in [ConsumeCalls -> durable \cup {None}]
    /\ granted \in [ExecApprovals -> Nat]

\* The state of the breaker, of the approvals and of every call has its type,
\* a running call of circuit_breaker.py names an organisation, and only durable
\* execution approvals are consumed.
GovernanceTypeOK == BreakerTypeOK /\ CallTypeOK /\ ExecTypeOK

\* The records of an organisation, and the newest: list_audit_history orders
\* them by created_at.
Trail(o) == {i \in DOMAIN audit : audit[i].org = o}
Newest(o, i) == i \in Trail(o) /\ \A j \in Trail(o) : audit[j].at <= audit[i].at
Oldest(o, i) == i \in Trail(o) /\ \A j \in Trail(o) : audit[i].at <= audit[j].at

\* j follows i in that order.
Follows(o, i, j) ==
    /\ {i, j} \subseteq Trail(o)
    /\ audit[i].at < audit[j].at
    /\ \A k \in Trail(o) : ~(audit[i].at < audit[k].at /\ audit[k].at < audit[j].at)

\* The newest record ends in the state of the row, and every record begins where
\* the one before it ended, the oldest at NORMAL.
TellsState(o) ==
    /\ Trail(o) = {} => breaker[o] = "NORMAL"
    /\ \A i \in Trail(o) : Newest(o, i) => audit[i].after = breaker[o]
    /\ \A i \in Trail(o) : Oldest(o, i) => audit[i].before = "NORMAL"
    /\ \A i, j \in Trail(o) : Follows(o, i, j) => audit[j].before = audit[i].after

\* The audit trail tells the breaker's history, wherever a call died, of an
\* organisation that no two calls wrote about at once.  created_at and
\* state_before are taken before the transaction (circuit_breaker.py, pause and
\* resume), so it need not tell that of an organisation that was contested.
TrailTellsState == \A o \in Orgs \ contested : TellsState(o)

\* An execution approval is granted to one caller, however many checked it
\* while it was unconsumed (execution_approval.py, verify_and_consume).
ExecutionApprovalSingleUse ==
    \A e \in ExecApprovals :
        /\ granted[e] <= 1
        /\ granted[e] = 1 <=> e \in used

\* The resumptions an approval was spent on.
Resumptions(a) == {i \in DOMAIN audit : a \in audit[i].quorum}

Promise == INSTANCE QuorumBreaker WITH
    state <- breaker, spent <- [a \in Approvals |-> Cardinality(Resumptions(a))],
    Quorum <- Quorums, AtOnce <- Cardinality(ResumeCalls)

\* The breaker keeps its promise (QuorumBreaker): NORMAL again only through a
\* quorum of administrators approving that organisation's resumption, and an
\* approval serves no more resumptions than run at once.  The consumed flags are
\* read one by one and set without looking again (verify_and_consume_quorum), so
\* it may serve several that overlap.
ImplementsQuorumBreaker == Promise!Spec
=============================================================================
