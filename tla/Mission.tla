------------------------------- MODULE Mission -------------------------------
(***************************************************************************)
(* Missions of one organisation: the create_mission endpoint, run_mission,  *)
(* the OrchestrationEngine, its policy rules, auditor and reputation, and    *)
(* the operator's pause and resume.                                         *)
(*                                                                         *)
(* A mission loads the organisation and its agents once, works on that copy *)
(* (mem) and writes all of it back at each _sync_state.  Missions are       *)
(* requests of a threaded server: several may hold copies of one            *)
(* organisation, and the operator writes the row between two syncs.  A step *)
(* is what one mission does between two points where another can see or     *)
(* change what it uses: the rows, the treasury, the policy profile and the  *)
(* audit chain.  What the agents answer is any of Proposals.                 *)
(***************************************************************************)
EXTENDS Reputation, FiniteSets, Functions

CONSTANTS
    Roster,         \* roles the organisation has an agent for
    Authority,      \* Authority[r]: ceiling an agent is created with
    Granted,        \* Granted[r]: its allowed_action_types
    Policies,       \* policy profiles an owner may activate
    Proposals,      \* [act, target, provider, credits, value]: what the agents may propose
    PolicyTargets,  \* approved_targets of the TargetAllowlistRule
    OutboundTargets,\* the executor's allowlist
    Planned,        \* allocated_credits of the plan's third task
    Budgets,        \* budgets a mission request may ask for
    MaxReplans,     \* max_replan_attempts
    MaxMissions,    \* bound: mission requests
    MaxLive,        \* bound: missions running at once
    Operators,      \* calls of the pause and resume endpoints at once
    MaxEvents       \* bound: pauses, profile changes, aborts and damage to the chain

(* A policy profile, and what an agent proposes.  An empty list allows all. *)
PolicyType ==
    [ceiling : Nat, agentCeiling : Nat, threshold : Nat, perAgent : Nat, total : Nat,
     actions : SUBSET STRING, targets : SUBSET STRING, providers : SUBSET STRING]
ProposalType == [act : STRING, target : STRING, provider : STRING, credits : Nat, value : 0..100]

ASSUME MissionAssumption ==
    /\ IsFiniteSet(Roster) /\ "CEO" \in Roster
    /\ Authority \in [Roster -> Nat] /\ DOMAIN Granted = Roster
    /\ Policies \subseteq PolicyType /\ Policies # {}
    /\ Proposals \subseteq ProposalType /\ Proposals # {}
    /\ {Planned, MaxReplans, MaxMissions, MaxLive, MaxEvents} \subseteq Nat
    /\ Budgets \subseteq Nat \ {0} /\ Budgets # {}

VARIABLES
    row,        \* organisations.state
    agents,     \* agents[r]: row of agents
    perf,       \* perf[r]: composite_score of agent_performance_records, 0 if none
    tasks,      \* tasks[m]: status of mission m's third task as stored
    treasury,   \* ledger balance of TREASURY
    minted,     \* what SYSTEM_MINT put there
    held,       \* held[m]: what m's reservation has in ESCROW
    paid,       \* paid[m]: what m moved on to EXTERNAL_SINK
    receipts,   \* missions with an execution_receipts row
    policy,     \* the active policy profile
    corrupt,    \* the audit chain no longer verifies
    mem,        \* mem[m]: the copy and the place of mission m
    operator,   \* operator[o]: what call o has recorded and is about to write
    overlap,    \* history: missions that ran while another one ran
    events      \* bound: environment events so far

rows == <<row, agents, tasks>>
money == <<treasury, minted, held, paid, receipts>>
missionVars == <<rows, perf, money, policy, corrupt, mem, operator, overlap, events>>

Missions == 1..MaxMissions      \* numbered in the order of their requests
Ended    == {"refused", "raised", "cut", "done"}
Live     == {m \in Missions : mem[m].pc \notin Ended \cup {"idle"}}

OrgStates == {"INITIALIZING", "PLANNING", "EXECUTING", "PAUSED", "COMPLETED", "FAILED"}
Stopped   == {"PAUSED", "FAILED"}

OrgTransitionsLax ==                                                  \* mutant
    [INITIALIZING |-> {"PLANNING", "FAILED"}, PLANNING |-> {"EXECUTING", "PAUSED", "FAILED"},
     EXECUTING |-> {"PLANNING", "PAUSED", "COMPLETED", "FAILED"},
     PAUSED |-> {"EXECUTING", "FAILED", "PLANNING"}, COMPLETED |-> {"PLANNING"}, FAILED |-> {}]

OrgTransitions ==
    [INITIALIZING |-> {"PLANNING", "FAILED"}, PLANNING |-> {"EXECUTING", "PAUSED", "FAILED"},
     EXECUTING |-> {"PLANNING", "PAUSED", "COMPLETED", "FAILED"},
     PAUSED |-> {"EXECUTING", "FAILED"}, COMPLETED |-> {"PLANNING"}, FAILED |-> {}]

NoPolicy   == [ceiling |-> 0, agentCeiling |-> 0, threshold |-> 0, perAgent |-> 0, total |-> 0,
               actions |-> {}, targets |-> {}, providers |-> {}]
NoProposal == [act |-> "none", target |-> "none", provider |-> "none", credits |-> 0,
               value |-> 0]

Recruits == [r \in Roster |-> NewAgent(Authority[r], Granted[r])]

Idle == [pc |-> "idle", org |-> "INITIALIZING", loaded |-> "INITIALIZING", config |-> NoPolicy,
         budget |-> 0, funds |-> 0, agents |-> Recruits, task |-> "PENDING", assignee |-> {},
         alloc |-> 0, attempts |-> 0, ceo |-> 0, calls |-> 0, prop |-> NoProposal]

(* An organisation with its agents and a first policy profile. *)
MissionInit ==
    /\ row = "PLANNING" /\ agents = Recruits /\ perf = [r \in Roster |-> 0]
    /\ tasks = [m \in Missions |-> "PENDING"]
    /\ treasury = 0 /\ minted = 0
    /\ held = [m \in Missions |-> 0] /\ paid = [m \in Missions |-> 0] /\ receipts = {}
    /\ policy \in Policies /\ corrupt = FALSE
    /\ mem = [m \in Missions |-> Idle]
    /\ operator = [o \in Operators |-> "idle"]
    /\ overlap = {} /\ events = 0

-----------------------------------------------------------------------------
(* The organisation's copy and its rows. *)

(* A request that has returned keeps nothing but how it ended. *)
Become(m, s) ==
    mem' = [mem EXCEPT ![m] = IF s.pc \in Ended THEN [Idle EXCEPT !.pc = s.pc] ELSE s]
Raise(m) == Become(m, [mem[m] EXCEPT !.pc = "raised"])

Happens == events < MaxEvents /\ events' = events + 1

(* save_agent leaves allowed_action_types as they were inserted. *)
SaveAgents(copies) == agents' = [r \in Roster |-> [copies[r] EXCEPT !.acts = agents[r].acts]]

SaveOrganisation(s) == row' = s.org
SaveTask(m, s)      == tasks' = [tasks EXCEPT ![m] = s.task]

(* _sync_state: the state, every task and every agent, whatever the rows hold. *)
SyncState(m, s) == SaveOrganisation(s) /\ SaveTask(m, s) /\ SaveAgents(s.agents) /\ Become(m, s)

LoadForgetful ==                                                      \* mutant
    [r \in Roster |-> [agents[r] EXCEPT !.viol = 0, !.rep = 100]]

LoadAgents == agents

(* OrganisationScopedLedger: an empty treasury is given the request's budget. *)
Mints == treasury = 0

(* create_mission: a profile, a CEO that is not disabled and a budget within *)
(* the profile's ceiling; then run_mission reads the organisation's rows.    *)
CreateMission(m, budget) ==
    /\ mem[m].pc = "idle" /\ \A k \in 1..(m - 1) : mem[k].pc # "idle"
    /\ Cardinality(Live) < MaxLive
    /\ IF agents["CEO"].status \notin Disabled /\ budget <= policy.ceiling
       THEN /\ Become(m, [Idle EXCEPT !.pc = IF Mints THEN "mint" ELSE "start",
                            !.budget = budget, !.org = row, !.loaded = row,
                            !.agents = LoadAgents])
            /\ overlap' = IF Live = {} THEN overlap ELSE overlap \cup Live \cup {m}
       ELSE Become(m, [Idle EXCEPT !.pc = "refused"]) /\ UNCHANGED overlap
    /\ UNCHANGED <<rows, perf, money, policy, corrupt, operator, events>>

(* The balance was read in one statement, the mint is another. *)
Mint(m) ==
    /\ mem[m].pc = "mint"
    /\ treasury' = treasury + mem[m].budget /\ minted' = minted + mem[m].budget
    /\ mem' = [mem EXCEPT ![m].pc = "start"]
    /\ UNCHANGED <<rows, perf, held, paid, receipts, policy, corrupt, operator, overlap, events>>

-----------------------------------------------------------------------------
(* ResourceAllocator, PERFORMANCE: shares of the treasury by composite score, *)
(* of the last completed mission when there is one, under each ceiling.       *)
Weight(copies, r) ==
    IF copies[r].status = "RESTRICTED" THEN 500
    ELSE Max({100, IF perf[r] = 0 THEN copies[r].score ELSE perf[r]})

Allocate(copies, funds) ==
    LET eligible == {r \in Roster : copies[r].status \notin Disabled}
        total    == SumFunction([r \in eligible |-> Weight(copies, r)])
        share(r) == Min({copies[r].ceiling, (Weight(copies, r) * funds) \div total})
    IN IF eligible = {} \/ funds = 0 THEN copies
       ELSE [r \in Roster |-> IF r \in eligible THEN [copies[r] EXCEPT !.credit = share(r)]
                              ELSE copies[r]]

(* run_mission up to start_mission: the event store verifies its chain, the   *)
(* profile and the balance are read, the credits are allocated, and only a    *)
(* state that may go to PLANNING starts.                                      *)
StartMission(m) ==
    LET s == [mem[m] EXCEPT !.pc = "plan", !.org = "PLANNING", !.config = policy,
                            !.funds = treasury, !.agents = Allocate(mem[m].agents, treasury)]
    IN /\ mem[m].pc = "start"
       /\ IF ~corrupt /\ (mem[m].org = "PLANNING" \/ "PLANNING" \in OrgTransitions[mem[m].org])
          THEN SyncState(m, s)
          ELSE Raise(m) /\ UNCHANGED rows
       /\ UNCHANGED <<perf, money, policy, corrupt, operator, overlap, events>>

(* BudgetedAgentAdapter, the CEO's envelope inside the organisation's. *)
CEOMayCall(s) == s.ceo < s.config.perAgent /\ s.calls < s.config.total
CEOCalled(s)  == [s EXCEPT !.ceo = @ + 1, !.calls = @ + 1]

CreditAllocation(a, requested, available) ==
    LET base == IF requested > 0 THEN requested ELSE Min({a.ceiling, 20})
        tier == IF a.status = "ACTIVE"
                THEN IF a.rep >= 85 THEN a.ceiling ELSE Max({5, (4 * a.ceiling) \div 5})
                ELSE IF a.status = "PROBATION" THEN Min({10, a.ceiling}) ELSE 5
    IN IF available = 0 THEN 0 ELSE Min({base, tier, available, a.credit})

(* The agents of a role that may be given a task; the roster has one of each. *)
SelectAgent(copies, role) == {r \in Roster \cap {role} : CanAssignTask(copies[r])}

(* decompose_and_plan.  The third task goes to the financial analyst; with    *)
(* none eligible it is ASSIGNED to nobody and keeps the planned credits.      *)
DecomposeAndPlan(m) ==
    LET s        == CEOCalled(mem[m])
        analysts == SelectAgent(s.agents, "FINANCIAL_ANALYST")
        alloc    == IF analysts = {} THEN Planned
                    ELSE CreditAllocation(s.agents["FINANCIAL_ANALYST"], Planned, s.funds)
    IN /\ mem[m].pc = "plan"
       /\ IF CEOMayCall(mem[m])
          THEN SyncState(m, [s EXCEPT !.pc = "intelligence", !.org = "EXECUTING",
                               !.task = "ASSIGNED", !.assignee = analysts, !.alloc = alloc])
          ELSE Raise(m) /\ UNCHANGED rows
       /\ UNCHANGED <<perf, money, policy, corrupt, operator, overlap, events>>

(* run_intelligence_pipeline and the CEO's proposal: one call of each other   *)
(* agent; the first two tasks complete.                                       *)
RunIntelligence(m, p) ==
    LET credited(r) == IF r \in {"RESEARCHER", "STRATEGIST"}
                       THEN RecordTaskSuccess(mem[m].agents[r], 0, 0, 100) ELSE mem[m].agents[r]
        s == [mem[m] EXCEPT !.pc = "propose", !.calls = @ + 3, !.task = "IN_PROGRESS",
                            !.agents = [r \in Roster |-> credited(r)], !.prop = p]
    IN /\ mem[m].pc = "intelligence"
       /\ IF mem[m].config.perAgent > 0 /\ s.calls <= s.config.total
          THEN SyncState(m, s)
          ELSE Raise(m) /\ UNCHANGED rows
       /\ UNCHANGED <<perf, money, policy, corrupt, operator, overlap, events>>

-----------------------------------------------------------------------------
(* PolicyEngine.evaluate: the configured rule and rules 01 to 07 on the copy, *)
(* the treasury from the ledger, then the human threshold.                    *)
Allows(list, x) == list = {} \/ x \in list
ConfiguredGovernanceRule(s) ==
    /\ s.prop.credits <= s.config.ceiling /\ s.prop.credits <= s.config.agentCeiling
    /\ Allows(s.config.actions, s.prop.act) /\ Allows(s.config.targets, s.prop.target)
    /\ Allows(s.config.providers, s.prop.provider)

SpendLimitRule(s)           == s.prop.credits <= s.agents["CEO"].ceiling
TreasuryBalanceRule(s)      == s.prop.credits <= treasury
RolePermissionRule(s)       == s.prop.act \in s.agents["CEO"].acts
TargetAllowlistRule(s)      == s.prop.target \in PolicyTargets
OrgPauseRule(s)             == s.org # "PAUSED"
AgentStatusRule(s) ==
    /\ s.agents["CEO"].status \notin Disabled
    /\ s.agents["CEO"].status = "RESTRICTED" =>
           s.prop.act = "INTERNAL_ANALYSIS" /\ s.prop.credits = 0

Decision(s) ==
    IF ~ /\ ConfiguredGovernanceRule(s) /\ OrgPauseRule(s) /\ AgentStatusRule(s)
         /\ TreasuryBalanceRule(s) /\ SpendLimitRule(s) /\ RolePermissionRule(s)
         /\ TargetAllowlistRule(s)
    THEN "REJECTED"
    ELSE IF s.prop.credits >= s.config.threshold THEN "ESCALATE" ELSE "APPROVED"

(* process_action_proposal, to the decision. *)
ProcessProposal(m) ==
    /\ mem[m].pc = "propose"
    /\ mem' = [mem EXCEPT ![m].pc = Decision(mem[m]), ![m].task = "SUBMITTED"]
    /\ UNCHANGED <<rows, perf, money, policy, corrupt, operator, overlap, events>>

(* The durable executor.  Its journal and token rows belong to this proposal  *)
(* alone (module DurableExecutor has their steps); what a mission shares is    *)
(* the ledger and its receipt.  The allowlist, the action type and then the    *)
(* reservation against the balance of that moment: a refusal leaves            *)
(* run_mission with nothing synced.                                            *)
ExecutorActs == {"EXTERNAL_API_CALL", "DATA_FETCH", "SIMULATED_ALLOCATION"}

ReserveCredits(m) ==
    /\ mem[m].pc = "APPROVED"
    /\ IF /\ mem[m].prop.target \in OutboundTargets /\ mem[m].prop.act \in ExecutorActs
          /\ mem[m].prop.credits <= treasury
       THEN /\ treasury' = treasury - mem[m].prop.credits
            /\ held' = [held EXCEPT ![m] = mem[m].prop.credits]
            /\ mem' = [mem EXCEPT ![m].pc = "dispatch", ![m].task = "APPROVED"]
       ELSE Raise(m) /\ UNCHANGED <<treasury, held>>
    /\ UNCHANGED <<rows, perf, minted, paid, receipts, policy, corrupt, operator, overlap, events>>

(* The external call was answered, and the reservation is settled.            *)
CommitReservation(m) ==
    /\ mem[m].pc = "dispatch"
    /\ paid' = [paid EXCEPT ![m] = held[m]] /\ held' = [held EXCEPT ![m] = 0]
    /\ mem' = [mem EXCEPT ![m].pc = "receipt"]
    /\ UNCHANGED <<rows, perf, treasury, minted, receipts, policy, corrupt, operator, overlap, events>>

(* It failed or was not answered: the reservation goes back and the error     *)
(* ends the mission.                                                          *)
RollbackReservation(m) ==
    /\ mem[m].pc = "dispatch"
    /\ treasury' = treasury + held[m] /\ held' = [held EXCEPT ![m] = 0]
    /\ Raise(m)
    /\ UNCHANGED <<rows, perf, minted, paid, receipts, policy, corrupt, operator, overlap, events>>

(* The engine stores the receipt after execute has returned. *)
SaveReceipt(m) ==
    /\ mem[m].pc = "receipt"
    /\ receipts' = receipts \cup {m}
    /\ mem' = [mem EXCEPT ![m].pc = "audit"]
    /\ UNCHANGED <<rows, perf, treasury, minted, held, paid, policy, corrupt, operator, overlap, events>>

(* The auditor.  The token and the receipt are the engine's own, unchanged and *)
(* in time, so of their checks the copy's state remains; the chain may fail.   *)
VerifyAuthorizationToken(s) == s.org # "PAUSED"
VerifyExecution(s) ==
    /\ VerifyAuthorizationToken(s) /\ ~corrupt
    /\ s.org # "PAUSED" /\ s.task \in {"APPROVED", "COMPLETED"}

Answerable(s) == {"CEO"} \cup s.assignee

AuditUnsynced(m) ==                                                   \* mutant
    /\ mem[m].pc = "audit"
    /\ mem' = [mem EXCEPT ![m].pc = "complete", ![m].task = "COMPLETED"]
    /\ UNCHANGED <<rows, perf, money, policy, corrupt, operator, overlap, events>>

AuditExecution(m) ==
    LET s == mem[m]
        rewarded(r) == IF r \in Answerable(s)
                       THEN RecordTaskSuccess(s.agents[r], s.alloc, s.prop.credits, s.prop.value)
                       ELSE s.agents[r]
    IN /\ s.pc = "audit"
       /\ IF VerifyExecution(s)
          THEN SyncState(m, [s EXCEPT !.pc = "complete", !.task = "COMPLETED",
                                      !.agents = [r \in Roster |-> rewarded(r)]])
          ELSE SyncState(m, [s EXCEPT !.pc = "raised", !.task = "FAILED", !.org = "FAILED"])
       /\ UNCHANGED <<perf, money, policy, corrupt, operator, overlap, events>>

-----------------------------------------------------------------------------
(* A rejected proposal costs its answerable agents; the CEO replans within    *)
(* the third task's credits until the attempts are used up.  Out of calls,    *)
(* the exception loses this rejection: nothing has been synced.               *)
Violating(s) ==
    [r \in Roster |-> IF r \in Answerable(s) THEN RecordPolicyViolation(s.agents[r]) ELSE s.agents[r]]
Failing(s) ==
    [r \in Roster |-> IF r \in Answerable(s) THEN RecordTaskFailure(s.agents[r]) ELSE s.agents[r]]

Capped(s, p) == IF s.alloc > 0 THEN [p EXCEPT !.credits = Min({@, s.alloc})] ELSE p

Replan(m, p) ==
    /\ mem[m].pc = "REJECTED"
    /\ \E s \in {[mem[m] EXCEPT !.agents = Violating(mem[m]),
                               !.attempts = @ + 1]} :
          \/ /\ s.attempts > MaxReplans
             /\ SyncState(m, [s EXCEPT !.pc = "raised", !.task = "FAILED", !.org = "FAILED",
                                       !.agents = Failing(s)])
          \/ /\ s.attempts <= MaxReplans /\ CEOMayCall(s)
             /\ SyncState(m, [CEOCalled(s) EXCEPT !.pc = "propose", !.task = "IN_PROGRESS",
                                                  !.prop = Capped(s, p)])
          \/ /\ s.attempts <= MaxReplans /\ ~CEOMayCall(s)
             /\ Raise(m) /\ UNCHANGED rows
    /\ UNCHANGED <<perf, money, policy, corrupt, operator, overlap, events>>

(* ESCALATE_TO_HUMAN pauses the organisation; no receipt. *)
Escalate(m) ==
    /\ mem[m].pc = "ESCALATE"
    /\ SyncState(m, [mem[m] EXCEPT !.pc = "complete", !.org = "PAUSED"])
    /\ UNCHANGED <<perf, money, policy, corrupt, operator, overlap, events>>

CompleteAnyway(m) ==                                                  \* mutant
    /\ mem[m].pc = "complete"
    /\ IF CEOMayCall(mem[m])
       THEN SyncState(m, [CEOCalled(mem[m]) EXCEPT !.pc = "close", !.org = "COMPLETED"])
       ELSE Raise(m) /\ UNCHANGED rows
    /\ UNCHANGED <<perf, money, policy, corrupt, operator, overlap, events>>

(* complete_mission: an escalated mission stays PAUSED; the CEO's review is a *)
(* call of its budget, made before the sync.                                  *)
CompleteMission(m) ==
    LET final == IF mem[m].org = "PAUSED" THEN "PAUSED" ELSE "COMPLETED"
    IN /\ mem[m].pc = "complete"
       /\ IF CEOMayCall(mem[m])
          THEN SyncState(m, [CEOCalled(mem[m]) EXCEPT !.pc = "close", !.org = final])
          ELSE Raise(m) /\ UNCHANGED rows
       /\ UNCHANGED <<perf, money, policy, corrupt, operator, overlap, events>>

(* compute_scores of a performance record: reliability and efficiency stay    *)
(* at 100, since missions record no proposals and value half again the cost.  *)
RecordedScore(a) ==
    LET total == a.ok + a.bad
        done  == IF total = 0 THEN 10000 ELSE Proportion(10000, a.ok, total)
    IN (35 * done + 45 * 10000 + 20 * Compliance(a.viol, 2500)) \div 100

(* The end of run_mission: performance records, agents and the organisation. *)
CloseMission(m) ==
    /\ mem[m].pc = "close"
    /\ perf' = [r \in Roster |-> RecordedScore(mem[m].agents[r])]
    /\ SyncState(m, [mem[m] EXCEPT !.pc = "done"])
    /\ UNCHANGED <<money, policy, corrupt, operator, overlap, events>>

-----------------------------------------------------------------------------
(* The environment. *)

(* Between the reservation and the sync of its task. *)
InExecution == {"dispatch", "receipt", "audit"}

(* A mission is cut short: the process dies, an agent's provider fails, or    *)
(* another writer takes the audit sequence number it was about to insert.     *)
Abort(m) ==
    /\ m \in Live /\ Happens
    /\ Become(m, [mem[m] EXCEPT !.pc = IF @ \in InExecution THEN "cut" ELSE "raised"])
    /\ UNCHANGED <<rows, perf, money, policy, corrupt, operator, overlap>>

(* The operator's endpoints read and check the state, commit an audit event   *)
(* (the chain has to verify) and then write the row in whatever state it is   *)
(* by now.  A call that dies in between is one that never writes.             *)
PauseMissionRead(o) ==
    /\ operator[o] = "idle" /\ row # "PAUSED" /\ ~corrupt /\ Happens
    /\ operator' = [operator EXCEPT ![o] = "pause"]
    /\ UNCHANGED <<rows, perf, money, policy, corrupt, mem, overlap>>

PauseMissionWrite(o) ==
    /\ operator[o] = "pause"
    /\ row' = "PAUSED" /\ operator' = [operator EXCEPT ![o] = "idle"]
    /\ UNCHANGED <<agents, perf, tasks, money, policy, corrupt, mem, overlap, events>>

ResumeMissionRead(o) ==
    /\ operator[o] = "idle" /\ row = "PAUSED" /\ ~corrupt
    /\ operator' = [operator EXCEPT ![o] = "resume"]
    /\ UNCHANGED <<rows, perf, money, policy, corrupt, mem, overlap, events>>

ResumeMissionWrite(o) ==
    /\ operator[o] = "resume"
    /\ row' = "EXECUTING" /\ operator' = [operator EXCEPT ![o] = "idle"]
    /\ UNCHANGED <<agents, perf, tasks, money, policy, corrupt, mem, overlap, events>>

(* create_policy: a new version, for the missions that start later. *)
CreatePolicy(c) ==
    /\ c # policy /\ Happens
    /\ policy' = c
    /\ row' = IF row = "INITIALIZING" THEN "PLANNING" ELSE row
    /\ UNCHANGED <<agents, perf, tasks, money, corrupt, mem, operator, overlap>>

(* A stored event is damaged: verify_integrity fails from now on. *)
Corrupt ==
    /\ ~corrupt /\ Happens
    /\ corrupt' = TRUE
    /\ UNCHANGED <<rows, perf, money, policy, mem, operator, overlap>>

-----------------------------------------------------------------------------
Step(m) ==
    \/ Mint(m) \/ StartMission(m) \/ DecomposeAndPlan(m)
    \/ \E p \in Proposals : RunIntelligence(m, p)
    \/ ProcessProposal(m)
    \/ ReserveCredits(m) \/ CommitReservation(m) \/ RollbackReservation(m) \/ SaveReceipt(m)
    \/ AuditExecution(m)
    \/ \E p \in Proposals : Replan(m, p)
    \/ Escalate(m) \/ CompleteMission(m) \/ CloseMission(m)

MissionNext ==
    \/ \E m \in Missions : \/ \E b \in Budgets : CreateMission(m, b)
                           \/ Step(m) \/ Abort(m)
    \/ \E o \in Operators : \/ PauseMissionRead(o)  \/ PauseMissionWrite(o)
                           \/ ResumeMissionRead(o) \/ ResumeMissionWrite(o)
    \/ Corrupt
    \/ \E c \in Policies : CreatePolicy(c)

MissionSpec == MissionInit /\ [][MissionNext]_missionVars

-----------------------------------------------------------------------------
(* Correctness. *)

Places   == {"mint", "start", "plan", "intelligence", "propose", "APPROVED", "REJECTED",
             "ESCALATE", "dispatch", "receipt", "audit", "complete", "close"}
TaskType == {"PENDING", "ASSIGNED", "IN_PROGRESS", "SUBMITTED", "APPROVED", "COMPLETED", "FAILED"}
AgentType ==
    [status : Statuses, rep : Points, score : Scores, eff : Efficiencies, streak : Nat, ok : Nat,
     bad : Nat, viol : Nat, ceiling : Nat, acts : SUBSET UNION {Granted[r] : r \in Roster},
     credit : Nat]

(* Scores stay within their scale, and the treasury is a natural number when   *)
(* two missions spend what both saw available: the charge is checked again by  *)
(* the ledger.                                                                 *)
MissionTypeOK ==
    /\ row \in OrgStates /\ agents \in [Roster -> AgentType] /\ perf \in [Roster -> Scores]
    /\ tasks \in [Missions -> TaskType]
    /\ treasury \in Nat /\ minted \in Nat
    /\ held \in [Missions -> Nat] /\ paid \in [Missions -> Nat]
    /\ operator \in [Operators -> {"idle", "pause", "resume"}]
    /\ receipts \subseteq Missions /\ overlap \subseteq Missions
    /\ policy \in Policies /\ corrupt \in BOOLEAN
    /\ \A m \in Missions :
         /\ mem[m].pc \in {"idle"} \cup Places \cup Ended /\ mem[m].task \in TaskType
         /\ {mem[m].org, mem[m].loaded} \subseteq OrgStates
         /\ mem[m].agents \in [Roster -> AgentType] /\ mem[m].assignee \subseteq Roster
         /\ {mem[m].alloc, mem[m].funds, mem[m].attempts, mem[m].ceo, mem[m].calls} \subseteq Nat

(* Every credit is in the treasury, in ESCROW for one mission or moved on by   *)
(* it, and unless two missions started together the treasury never holds more  *)
(* than one budget: it is filled only when it is empty.                        *)
FundsAccounted ==
    /\ treasury + SumFunction(held) + SumFunction(paid) = minted
    /\ overlap = {} => \E b \in Budgets : treasury <= b

(* What takes credits out of the treasury, and out of ESCROW, has every        *)
(* authority it needs: the mission did not load a stopped organisation, its    *)
(* profile allows the amount without a human, and so does the stored standing  *)
(* of the CEO unless another mission rewrote it meanwhile.                     *)
Authorised(m, amount) ==
    /\ mem[m].loaded \notin Stopped
    /\ amount <= Min({mem[m].config.ceiling, mem[m].config.agentCeiling})
    /\ amount < mem[m].config.threshold
    /\ m \notin overlap => /\ agents["CEO"].status \notin Demoted
                           /\ amount <= agents["CEO"].ceiling

AuthorisedCharges ==
    \A m \in Missions : /\ held'[m] > held[m] => Authorised(m, held'[m])
                        /\ paid'[m] # paid[m] => Authorised(m, paid'[m])

ChargeAuthorised == [][AuthorisedCharges]_missionVars

(* RULE-06: "No actions may execute when organisation is paused"               *)
(* (src/src/governance/rules.py:91).  While the row says PAUSED no credits are *)
(* reserved for an external call.  The rule looks at the mission's copy.       *)
PausedBuysNothing ==
    [][row = "PAUSED" => \A m \in Missions : held'[m] <= held[m]]_missionVars

(* Where a mission's credits are: in ESCROW only during the external call or   *)
(* after a death there; spent only with a receipt, but for the moment before   *)
(* it is stored or a death in that moment; never both.                         *)
CreditsPlaced ==
    \A m \in Missions :
        /\ held[m] > 0 => mem[m].pc \in {"dispatch", "cut"} /\ paid[m] = 0 /\ m \notin receipts
        /\ paid[m] > 0 => m \in receipts \/ mem[m].pc \in {"receipt", "cut"}

(* A receipt is settled with its task: once its mission has ended, the stored  *)
(* task is COMPLETED, or FAILED by an audit that found the chain damaged, or   *)
(* the mission was cut short between reservation and audit.                    *)
ReceiptSettled ==
    /\ \A m \in receipts : mem[m].pc \in Ended =>
           \/ tasks[m] = "COMPLETED"
           \/ tasks[m] = "FAILED" /\ corrupt
           \/ mem[m].pc = "cut"
    /\ \A m \in Missions : tasks[m] = "COMPLETED" => m \in receipts

(* Who ends a stop.  Of the operator's calls only a resume that had read       *)
(* PAUSED does, and its unconditional write may take a FAILED organisation     *)
(* back to EXECUTING; a pause makes FAILED into PAUSED.  Of the missions, only *)
(* one that was running when the organisation was stopped and whose copy does  *)
(* not know: none ends a stop it found, and one that stopped the organisation  *)
(* itself leaves it stopped.                                                   *)
ExplainedEnd ==
    row' # row /\ row \in Stopped =>
        \/ /\ mem' = mem
           /\ \E o \in Operators :
                 /\ operator' = [operator EXCEPT ![o] = "idle"]
                 /\ <<operator[o], row'>> \in {<<"resume", "EXECUTING">>, <<"pause", "PAUSED">>}
        \/ \E m \in Live : /\ mem'[m] # mem[m] /\ mem[m].loaded \notin Stopped
                           /\ mem[m].org \in Stopped => row' \in Stopped

StopEndsExplained == [][ExplainedEnd]_missionVars

(* Standing is not forgotten: the stored violations and failures of an agent   *)
(* only grow and RETIRED is for ever, across missions and aborts, unless two   *)
(* missions ran on copies of one agent.                                        *)
StandingRemembered ==
    overlap' = {} => \A r \in Roster :
        /\ agents'[r].viol >= agents[r].viol /\ agents'[r].bad >= agents[r].bad
        /\ agents[r].status = "RETIRED" => agents'[r].status = "RETIRED"

StandingKept == [][StandingRemembered]_missionVars

(* The books agree, wherever a mission is cut short between the commits of an  *)
(* execution: every credit minted is in the treasury, in ESCROW or spent, the  *)
(* last two where the mission's place says, and every receipt belongs to a     *)
(* task that ended as it says.                                                 *)
BooksAgree == MissionTypeOK /\ FundsAccounted /\ CreditsPlaced /\ ReceiptSettled
=============================================================================
