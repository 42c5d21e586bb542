----------------------------- MODULE Reputation -----------------------------
(***************************************************************************)
(* The standing of an agent: ReputationEngine over an AgentRecord.          *)
(*                                                                         *)
(* Reputation is a whole number of points; the composite score and the      *)
(* resource efficiency are in hundredths, truncated where the code rounds.  *)
(* Of task_history only the run of failures and violations at its end       *)
(* counts, so that is what streak holds.  Missions pass no performance      *)
(* record and no event store to the engine: those branches are left out.    *)
(***************************************************************************)
EXTENDS Integers, FiniteSetsExt

HighRisk == {"EXTERNAL_API_CALL", "SIMULATED_ALLOCATION", "BLOCKCHAIN_TRANSACTION"}
Demoted  == {"RESTRICTED", "SUSPENDED", "RETIRED"}
Disabled == {"SUSPENDED", "RETIRED"}
Statuses == {"ACTIVE", "PROBATION"} \cup Demoted

(* The scales of reputation, composite score and resource efficiency. *)
Perfect      == 10000
Points       == 0..100
Scores       == 0..Perfect
Efficiencies == 0..200

NewAgent(ceiling, acts) ==
    [status |-> "ACTIVE", rep |-> 100, score |-> 10000, eff |-> 100, streak |-> 0,
     ok |-> 0, bad |-> 0, viol |-> 0, ceiling |-> ceiling, acts |-> acts, credit |-> 0]

-----------------------------------------------------------------------------
(* _update_metrics: the weighted composite of success rate, reliability,     *)
(* efficiency and compliance.  An agent without a finished task scores 100,  *)
(* whatever its violations.                                                  *)
Proportion(whole, n, total) == (whole * n) \div total
Compliance(viol, cost)      == Max({0, 10000 - cost * viol})

Composite(ok, total, comp, eff) ==
    (35 * Proportion(10000, ok, total) + 25 * Proportion(comp, ok, total)
       + 20 * Min({10000, 100 * eff}) + 20 * comp) \div 100

UpdateMetrics(a) ==
    [a EXCEPT !.score = IF a.ok + a.bad = 0 THEN 10000
                        ELSE Composite(a.ok, a.ok + a.bad, Compliance(a.viol, 1000), a.eff)]

(* The downward triggers of _evaluate_lifecycle, worst first. *)
Standing(a) ==
    LET below(points, fails) == a.rep < points \/ a.score < 100 * points \/ a.streak >= fails
    IN IF a.status = "RETIRED" \/ below(15, 15) THEN "RETIRED"
       ELSE IF below(30, 10) THEN "SUSPENDED"
       ELSE IF below(50, 6)  THEN "RESTRICTED"
       ELSE IF a.rep < 75 \/ a.score < 7000 \/ a.streak >= 3 THEN "PROBATION"
       ELSE "ACTIVE"

(* A demotion takes the ceiling away at once; standing regained gives it     *)
(* back, to 25 at least.                                                     *)
Ceiling(a, status) ==
    IF status \in Demoted THEN 0
    ELSE IF status = "PROBATION" THEN Min({a.ceiling, 12}) ELSE Max({a.ceiling, 25})

Permitted(a, status) ==
    IF status \in Disabled THEN {}
    ELSE IF status = "RESTRICTED" THEN a.acts \ HighRisk ELSE a.acts

EvaluateLifecycle(a) ==
    LET status == Standing(a)
    IN [a EXCEPT !.status = status, !.ceiling = Ceiling(a, status), !.acts = Permitted(a, status)]

-----------------------------------------------------------------------------
(* The three records an engine makes.  value is in hundredths.               *)

Efficiency(a, allocated, used, value) ==
    LET ratio == Min({200, (allocated * Max({10, value})) \div Max({1, used})})
    IN IF allocated > 0 THEN (70 * a.eff + 30 * ratio) \div 100 ELSE a.eff

RecordTaskSuccess(a, allocated, used, value) ==
    EvaluateLifecycle(UpdateMetrics(
        [a EXCEPT !.ok = @ + 1, !.streak = 0, !.rep = Min({100, @ + 3}),
                  !.eff = Efficiency(a, allocated, used, value)]))

(* The engine records a failure with no credits used: efficiency stays. *)
RecordTaskFailure(a) ==
    EvaluateLifecycle(UpdateMetrics(
        [a EXCEPT !.bad = @ + 1, !.streak = @ + 1, !.rep = Max({0, @ - 5})]))

RecordPolicyViolation(a) ==
    EvaluateLifecycle(UpdateMetrics(
        [a EXCEPT !.viol = @ + 1, !.streak = @ + 1, !.rep = Max({0, @ - 10})]))

CanAssignTask(a) == a.status \notin Disabled
=============================================================================
