------------------------------ MODULE MCMission ------------------------------
(* Two missions of an organisation without a strategist.  Profiles differ in   *)
(* the human threshold and in the calls they grant; the larger budget is above *)
(* the ceiling of both.                                                        *)
EXTENDS Mission

AuthorityDef == [r \in Roster |-> 25]
GrantedDef   == [r \in Roster |-> {"INTERNAL_ANALYSIS", "SIMULATED_ALLOCATION"}]

Profile(ceiling, threshold, perAgent, total, actions) ==
    [ceiling |-> ceiling, agentCeiling |-> ceiling, threshold |-> threshold,
     perAgent |-> perAgent, total |-> total, actions |-> actions, targets |-> {},
     providers |-> {}]
PoliciesDef ==
    {Profile(25, 40, 2, 8, {"INTERNAL_ANALYSIS", "SIMULATED_ALLOCATION"}),
     Profile(25, 15, 5, 8, {})}

Proposal(act, target, credits, value) ==
    [act |-> act, target |-> target, provider |-> "none", credits |-> credits, value |-> value]
ProposalsDef ==
    {Proposal("SIMULATED_ALLOCATION", "unlisted", 50, 95),
     Proposal("SIMULATED_ALLOCATION", "index", 20, 85),
     Proposal("INTERNAL_ANALYSIS", "internal", 0, 50)}
=============================================================================
