SPECIFICATION MissionSpec
CONSTANTS
    Roster = {"CEO", "RESEARCHER", "FINANCIAL_ANALYST"}
    Authority <- AuthorityDef
    Granted <- GrantedDef
    Policies <- PoliciesDef
    Proposals <- ProposalsDef
    PolicyTargets = {"index", "internal"}
    OutboundTargets = {"index"}
    Planned = 30
    Budgets = {20, 30}
    MaxReplans = 1
    MaxMissions = 2
    MaxLive = 2
    Operators = {1}
    MaxEvents = 2
PROPERTIES
    PausedBuysNothing
CHECK_DEADLOCK FALSE
