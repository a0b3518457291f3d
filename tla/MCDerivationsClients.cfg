CONSTANTS
    Cluster = {a}
    Null = null
    Other = other
    Failed = failed
    Pending = pending
    TempGroup = {"Temps", "FanTemps"}
    FanGroup = {"Fans", "FanTemps"}
    ActiveStatus = {"Licensed"}
    StatKeySpecs <- MCStatKeySpecs
    Reply <- MCReply
SPECIFICATION Spec
INVARIANTS ClientsAggregated
