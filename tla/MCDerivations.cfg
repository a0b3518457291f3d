CONSTANTS
    Cluster = {a, b}
    Null = null
    Other = other
    Failed = failed
    Pending = pending
    TempGroup = {"Temps", "FanTemps"}
    FanGroup = {"Fans", "FanTemps"}
    ActiveStatus = {"Licensed"}
    StatKeySpecs <- MCStatKeySpecs
    Reply <- MCReply
SYMMETRY Symmetry
SPECIFICATION Spec
INVARIANTS TypeOK LabelsAgree UniqueSeries NodeAttribution HealthTotals AbsentNotZero LossIsLocal
