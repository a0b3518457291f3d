CONSTANTS
    a = a  b = b
    onlyA = onlyA  onlyB = onlyB  both = both  slowA = slowA  zeroB = zeroB
    m1 = m1  m2 = m2
    Cluster = {a, b}
    Config = {onlyA, zeroB}
    Bad = bad
    Metric = {}
    Interval = {0, 1, 2}
    OTLPEnabled = FALSE
    MaxWrites = 1
    Gen <- MCGen
    ClustersOf <- MCClustersOf
    IntervalOf <- MCIntervalOf
    NamesOf <- MCNamesOf
SPECIFICATION MCSpec
INVARIANT NoFilePanicsLoop
