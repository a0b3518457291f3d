CONSTANTS
    a = a  b = b
    onlyA = onlyA  onlyB = onlyB  both = both  slowA = slowA  zeroB = zeroB
    m1 = m1  m2 = m2
    Cluster = {a, b}
    Config = {both}
    Bad = bad
    Metric = {m1, m2}
    Interval = {0, 1, 2}
    OTLPEnabled = TRUE
    MaxWrites = 0
    Gen <- MCGen
    ClustersOf <- MCClustersOf
    IntervalOf <- MCIntervalOf
    NamesOf <- MCNamesOf
SPECIFICATION Spec
INVARIANT OTLPCoversSnapshot
