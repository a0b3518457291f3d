CONSTANTS
    a = a  b = b
    onlyA = onlyA  onlyB = onlyB  both = both  slowA = slowA  zeroB = zeroB
    m1 = m1  m2 = m2
    Cluster = {a, b}
    Config = {onlyA, onlyB, slowA}
    Bad = bad
    Metric = {}
    Interval = {0, 1, 2}
    OTLPEnabled = FALSE
    MaxWrites = 2
    Gen <- MCEditsGen
    ClustersOf <- MCClustersOf
    IntervalOf <- MCIntervalOf
    NamesOf <- MCNamesOf
SPECIFICATION MCFairSpec
PROPERTIES RequestedEditAdopted SnapshotConverges UsesCollector
