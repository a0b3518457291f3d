CONSTANTS
    a = a  b = b
    onlyA = onlyA  onlyB = onlyB  both = both  slowA = slowA  zeroB = zeroB
    m1 = m1  m2 = m2
    Cluster = {a, b}
    Config = {onlyA, onlyB}
    Bad = bad
    Metric = {}
    Interval = {0, 1, 2}
    OTLPEnabled = TRUE
    MaxWrites = 2
    Gen <- MCGen
    ClustersOf <- MCClustersOf
    IntervalOf <- MCIntervalOf
    NamesOf <- MCNamesOf
SPECIFICATION MCSpec
INVARIANTS ServerTypeOK NoLeakedLoop PoolMatchesConfig FirstScrapeNotEmpty
