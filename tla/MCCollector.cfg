CONSTANTS
    Cluster = {a, b}
    Gen <- MCGen
    Interval <- MCInterval
SPECIFICATION FairCollectorSpec
INVARIANTS CollectorTypeOK SnapshotComplete Isolation
PROPERTIES CancelReachesRequests CancelledLoopExits
CHECK_DEADLOCK FALSE
