CONSTANTS
    V = V  W = W
    Var = {V, W}
    Bad = bad
    MaxEdits = 2
    Word <- MCWord
    Setting <- MCSetting
    File <- MCFile
SPECIFICATION Spec
INVARIANT EnvValueVerbatim
