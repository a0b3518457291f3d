CONSTANT Version <- MCVersion
SPECIFICATION Spec
INVARIANTS TypeOK UpIsWhole UpKnowsItsVersion
PROPERTIES SessionSettled CycleEnds CloseReturns ImplementsCollector
