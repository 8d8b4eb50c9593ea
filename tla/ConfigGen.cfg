CONSTANT Layouts <- MCLayouts
SPECIFICATION ConfigGenSpec
INVARIANT SuccessMeansComplete
CHECK_DEADLOCK FALSE
