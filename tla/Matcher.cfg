CONSTANTS
    Literals = {"a", "b", ""}
    MaxSegs = 3
SPECIFICATION Spec
INVARIANT MatcherAgrees
