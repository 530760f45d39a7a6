SPECIFICATION ScopesSpec
CONSTANTS
    Writers = {w1, w2}
    Letters = {"a"}
    MaxLength = 5
INVARIANT OverlapIsConservative
