SPECIFICATION FairSpec
CONSTANT Sources <- MCSources
INVARIANTS Covers DepthAgrees AcceptedBalanced NoLeakOnSuccess PipesHandOn
PROPERTY ParseEnds
CHECK_DEADLOCK FALSE
