CONSTANT Builds = {"NT26"}
SPECIFICATION FairSpec
INVARIANT ReconnectTriesOtherSim
