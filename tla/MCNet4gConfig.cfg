CONSTANT Builds = {"NT26", "EC800", "EG800"}
SPECIFICATION FairSpec
INVARIANTS
  DoneOnAttachedSim
  DoneKnowsItsSim
  FiledUnderRightSim
  ReconnectTriesOtherSimEC800
PROPERTY PassEnds
