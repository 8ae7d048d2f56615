SPECIFICATION FairSpec
CONSTANTS
  Families = {"NT26", "EC800"}
  Keys = {k1, k2}
  NoKey = NoKey
  BadKeys = {b1, b2}
  k1 = k1
  k2 = k2
  b1 = b1
  b2 = b2
  Length <- KeyLengths
  Torn = Torn
  RETRY = 2
  MaxFaults = 3
  Slots = {1}
  MAX_OPCODE = 2
  ConfigMsgs <- Settings
  MaxMsgs = 2
INVARIANTS TypeOK ActivatedIsConfirmed LoggedInSurvives ReactivationHolds
  ActedInOrder NoStalePayload PasswordOfSsid ReportedSurvives
 
