CONSTANTS
  Builds = {TRUE, FALSE}
  DISCONNECTS = 2
  MEDIUM_AT = 2
  SLOW_AT = 3
  WAIT_SHORT = 2
  WAIT_MEDIUM = 3
  WAIT_LONG = 4
  REPORT_DELAY = 4
  OTA_GO = 3
  LEND_WAIT = 2
  MaxEvents = 3
  MaxFailures = 2
SPECIFICATION FairSpec
INVARIANT BackOffGrows
