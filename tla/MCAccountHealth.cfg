SPECIFICATION ProvedSpec
CONSTANTS
    Account = {1}  MarkJob = {j1}  Deployments <- MCDeployments
    IcThreshold = 2  SsoMaxFailures = 2  MinAge = 1  PageSize = 1  MaxDeletes = 1  Absent = none
PROPERTIES OnlyDeathsAddUp
CHECK_DEADLOCK FALSE
