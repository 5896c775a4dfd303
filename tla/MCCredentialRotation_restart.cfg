SPECIFICATION Spec
CONSTANTS
  Owner = Owner
  Dashboard = Dashboard
  Exchangers = {Owner}
  None = None
  Enrolled = TRUE
  MaxInst = 2
  MaxTok = 2
  MaxIds = 3
  MaxConn = 2
  Faults = {}
  MaxFaults = 0
  Prompt = FALSE
  Rounds = 2
  Resends = 1
CHECK_DEADLOCK FALSE
INVARIANT RetryFetchesTheToken
