SPECIFICATION Spec
CONSTANTS
  Clients = {cli, ctl}
  Listeners = {}
  Decisions = {d1}
  Answers = {go}
  CancelOption = stop
  NoAnswer = noAnswer
  NoDecision = noDecision
  NoRequest = idle
  MaxVersion = 12
  MaxContracts = 2
  MaxLease = 0
PROPERTIES DeletionSparesActiveRuns
CHECK_DEADLOCK FALSE
