SPECIFICATION Spec
CONSTANTS
  Clients = {cli, tab}
  Listeners = {tab}
  Decisions = {d1, d2}
  Answers = {go}
  CancelOption = stop
  NoAnswer = noAnswer
  NoDecision = noDecision
  NoRequest = idle
  MaxVersion = 10
  MaxContracts = 2
  MaxLease = 1
INVARIANTS ReviewAgreement ContractQuotesAnswers RunsUnderApproval NewestContractIsActive
PROPERTIES AnswersStand ImplementsGate
CHECK_DEADLOCK FALSE
