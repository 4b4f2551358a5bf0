SPECIFICATION FairSpec
CONSTANTS
  Items = {i1}
  Requests = {"thread", "turn", "pause", "giveUp", "stop", "test"}
  RpcIds = {rpc1}
  Notices <- TurnNotices
  Asks <- TurnAsks
INVARIANTS NothingWaitsInVain CompletedMeansClean ApprovalsAgree
PROPERTIES ImplementsPromise PauseEndsWait ExecutionEnds
CHECK_DEADLOCK FALSE
