SPECIFICATION FairSpec
CONSTANTS
  Inboxes = {a}
  Outcomes = {"needs_review", "ready_for_approval", "cancelled"}
  MaxVersion = 2
  MaxLease = 2
  MaxLoads = 2
INVARIANTS OneInboxAccepts
PROPERTIES ActsOnWhatIsShown DisplayNeverGoesBack RevokedIsSilent InboxEnds DisplayCatchesUp
CHECK_DEADLOCK FALSE
