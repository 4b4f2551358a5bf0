SPECIFICATION Spec
CONSTANTS
  Inboxes = {a}
  Outcomes = {"needs_review", "ready_for_approval", "cancelled"}
  MaxVersion = 2
  MaxLease = 2
  MaxLoads = 2
PROPERTIES UiWritesHoldTheLease
CHECK_DEADLOCK FALSE
