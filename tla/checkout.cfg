SPECIFICATION Spec
CONSTANTS
  Modes = {"committed_only", "include_patch"}
  Kinds = {"probe", "execution"}
  MaxEdits = 3
INVARIANTS PatchIsOneMoment HandedOverAsApproved LeftoversAreNamed
CHECK_DEADLOCK FALSE
