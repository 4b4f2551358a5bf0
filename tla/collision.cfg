SPECIFICATION Spec
CONSTANTS
  Reviews <- MCReviews
  Choices <- MCChoices
  Samples <- MCSamples
  Paths <- MCPaths
  Baseline <- MCBaseline
  Ignored <- MCIgnored
  Names <- MCNames
  Request <- MCRequest
  Root <- MCRoot
  Commands <- MCCommands
  Items = {i1}
  MaxEvents = 2
INVARIANT EveryReferenceIsKept
CHECK_DEADLOCK FALSE
