\* Fresh and resumed runs of every command, a node with two identities.
SPECIFICATION FairSpec
CONSTANTS
  MaxNodes = 2
  Ids = {i1, i2, i3, i4, i5, i6, i7}
  NoId = NoId
  Commands <- AllCommands
  KeepsFile = {TRUE, FALSE}
  MaxFaults = 3
INVARIANTS ReportedInProduction FileOfOneMachine
PROPERTIES EventuallyInProduction ResumesUnlessDead
