\* Four files, two pictures kept (the default setting).
CONSTANTS
  Nodes = {a, b, c, d}
  Null = Null
  Keep = 2
SPECIFICATION FairSpec
INVARIANTS TypeOK ListIntact NoFreedMember AtMostKeepPlusOne
PROPERTIES QueueSpec UpdateEnds
