SPECIFICATION Spec
CONSTANTS
  t1 = t1
  t2 = t2
  t3 = t3
  None = None
  Client <- MCClient
  Priority <- MCPriority
  Requests <- MCRequests
  Lengths = {12}
  Keeps = {3, 15}
  MinKeep = 4
  Header = 2
  ListHead = 1
  Align = 2
  Wrap = 64
INVARIANTS
  BlocksTile
  UsageCovers
PROPERTIES
  IsAllocator
