SPECIFICATION FairSpec
CONSTANTS
  Capacity = 4
  MaxLevel = 3
  MaxOutstanding = 3
  MaxPosts = 10
INVARIANTS
  TypeOK
  NoneForgotten
PROPERTIES
  PublishesInOrder
  AllPublished
CHECK_DEADLOCK FALSE
