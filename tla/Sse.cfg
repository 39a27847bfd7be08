SPECIFICATION FairSpec
CONSTANTS
  AnyTopic = AnyTopic
  Conns = {"c1"}
  Tenants = {"a", "b"}
  Topics = {"x", "y"}
  Capacity = 2
  QueueSize = 1
  MaxEvents = 4
CHECK_DEADLOCK FALSE
INVARIANTS InOrder NoGap EndsOnlyWhenLagged

PROPERTIES Delivered AbandonedTaskEnds
