SPECIFICATION ServicesSpec
CONSTANTS
  U8Max = 6
  Provisions = {"p1", "p2"}
  Deprovisions = {"d1"}
  MaxLives = 2
INVARIANTS LimitKept ScheduleKept OneWinner OkIsComplete
PROPERTIES JobEnds AbandonedUntilDeleted
