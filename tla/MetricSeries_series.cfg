\* Two days of three instants each, one instant before them, counts up to two.
CONSTANTS
  PerDay = 3
  Earlier = 1
  DayCount = 2
  MaxValue = 2
SPECIFICATION MSSpec
INVARIANTS CardIsGrowth DaysAddUp ReportAgrees
