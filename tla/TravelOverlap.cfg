SPECIFICATION Spec
CONSTANTS
  e1 = e1
  e2 = e2
  p = p
  q = q
  Event = {e1}
  Calendar = {c1}
  CalendarOf <- OneCalendar
  Place = {p}
  Home = Home
  Sweep = {s1, s2}
  Gone = Gone
  None = None
  Day = 2
  HorizonDays = 1
  Lookback = 0
  Dwell = 0
  Minutes = {1, 2}
  Usual = 1
  Start = {1, 2}
  Length = {1}
  BlockId = {1, 2, 3, 4, 5, 6}
  MaxTime = 2
  MaxChange = 1
  MaxFault = 1
PROPERTIES RightBlockStays
CHECK_DEADLOCK FALSE
