SPECIFICATION Spec
CONSTANTS
  Parts = {"chat", "menu", "dialogue", "agent", "serial", "overlap"}
  Requests = {"r1", "r2"}
  MaxTries = 2
  MaxOutages = 2
  Devices = {1, 2, 3}
  Levels = {0, 7, 10}
  MaxChanges = 2
  MaxPresses = 4
  Sources = {"sat", "chat"}
  Satellites = {"sat"}
  Lamps = {"d1", "d2"}
  Automations = {"auto"}
  MaxIterations = 2
  MaxBatch = 2
  MaxRenewals = 1
  Callers = {"caller"}
  Timers = {"t1", "t2"}
  DayLen = 2
  WeekLen = 2
  MaxDay = 3
  SkipLists = {{}, {1}, {2, 3}}
  SkipDates = {0, 1, 2, 3}
  BusyDayLen = 1
  BusyMaxDay = 2
  NoRow = NoRow
  NoTimer = "no timer"
INVARIANTS CallsAreAnswered ButtonsMeanIt MessagesStand DeniedIsSaid NeverUnscheduled
CHECK_DEADLOCK FALSE
