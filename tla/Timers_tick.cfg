SPECIFICATION TimersSpec
CONSTANTS
  AppTimer = {s, t}
  Tick = Tick
  Anim = Anim
  Root = Root
  Nil = Nil
  Id = {0, 1}
  Zero = 0
  AppDelay = {1, 2}
  TickDelay = {2}
  AnimDelay = {1}
  MaxLate = 1
  AfterHarm = TRUE
INVARIANT RemovedIsFound
CHECK_DEADLOCK FALSE
