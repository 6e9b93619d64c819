SPECIFICATION TimersFairSpec
CONSTANTS
  AppTimer = {s, t}
  Tick = Tick
  Anim = Anim
  Root = Root
  Nil = Nil
  Id = {0, 1}
  Zero = 0
  AppDelay = {1}
  TickDelay = {2}
  AnimDelay = {1}
  MaxLate = 0
  AfterHarm = FALSE
INVARIANT TimersTypeOK
INVARIANT ListIsWaiting
INVARIANT OnlyHarmFaults
PROPERTY TimersFire
CHECK_DEADLOCK FALSE
