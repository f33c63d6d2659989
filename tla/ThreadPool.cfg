CONSTANTS
  Workers = {w1, w2}
  Waiters = {v1}
  Tasks = {t1, t2, t3}
  Deadlined = {t2}
  Hanging = {t3}
  NoTask = NoTask
  MayStop = TRUE
  MayRestart = TRUE
SPECIFICATION Spec
INVARIANTS TaskInOnePlace
PROPERTIES EveryTaskRuns StopReturns WaitReturns TrueMeansAllTaken
