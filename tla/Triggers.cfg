CONSTANTS
  s1 = s1
  s2 = s2
  f1 = f1
  f2 = f2
  t1 = t1
  t2 = t2
  r1 = r1
  r2 = r2
  i2 = i2
  i1 = i1
  Tables = {t1, t2}
  Schedules = {s1, s2}
  Flows = {f1, f2}
  Instances = {i1, i2}
  Requests = {r1, r2}
  Runs = {k1, k2, k3, k4, k5}
  Setups <- MCSetups
  Dead = Dead
  None = None
SPECIFICATION Spec
CHECK_DEADLOCK FALSE
INVARIANTS MarksAreCovered TableTriggerLaunchesAlone OneTickPerLock ActiveRunsAreReal
PROPERTY UpdatesNoticed
