CONSTANTS
  Tasks = {t1, t2}
  NoTask = NoTask
SPECIFICATION Spec
CHECK_DEADLOCK FALSE
INVARIANTS OneRunAtATime RecordsAreClosed
PROPERTY CanceledStaysFailed
