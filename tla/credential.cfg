SPECIFICATION Spec
CONSTANTS
  t1 = t1  t2 = t2  t3 = t3  p1 = p1  p2 = p2
  Task = {t1, t3}
  Proc = {p1, p2}
  ProcOf <- TwoProcesses
  Handle <- Handles
  MayBreak = FALSE
  NoTask = NoTask
  MaxGen = 3
  MaxTransient = 2
  Events = {"lost", "logout", "enrich", "dark"}
INVARIANTS TypeOK OneSpender SuccessorRetained NoRetryOfRejected
SYMMETRY Swap
CHECK_DEADLOCK FALSE
