SPECIFICATION FairSpec
CONSTANTS
  t1 = t1  t2 = t2  t3 = t3  p1 = p1  p2 = p2
  Task = {t1, t2}
  Proc = {p1}
  ProcOf <- OneProcess
  Handle <- Handles
  MayBreak = TRUE
  NoTask = NoTask
  MaxGen = 2
  MaxTransient = 1
  Events = {"sleep", "flow", "break", "write_fails", "read_fails", "reload", "refused"}
INVARIANTS OneSpender NoExchangeIntoSuspend
PROPERTY ActivityEnds
