SPECIFICATION FairSpec
CONSTANTS
  t1 = t1  t2 = t2  p1 = p1  p2 = p2
  Task = {t1, t2}
  Proc = {p1, p2}
  ProcOf <- TwoProcesses
  NoProc = NoProc
  Faulty = {p1}
  Cleaner = {t1}
  OldInfo = OldInfo
  MaxInode = 2
  MaxOrphan <- Orphans
INVARIANT FlocksAccounted
PROPERTIES KeepsPromise NeverWedged
