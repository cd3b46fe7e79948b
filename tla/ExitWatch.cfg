SPECIFICATION Spec
CONSTANTS
  IdleThread = idle
  TaskThread = exec
  UserThreads = {t1, t2, t3}
  Pids = {p1, p2}
  InitPid = p1
  InitTid = t1
  Nil = Nil
  NewTaskCapacity = 2
  ReadyCapacity = 3
  RecvCapacity = 2
  MaxCommands = 2
INVARIANTS ExitIsNoticed
CHECK_DEADLOCK FALSE
