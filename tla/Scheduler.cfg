SPECIFICATION Spec
CONSTANTS
  IdleThread = idle
  TaskThread = exec
  UserThreads = {a, b, c}
  HighThreads = {}
INVARIANTS TypeOK CurrentIsReady NeverStuck
PROPERTIES ReadyThreadsRun
