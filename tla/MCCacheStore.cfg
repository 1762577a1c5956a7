SPECIFICATION Spec
CONSTANTS
  Procs = {"a", "b"}
  Suites = {"s1", "s2"}
  Entries = {"e1", "e2"}
  Forms = {"f", "g", "h"}
  Cap = 2
  MaxOps = 4
INVARIANTS
  WholeFilesAreSound
PROPERTY
  AtomicWhenAlone
CHECK_DEADLOCK FALSE
