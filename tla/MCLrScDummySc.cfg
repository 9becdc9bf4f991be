SPECIFICATION Spec
CONSTANTS
  t1 = t1
  t2 = t2
  t3 = t3
  Tasks <- MCTasks
  Words <- MCWords
  Scratch = 24
  SlotSpan = 16
  SwitchCode = "dummy_sc"
  MaxUpdates = 2
INVARIANT NoLostUpdate
