\* Every kind of call, with writers first, and values and threads that are alike.
CONSTANTS
  t1 = t1
  t2 = t2
  t3 = t3
  job1 = job1
  old = old
  new = new
  None = None
  Threads = {t1, t2}
  Jobs = {job1}
  Values = {old, new}
  Offered <- Everything
  WritersFirst = TRUE
SYMMETRY Alike
SPECIFICATION Spec
INVARIANTS TypeOK Snapshot Agreement WaitsItsTurn
