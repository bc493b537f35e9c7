\* Every kind of call, with readers first.
CONSTANTS
  t1 = t1
  t2 = t2
  t3 = t3
  job1 = job1
  old = old
  new = new
  None = None
  Threads = {t1, t2}
  Jobs = {job1}
  Values = {old}
  Offered <- Everything
  WritersFirst = FALSE
SPECIFICATION FairSpec
PROPERTY Returns
