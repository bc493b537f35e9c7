\* Calls of up to five splits.  Two callers share the workers, race for the
\* flag and are answered.
CONSTANTS
  twoIds = twoIds
  oneId = oneId
  noIds = noIds
  unknown = unknown
  w1 = w1
  w2 = w2
  Callers = {1, 2}
  Workers = {w1, w2}
  Items = {twoIds, oneId, noIds, unknown}
  IdsOf <- MCIdsOf
  Bad = {unknown}
  HashOf <- MCHashOf
  Inputs <- MCInputs
  Threshold = 2
  MaxWorkers = 2
  BucketBits = 1
  Width = 3
  Idle = Idle
  Error = Error
SPECIFICATION FairSpec
INVARIANTS TypeOK InOrder
PROPERTIES FlagWellSpent Answered
