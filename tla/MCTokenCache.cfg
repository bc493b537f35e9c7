\* Two threads race on two instances; one of them also takes the encoded path.
\* A cache of one entry for each thread, shards of two entries that are updated in
\* place and cleared, a batch that fails at its second pretoken.
CONSTANTS
  t1 = t1
  t2 = t2
  k1 = k1
  k2 = k2
  k3 = k3
  k4 = k4
  v1 = v1
  v2 = v2
  Threads = {t1, t2}
  Paths = {"encoded", "fused"}
  Keys = {k1, k2, k3, k4}
  Vocabs = {v1, v2}
  Batches <- MCBatches
  Ready = {k4}
  Shortcut <- MCShortcut
  Whole <- MCWhole
  Fails <- MCFails
  Idle = Idle
  Pending = Pending
  Error = Error
  None = None
  Long = {k3}
  Shards = {1}
  ShardOf <- MCShardOf
  LocalLoad = 1
  SharedLoad = 2
  MaxBpes = 2
SPECIFICATION Spec
CONSTRAINT RareAlone
INVARIANTS LocalCoherent CallCoherent SharedCoherent PoolBounded
PROPERTY Implements
