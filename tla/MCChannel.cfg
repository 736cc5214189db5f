SPECIFICATION FairSpec
CONSTANTS
  Thread = {t1, t2, t3, t4}
  Value = {v1, v2}
  None = None
  Requested = 2
INVARIANT NoLostWakeup
PROPERTIES FifoSpec FifoFairSpec
