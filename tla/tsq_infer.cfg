SPECIFICATION FairSpec
CONSTANTS
  Producers = {m1, m2}
  Consumers = {t1, t2, t3}
  Values = {v1, v2}
  NoValue = NoValue
  MaxLen = 3
INVARIANT NoLostWakeup
PROPERTIES WorkIsTaken ImplementsFifo
