SPECIFICATION Spec
CONSTANTS
  Cpus = {"c1"}
  Keys = {"k1", "k2"}
  LOG_BUCKET_MAX = 2
  LOG_BUCKET_REFILL = 2
  U32 = 4
  RingMax = 2
  Uptime = 6
  MaxTime = 9
  MaxDrops = 4
INVARIANTS TypeOK EveryHitCountedOnce RateBound
PROPERTIES SilenceIsShort EveryHitIsLogged
