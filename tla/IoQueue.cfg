\* Two putters and three getters on a queue smaller than the number of items:
\* slots are reused, both kinds of thread sleep, one wait returns spuriously,
\* and close comes after the puts or at any time.
SPECIFICATION FairSpec
CONSTANTS
  Putters = {p1, p2}
  Getters = {g1, g2, g3}
  Closer = main
  NULL = NULL
  PutsEach = 2
  Cap = 2
  MaxSpurious = 1
INVARIANTS TypeOK ExactlyOnce NoLostWakeup NullMeansDrained
PROPERTIES ImplementsBoundedQueue CloseReleasesGetters Completes
CHECK_DEADLOCK FALSE
