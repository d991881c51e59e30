\* atomic_dec_ret preempted between its change and its reading
SPECIFICATION AtomicSpec
CONSTANTS
  Contexts = {0, 1}
  Width = 3
INVARIANT ReturnsOwn
CHECK_DEADLOCK FALSE
