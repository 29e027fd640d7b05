\* A detector that starts at once: workers may not wait yet when tasks are added.
CONSTANTS
    Workers = {w1, w2}
    Stages = 2
    TasksPerStage = 1
    MinAlloc = 8
    Settled = FALSE
    MaxSpurious = 0
SPECIFICATION Spec
INVARIANT RunWaits
CHECK_DEADLOCK FALSE
