SPECIFICATION FairSpec
CONSTANTS
    Main = Main
    Handlers = {h1, h2, h3}
    SlowSinks = TRUE
    MaxEmits = 2
    MaxCancels = 1
INVARIANT OrderWithinSource
PROPERTIES WaitsForPending DeadTailStaysDead EveryEventSettles
