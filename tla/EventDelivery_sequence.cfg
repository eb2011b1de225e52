SPECIFICATION Spec
CONSTANTS
    Main = Main
    Handlers = {h1, h2}
    SlowSinks = FALSE
    MaxEmits = 1
    MaxCancels = 0
INVARIANT DeliveredInSequence
