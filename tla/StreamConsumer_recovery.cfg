\* One consumer whose handler fails, restarted with more pending entries
\* than one answer holds.
CONSTANTS
    Last = 3
    Instance = {i1}
    Count = 2
    Foreign = {}
    Faults = {"handler", "stop"}
SPECIFICATION Spec
PROPERTIES
    RecoversPending
