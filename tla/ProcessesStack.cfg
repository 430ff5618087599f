\* A launch overlaps with the end of an exit.
SPECIFICATION Spec
CONSTANTS
    MaxTerminals = 2
    MaxProcesses = 4
    Statuses = {15}
    Overlap = {"launch"}
    MaxSwitches = 0
INVARIANTS
    NoStackReuse
CHECK_DEADLOCK FALSE
