\* Launches overlap with everything, and one Alt-Fn comes in the middle.
\* A kernel fault with interrupts off stops the machine.
SPECIFICATION Spec
CONSTANTS
    MaxTerminals = 2
    MaxProcesses = 3
    Statuses = {15}
    Overlap = {"launch"}
    MaxSwitches = 1
INVARIANTS
    TypeInv
    BaseHasNoParent
CHECK_DEADLOCK FALSE
