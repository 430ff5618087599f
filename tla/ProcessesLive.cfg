\* Three terminals, two program slots; launches, exits and Alt-Fn one at a
\* time; the refinement of ProcessForest and liveness.
SPECIFICATION FairSpec
CONSTANTS
    MaxTerminals = 3
    MaxProcesses = 5
    Statuses = {15}
    Overlap = {}
    MaxSwitches = 0
PROPERTIES
    ForestFairSpec
    LaunchCompletes
    BootCompletes
