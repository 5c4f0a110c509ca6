SPECIFICATION Spec
CONSTANTS
    v1 = v1
    v2 = v2
    Versions = {v1, v2}
    MaxText = 4
    UserMay <- UserDoes
    Faults <- ThingsFail
    MaxEdits = 2
    MaxEntries = 1
SYMMETRY Swap
INVARIANTS
    ForceRemoves
PROPERTIES
    UserTextPreserved
    FailedStepRestores
    RemovalRestores
    NeverDuplicates
