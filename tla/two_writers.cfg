SPECIFICATION CrewSpec
CONSTANTS
    Account = {a1, a2}
    User = {u1}
    Request = {r1}
    Slot = {blue, green}
    None = none
    ForceStop = TRUE
    Actors = {"admin", "mover", "rollout"}
    MaxGeneration = 3
    RolloutGenerations = 2
SYMMETRY MCSymmetry
INVARIANTS
    DeletedNotReadmitted
    SettledPublished
    SettledContainers
    ServedSlotKept
