SPECIFICATION Spec
CONSTANTS
    Account = {a1, a2}
    User = {u1}
    Request = {r1}
    Slot = {blue, green}
    None = none
    ForceStop = TRUE
    Actors = {"admin", "mover"}
    MaxGeneration = 2
INVARIANTS
    RoutesNameAccounts
