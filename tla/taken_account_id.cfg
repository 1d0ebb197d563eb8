SPECIFICATION SagaSpec
CONSTANTS
    AccountId = {1, 2, 3}
    Evacuee = {u1}
    TakenIds = TRUE
    SagaOps = 1
    SagaFaults = 0
    SagaCrashes = 1
    SagaMoves = 0
PROPERTIES
    UnbegunSparesContainers
CHECK_DEADLOCK FALSE
