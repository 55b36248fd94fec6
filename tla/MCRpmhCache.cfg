SPECIFICATION Spec
CONSTANTS
    a1 = a1
    a2 = a2
    a3 = a3
    Addr = {a1, a2, a3}
    Val = {1, 2}
    Unset = Unset
    Messages <- MCMessages
    Batches <- MCBatches
    MaxOps = 4
    num_tcs = 2
    ncpt = 2
    CMD_DB_MAX_RESOURCES = 3
    MAX_RPMH_PAYLOAD = 3
    Kinds = {"own", "borrowed", "channels"}
INVARIANTS
    LatestUnlessClobbered
    FindSlotsIsFirstFit
