SPECIFICATION Spec
CONSTANTS
    Users = {u1, u2}
    Files = {f1}
    MaxSlots = 2
    MaxRequests = 2
    PrivilegedLists = {{}, {u1}, {u2}, {u1, u2}}
    MaxChannel = 1
    Outcomes = {"Completed"}
INVARIANTS
    NoIdleSlot
SYMMETRY UserSymmetry
