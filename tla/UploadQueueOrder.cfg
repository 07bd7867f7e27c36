SPECIFICATION SpecLowering
CONSTANTS
    Users = {u1, u2}
    Files = {f1}
    MaxSlots = 2
    MaxRequests = 3
    PrivilegedLists = {{u1}, {u2}}
    MaxChannel = 1
    Outcomes = {"Completed"}
INVARIANTS
    NoIdleSlot
PROPERTIES
    NoDonorOvertaken
    FirstComeFirstServed
SYMMETRY UserSymmetry
