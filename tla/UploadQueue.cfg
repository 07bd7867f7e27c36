SPECIFICATION Spec
CONSTANTS
    Users = {u1, u2}
    Files = {f1}
    MaxSlots = 2
    MaxRequests = 2
    PrivilegedLists = {{}, {u1, u2}}
    MaxChannel = 2
    Outcomes = {"Cancelled", "Failed"}
INVARIANTS
    TypeOK
    OneLedger
    RightPeer
    AcceptedIsRouted
PROPERTIES
    NeverOversubscribed
    ImplementsSlotService
SYMMETRY UserSymmetry
