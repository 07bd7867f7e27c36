SPECIFICATION FairSpec
CONSTANTS
    Users = {u1, u2}
    Files = {f1}
    MaxSlots = 1
    MaxRequests = 1
    PrivilegedLists = {{u1}}
    MaxChannel = 1
    Outcomes = {"Completed"}
PROPERTIES
    DepartedFreesSlots
