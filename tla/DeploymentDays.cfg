\* Setups, schedule commands, kills and the nightly backups.
CONSTANTS
    a1 = a1
    a2 = a2
    d1 = d1
    d2 = d2
    Absent = Absent
    Torn = Torn
    MyDrive = MyDrive
    Account = {a1, a2}
    Drive = {d1, d2}
    Sees <- OneDriveEach
    Remote = {r1}
    Default = r1
    Cmd = {i1, i2, u1}
    Installs = {i1, i2}
    Ours = {i1}
    MaxNights = 3
    MaxEvents = 4
SYMMETRY Exchange
SPECIFICATION Spec
INVARIANTS TypeOK ConfirmedTarget InstalledFires RemovedIsOff KillCostsTwoNights
 
CHECK_DEADLOCK FALSE
