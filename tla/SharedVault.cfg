SPECIFICATION Spec
CONSTANTS
    laptop = laptop
    phone = phone
    work = work
    home = home
    right = right
    wrong = wrong
    Devices = {laptop, phone}
    Domains = {shop, blog}
    Keys = {k1, k2}
    Wallets = {work, home}
    Passwords = {right, wrong}
    Garbage = Garbage
    None = None
    Absent = Absent
    CutShort = CutShort
    Machine <- TwoWallets
    Commands <- TwoDevices
    Faults = {"read", "put", "get", "save", "crash", "loss"}
INVARIANTS
    TypeOK
    KeysStayWithTheirDomain
PROPERTIES
    BackupIsComplete
    RestoreIsComplete
    BackupNeverEmpties
    OnlyChosenVaultChanges
SYMMETRY
    NameSymmetry
