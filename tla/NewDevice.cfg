SPECIFICATION Spec
CONSTANTS
    laptop = laptop
    phone = phone
    work = work
    home = home
    right = right
    wrong = wrong
    Devices = {laptop}
    Domains = {shop, blog}
    Keys = {k1, k2}
    Wallets = {home}
    Passwords = {right, wrong}
    Garbage = Garbage
    None = None
    Absent = Absent
    CutShort = CutShort
    Machine <- SameWallet
    Commands <- OneDevice
    Faults = {"loss"}
PROPERTY
    BackupKeepsLastCopy
CHECK_DEADLOCK FALSE
