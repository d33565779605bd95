SPECIFICATION Spec
CONSTANTS
    k1 = k1
    k2 = k2
    root = root
    text = text
    laptop = laptop
    phone = phone
    Outsider = Outsider
    None = None
    Keys = {k1}
    Records = {root, text}
    RootRecords = {root}
    Devices = {laptop}
    Commands <- OneDeviceCommands
    Indices = {0}
    Faults = {}
    ForeignDocs = {}
    Replays = TRUE
    MaxEntries = 4
PROPERTY
    OnlyHolderChangesDomain
CHECK_DEADLOCK FALSE
