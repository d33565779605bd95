SPECIFICATION FairSpec
CONSTANTS
    k1 = k1
    k2 = k2
    root = root
    text = text
    laptop = laptop
    phone = phone
    Outsider = Outsider
    None = None
    Keys = {k1, k2}
    Records = {root}
    RootRecords = {root}
    Devices = {laptop, phone}
    Commands <- RaceCommands
    Indices = {0}
    Faults = {"owner", "history", "download", "upload", "commit", "save", "crash"}
    ForeignDocs <- NoiseDocs
    Replays = TRUE
    MaxEntries = 4
INVARIANTS
    TypeOK
    JobsFit
    EntriesStored
    RegistrantOwnsDomain
    LookupFollowsRegister
    EditsFitThePast
PROPERTIES
    AnswersAreCurrent
    StrangersSayNothingNew
    KeyFileNamesOwner
    ImplementsDomain
    CommandsEnd
