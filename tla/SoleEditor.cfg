SPECIFICATION FairSpec
CONSTANTS
    k1 = k1
    k2 = k2
    root = root
    text = text
    laptop = laptop
    phone = phone
    Outsider = Outsider
    None = None
    Keys = {k1}
    Records = {root, text}
    RootRecords = {root}
    Devices = {laptop, phone}
    Commands <- SoleEditorCommands
    Indices = {0, 1}
    Faults = {}
    ForeignDocs <- SpamDocs
    Replays = FALSE
    MaxEntries = 4
INVARIANT
    EditsFitThePast
PROPERTIES
    AnswersAreCurrent
    EditsAreAtomic
    SuccessTakesEffect
    OnlyHolderChangesDomain
    ImplementsEdits
    DraftsArePublished
