SPECIFICATION FairSpec
CONSTANTS
    u1 = u1
    u2 = u2
    Uploads <- MCUploadsTwo
    Names <- MCNames
    Tables <- MCTables
    Supplier <- MCSupplier
    Global = Global
    Zero = Zero
    Norm <- MCNorm
    BlankNorm = ""
    Fields <- MCFields
    ModelAnswers <- MCModelAnswers
    BatchSize = 2
    Stored0 <- MCStored
INVARIANTS TypeOK EveryCandidateAsked OnlyUnknownSent KnownFieldsKept MappedIsStored
PROPERTIES UploadEnds  KeepsLearning
CHECK_DEADLOCK FALSE
