SPECIFICATION Spec
CONSTANTS
    u1 = u1
    u2 = u2
    Uploads <- MCUploadsOne
    Names <- MCNames
    Tables <- MCTablesOne
    Supplier <- MCSupplierOne
    Global = Global
    Zero = Zero
    Norm <- MCNorm
    BlankNorm = ""
    Fields <- MCFields
    ModelAnswers <- MCModelAnswers
    BatchSize = 2
    Stored0 <- MCStored
INVARIANT KnownHeadersAreMapped
CHECK_DEADLOCK FALSE
