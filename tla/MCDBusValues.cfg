SPECIFICATION Spec
CONSTANTS
    Size <- SmallSizes
    Names = {"Name", "Value"}
    Holders <- SentHolders
    Arguments <- PeerArguments
    Chunks <- WrittenChunks
    Lengths = 4
    AssignCall <- AssignRecursion
    SignatureCall <- SignatureRecursion
    EncodeCall <- EncodeRecursion
    DecodeCall <- DecodeRecursion
    IsHolderCall <- IsHolderRecursion
    RepresentsCall <- RepresentsRecursion
INVARIANTS
    TypeOK
    ExtractedIsSent
    SetArrives
    WriteArrives
CHECK_DEADLOCK FALSE
