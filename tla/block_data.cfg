CONSTANTS
    Fields <- MCFields
    Scale = 4
    Messages <- MCMessages
    Inputs <- MCInputs
    Opcodes <- MCOpcodes
    Enumerations <- MCEnumerations
    Vocabulary <- MCVocabulary
    Names <- MCNames
    Nids = {1, 2}
    Instructions <- MCInstructions
    Lines <- MCLines
    BlockList <- MCBlockList
    Ignored = {"sensor"}
    IoArrays = {"io"}
    Channels = 2
    Data <- MCData
    Blocks = {"a", "b"}
    Callers = {"c1", "c2"}
    Broadcaster = "broadcaster"
    Programs <- MCPrograms
    MaxChanges = 2
    MaxDisturbed = 1
SPECIFICATION BlockDataSpec
INVARIANT BlockDataTypeOK
PROPERTIES
    ViewsConverge
    
    
    LinesKeepTheirMeaning
    AnalysisIsExact
CHECK_DEADLOCK FALSE
