CONSTANTS
    IntWidths = {2, 4, 6, 8}
    IntWidth = 6
    FloatBits = {2, 5, 7}
    DoubleBits = 7
    UnsetBits = 0
    SizeType <- MCSizeType
    Conversions = {}
    Known <- MCKnown
    Fields <- MCFields
    Large <- MCLarge
    Path <- MCPath
    FieldTypes <- MCFieldTypes
    Headers <- MCHeaders
    MaxDeclarations = 3
    MaxLists = 2
    Floored = FALSE
    Names = {"a", "b"}
    Functions = {"f"}
    Numbers = {"1"}
    Signed1 <- MCSigned1
    Examples <- MCExamples
    Leaves <- MCLeaves
    Arithmetics = {"+", "-", "*", "/", "%", "<", "<=", ">", "==", "&", "><", "<<", ">>", "&&", "||"}
    MaxTyped = 2
    Pieces <- MCPieces
    Infixes = {"^", "*", "-", "<"}
    MaxTree = 5
SPECIFICATION Spec
INVARIANTS ListsConsistent PartsHandledOnce AnnouncedType NumbersKept DivisionEquation RoundTrip
CHECK_DEADLOCK FALSE
PROPERTY ExactIsStable
