SPECIFICATION Spec
CONSTANTS
    HalfBits = 2
    Ten = 3
    Group = 2
    TableBytes = 64
    Limbs1 = {0, 1, 7, 8, 15}
    MaxLimbs = 3
    Types <- MCTypes
    ReadAll = 1024
    SizeBits = 5
    SizeGroup = 2
    ChunkBytes = 2
    Octets = {65, 128, 143, 144, 159, 160, 191, 193, 194, 224, 237, 239, 240, 244, 245}
    MaxOctets = 4
    BlockDigits = 2
    TwosBits = 9
    FractionBlocks = 20
    ExponentSize = 512
    FloatFormatSet <- MCFormats
    IntegerFormat <- MCIntegerFormat
    Integers1 <- MCIntegers
    MaxFixed = 7
    MaxScientific = 5
    GeneralRoom = 11
    Precisions = {0, 1, 2, 3, 4, 5, 6, 7, 8}
    Significands <- MCSignificands
    Fractions <- MCFractions
    Exponents <- MCExponents
    SpeckTurns <- MCTurns
    SpeckRounds = 6
    Seeds <- MCSeeds
    RcRounds = 3
    Poly = 3
    SBox <- MCSBox
    CipherWords = {1, 6, 15}
    AesWords <- MCAesWords
INVARIANTS
    NaturalArithmetic
    ExtensionArithmetic
    TextIsConverted
    FloatsAsText
    TextIsDeciphered
