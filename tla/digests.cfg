SPECIFICATION MCSpec
CONSTANTS
    BlockLen = 8
    WordBits = 5
    MaxBytes = 40
    MaxKeyLen = 31
    Bits = 5
    Rot5 = 3
    Rot30 = 4
    RoundConst <- MCRoundConst
    Block <- MCBlock
    State <- MCState
    BlockBytes = 4
    HashBits = {16, 32, 68}
    MaxKeyBytes = 5
    MaxMsg = 13
    LenBits = 6
    MaxLen = 20
    MaxHashedLen = 40
    TfBits = 8
    RCNT = 9
    Rotation <- MCRotation
    Parity = 85
    TfKey <- MCKey
    TfBlock <- MCPlain
    TfTweak <- MCTweak
    TfMaxBlocks = 2
CHECK_DEADLOCK FALSE
INVARIANTS
    DigestIsFips
    RoundsAreFips
    DigestIsSkein
    RoundsAreThreefish
    SameHashAnywhere
    EveryByteOnce
