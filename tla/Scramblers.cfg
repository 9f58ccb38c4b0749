SPECIFICATION Spec
CONSTANTS
    DownlinkNumbers = {0, 1, 6}
    UplinkNumbers = {0, 1, 128, 65535, 1193046, 16777215}
    Offsets = {0, 1, 2, 27}
    Length = 40
    FrameSizes = {13, 20, 40, 41, 90}
    MaxFrames = 4
INVARIANTS
    RegistersAlive
    QuadratureDelayed
    MaximalPeriod
    ShortRepeats
    PairsRotate
    Continuous
    FrameLength
PROPERTIES
    RecursionShrinks
