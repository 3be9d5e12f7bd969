SPECIFICATION Spec
CONSTANTS
    mbmod00 = mbmod00
    Name = {mbmod00, a, b}
    MbMod <- MCMbMod
    Minors = 4
    NoDevice = NoDevice
PROPERTY UnregisteredCentrally
CHECK_DEADLOCK FALSE
