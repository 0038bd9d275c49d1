CONSTANTS
    h1 = h1
    h2 = h2
    h3 = h3
    d1 = d1
    d2 = d2
    Closed = Closed
    NoFd = NoFd
    Stdin = Stdin
    Handles <- MCHandles
    Devices <- MCDevices
    MaxFd = 2

SPECIFICATION Spec

INVARIANT TypeOK
INVARIANT HandleIntegrity
PROPERTY DevicesReleased
