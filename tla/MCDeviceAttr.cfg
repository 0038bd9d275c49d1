CONSTANTS
    t1 = t1
    t2 = t2
    Threads <- MCThreads
    Program <- MCProgram
    Groups <- MCGroups
    InitDevice <- MCInitDevice
    DeviceStates <- MCDeviceStates
    KernelHas <- MCHas
    KernelSet <- MCSet
    KernelGet <- MCGet
    KernelCreateVcpu <- MCCreateVcpu

SPECIFICATION Spec

INVARIANT TypeOK
INVARIANT TestAssertionsHold
PROPERTY ImplementsAbstract
