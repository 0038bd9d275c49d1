-------------------------- MODULE MCDeviceAttrAia --------------------------
(* Two threads on one RISC-V AIA device, for TLC: the riscv64 test's      *)
(* sequence through one handle and the VFIO-group probe through another.  *)
EXTENDS DeviceAttr, TLC

CONSTANTS t1, t2

MCThreads == {t1, t2}

Aia == INSTANCE KvmAia

MCGroups           == Aia!Groups
MCInitDevice       == Aia!InitDevice
MCDeviceStates     == Aia!DeviceStates
MCHas(d, g)        == Aia!KernelHas(d, g)
MCSet(d, g, in)    == Aia!KernelSet(d, g, in)
MCGet(d, g, w)     == Aia!KernelGet(d, g, w)
MCCreateVcpu(d)    == Aia!KernelCreateVcpu(d)

MCProgram     == (t1 :> AiaTestProgram) @@ (t2 :> VfioProbeProgram)
=============================================================================
