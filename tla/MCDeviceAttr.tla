---------------------------- MODULE MCDeviceAttr ----------------------------
(* Two threads on one vGIC device, for TLC: the aarch64 test's sequence   *)
(* through one handle and the VFIO-group probe through another.           *)
EXTENDS DeviceAttr, TLC

CONSTANTS t1, t2

MCThreads == {t1, t2}

Vgic == INSTANCE KvmVgic

MCGroups           == Vgic!Groups
MCInitDevice       == Vgic!InitDevice
MCDeviceStates     == Vgic!DeviceStates
MCHas(d, g)        == Vgic!KernelHas(d, g)
MCSet(d, g, in)    == Vgic!KernelSet(d, g, in)
MCGet(d, g, w)     == Vgic!KernelGet(d, g, w)
MCCreateVcpu(d)    == Vgic!KernelCreateVcpu(d)

MCProgram     == (t1 :> GicTestProgram) @@ (t2 :> VfioProbeProgram)
=============================================================================
