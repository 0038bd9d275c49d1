------------------------------ MODULE KvmVgic ------------------------------
(***************************************************************************)
(* The in-kernel ARM vGIC device, as the wrappers of                       *)
(* src/kvm-ioctls/src/ioctls/device.rs see it through                      *)
(* KVM_HAS_DEVICE_ATTR, KVM_SET_DEVICE_ATTR and KVM_GET_DEVICE_ATTR.       *)
(*                                                                         *)
(* This is the ENVIRONMENT of the repository's code, not code of it: the   *)
(* kernel answers each ioctl atomically (it serialises attribute calls on  *)
(* one device under the VM's config lock).  Its behaviour is taken from    *)
(* the spec (sections 4.2, 7 and 8) and from what the aarch64 test of      *)
(* device.rs asserts of the kernel: an unsupported group fails, a vCPU     *)
(* must exist before attributes are set, NR_IRQS is set before the INIT    *)
(* control, a get through address 0 fails with EFAULT, and a get through a *)
(* valid address returns the value that was set.                           *)
(*                                                                         *)
(* Answers have the shape of module KvmIoctl.                             *)
(***************************************************************************)
EXTENDS KvmIoctl

\* Attribute groups: KVM_DEV_ARM_VGIC_GRP_NR_IRQS, KVM_DEV_ARM_VGIC_GRP_CTRL
\* (attr KVM_DEV_ARM_VGIC_CTRL_INIT) and KVM_DEV_VFIO_GROUP, which a vGIC
\* does not implement.
Groups     == {"NR_IRQS", "CTRL", "VFIO"}
VgicGroups == {"NR_IRQS", "CTRL"}

NrPrivateIrqs == 32      \* SGIs and PPIs, counted in every NR_IRQS value
NrLegacyIrqs  == 256     \* what INIT uses when NR_IRQS was never set

\* A device just returned by create_device: no vCPU, NR_IRQS unset.
InitDevice == [vcpu |-> FALSE, nrSpis |-> 0, ready |-> FALSE]

DeviceStates == [vcpu : BOOLEAN, nrSpis : 0..1024, ready : BOOLEAN]

\* The kernel's check on a NR_IRQS value: at least 32 SPIs on top of the
\* private interrupts, at most 1024 interrupts, a multiple of 32.
ValidNrIrqs(v) == v >= NrPrivateIrqs + 32 /\ v <= 1024 /\ v % 32 = 0

\* KVM_HAS_DEVICE_ATTR: addr is ignored.
KernelHas(dev, group) ==
    IF group \in VgicGroups THEN Ok(dev, {}) ELSE Fail(dev, ENXIO)

\* KVM_SET_DEVICE_ATTR; `in` is {v} when addr holds the u32 v, {} when
\* addr is not readable.
KernelSet(dev, group, in) ==
    CASE group \notin VgicGroups -> Fail(dev, ENXIO)
      [] ~dev.vcpu               -> Fail(dev, ENODEV)
      [] group = "NR_IRQS" ->
            CASE in = {}                          -> Fail(dev, EFAULT)
              [] ~ValidNrIrqs(TheValue(in))       -> Fail(dev, EINVAL)
              [] dev.ready \/ dev.nrSpis # 0      -> Fail(dev, EBUSY)
              [] OTHER -> Ok([dev EXCEPT !.nrSpis = TheValue(in) - NrPrivateIrqs], {})
      [] group = "CTRL" ->
            Ok([dev EXCEPT !.ready  = TRUE,
                           !.nrSpis = IF @ = 0 THEN NrLegacyIrqs - NrPrivateIrqs
                                               ELSE @], {})

\* KVM_GET_DEVICE_ATTR; `writable` says whether addr may be written.
KernelGet(dev, group, writable) ==
    CASE group # "NR_IRQS" -> Fail(dev, ENXIO)
      [] ~writable         -> Fail(dev, EFAULT)
      [] OTHER             -> Ok(dev, {dev.nrSpis + NrPrivateIrqs})

\* KVM_CREATE_VCPU on the VM that owns the device: refused once the vGIC
\* is initialised.
KernelCreateVcpu(dev) ==
    IF dev.ready THEN Fail(dev, EBUSY)
                 ELSE Ok([dev EXCEPT !.vcpu = TRUE], {})
=============================================================================
