------------------------------- MODULE KvmAia -------------------------------
(***************************************************************************)
(* The in-kernel RISC-V AIA device (APLIC + IMSIC), as the wrappers of     *)
(* src/kvm-ioctls/src/ioctls/device.rs see it through the three attribute *)
(* ioctls, and vCPU creation on its VM.                                    *)
(*                                                                         *)
(* ENVIRONMENT of the repository's code: the kernel answers each ioctl     *)
(* atomically.  What it does is what the riscv64 test of device.rs relies  *)
(* on: a vCPU must be online before the IMSIC address can be set, the      *)
(* APLIC and IMSIC addresses must be set before INIT, a get through        *)
(* address 0 fails with EFAULT, a get through a valid address returns the  *)
(* number of sources that was set.  Configuration is refused once the      *)
(* device is initialised; unlike the vGIC's NR_IRQS, CONFIG_SRCS may be    *)
(* set again before that.                                                  *)
(*                                                                         *)
(* A group here names the (group, attr) pair of a kvm_device_attr:         *)
(* KVM_DEV_RISCV_AIA_GRP_CONFIG/CONFIG_SRCS, GRP_ADDR/ADDR_APLIC,          *)
(* GRP_ADDR/attr 1 (the IMSIC of vCPU 0), GRP_CTRL/CTRL_INIT, and the     *)
(* VFIO group, which the AIA does not implement.                           *)
(***************************************************************************)
EXTENDS KvmIoctl

Groups    == {"CONFIG_SRCS", "ADDR_APLIC", "ADDR_IMSIC0", "CTRL", "VFIO"}
AiaGroups == Groups \ {"VFIO"}
AddrGroups == {"ADDR_APLIC", "ADDR_IMSIC0"}

SrcsMax   == 1024       \* KVM_DEV_RISCV_AIA_SRCS_MAX
Undef     == -1         \* KVM_RISCV_AIA_UNDEF_ADDR
\* Alignment the kernel demands of each address.
Align     == [ADDR_APLIC |-> 16384, ADDR_IMSIC0 |-> 4096]

\* A device just returned by create_aia_device: no vCPU, no sources, no
\* addresses.
InitDevice == [vcpu |-> FALSE, nrSources |-> 0,
               addr |-> [g \in AddrGroups |-> Undef], ready |-> FALSE]

DeviceStates == [vcpu : BOOLEAN, nrSources : 0..SrcsMax - 1,
                 addr : [AddrGroups -> Int], ready : BOOLEAN]

\* KVM_HAS_DEVICE_ATTR: addr is ignored.
KernelHas(dev, group) ==
    IF group \in AiaGroups THEN Ok(dev, {}) ELSE Fail(dev, ENXIO)

\* INIT is refused until the APLIC (when there are sources) and the IMSIC
\* of the vCPU have addresses.
Placed(dev) ==
    /\ dev.nrSources = 0 \/ dev.addr["ADDR_APLIC"] # Undef
    /\ dev.vcpu => dev.addr["ADDR_IMSIC0"] # Undef

\* KVM_SET_DEVICE_ATTR; `in` is {v} when addr holds v, {} when addr is not
\* readable (the copy_from_user comes first).
KernelSet(dev, group, in) ==
    CASE group \notin AiaGroups -> Fail(dev, ENXIO)
      [] group = "CTRL" ->
            CASE dev.ready     -> Fail(dev, EBUSY)
              [] ~Placed(dev)  -> Fail(dev, EINVAL)
              [] OTHER         -> Ok([dev EXCEPT !.ready = TRUE], {})
      [] in = {} -> Fail(dev, EFAULT)
      [] group = "CONFIG_SRCS" ->
            CASE dev.ready                 -> Fail(dev, EBUSY)
              [] TheValue(in) >= SrcsMax   -> Fail(dev, EINVAL)
              [] OTHER -> Ok([dev EXCEPT !.nrSources = TheValue(in)], {})
      [] group = "ADDR_IMSIC0" /\ ~dev.vcpu -> Fail(dev, EINVAL)
      [] OTHER ->
            CASE dev.ready                           -> Fail(dev, EBUSY)
              [] TheValue(in) % Align[group] # 0     -> Fail(dev, EINVAL)
              [] OTHER -> Ok([dev EXCEPT !.addr[group] = TheValue(in)], {})

\* KVM_GET_DEVICE_ATTR; `writable` says whether addr may be written.
KernelGet(dev, group, writable) ==
    CASE group \notin AiaGroups \/ group = "CTRL"  -> Fail(dev, ENXIO)
      [] group = "ADDR_IMSIC0" /\ ~dev.vcpu        -> Fail(dev, EINVAL)
      [] ~writable                                 -> Fail(dev, EFAULT)
      [] group = "CONFIG_SRCS"                     -> Ok(dev, {dev.nrSources})
      [] OTHER                                     -> Ok(dev, {dev.addr[group]})

\* KVM_CREATE_VCPU on the VM that owns the device (one vCPU, id 0).
KernelCreateVcpu(dev) == Ok([dev EXCEPT !.vcpu = TRUE], {})
=============================================================================
