----------------------------- MODULE DeviceAttr -----------------------------
(***************************************************************************)
(* The device attribute protocol of DeviceFd (src/kvm-ioctls/src/ioctls/  *)
(* device.rs): has_device_attr, set_device_attr and get_device_attr,       *)
(* called by several threads that hold handles on ONE kernel device (a    *)
(* DeviceFd is Sync, and the tests dup its descriptor into a second        *)
(* handle on the same device).                                             *)
(*                                                                         *)
(* Each wrapper is two steps of its thread, as in the code:               *)
(*   - the ioctl (ioctl_with_ref / ioctl_with_mut_ref), answered          *)
(*     atomically by the kernel (a constant here: KvmVgic or KvmAia),    *)
(*     which sets the ioctl's                                              *)
(*     return value and, on failure only, the thread-local errno;          *)
(*   - the return: `if ret != 0 { return Err(errno::Error::last()) }`,     *)
(*     then Ok(()), followed by the caller's unwrap / unwrap_err /         *)
(*     assert_eq on the result.                                            *)
(* Other threads' ioctls may run between the two steps.                    *)
(*                                                                         *)
(* What each thread calls is a Program: the call sequence of a test of     *)
(* device.rs, a sequence of Step records.                                  *)
(***************************************************************************)
EXTENDS KvmIoctl, Sequences

CONSTANTS
    Threads,    \* threads sharing the device
    Program,    \* Program[t]: the steps thread t executes, in order
    \* The kernel device, as in module KvmVgic or KvmAia:
    Groups, InitDevice, DeviceStates,
    KernelHas(_, _), KernelSet(_, _, _), KernelGet(_, _, _), KernelCreateVcpu(_)

\* One step of a caller: a vCPU creation, an attribute call, or an assert on
\* the output buffer.  `addr` is where the kvm_device_attr's addr points,
\* `val` the u32 at a "local" address (or the value an assert expects), and
\* `expect` what the caller demands of the result: "ok" (unwrap), "err"
\* (unwrap_err) or "EFAULT" (assert_eq!(res, Err(Error::new(libc::EFAULT)))).
Step(op, group, addr, val, expect) ==
    [op |-> op, group |-> group, addr |-> addr, val |-> val, expect |-> expect]

VARIABLES
    dev,        \* the kernel device every handle refers to
    step,       \* step[t]: index in Program[t] of t's current step
    at,         \* at[t]: "issue", "return" (ioctl done, wrapper not yet
                \*        returned) or "panic" (an unwrap or assert failed)
    ret,        \* ret[t]: return value of t's last ioctl
    errno,      \* errno[t]: t's thread-local errno
    data,       \* data[t]: t's u32 output buffer (`let mut data: u32 = 0`)
    result      \* result[t]: [op, group, res] of t's last completed call

vars == <<dev, step, at, ret, errno, data, result>>

NoResult == [op |-> "none", group |-> "none", res |-> NoErr]

Cur(t)     == Program[t][step[t]]
Running(t) == step[t] <= Len(Program[t]) /\ at[t] # "panic"

\* What the kernel reads at a set's addr: {v}, or {} for address 0.
In(t, s) ==
    CASE s.addr = "null"  -> {}
      [] s.addr = "data"  -> {data[t]}
      [] s.addr = "local" -> {s.val}

\* Mutant: the ioctl's return value (-1) stored as the errno.
IoctlErrnoFromRet(t, r) ==
    /\ dev'   = r.dev
    /\ ret'   = [ret EXCEPT ![t] = r.ret]
    /\ errno' = IF r.ret # 0 THEN [errno EXCEPT ![t] = r.ret] ELSE errno
    /\ data'  = IF r.out = {} THEN data ELSE [data EXCEPT ![t] = TheValue(r.out)]
    /\ at'    = [at EXCEPT ![t] = "return"]
    /\ UNCHANGED <<step, result>>

\* The ioctl step: the kernel's answer r takes effect at once; errno is
\* written only when the ioctl fails, as libc does.
Ioctl(t, r) ==
    /\ dev'   = r.dev
    /\ ret'   = [ret EXCEPT ![t] = r.ret]
    /\ errno' = IF r.ret # 0 THEN [errno EXCEPT ![t] = r.errno] ELSE errno
    /\ data'  = IF r.out = {} THEN data ELSE [data EXCEPT ![t] = TheValue(r.out)]
    /\ at'    = [at EXCEPT ![t] = "return"]
    /\ UNCHANGED <<step, result>>

\* has_device_attr: ioctl_with_ref(self, KVM_HAS_DEVICE_ATTR(), device_attr)
HasDeviceAttr(t) ==
    /\ Running(t) /\ at[t] = "issue" /\ Cur(t).op = "has"
    /\ Ioctl(t, KernelHas(dev, Cur(t).group))

\* set_device_attr: ioctl_with_ref(self, KVM_SET_DEVICE_ATTR(), device_attr)
SetDeviceAttr(t) ==
    /\ Running(t) /\ at[t] = "issue" /\ Cur(t).op = "set"
    /\ Ioctl(t, KernelSet(dev, Cur(t).group, In(t, Cur(t))))

\* get_device_attr: ioctl_with_mut_ref(self, KVM_GET_DEVICE_ATTR(), ..);
\* the kernel writes through addr, which only `data` lets it do.
GetDeviceAttr(t) ==
    /\ Running(t) /\ at[t] = "issue" /\ Cur(t).op = "get"
    /\ Ioctl(t, KernelGet(dev, Cur(t).group, Cur(t).addr = "data"))

\* Mutant: the wrapper tests errno instead of ret.
ReturnedOnErrno(t) == IF errno[t] # NoErr THEN errno[t] ELSE NoErr

\* What the wrapper returns: Err(errno::Error::last()) when ret != 0, else
\* Ok(()), written 0.
Returned(t) == IF ret[t] # 0 THEN errno[t] ELSE NoErr

Meets(res, expect) ==
    CASE expect = "ok"     -> res = NoErr
      [] expect = "err"    -> res # NoErr
      [] expect = "EFAULT" -> res = EFAULT

\* Moves t to its next step, or to "panic" when `good` is false.
Advance(t, good) ==
    /\ step' = [step EXCEPT ![t] = IF good THEN @ + 1 ELSE @]
    /\ at'   = [at EXCEPT ![t] = IF good THEN "issue" ELSE "panic"]

\* The wrapper's return, shared by the three operations, and the caller's
\* check of it.
WrapperReturn(t) ==
    /\ Running(t) /\ at[t] = "return"
    /\ result' = [result EXCEPT ![t] =
                    [op |-> Cur(t).op, group |-> Cur(t).group, res |-> Returned(t)]]
    /\ Advance(t, Meets(Returned(t), Cur(t).expect))
    /\ UNCHANGED <<dev, ret, errno, data>>

\* vm.create_vcpu(0).unwrap(): KVM_CREATE_VCPU sets errno when it fails.
CreateVcpu(t) ==
    /\ Running(t) /\ at[t] = "issue" /\ Cur(t).op = "vcpu"
    /\ LET r == KernelCreateVcpu(dev) IN
         /\ dev'   = r.dev
         /\ errno' = IF r.ret # 0 THEN [errno EXCEPT ![t] = r.errno] ELSE errno
         /\ Advance(t, Meets(IF r.ret = 0 THEN NoErr ELSE r.errno, Cur(t).expect))
    /\ UNCHANGED <<ret, data, result>>

\* assert_eq!(data, val)
AssertData(t) ==
    /\ Running(t) /\ at[t] = "issue" /\ Cur(t).op = "assert"
    /\ Advance(t, data[t] = Cur(t).val)
    /\ UNCHANGED <<dev, ret, errno, data, result>>

\* Mutant: request_gic_init before set_supported_nr_irqs.
GicTestProgramInitFirst ==
    << Step("vcpu",   "none",    "null",  0,   "ok"),
       Step("has",    "VFIO",    "null",  0,   "err"),
       Step("set",    "CTRL",    "null",  0,   "ok"),
       Step("has",    "NR_IRQS", "local", 128, "ok"),
       Step("set",    "NR_IRQS", "local", 128, "ok"),
       Step("get",    "NR_IRQS", "null",  0,   "EFAULT"),
       Step("get",    "NR_IRQS", "data",  0,   "ok"),
       Step("assert", "none",    "none",  128, "ok") >>

\* The aarch64 test_create_device, from the vCPU creation on: the device
\* fd it uses is the dup of the one create_gic_device returned.
\* set_supported_nr_irqs(&device_fd, 128) is has + set of NR_IRQS through
\* the address of a local u32, each unwrapped; request_gic_init(&device_fd)
\* is a set of CTRL/INIT with addr 0, unwrapped.  The first get passes
\* `data as u64` (0) as the address and expects EFAULT.
GicTestProgram ==
    << Step("vcpu",   "none",    "null",  0,   "ok"),
       Step("has",    "VFIO",    "null",  0,   "err"),
       Step("has",    "NR_IRQS", "local", 128, "ok"),
       Step("set",    "NR_IRQS", "local", 128, "ok"),
       Step("set",    "CTRL",    "null",  0,   "ok"),
       Step("get",    "NR_IRQS", "null",  0,   "EFAULT"),
       Step("get",    "NR_IRQS", "data",  0,   "ok"),
       Step("assert", "none",    "none",  128, "ok") >>

\* The x86_64 test_create_device's three calls with a VFIO-group attribute,
\* each expected to fail, made through a second handle on the same device.
VfioProbeProgram ==
    << Step("has", "VFIO", "null", 0, "err"),
       Step("get", "VFIO", "null", 0, "err"),
       Step("set", "VFIO", "null", 0, "err") >>

\* Mutant: the vCPU created after the addresses are set.
AiaTestProgramVcpuLast ==
    << Step("has",    "CONFIG_SRCS", "local", 128,   "ok"),
       Step("set",    "CONFIG_SRCS", "local", 128,   "ok"),
       Step("set",    "ADDR_APLIC",  "local", 16384, "ok"),
       Step("set",    "ADDR_IMSIC0", "local", 32768, "ok"),
       Step("vcpu",   "none",        "null",  0,     "ok"),
       Step("set",    "CTRL",        "null",  0,     "ok"),
       Step("get",    "CONFIG_SRCS", "null",  0,     "EFAULT"),
       Step("get",    "CONFIG_SRCS", "data",  0,     "ok"),
       Step("assert", "none",        "none",  128,   "ok") >>

\* The riscv64 test_create_device, from the vCPU creation on (the device fd
\* it uses is the dup of the one create_aia_device returned):
\* set_supported_nr_irqs(&device_fd, 128) (has + set of CONFIG_SRCS), the
\* APLIC address 0x4000 and the IMSIC address 0x8000 of vCPU 0,
\* request_aia_init (CTRL/INIT), the get through address 0 and the get
\* into `data`.
AiaTestProgram ==
    << Step("vcpu",   "none",        "null",  0,     "ok"),
       Step("has",    "CONFIG_SRCS", "local", 128,   "ok"),
       Step("set",    "CONFIG_SRCS", "local", 128,   "ok"),
       Step("set",    "ADDR_APLIC",  "local", 16384, "ok"),
       Step("set",    "ADDR_IMSIC0", "local", 32768, "ok"),
       Step("set",    "CTRL",        "null",  0,     "ok"),
       Step("get",    "CONFIG_SRCS", "null",  0,     "EFAULT"),
       Step("get",    "CONFIG_SRCS", "data",  0,     "ok"),
       Step("assert", "none",        "none",  128,   "ok") >>

Init ==
    /\ dev    = InitDevice
    /\ step   = [t \in Threads |-> 1]
    /\ at     = [t \in Threads |-> "issue"]
    /\ ret    = [t \in Threads |-> 0]
    /\ errno  = [t \in Threads |-> NoErr]
    /\ data   = [t \in Threads |-> 0]
    /\ result = [t \in Threads |-> NoResult]

Finished == \A t \in Threads : ~Running(t)

\* Every step thread t can take.
ThreadStep(t) ==
    \/ HasDeviceAttr(t) \/ SetDeviceAttr(t) \/ GetDeviceAttr(t)
    \/ WrapperReturn(t) \/ CreateVcpu(t) \/ AssertData(t)

Next ==
    \/ \E t \in Threads : ThreadStep(t)
    \/ Finished /\ UNCHANGED vars

Spec == Init /\ [][Next]_vars

-----------------------------------------------------------------------------
ProgramValues ==
    UNION {{Program[t][i].val : i \in 1..Len(Program[t])} : t \in Threads}

TypeOK ==
    /\ dev \in DeviceStates
    /\ \A t \in Threads : step[t] \in 1..Len(Program[t]) + 1
    /\ at \in [Threads -> {"issue", "return", "panic"}]
    /\ ret \in [Threads -> {0, -1}]
    /\ errno \in [Threads -> Errnos \cup {NoErr}]
    /\ data \in [Threads -> Int]
    /\ \A t \in Threads : result[t].res \in Errnos \cup {NoErr}

\* Every unwrap, unwrap_err and assert_eq of the tests holds in every
\* interleaving of the threads' calls on the shared device: the vCPU is
\* created before attributes are set, NR_IRQS is set before INIT, the
\* unsupported VFIO group fails, address 0 gives EFAULT, and the get
\* returns the 128 that was set.
TestAssertionsHold == \A t \in Threads : at[t] # "panic"

\* The wrappers implement the atomic protocol of AttrAbstract: a call's
\* result is decided at its ioctl, so a thread between its ioctl and its
\* return is mapped to the result it is about to report.
Abstract == INSTANCE AttrAbstract WITH
    Values <- ProgramValues,
    result <- [t \in Threads |->
                 IF at[t] = "return"
                 THEN [op |-> Cur(t).op, group |-> Cur(t).group, res |-> Returned(t)]
                 ELSE result[t]]

\* Each wrapper reports Ok exactly when the kernel accepted the request,
\* Err with the errno of this very request otherwise, and the buffer holds
\* what the kernel wrote.
ImplementsAbstract == Abstract!Spec
=============================================================================
