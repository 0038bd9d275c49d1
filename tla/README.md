# TLA+ models of kvm-ioctls' device attribute protocol and kvm-bindings' serialisation

This directory holds TLA+ models of the two source files of the repository and
the TLC configurations that check them:

- `src/kvm-ioctls/src/ioctls/device.rs`: `DeviceFd`, the owned handle on an
  in-kernel emulated device, its three attribute calls and its tests;
- `src/kvm-bindings/src/arm64/serialize.rs`: the serde implementations of the
  arm64 KVM structures and the hand-written `unsafe impl IntoBytes` for two
  unions whose members differ in size.

## 1. Inventory

### Components

| Component | Source | State it keeps | Operations |
|---|---|---|---|
| Device Handle | `device.rs` 15-19, 175-198 | a `File`, i.e. one descriptor number in the process's descriptor table | `new_device`, `as_raw_fd`, `from_raw_fd`, drop (closes the descriptor) |
| Device Attribute Protocol | `device.rs` 21-173 | none of its own; the device's state lives in the kernel, the result goes to the caller's `kvm_device_attr.addr` buffer and to the thread's errno | `has_device_attr`, `set_device_attr`, `get_device_attr` (unsafe) |
| Kernel devices (environment) | not in the repository | vGIC: vCPU present, NR_IRQS, initialised; AIA: vCPU present, number of sources, APLIC and IMSIC addresses, initialised | the three attribute ioctls, vCPU creation |
| VM collaborator | `vm.rs`, not under `src/` | the VM | `create_device` (with or without `KVM_CREATE_DEVICE_TEST`), `create_vcpu`, `set_supported_nr_irqs`, `request_gic_init`, `request_aia_init` |
| Serialization Adapter | `serialize.rs` 1-42 | none; converts values to and from byte spans | `Serialize` (`as_bytes`), `Deserialize` (length check, transmute) |
| Binary Structure Layer | bindgen output, not under `src/` | fixed layouts | none |

### How they interact

A caller gets a `DeviceFd` from `vm.create_device`, or builds one with
`from_raw_fd` from a descriptor it owns (the tests dup the first handle's
descriptor). It fills a `kvm_device_attr` and calls one of the three wrappers,
which all do the same thing: `ioctl` on the handle's descriptor with the
attribute as payload, then `if ret != 0 { return Err(errno::Error::last()) }`,
else `Ok(())`. The kernel answers the ioctl atomically, reading or writing the
u32 at `addr`. A `DeviceFd` is `Sync`: several threads, or several handles on
dups of one descriptor, reach the same kernel device without any lock in this
code. Dropping a `DeviceFd` closes its descriptor; the kernel device lives as
long as one descriptor refers to it. Descriptor numbers are process-wide and
handed out lowest-free first, so a closed number is reused at once.

The serialisation layer is independent of the protocol: a value of a listed
structure is serialised as its raw bytes and deserialised from bytes of exactly
its size. For unions with members of different sizes, `as_bytes` reads the
union's whole extent, which the `unsafe impl IntoBytes` in `serialize.rs`
asserts to be sound.

### What is hard

- descriptor reuse: a number closed by one owner is the next one opened, so a
  second owner of the number (from `from_raw_fd` without `dup`, or from
  `create_device` with the test flag) silently reaches another device;
- the order the kernel demands: on the vGIC a vCPU before attributes, NR_IRQS
  before INIT and only once, no vCPU after INIT; on the AIA a vCPU before the
  IMSIC address, both addresses before INIT; address 0 gives EFAULT;
- errno is per thread, set only on failure and never cleared: the wrapper must
  decide on `ret`, not on errno;
- uninitialised union bytes read by `as_bytes`;
- the exact length check of `Deserialize`.

### Properties that make each component correct

- Device Handle: every live handle still reaches the file it was built for
  (`HandleIntegrity`); at most one handle owns a descriptor (`SoleOwnership`,
  spec section 3); every device is eventually released (`DevicesReleased`).
- Attribute Protocol: the wrappers are the atomic request/response of
  `AttrAbstract` (`ImplementsAbstract`): Ok exactly when the kernel accepted,
  else the errno of this very call, buffer written only by the kernel; the
  tests' unwraps and asserts hold against the kernel models
  (`TestAssertionsHold`).
- Serialization: deserialisation accepts exactly `Size` bytes (`TypeOK` of
  `SerdeUnion`); a snapshot of an unmodified value equals it byte for byte
  (`SnapshotFaithful`), which fails once union literals are used.

## 2. Modules

| Module | Models | Kind |
|---|---|---|
| `KvmIoctl` | errno values, where `addr` may point, the shape of an ioctl's answer | shared definitions |
| `KvmVgic` | the kernel's vGIC answers to the attribute ioctls and to vCPU creation, as pure operators | environment, from spec 4.2/7/8 and the aarch64 test's assertions |
| `KvmAia` | the same for the RISC-V AIA: CONFIG_SRCS, the APLIC and IMSIC addresses, INIT | environment, from the riscv64 test's assertions and comments |
| `AttrAbstract` | what the protocol promises: each call one atomic step | abstract specification |
| `DeviceAttr` | the three wrappers per thread (ioctl step, return step with the caller's unwrap/assert), the test programs; the kernel is a set of constant operators, bound to `KvmVgic` or `KvmAia` by the MC module | implementation; refines `AttrAbstract` |
| `DeviceFd` | descriptor table, `new_device`/`create_device`, `as_raw_fd`, `dup`, `from_raw_fd`, drop; `create_device` with the test flag | implementation |
| `SerdeUnion` | a structure with a header and an unequal-member union; Default, field and member assignment, union literals, Serialize, Deserialize | implementation (macro body from spec 4.4) |
| `MCDeviceAttr`, `MCDeviceAttrAia`, `MCDeviceFd`, `MCSerdeUnion` | model values and definitions for TLC; the first two bind `DeviceAttr`'s kernel to the vGIC and to the AIA | MC modules |

### DeviceAttr: state and actions against the code

| TLA+ | Code |
|---|---|
| `dev` | the kernel device behind every handle |
| `step`, `at` | the position of each thread in its test program; `at = "return"` between the ioctl and the wrapper's return |
| `ret`, `errno` | the ioctl's return value and the thread-local errno (written only on failure) |
| `data` | the test's `let mut data: u32 = 0` |
| `HasDeviceAttr`, `SetDeviceAttr`, `GetDeviceAttr` | `ioctl_with_ref` / `ioctl_with_mut_ref` lines 30, 90, 167 |
| `WrapperReturn`, `Returned` | `if ret != 0 { return Err(errno::Error::last()) } Ok(())`, and the caller's `unwrap`/`unwrap_err`/`assert_eq` |
| `CreateVcpu`, `AssertData` | `vm.create_vcpu(0).unwrap()` (283), `assert_eq!(data, 128)` (325) |
| `GicTestProgram` | the aarch64 `test_create_device`, lines 279-325 |
| `VfioProbeProgram` | the three VFIO-group calls of the x86_64 test (252-254), made on a second handle of the same device |
| `AiaTestProgram` | the riscv64 `test_create_device`, lines 328-411 |


The refinement mapping to `AttrAbstract` maps a thread that has done its ioctl
but not yet returned to the result it is about to report: the result of a call
is decided at the ioctl, the linearisation point.

### DeviceFd: state and actions against the code

| TLA+ | Code |
|---|---|
| `fdTable` | the process's descriptor table (descriptor 0 = standard input) |
| `fd`, `hstate` | each `DeviceFd`'s `fd: File`, and whether it is built, live or dropped |
| `bound` | history: the file a handle was built to refer to |
| `raw` | descriptors returned by `libc::dup` and not yet wrapped |
| `CreateDevice` | `vm.create_device` + `new_device` (175-178) |
| `AsRawFd`, `Dup` | `as_raw_fd` (180-184), `libc::dup(..)` and its assert (237-238, 287-288) |
| `FromRawFd`, `WrapRaw` | `from_raw_fd` (186-198) on a dup'ed descriptor (239, 289) |
| `Drop` | dropping the `File` field closes the descriptor |
| `CreateTestDevice` | `create_device` with `KVM_CREATE_DEVICE_TEST` (221-233) |

### SerdeUnion

A value is its bytes; a byte is a value of `Bytes` or `Undef` (uninitialised).
`Default` zero-fills (bindgen's Default); assigning a member writes only that
member's bytes; a union literal from member `m` leaves the bytes past `m`
uninitialised. `Serialize` reads every byte (`as_bytes`); reading `Undef` is
undefined behaviour and yields any byte. `Deserialize` accepts exactly `Size`
bytes.

## 3. Runs

| Run | Config | Expect | What it shows |
|---|---|---|---|
| `deviceattr_gic` | `MCDeviceAttr.cfg` | pass | `TypeOK`, `TestAssertionsHold`, `ImplementsAbstract`: the aarch64 test's sequence holds every assertion against the vGIC model, and the wrappers refine the atomic protocol. The VFIO probe on a second handle never changes the device, so it adds the interleavings of reads only |
| `deviceattr_aia` | `MCDeviceAttrAia.cfg` | pass | `TestAssertionsHold` for the riscv64 test's AIA sequence: vCPU before the IMSIC address, both addresses before INIT, EFAULT through address 0, then 128 |
| `devicefd_dup` | `MCDeviceFd.cfg` | pass | `TypeOK`, `HandleIntegrity`, `DevicesReleased`: with dup before from_raw_fd, descriptor reuse never redirects a live handle, and every device is released |
| `devicefd_testflag` | `MCDeviceFdTestFlag.cfg` | violation | `SoleOwnership` fails: two `create_device` calls with the test flag both wrap descriptor 0 |
| `serde_default` | `MCSerdeUnion.cfg` | pass | `TypeOK`: Deserialize accepts exactly `Size` bytes, for every value built from Default and assignments and every input of length Size-1..Size+1 |
| `serde_literal` | `MCSerdeUnionLiteral.cfg` | violation | `SnapshotFaithful` fails once a union is built from its smaller member |

Every property of a passing run has a mutant in `PROJECT.json`: a plausible
bug in the mapped code (errno taken from `ret`; errno tested instead of
`ret`; INIT before NR_IRQS; the vCPU created after the AIA addresses;
`from_raw_fd(as_raw_fd())` without dup; a leaked dup; the dup assert dropped;
a length check of `>=`) under
which TLC finds the property violated.

### Findings

- `create_device` with `KVM_CREATE_DEVICE_TEST` (x86_64 test, line 224, and
  the `set_device_attr` example): the kernel creates nothing and leaves
  `fd = 0`, which `create_device` wraps. The handle owns standard input, two
  such handles own the same descriptor, and the test's calls fail with ENOTTY
  (the errno 25 it asserts) because the handle is not a device at all; the
  comment at 249-250 explains the failure only by the device being a test
  device.
- `unsafe impl IntoBytes` for the unions (`serialize.rs` 24, 36): a union built
  in safe code from its smaller member has uninitialised bytes, which
  `as_bytes` reads. The tests serialise only `T::default()`, which is
  zero-filled.

### Bounds, and why they are enough

- `DeviceAttr`: two threads, one device; values 128 (and the kernel's 32 and
  256 defaults). Each call is two steps, so every interleaving of the two
  programs' ioctls and returns is explored (105 states; 119 for the AIA).
  One probe thread suffices: more read-only threads add only more
  interleavings of the same kind.
- `DeviceFd`: three handles, two devices, descriptors 0..2. This is the
  smallest table in which a closed number is reused for a different device
  (d1 closed, d2 gets its number) and in which dup reaches the descriptor
  limit; three handles allow create + dup + wrap and a second create.
- `SerdeUnion`: a one-byte header and a two-byte union with one- and two-byte
  members, bytes 0..2, inputs of length Size-1..Size+1: the smallest layout
  with a byte that one member covers and the other does not, and inputs off
  by one on either side.

### Fairness

Only `DeviceFd` checks liveness. Its fairness is weak fairness on each
handle's `Drop` (a Rust value is dropped at the end of its scope) and on
wrapping a dup'ed descriptor (the tests call `from_raw_fd` on the line after
`dup`). `create_device` and `dup` are not fair: a program need not make them.

## 4. Not modelled, and why

- Byte widths of attributes: the kernel writes a u64 for an AIA address,
  more than the tests' u32 buffer holds; no caller in the repository does
  that get, and the models keep values only.
- Structure layouts: generated, compile-time facts.
- The round-trip tests `is_serde` and `is_serde_json` (`serialize.rs`
  49-58, 93-112): their outcome is decided by bincode's and serde_json's
  framing being their own inverse, which is third-party code; a model of it
  holds by construction. The second serialisation is taken of a
  deserialised, fully defined value, so these tests cannot see the
  uninitialised union bytes of the finding above.
- Several threads configuring one device: the repository has no such
  caller (the `set_device_attr` example is single-threaded), and which of
  them wins is decided by the kernel, for which spec section 5 promises no
  ordering.
- The VFIO device: only its absence from the vGIC and the AIA is used.
- The kernel devices (partly modelled): they are the environment, not code
  of the repository. `KvmVgic` and `KvmAia` keep exactly the attributes and
  checks the tests rely on. Other attributes (redistributor and distributor
  addresses, AIA modes and hart bits) would be kernel code translated from
  outside the repository.
- The VM collaborator (partly modelled): `vm.rs` is not under `src/`. Its
  `create_device`, `create_vcpu` and the vGIC/AIA helpers appear as the steps
  the tests take (`CreateDevice`, `CreateTestDevice`, `CreateVcpu`, program
  steps). The rest of the VM API has no part in the device protocol.
- With this, everything under `src/` that changes state is an action of a
  module. What remains outside the models is generated layout, the kernel's
  own code and the VM API.

## 5. Plan

Done: `DeviceAttr` with `KvmVgic` and the refinement to `AttrAbstract`;
`DeviceFd`; `SerdeUnion`. Then the kernel made a parameter of `DeviceAttr`,
`KvmAia` and the riscv64 test. Runs whose outcome was decided by the models
of the kernel or of third-party crates, or by callers the repository does
not have, were removed after review.

Later work and decisions:

1. `DeviceFd` and `DeviceAttr` stay separate modules. Routing the attribute
   calls through the descriptor table was considered. A call through a live
   handle reaches `fdTable[fd[h]]`, which `HandleIntegrity` already says is
   the handle's own device. A call through a reused or closed number is what
   its violation (the `DupSameFd` mutant) and `devicefd_testflag` already
   exhibit. A composed module would add states, not questions.
