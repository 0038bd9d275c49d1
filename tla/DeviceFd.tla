------------------------------ MODULE DeviceFd ------------------------------
(***************************************************************************)
(* Ownership of device file descriptors by DeviceFd                        *)
(* (src/kvm-ioctls/src/ioctls/device.rs): new_device, as_raw_fd,           *)
(* from_raw_fd and the drop of the File inside a DeviceFd, over the        *)
(* process's descriptor table.                                             *)
(*                                                                         *)
(* The table maps each descriptor number to the open file it refers to.    *)
(* The kernel hands out the LOWEST free number on create_device and on     *)
(* dup, so a number closed by one handle is the next one given out.  A     *)
(* kernel device lives while some descriptor refers to it.  Descriptor 0   *)
(* is the process's standard input, held by the runtime.                   *)
(*                                                                         *)
(* The callers are those of device.rs's tests: vm.create_device, which     *)
(* wraps the descriptor the kernel returns with new_device;                *)
(* libc::dup(device_fd.as_raw_fd()); DeviceFd::from_raw_fd of that raw     *)
(* descriptor; and the end of the scope, which drops every handle.         *)
(***************************************************************************)
EXTENDS Integers, FiniteSets

CONSTANTS
    Handles,    \* the DeviceFd values the program builds
    Devices,    \* the kernel devices create_device can make
    MaxFd,      \* the highest descriptor number (the process's fd limit - 1)
    Closed,     \* model value: a descriptor number that refers to nothing
    NoFd,       \* model value: the fd field of a DeviceFd not yet built
    Stdin       \* model value: the file behind descriptor 0

ASSUME MaxFd \in Nat /\ MaxFd >= 1

Fds   == 0..MaxFd
Files == Devices \cup {Stdin}

VARIABLES
    fdTable,    \* fdTable[f]: the open file descriptor f refers to, or Closed
    fd,         \* fd[h]: the descriptor DeviceFd h wraps (its `fd: File`)
    hstate,     \* hstate[h]: "unbuilt", "live" or "dropped"
    bound,      \* bound[h]: the file h was built to refer to (history)
    created,    \* the devices create_device has made
    raw         \* descriptors from dup that no DeviceFd owns yet

vars == <<fdTable, fd, hstate, bound, created, raw>>

Free(f)   == fdTable[f] = Closed
Lowest(S) == CHOOSE f \in S : \A g \in S : f <= g
\* open(2), dup(2): the lowest free descriptor number.
NextFd    == Lowest({f \in Fds : Free(f)})
CanOpen   == \E f \in Fds : Free(f)

Alive(d) == \E f \in Fds : fdTable[f] = d

\* The program builds a DeviceFd for every descriptor it takes: it opens or
\* dups one only while it has a DeviceFd left that no dup'ed descriptor is
\* already waiting for.
Spare == Cardinality(raw) < Cardinality({g \in Handles : hstate[g] = "unbuilt"})

\* vm.create_device(&mut device): KVM_CREATE_DEVICE puts a fresh device
\* behind the lowest free descriptor, and new_device(File::from_raw_fd(fd))
\* wraps it in h.
CreateDevice(h, d) ==
    /\ hstate[h] = "unbuilt" /\ d \notin created /\ CanOpen /\ Spare
    /\ fdTable' = [fdTable EXCEPT ![NextFd] = d]
    /\ fd'      = [fd EXCEPT ![h] = NextFd]
    /\ hstate'  = [hstate EXCEPT ![h] = "live"]
    /\ bound'   = [bound EXCEPT ![h] = d]
    /\ created' = created \cup {d}
    /\ UNCHANGED raw

\* as_raw_fd: the number inside the File, without giving up ownership.
AsRawFd(h) == fd[h]

\* Mutant: the assert!(raw_fd >= 0) dropped; at the descriptor limit dup
\* returns -1 and that is what gets wrapped.
DupNoAssert(h) ==
    /\ hstate[h] = "live" /\ ~Free(AsRawFd(h)) /\ Spare
    /\ fdTable' = IF CanOpen THEN [fdTable EXCEPT ![NextFd] = fdTable[AsRawFd(h)]]
                             ELSE fdTable
    /\ raw'     = raw \cup {IF CanOpen THEN NextFd ELSE -1}
    /\ UNCHANGED <<fd, hstate, bound, created>>

\* Mutant: from_raw_fd(device_fd.as_raw_fd()) without the dup.
DupSameFd(h) ==
    /\ hstate[h] = "live" /\ ~Free(AsRawFd(h)) /\ CanOpen /\ Spare
    /\ raw' = raw \cup {AsRawFd(h)}
    /\ UNCHANGED <<fdTable, fd, hstate, bound, created>>

\* Mutant: the dup'ed descriptor is never wrapped (its number dropped).
DupLeaked(h) ==
    /\ hstate[h] = "live" /\ ~Free(AsRawFd(h)) /\ CanOpen /\ Spare
    /\ fdTable' = [fdTable EXCEPT ![NextFd] = fdTable[AsRawFd(h)]]
    /\ UNCHANGED <<fd, hstate, bound, created, raw>>

\* let raw_fd = libc::dup(device_fd.as_raw_fd()); assert!(raw_fd >= 0);
\* dup gives the lowest free number, referring to the same open device.
Dup(h) ==
    /\ hstate[h] = "live" /\ ~Free(AsRawFd(h)) /\ CanOpen /\ Spare
    /\ fdTable' = [fdTable EXCEPT ![NextFd] = fdTable[AsRawFd(h)]]
    /\ raw'     = raw \cup {NextFd}
    /\ UNCHANGED <<fd, hstate, bound, created>>

\* DeviceFd::from_raw_fd(f): takes f without any check; the caller
\* promises to be its sole owner.
FromRawFd(h, f) ==
    /\ hstate[h] = "unbuilt"
    /\ fd'     = [fd EXCEPT ![h] = f]
    /\ hstate' = [hstate EXCEPT ![h] = "live"]
    /\ bound'  = [bound EXCEPT ![h] = fdTable[f]]
    /\ raw'    = raw \ {f}
    /\ UNCHANGED <<fdTable, created>>

\* A caller that keeps the contract wraps a descriptor nobody owns: one it
\* got from dup.
WrapRaw(f) == f \in raw /\ \E h \in Handles : FromRawFd(h, f)

\* Dropping a DeviceFd drops its File, which closes the descriptor.
Drop(h) ==
    /\ hstate[h] = "live"
    /\ fdTable' = [fdTable EXCEPT ![fd[h]] = Closed]
    /\ hstate'  = [hstate EXCEPT ![h] = "dropped"]
    /\ UNCHANGED <<fd, bound, created, raw>>

Init ==
    /\ fdTable = [f \in Fds |-> IF f = 0 THEN Stdin ELSE Closed]
    /\ fd      = [h \in Handles |-> NoFd]
    /\ hstate  = [h \in Handles |-> "unbuilt"]
    /\ bound   = [h \in Handles |-> NoFd]
    /\ created = {}
    /\ raw     = {}

\* The program may end once every handle it built is dropped.
Finished == (\A h \in Handles : hstate[h] # "live") /\ raw = {}

Next ==
    \/ \E h \in Handles, d \in Devices : CreateDevice(h, d)
    \/ \E h \in Handles : Dup(h) \/ Drop(h)
    \/ \E f \in Fds : WrapRaw(f)
    \/ Finished /\ UNCHANGED vars

\* Every built handle is dropped at the end of its scope, and the tests
\* wrap a dup'ed descriptor right after taking it.
Fairness ==
    /\ \A h \in Handles : WF_vars(Drop(h))
    /\ \A f \in Fds : WF_vars(WrapRaw(f))

Spec == Init /\ [][Next]_vars /\ Fairness

\* vm.create_device with flags KVM_CREATE_DEVICE_TEST, as device.rs's
\* x86_64 test and the set_device_attr example call it: the kernel only
\* checks that the device type exists, creates nothing and leaves
\* kvm_create_device.fd as the caller set it (0), and create_device wraps
\* that number with new_device all the same.
CreateTestDevice(h) ==
    /\ hstate[h] = "unbuilt" /\ Spare
    /\ fd'     = [fd EXCEPT ![h] = 0]
    /\ hstate' = [hstate EXCEPT ![h] = "live"]
    /\ bound'  = [bound EXCEPT ![h] = fdTable[0]]
    /\ UNCHANGED <<fdTable, created, raw>>

TestFlagNext == Next \/ \E h \in Handles : CreateTestDevice(h)

TestFlagSpec == Init /\ [][TestFlagNext]_vars

-----------------------------------------------------------------------------
Live == {h \in Handles : hstate[h] = "live"}

TypeOK ==
    /\ fdTable \in [Fds -> Files \cup {Closed}]
    /\ fd \in [Handles -> Fds \cup {NoFd}]
    /\ hstate \in [Handles -> {"unbuilt", "live", "dropped"}]
    /\ bound \in [Handles -> Files \cup {NoFd}]
    /\ created \subseteq Devices
    /\ raw \subseteq Fds

\* Every live DeviceFd still refers, through its descriptor number, to the
\* file it was built for: no other handle's drop has closed the number and
\* no later create_device or dup has reused it for another device, so its
\* ioctls reach its own device.
HandleIntegrity == \A h \in Live : fdTable[fd[h]] = bound[h]

\* At most one DeviceFd owns a descriptor (spec, section 3).
SoleOwnership == \A h, g \in Live : h # g => fd[h] # fd[g]

\* Every device that is created is released again once the handles on it
\* are dropped: no descriptor to it is leaked.
DevicesReleased == \A d \in Devices : d \in created ~> ~Alive(d)
=============================================================================
