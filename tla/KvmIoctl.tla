------------------------------ MODULE KvmIoctl ------------------------------
(***************************************************************************)
(* What every in-kernel device model shares, as the attribute wrappers of  *)
(* src/kvm-ioctls/src/ioctls/device.rs see it: errno values, the places a *)
(* kvm_device_attr's addr may point to, and the shape of an ioctl's        *)
(* answer.                                                                 *)
(*                                                                         *)
(* Every answer is a record [ret, errno, dev, out]: the ioctl's return     *)
(* value (0 or -1), the errno it leaves in the calling thread, the device  *)
(* state after the call, and the set of values written to the caller's    *)
(* buffer: {} when nothing is written, {v} when v is.                      *)
(***************************************************************************)
EXTENDS Integers

\* Where a kvm_device_attr's addr points: address 0, the caller's output
\* buffer `data`, or a read-only local holding the value to set.
Addrs == {"null", "data", "local"}

\* errno values (Linux, asm-generic); 0 is "no error".
NoErr  == 0
ENXIO  == 6
EFAULT == 14
EBUSY  == 16
ENODEV == 19
EINVAL == 22
Errnos == {ENXIO, EFAULT, EBUSY, ENODEV, EINVAL}

TheValue(in) == CHOOSE v \in in : TRUE

Ok(dev, out) == [ret |-> 0, errno |-> NoErr, dev |-> dev, out |-> out]
Fail(dev, e) == [ret |-> -1, errno |-> e, dev |-> dev, out |-> {}]
=============================================================================
