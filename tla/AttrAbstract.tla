---------------------------- MODULE AttrAbstract ----------------------------
(***************************************************************************)
(* What the device attribute protocol promises its callers (spec 4.2 and   *)
(* 9): has_device_attr, set_device_attr and get_device_attr are each ONE   *)
(* atomic request/response with the device.  A call changes the device    *)
(* exactly as the kernel decides, writes the caller's buffer only when the *)
(* kernel writes it, and reports Ok (res = 0) exactly when the kernel      *)
(* accepted the request, or else the errno the kernel gave for this very   *)
(* request.                                                                *)
(***************************************************************************)
EXTENDS KvmIoctl

CONSTANTS
    Threads,    \* the threads calling through handles on one device
    Values,     \* the values callers pass through a "local" address
    \* The kernel device, as in module KvmVgic or KvmAia:
    Groups, InitDevice,
    KernelHas(_, _), KernelSet(_, _, _), KernelGet(_, _, _), KernelCreateVcpu(_)

VARIABLES
    dev,        \* the device state
    data,       \* data[t]: thread t's u32 output buffer
    result      \* result[t]: [op, group, res] of t's last completed call

vars == <<dev, data, result>>

NoResult == [op |-> "none", group |-> "none", res |-> NoErr]
Ops      == {"has", "set", "get"}

\* What a set reads at addr: {v} for the u32 v, {} for address 0.
Read(t, addr, val) ==
    CASE addr = "null"  -> {}
      [] addr = "data"  -> {data[t]}
      [] addr = "local" -> {val}

Answer(t, op, group, addr, val) ==
    CASE op = "has" -> KernelHas(dev, group)
      [] op = "set" -> KernelSet(dev, group, Read(t, addr, val))
      [] op = "get" -> KernelGet(dev, group, addr = "data")

Call(t, op, group, addr, val) ==
    LET r == Answer(t, op, group, addr, val) IN
    /\ dev'    = r.dev
    /\ data'   = IF r.out = {} THEN data ELSE [data EXCEPT ![t] = TheValue(r.out)]
    /\ result' = [result EXCEPT ![t] =
                    [op |-> op, group |-> group,
                     res |-> IF r.ret = 0 THEN NoErr ELSE r.errno]]

\* vCPUs are created by the VM, a collaborator of the protocol.
CreateVcpu ==
    /\ dev' = KernelCreateVcpu(dev).dev
    /\ UNCHANGED <<data, result>>

Init ==
    /\ dev    = InitDevice
    /\ data   = [t \in Threads |-> 0]
    /\ result = [t \in Threads |-> NoResult]

Next ==
    \/ \E t \in Threads, op \in Ops, g \in Groups, a \in Addrs, v \in Values :
          Call(t, op, g, a, v)
    \/ CreateVcpu

Spec == Init /\ [][Next]_vars
=============================================================================
