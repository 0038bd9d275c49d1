----------------------------- MODULE MCDeviceFd -----------------------------
(* Three DeviceFd values, two devices, descriptors 0..2.                   *)
EXTENDS DeviceFd, TLC

CONSTANTS h1, h2, h3, d1, d2

MCHandles == {h1, h2, h3}
MCDevices == {d1, d2}
=============================================================================
