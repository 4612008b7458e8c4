--------------------------- MODULE MCDeviceMapping ---------------------------
(* DeviceMapping for TLC: two reservations, apart or side by side. *)
EXTENDS DeviceMapping, TLC

CONSTANTS r1, r2

Apart == (r1 :> {1, 2}) @@ (r2 :> {4})
SideBySide == (r1 :> {1, 2}) @@ (r2 :> {3})
=============================================================================
