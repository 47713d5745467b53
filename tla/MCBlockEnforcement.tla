--------------------------- MODULE MCBlockEnforcement ---------------------------
(* BlockEnforcement for TLC: DeviceOf as a function of named rules, which a     *)
(* configuration cannot write.  OneDevice lets two rules hold one device, one   *)
(* of which may enforce while the other only watches.                           *)
EXTENDS BlockEnforcement, TLC

CONSTANTS d1, d2, r1, r2

OneDeviceOneRule == (r1 :> d1)
OneDevice        == (r1 :> d1 @@ r2 :> d1)
OneEach          == (r1 :> d1 @@ r2 :> d2)
================================================================================
