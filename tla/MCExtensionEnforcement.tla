------------------------- MODULE MCExtensionEnforcement -------------------------
(* DeviceOf as a function of named rules, which a configuration cannot write.   *)
EXTENDS ExtensionEnforcement, TLC

CONSTANTS d1, d2, r1, r2

OneDevice == (r1 :> d1 @@ r2 :> d1)
OneEach   == (r1 :> d1 @@ r2 :> d2)
================================================================================
