---------------------------- MODULE MCDeviceAccess ----------------------------
\* Small instances of DeviceAccess.
EXTENDS DeviceAccess, TLC

CONSTANTS a1, k1, p1, p2, r1, h1

MCOwner == k1 :> a1 @@ p1 :> a1 @@ p2 :> a1
=============================================================================
