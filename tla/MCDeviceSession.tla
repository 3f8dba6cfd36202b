---------------------------- MODULE MCDeviceSession ----------------------------
(* The sync round and a screen send requests; the device signs in twice.       *)
EXTENDS DeviceSession
=============================================================================
