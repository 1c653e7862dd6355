--------------------------- MODULE MCDeviceGateway ----------------------------
(* Small instances of DeviceGateway for TLC: one phone, given by its model   *)
(* values alone.  Two connections of it and two requests meet in every order *)
(* that matters; devices do not interact.                                    *)
EXTENDS DeviceGateway
===============================================================================
