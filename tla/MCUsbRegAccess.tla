--------------------------- MODULE MCUsbRegAccess --------------------------
(***************************************************************************)
(* One polling application thread and one CLEAR_FEATURE.                   *)
(***************************************************************************)
EXTENDS UsbRegAccess, TLC

CONSTANTS app, a1, v1, v2

MCThreads == {app}
MCVals == {v1, v2}
MCOps == (app :> [kind : {"read"}, addr : {a1}, val : {NoVal}])
=============================================================================
