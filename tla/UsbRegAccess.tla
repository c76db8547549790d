---------------------------- MODULE UsbRegAccess ---------------------------
(***************************************************************************)
(* Register access while the USB host clears a halt.                       *)
(*                                                                         *)
(* On CLEAR_FEATURE(ENDPOINT_HALT) for an endpoint, USBSetupCB resets the  *)
(* DMA channel of the same name.  In the mode the firmware works in after  *)
(* boot the two control channels do not serve an endpoint: they carry the  *)
(* register frames of RegAccess.  A reset drops the buffers committed to   *)
(* the channel and resumes whoever waits for one with an error.            *)
(***************************************************************************)
EXTENDS RegAccess

CONSTANT MaxResets  \* bound: CLEAR_FEATURE requests

VARIABLE resets     \* CLEAR_FEATURE requests seen

usbVars == <<vars, resets>>

UsbInit == Init /\ resets = 0

\* The clients that wait for a buffer get an error and give up.
RefuseSenders ==
  LET refused == {c \in Clients : pc[c] = "getbuffer"} IN
    /\ pc' = [c \in Clients |-> IF c \in refused THEN "idle" ELSE pc[c]]
    /\ op' = [c \in Clients |-> IF c \in refused THEN NoRequest ELSE op[c]]

\* Endpoint CONTROL_OUT: the committed requests are gone.
ClearControlOut ==
  /\ resets < MaxResets
  /\ resets' = resets + 1
  /\ controlOut' = << >>
  /\ RefuseSenders
  /\ UNCHANGED <<buffer, controlIn, regs, event, ccData, mngtData, ccRunning,
                 unsolicited, ghostVars>>

(* Endpoint CONTROL_IN: the frames of the modem not yet received are gone; *)
(* the control channel thread reports the error and receives again.        *)
ClearControlIn ==
  /\ resets < MaxResets
  /\ resets' = resets + 1
  /\ controlIn' = << >>
  /\ UNCHANGED <<pc, op, buffer, controlOut, regs, event, ccData, mngtData,
                 ccRunning, unsolicited, ghostVars>>

UsbNext ==
  \/ Next /\ UNCHANGED resets
  \/ ClearControlOut
  \/ ClearControlIn

UsbSpec == UsbInit /\ [][UsbNext]_usbVars

-----------------------------------------------------------------------------
(* A comment says of CLEAR_FEATURE: "flush the EP memory and reset the DMA *)
(* channel associated with it".  A request that only touches the endpoint  *)
(* and its own channel leaves no register read without an answer.          *)
ResetSparesReads == NoLostWakeup
=============================================================================
