----------------------------- MODULE MCZingMode ----------------------------
(***************************************************************************)
(* A small instance of ZingMode: three settings to try, one count the      *)
(* modem may measure (0 when it is late), one frequency the host asks for. *)
(* The reference of 2.5 GHz is 16384: a late count is nearer to it than    *)
(* the measured one, and farther from the reference of the boot's 1.25 GHz *)
(* (32768), so that the two searches choose differently.                   *)
(***************************************************************************)
EXTENDS ZingMode

MCCounts == {32770}
MCRefCounts == {16384}

\* The host clears HW_CFG; the UART selects the high band.
MCPokes == [addr : {"HW_CFG"}, val : {{}}]
MCUartWrites == [addr : {"RF_CONTROL_0"}, val : {Word(\hFE, \h8010)}]

\* Which register is polled makes no difference to the others.
MCPolled == {"RXID"}
=============================================================================
