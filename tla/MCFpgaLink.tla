----------------------------- MODULE MCFpgaLink -----------------------------
(* The link with one register of every kind and two drift registers. *)
EXTENDS FpgaLink

MCAddr == {CLOCK, SYNC, PULSE, "0x09", "0x0a", "0x82", "0xb9", "0xff"}
MCData == {"0x00", "0x80", "0x10", "good", "bad", "m0", "m1"}
MCCached == {"0x82"}
MCValues == [a \in {PULSE, SYNC, "0x09", "0x0a", "0x82"} |->
    CASE a = PULSE -> {"0x00", "0x80"}
      [] a = SYNC -> {"0x00", "0x10"}
      [] a = "0x82" -> {"good", "bad"}
      [] OTHER -> {"m0", "m1"}]
MCReset == [a \in DOMAIN MCValues \ {"0x82"} |-> IF a \in {PULSE, SYNC} THEN "0x00" ELSE "m0"]
MCOrders == {<<"fpga", W("0x82", "0x80")>>, <<"clock", "0x80">>}
MCBridgeCommands == {W("0x82", "0x80")}
MCSelections == {<<"clock", "0x80">>, <<"sync", "0x10">>}
MCClockTypes == {"0x80"}
MCPowerOn == <<CLOCK>>
MCDriftRegs == <<"0x09", "0x0a">>
MCMeasured == {"m0", "m1"}

\* Without the history no property of the run reads, and without the FPGA's
\* registers and the drift once the line was disturbed: from then on they are
\* only handed on, and no property of the run reads them.
Seen == <<Write_Data, transfer, spi_lock, nss, retry_flag, cached, at, arg, trouble,
          loopVars, clocktype, powerVars, status,
          Send_Sec_Plus_Flag, Reset_Pulse_Flag, Send_Dirft_Flag, reg, pulseAge,
          IF trouble = 0 THEN <<fpga, drift, held>> ELSE <<>> >>
=============================================================================
