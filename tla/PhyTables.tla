-------------------------------- MODULE PhyTables --------------------------------
(* The registers of the combo PHY (ccp.c) and of its wrapper in the host (the      *)
(* SDIO_CPhy functions of sdio_phy.c): where each member of a setter's structure   *)
(* goes, <<shift, width>>, and how many bits of it the argument check lets through *)
(* (the SF definitions; a member that is not listed is not checked).  Every getter *)
(* reads the fields its setter writes.                                             *)
EXTENDS Naturals, Sequences, TLC

DqTiming ==
    [dataSelectOeEnd |-> <<0, 3>>, dataSelectOeStart |-> <<4, 3>>,
     dataSelectTselEnd |-> <<8, 4>>, dataSelectTselStart |-> <<12, 4>>,
     dataClkperiodDelay |-> <<16, 8>>, ioMaskStart |-> <<24, 3>>,
     ioMaskEnd |-> <<27, 3>>, ioMaskAlwaysOn |-> <<31, 1>>]
DqTimingSF ==
    [ioMaskAlwaysOn |-> 1, ioMaskEnd |-> 3, ioMaskStart |-> 3,
     dataSelectTselStart |-> 4, dataSelectTselEnd |-> 4, dataSelectOeStart |-> 3,
     dataSelectOeEnd |-> 3]
DqsTiming ==
    [dqsSelectOeEnd |-> <<0, 4>>, dqsSelectOeStart |-> <<4, 4>>,
     dqsSelectTselEnd |-> <<8, 4>>, dqsSelectTselStart |-> <<12, 4>>,
     phonyDqsSel |-> <<16, 1>>, usePhonyDqsCmd |-> <<19, 1>>,
     usePhonyDqs |-> <<20, 1>>, useLpbkDqs |-> <<21, 1>>, useExtLpbkDqs |-> <<22, 1>>,
     dqsClkPeriodDelay |-> <<23, 1>>]
DqsTimingSF ==
    [dqsClkPeriodDelay |-> 1, useExtLpbkDqs |-> 1, useLpbkDqs |-> 1,
     usePhonyDqs |-> 1, usePhonyDqsCmd |-> 1, phonyDqsSel |-> 1,
     dqsSelectTselStart |-> 4, dqsSelectTselEnd |-> 4, dqsSelectOeStart |-> 4,
     dqsSelectOeEnd |-> 4]
GateLpbkCtrl ==
    [gateCfg |-> <<0, 4>>, gateCfgClose |-> <<4, 2>>, gateCfgAlwaysOn |-> <<6, 1>>,
     lpbkEn |-> <<8, 1>>, lpbk_internal |-> <<9, 1>>, loopbackControl |-> <<10, 2>>,
     lpbkFailMuxsel |-> <<12, 1>>, lpbkErrCheckTiming |-> <<13, 3>>,
     rdDelSelEmpty |-> <<16, 1>>, rdDelSel |-> <<19, 6>>,
     paramPhaseDetectSelOe |-> <<25, 3>>, swHalfCycleShift |-> <<28, 1>>,
     enSwHalfCycle |-> <<29, 1>>, swDqsPhaseBypass |-> <<30, 1>>,
     syncMethod |-> <<31, 1>>]
GateLpbkCtrlSF ==
    [syncMethod |-> 1, swDqsPhaseBypass |-> 1, enSwHalfCycle |-> 1,
     swHalfCycleShift |-> 1, paramPhaseDetectSelOe |-> 4, rdDelSel |-> 6,
     rdDelSelEmpty |-> 1, lpbkErrCheckTiming |-> 3, lpbkFailMuxsel |-> 1,
     loopbackControl |-> 2, lpbk_internal |-> 1, lpbkEn |-> 1, gateCfgAlwaysOn |-> 1,
     gateCfgClose |-> 2, gateCfg |-> 4]
DllMasterCtrl ==
    [paramDllStartPoint |-> <<0, 8>>, paramDllLockNum |-> <<16, 3>>,
     paramPhaseDetectSel |-> <<20, 3>>, paramDllBypassMode |-> <<23, 1>>]
DllMasterCtrlSF ==
    [paramDllBypassMode |-> 1, paramPhaseDetectSel |-> 4, paramDllLockNum |-> 3]
DllSlaveCtrl ==
    [readDqsDelay |-> <<0, 8>>, clkWrDelay |-> <<8, 8>>, clkWrdqsDelay |-> <<16, 8>>,
     readDqsCmdDelay |-> <<24, 8>>]
IeTiming ==
    [rddataEnIeDly |-> <<0, 4>>, dqsIeStop |-> <<4, 3>>, dqsIeStart |-> <<8, 3>>,
     dqIeStop |-> <<12, 3>>, dqIeStart |-> <<16, 3>>, ieAlwaysOn |-> <<20, 1>>]
IeTimingSF ==
    [ieAlwaysOn |-> 1, dqIeStart |-> 3, dqIeStop |-> 3, dqsIeStart |-> 3,
     dqsIeStop |-> 3, rddataEnIeDly |-> 4]
ObsReg0 ==
    [lpbkStatus |-> <<0, 2>>, lpbkDqData |-> <<8, 16>>, dqsUnderrun |-> <<24, 1>>,
     dqsOverflow |-> <<25, 1>>, dqsCmdUnderrun |-> <<26, 1>>,
     dqsCmdOverflow |-> <<27, 1>>]
DllObsReg0 ==
    [dllLock |-> <<0, 1>>, dllLockedMode |-> <<1, 2>>, dllUnlockCount |-> <<3, 5>>,
     dllLockValue |-> <<8, 8>>, lockDecDbg |-> <<16, 8>>, lockIncDbg |-> <<24, 8>>]
DllObsReg1 ==
    [decoderOutRd |-> <<0, 8>>, decoderOutRdCmd |-> <<8, 8>>,
     decoderOutWr |-> <<16, 8>>]
DllObsReg2 ==
    [decoderOutWrdqs |-> <<0, 8>>]
StaticTogg ==
    [staticTogClkDiv |-> <<0, 16>>, staticToggGlobalEnable |-> <<16, 1>>,
     staticToggEnable |-> <<20, 4>>, readDqsToggEnable |-> <<24, 1>>]
StaticToggSF ==
    [readDqsToggEnable |-> 1, staticToggEnable |-> 5, staticToggGlobalEnable |-> 1]
WrRdDeskewCmd ==
    [cmdPhaseDetectSel |-> <<8, 3>>, cmdSwHalfCycleShift |-> <<12, 1>>,
     cmdEnSwHalfCycle |-> <<13, 1>>, cmdSwDqPhaseBypass |-> <<14, 1>>,
     cmdClkperiodDelay |-> <<16, 1>>]
WrRdDeskewCmdSF ==
    [cmdClkperiodDelay |-> 1, cmdSwDqPhaseBypass |-> 1, cmdEnSwHalfCycle |-> 1,
     cmdSwHalfCycleShift |-> 1, cmdPhaseDetectSel |-> 3]
WrDeskewPdCtrl0Dq0 ==
    [dq0PhaseDetectSel |-> <<0, 3>>, dq0SwHalfCycleShift |-> <<4, 1>>,
     dq0EnSwHalfCycle |-> <<5, 1>>, dq0SwDqPhaseBypass |-> <<6, 1>>]
WrDeskewPdCtrl0Dq0SF ==
    [dq0SwDqPhaseBypass |-> 1, dq0EnSwHalfCycle |-> 1, dq0SwHalfCycleShift |-> 1,
     dq0PhaseDetectSel |-> 3]
CtrlMain ==
    [ctrlClkperiodDelay |-> <<0, 1>>, phonyDqsTiming |-> <<4, 6>>,
     sdrDqsValue |-> <<14, 1>>]
CtrlMainSF ==
    [sdrDqsValue |-> 1, phonyDqsTiming |-> 6, ctrlClkperiodDelay |-> 1]
Tsel ==
    [tselRdValueDqs |-> <<8, 4>>, tselOffValueDqs |-> <<12, 4>>,
     tselRdValueData |-> <<16, 4>>, tselOffValueData |-> <<20, 4>>]
TselSF ==
    [tselOffValueData |-> 4, tselRdValueData |-> 4, tselOffValueDqs |-> 4,
     tselRdValueDqs |-> 4]
Features ==
    [onfi40 |-> <<0, 1>>, onfi41 |-> <<1, 1>>, sdr16Bit |-> <<2, 1>>,
     xspi |-> <<3, 1>>, sdEmmc |-> <<4, 1>>, bankNum |-> <<5, 2>>,
     dllTapNum |-> <<7, 1>>, aging |-> <<8, 1>>, dfiClockRatio |-> <<9, 1>>,
     perBitDeskew |-> <<10, 1>>, regIntf |-> <<11, 1>>, extLpbkDqs |-> <<12, 1>>,
     jtagSup |-> <<13, 1>>, pllSup |-> <<14, 1>>, asfSup |-> <<15, 1>>]
WrRdDeskewCmdExt ==
    [wrCmdDeskewDelay |-> <<0, 4>>, rdCmdDeskewDelay |-> <<24, 4>>]
WrRdDeskewCmdExtSF ==
    [wrCmdDeskewDelay |-> 4, rdCmdDeskewDelay |-> 4]
WrDeskewPdCtrl0Dqx ==
    [dq1PhaseDetectSel |-> <<8, 3>>, dq1SwHalfCycleShift |-> <<12, 1>>,
     dq1EnSwHalfCycle |-> <<13, 1>>, dq1SwDqPhaseBypass |-> <<14, 1>>,
     dq2PhaseDetectSel |-> <<16, 3>>, dq2SwHalfCycleShift |-> <<20, 1>>,
     dq2EnSwHalfCycle |-> <<21, 1>>, dq2SwDqPhaseBypass |-> <<22, 1>>,
     dq3PhaseDetectSel |-> <<24, 3>>, dq3SwHalfCycleShift |-> <<28, 1>>,
     dq3EnSwHalfCycle |-> <<29, 1>>, dq3SwDqPhaseBypass |-> <<30, 1>>]
WrDeskewPdCtrl0DqxSF ==
    [dq3SwDqPhaseBypass |-> 1, dq3EnSwHalfCycle |-> 1, dq3SwHalfCycleShift |-> 1,
     dq3PhaseDetectSel |-> 3, dq2SwDqPhaseBypass |-> 1, dq2EnSwHalfCycle |-> 1,
     dq2SwHalfCycleShift |-> 1, dq2PhaseDetectSel |-> 3, dq1SwDqPhaseBypass |-> 1,
     dq1EnSwHalfCycle |-> 1, dq1SwHalfCycleShift |-> 1, dq1PhaseDetectSel |-> 3]
WrDeskew ==
    [wrDq0DeskwDelay |-> <<0, 4>>, wrDq1DeskwDelay |-> <<4, 4>>,
     wrDq2DeskwDelay |-> <<8, 4>>, wrDq3DeskwDelay |-> <<12, 4>>,
     wrDq4DeskwDelay |-> <<16, 4>>, wrDq5DeskwDelay |-> <<20, 4>>,
     wrDq6DeskwDelay |-> <<24, 4>>, wrDq7DeskwDelay |-> <<28, 4>>]
WrDeskewSF ==
    [wrDq0DeskwDelay |-> 4, wrDq1DeskwDelay |-> 4, wrDq2DeskwDelay |-> 4,
     wrDq3DeskwDelay |-> 4, wrDq4DeskwDelay |-> 4, wrDq5DeskwDelay |-> 4,
     wrDq6DeskwDelay |-> 4, wrDq7DeskwDelay |-> 4]
RdDeskew ==
    [rdDq0DeskwDelay |-> <<0, 4>>, rdDq1DeskwDelay |-> <<4, 4>>,
     rdDq2DeskwDelay |-> <<8, 4>>, rdDq3DeskwDelay |-> <<12, 4>>,
     rdDq4DeskwDelay |-> <<16, 4>>, rdDq5DeskwDelay |-> <<20, 4>>,
     rdDq6DeskwDelay |-> <<24, 4>>, rdDq7DeskwDelay |-> <<28, 4>>]
RdDeskewSF ==
    [rdDq0DeskwDelay |-> 4, rdDq1DeskwDelay |-> 4, rdDq2DeskwDelay |-> 4,
     rdDq3DeskwDelay |-> 4, rdDq4DeskwDelay |-> 4, rdDq5DeskwDelay |-> 4,
     rdDq6DeskwDelay |-> 4, rdDq7DeskwDelay |-> 4]
WrDeskewPdCtrl1 ==
    [dq4PhaseDetectSel |-> <<0, 3>>, dq4SwHalfCycleShift |-> <<4, 1>>,
     dq4EnSwHalfCycle |-> <<5, 1>>, dq4SwDqPhaseBypass |-> <<6, 1>>,
     dq5PhaseDetectSel |-> <<8, 3>>, dq5SwHalfCycleShift |-> <<12, 1>>,
     dq5EnSwHalfCycle |-> <<13, 1>>, dq5SwDqPhaseBypass |-> <<14, 1>>,
     dq6PhaseDetectSel |-> <<16, 3>>, dq6SwHalfCycleShift |-> <<20, 1>>,
     dq6EnSwHalfCycle |-> <<21, 1>>, dq6SwDqPhaseBypass |-> <<22, 1>>,
     dq7PhaseDetectSel |-> <<24, 3>>, dq7SwHalfCycleShift |-> <<28, 1>>,
     dq7EnSwHalfCycle |-> <<29, 1>>, dq7SwDqPhaseBypass |-> <<30, 1>>]
WrDeskewPdCtrl1SF ==
    [dq7SwDqPhaseBypass |-> 1, dq7EnSwHalfCycle |-> 1, dq7SwHalfCycleShift |-> 1,
     dq7PhaseDetectSel |-> 3, dq6SwDqPhaseBypass |-> 1, dq6EnSwHalfCycle |-> 1,
     dq6SwHalfCycleShift |-> 1, dq6PhaseDetectSel |-> 3, dq5SwDqPhaseBypass |-> 1,
     dq5EnSwHalfCycle |-> 1, dq5SwHalfCycleShift |-> 1, dq5PhaseDetectSel |-> 3,
     dq4SwDqPhaseBypass |-> 1, dq4EnSwHalfCycle |-> 1, dq4SwHalfCycleShift |-> 1,
     dq4PhaseDetectSel |-> 3]
CtrlLowFreqSel ==
    [lowFreqSel |-> <<20, 1>>]
CtrlLowFreqSelSF ==
    [lowFreqSel |-> 1]

\* The host's own registers; nothing but the pointers is checked.
IoDelay == [idelayVal |-> <<0, 5>>, rwCompensate |-> <<16, 5>>]
Lvsi == [lvsiTcksel |-> <<22, 6>>, lvsiCnt |-> <<28, 4>>]
DfiRdEn == [rdcmdEn |-> <<15, 1>>, rddataEn |-> <<16, 1>>]
DfiRdSwap == [rddataSwap |-> <<22, 1>>]
OutputDelay ==
    [wrcmd0Dly |-> <<0, 4>>, wrcmd1Dly |-> <<4, 4>>, wrdata0Dly |-> <<8, 4>>,
     wrdata1Dly |-> <<12, 4>>, wrcmd0SdclkDly |-> <<16, 4>>, wrcmd1SdclkDly |-> <<20, 4>>,
     wrdata0SdclkDly |-> <<24, 4>>, wrdata1SdclkDly |-> <<28, 4>>]
ExtMode == [extendedRdMode |-> <<2, 1>>, extendedWrMode |-> <<3, 1>>]
SdclkAdj == [sdclkAdj |-> <<16, 4>>]
DllReset == [release |-> <<0, 1>>]

----------------------------------------------------------------------------
(* Which pointers the argument checks look at *)

Both == [set |-> {"pD", "value"}, get |-> {"pD", "value"}]
CheckedTiming == [op \in {"DqTiming", "DqsTiming"} |-> Both]
CheckedMaster == [op \in {"GateLpbkCtrl", "DllMasterCtrl"} |-> Both]
CheckedSlave == [op \in {"DllSlaveCtrl", "IeTiming"} |-> Both]
CheckedObs == [op \in {"ObsReg0", "DllObsReg0", "DllObsReg1", "DllObsReg2"} |-> Both]
CheckedTogg == [op \in {"StaticTogg", "WrRdDeskewCmd"} |-> Both]
CheckedCtrl == [op \in {"WrDeskewPdCtrl0Dq0", "CtrlMain"} |-> Both]
CheckedTsel ==
    [op \in {"Tsel", "Gpio0", "Gpio1", "GpioStatus0", "GpioStatus1", "Features"} |->
        IF op \in {"Gpio0", "Gpio1"} THEN [Both EXCEPT !.set = {"pD"}] ELSE Both]
CheckedExt == [op \in {"WrDeskewPdCtrl0Dqx", "WrDeskew"} |-> Both]
CheckedExt1 == [op \in {"RdDeskew", "WrDeskewPdCtrl1"} |-> Both]
CheckedExt2 == [op \in {"CtrlLowFreqSel", "WrRdDeskewCmdExt"} |-> Both]
CheckedIo == [op \in {"IoDelay", "Lvsi"} |-> Both]
CheckedDfi == [op \in {"DfiRd", "OutputDelay"} |-> Both]
\* These take their values by value.
CheckedScalar ==
    [op \in {"DllReset", "ExtMode", "SdclkAdj"} |-> [Both EXCEPT !.set = {"pD"}]]
Checked ==
    CheckedTiming @@ CheckedMaster @@ CheckedSlave @@ CheckedObs @@ CheckedTogg @@ CheckedCtrl
    @@ CheckedTsel @@ CheckedExt @@ CheckedExt1 @@ CheckedExt2 @@ CheckedIo @@ CheckedDfi
    @@ CheckedScalar

----------------------------------------------------------------------------
(* The operations *)

\* direct: a register of the host, not one behind the address and data ports;
\* bits: the width of a member's type; kinds: what can be called; blind: written unread.
Op(op, reg, fields, limits) ==
    [parts |-> <<[reg |-> reg, fields |-> fields]>>, limits |-> limits, bits |-> 8,
     direct |-> FALSE, blind |-> FALSE, kinds |-> {"set", "get"}, checked |-> Checked[op]]
Obs(op, reg, fields) == [Op(op, reg, fields, <<>>) EXCEPT !.kinds = {"get"}]
Host(op, parts) ==
    [Op(op, "none", <<>>, <<>>) EXCEPT !.parts = parts, !.direct = TRUE]
Gpio(op, reg) ==
    [Op(op, reg, [value |-> <<0, 32>>], <<>>) EXCEPT !.bits = 32, !.blind = TRUE, !.kinds = {"set"}]

PhyTable == [
  DqTiming |-> Op("DqTiming", "dq_timing", DqTiming, DqTimingSF),
  DqsTiming |-> Op("DqsTiming", "dqs_timing", DqsTiming, DqsTimingSF),
  GateLpbkCtrl |-> Op("GateLpbkCtrl", "gate_lpbk_ctrl", GateLpbkCtrl, GateLpbkCtrlSF),
  DllMasterCtrl |-> Op("DllMasterCtrl", "dll_master_ctrl", DllMasterCtrl, DllMasterCtrlSF),
  DllSlaveCtrl |-> Op("DllSlaveCtrl", "dll_slave_ctrl", DllSlaveCtrl, <<>>),
  IeTiming |-> Op("IeTiming", "ie_timing", IeTiming, IeTimingSF),
  WrRdDeskewCmd |-> Op("WrRdDeskewCmd", "wr_rd_deskew_cmd", WrRdDeskewCmd, WrRdDeskewCmdSF),
  WrDeskewPdCtrl0Dq0 |-> Op("WrDeskewPdCtrl0Dq0", "wr_deskew_pd_ctrl_0", WrDeskewPdCtrl0Dq0, WrDeskewPdCtrl0Dq0SF),
  CtrlMain |-> Op("CtrlMain", "ctrl", CtrlMain, CtrlMainSF),
  Tsel |-> Op("Tsel", "tsel", Tsel, TselSF),
  WrRdDeskewCmdExt |-> Op("WrRdDeskewCmdExt", "wr_rd_deskew_cmd", WrRdDeskewCmdExt, WrRdDeskewCmdExtSF),
  WrDeskewPdCtrl0Dqx |-> Op("WrDeskewPdCtrl0Dqx", "wr_deskew_pd_ctrl_0", WrDeskewPdCtrl0Dqx, WrDeskewPdCtrl0DqxSF),
  WrDeskew |-> Op("WrDeskew", "wr_deskew", WrDeskew, WrDeskewSF),
  RdDeskew |-> Op("RdDeskew", "rd_deskew", RdDeskew, RdDeskewSF),
  WrDeskewPdCtrl1 |-> Op("WrDeskewPdCtrl1", "wr_deskew_pd_ctrl_1", WrDeskewPdCtrl1, WrDeskewPdCtrl1SF),
  CtrlLowFreqSel |-> Op("CtrlLowFreqSel", "ctrl", CtrlLowFreqSel, CtrlLowFreqSelSF),
  StaticTogg |-> [Op("StaticTogg", "static_togg", StaticTogg, StaticToggSF) EXCEPT !.bits = 16],
  ObsReg0 |-> Obs("ObsReg0", "obs_0", ObsReg0),
  DllObsReg0 |-> Obs("DllObsReg0", "dll_obs_0", DllObsReg0),
  DllObsReg1 |-> Obs("DllObsReg1", "dll_obs_1", DllObsReg1),
  DllObsReg2 |-> Obs("DllObsReg2", "dll_obs_2", DllObsReg2),
  Features |-> Obs("Features", "features", Features),
  Gpio0 |-> Gpio("Gpio0", "gpio_ctrl_0"),
  Gpio1 |-> Gpio("Gpio1", "gpio_ctrl_1"),
  GpioStatus0 |-> Obs("GpioStatus0", "gpio_status_0", [value |-> <<0, 32>>]),
  GpioStatus1 |-> Obs("GpioStatus1", "gpio_status_1", [value |-> <<0, 32>>]),
  IoDelay |-> Host("IoDelay", <<[reg |-> "HRS07", fields |-> IoDelay]>>),
  Lvsi |-> Host("Lvsi", <<[reg |-> "HRS09", fields |-> Lvsi]>>),
  DfiRd |-> Host("DfiRd", <<[reg |-> "HRS09", fields |-> DfiRdEn],
                            [reg |-> "HRS10", fields |-> DfiRdSwap]>>),
  OutputDelay |-> Host("OutputDelay", <<[reg |-> "HRS16", fields |-> OutputDelay]>>),
  ExtMode |-> Host("ExtMode", <<[reg |-> "HRS09", fields |-> ExtMode]>>),
  SdclkAdj |-> Host("SdclkAdj", <<[reg |-> "HRS10", fields |-> SdclkAdj]>>),
  DllReset |-> [Host("DllReset", <<[reg |-> "HRS09", fields |-> DllReset]>>) EXCEPT !.kinds = {"set"}]]
==================================================================================
