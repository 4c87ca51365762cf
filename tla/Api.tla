------------------------------------- MODULE Api -------------------------------------
(* The public functions of the driver (sdio.c) as a table: the checks of the arguments *)
(* each one runs (csdd_sanity.c), what it requires of the host before it goes on, what *)
(* it then uses without looking, and what it does.                                     *)
EXTENDS Naturals, TLC

----------------------------------------------------------------------------
(* The enumerations of csdd_if.h *)

CccrRegAddr == {"CCCR_SDIO_REV", "SD_SPEC_REV", "IO_ENABLE", "IO_READY", "INT_ENABLE", "INT_PENDING", "ABORT",
                "BUS_CONTROL", "CARD_CAPABILITY", "CIS_POINTER", "BUS_SUSPENDED", "FUNCTION_SELECT", "EXEC_FLAGS",
                "READY_FLAGS", "FN0_BLOCK_SIZE", "POWER_CONTROL", "HIGH_SPEED", "UHSI_SUPPORT", "DRIVER_STRENGTH",
                "INT_EXT"}
TupleCode == {"NULL", "CHECKSUM", "VERS_1", "ALTSTR", "MANFID", "FUNCID", "SDIO_STD", "SDIO_EXT", "END"}
CmdCat == {"MAIN", "SUB", "NORMAL"}
ResponseType == {"NO_RESP", "R1", "R1B", "R2", "R3", "R4", "R5", "R5B", "R6", "R7"}
ConfigCmd == {"SET_CLK", "SET_BUS_WIDTH", "SET_DAT_TIMEOUT", "DISABLE_SIGNAL_INTERRUPT",
              "RESTORE_SIGNAL_INTERRUPT", "SET_DMA_MODE"}
TransferDirection == {"READ", "WRITE"}
SpeedMode == {"SDR12", "SDR25", "SDR50", "SDR104", "DDR50", "MMC_LEGACY", "HS_SDR", "HS_DDR", "HS_200", "HS_400",
              "HS_400_ES"}
DmaMode == {"SDMA", "ADMA1", "ADMA2", "ADMA3", "NONEDMA", "AUTO"}
ParitionAccess == {"NONE", "1", "2", "GENERAL_PURP_1", "GENERAL_PURP_2", "GENERAL_PURP_3", "GENERAL_PURP_4", "RPMB"}
ParitionBoot == {"NONE", "1", "2", "USER"}
MmcConfigCmd == {"CARD_LOCK", "CARD_UNLOCK", "SET_PASSWORD", "RESET_PASSWORD"}
DriverStrengthType == {"A", "B", "C", "D"}
DriverCurrentLimit == {"200", "400", "600", "800"}
CQDescSize == {"64BIT", "128BIT"}
CQReqStat == {"FINISHED", "ATTACHED", "PENDING", "FAILED"}
PhyDelay == {"HIGH_SPEED", "DEFAULT_SPEED", "SDR12", "SDR25", "SDR50", "DDR50", "MMC_LEGACY", "MMC_SDR", "MMC_DDR",
             "DLL_SDCLK", "DLL_HS_SDCLK", "DLL_DAT_STROBE"}

----------------------------------------------------------------------------
(* The checks of the arguments: which argument each function of csdd_sanity.c looks at. *)
(* "host" is the driver's own object, "ptr" any other pointer that may not be null, the *)
(* rest are enumerations and structures that hold some.                                *)

\* CSDD_ConfigSF to CSDD_CQRequestSF: what a structure must hold beside not being null.
PlainStructs == [Config |-> {"some"}, Request |-> CmdCat, PhyDelaySettings |-> {"some"}, CQInitConfig |-> {"some"}]
QueueStructs == [CQRequest |-> TransferDirection \X CQReqStat, CQDcmdRequest |-> ResponseType \X CQReqStat,
                 CQIntCoalescingCfg |-> {"some"}]
HostStructs == [Callbacks |-> {"some"}]
\* The host is looked at down to two fields of its slot, also before CSDD_Init fills it.
SlotStructs == [host |-> DmaMode \X CQDescSize]

Args1 == 1 :> {"ptr"} @@ 2 :> {"host", "Config", "Callbacks"} @@ 3 :> {"host"} @@ 5 :> {"host", "Request"}
Args2 == 10 :> {"host", "ptr", "ConfigCmd"} @@ 11 :> {"host", "ptr"} @@ 15 :> {"host", "SpeedMode"}
Args3 == 19 :> {"host", "DriverStrengthType"} @@ 21 :> {"host", "ptr", "TransferDirection"}
         @@ 23 :> {"host", "ptr", "MmcConfigCmd"} @@ 28 :> {"host", "TransferDirection"}
Args4 == 29 :> {"host", "ptr", "TransferDirection"} @@ 31 :> {"host", "PhyDelaySettings"} @@ 33 :> {"host", "PhyDelay"}
Args5 == 34 :> {"host", "ptr", "PhyDelay"} @@ 35 :> {"host", "ptr"}
         @@ 39 :> {"host", "ptr", "TransferDirection", "CccrRegAddr"}
Args6 == 41 :> {"host", "ptr"} @@ 42 :> {"host", "ptr", "TupleCode"} @@ 45 :> {"host", "DriverCurrentLimit"}
Args7 == 48 :> {"host", "ParitionBoot"} @@ 49 :> {"host", "ParitionAccess"} @@ 51 :> {"host", "ptr"}
         @@ 53 :> {"host", "ptr"}
Args8 == 54 :> {"host", "ptr"} @@ 57 :> {"host", "ptr"} @@ 60 :> {"host", "ptr"} @@ 61 :> {"host", "CQInitConfig"}
Args9 == 63 :> {"host", "ptr"} @@ 66 :> {"host", "CQRequest"} @@ 67 :> {"host", "CQDcmdRequest"}
Args10 == 70 :> {"host", "CQIntCoalescingCfg"} @@ 71 :> {"host", "ptr"}

ArgsOf == Args1 @@ Args2 @@ Args3 @@ Args4 @@ Args5 @@ Args6 @@ Args7 @@ Args8 @@ Args9 @@ Args10
\* The values each of these arguments may have.
Accepts == PlainStructs @@ QueueStructs @@ HostStructs @@ SlotStructs
    @@ [ptr |-> {"some"}, ConfigCmd |-> ConfigCmd, TransferDirection |-> TransferDirection, SpeedMode |-> SpeedMode,
        DriverStrengthType |-> DriverStrengthType, MmcConfigCmd |-> MmcConfigCmd, PhyDelay |-> PhyDelay,
        CccrRegAddr |-> CccrRegAddr, TupleCode |-> TupleCode, DriverCurrentLimit |-> DriverCurrentLimit,
        ParitionBoot |-> ParitionBoot, ParitionAccess |-> ParitionAccess]

----------------------------------------------------------------------------
(* The functions.  gates: "slot" the slot's number is one of the host's, "attached" its   *)
(* card is, "mmc" its card is an MMC, "sd" its interface is set, "need" a card waits to   *)
(* be attached, "cq" the host has command queuing, "ccp" it has the combo PHY, "io" the   *)
(* build knows SDIO.  uses: "regs" the register window, "slot" an initialised slot,       *)
(* "data" the memory card driver's object.                                               *)

Row(sf, gates, uses, does) == [sf |-> sf, gates |-> gates, uses |-> uses, does |-> does]
OnSlot(sf, gates, does) == Row(sf, {"slot"} \cup gates, {"slot"}, does)
OnRegs(sf, does) == Row(sf, {}, {"regs"}, does)
Alone(sf, does) == Row(sf, {}, {}, does)
Each(names, row) == [c \in names |-> row]

Calls1 == "MemoryCardGetSecCount" :> Row(35, {"slot", "attached"}, {"slot", "data"}, "local")
    @@ "Probe" :> Alone(1, "local") @@ "Init" :> Alone(2, "init")
    @@ "GetRca" :> OnSlot(60, {"attached"}, "local")
Calls2 == "Start" :> OnRegs(3, "start") @@ "Stop" :> OnRegs(3, "stop")
    @@ "ExecCardCommand" :> OnSlot(5, {}, "issue") @@ "DeviceDetach" :> OnSlot(3, {}, "detach")
    @@ "DeviceAttach" :> OnSlot(3, {"need"}, "attach")
Calls3 == "Abort" :> OnSlot(3, {}, "abort") @@ "StandBy" :> Row(3, {}, {"slot"}, "standby")
    @@ "Configure" :> OnSlot(10, {}, "configure") @@ "Isr" :> OnRegs(11, "isr")
    @@ "ConfigureHighSpeed" :> OnSlot(3, {"sd"}, "command") @@ "CheckSlots" :> Alone(3, "slots")
    @@ "CheckInterrupt" :> OnSlot(3, {}, "isr")
Calls4 == "ConfigureAccessMode" :> OnSlot(15, {"sd"}, "command") @@ "Tuning" :> OnSlot(3, {"sd"}, "command")
    @@ Each({"ClockGeneratorSelect", "PresetValueSwitch"}, OnSlot(3, {}, "local"))
    @@ "ConfigureDriverStrength" :> OnSlot(19, {}, "command") @@ "MemoryCardLoadDriver" :> Alone(3, "load")
    @@ "MemoryCardDataTransfer" :> OnSlot(21, {}, "command")
Calls5 == Each({"MemoryCardDataTransfer2", "MemCardPartialDataXfer", "MemCardInfXferStart", "MemCardInfXferContinue"},
               OnSlot(21, {}, "command"))
    @@ "MemoryCardConfigure" :> OnSlot(23, {"mmc"}, "command") @@ "MemoryCardDataErase" :> OnSlot(3, {}, "command")
    @@ "MemCardInfXferFinish" :> OnSlot(28, {}, "abort")
Calls6 == "MemCardDataXferNonBlock" :> OnSlot(29, {}, "issue")
    @@ Each({"MemCardFinishXferNonBlock", "WaitForRequest"}, Alone(5, "wait"))
    @@ "PhySettingsSd3" :> OnSlot(31, {}, "local") @@ "PhySettingsSd4" :> OnRegs(31, "local")
    @@ "ReadPhySet" :> OnRegs(34, "local") @@ "WritePhySet" :> OnRegs(33, "local")
    @@ "ReadCardStatus" :> OnSlot(35, {}, "command")
Calls7 == Each({"SelectCard", "ResetCard", "ExecCmd55Command", "ReadCsd"}, OnSlot(3, {}, "command"))
    @@ "AccessCccr" :> Row(39, {"slot", "io"}, {}, "local") @@ "ReadExCsd" :> OnSlot(41, {"mmc"}, "command")
Calls8 == "GetTupleFromCis" :> Row(42, {"slot", "io"}, {}, "local") @@ "ReadSdStatus" :> OnSlot(3, {}, "command")
    @@ "SetDriverStrength" :> OnSlot(19, {}, "command") @@ "ExecSetCurrentLimit" :> OnSlot(45, {}, "command")
    @@ Each({"MmcSwitch", "MmcSetExtCsd"}, OnSlot(3, {"mmc"}, "command"))
Calls9 == "MmcSetBootPartition" :> OnSlot(48, {"mmc"}, "command") @@ "MmcSetBootAck" :> OnSlot(3, {"mmc"}, "command")
    @@ "MmcSetPartAccess" :> OnSlot(49, {"mmc"}, "command") @@ "MmcExecuteBoot" :> OnSlot(51, {}, "command")
    @@ "MmcGetParitionBootSize" :> OnSlot(35, {"mmc"}, "command")
Calls10 == "GetInterfaceType" :> OnSlot(53, {}, "local") @@ "GetDeviceState" :> OnSlot(54, {}, "local")
    @@ "SetDriverData" :> Alone(51, "local") @@ "GetDriverData" :> Alone(57, "local")
    @@ "SimpleInit" :> OnSlot(3, {}, "simple") @@ "ResetHost" :> OnRegs(3, "reset")

\* The functions of command queuing take slot 0 of a host that has it.
Queue(sf) == Row(sf, {"cq"}, {"slot"}, "local")
Calls11 == "CQEnable" :> Queue(61) @@ "CQGetInitConfig" :> Queue(63) @@ "CQGetUnusedTaskId" :> Queue(41)
    @@ Each({"CQDisable", "CQStartExecuteTask"}, Queue(3)) @@ "CQAttachRequest" :> Queue(66)
Calls12 == "CQExecuteDcmdRequest" :> Queue(67) @@ "CQGetDirectCmdConfig" :> Queue(41)
    @@ "CQSetIntCoalescingConfig" :> Queue(70) @@ "CQGetIntCoalescingConfig" :> Queue(71)
    @@ "CQGetIntCoalescingTimeoutBase" :> Queue(35) @@ "CQSetDirectCmdConfig" :> Queue(3)
Calls13 == Each({"CQStartExecuteTasks", "CQHalt", "CQTaskDiscard", "CQAllTasksDiscard", "CQResetIntCoalCounters",
                 "CQSetResponseErrorMask"}, Queue(3)) @@ "CQGetResponseErrorMask" :> Queue(35)
Calls14 == "GetBaseClk" :> OnSlot(35, {}, "local")
Combo == Row(3, {"ccp"}, {"regs"}, "local")
\* The settings of the combo PHY, whose values the module PhyTables has.
Calls15 == Each({"SetCPhyConfigIoDelay", "GetCPhyConfigIoDelay", "SetCPhyConfigLvsi", "GetCPhyConfigLvsi",
                 "SetCPhyConfigDfiRd", "GetCPhyConfigDfiRd"}, Combo)
Calls16 == Each({"SetCPhyConfigOutputDelay", "GetCPhyConfigOutputDelay", "CPhyDllReset", "SetCPhyExtMode",
                 "GetCPhyExtMode", "SetCPhySdclkAdj", "GetCPhySdclkAdj"}, Combo)

Calls == Calls1 @@ Calls2 @@ Calls3 @@ Calls4 @@ Calls5 @@ Calls6 @@ Calls7 @@ Calls8 @@ Calls9 @@ Calls10
         @@ Calls11 @@ Calls12 @@ Calls13 @@ Calls14 @@ Calls15 @@ Calls16
\* Two functions with one row are one to who looks at the gates and the work.
Rows == {Calls[c] : c \in DOMAIN Calls}

\* A fact of the table, which TLC evaluates: a function uses at most these three things,
\* and initialisation none of them.
ASSUME RowsAssumption ==
    \A row \in Rows : /\ row.uses \subseteq {"regs", "slot", "data"}
                      /\ row.does = "init" => row.uses = {}
====
