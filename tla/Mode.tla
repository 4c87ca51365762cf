------------------------------------- MODULE Mode -------------------------------------
(* The bus between host and card: access mode, width, signalling voltage, drive strength, *)
(* clock and tuning (sdio_host.c, sdio_card_general.c).  A function is the list of its     *)
(* commands to the card and writes to the host, in order; an error ends it half way.  The  *)
(* properties say when the two sides agree, and what the clock and the tuning came to.     *)
EXTENDS Integers, Sequences, FiniteSets

CONSTANTS Base,        \* base clock in kHz: SRS16, or SYTEM_CLK_KHZ
          Multiplier,  \* SRS17 clock multiplier
          Top8, Top10, TopProg,   \* 256, 2046, 1024: where the search of a divider stops
          Slow, Fast,  \* 400 kHz, 200 MHz
          Delays,      \* 40: delays of the MMC tuning
          Envs         \* surroundings a behaviour picks one of

\* env.type: the card is "sd" or "mmc"; caps: the modes the card has; uhs: the SD modes of
\* SRS17; tune50: SRS17 wants SDR50 tuned; s18: host and card switch to 1.8 V, which an MMC
\* does not; cmd6: the card knows CMD6; clock: CRS63 tells an "8" or "10" bit divider;
\* asked: frequencies asked; ops: the calls made; faults: what may go wrong.
EnvFields == {"type", "caps", "uhs", "tune50", "s18", "cmd6", "clock", "asked", "ops", "faults"}
ASSUME ModeAssumption ==
    /\ Base \in Nat \ {0} /\ Multiplier \in Nat /\ {Top8, Top10, TopProg, Delays} \subseteq Nat \ {0}
    /\ TopProg > 1
    /\ Top8 % 2 = 0 /\ Top10 % 2 = 0 /\ Top8 <= Top10
    /\ Slow \in Nat /\ Fast \in Nat
    /\ \A e \in Envs : /\ DOMAIN e = EnvFields /\ e.asked \subseteq Nat
                       /\ e.clock \in {"8", "10"} /\ e.s18 \in BOOLEAN
                       /\ e.type = "sd" \/ (e.type = "mmc" /\ e.s18 = FALSE)
                       /\ e.faults \subseteq {"mute", "lost", "refused", "stuck"}

VARIABLES env,
          card,      \* the card's mode of timing, clock edges, strobe, width, voltage, strength
          host,      \* HRS06 mode, SRS10 high speed, width and power, SRS15, the delay
          clk,       \* SRS11: field and generator, clock supplied; the frequency asked and told
          slot,      \* AccessMode, BusWidth, UhsiSelected, ProgClockMode, RetuningEnabled; attached
          aux,       \* what AuxBuff holds: the card's EXT_CSD, the status of CMD6, or neither
          op, todo, status,
          touched,   \* "sent": the function has sent the card a switch; "forgot": and its error was lost
          doubt,     \* what a failure, or one that was lost, may have left apart
          windows    \* the delays that passed the last tuning
vars == <<env, card, host, clk, slot, aux, op, todo, status, touched, doubt, windows>>

SdModes == {"SDR12", "SDR25", "SDR50", "SDR104", "DDR50"}
MmcModes == {"MMC_LEGACY", "HS_SDR", "HS_DDR", "HS_200", "HS_400", "HS_400_ES"}
Widths == {1, 4, 8}
Strengths == {"A", "B", "C", "D"}
Chain == 0 .. Delays - 1

NoOp == [name |-> "none", arg |-> "none"]
Step(does, arg) == [does |-> does, arg |-> arg]

\* The card after power up.
Fresh == [timing |-> IF env.type = "sd" THEN "SDR12" ELSE "legacy", ddr |-> FALSE, strobe |-> FALSE, width |-> 1,
          v18 |-> FALSE, strength |-> "B"]
\* An initialised slot without a card.
Init ==
    /\ env \in Envs
    /\ card = Fresh
    /\ host = [emmc |-> "SD", hs |-> FALSE, uhs |-> "SDR12", v18 |-> FALSE, width |-> 1, strength |-> "B",
               power |-> FALSE, delay |-> 0, sampling |-> FALSE]
    /\ clk = [field |-> 0, prog |-> FALSE, on |-> FALSE, asked |-> 0, told |-> 0]
    /\ slot = [mode |-> "SDR12", width |-> 1, uhsi |-> FALSE, prog |-> FALSE, retuning |-> FALSE, attached |-> FALSE]
    /\ aux = "none" /\ op = NoOp /\ todo = <<>> /\ status = "idle"
    /\ touched = "no" /\ doubt = {} /\ windows = {}

----------------------------------------------------------------------------
(* The clock: what is written to SRS11 and what the caller is told *)

\* SDIOHost_IsMaxDivider
IsMaxDivider(f, base, i) == base \div i < f \/ (base \div i = f /\ base % i = 0)

First(top, steps, found(_)) ==
    IF \E i \in steps : found(i) THEN CHOOSE i \in steps : found(i) /\ \A j \in steps : j < i => ~found(j) ELSE top
PowersOfTwo(top) == {1, 2, 4, 8, 16, 32, 64, 128, 256, 512, 1024} \cap 1 .. top - 1

\* mutant: the search stops before the last divider of its field
Divider8Short(f) == First(Top8 \div 2, PowersOfTwo(Top8 \div 2), LAMBDA i : IsMaxDivider(f, Base, i))
Divider8(f) == First(Top8, PowersOfTwo(Top8), LAMBDA i : IsMaxDivider(f, Base, i))
Divider10(f) == First(Top10, 1 .. Top10 - 1, LAMBDA i : IsMaxDivider(f, Base, i))
DividerProg(f) == First(TopProg, 1 .. TopProg - 1, LAMBDA i : (Base * Multiplier) \div i <= f)

\* CalcSrs11RegAndSetFreqKhz: the field of SRS11 and the frequency told to the caller.
Programmable == env.clock = "10" /\ slot.prog
ClockFor(f) ==
    IF Programmable
      THEN LET i == DividerProg(f)
           IN [field |-> IF i > 1 THEN i % TopProg ELSE 0, told |-> (Base * Multiplier) \div (IF i > 1 THEN i - 1 ELSE i)]
      ELSE LET i == IF env.clock = "8" THEN Divider8(f) ELSE Divider10(f)
           IN [field |-> i \div 2, told |-> Base \div i]

\* The SD clock that a field makes: the base over twice the field, or the multiplied clock
\* over one more than it.
RealClock == IF clk.prog THEN (Base * Multiplier) \div (clk.field + 1)
             ELSE Base \div (IF clk.field = 0 THEN 1 ELSE 2 * clk.field)

----------------------------------------------------------------------------
(* The tuning of an MMC: the middle of the longest run of delays that pass *)

\* mutant: the length found so far is counted twice
LongestValidShifted(ok) ==
    LET f[i \in 0 .. Delays] ==
          IF i = 0 THEN [pos |-> 0, len |-> 0, run |-> 0]
          ELSE LET p == f[i - 1]
               IN IF i - 1 \notin ok THEN [p EXCEPT !.run = 0]
                  ELSE IF p.run + 1 > p.len THEN [pos |-> i - 1, len |-> p.len + 1, run |-> p.run + 1]
                  ELSE [p EXCEPT !.run = @ + 1]
    IN f[Delays].pos + f[Delays].len \div 2

\* CalcLongestValidDelayChainVal
LongestValid(ok) ==
    LET f[i \in 0 .. Delays] ==
          IF i = 0 THEN [pos |-> 0, len |-> 0, run |-> 0]
          ELSE LET p == f[i - 1]
               IN IF i - 1 \notin ok THEN [p EXCEPT !.run = 0]
                  ELSE IF p.run + 1 > p.len THEN [pos |-> i - 1 - p.len, len |-> p.len + 1, run |-> p.run + 1]
                  ELSE [p EXCEPT !.run = @ + 1]
    IN f[Delays].pos + f[Delays].len \div 2

----------------------------------------------------------------------------
(* The functions as lists of steps *)

\* CheckMmcBusConfiguration
WidthAllows(width, mode) ==
    /\ width = 1 => mode \in SdModes \cup {"MMC_LEGACY", "HS_SDR"}
    /\ width = 4 => mode \notin {"HS_400", "HS_400_ES"}

\* mutant: the strobe is set with a single edge
BusWidthSingle(mode, width) == [width |-> width, ddr |-> mode \in {"HS_DDR", "HS_400"}, strobe |-> mode = "HS_400_ES"]
\* What the byte BUS_WIDTH of EXT_CSD says: width, both edges, strobe.
BusWidthFor(mode, width) ==
    [width |-> width, ddr |-> mode \in {"HS_DDR", "HS_400", "HS_400_ES"}, strobe |-> mode = "HS_400_ES"]
\* CalcArgBusWidth: HS_400 has eight bits whatever was asked.
BusWidthIn(mode, width) == BusWidthFor(mode, IF mode \in {"HS_400", "HS_400_ES"} THEN 8 ELSE width)
TimingFor(mode) ==
    CASE mode = "MMC_LEGACY" -> "legacy"
      [] mode \in {"HS_SDR", "HS_DDR"} -> "high"
      [] mode = "HS_200" -> "200"
      [] mode \in {"HS_400", "HS_400_ES"} -> "400"

\* ChangeDeviceMmcBusModeMmcSwitch: both edges last, a single edge first; the strobe first.
MmcSwitches(mode) ==
    LET width == Step("busWidth", BusWidthFor(mode, slot.width))
        timing == Step("timing", TimingFor(mode))
    IN IF ~BusWidthFor(mode, slot.width).ddr \/ mode = "HS_400_ES" THEN <<width, timing>> ELSE <<timing, width>>
\* ChangeDeviceMmcBusMode: what the width and the reading of EXT_CSD say is not looked at.
ChangeDeviceMmc(mode) ==
    (IF WidthAllows(slot.width, mode) THEN <<Step("readExtCsd", 0)>> ELSE <<>>)
    \o <<Step("supports", mode)>> \o MmcSwitches(mode)
\* ChangeDeviceSdBusMode, SDIOHost_ProcessSwitchFunction: check, then switch.
SwitchFunction(function) == <<Step("check", function), Step("switch", function)>>
ChangeDeviceSd(mode) == IF env.cmd6 THEN SwitchFunction(mode) ELSE <<Step("refuse", 0)>>

HighSpeed(on) ==
    IF env.type = "sd"
      THEN LET mode == IF on THEN "SDR25" ELSE "SDR12"
           IN ChangeDeviceSd(mode) \o <<Step("hostHs", on), Step("record", mode)>>
      ELSE <<Step("timing", IF on THEN "high" ELSE "legacy"), Step("hostEmmc", "HS_SDR"), Step("record", "HS_SDR")>>

HostSupports(mode) == mode \in {"SDR12", "SDR25"} \cup (env.uhs \cap {"SDR50", "SDR104", "DDR50"})
AccessModeSd(mode) ==
    IF host.v18
      THEN IF HostSupports(mode)
             THEN ChangeDeviceSd(mode) \o <<Step("hostUhs", mode), Step("record", mode)>> ELSE <<Step("refuse", 0)>>
      ELSE IF mode \in {"SDR12", "SDR25"} THEN HighSpeed(mode = "SDR25") ELSE <<Step("refuse", 0)>>

Tune == <<Step("clock", Fast), Step("tuneMmc", 0)>>
\* SDIOHost_ProcessConfigureAccessModeHs400: tuned in HS_200, the mode recorded ahead.
ByHs200 == ChangeDeviceMmc("HS_200") \o <<Step("hostEmmc", "HS_200"), Step("record", "HS_400")>> \o Tune
AccessModeMmc(mode) ==
    IF mode \notin MmcModes THEN <<Step("refuse", 0)>>
    ELSE (IF mode = "HS_400" THEN ByHs200 ELSE <<>>)
         \o ChangeDeviceMmc(mode) \o <<Step("hostEmmc", mode)>>
         \o (IF mode = "HS_200" THEN Tune ELSE <<>>) \o <<Step("record", mode)>>

\* SDIOHost_SetBusWidth: nothing to do, refused, or the card, the host and the record.
RefusesWidth(width) ==
    \/ width = 8 /\ env.type = "sd"
    \/ slot.uhsi /\ width = 1
    \/ env.type = "mmc" /\ (slot.mode \notin MmcModes \/ ~WidthAllows(width, slot.mode))
DeviceWidth(width) ==
    IF env.type = "sd" THEN Step("acmd6", width) ELSE Step("busWidth", BusWidthIn(slot.mode, width))
SetBusWidth(width) ==
    IF slot.width = width THEN <<>>
    ELSE IF RefusesWidth(width) THEN <<Step("refuse", 0)>>
    ELSE <<DeviceWidth(width), Step("hostWidth", width), Step("recordWidth", width)>>

\* SDIOHost_ConfigureDrvStrength
Strength(s) == IF env.type = "sd" THEN SwitchFunction(s) \o <<Step("hostStrength", s)>> ELSE <<Step("refuse", 0)>>

\* SDIOHost_DeviceAttach as far as the bus is concerned: one bit, 3.3 V, 400 kHz, the
\* reset card identified, then 1.8 V and four bits.  (The 1.8 V without CMD11 of
\* SwitchVoltageCardNot33 waits for a version that is not read yet: README.)
Attach ==
    <<Step("hostWidth", 1), Step("power", TRUE), Step("clock", Slow), Step("identify", 0)>>
    \o (IF env.s18 THEN <<Step("cmd11", 0), Step("v18", 0)>> ELSE <<>>)
    \o (IF env.s18 \/ slot.uhsi THEN <<Step("acmd6", 4), Step("hostWidth", 4), Step("recordWidth", 4)>> ELSE <<>>)
    \o <<Step("attached", 0)>>

Steps(o) ==
    CASE o.name = "attach" -> Attach
      [] o.name = "high" -> HighSpeed(o.arg)
      [] o.name = "mode" -> IF env.type = "sd" THEN AccessModeSd(o.arg) ELSE AccessModeMmc(o.arg)
      [] o.name = "width" -> SetBusWidth(o.arg)
      [] o.name = "strength" -> Strength(o.arg)
      [] o.name = "clock" -> <<Step("clock", o.arg)>>
      [] o.name = "generator" -> IF o.arg /\ Multiplier = 0 THEN <<Step("refuse", 0)>> ELSE <<Step("recordProg", o.arg)>>
      [] o.name = "tune" -> <<Step("tuneSd", 0)>>

Ops == [name : {"attach", "detach", "tune"}, arg : {"none"}] \cup [name : {"high", "generator"}, arg : BOOLEAN]
       \cup [name : {"mode"}, arg : SdModes \cup MmcModes] \cup [name : {"width"}, arg : Widths]
       \cup [name : {"strength"}, arg : Strengths] \cup [name : {"clock"}, arg : env.asked]
\* CSDD_ConfigureHighSpeed is called for SD cards at 3.3 V, and for an MMC with a single edge
\* to switch high speed on: for others it leaves host and card apart (README).
InOrder(o) == o.name = "high" => IF env.type = "sd" THEN ~host.v18 ELSE o.arg /\ ~card.ddr
MayCall(o) ==
    /\ o.name \in env.ops
    /\ o.name = "attach" <=> ~slot.attached
    /\ InOrder(o)

Call ==
    /\ status = "idle"
    /\ \E o \in Ops : MayCall(o) /\ o.name # "detach" /\ op' = o /\ todo' = Steps(o)
    /\ status' = "run" /\ touched' = "no" /\ UNCHANGED aux
    /\ UNCHANGED <<env, card, host, clk, slot, doubt, windows>>

\* SDIOHost_DeviceDetach: the slot's settings stay as they are; so do the host's.
Detach ==
    /\ status = "idle" /\ slot.attached /\ "detach" \in env.ops
    /\ slot' = [slot EXCEPT !.attached = FALSE, !.retuning = FALSE]
    /\ card' = Fresh /\ doubt' = {}
    /\ UNCHANGED <<env, host, clk, aux, op, todo, status, touched, windows>>

----------------------------------------------------------------------------
(* The steps *)

At(kinds) == status = "run" /\ todo # <<>> /\ Head(todo).does \in kinds
Arg == Head(todo).arg
Proceed == todo' = Tail(todo) /\ UNCHANGED <<status, doubt>>
Subject == IF op.name = "high" THEN "mode" ELSE op.name
\* An error ends the function; a switch it sent before may have been carried out.
FailIf(sent) ==
    /\ todo' = <<>> /\ status' = "error"
    /\ doubt' = IF sent /\ op.name \in {"high", "mode", "width", "strength"}
                  THEN doubt \cup {Subject} ELSE doubt
Fail == FailIf(touched # "no")

Alive == clk.on /\ host.power
\* What may become of a command the card would take: done and answered; not taken; done,
\* the answer lost; of an MMC's switch, refused in a status that is not looked at.
Outcomes(kind) ==
    IF ~Alive THEN {"mute"}
    ELSE {"ok"} \cup (env.faults \cap ({"mute", "lost"} \cup IF kind = "switch" THEN {"refused"} ELSE {}))

\* Commands whose answer counts.
DeviceAfter ==
    CASE Head(todo).does = "timing" -> [card EXCEPT !.timing = Arg]
      [] Head(todo).does = "busWidth" -> [card EXCEPT !.width = Arg.width, !.ddr = Arg.ddr, !.strobe = Arg.strobe]
      [] Head(todo).does = "acmd6" -> [card EXCEPT !.width = Arg]
Switch ==
    /\ At({"timing", "busWidth", "acmd6"})
    /\ \E outcome \in Outcomes(IF env.type = "mmc" THEN "switch" ELSE "acmd6") :
        /\ card' = IF outcome \in {"ok", "lost"} THEN DeviceAfter ELSE card
        /\ IF outcome \in {"ok", "refused"} THEN Proceed ELSE FailIf(TRUE)
        /\ touched' = IF outcome = "refused" \/ touched = "forgot" THEN "forgot" ELSE "sent"
    /\ UNCHANGED <<env, host, clk, slot, aux, op, windows>>

\* SDIOHost_ReadExCSD, whose status is overwritten, and the look at what it read.
ReadExtCsd ==
    /\ At({"readExtCsd"}) /\ Proceed
    /\ \E outcome \in Outcomes("read") : aux' = IF outcome = "ok" THEN "extcsd" ELSE aux
    /\ UNCHANGED <<env, card, host, clk, slot, op, touched, windows>>
\* CalcArgBusWidthAndArgAccessMode: HS_DDR is taken from the bit of HS_SDR as well.
Offered(mode) ==
    CASE mode = "MMC_LEGACY" -> TRUE
      [] mode = "HS_DDR" -> env.caps \cap {"HS_SDR", "HS_DDR"} # {}
      [] mode = "HS_400_ES" -> {"HS_400", "HS_400_ES"} \subseteq env.caps
      [] OTHER -> mode \in env.caps
Supports ==
    /\ At({"supports"})
    /\ \/ (aux = "extcsd" => Offered(Arg)) /\ Proceed
       \/ (aux = "extcsd" => ~Offered(Arg)) /\ Fail
    /\ UNCHANGED <<env, card, host, clk, slot, aux, op, touched, windows>>

SwitchTo(function) ==
    IF function \in SdModes THEN [card EXCEPT !.timing = function] ELSE [card EXCEPT !.strength = function]
\* SDIOHost_ExecCMD6Command: an error of the command ends its loop and is lost, the status
\* in AuxBuff decides, which is then the one of the check or an older one; a card that stays
\* busy runs into the time-out.
Answered == Alive /\ (Arg \in SdModes => Arg \in env.caps)
Swallow == ~Alive \/ env.faults \cap {"mute", "lost"} # {}
Taken == IF Answered /\ "lost" \in env.faults THEN {card, SwitchTo(Arg)} ELSE {card}
Check ==
    /\ At({"check"})
    /\ \/ Answered /\ aux' = "status" /\ Proceed
       \/ Alive /\ ~Answered /\ UNCHANGED aux /\ Fail
       \/ Swallow /\ UNCHANGED aux /\ (Proceed \/ Fail)
       \/ "stuck" \in env.faults /\ UNCHANGED aux /\ Fail
    /\ UNCHANGED <<env, card, host, clk, slot, op, touched, windows>>
SwitchFn ==
    /\ At({"switch"})
    /\ \/ Answered /\ card' = SwitchTo(Arg) /\ aux' = "status" /\ Proceed /\ touched' = "sent"
       \/ Alive /\ (~Answered \/ "refused" \in env.faults) /\ FailIf(TRUE) /\ touched' = "sent"
          /\ UNCHANGED <<card, aux>>
       \/ Swallow /\ card' \in Taken /\ UNCHANGED aux
          /\ (Proceed \/ (aux = "none" /\ FailIf(TRUE))) /\ touched' = "forgot"
       \/ "stuck" \in env.faults /\ FailIf(TRUE) /\ touched' = "sent" /\ UNCHANGED <<card, aux>>
    /\ UNCHANGED <<env, host, clk, slot, op, windows>>

\* Writes to the host and to the slot's record.
HostAfter ==
    CASE Head(todo).does = "hostEmmc" -> [host EXCEPT !.emmc = Arg]
      [] Head(todo).does = "hostHs" -> [host EXCEPT !.hs = Arg]
      [] Head(todo).does = "hostUhs" -> [host EXCEPT !.hs = Arg # "SDR12", !.uhs = Arg]
      [] Head(todo).does = "hostWidth" -> [host EXCEPT !.width = Arg]
      [] Head(todo).does = "hostStrength" -> [host EXCEPT !.strength = Arg]
      [] Head(todo).does = "power" -> [host EXCEPT !.power = Arg]
WriteHost ==
    /\ At({"hostEmmc", "hostHs", "hostUhs", "hostWidth", "hostStrength", "power"})
    /\ host' = HostAfter /\ Proceed
    /\ card' = IF Head(todo).does = "power" THEN Fresh ELSE card
    /\ UNCHANGED <<env, clk, slot, aux, op, touched, windows>>
SlotAfter ==
    CASE Head(todo).does = "record" -> [slot EXCEPT !.mode = Arg]
      [] Head(todo).does = "recordWidth" -> [slot EXCEPT !.width = Arg]
      [] Head(todo).does = "recordProg" -> [slot EXCEPT !.prog = Arg]
      [] Head(todo).does = "attached" -> [slot EXCEPT !.attached = TRUE]
Record ==
    /\ At({"record", "recordWidth", "recordProg", "attached"})
    /\ slot' = SlotAfter /\ Proceed
    /\ UNCHANGED <<env, card, host, clk, aux, op, touched, windows>>
Refuse ==
    /\ At({"refuse"}) /\ Fail
    /\ UNCHANGED <<env, card, host, clk, slot, aux, op, touched, windows>>

\* SDIOHost_SetSDCLK: off, written, stable, on; on as well when the PHY fails to leave its
\* reset, which is the error returned.
SetClock ==
    /\ At({"clock"})
    /\ LET c == ClockFor(Arg)
           prog == IF env.clock = "8" THEN clk.prog ELSE slot.prog
           written == [clk EXCEPT !.field = c.field, !.prog = prog, !.on = FALSE]
       IN \/ /\ clk' = [written EXCEPT !.on = TRUE, !.asked = Arg, !.told = c.told]
             /\ Proceed \/ ("stuck" \in env.faults /\ Fail)
          \/ "stuck" \in env.faults /\ clk' = written /\ Fail
    /\ UNCHANGED <<env, card, host, slot, aux, op, touched, windows>>

\* ExecuteTuningMmc: any delays may pass; the last setting's status is the one returned.
TuneMmc ==
    /\ At({"tuneMmc"})
    /\ \/ \E ok \in SUBSET Chain : windows' = ok /\ host' = [host EXCEPT !.delay = LongestValid(ok)]
          /\ Proceed
       \/ "stuck" \in env.faults /\ UNCHANGED <<host, windows>> /\ Fail
    /\ UNCHANGED <<env, card, clk, slot, aux, op, touched>>
\* SDIOHost_Tuning: two attempts, in the modes that need it.
TuneSd ==
    /\ At({"tuneSd"})
    /\ slot' = [slot EXCEPT !.retuning = slot.mode = "SDR104" \/ (slot.mode = "SDR50" /\ env.tune50)]
    /\ IF slot'.retuning
         THEN \/ Alive /\ host' = [host EXCEPT !.sampling = TRUE] /\ Proceed
              \/ (env.faults # {} \/ ~Alive) /\ host' = [host EXCEPT !.sampling = FALSE] /\ Fail
         ELSE UNCHANGED host /\ Proceed
    /\ UNCHANGED <<env, card, clk, aux, op, touched, windows>>

\* SDIOHost_ResetCard and the identification: one bit, the first mode of an MMC.
Identify ==
    /\ At({"identify"})
    /\ \/ /\ Alive /\ Proceed
          /\ slot' = [slot EXCEPT !.width = 1, !.mode = IF env.type = "mmc" THEN "MMC_LEGACY" ELSE slot.mode]
       \/ "mute" \in env.faults /\ Fail /\ slot' \in {slot, [slot EXCEPT !.width = 1]}
    /\ UNCHANGED <<env, card, host, clk, aux, op, touched, windows>>
\* SwitchVoltageCard33: the card, then the host; a failure switches the power off.
PowerOff == host' = [host EXCEPT !.power = FALSE]
Cmd11 ==
    /\ At({"cmd11"})
    /\ \E outcome \in Outcomes("cmd11") :
        IF outcome = "ok" THEN card' = [card EXCEPT !.v18 = TRUE] /\ clk' = [clk EXCEPT !.on = FALSE] /\ Proceed
                               /\ UNCHANGED host
        ELSE card' = Fresh /\ PowerOff /\ Fail /\ UNCHANGED clk
    /\ UNCHANGED <<env, slot, aux, op, touched, windows>>
Voltage ==
    /\ At({"v18"})
    /\ \/ host' = [host EXCEPT !.v18 = TRUE] /\ clk' = [clk EXCEPT !.on = TRUE]
          /\ slot' = [slot EXCEPT !.uhsi = TRUE] /\ Proceed /\ UNCHANGED card
       \/ /\ "stuck" \in env.faults /\ card' = Fresh /\ Fail /\ UNCHANGED slot
          /\ \E v18 \in BOOLEAN, on \in BOOLEAN : /\ on => v18
                                                  /\ host' = [host EXCEPT !.v18 = v18, !.power = FALSE]
                                                  /\ clk' = [clk EXCEPT !.on = on]
    /\ UNCHANGED <<env, aux, op, touched, windows>>

\* A mode that is set with success sets all it depends on; a width too, unless nothing is
\* done; a switch whose error was lost proves nothing.
Repaired ==
    IF touched = "forgot" THEN doubt \cup {Subject}
    ELSE CASE op.name = "mode" /\ env.type = "mmc" -> {}
           [] op.name = "high" \/ (op.name = "mode" /\ env.type = "sd") -> doubt \ {"mode"}
           [] op.name = "width" /\ touched # "no" -> doubt \ {"width"}
           [] op.name = "strength" -> doubt \ {"strength"}
           [] OTHER -> doubt
Return ==
    \/ /\ status = "run" /\ todo = <<>> /\ status' = "ok" /\ doubt' = Repaired
       /\ UNCHANGED <<env, card, host, clk, slot, aux, op, todo, touched, windows>>
    \/ /\ status \in {"ok", "error"} /\ status' = "idle" /\ op' = NoOp /\ touched' = "no" /\ windows' = {}
       /\ aux' = "none"
       /\ UNCHANGED <<env, card, host, clk, slot, todo, doubt>>

Next ==
    \/ Call \/ Detach \/ Switch \/ ReadExtCsd \/ Supports \/ Check \/ SwitchFn \/ WriteHost \/ Record \/ Refuse
    \/ SetClock \/ TuneMmc \/ TuneSd \/ Identify \/ Cmd11 \/ Voltage \/ Return
Spec == Init /\ [][Next]_vars

----------------------------------------------------------------------------
(* Properties *)

AgreeOnMode ==
    IF env.type = "sd"
      THEN /\ card.timing = slot.mode
           /\ host.hs = (slot.mode # "SDR12")
           /\ host.v18 => host.uhs = slot.mode
      ELSE /\ card.timing = TimingFor(slot.mode)
           /\ card.ddr = BusWidthFor(slot.mode, 1).ddr /\ card.strobe = (slot.mode = "HS_400_ES")
           /\ host.emmc = slot.mode \/ (slot.mode = "MMC_LEGACY" /\ host.emmc = "SD")
AgreeOnWidth == card.width = host.width /\ host.width = slot.width
\* Between calls card, host and the slot's record agree on timing, clock edges, strobe,
\* width, voltage and drive strength, whatever failed before, unless a function failed
\* after it had sent the card a switch or the switch's error was lost (of SD cards in
\* SDIOHost_ExecCMD6Command, of an MMC in CheckResponseError); one that then succeeds brings
\* them together.
ModesAgree ==
    status = "idle" /\ slot.attached =>
        /\ card.v18 = host.v18
        /\ doubt \cap {"mode"} = {} => AgreeOnMode
        /\ doubt \cap (IF env.type = "mmc" THEN {"mode", "width"} ELSE {"width"}) = {} => AgreeOnWidth
        /\ "strength" \notin doubt => card.strength = host.strength

\* What the theorem about ModesAgree supposes of the surroundings, and the run has: a card
\* is replaced only where no mode or strength is set.
KeepsCard == \A e \in Envs : "detach" \in e.ops => e.ops \cap {"mode", "high", "strength"} = {}

\* Of the kind of divider in use even the last one that the search tries is too fast.
TooSlow(f) ==
    IF clk.prog THEN (Base * Multiplier) \div (TopProg - 1) > f
    ELSE Base > f * (IF env.clock = "8" THEN Top8 ELSE Top10)
\* The divider that f needs is odd: the ten bit field holds half of it, rounded down.
NeedsOdd(f) == env.clock = "10" /\ ~clk.prog /\ Base \in f * (2 * clk.field) + 1 .. f * (2 * clk.field + 1)
\* In whole kHz the SD clock is not faster than the frequency that was asked for, with every
\* kind of divider and up to the bound of its search (CalcSrs11RegAndSetFreqKhz; the maximal
\* clocks of the modes at csdd_if.h:300), but for two cases: the last divider is still too
\* fast, or the ten bit divider needed is odd and the one below it is written.  With an
\* eight bit divider the caller is told the real frequency.
ClockAsAsked ==
    clk.on /\ clk.asked > 0 =>
        /\ RealClock <= clk.asked \/ TooSlow(clk.asked) \/ NeedsOdd(clk.asked)
        /\ env.clock = "8" => clk.told = RealClock

\* The delay chosen for HS_200 and HS_400 passed its test and lies in a longest run of
\* delays that did, with no less margin on either side than the run allows.
Runs(ok) == {r \in Chain \X Chain : r[1] <= r[2] /\ r[1] .. r[2] \subseteq ok}
Longest(ok) == {r \in Runs(ok) : \A q \in Runs(ok) : q[2] - q[1] <= r[2] - r[1]}
TunedBest ==
    windows # {} => \E r \in Longest(windows) : host.delay - r[1] \in {r[2] - host.delay, r[2] - host.delay + 1}
====
