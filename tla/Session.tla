----------------------------------- MODULE Session -----------------------------------
(* A client's session with the driver through its public functions: initialisation,    *)
(* start and stop, the configuration of interrupts, standby, cards that come and go    *)
(* and commands that are answered by an interrupt, signalled or polled.  What happens   *)
(* inside an attach, a command or a queue is in the modules of those components; here   *)
(* are the gates of every function (module Api) and the settings they share.            *)
EXTENDS Api

CONSTANT Envs      \* surroundings a behaviour picks one of

\* env.orderly: the client keeps the order described at InOrder, and cards move only
\* between its calls; else it makes any call of Gated at any moment; env.signals: it
\* calls CSDD_Start; env.wake: the conditions it may name to CSDD_StandBy.
EnvFields == {"orderly", "signals", "wake"}
ASSUME EnvsAssumption == \A e \in Envs : DOMAIN e = EnvFields /\ e.wake \subseteq SUBSET {"in", "out"}

VARIABLES env,
          regs, slots, cq, ccp,         \* RegOffset set, NumberOfSlots, cqSupported, hostCtrlVer
          listed,                       \* the card driver is on the list
          intEn, saved,                 \* intEn, IntSettings
          status, signal,               \* SRS13 and SRS14: normal events are recorded, signalled
          events,                       \* SRS12: "in", "out", "done"
          clock, sd,                    \* SD clock, InterfaceType
          inserted, needAttach, dev,    \* CardInserted, NeedAttach, deviceType and CardDriverData
          card,                         \* the card in the socket
          req,                          \* the request: none, pending, answered by the card, finished
          pc, call, wake,               \* the client's thread in its call
          asked,                        \* what the client last said about interrupts
          ready,                        \* the last initialisation succeeded and stands
          sought                        \* the event standby waits for came

host == <<regs, slots, cq, ccp, listed>>
ints == <<intEn, saved, status, signal>>
bus == <<clock, sd>>
attached == <<inserted, needAttach, dev>>
thread == <<pc, call, wake>>
ghosts == <<asked, ready, sought>>
vars == <<env, host, ints, events, bus, attached, card, req, thread, ghosts>>

NoCall == [does |-> "none", uses |-> {}, val |-> "any"]
NoDev == [type |-> "none", data |-> FALSE]

\* A zeroed host object; the controller after power up; a card may be in already.
Init ==
    /\ env \in Envs
    /\ regs = FALSE /\ slots = 0 /\ cq = FALSE /\ ccp = FALSE /\ listed = FALSE
    /\ intEn = FALSE /\ saved = FALSE /\ status = FALSE /\ signal = FALSE /\ events = {}
    /\ clock = FALSE /\ sd = FALSE
    /\ inserted = FALSE /\ needAttach = FALSE /\ dev = NoDev
    /\ card \in {"none", "sd", "mmc"} /\ req = "none"
    /\ pc = "idle" /\ call = NoCall /\ wake = {}
    /\ asked = "none" /\ ready = FALSE /\ sought = FALSE

----------------------------------------------------------------------------
(* Gates *)

Attached == inserted /\ ~needAttach /\ dev.type # "none"
\* mutant: a slot's number may be the number of the slots
GateOpenOneBeyond(gate) ==
    CASE gate = "slot" -> slots >= 0
      [] gate = "attached" -> Attached
      [] gate = "mmc" -> dev.type = "mmc"
      [] gate = "sd" -> sd
      [] gate = "need" -> needAttach
      [] gate = "cq" -> cq
      [] gate = "ccp" -> ccp
      [] gate = "io" -> FALSE

GateOpen(gate) ==
    CASE gate = "slot" -> slots > 0
      [] gate = "attached" -> Attached
      [] gate = "mmc" -> dev.type = "mmc"
      [] gate = "sd" -> sd
      [] gate = "need" -> needAttach
      [] gate = "cq" -> cq
      [] gate = "ccp" -> ccp
      [] gate = "io" -> FALSE

Exists(thing) ==
    CASE thing = "regs" -> regs
      [] thing = "slot" -> regs /\ slots > 0
      [] thing = "data" -> dev.data

\* What a function may count on once its gates let it through.  The host's features are
\* known before its slots are: a queue function does not look at the slots.
Given(gates) == (IF "slot" \in gates THEN {"regs", "slot"} ELSE {})
                \cup (IF gates \cap {"cq", "ccp"} # {} THEN {"regs"} ELSE {})
\* The functions that look before they use; the others trust their caller.
Gated(row) == row.uses \subseteq Given(row.gates)

\* The last attach came to its end: the driver has the card.
Served == Attached /\ dev.data
\* The order an orderly client keeps.
InOrder(row) ==
    /\ row.does \in {"start", "stop", "command", "issue", "wait", "attach", "detach", "slots", "abort"} =>
           asked # "masked"
    /\ row.does \in {"init", "reset"} => asked \in {"none", "polled"}
    /\ row.does \in {"init", "reset", "start", "stop", "standby"} => req = "none"
    /\ row.does = "wait" => req # "none"
    /\ row.does \notin {"init", "wait"} => ready
    /\ "data" \in row.uses => Served
    /\ row.does = "start" => env.signals
Settled == signal /\ intEn => events \cap {"in", "out"} = {}

MayCall(row) == IF env.orderly THEN InOrder(row) /\ Settled ELSE Gated(row)
MayConfigure(v) == env.orderly => /\ v = "DISABLE_SIGNAL_INTERRUPT" => asked = "signalled" /\ req = "none"
                                  /\ v = "RESTORE_SIGNAL_INTERRUPT" => asked = "masked"

----------------------------------------------------------------------------
(* A call: the arguments, the gates, then the work, which the handler may precede *)

\* What the functions may be asked: the argument that decides is the configuration.
Choices(row) == IF "ConfigCmd" \in ArgsOf[row.sf] THEN Accepts["ConfigCmd"] ELSE {"any"}
\* The arguments are acceptable and the gates open.  A refused call changes nothing.
Call(row) ==
    /\ pc = "idle" /\ MayCall(row)
    /\ \A gate \in row.gates : GateOpen(gate)
    /\ \E v \in Choices(row) :
        /\ MayConfigure(v)
        /\ call' = [does |-> row.does, uses |-> row.uses, val |-> v]
    /\ pc' = "run"
    /\ UNCHANGED <<env, host, ints, events, bus, attached, card, req, wake, ghosts>>

Runs(does) == pc = "run" /\ call.does = does
Return == pc' = "idle" /\ call' = NoCall /\ wake' = {}

RunLocal == /\ Runs("local") /\ Return
            /\ UNCHANGED <<env, host, ints, events, bus, attached, card, req, ghosts>>

RunLoad == /\ Runs("load") /\ Return
           /\ listed' = TRUE
           /\ UNCHANGED <<env, regs, slots, cq, ccp, ints, events, bus, attached, card, req, ghosts>>

\* The controller forgets its settings.
RunReset ==
    /\ Runs("reset") /\ Return
    /\ status' = FALSE /\ signal' = FALSE /\ events' = {} /\ clock' = FALSE
    /\ ready' = FALSE
    /\ UNCHANGED <<env, host, intEn, saved, sd, attached, card, req, asked, sought>>

\* CSDD_Init: the register window, the versions and the reset, then the slot.  It may fail
\* for a descriptor address, for want of a slot or a reset that does not end, or in the slot.
InitAddresses ==
    /\ regs' = TRUE /\ ready' = FALSE
    /\ UNCHANGED <<slots, cq, ccp, listed, status, signal, events, clock, attached>>
HostInitialize ==
    /\ regs' = TRUE /\ cq' \in BOOLEAN /\ ccp' \in BOOLEAN
    /\ signal' = FALSE /\ events' = {} /\ clock' = FALSE /\ status' = ready'
HostInitSlots ==
    \/ slots' \in {0, slots} /\ ready' = FALSE /\ UNCHANGED <<listed, attached>>
    \/ slots' = 1 /\ ready' \in BOOLEAN /\ listed' = FALSE
       /\ inserted' = FALSE /\ needAttach' = FALSE /\ dev' \in {NoDev} \cup (IF ready' THEN {} ELSE {dev})
RunInit ==
    /\ Runs("init") /\ Return
    /\ InitAddresses \/ (HostInitSlots /\ HostInitialize)
    /\ UNCHANGED <<env, intEn, saved, sd, card, req, asked, sought>>

\* mutant: the status of the interrupts in the host is forgotten
InterruptConfigUnrecorded(enable) ==
    /\ signal' = (enable /\ slots > 0)
    /\ UNCHANGED <<intEn, saved, status>>

\* SDIOHost_InterruptConfig for each slot.
InterruptConfig(enable) ==
    /\ intEn' = IF slots > 0 THEN enable ELSE intEn
    /\ signal' = IF slots > 0 THEN enable ELSE signal
    /\ UNCHANGED <<saved, status>>
RunStart == /\ Runs("start") /\ Return /\ InterruptConfig(TRUE) /\ asked' = "signalled"
RunStop == /\ Runs("stop") /\ Return /\ InterruptConfig(FALSE) /\ asked' = "polled"
RunStartStop == /\ RunStart \/ RunStop
                /\ UNCHANGED <<env, host, events, bus, attached, card, req, ready, sought>>

\* mutant: the saved enables are written back negated
RestoreNothing == signal' = FALSE /\ UNCHANGED <<intEn, saved, status>>

RestoreSignals == signal' = saved /\ UNCHANGED <<intEn, saved, status>>
\* SDIOHost_Configure; what it sets of the bus is in Mode.
RunConfigure ==
    /\ Runs("configure") /\ Return
    /\ \/ /\ call.val = "DISABLE_SIGNAL_INTERRUPT"
          /\ saved' = signal /\ signal' = FALSE /\ asked' = "masked"
          /\ UNCHANGED <<intEn, status>>
       \/ call.val = "RESTORE_SIGNAL_INTERRUPT" /\ RestoreSignals /\ asked' = "signalled"
       \/ call.val \in {"SET_CLK", "SET_BUS_WIDTH", "SET_DAT_TIMEOUT", "SET_DMA_MODE"} /\ UNCHANGED <<ints, asked>>
    /\ UNCHANGED <<env, host, events, bus, attached, card, req, ready, sought>>

\* CSDD_SimpleInit: clock, power and interface without a card's answer.  It switches the
\* clock off first, and a clock that does not settle, the PHY or the voltage may end it.
RunSimple == /\ Runs("simple") /\ Return
             /\ \/ clock' = TRUE /\ sd' = TRUE
                \/ clock' \in {clock, FALSE} /\ UNCHANGED sd
             /\ UNCHANGED <<env, host, ints, events, attached, card, req, ghosts>>

----------------------------------------------------------------------------
(* Cards *)

\* SDIOHost_DeviceDetach; the running command is aborted.
Detach == /\ inserted' = FALSE /\ needAttach' = FALSE /\ dev' = NoDev
          /\ req' = IF req = "none" THEN "none" ELSE "finished"
RunDetach == /\ Runs("detach") /\ Return /\ Detach
             /\ UNCHANGED <<env, host, ints, events, bus, card, ghosts>>

\* SDIOHost_DeviceAttach: it fails before the card counts as inserted, with the clock or
\* without, or after, or succeeds.
Attach ==
    /\ sd' = TRUE /\ UNCHANGED req
    /\ \/ clock' \in BOOLEAN /\ UNCHANGED attached
       \/ clock' = TRUE /\ card # "none" /\ inserted' = TRUE /\ needAttach' = FALSE
          /\ dev' \in [type : {card}, data : {FALSE} \cup {listed}]
RunAttach == /\ Runs("attach") /\ Return /\ Attach
             /\ UNCHANGED <<env, host, ints, events, card, ghosts>>

RunSlots ==
    /\ Runs("slots") /\ Return
    /\ \/ slots > 0 /\ card # "none" /\ ~inserted /\ Attach
       \/ slots > 0 /\ card = "none" /\ inserted /\ Detach /\ UNCHANGED bus
       \/ (slots = 0 \/ (card # "none" <=> inserted)) /\ UNCHANGED <<attached, bus, req>>
    /\ UNCHANGED <<env, host, ints, events, card, ghosts>>

----------------------------------------------------------------------------
(* The interrupt handler *)

\* The handler takes all events at once; its steps are in Slot and Hotplug.
HandleEvents ==
    /\ events' = {}
    /\ IF events \cap {"in", "out"} = {}
         THEN UNCHANGED attached /\ req' = IF req = "answered" THEN "finished" ELSE req
         ELSE \/ ~inserted /\ card # "none" /\ needAttach' = TRUE /\ UNCHANGED <<inserted, dev>>
                 /\ req' = IF "done" \in events /\ req = "answered" THEN "finished" ELSE req
              \/ ~(~inserted /\ card # "none") /\ Detach
    /\ UNCHANGED <<env, host, ints, bus, card, ghosts>>

\* CRS63 shows the slot only while its events are signalled; it is looked at when the
\* host's interrupts are enabled, else the slot's status is taken as it is.
Signalled == signal /\ events # {}
Found == slots > 0 /\ events # {} /\ (intEn => signal)
Interrupt == slots > 0 /\ Signalled /\ HandleEvents /\ UNCHANGED thread

\* CSDD_Isr from the client's thread.
RunIsr == /\ Runs("isr") /\ Return
          /\ IF Found THEN HandleEvents
             ELSE UNCHANGED <<env, host, ints, events, bus, attached, card, req, ghosts>>

----------------------------------------------------------------------------
(* Commands *)

\* A command is refused while one is pending.
RunIssue ==
    /\ Runs("issue") /\ Return
    /\ req' = IF req = "none" THEN "pending" ELSE req
    /\ UNCHANGED <<env, host, ints, events, bus, attached, card, ghosts>>

RunCommand ==
    /\ Runs("command")
    /\ IF req = "none" THEN req' = "pending" /\ pc' = "wait" /\ UNCHANGED <<call, wake>>
       ELSE Return /\ UNCHANGED req
    /\ UNCHANGED <<env, host, ints, events, bus, attached, card, ghosts>>

RunWait == /\ Runs("wait")
           /\ IF req # "none" THEN pc' = "wait" /\ UNCHANGED <<call, wake>> ELSE Return
           /\ UNCHANGED <<env, host, ints, events, bus, attached, card, req, ghosts>>

\* The card's answer, recorded when the status is enabled.
Answer ==
    /\ req = "pending" /\ clock /\ card # "none"
    /\ req' = "answered"
    /\ events' = IF status THEN events \cup {"done"} ELSE events
    /\ UNCHANGED <<env, host, ints, bus, attached, card, thread, ghosts>>

\* SDIOHost_CheckBusy: it polls when the host's interrupts are not enabled.
Poll == pc = "wait" /\ ~intEn /\ Found /\ HandleEvents /\ UNCHANGED thread
Finished == /\ pc = "wait" /\ req \in {"none", "finished"}
            /\ req' = "none" /\ Return
            /\ UNCHANGED <<env, host, ints, events, bus, attached, card, ghosts>>
\* The time-out is longer than any answer: nothing else can happen to the request.
Unseen == req = "answered" /\ ~Signalled /\ (intEn \/ events = {})
Unanswered == req = "pending" /\ ~(clock /\ card # "none")
Timeout == /\ pc = "wait" /\ (Unseen \/ Unanswered)
           /\ req' = "none" /\ Return
           /\ events' = events \ {"done"}
           /\ UNCHANGED <<env, host, ints, bus, attached, card, ghosts>>
RunAbort == /\ Runs("abort") /\ Return
            /\ req' = IF req = "none" THEN "none" ELSE "finished"
            /\ events' = events \ {"done"}
            /\ UNCHANGED <<env, host, ints, bus, attached, card, ghosts>>

----------------------------------------------------------------------------
(* Standby *)

\* SDIOHost_Standby and ProcessStandby up to the loop.  Of the enables of SRS14 the nine
\* of the normal interrupts stay: Old & 0x1FF.
RunStandby ==
    /\ Runs("standby")
    /\ wake' \in env.wake
    /\ clock' = FALSE /\ events' = {} /\ sought' = FALSE
    /\ pc' = "standby"
    /\ UNCHANGED <<env, host, ints, sd, attached, card, req, call, asked, ready>>

\* mutant: the loop waits for every condition that was named
WokenByAll == wake # {} /\ wake \subseteq events

Woken == events \cap wake # {}
Wake ==
    /\ pc = "standby" /\ Woken
    /\ clock' = TRUE
    /\ Return
    /\ UNCHANGED <<env, host, ints, events, sd, attached, card, req, ghosts>>

----------------------------------------------------------------------------
(* The socket *)

AtRest == pc \in {"idle", "standby"} /\ req = "none"
Move(next, event) ==
    /\ env.orderly => AtRest
    /\ card' \in next
    /\ events' = IF status THEN events \cup {event} ELSE events
    /\ sought' = (sought \/ (pc = "standby" /\ status /\ event \in wake))
    /\ UNCHANGED <<env, host, ints, bus, attached, req, thread, asked, ready>>
Put == card = "none" /\ Move({"sd", "mmc"}, "in")
Take == card # "none" /\ Move({"none"}, "out")

----------------------------------------------------------------------------
Client == \E row \in Rows : Call(row)
Run == RunLocal \/ RunLoad \/ RunReset \/ RunInit \/ RunStartStop \/ RunConfigure \/ RunSimple \/ RunDetach
       \/ RunAttach \/ RunSlots \/ RunIsr \/ RunIssue \/ RunCommand \/ RunWait \/ RunAbort \/ RunStandby
Next == Client \/ Run \/ Interrupt \/ Answer \/ Poll \/ Finished \/ Timeout \/ Wake \/ Put \/ Take

Spec == Init /\ [][Next]_vars
\* The thread runs, the interrupt is served, the card answers; the client and the
\* socket owe nothing.
FairSpec == /\ Spec
            /\ WF_vars(Run) /\ WF_vars(Interrupt) /\ WF_vars(Answer) /\ WF_vars(Poll)
            /\ WF_vars(Finished \/ Timeout) /\ WF_vars(Wake)

----------------------------------------------------------------------------
(* Properties *)

\* A function that looks at the slot number, the host's features or the card before it
\* goes on never reaches work that uses what is not there, before CSDD_Init, after one
\* that failed, or while cards come and go; nor does one that trusts its caller when the
\* caller keeps the order (sdio.c: the checks before every delegate).
UsesWhatExists == pc = "run" => \A thing \in call.uses : Exists(thing)

\* Between the calls of an orderly client the slot signals its events exactly when the
\* host counts interrupts as enabled, so that CSDD_Isr or the poll of CheckBusy, and
\* never both or neither, sees them; a masked slot does not.
SignalsAgree ==
    env.orderly /\ ready /\ pc = "idle" =>
        CASE asked = "signalled" -> signal /\ intEn
          [] asked = "masked" -> ~signal /\ intEn
          [] OTHER -> ~signal /\ ~intEn

\* A command the card answered does not end in a time-out, unless the client masked the
\* interrupts itself: no sequence of start, stop, masking, standby and reset loses it.
AnswersSeen == [][Timeout /\ env.orderly => req = "pending"]_vars

\* A slot whose events are not signalled wakes when a condition of its standby occurs.
StandbyWakes == (pc = "standby" /\ sought /\ ~signal) ~> pc = "idle"

\* csdd_if.h:564 of CSDD_StandBy: sets the slot to standby mode and waits for the wakeup
\* condition - so it returns when one occurred, whoever handles interrupts meanwhile.
StandbyReturns == (pc = "standby" /\ sought) ~> pc = "idle"
====
