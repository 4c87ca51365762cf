----------------------------------- MODULE Slot -----------------------------------
(***************************************************************************)
(* The ordinary request engine of a slot (core_driver/src/sdio_host.c):    *)
(* SDIOHost_ExecCardCommand, SDIOHost_CheckBusy, SDIOHost_Abort, the       *)
(* interrupt handler with the error recovery, and SDIOHost_DeviceDetach.   *)
(*                                                                         *)
(* Command queuing is off.  The API thread is preempted by the handler;    *)
(* with interrupts off SDIOHost_CheckBusy calls the handler itself.  The   *)
(* controller and the card (external) move at any time.                    *)
(***************************************************************************)
EXTENDS Naturals, FiniteSets

CONSTANTS
    Plain,          \* request objects for a command with a response only
    Busy,           \* for a command whose response is followed by busy (R1B)
    Reads, Writes,  \* for a data transfer
    HwChecked,      \* data transfers whose response the controller checks itself
    Adma3,          \* data transfers started through an ADMA3 descriptor
    NoReq,          \* NULL
    Blocked,        \* a line that stays inhibited until it is reset
    Envs            \* the surroundings the driver may find itself in, one of which is env

Reqs == Plain \cup Busy \cup Reads \cup Writes
Data == Reads \cup Writes
Parties == {"api", "isr"}
RecReq(o) == IF o = "api" THEN "recApi" ELSE "recIsr"  \* Request of SDIOHost_ErrorRecovery
Cmd12 == {"abort", "recApi", "recIsr"}     \* stack objects; "abort" is ProcessAbort's
AllReqs == Reqs \cup Cmd12
Stat == {"NONE", "PENDING", "OK", "FAILED", "TIMEOUT", "ABORTED"}
AllOps == {"exec", "wait", "abort", "sync", "detach", "attach"}
BusErrors == {"ECMD", "EDAT", "EAUTO"}     \* command line, data line, Auto CMD12
Bits == {"CC", "TC", "GAP", "CARD"} \cup BusErrors

ASSUME RequestsAssumption ==
    /\ Plain \cap Busy = {} /\ (Plain \cup Busy) \cap Data = {} /\ Reads \cap Writes = {}
    /\ Adma3 \subseteq HwChecked /\ HwChecked \subseteq Data
    /\ Reqs \cap Cmd12 = {} /\ NoReq \notin AllReqs /\ Blocked \notin AllReqs \cup {NoReq}
ASSUME EnvironmentAssumption ==
    Envs \subseteq [reqs : SUBSET Reqs, ops : SUBSET AllOps,
                    errors : SUBSET (BusErrors \cup {"RESP"}),
                    intEn : BOOLEAN, careful : BOOLEAN, subCommands : BOOLEAN,
                    timeouts : BOOLEAN, resetFails : BOOLEAN, removal : BOOLEAN]

VARIABLES
    env,                \* what the client, the card and the timing may do; never changes
    status, flags,      \* status and busyCheckFlags of every request object
    sub,                \* subCommandRequest while commandCategory is MAIN
    current,            \* pCurrentRequest
    adma3Sel,           \* dmaModeSelected is ADMA3
    abortFlag,          \* AbortRequest
    inserted,           \* CardInserted
    sigOn,              \* SRS14: command, transfer and error interrupts are signalled
    stopGap,            \* SRS10.STOP_AT_BLOCK_GAP
    srs,                \* SRS12
    cmdLine, datLine,   \* who inhibits the command and data lines (SRS09)
    card,               \* the slot is empty, holds a card that was not initialised, or one that was
    api, isr, rec,      \* where the thread, the handler and each recovery are
    executed            \* history: requests the card executed since they were issued

reqVars == <<status, flags, sub, current, adma3Sel>>
slotVars == <<abortFlag, inserted>>
hwVars == <<sigOn, stopGap, srs, cmdLine, datLine, card>>
vars == <<env, reqVars, slotVars, hwVars, api, isr, rec, executed>>

Ops == env.ops                      \* the API functions the client calls
Errors == env.errors                \* the errors the bus may produce
IntEn == env.intEn                  \* intEn: interrupts are signalled, not polled
Careful == env.careful              \* one request at a time
SubCommands == env.subCommands      \* and a plain command beside a data transfer
Timeouts == env.timeouts            \* the card may be slower than the driver's bounded waits
ResetFails == env.resetFails        \* a software reset of the lines may time out
Removal == env.removal              \* the card may be removed and inserted

ApiIdle == [pc |-> "idle", req |-> NoReq, main |-> NoReq, aborting |-> NoReq,
            outer |-> NoReq]
IsrIdle == [pc |-> "idle", bits |-> {}, cur |-> NoReq, scmds |-> FALSE]
RecIdle == [pc |-> "idle", saved |-> NoReq, sig |-> TRUE, auto |-> FALSE, bits |-> {},
            ok |-> TRUE]

UsesDat(r) == r \notin Plain
\* SDIOHost_IsDatLineBusy looks at the data line for reads and R1B only
ChecksDat(r) == r \in Reads \cup Busy
Pending(r) == r # NoReq /\ status[r] = "PENDING"
InFlight == {r \in Reqs : status[r] = "PENDING"}

Init ==
    /\ env \in Envs
    /\ status = [r \in AllReqs |-> "NONE"] /\ flags = [r \in AllReqs |-> {}]
    /\ sub = [r \in AllReqs |-> NoReq]
    /\ current = NoReq /\ adma3Sel = FALSE /\ abortFlag = FALSE /\ inserted = TRUE
    /\ sigOn = TRUE /\ stopGap = FALSE /\ srs = {}
    /\ cmdLine = NoReq /\ datLine = NoReq /\ card = "ready"
    /\ api = ApiIdle /\ isr = IsrIdle /\ rec = [o \in Parties |-> RecIdle]
    /\ executed = {}

(***************************************************************************)
(* Steps several functions share.                                          *)
(***************************************************************************)

Answer(r, s) == status' = [q \in AllReqs |-> IF q = r THEN s ELSE status[q]]

\* ResetLines: a reset frees the line and clears the interrupts that belong to it
ResetBoth == /\ cmdLine' = NoReq /\ datLine' = NoReq
             /\ srs' = srs \ {"CC", "TC", "GAP"}
\* SDIOHost_DeviceDetach ends the request it finds
Detached == Answer(current, "ABORTED")
KeepLines == UNCHANGED <<cmdLine, datLine, srs>>

\* which error SDIOHost_CalcIntToClear reports and clears
Reported(bits) == CASE "EAUTO" \in bits -> "EAUTO"
                    [] "EAUTO" \notin bits /\ "EDAT" \in bits -> "EDAT"
                    [] OTHER -> "ECMD"

\* the signal of the slot: SRS12 as far as SRS14 lets it through
IrqLine == "CARD" \in srs \/ (sigOn /\ srs # {})

\* the thread runs when the handler does not
ApiAt(pc) == api.pc = pc /\ isr.pc = "idle"
Call(op) == ApiAt("idle") /\ op \in Ops
Goto(pc) == api' = [api EXCEPT !.pc = pc]

(***************************************************************************)
(* Executing a command.  ExecCall is SDIOHost_ExecCardCommand up to the    *)
(* point where the request is PENDING; the rest is ProcessRequest, which   *)
(* the abort runs too (api.req = "abort").                                 *)
(***************************************************************************)

SlotIsBusy(r) == Pending(current) /\ (adma3Sel \/ r \notin Plain)

MayIssue(r) == \/ InFlight = {}
               \/ SubCommands /\ r \in Plain /\ current \in InFlight \cap Data
                    /\ Cardinality(InFlight) = 1 /\ datLine = current

ExecCall(r) ==
    /\ Call("exec")
    /\ r \in env.reqs \ InFlight
    /\ Careful => inserted /\ MayIssue(r)
    /\ sub' = [sub EXCEPT ![r] = NoReq]
    /\ flags' = [flags EXCEPT ![r] = {}]
    /\ IF SlotIsBusy(r)
       THEN Answer(r, "FAILED") /\ UNCHANGED <<adma3Sel, api>>
       ELSE /\ Answer(r, "PENDING")
            /\ adma3Sel' = (adma3Sel /\ current = NoReq)
            /\ api' = [ApiIdle EXCEPT !.pc = "swap", !.req = r]
    /\ executed' = executed \ {r}
    /\ UNCHANGED <<env, current, slotVars, hwVars, isr, rec>>

\* mutant: the command line is not looked at
DataLineFree(r) == ChecksDat(r) => datLine = NoReq
LinesFree(r) == cmdLine = NoReq /\ (ChecksDat(r) => datLine = NoReq)

\* a response the controller checks itself raises no command complete
Preset(r) == IF r \in HwChecked THEN {"CC"} ELSE {}

ExecSwap ==
    /\ ApiAt("swap")
    /\ api' = [api EXCEPT !.pc = "inhibit", !.main = current]
    /\ current' = api.req
    /\ flags' = [flags EXCEPT ![api.req] = {}]
    /\ UNCHANGED <<env, status, sub, adma3Sel, slotVars, hwVars, isr, rec, executed>>

\* where a command that was sent, or refused, leaves the thread
Issued == IF api.req = "abort" THEN Goto("wait") ELSE api' = ApiIdle

\* WaitForValue on the inhibit bits gives up
ExecLineBusy ==
    /\ ApiAt("inhibit")
    /\ \/ cmdLine # NoReq /\ (Timeouts \/ cmdLine = Blocked)
       \/ ChecksDat(api.req) /\ datLine # NoReq /\ (Timeouts \/ datLine = Blocked)
    /\ Answer(api.req, "FAILED") /\ current' = NoReq
    /\ Issued
    /\ UNCHANGED <<env, flags, sub, adma3Sel, slotVars, hwVars, isr, rec, executed>>

\* SRS12 is cleared, then the data transfer is prepared, which may fail
ExecPrepare ==
    /\ ApiAt("inhibit")
    /\ LinesFree(api.req)
    /\ srs' = srs \cap {"CARD"}
    /\ flags' = [flags EXCEPT ![api.req] = Preset(api.req)]
    /\ adma3Sel' = IF api.req \in Data THEN api.req \in Adma3 ELSE adma3Sel
    /\ \/ UNCHANGED <<status, current>>
            /\ Goto(IF api.req \in Adma3 THEN "send" ELSE "flag")
       \/ api.req \in Data /\ Answer(api.req, "FAILED") /\ current' = NoReq /\ Issued
    /\ UNCHANGED <<env, sub, slotVars, sigOn, stopGap, cmdLine, datLine, card, isr, rec,
                   executed>>

\* ExecCardCommand_Set_Command_Flag: with the data line in use the request is
\* a sub-command of the one that was current before (without one it is marked
\* SUB and nobody refers to it: left out, the data line is then Blocked)
ExecFlag ==
    /\ ApiAt("flag")
    /\ IF datLine # NoReq /\ api.main # NoReq
       THEN sub' = [sub EXCEPT ![api.main] = api.req] /\ current' = api.main
       ELSE UNCHANGED <<sub, current>>
    /\ Goto("send")
    /\ UNCHANGED <<env, status, flags, adma3Sel, slotVars, hwVars, isr, rec, executed>>

Send(r) == /\ cmdLine' = r
           /\ datLine' = IF UsesDat(r) THEN r ELSE datLine

ExecSend ==
    /\ ApiAt("send")
    /\ Send(api.req)
    /\ Issued
    /\ UNCHANGED <<env, reqVars, slotVars, sigOn, stopGap, srs, card, isr, rec, executed>>

(***************************************************************************)
(* SDIOHost_CheckBusy and CheckBusyAbort: one round of the loop reads the  *)
(* status, calls the handler when interrupts are off and then looks at the *)
(* time that is left.                                                      *)
(***************************************************************************)

WaitCall(r) ==
    /\ Call("wait") /\ status[r] = "PENDING"
    /\ api' = [ApiIdle EXCEPT !.pc = "wait", !.req = r]
    /\ UNCHANGED <<env, reqVars, slotVars, hwVars, isr, rec, executed>>

\* mutant: the handler is not called although interrupts are off
WaitRoundBlind ==
    /\ ApiAt("wait") /\ status[api.req] = "PENDING"
    /\ Goto("polled")
    /\ UNCHANGED <<env, reqVars, slotVars, hwVars, isr, rec, executed>>

WaitRound ==
    /\ ApiAt("wait") /\ status[api.req] = "PENDING"
    /\ Goto(IF IntEn THEN "polled" ELSE "poll")
    /\ UNCHANGED <<env, reqVars, slotVars, hwVars, isr, rec, executed>>

WaitAgain ==
    /\ ApiAt("polled")
    /\ Goto("wait")
    /\ UNCHANGED <<env, reqVars, slotVars, hwVars, isr, rec, executed>>

WaitTimeout ==
    /\ ApiAt("polled") /\ Timeouts
    /\ IF api.req = "abort"
       THEN Answer("abort", "TIMEOUT") /\ Goto("wait")
       ELSE api' = [api EXCEPT !.pc = "reset", !.outer = api.req] /\ UNCHANGED status
    /\ UNCHANGED <<env, flags, sub, current, adma3Sel, slotVars, hwVars, isr, rec, executed>>

WaitDone ==
    /\ ApiAt("wait") /\ status[api.req] # "PENDING"
    /\ IF api.req # "abort" THEN api' = ApiIdle /\ rec' = rec
       ELSE IF status["abort"] = "OK" THEN Goto("finish") /\ rec' = rec
       ELSE /\ Goto("recover")
            /\ rec' = [rec EXCEPT !["api"] = [RecIdle EXCEPT !.pc = "start", !.bits = srs]]
    /\ UNCHANGED <<env, reqVars, slotVars, hwVars, isr, executed>>

(***************************************************************************)
(* SDIOHost_Abort                                                          *)
(***************************************************************************)

\* SDIOHost_Abort(0)
AbortCall ==
    /\ Call("abort")
    /\ api' = [ApiIdle EXCEPT !.pc = "reset"]
    /\ UNCHANGED <<env, reqVars, slotVars, hwVars, isr, rec, executed>>

\* SDIOHost_Abort(1) asks for a stop at the next block gap and waits for it
SyncAbortCall ==
    /\ Call("sync")
    /\ Careful => Pending(current) /\ current \in Data
    /\ abortFlag' = TRUE /\ stopGap' = TRUE
    /\ api' = [ApiIdle EXCEPT !.pc = "spin"]
    /\ UNCHANGED <<env, reqVars, inserted, sigOn, srs, cmdLine, datLine, card, isr, rec,
                   executed>>

AbortStopped ==
    /\ ApiAt("spin") /\ ~abortFlag
    /\ Goto("reset")
    /\ UNCHANGED <<env, reqVars, slotVars, hwVars, isr, rec, executed>>

\* the result of the abort, and the time-out of the CheckBusy that asked for it
AbortReturn(s) ==
    /\ status' = [q \in AllReqs |-> IF q = "abort" THEN "NONE"
                                     ELSE IF q = api.outer THEN "TIMEOUT"
                                     ELSE IF q = api.aborting THEN s ELSE status[q]]
    /\ flags' = [flags EXCEPT !["abort"] = {}] /\ sub' = [sub EXCEPT !["abort"] = NoReq]
    /\ api' = ApiIdle

Aborted == current

\* ProcessAbort up to its CMD12
AbortReset ==
    /\ ApiAt("reset")
    /\ \/ /\ ResetBoth
          /\ Answer("abort", "PENDING")
          /\ flags' = [flags EXCEPT !["abort"] = {}]
          /\ sub' = [sub EXCEPT !["abort"] = NoReq]
          /\ api' = [api EXCEPT !.pc = "swap", !.req = "abort", !.aborting = Aborted]
       \/ /\ ResetFails /\ KeepLines /\ UNCHANGED <<flags, sub>>
          /\ status' = [q \in AllReqs |-> IF q = api.outer THEN "TIMEOUT"
                                           ELSE IF q = current THEN "FAILED" ELSE status[q]]
          /\ api' = ApiIdle
    /\ UNCHANGED <<env, current, adma3Sel, slotVars, sigOn, stopGap, card, isr, rec, executed>>

AbortRecovered ==
    /\ ApiAt("recover") /\ rec["api"].pc = "idle"
    /\ AbortReturn("FAILED")
    /\ rec' = [rec EXCEPT !["api"] = RecIdle]
    /\ UNCHANGED <<env, current, adma3Sel, slotVars, hwVars, isr, executed>>

AbortFinish ==
    /\ ApiAt("finish")
    /\ \/ ResetBoth /\ AbortReturn("ABORTED")
       \/ ResetFails /\ KeepLines /\ AbortReturn("FAILED")
    /\ UNCHANGED <<env, current, adma3Sel, slotVars, sigOn, stopGap, card, isr, rec, executed>>

(***************************************************************************)
(* Detach and attach of the card by the client.                            *)
(***************************************************************************)

DetachCall ==
    /\ Call("detach")
    /\ Detached
    /\ \/ ResetBoth
       \/ ResetFails /\ KeepLines
    /\ Goto("detach")
    /\ UNCHANGED <<env, flags, sub, current, adma3Sel, slotVars, sigOn, stopGap, card, isr, rec,
                   executed>>

DetachEnd ==
    /\ ApiAt("detach")
    /\ inserted' = FALSE /\ current' = NoReq
    /\ api' = ApiIdle
    /\ UNCHANGED <<env, status, flags, sub, adma3Sel, abortFlag, hwVars, isr, rec, executed>>

\* SDIOHost_DeviceAttach, of which only CardInserted matters here
AttachCall ==
    /\ Call("attach") /\ card # "out" /\ ~inserted
    /\ cmdLine = NoReq /\ datLine = NoReq /\ srs = {}
    /\ inserted' = TRUE /\ card' = "ready"
    /\ UNCHANGED <<env, reqVars, abortFlag, sigOn, stopGap, srs, cmdLine, datLine, api, isr, rec,
                   executed>>

ApiStep ==
    \/ \E r \in Reqs : ExecCall(r) \/ WaitCall(r)
    \/ AbortCall \/ SyncAbortCall \/ DetachCall \/ AttachCall

ApiContinue ==
    \/ ExecSwap \/ ExecLineBusy \/ ExecPrepare \/ ExecFlag \/ ExecSend
    \/ WaitRound \/ WaitAgain \/ WaitTimeout \/ WaitDone
    \/ AbortStopped \/ AbortReset \/ AbortRecovered \/ AbortFinish \/ DetachEnd

(***************************************************************************)
(* What the handler and a recovery do with the bits of SRS12 they read     *)
(* (left: what is still set).                                              *)
(***************************************************************************)

\* mutant: command complete is read but not cleared
NotComplete == {"TC", "GAP", "CARD"}
Normal == {"CC", "TC", "GAP", "CARD"}     \* cleared where they are read

\* removal or insertion; SDIOHost_DeviceDetach unless a card has just come
CardEvent(left) ==
    IF ~inserted /\ card # "out"
    THEN /\ srs' = left
         /\ UNCHANGED <<status, current, inserted, cmdLine, datLine>>
    ELSE /\ Detached
         /\ inserted' = FALSE /\ current' = NoReq
         /\ \/ cmdLine' = NoReq /\ datLine' = NoReq /\ srs' = left
            \/ ResetFails /\ srs' = left /\ UNCHANGED <<cmdLine, datLine>>

\* mutant: the response alone completes a data transfer
CompleteEarly(f) == "CC" \in f
\* the request is complete once both its bits were seen
Complete(f) == {"CC", "TC"} \subseteq f

Seen(r, bits) == flags[r] \cup (bits \cap {"CC"})
AllSeen(r, bits) == flags[r] \cup (bits \cap {"CC", "TC"})

\* the slot forgets the request that is complete
Release(done) == current' = IF done THEN NoReq ELSE current

\* CheckInterruptNonError: command complete, then transfer complete
Progress(bits, cur, left) ==
    LET cc == Seen(cur, bits)
        tc == AllSeen(cur, bits)
        doneAtCC == "CC" \in bits /\ (cur \in Plain \/ Complete(cc))
        stopped == "GAP" \in bits /\ abortFlag
        doneAtTC == Complete(tc) /\ ~stopped
    IN  \/ /\ "CC" \in bits /\ "RESP" \in Errors
           /\ flags' = [flags EXCEPT ![cur] = cc] /\ Answer(cur, "FAILED")
           /\ \/ cmdLine' = NoReq /\ datLine' = NoReq /\ srs' = left \ {"CC", "TC", "GAP"}
              \/ ResetFails /\ srs' = left /\ UNCHANGED <<cmdLine, datLine>>
           /\ UNCHANGED <<current, adma3Sel, abortFlag>>
        \/ /\ doneAtCC
           /\ flags' = [flags EXCEPT ![cur] = cc] /\ Answer(cur, "OK")
           /\ Release(TRUE) /\ srs' = left
           /\ UNCHANGED <<adma3Sel, abortFlag, cmdLine, datLine>>
        \/ /\ ~doneAtCC /\ "TC" \in bits
           /\ flags' = [flags EXCEPT ![cur] = tc]
           /\ abortFlag' = (abortFlag /\ ~stopped)
           /\ status' = [q \in AllReqs |->
                           IF doneAtTC /\ (q = cur \/ (q = sub[cur] /\ Pending(q)))
                           THEN "OK" ELSE status[q]]
           /\ Release(doneAtTC)
           /\ adma3Sel' = (cur \in Adma3) /\ srs' = left
           /\ UNCHANGED <<cmdLine, datLine>>
        \/ /\ ~doneAtCC /\ "TC" \notin bits
           /\ flags' = [flags EXCEPT ![cur] = cc] /\ srs' = left
           /\ UNCHANGED <<status, current, adma3Sel, abortFlag, cmdLine, datLine>>

(***************************************************************************)
(* SDIOHost_ErrorRecovery, run by the handler or by an abort.  It masks    *)
(* the interrupts, resets the lines, sends CMD12 and polls SRS12 itself.   *)
(***************************************************************************)

RecAt(o, pc) == rec[o].pc = pc /\ (o = "api" => isr.pc = "idle")
RecFails(o) == rec' = [rec EXCEPT ![o].pc = "idle", ![o].ok = FALSE]

\* CmdDatLineErrorRecovery or, after an Auto CMD12 error, CalcPcmd
RecStart(o) ==
    LET auto == "EAUTO" \in rec[o].bits
        cmd == auto \/ "ECMD" \in srs
        dat == ~auto /\ ("EDAT" \in srs \/ current \in Data)
    IN  /\ RecAt(o, "start")
        /\ \/ /\ rec' = [rec EXCEPT ![o].pc = "send", ![o].saved = current,
                                     ![o].sig = sigOn, ![o].auto = auto]
              /\ sigOn' = FALSE
              /\ cmdLine' \in (IF cmd THEN {NoReq} ELSE {cmdLine})
                              \cup (IF auto /\ ResetFails THEN {cmdLine} ELSE {})
              /\ datLine' = IF dat THEN NoReq ELSE datLine
              /\ srs' = (srs \ (IF auto THEN {} ELSE rec[o].bits))
                           \ ((IF cmd THEN {"CC"} ELSE {}) \cup (IF dat THEN {"TC", "GAP"} ELSE {}))
           \/ /\ ResetFails /\ (cmd \/ dat)
              /\ RecFails(o) /\ KeepLines /\ sigOn' = sigOn
        /\ UNCHANGED <<env, reqVars, slotVars, stopGap, card, api, isr, executed>>

\* CMD12, sent the way ProcessRequest sends a request
RecSend(o) ==
    LET r == RecReq(o)
        beside == datLine # NoReq /\ current # NoReq
    IN  /\ RecAt(o, "send")
        /\ flags' = [flags EXCEPT ![r] = {}]
        /\ \/ /\ cmdLine = NoReq
              /\ Answer(r, "PENDING")
              /\ sub' = IF beside THEN [sub EXCEPT ![r] = NoReq, ![current] = r]
                        ELSE [sub EXCEPT ![r] = NoReq]
              /\ current' = IF beside THEN current ELSE r
              /\ srs' = srs \cap {"CARD"}
              /\ Send(r)
           \/ /\ cmdLine # NoReq /\ (Timeouts \/ cmdLine = Blocked)
              /\ Answer(r, "FAILED") /\ current' = NoReq /\ sub' = [sub EXCEPT ![r] = NoReq]
              /\ KeepLines
        /\ rec' = [rec EXCEPT ![o].pc = "poll"]
        /\ UNCHANGED <<env, adma3Sel, slotVars, sigOn, stopGap, card, api, isr, executed>>

\* CheckRequestOnRecovery: one round, without a time-out
RecPoll(o) ==
    LET left == srs \ Normal
    IN  /\ RecAt(o, "poll") /\ Pending(RecReq(o)) /\ srs # {}
        /\ \/ /\ "CARD" \in srs /\ CardEvent(left)
              /\ UNCHANGED <<flags, adma3Sel, abortFlag>>
           \/ /\ "CARD" \notin srs /\ srs \cap BusErrors # {}
              /\ Answer(current, "FAILED") /\ srs' = left \ {Reported(srs)}
              /\ adma3Sel' = IF current = NoReq THEN adma3Sel ELSE current \in Adma3
              /\ UNCHANGED <<flags, current, slotVars, cmdLine, datLine>>
           \/ /\ srs \cap ({"CARD"} \cup BusErrors) = {} /\ current = NoReq /\ srs' = left
              /\ UNCHANGED <<status, flags, current, adma3Sel, slotVars, cmdLine, datLine>>
           \/ /\ srs \cap ({"CARD"} \cup BusErrors) = {} /\ current # NoReq
              /\ Progress(srs, current, left)
              /\ UNCHANGED inserted
        /\ UNCHANGED <<env, sub, sigOn, stopGap, card, api, isr, rec, executed>>

\* mutant: the recovery leaves its own CMD12 current
LeakCmd12(o) == current
\* the request that was current before CMD12, and the signals it masked
PutBack(o) == IF rec[o].auto THEN current ELSE rec[o].saved
Unmasked(o) == rec[o].sig

\* FinishErrorInterruptRecovery: a reset that fails leaves SRS14 masked.  The
\* end of the Auto CMD12 recovery always restores it and always reports an error.
RecEnd(o) ==
    /\ RecAt(o, "poll") /\ ~Pending(RecReq(o))
    /\ current' = PutBack(o)
    /\ \/ /\ ResetBoth
          /\ sigOn' = Unmasked(o)
          /\ \E ok \in {~rec[o].auto, FALSE} :
                rec' = [rec EXCEPT ![o].pc = "idle", ![o].ok = ok]
       \/ /\ ResetFails /\ KeepLines
          /\ sigOn' = IF rec[o].auto THEN Unmasked(o) ELSE sigOn
          /\ RecFails(o)
    /\ status' = [status EXCEPT ![RecReq(o)] = "NONE"]
    /\ flags' = [flags EXCEPT ![RecReq(o)] = {}] /\ sub' = [sub EXCEPT ![RecReq(o)] = NoReq]
    /\ UNCHANGED <<env, adma3Sel, slotVars, stopGap, card, api, isr, executed>>

RecStep(o) == RecStart(o) \/ RecSend(o) \/ RecPoll(o) \/ RecEnd(o)

(***************************************************************************)
(* SDIOHost_InterruptHandler: a loop over SRS12.                           *)
(***************************************************************************)

IsrEnter ==
    /\ isr.pc = "idle"
    /\ IF IntEn THEN IrqLine ELSE api.pc = "poll"
    /\ isr' = [IsrIdle EXCEPT !.pc = "read"]
    /\ UNCHANGED <<env, reqVars, slotVars, hwVars, api, rec, executed>>

IsrReturn ==
    /\ isr.pc = "read" /\ srs = {}
    /\ isr' = IsrIdle
    /\ api' = IF IntEn THEN api ELSE [api EXCEPT !.pc = "polled"]
    /\ UNCHANGED <<env, reqVars, slotVars, hwVars, rec, executed>>

IsrRead ==
    /\ isr.pc = "read" /\ srs # {}
    /\ srs' = srs \ Normal
    /\ isr' = [pc |-> CASE "CARD" \in srs -> "card"
                        [] "CARD" \notin srs /\ srs \cap BusErrors # {} -> "error"
                        [] srs \subseteq Normal \ {"CARD"} /\ current # NoReq -> "normal"
                        [] OTHER -> "read",
               bits |-> srs, cur |-> current, scmds |-> FALSE]
    /\ UNCHANGED <<env, reqVars, slotVars, sigOn, stopGap, cmdLine, datLine, card, api, rec,
                   executed>>

IsrCard ==
    /\ isr.pc = "card"
    /\ CardEvent(srs)
    /\ isr' = [IsrIdle EXCEPT !.pc = "read"]
    /\ UNCHANGED <<env, flags, sub, adma3Sel, abortFlag, sigOn, stopGap, card, api, rec,
                   executed>>

\* mutant: the bits are cleared once more after they were acted upon
IsrNormalClearsAgain ==
    /\ isr.pc = "normal"
    /\ Progress(isr.bits, isr.cur, srs \ Normal)
    /\ isr' = [IsrIdle EXCEPT !.pc = "read"]
    /\ UNCHANGED <<env, sub, inserted, sigOn, stopGap, card, api, rec, executed>>

IsrNormal ==
    /\ isr.pc = "normal"
    /\ Progress(isr.bits, isr.cur, srs)
    /\ isr' = [IsrIdle EXCEPT !.pc = "read"]
    /\ UNCHANGED <<env, sub, inserted, sigOn, stopGap, card, api, rec, executed>>

\* SDIOHost_CheckError reads SRS12 again and starts the recovery (the handler
\* is not re-entered, so ErrorRecorvering is never found set)
IsrError ==
    /\ isr.pc = "error"
    /\ adma3Sel' = IF isr.cur = NoReq THEN adma3Sel ELSE isr.cur \in Adma3
    /\ rec' = [rec EXCEPT !["isr"] = [RecIdle EXCEPT !.pc = "start", !.bits = srs]]
    /\ \E scmds \in {FALSE, isr.cur # NoReq /\ sub[isr.cur] # NoReq /\ "ECMD" \in srs} :
          isr' = [isr EXCEPT !.pc = "recover", !.scmds = scmds]
    /\ UNCHANGED <<env, status, flags, sub, current, slotVars, hwVars, api, executed>>

\* the request that was current when the error was read is answered, with its
\* sub-command; the error is cleared only after a recovery that succeeded
IsrErrorEnd ==
    LET cur == isr.cur
        beside == IF cur = NoReq THEN NoReq ELSE sub[cur]
    IN  /\ isr.pc = "recover" /\ rec["isr"].pc = "idle"
        /\ srs' = IF rec["isr"].ok THEN srs \ {Reported(rec["isr"].bits)} ELSE srs
        /\ status' = [q \in AllReqs |->
                        IF isr.scmds        \* SRS09.SCMDS: the sub-command failed
                        THEN IF q = beside \/ (q = cur /\ Pending(q)) THEN "FAILED" ELSE status[q]
                        ELSE IF q = cur THEN "FAILED"
                        ELSE IF q = beside /\ Pending(q) THEN "OK" ELSE status[q]]
        /\ rec' = [rec EXCEPT !["isr"] = RecIdle]
        /\ isr' = [IsrIdle EXCEPT !.pc = "read"]
        /\ UNCHANGED <<env, flags, sub, current, adma3Sel, slotVars, sigOn, stopGap, cmdLine,
                       datLine, card, api, executed>>

IsrStep == IsrEnter \/ IsrReturn \/ IsrRead \/ IsrCard \/ IsrNormal \/ IsrError \/ IsrErrorEnd

(***************************************************************************)
(* The controller and the card (external).                                 *)
(***************************************************************************)

\* the response arrives; a request without data is then executed
HwResponse ==
    /\ cmdLine \in AllReqs /\ card = "ready"
    /\ cmdLine' = NoReq
    /\ srs' = IF cmdLine \in HwChecked THEN srs ELSE srs \cup {"CC"}
    /\ executed' = IF cmdLine \in Plain THEN executed \cup {cmdLine} ELSE executed
    /\ UNCHANGED <<env, reqVars, slotVars, sigOn, stopGap, datLine, card, api, isr, rec>>

\* the data transfer or the busy phase ends
HwTransfer ==
    /\ datLine \in AllReqs /\ cmdLine # datLine /\ card = "ready"
    /\ datLine' = NoReq
    /\ srs' = srs \cup {"TC"}
    /\ executed' = executed \cup {datLine}
    /\ UNCHANGED <<env, reqVars, slotVars, sigOn, stopGap, cmdLine, card, api, isr, rec>>

\* or it stops between two blocks; while STOP_AT_BLOCK_GAP is set the
\* controller ignores a request to continue
HwStopAtGap ==
    /\ stopGap /\ datLine \in Data /\ cmdLine # datLine /\ card = "ready"
    /\ datLine' = Blocked
    /\ srs' = srs \cup {"TC", "GAP"}
    /\ UNCHANGED <<env, reqVars, slotVars, sigOn, stopGap, cmdLine, card, api, isr, rec,
                   executed>>

\* without an initialised card every command ends in a time-out error
HwCmdError ==
    /\ cmdLine \in AllReqs /\ ("ECMD" \in Errors \/ card # "ready")
    /\ cmdLine' \in {NoReq, Blocked}
    /\ datLine' \in IF datLine # cmdLine THEN {datLine}
                    ELSE {NoReq} \cup (IF cmdLine \in Data THEN {Blocked} ELSE {})
    /\ srs' = srs \cup {"ECMD"}
    /\ UNCHANGED <<env, reqVars, slotVars, sigOn, stopGap, card, api, isr, rec, executed>>

HwDatError(e) ==
    /\ datLine \in AllReqs /\ cmdLine # datLine
    /\ \/ e = "EDAT" /\ ("EDAT" \in Errors \/ card # "ready")
       \/ e = "EAUTO" /\ "EAUTO" \in Errors /\ datLine \in Data
    /\ datLine' = Blocked
    /\ srs' = srs \cup {e}
    /\ UNCHANGED <<env, reqVars, slotVars, sigOn, stopGap, cmdLine, card, api, isr, rec,
                   executed>>

HwCard ==
    /\ Removal
    /\ card' = IF card = "out" THEN "new" ELSE "out"
    /\ srs' = srs \cup {"CARD"}
    /\ UNCHANGED <<env, reqVars, slotVars, sigOn, stopGap, cmdLine, datLine, api, isr, rec,
                   executed>>

HwAnswer == HwResponse \/ HwTransfer \/ (card # "ready" /\ (HwCmdError \/ HwDatError("EDAT")))
HwStep == HwAnswer \/ HwStopAtGap \/ HwCmdError \/ HwDatError("EDAT") \/ HwDatError("EAUTO")
          \/ HwCard

Next == ApiStep \/ ApiContinue \/ IsrStep \/ (\E o \in Parties : RecStep(o)) \/ HwStep

Spec == Init /\ [][Next]_vars

\* A function that was called goes on, a raised interrupt is taken, and the
\* controller ends what it was given to do.
Fairness == /\ WF_vars(ApiContinue) /\ WF_vars(IsrStep)
            /\ \A o \in Parties : WF_vars(RecStep(o))
            /\ WF_vars(HwAnswer)

FairSpec == Spec /\ Fairness

-----------------------------------------------------------------------------------
(***************************************************************************)
(* Properties.                                                             *)
(***************************************************************************)

\* A failing sub-command, a synchronous abort and a reset that fails in an abort are known to
\* leave requests without an answer (README).
Ordinary == /\ env.subCommands => env.errors = {}
            /\ env.resetFails => "abort" \notin env.ops
            /\ "sync" \notin env.ops

\* The thread is still giving r to the controller, or is in the middle of a
\* detach or an abort that will answer it.
InHand(r) == \/ api.req = r /\ api.pc \in {"swap", "inhibit", "flag", "send"}
             \/ api.pc = "detach"
             \/ current = r /\ (api.pc = "reset" \/ (api.pc = "spin" /\ ~abortFlag))
             \/ r \in {api.aborting, api.outer}

\* What the controller owes to whoever is current.
Owing(r) == \/ r \in {cmdLine, datLine}
            \/ srs # {} \/ isr.bits # {}
            \/ \E o \in Parties : rec[o].pc # "idle" /\ rec[o].saved = r

\* A PENDING request is owed an answer: the thread still holds it, or it is
\* current (or will be again after a recovery) and the controller is working on
\* it or has raised a bit that the handler will see.
PendingIsOwed ==
    Ordinary => \A r \in InFlight :
        \/ InHand(r)
        \/ /\ \/ current = r \/ isr.cur = r
              \/ api.main = r /\ api.pc \in {"inhibit", "flag"}
              \/ current # NoReq /\ sub[current] = r
              \/ \E o \in Parties : rec[o].pc # "idle" /\ rec[o].saved = r
           /\ \/ Owing(r)
              \/ current \in Reqs /\ Owing(current)

\* No handler and no recovery is in the middle of its work.
Quiet == isr.pc = "idle" /\ \A o \in Parties : rec[o].pc = "idle"

\* A client that reads the answer OK has had its request executed by the card.
OkWasExecuted == Ordinary /\ Quiet => \A r \in Reqs : status[r] = "OK" => r \in executed

\* Every CMD12 of an abort is answered: nothing else fails, and no card comes or goes.
AbortsAnswered == /\ ~env.timeouts
                  /\ {"abort", "sync"} \cap env.ops = {} \/ (env.errors = {} /\ ~env.removal)

\* pCurrentRequest never refers to the request of a function that has returned: to the CMD12
\* of an abort, if that is answered, nor to the CMD12 of a recovery, but for the recovery from
\* an Auto CMD12 error, which does not put the pointer back.
CurrentIsLive ==
    /\ AbortsAnswered /\ current = "abort" => api.req = "abort"
    /\ "EAUTO" \notin env.errors => \A o \in Parties : current = RecReq(o) => rec[o].pc # "idle"

\* A command is sent only while the command line is free, and a read or a command with busy
\* only while the data line is free too: neither the client's command, looked at before the
\* handler cut in, nor a CMD12 is written upon another, unless a software reset failed.
SentWhenFree ==
    [][cmdLine' \in AllReqs /\ cmdLine' # cmdLine /\ ~env.resetFails =>
         /\ cmdLine = NoReq
         /\ ChecksDat(cmdLine') => datLine = NoReq]_vars

\* A wait for a request ends, with its answer.
WaitEnds == api.pc = "wait" ~> api.pc = "idle"

\* The interrupt handler returns.
HandlerReturns == isr.pc # "idle" ~> isr.pc = "idle"
====
