------------------------------------ MODULE CQ ------------------------------------
(***************************************************************************)
(* Command queuing (core_driver/src/sdio_cq.c): the request slots of the   *)
(* driver, the command queuing engine of the host controller and the eMMC  *)
(* device behind it.                                                       *)
(*                                                                         *)
(* Three parties interleave.  One API thread runs the SDIOHost_CQ_*        *)
(* functions; the interrupt handler preempts it and runs to completion;    *)
(* the engine executes tasks, raises interrupts and acknowledges halts at  *)
(* any time.  A function is split into steps where it reads state, waits   *)
(* for a register or leaves a window in which the handler can run.         *)
(***************************************************************************)
EXTENDS Naturals, FiniteSets

CONSTANTS
    NumTasks,       \* CQ_HOST_NUMBER_OF_TASKS
    Depth,          \* cQDepth, CQ_DEPTH of the device's EXT_CSD plus one
    Requests,       \* the CSDD_CQRequest objects of the client
    DcmdRequests,   \* the CSDD_CQDcmdRequest objects of the client
    NoReq,          \* NULL
    Envs            \* the surroundings the driver may find itself in, one of which is env

Tasks == 0 .. NumTasks - 1
DcmdTask == NumTasks - 1        \* CQ_DCMD_TASK_ID
NoTask == NumTasks
AllReqs == Requests \cup DcmdRequests
Stat == {"FINISHED", "ATTACHED", "PENDING", "FAILED"}
AllOps == {"enable", "disable", "attach", "start", "dcmd", "dcmdcfg", "halt",
           "discard", "discardAll", "coal", "coalReset"}
AllErrors == {"data", "cmd", "resp"}

ASSUME NumTasksAssumption == NumTasks \in Nat \ {0}
ASSUME DepthAssumption == Depth \in 1 .. NumTasks
ASSUME RequestsAssumption == /\ Requests \cap DcmdRequests = {}
                             /\ NoReq \notin AllReqs
ASSUME EnvironmentAssumption ==
    Envs \subseteq [ops : SUBSET AllOps, errors : SUBSET AllErrors, careful : BOOLEAN,
                    promptIrq : BOOLEAN, promptClear : BOOLEAN, haltTimeouts : BOOLEAN]

VARIABLES
    env,            \* what the client, the device and the timing may do; never changes
    cqEnabled, cqHalted, dcmdEnabled, coalEn,   \* flags of CSDD_SDIO_Slot
    currentReq, currentDcmd,    \* CQCurrentReq[32], CQCurrentDcmdReq
    reqStat,                    \* cQReqStat of every request object
    desc,                       \* the task descriptor list: the request of each slot
    api, isr,                   \* where the API thread and the handler are
    haltReq, hwHalt,            \* CQRS03.HALT as written, and as the engine reports it
    doorbell, clearReq, notif,  \* CQRS10, CQRS14, CQRS11
    hwReq,                      \* the request the engine fetched for each task
    stuck,                      \* tasks stopped by an error until the next restart
    errField,                   \* CQRS21: tasks of the last command and data error
    cqInt, srsErr,              \* CQRS04 (TCC, RED), SRS12.ERROR_INTERRUPT
    coalCnt,                    \* a completion is counted but not yet signalled
    executed                    \* history: requests executed since their attach

drvVars == <<cqEnabled, cqHalted, dcmdEnabled, coalEn, currentReq, currentDcmd,
             reqStat, desc>>
hwVars == <<haltReq, hwHalt, doorbell, clearReq, notif, hwReq, stuck, errField,
            cqInt, srsErr, coalCnt, executed>>
vars == <<env, drvVars, api, isr, hwVars>>

Ops == env.ops                      \* the API functions the client calls
Errors == env.errors                \* the errors the device and the bus may produce
Careful == env.careful              \* the client follows the documented rules of the interface
PromptIrq == env.promptIrq          \* a raised interrupt is taken before the thread's next step
PromptClear == env.promptClear      \* a task clear is done before the driver's next step
HaltTimeouts == env.haltTimeouts    \* a halt may take longer than COMMANDS_TIMEOUT

(***************************************************************************)
(* What the driver reads.                                                  *)
(***************************************************************************)

\* CQRS13: the tasks queued in the device; a direct command never is
DevPending == {t \in Tasks : hwReq[t] \in Requests}
IsHwTaskPending(t) == t \in DevPending
IsRequestPending(t) == /\ currentReq[t] # NoReq
                       /\ reqStat[currentReq[t]] = "PENDING"
IsRequestAttached(t) == /\ currentReq[t] # NoReq
                        /\ reqStat[currentReq[t]] = "ATTACHED"
IsDirectTask(t) == dcmdEnabled /\ t = DcmdTask

\* mutant: a slot is taken for free when its task is not pending in the device
UnusedIgnoresAttached ==
    LET free == {t \in 0 .. Depth - 1 : ~IsHwTaskPending(t) /\ ~IsRequestPending(t)}
    IN  IF free = {} THEN NoTask ELSE CHOOSE u \in free : \A v \in free : u <= v

\* the task CQGetUnusedTaskId returns, NoTask when it reports EBUSY
UnusedTaskId ==
    LET free == {t \in 0 .. Depth - 1 : currentReq[t] = NoReq /\ ~IsHwTaskPending(t)}
    IN  IF free = {} THEN NoTask
        ELSE LET t == CHOOSE u \in free : \A v \in free : u <= v
             IN  IF IsDirectTask(t) THEN NoTask ELSE t

\* mutant: the direct command's slot is skipped even while it is an ordinary one
ScanSkipsLast == {t \in 0 .. Depth - 1 : t # DcmdTask}

\* the slots the completion and discard loops visit
ScannedTasks == {t \in 0 .. Depth - 1 : ~IsDirectTask(t)}

\* mutant: the request is answered but stays in its slot
FinishKeepsSlot(ts, dcmd, status) ==
    LET done == {currentReq[t] : t \in ts} \cup (IF dcmd THEN {currentDcmd} ELSE {})
    IN  /\ reqStat' = [r \in AllReqs |-> IF r \in done THEN status ELSE reqStat[r]]
        /\ currentReq' = currentReq
        /\ currentDcmd' = IF dcmd THEN NoReq ELSE currentDcmd

\* FinishRequest for the slots ts and, when dcmd, FinishDcmdRequest
Finish(ts, dcmd, status) ==
    LET done == {currentReq[t] : t \in ts} \cup (IF dcmd THEN {currentDcmd} ELSE {})
    IN  /\ reqStat' = [r \in AllReqs |-> IF r \in done THEN status ELSE reqStat[r]]
        /\ currentReq' = [t \in Tasks |-> IF t \in ts THEN NoReq ELSE currentReq[t]]
        /\ currentDcmd' = IF dcmd THEN NoReq ELSE currentDcmd

ApiIdle == [pc |-> "idle", op |-> "none", tasks |-> {}, req |-> NoReq]
IsrIdle == [pc |-> "idle", err |-> "none", ints |-> {}, task |-> NoTask,
            done |-> {}]

ApiStates == [pc : {"idle", "attach", "start", "ring", "halt", "haltSet", "discard",
                    "discardAll", "finish", "unhalt"},
              op : AllOps \cup {"none"}, tasks : SUBSET Tasks, req : Requests \cup {NoReq}]
IsrStates == [pc : {"idle", "dispatch", "taskerr", "halt", "recover", "unhalt", "clearerr",
                    "cqint", "coal", "complete", "finish"},
              err : {"none", "srs", "red"}, ints : SUBSET {"TCC", "RED", "CQINT"},
              task : 0 .. NumTasks, done : SUBSET Tasks]

IrqLine == srsErr \/ cqInt # {}

\* the thread runs when the handler does not
ApiStep(pc) == /\ api.pc = pc
               /\ isr.pc = "idle"
               /\ PromptIrq => ~IrqLine
               /\ PromptClear => clearReq = {}

Call(op) == ApiStep("idle") /\ op \in Ops

InUse == {r \in AllReqs : reqStat[r] \in {"ATTACHED", "PENDING"}}

Init ==
    /\ env \in Envs
    /\ cqEnabled = FALSE /\ cqHalted = FALSE /\ dcmdEnabled = FALSE /\ coalEn = FALSE
    /\ currentReq = [t \in Tasks |-> NoReq] /\ currentDcmd = NoReq
    /\ reqStat = [r \in AllReqs |-> "FINISHED"]
    /\ desc = [t \in Tasks |-> NoReq]
    /\ api = ApiIdle /\ isr = IsrIdle
    /\ haltReq = FALSE /\ hwHalt = FALSE
    /\ doorbell = {} /\ clearReq = {} /\ notif = {}
    /\ hwReq = [t \in Tasks |-> NoReq]
    /\ stuck = {} /\ errField = [cmd |-> NoTask, data |-> NoTask]
    /\ cqInt = {} /\ srsErr = FALSE /\ coalCnt = FALSE
    /\ executed = {}

(***************************************************************************)
(* The API thread.  Every function first tests CQEnabled; a call that is   *)
(* refused changes nothing and is a stuttering step.                       *)
(***************************************************************************)

Goto(pc) == api' = [api EXCEPT !.pc = pc]
Return == api' = ApiIdle

\* SDIOHost_CQ_Enable: a failing DeviceCQConfig leaves everything as it was
Enable ==
    /\ Call("enable") /\ ~cqEnabled
    /\ cqEnabled' = TRUE
    /\ cqInt' = {}
    /\ UNCHANGED <<env, cqHalted, dcmdEnabled, coalEn, currentReq, currentDcmd, reqStat, desc,
                   api, isr, haltReq, hwHalt, doorbell, clearReq, notif, hwReq, stuck,
                   errField, srsErr, coalCnt, executed>>

\* SDIOHost_CQ_Disable: only the device-pending tasks are looked at.  Whether
\* the engine forgets its doorbells when it is switched off is left open.
Disable ==
    /\ Call("disable") /\ cqEnabled
    /\ Careful => InUse = {}
    /\ DevPending = {}
    /\ cqEnabled' = FALSE
    /\ cqInt' = {} /\ coalCnt' = FALSE
    /\ doorbell' \in {doorbell, {}}
    /\ hwReq' = [t \in Tasks |-> NoReq]
    /\ UNCHANGED <<env, cqHalted, dcmdEnabled, coalEn, currentReq, currentDcmd, reqStat, desc,
                   api, isr, haltReq, hwHalt, clearReq, notif, stuck, errField, srsErr,
                   executed>>

\* SDIOHost_CQ_AttachRequest: the checks, then (after a window) the slot
AttachCheck(r, t) ==
    /\ Call("attach") /\ cqEnabled
    /\ r \notin InUse
    /\ Careful => t = UnusedTaskId
    /\ ~IsHwTaskPending(t) /\ ~IsRequestPending(t)
    /\ api' = [pc |-> "attach", op |-> "attach", tasks |-> {t}, req |-> r]
    /\ UNCHANGED <<env, drvVars, isr, hwVars>>

\* VerifyRequest rejects a request for its buffers only
AttachReject ==
    /\ ApiStep("attach")
    /\ reqStat' = [reqStat EXCEPT ![api.req] = "FAILED"]
    /\ Return
    /\ UNCHANGED <<env, cqEnabled, cqHalted, dcmdEnabled, coalEn, currentReq, currentDcmd, desc,
                   isr, hwVars>>

AttachCommit ==
    /\ ApiStep("attach")
    /\ desc' = [t \in Tasks |-> IF t \in api.tasks THEN api.req ELSE desc[t]]
    /\ reqStat' = [reqStat EXCEPT ![api.req] = "ATTACHED"]
    /\ currentReq' = [t \in Tasks |-> IF t \in api.tasks THEN api.req ELSE currentReq[t]]
    /\ executed' = executed \ {api.req}
    /\ Return
    /\ UNCHANGED <<env, cqEnabled, cqHalted, dcmdEnabled, coalEn, currentDcmd, isr, haltReq,
                   hwHalt, doorbell, clearReq, notif, hwReq, stuck, errField, cqInt, srsErr,
                   coalCnt>>

\* mutant: any request in the slot may be started, a pending one again
StartCheckAnyRequest(ts) ==
    /\ Call("start") /\ cqEnabled
    /\ \A t \in ts : ~IsHwTaskPending(t) /\ ~IsDirectTask(t) /\ currentReq[t] # NoReq
    /\ api' = [pc |-> "start", op |-> "start", tasks |-> ts, req |-> NoReq]
    /\ UNCHANGED <<env, drvVars, isr, hwVars>>

\* SDIOHost_CQ_StartExecuteTask (one task) and SDIOHost_CQ_StartExecuteTasks
StartCheck(ts) ==
    /\ Call("start") /\ cqEnabled
    /\ \A t \in ts : ~IsHwTaskPending(t) /\ ~IsDirectTask(t) /\ IsRequestAttached(t)
    /\ api' = [pc |-> "start", op |-> "start", tasks |-> ts, req |-> NoReq]
    /\ UNCHANGED <<env, drvVars, isr, hwVars>>

StartMark ==
    /\ ApiStep("start")
    /\ reqStat' = [r \in AllReqs |->
                     IF \E t \in api.tasks : currentReq[t] = r THEN "PENDING" ELSE reqStat[r]]
    /\ Goto("ring")
    /\ UNCHANGED <<env, cqEnabled, cqHalted, dcmdEnabled, coalEn, currentReq, currentDcmd, desc,
                   isr, hwVars>>

\* mutant: the direct command is stored in the table of ordinary requests
DcmdCommitInSlot(d) ==
    /\ Call("dcmd") /\ dcmdEnabled
    /\ d \notin InUse
    /\ Careful => cqEnabled /\ currentDcmd = NoReq
    /\ desc' = [desc EXCEPT ![DcmdTask] = d]
    /\ reqStat' = [reqStat EXCEPT ![d] = "PENDING"]
    /\ currentReq' = [currentReq EXCEPT ![DcmdTask] = d]
    /\ executed' = executed \ {d}
    /\ api' = [pc |-> "ring", op |-> "dcmd", tasks |-> {DcmdTask}, req |-> NoReq]
    /\ UNCHANGED <<env, cqEnabled, cqHalted, dcmdEnabled, coalEn, currentDcmd, isr, haltReq, hwHalt,
                   doorbell, clearReq, notif, hwReq, stuck, errField, cqInt, srsErr, coalCnt>>

\* SDIOHost_CQ_ExecuteDcmdRequest: neither CQEnabled nor a direct command in
\* flight is looked at
DcmdCommit(d) ==
    /\ Call("dcmd") /\ dcmdEnabled
    /\ d \notin InUse
    /\ Careful => cqEnabled /\ currentDcmd = NoReq
    /\ desc' = [desc EXCEPT ![DcmdTask] = d]
    /\ reqStat' = [reqStat EXCEPT ![d] = "PENDING"]
    /\ currentDcmd' = d
    /\ executed' = executed \ {d}
    /\ api' = [pc |-> "ring", op |-> "dcmd", tasks |-> {DcmdTask}, req |-> NoReq]
    /\ UNCHANGED <<env, cqEnabled, cqHalted, dcmdEnabled, coalEn, currentReq, isr, haltReq, hwHalt,
                   doorbell, clearReq, notif, hwReq, stuck, errField, cqInt, srsErr, coalCnt>>

\* the doorbell write that ends StartExecuteTask(s) and ExecuteDcmdRequest
Ring ==
    /\ ApiStep("ring")
    /\ doorbell' = doorbell \cup api.tasks
    /\ Return
    /\ UNCHANGED <<env, drvVars, isr, haltReq, hwHalt, clearReq, notif, hwReq, stuck, errField,
                   cqInt, srsErr, coalCnt, executed>>

\* SDIOHost_CQ_SetDirectCmdConfig
SetDirectCmdConfig(enable) ==
    /\ Call("dcmdcfg") /\ cqEnabled
    /\ Careful => InUse = {}
    /\ ~IsHwTaskPending(DcmdTask)
    /\ dcmdEnabled' = enable
    /\ currentReq' = IF enable THEN [currentReq EXCEPT ![DcmdTask] = NoReq] ELSE currentReq
    /\ currentDcmd' = IF enable THEN currentDcmd ELSE NoReq
    /\ UNCHANGED <<env, cqEnabled, cqHalted, coalEn, reqStat, desc, api, isr, hwVars>>

\* SDIOHost_CQ_SetIntCoalescingCfg: refused while a doorbell is set
SetIntCoalescingCfg(enable) ==
    /\ Call("coal") /\ cqEnabled
    /\ Careful => InUse = {}
    /\ doorbell = {}
    /\ coalEn' = enable
    /\ coalCnt' = (coalCnt /\ ~enable)
    /\ UNCHANGED <<env, cqEnabled, cqHalted, dcmdEnabled, currentReq, currentDcmd, reqStat, desc,
                   api, isr, haltReq, hwHalt, doorbell, clearReq, notif, hwReq, stuck,
                   errField, cqInt, srsErr, executed>>

\* SDIOHost_CQ_ResetIntCoalCounters
ResetIntCoalCounters ==
    /\ Call("coalReset") /\ cqEnabled
    /\ Careful => InUse = {}
    /\ coalCnt' = FALSE
    /\ UNCHANGED <<env, drvVars, api, isr, haltReq, hwHalt, doorbell, clearReq, notif, hwReq,
                   stuck, errField, cqInt, srsErr, executed>>

\* SDIOHost_CQ_Halt(1), alone or at the start of the two discards
HaltBegin(op, ts) ==
    /\ Call(op) /\ cqEnabled
    /\ (Careful /\ op = "halt") => ~cqHalted
    /\ haltReq' = TRUE
    /\ api' = [pc |-> "halt", op |-> op, tasks |-> ts, req |-> NoReq]
    /\ UNCHANGED <<env, drvVars, isr, hwHalt, doorbell, clearReq, notif, hwReq, stuck, errField,
                   cqInt, srsErr, coalCnt, executed>>

HaltSeen ==
    /\ ApiStep("halt") /\ hwHalt
    /\ Goto("haltSet")
    /\ UNCHANGED <<env, drvVars, isr, hwVars>>

\* WaitForValue gives up: the halt was too slow, or the handler revoked it
HaltTimeout ==
    /\ ApiStep("halt") /\ ~hwHalt
    /\ HaltTimeouts \/ ~haltReq
    /\ Return
    /\ UNCHANGED <<env, drvVars, isr, hwVars>>

HaltSet ==
    /\ ApiStep("haltSet")
    /\ cqHalted' = TRUE
    /\ IF api.op = "halt" THEN Return ELSE Goto(api.op)
    /\ UNCHANGED <<env, cqEnabled, dcmdEnabled, coalEn, currentReq, currentDcmd, reqStat, desc,
                   isr, hwVars>>

\* mutant: the flag of the driver still says halted
RestartKeepsFlag == /\ haltReq' = FALSE /\ hwHalt' = FALSE /\ stuck' = {}
                    /\ cqHalted' = cqHalted

\* SDIOHost_CQ_Halt(0): the engine restarts at once, so that the wait for it, which may end
\* with EIO and the flag still set, never does
Restart == /\ haltReq' = FALSE /\ hwHalt' = FALSE /\ stuck' = {}
           /\ cqHalted' = FALSE

Unhalt == /\ Restart
          /\ Return
          /\ UNCHANGED <<env, cqEnabled, dcmdEnabled, coalEn, currentReq, currentDcmd, reqStat,
                         desc, isr, doorbell, clearReq, notif, hwReq, errField, cqInt,
                         srsErr, coalCnt, executed>>

HaltEnd == /\ Call("halt") /\ cqEnabled
           /\ Careful => cqHalted
           /\ Unhalt

DiscardEnd == ApiStep("unhalt") /\ Unhalt

\* SDIOHost_CQ_TaskDiscard: a task whose doorbell is gone is left alone.  The
\* result of CQDeviceDiscardTask is ignored; TaskClear returns as soon as the
\* request bit reads back set, so the engine clears the task later.
DiscardTask ==
    /\ ApiStep("discard")
    /\ IF api.tasks \subseteq doorbell
       THEN clearReq' = clearReq \cup api.tasks /\ Goto("finish")
       ELSE clearReq' = clearReq /\ Goto("unhalt")
    /\ UNCHANGED <<env, drvVars, isr, haltReq, hwHalt, doorbell, notif, hwReq, stuck, errField,
                   cqInt, srsErr, coalCnt, executed>>

\* SDIOHost_CQ_AllTasksDiscard: when the device refuses CMD48 the function
\* returns and the engine stays halted
DiscardAllTasks ==
    /\ ApiStep("discardAll")
    /\ \/ clearReq' = clearReq /\ Return
       \/ clearReq' = Tasks /\ Goto("finish")
    /\ UNCHANGED <<env, drvVars, isr, haltReq, hwHalt, doorbell, notif, hwReq, stuck, errField,
                   cqInt, srsErr, coalCnt, executed>>

DiscardFinish ==
    /\ ApiStep("finish")
    /\ IF api.op = "discardAll"
       THEN Finish(ScannedTasks, dcmdEnabled, "FAILED")
       ELSE LET direct == dcmdEnabled /\ api.tasks = {DcmdTask}
            IN  Finish(IF direct THEN {} ELSE api.tasks, direct, "FAILED")
    /\ Goto("unhalt")
    /\ UNCHANGED <<env, cqEnabled, cqHalted, dcmdEnabled, coalEn, desc, isr, hwVars>>

ApiCall ==
    \/ Enable \/ Disable \/ ResetIntCoalCounters
    \/ \E r \in Requests, t \in Tasks : AttachCheck(r, t)
    \/ \E ts \in SUBSET Tasks \ {{}} : StartCheck(ts)
    \/ \E d \in DcmdRequests : DcmdCommit(d)
    \/ \E enable \in BOOLEAN : SetDirectCmdConfig(enable) \/ SetIntCoalescingCfg(enable)
    \/ \E t \in Tasks : HaltBegin("discard", {t})
    \/ HaltBegin("halt", {}) \/ HaltBegin("discardAll", {})
    \/ HaltEnd

ApiContinue ==
    \/ AttachReject \/ AttachCommit \/ StartMark \/ Ring
    \/ HaltSeen \/ HaltTimeout \/ HaltSet \/ DiscardEnd
    \/ DiscardTask \/ DiscardAllTasks \/ DiscardFinish

(***************************************************************************)
(* The interrupt handler: SDIOHost_InterruptHandler loops over SRS12 and   *)
(* calls SDIOHost_CheckInterrupt, which enters the command queuing path    *)
(* only while the queue is enabled and not halted.                         *)
(***************************************************************************)

IsrGoto(pc) == isr' = [isr EXCEPT !.pc = pc]
IsrAt(pc) == isr.pc = pc
CqPath == cqEnabled /\ ~cqHalted

IsrEnter ==
    /\ IsrAt("idle") /\ IrqLine
    /\ isr' = [IsrIdle EXCEPT !.pc = "dispatch"]
    /\ UNCHANGED <<env, drvVars, api, hwVars>>

\* one round of the loop.  Outside the command queuing path the error is
\* recovered by the ordinary engine and CQRS04 is left alone, so the loop
\* does not end while it is set.
IsrDispatch ==
    /\ IsrAt("dispatch")
    /\ \/ ~IrqLine /\ isr' = IsrIdle /\ srsErr' = srsErr
       \/ CqPath /\ srsErr /\ srsErr' = srsErr
            /\ isr' = [IsrIdle EXCEPT !.pc = "taskerr", !.err = "srs",
                                     !.ints = IF cqInt # {} THEN {"CQINT"} ELSE {}]
       \/ CqPath /\ ~srsErr /\ cqInt # {} /\ srsErr' = srsErr /\ IsrGoto("cqint")
       \/ ~CqPath /\ srsErr /\ srsErr' = FALSE /\ isr' = isr
    /\ UNCHANGED <<env, drvVars, api, haltReq, hwHalt, doorbell, clearReq, notif, hwReq, stuck,
                   errField, cqInt, coalCnt, executed>>

\* mutant: the engine is restarted after data errors only
IsrTaskErrorDataOnly ==
    /\ IsrAt("taskerr")
    /\ LET direct == IsDirectTask(errField.cmd)
           failed == (IF direct THEN {} ELSE {errField.cmd}) \cup {errField.data}
       IN  Finish(failed \cap Tasks, direct, "FAILED")
    /\ haltReq' = (haltReq \/ errField.data # NoTask)
    /\ isr' = [isr EXCEPT !.pc = IF errField.data # NoTask THEN "halt" ELSE "clearerr",
                          !.task = errField.data]
    /\ UNCHANGED <<env, cqEnabled, cqHalted, dcmdEnabled, coalEn, desc, api, hwHalt, doorbell,
                   clearReq, notif, stuck, hwReq, errField, cqInt, srsErr, coalCnt, executed>>

\* CheckTaskError and the start of CQErrorRecovery
IsrTaskError ==
    /\ IsrAt("taskerr")
    /\ LET direct == IsDirectTask(errField.cmd)
           failed == (IF direct THEN {} ELSE {errField.cmd}) \cup {errField.data}
       IN  Finish(failed \cap Tasks, direct, "FAILED")
    /\ haltReq' = TRUE
    /\ isr' = [isr EXCEPT !.pc = "halt", !.task = errField.data]
    /\ UNCHANGED <<env, cqEnabled, cqHalted, dcmdEnabled, coalEn, desc, api, hwHalt, doorbell,
                   clearReq, notif, hwReq, stuck, errField, cqInt, srsErr, coalCnt, executed>>

IsrHalted ==
    /\ IsrAt("halt") /\ hwHalt
    /\ cqHalted' = TRUE
    /\ IsrGoto("recover")
    /\ UNCHANGED <<env, cqEnabled, dcmdEnabled, coalEn, currentReq, currentDcmd, reqStat, desc,
                   api, hwVars>>

\* the recovery is skipped and the halt request stays written
IsrHaltTimeout ==
    /\ IsrAt("halt") /\ ~hwHalt /\ HaltTimeouts
    /\ IsrGoto("clearerr")
    /\ UNCHANGED <<env, drvVars, api, hwVars>>

\* ErrorRecovery clears SRS12 unless resetting the lines failed; after a data
\* error the task is also discarded and cleared
IsrRecover ==
    /\ IsrAt("recover")
    /\ srsErr' \in {FALSE, srsErr}
    /\ clearReq' = clearReq \cup ({isr.task} \cap Tasks)
    /\ IsrGoto("unhalt")
    /\ UNCHANGED <<env, drvVars, api, haltReq, hwHalt, doorbell, notif, hwReq, stuck, errField,
                   cqInt, coalCnt, executed>>

IsrUnhalt ==
    /\ IsrAt("unhalt")
    /\ PromptClear => clearReq = {}
    /\ Restart
    /\ IsrGoto("clearerr")
    /\ UNCHANGED <<env, cqEnabled, dcmdEnabled, coalEn, currentReq, currentDcmd, reqStat, desc,
                   api, doorbell, clearReq, notif, hwReq, errField, cqInt, srsErr, coalCnt,
                   executed>>

\* back from CQErrorRecovery to SDIOHost_CQ_CheckInterrupt or CheckCQInterrupt
IsrClearError ==
    /\ IsrAt("clearerr")
    /\ srsErr' = (srsErr /\ isr.err # "srs")
    /\ IsrGoto(CASE isr.err = "srs" /\ isr.ints # {} -> "cqint"
                 [] isr.err = "red" /\ "TCC" \in isr.ints -> "coal"
                 [] OTHER -> "dispatch")
    /\ UNCHANGED <<env, drvVars, api, haltReq, hwHalt, doorbell, clearReq, notif, hwReq, stuck,
                   errField, cqInt, coalCnt, executed>>

\* mutants: CQRS04 is not cleared; an error that comes with a completion is skipped
CqIntTo(next(_), left) ==
    /\ IsrAt("cqint")
    /\ cqInt' = left
    /\ isr' = [isr EXCEPT !.ints = cqInt, !.err = "red", !.pc = next(cqInt)]
    /\ UNCHANGED <<env, drvVars, api, haltReq, hwHalt, doorbell, clearReq, notif, hwReq, stuck,
                   errField, srsErr, coalCnt, executed>>
ErrorFirst(ints) == IF "RED" \in ints THEN "taskerr" ELSE "coal"
CompletionOnly(ints) == IF "TCC" \in ints THEN "coal" ELSE "taskerr"
IsrCqIntNotCleared == CqIntTo(ErrorFirst, cqInt)
IsrCqIntSkipsError == CqIntTo(CompletionOnly, {})

\* CheckCQInterrupt reads and clears CQRS04
IsrCqInt ==
    /\ IsrAt("cqint")
    /\ cqInt' = {}
    /\ isr' = [isr EXCEPT !.ints = cqInt, !.err = "red",
                          !.pc = CASE "RED" \in cqInt -> "taskerr"
                                   [] "RED" \notin cqInt /\ "TCC" \in cqInt -> "coal"
                                   [] OTHER -> "dispatch"]
    /\ UNCHANGED <<env, drvVars, api, haltReq, hwHalt, doorbell, clearReq, notif, hwReq, stuck,
                   errField, srsErr, coalCnt, executed>>

\* HandleInterruptCoalescing
IsrCoal ==
    /\ IsrAt("coal")
    /\ coalCnt' = (coalCnt /\ ~coalEn)
    /\ IsrGoto("complete")
    /\ UNCHANGED <<env, drvVars, api, haltReq, hwHalt, doorbell, clearReq, notif, hwReq, stuck,
                   errField, cqInt, srsErr, executed>>

\* CheckTaskCompletion reads CQRS11 and then clears the notifications it caught
IsrReadNotif ==
    /\ IsrAt("complete")
    /\ isr' = [isr EXCEPT !.pc = "finish", !.done = notif]
    /\ UNCHANGED <<env, drvVars, api, hwVars>>

\* mutants: every slot whose doorbell is clear is finished; CQRS04 is cleared
\* after CQRS11, not before
FinishWith(ts, ints) ==
    /\ IsrAt("finish")
    /\ notif' = notif \ isr.done
    /\ Finish(ts, dcmdEnabled /\ DcmdTask \in isr.done, "FINISHED")
    /\ cqInt' = ints
    /\ isr' = [IsrIdle EXCEPT !.pc = "dispatch"]
    /\ UNCHANGED <<env, cqEnabled, cqHalted, dcmdEnabled, coalEn, desc, api, haltReq, hwHalt,
                   doorbell, clearReq, hwReq, stuck, errField, srsErr, coalCnt, executed>>
IsrFinishByDoorbell == FinishWith(ScannedTasks \ doorbell, cqInt)
IsrFinishClearsLate == FinishWith(isr.done \cap ScannedTasks, {})

IsrFinish ==
    /\ IsrAt("finish")
    /\ notif' = notif \ isr.done
    /\ Finish(isr.done \cap ScannedTasks, dcmdEnabled /\ DcmdTask \in isr.done, "FINISHED")
    /\ isr' = [IsrIdle EXCEPT !.pc = "dispatch"]
    /\ UNCHANGED <<env, cqEnabled, cqHalted, dcmdEnabled, coalEn, desc, api, haltReq, hwHalt,
                   doorbell, clearReq, hwReq, stuck, errField, cqInt, srsErr, coalCnt, executed>>

IsrStep ==
    \/ IsrEnter \/ IsrDispatch \/ IsrTaskError \/ IsrHalted \/ IsrHaltTimeout
    \/ IsrRecover \/ IsrUnhalt \/ IsrClearError \/ IsrCqInt \/ IsrCoal
    \/ IsrReadNotif \/ IsrFinish

(***************************************************************************)
(* The engine and the device (external).  A task whose doorbell is set is  *)
(* fetched, queued in the device, executed and notified.  An error stops   *)
(* the task until the engine is restarted after a halt; a task that was    *)
(* not cleared is then taken up again.                                     *)
(***************************************************************************)

Running(t) == /\ cqEnabled /\ ~hwHalt
              /\ t \in doorbell \ (stuck \cup clearReq)

HwFetch(t) ==
    /\ Running(t) /\ hwReq[t] = NoReq
    /\ hwReq' = [hwReq EXCEPT ![t] = desc[t]]
    /\ UNCHANGED <<env, drvVars, api, isr, haltReq, hwHalt, doorbell, clearReq, notif, stuck,
                   errField, cqInt, srsErr, coalCnt, executed>>

\* with coalescing the completion may be counted instead of signalled
HwComplete(t) ==
    /\ Running(t) /\ hwReq[t] # NoReq
    /\ doorbell' = doorbell \ {t}
    /\ hwReq' = [hwReq EXCEPT ![t] = NoReq]
    /\ notif' = notif \cup {t}
    /\ executed' = executed \cup {hwReq[t]}
    /\ \/ cqInt' = cqInt \cup {"TCC"} /\ coalCnt' = coalCnt
       \/ coalEn /\ coalCnt' = TRUE /\ cqInt' = cqInt
    /\ UNCHANGED <<env, drvVars, api, isr, haltReq, hwHalt, clearReq, stuck, errField, srsErr>>

HwCoalTimer ==
    /\ coalCnt /\ cqEnabled
    /\ coalCnt' = FALSE
    /\ cqInt' = cqInt \cup {"TCC"}
    /\ UNCHANGED <<env, drvVars, api, isr, haltReq, hwHalt, doorbell, clearReq, notif, hwReq, stuck,
                   errField, srsErr, executed>>

\* CQRS21 names the command's task and, if one is in progress, the data task.
\* A bus error is seen in SRS12, an error response in CQRS04.
HwError(t) ==
    /\ Running(t)
    /\ \/ /\ "data" \in Errors /\ hwReq[t] \in Requests
          /\ errField' = [cmd |-> NoTask, data |-> t]
          /\ srsErr' = TRUE /\ cqInt' = cqInt
       \/ /\ {"cmd", "resp"} \cap Errors # {}
          /\ \E d \in {NoTask} \cup {u \in DevPending \ {t} : Running(u)} :
                errField' = [cmd |-> t, data |-> d]
          /\ \/ "cmd" \in Errors /\ srsErr' = TRUE /\ cqInt' = cqInt
             \/ "resp" \in Errors /\ cqInt' = cqInt \cup {"RED"} /\ srsErr' = srsErr
    /\ stuck' = stuck \cup {t}
    /\ UNCHANGED <<env, drvVars, api, isr, haltReq, hwHalt, doorbell, clearReq, notif, hwReq,
                   coalCnt, executed>>

HwHalt ==
    /\ haltReq /\ ~hwHalt
    /\ hwHalt' = TRUE
    /\ UNCHANGED <<env, drvVars, api, isr, haltReq, doorbell, clearReq, notif, hwReq, stuck,
                   errField, cqInt, srsErr, coalCnt, executed>>

\* the engine drops a task it was told to clear
HwClear(t) ==
    /\ t \in clearReq
    /\ clearReq' = clearReq \ {t}
    /\ doorbell' = doorbell \ {t}
    /\ hwReq' = [hwReq EXCEPT ![t] = NoReq]
    /\ UNCHANGED <<env, drvVars, api, isr, haltReq, hwHalt, notif, stuck, errField, cqInt, srsErr,
                   coalCnt, executed>>

HwStep ==
    \/ HwCoalTimer \/ HwHalt
    \/ \E t \in Tasks : HwFetch(t) \/ HwComplete(t) \/ HwError(t) \/ HwClear(t)

Next == ApiCall \/ ApiContinue \/ IsrStep \/ HwStep

Spec == Init /\ [][Next]_vars

\* The CPU runs a raised interrupt and a function that was called; the engine
\* serves every task that stays runnable again and again.
Fairness ==
    /\ WF_vars(ApiContinue) /\ WF_vars(IsrStep)
    /\ WF_vars(HwCoalTimer) /\ WF_vars(HwHalt)
    /\ \A t \in Tasks : WF_vars(HwClear(t)) /\ SF_vars(HwFetch(t)) /\ SF_vars(HwComplete(t))

FairSpec == Spec /\ Fairness

-----------------------------------------------------------------------------------
(***************************************************************************)
(* Properties.                                                             *)
(***************************************************************************)

\* Every variable keeps its type.
TypeOK ==
    /\ env \in Envs
    /\ cqEnabled \in BOOLEAN /\ cqHalted \in BOOLEAN
    /\ dcmdEnabled \in BOOLEAN /\ coalEn \in BOOLEAN
    /\ currentReq \in [Tasks -> Requests \cup {NoReq}]
    /\ currentDcmd \in DcmdRequests \cup {NoReq}
    /\ reqStat \in [AllReqs -> Stat]
    /\ desc \in [Tasks -> AllReqs \cup {NoReq}]
    /\ api \in ApiStates
    /\ isr \in IsrStates
    /\ haltReq \in BOOLEAN /\ hwHalt \in BOOLEAN
    /\ srsErr \in BOOLEAN /\ coalCnt \in BOOLEAN
    /\ doorbell \subseteq Tasks /\ clearReq \subseteq Tasks
    /\ notif \subseteq Tasks /\ stuck \subseteq Tasks
    /\ hwReq \in [Tasks -> AllReqs \cup {NoReq}]
    /\ errField \in [cmd : 0 .. NumTasks, data : 0 .. NumTasks]
    /\ cqInt \subseteq {"TCC", "RED"}
    /\ executed \subseteq AllReqs

\* Slot table and statuses agree: a slot holds only a request the driver owns
\* and no request sits in two slots.  FinishRequest relies on it: a slot it
\* empties is the only one through which the request could be touched again.
SlotsOwned ==
    /\ \A t \in Tasks : currentReq[t] # NoReq => currentReq[t] \in InUse
    /\ \A t, u \in Tasks : currentReq[t] = currentReq[u] => t = u \/ currentReq[t] = NoReq
    /\ currentDcmd # NoReq => reqStat[currentDcmd] = "PENDING"

\* No request of a careful client is orphaned: one whose status says ATTACHED or PENDING
\* is still reachable from a slot, so some later completion, error or discard ends it.
NoOrphan ==
    Careful => \A r \in InUse : currentDcmd = r \/ \E t \in Tasks : currentReq[t] = r

\* the thread has marked the requests but not yet rung the doorbell
Ringing == IF api.pc = "ring" THEN api.tasks ELSE {}
\* a discard has cleared the task and is about to answer its request
Discarding == IF api.pc # "finish" THEN {}
              ELSE IF api.op = "discardAll" THEN ScannedTasks \cup {DcmdTask} ELSE api.tasks

\* Interrupts are taken at once and a halt is in time; otherwise the driver may lose track
\* of the engine (README).
Timely == env.promptIrq /\ ~env.haltTimeouts

\* The engine and the slots keep in step: the client is careful, a task is cleared when the
\* driver goes on, only data errors occur, and no request is discarded whose completion is
\* counted and not yet signalled.  What each of them rules out is in the README.
Orderly == /\ Careful /\ Timely /\ PromptClear
           /\ Errors \subseteq {"data"}
           /\ ~({"coal", "discardAll"} \subseteq Ops)

\* A PENDING request is owed an answer: its doorbell is about to be rung, is
\* set, its completion notification waits to be read, or its discard is under way.
PendingIsOwed ==
    LET owing == Ringing \cup doorbell \cup notif \cup Discarding
    IN  Careful /\ PromptClear /\ (Orderly \/ "dcmd" \notin Ops) =>
            /\ \A t \in Tasks : IsRequestPending(t) => t \in owing
            /\ currentDcmd # NoReq => DcmdTask \in owing

\* No lost wake-up: while a careful client waits for a request that was executed and a
\* completion notification waits, an interrupt is raised, or counted and due, or the
\* handler is on its way to CQRS11.
NoLostWakeup ==
    Careful /\ cqEnabled /\ notif # {} /\ InUse \cap executed # {} =>
        \/ "TCC" \in cqInt \/ coalCnt
        \/ "TCC" \in isr.ints
        \/ isr.pc = "coal" \/ isr.pc = "complete"
        \/ isr.pc = "finish" /\ notif \subseteq isr.done

\* When the driver believes the engine halted it is: only then may it send
\* commands of its own and clear tasks.
HaltAgreement == Timely => (cqHalted /\ cqEnabled => hwHalt)

\* The request pointers StartExecuteTask(s) has checked are still there when
\* it writes PENDING through them.
StartSeesRequest ==
    Orderly /\ api.pc = "start" => \A t \in api.tasks : IsRequestAttached(t)

\* Every request that was started is answered.
PendingEnds == \A r \in AllReqs : reqStat[r] = "PENDING" ~> reqStat[r] # "PENDING"

\* The interrupt handler returns.
HandlerReturns == isr.pc # "idle" ~> isr.pc = "idle"

\* No error response is lost: while a task is stopped by one, an error interrupt is raised
\* or the handler is working on one until it restarts the engine.
ErrorIsReported ==
    Timely /\ Errors \subseteq {"resp"} /\ stuck # {} =>
        "RED" \in cqInt \/ isr.pc \in {"taskerr", "halt", "recover", "unhalt"}

(***************************************************************************)
(* What the client sees of a request implements CQRequest.                 *)
(***************************************************************************)
Abs == INSTANCE CQRequest WITH Reqs <- AllReqs, Direct <- DcmdRequests,
                               stat <- reqStat, ran <- executed
Refines == (Orderly => Abs!Init) /\ [][Orderly => Abs!Next]_(Abs!vars)
====
