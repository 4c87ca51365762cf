---------------------------------- MODULE CQProofs ----------------------------------
(***************************************************************************)
(* Proofs about CQ for every number of tasks, every client (careful or     *)
(* not), every error and every interrupt latency: type correctness and     *)
(* the ownership invariant SlotsOwned of the request slots; where          *)
(* interrupts are taken at once, the halt the driver believes in; and what *)
(* a careful client can rely on: no request is orphaned, no wake-up is     *)
(* lost, an error response is reported where interrupts are taken at once. *)
(* Then that requests are answered, and answered truly: where the engine   *)
(* and the slots keep in step (Orderly) a started request is the one that  *)
(* was attached and CQ implements CQRequest; a PENDING request is owed an  *)
(* answer under the weaker conditions of PendingIsOwed.                    *)
(***************************************************************************)
EXTENDS CQ, TLAPS, WellFoundedInduction

\* What the API thread has established at the places where it can be
\* interrupted: the request it is about to attach is still free, and it waits
\* for a halt only on behalf of a function that halts.
ThreadInv ==
    /\ api.pc = "attach" => /\ api.req \in Requests \ InUse
                            /\ \E t \in Tasks : api.tasks = {t}
    /\ api.pc \in {"halt", "haltSet"} => api.op \in {"halt", "discard", "discardAll"}

IInv == TypeOK /\ ThreadInv /\ SlotsOwned

LEMMA InitIInv == Init => IInv
<1> SUFFICES ASSUME Init PROVE IInv
  OBVIOUS
<1>1. TypeOK
  <2>1. NoTask \in 0 .. NumTasks
    BY NumTasksAssumption DEF NoTask
  <2>2. api \in ApiStates /\ isr \in IsrStates
    BY <2>1 DEF Init, ApiStates, IsrStates, ApiIdle, IsrIdle
  <2>3. errField \in [cmd : 0 .. NumTasks, data : 0 .. NumTasks]
    BY <2>1 DEF Init
  <2>4. reqStat \in [AllReqs -> Stat]
    BY DEF Init, Stat
  <2> QED
    BY <2>2, <2>3, <2>4 DEF Init, TypeOK
<1>2. ThreadInv
  BY DEF Init, ThreadInv, ApiIdle
<1>3. SlotsOwned
  BY DEF Init, SlotsOwned, InUse, Tasks
<1> QED
  BY <1>1, <1>2, <1>3 DEF IInv

-----------------------------------------------------------------------------------
(***************************************************************************)
(* Type correctness, one lemma for each of the three parties.              *)
(***************************************************************************)

LEMMA FinishTypes ==
    ASSUME TypeOK, NEW ts \in SUBSET Tasks, NEW dcmd \in BOOLEAN,
           NEW status \in Stat, Finish(ts, dcmd, status)
    PROVE  /\ reqStat' \in [AllReqs -> Stat]
           /\ currentReq' \in [Tasks -> Requests \cup {NoReq}]
           /\ currentDcmd' \in DcmdRequests \cup {NoReq}
  BY DEF TypeOK, Finish

LEMMA ApiCallTypes == ASSUME IInv, ApiCall PROVE TypeOK'
<1> USE NumTasksAssumption
<1>0. TypeOK
  BY DEF IInv
<1>1. CASE Enable
  BY <1>0, <1>1 DEF Enable, TypeOK
<1>2. CASE Disable
  BY <1>0, <1>2 DEF Disable, TypeOK
<1>3. CASE ResetIntCoalCounters
  BY <1>0, <1>3 DEF ResetIntCoalCounters, drvVars, TypeOK
<1>4. ASSUME NEW r \in Requests, NEW t \in Tasks, AttachCheck(r, t) PROVE TypeOK'
  <2>1. api' \in ApiStates
    BY <1>4 DEF AttachCheck, ApiStates, AllOps
  <2> QED
    BY <1>0, <1>4, <2>1 DEF AttachCheck, drvVars, hwVars, TypeOK
<1>5. ASSUME NEW ts \in SUBSET Tasks, StartCheck(ts) PROVE TypeOK'
  <2>1. api' \in ApiStates
    BY <1>5 DEF StartCheck, ApiStates, AllOps
  <2> QED
    BY <1>0, <1>5, <2>1 DEF StartCheck, drvVars, hwVars, TypeOK
<1>6. ASSUME NEW d \in DcmdRequests, DcmdCommit(d) PROVE TypeOK'
  <2>1. api' \in ApiStates
    BY <1>6 DEF DcmdCommit, ApiStates, AllOps, Tasks, DcmdTask
  <2> QED
    BY <1>0, <1>6, <2>1 DEF DcmdCommit, TypeOK, AllReqs, Stat
<1>7. ASSUME NEW enable \in BOOLEAN, SetDirectCmdConfig(enable) PROVE TypeOK'
  BY <1>0, <1>7 DEF SetDirectCmdConfig, hwVars, TypeOK
<1>8. ASSUME NEW enable \in BOOLEAN, SetIntCoalescingCfg(enable) PROVE TypeOK'
  BY <1>0, <1>8 DEF SetIntCoalescingCfg, TypeOK
<1>9. ASSUME NEW op \in {"halt", "discard", "discardAll"}, NEW ts \in SUBSET Tasks,
             HaltBegin(op, ts)
      PROVE  TypeOK'
  <2>1. api' \in ApiStates
    BY <1>9 DEF HaltBegin, ApiStates, AllOps
  <2> QED
    BY <1>0, <1>9, <2>1 DEF HaltBegin, drvVars, TypeOK
<1>10. CASE HaltEnd
  <2>1. api' \in ApiStates
    BY <1>10 DEF HaltEnd, Unhalt, Return, ApiIdle, ApiStates
  <2> QED
    BY <1>0, <1>10, <2>1 DEF HaltEnd, Unhalt, Restart, TypeOK
<1> QED
  BY <1>1, <1>2, <1>3, <1>4, <1>5, <1>6, <1>7, <1>8, <1>9, <1>10 DEF ApiCall

LEMMA ApiContinueTypes == ASSUME IInv, ApiContinue PROVE TypeOK'
<1> USE NumTasksAssumption
<1>0. TypeOK /\ ThreadInv
  BY DEF IInv
<1>a. ApiIdle \in ApiStates
  BY DEF ApiIdle, ApiStates
<1>b. ASSUME NEW pc \in {"ring", "haltSet", "discard", "discardAll", "finish", "unhalt"},
             Goto(pc)
      PROVE  api' \in ApiStates
  BY <1>0, <1>b DEF Goto, TypeOK, ApiStates
<1>1. CASE AttachReject
  BY <1>0, <1>1, <1>a DEF AttachReject, Return, hwVars, TypeOK, Stat
<1>2. CASE AttachCommit
  <2>1. api.req \in Requests /\ api.tasks \in SUBSET Tasks
    BY <1>0, <1>2 DEF AttachCommit, ApiStep, ThreadInv, TypeOK, ApiStates
  <2>2. desc' \in [Tasks -> AllReqs \cup {NoReq}]
    BY <1>0, <1>2, <2>1 DEF AttachCommit, TypeOK, AllReqs
  <2>3. currentReq' \in [Tasks -> Requests \cup {NoReq}]
    BY <1>0, <1>2, <2>1 DEF AttachCommit, TypeOK
  <2> QED
    BY <1>0, <1>2, <1>a, <2>2, <2>3 DEF AttachCommit, Return, TypeOK, Stat
<1>3. CASE StartMark
  <2>1. reqStat' \in [AllReqs -> Stat]
    BY <1>0, <1>3 DEF StartMark, TypeOK, Stat
  <2>2. api' \in ApiStates
    BY <1>3, <1>b DEF StartMark
  <2> QED
    BY <1>0, <1>3, <2>1, <2>2 DEF StartMark, hwVars, TypeOK
<1>4. CASE Ring
  <2>1. doorbell' \subseteq Tasks
    BY <1>0, <1>4 DEF Ring, TypeOK, ApiStates
  <2> QED
    BY <1>0, <1>4, <1>a, <2>1 DEF Ring, Return, drvVars, TypeOK
<1>5. CASE HaltSeen
  BY <1>0, <1>5, <1>b DEF HaltSeen, drvVars, hwVars, TypeOK
<1>6. CASE HaltTimeout
  BY <1>0, <1>6, <1>a DEF HaltTimeout, Return, drvVars, hwVars, TypeOK
<1>7. CASE HaltSet
  <2>1. api.op \in {"halt", "discard", "discardAll"}
    BY <1>0, <1>7 DEF HaltSet, ApiStep, ThreadInv
  <2>2. api' \in ApiStates
    BY <1>7, <1>a, <1>b, <2>1 DEF HaltSet, Return
  <2> QED
    BY <1>0, <1>7, <2>2 DEF HaltSet, hwVars, TypeOK
<1>8. CASE DiscardEnd
  BY <1>0, <1>8, <1>a DEF DiscardEnd, Unhalt, Restart, Return, TypeOK
<1>9. CASE DiscardTask
  <2>1. api' \in ApiStates
    BY <1>9, <1>b DEF DiscardTask
  <2>2. clearReq' \subseteq Tasks
    BY <1>0, <1>9 DEF DiscardTask, TypeOK, ApiStates
  <2> QED
    BY <1>0, <1>9, <2>1, <2>2 DEF DiscardTask, drvVars, TypeOK
<1>10. CASE DiscardAllTasks
  <2>1. api' \in ApiStates
    BY <1>10, <1>a, <1>b DEF DiscardAllTasks, Return
  <2> QED
    BY <1>0, <1>10, <2>1 DEF DiscardAllTasks, drvVars, TypeOK
<1>11. CASE DiscardFinish
  <2>1. api' \in ApiStates
    BY <1>11, <1>b DEF DiscardFinish
  <2>2. PICK ts \in SUBSET Tasks, dcmd \in BOOLEAN : Finish(ts, dcmd, "FAILED")
    <3>1. api.tasks \in SUBSET Tasks /\ ScannedTasks \in SUBSET Tasks
      BY <1>0, DepthAssumption DEF TypeOK, ApiStates, ScannedTasks, Tasks
    <3> QED
      BY <1>0, <1>11, <3>1 DEF DiscardFinish, TypeOK
  <2>3. /\ reqStat' \in [AllReqs -> Stat]
        /\ currentReq' \in [Tasks -> Requests \cup {NoReq}]
        /\ currentDcmd' \in DcmdRequests \cup {NoReq}
    BY <1>0, <2>2, FinishTypes DEF Stat
  <2> QED
    BY <1>0, <1>11, <2>1, <2>3 DEF DiscardFinish, hwVars, TypeOK
<1> QED
  BY <1>1, <1>2, <1>3, <1>4, <1>5, <1>6, <1>7, <1>8, <1>9, <1>10, <1>11 DEF ApiContinue

LEMMA IsrStepTypes == ASSUME IInv, IsrStep PROVE TypeOK'
<1>0. TypeOK
  BY DEF IInv
<1> DEFINE Pcs == {"idle", "dispatch", "taskerr", "halt", "recover", "unhalt", "clearerr",
                   "cqint", "coal", "complete", "finish"}
<1>a. IsrIdle \in IsrStates /\ [IsrIdle EXCEPT !.pc = "dispatch"] \in IsrStates
  <2>1. NoTask \in 0 .. NumTasks
    BY NumTasksAssumption DEF NoTask
  <2> QED
    BY <2>1 DEF IsrIdle, IsrStates
<1>b. ASSUME NEW pc \in Pcs, IsrGoto(pc) PROVE isr' \in IsrStates
  BY <1>0, <1>b DEF IsrGoto, TypeOK, IsrStates
<1>1. CASE IsrEnter
  BY <1>0, <1>1, <1>a DEF IsrEnter, drvVars, hwVars, TypeOK
<1>2. CASE IsrDispatch
  <2>1. [IsrIdle EXCEPT !.pc = "taskerr", !.err = "srs",
                       !.ints = IF cqInt # {} THEN {"CQINT"} ELSE {}] \in IsrStates
    BY <1>a DEF IsrIdle, IsrStates
  <2>2. isr' \in IsrStates /\ srsErr' \in BOOLEAN
    BY <1>0, <1>2, <1>a, <1>b, <2>1 DEF IsrDispatch, TypeOK
  <2> QED
    BY <1>0, <1>2, <2>2 DEF IsrDispatch, drvVars, TypeOK
<1>3. CASE IsrTaskError
  <2>1. PICK ts \in SUBSET Tasks, dcmd \in BOOLEAN : Finish(ts, dcmd, "FAILED")
    BY <1>0, <1>3 DEF IsrTaskError, TypeOK, IsDirectTask
  <2>2. /\ reqStat' \in [AllReqs -> Stat]
        /\ currentReq' \in [Tasks -> Requests \cup {NoReq}]
        /\ currentDcmd' \in DcmdRequests \cup {NoReq}
    BY <1>0, <2>1, FinishTypes DEF Stat
  <2>3. isr' \in IsrStates
    BY <1>0, <1>3 DEF IsrTaskError, TypeOK, IsrStates
  <2> QED
    BY <1>0, <1>3, <2>2, <2>3 DEF IsrTaskError, TypeOK
<1>4. CASE IsrHalted
  BY <1>0, <1>4, <1>b DEF IsrHalted, hwVars, TypeOK
<1>5. CASE IsrHaltTimeout
  BY <1>0, <1>5, <1>b DEF IsrHaltTimeout, drvVars, hwVars, TypeOK
<1>6. CASE IsrRecover
  BY <1>0, <1>6, <1>b DEF IsrRecover, drvVars, TypeOK
<1>7. CASE IsrUnhalt
  BY <1>0, <1>7, <1>b DEF IsrUnhalt, Restart, TypeOK
<1>8. CASE IsrClearError
  <2>1. isr' \in IsrStates
    BY <1>8, <1>b DEF IsrClearError
  <2> QED
    BY <1>0, <1>8, <2>1 DEF IsrClearError, drvVars, TypeOK
<1>9. CASE IsrCqInt
  <2>1. isr' \in IsrStates
    BY <1>0, <1>9 DEF IsrCqInt, TypeOK, IsrStates
  <2> QED
    BY <1>0, <1>9, <2>1 DEF IsrCqInt, drvVars, TypeOK
<1>10. CASE IsrCoal
  BY <1>0, <1>10, <1>b DEF IsrCoal, drvVars, TypeOK
<1>11. CASE IsrReadNotif
  <2>1. isr' \in IsrStates
    BY <1>0, <1>11 DEF IsrReadNotif, TypeOK, IsrStates
  <2> QED
    BY <1>0, <1>11, <2>1 DEF IsrReadNotif, drvVars, hwVars, TypeOK
<1>12. CASE IsrFinish
  <2>1. PICK ts \in SUBSET Tasks, dcmd \in BOOLEAN : Finish(ts, dcmd, "FINISHED")
    <3>1. isr.done \cap ScannedTasks \in SUBSET Tasks
      BY <1>0 DEF TypeOK, IsrStates
    <3> QED
      BY <1>0, <1>12, <3>1 DEF IsrFinish, TypeOK
  <2>2. /\ reqStat' \in [AllReqs -> Stat]
        /\ currentReq' \in [Tasks -> Requests \cup {NoReq}]
        /\ currentDcmd' \in DcmdRequests \cup {NoReq}
    BY <1>0, <2>1, FinishTypes DEF Stat
  <2> QED
    BY <1>0, <1>12, <1>a, <2>2 DEF IsrFinish, TypeOK
<1> QED
  BY <1>1, <1>2, <1>3, <1>4, <1>5, <1>6, <1>7, <1>8, <1>9, <1>10, <1>11, <1>12 DEF IsrStep

LEMMA HwStepTypes == ASSUME IInv, HwStep PROVE TypeOK'
<1>0. TypeOK
  BY DEF IInv
<1>1. CASE HwCoalTimer
  BY <1>0, <1>1 DEF HwCoalTimer, drvVars, TypeOK
<1>2. CASE HwHalt
  BY <1>0, <1>2 DEF HwHalt, drvVars, TypeOK
<1>3. ASSUME NEW t \in Tasks, HwFetch(t) PROVE TypeOK'
  BY <1>0, <1>3 DEF HwFetch, drvVars, TypeOK
<1>4. ASSUME NEW t \in Tasks, HwComplete(t) PROVE TypeOK'
  <2>1. hwReq[t] \in AllReqs
    BY <1>0, <1>4 DEF HwComplete, TypeOK
  <2>2. hwReq' \in [Tasks -> AllReqs \cup {NoReq}]
    BY <1>0, <1>4 DEF HwComplete, TypeOK
  <2>3. cqInt' \subseteq {"TCC", "RED"} /\ coalCnt' \in BOOLEAN
    BY <1>0, <1>4 DEF HwComplete, TypeOK
  <2> QED
    BY <1>0, <1>4, <2>1, <2>2, <2>3 DEF HwComplete, drvVars, TypeOK
<1>5. ASSUME NEW t \in Tasks, HwError(t) PROVE TypeOK'
  <2>1. Tasks \cup {NoTask} = 0 .. NumTasks
    BY NumTasksAssumption DEF Tasks, NoTask
  <2>2. errField' \in [cmd : 0 .. NumTasks, data : 0 .. NumTasks]
    BY <1>5, <2>1 DEF HwError, DevPending
  <2>3. cqInt' \subseteq {"TCC", "RED"} /\ srsErr' \in BOOLEAN
    BY <1>0, <1>5 DEF HwError, TypeOK
  <2> QED
    BY <1>0, <1>5, <2>2, <2>3 DEF HwError, drvVars, TypeOK
<1>6. ASSUME NEW t \in Tasks, HwClear(t) PROVE TypeOK'
  BY <1>0, <1>6 DEF HwClear, drvVars, TypeOK
<1> QED
  BY <1>1, <1>2, <1>3, <1>4, <1>5, <1>6 DEF HwStep

LEMMA NextTypes == ASSUME IInv, [Next]_vars PROVE TypeOK'
<1>1. CASE UNCHANGED vars
  BY <1>1 DEF IInv, TypeOK, vars, drvVars, hwVars
<1> QED
  BY <1>1, ApiCallTypes, ApiContinueTypes, IsrStepTypes, HwStepTypes DEF Next

-----------------------------------------------------------------------------------
(***************************************************************************)
(* Ownership of the request slots.  Only FinishRequest empties a slot, so  *)
(* what it preserves comes first; then what the handler and the engine can *)
(* do to the slot table, and then one step for every function of the API.  *)
(***************************************************************************)

FinishSome == \E ts \in SUBSET Tasks, dcmd \in BOOLEAN, status \in {"FINISHED", "FAILED"} :
                 Finish(ts, dcmd, status)

\* Answering some slots leaves the others owned and takes no request over.
LEMMA FinishOwned ==
    ASSUME TypeOK, SlotsOwned, FinishSome
    PROVE  SlotsOwned' /\ InUse' \subseteq InUse
<1>1. PICK ts \in SUBSET Tasks, dcmd \in BOOLEAN, status \in {"FINISHED", "FAILED"} :
         Finish(ts, dcmd, status)
  BY DEF FinishSome
<1> DEFINE done == {currentReq[t] : t \in ts} \cup (IF dcmd THEN {currentDcmd} ELSE {})
<1>2. reqStat' = [r \in AllReqs |-> IF r \in done THEN status ELSE reqStat[r]]
  BY <1>1 DEF Finish
<1>3. currentReq' = [t \in Tasks |-> IF t \in ts THEN NoReq ELSE currentReq[t]]
  BY <1>1 DEF Finish
<1>4. currentDcmd' = IF dcmd THEN NoReq ELSE currentDcmd
  BY <1>1 DEF Finish
<1>5. InUse' \subseteq InUse
  BY <1>1, <1>2 DEF InUse
<1>6. ASSUME NEW t \in Tasks, currentReq'[t] # NoReq
      PROVE  t \notin ts /\ currentReq'[t] = currentReq[t] /\ currentReq[t] \in InUse'
  <2>1. t \notin ts /\ currentReq'[t] = currentReq[t]
    BY <1>3, <1>6
  <2>2. currentReq[t] \in Requests /\ currentReq[t] \in InUse
    BY <1>6, <2>1 DEF TypeOK, SlotsOwned
  <2>3. \A u \in ts : currentReq[u] # currentReq[t]
    BY <1>6, <2>1 DEF SlotsOwned
  <2>4. currentDcmd # currentReq[t]
    BY <2>2, RequestsAssumption DEF TypeOK, AllReqs
  <2>5. currentReq[t] \notin done
    BY <2>3, <2>4
  <2> HIDE DEF done
  <2> QED
    BY <1>2, <2>1, <2>2, <2>5 DEF InUse
<1>7. ASSUME NEW t \in Tasks, NEW u \in Tasks, currentReq'[t] = currentReq'[u]
      PROVE  t = u \/ currentReq'[t] = NoReq
  BY <1>6, <1>7 DEF SlotsOwned
<1>8. ASSUME currentDcmd' # NoReq PROVE reqStat'[currentDcmd'] = "PENDING"
  <2>1. ~dcmd /\ currentDcmd' = currentDcmd /\ currentDcmd \in DcmdRequests
    BY <1>4, <1>8 DEF TypeOK
  <2>2. currentDcmd \notin done
    <3>1. done \subseteq Requests \cup {NoReq}
      BY <2>1 DEF TypeOK
    <3> HIDE DEF done
    <3> QED
      BY <2>1, <3>1, RequestsAssumption DEF AllReqs
  <2> HIDE DEF done
  <2> QED
    BY <1>2, <1>8, <2>1, <2>2 DEF SlotsOwned, AllReqs
<1> QED
  BY <1>5, <1>6, <1>7, <1>8 DEF SlotsOwned

\* The handler and the engine leave the thread where it is, and touch the slot
\* table only by answering requests.
LEMMA IsrOrHwFinishes ==
    ASSUME IInv, IsrStep \/ HwStep
    PROVE  /\ api' = api
           /\ FinishSome \/ UNCHANGED <<currentReq, currentDcmd, reqStat>>
<1>0. TypeOK
  BY DEF IInv
<1>1. CASE IsrTaskError
  <2>1. FinishSome
    BY <1>0, <1>1 DEF IsrTaskError, FinishSome, TypeOK, IsDirectTask
  <2> QED
    BY <1>1, <2>1 DEF IsrTaskError
<1>2. CASE IsrFinish
  <2>1. isr.done \cap ScannedTasks \in SUBSET Tasks
    BY <1>0 DEF TypeOK, IsrStates
  <2>2. FinishSome
    BY <1>0, <1>2, <2>1 DEF IsrFinish, FinishSome, TypeOK
  <2> QED
    BY <1>2, <2>2 DEF IsrFinish
<1>3. CASE IsrEnter \/ IsrDispatch \/ IsrHalted \/ IsrHaltTimeout
  BY <1>3 DEF IsrEnter, IsrDispatch, IsrHalted, IsrHaltTimeout, drvVars
<1>4. CASE IsrRecover \/ IsrUnhalt \/ IsrClearError \/ IsrCqInt
  BY <1>4 DEF IsrRecover, IsrUnhalt, IsrClearError, IsrCqInt, Restart, drvVars
<1>5. CASE IsrCoal \/ IsrReadNotif
  BY <1>5 DEF IsrCoal, IsrReadNotif, drvVars
<1>6. CASE HwStep
  BY <1>6 DEF HwStep, HwCoalTimer, HwHalt, HwFetch, HwComplete, HwError, HwClear, drvVars
<1> QED
  BY <1>1, <1>2, <1>3, <1>4, <1>5, <1>6 DEF IsrStep

LEMMA ApiCallSlots == ASSUME IInv, ApiCall PROVE ThreadInv' /\ SlotsOwned'
<1>0. TypeOK /\ ThreadInv /\ SlotsOwned
  BY DEF IInv
<1>a. ASSUME UNCHANGED <<currentReq, currentDcmd, reqStat>>
      PROVE  SlotsOwned' /\ InUse' = InUse
  BY <1>0, <1>a DEF SlotsOwned, InUse
<1>1. CASE Enable \/ Disable \/ ResetIntCoalCounters
  <2>1. UNCHANGED <<currentReq, currentDcmd, reqStat, api>>
    BY <1>1 DEF Enable, Disable, ResetIntCoalCounters, drvVars
  <2> QED
    BY <1>0, <1>a, <2>1 DEF ThreadInv
<1>2. ASSUME NEW r \in Requests, NEW t \in Tasks, AttachCheck(r, t)
      PROVE  ThreadInv' /\ SlotsOwned'
  <2>1. UNCHANGED <<currentReq, currentDcmd, reqStat>>
    BY <1>2 DEF AttachCheck, drvVars
  <2>2. r \notin InUse'
    BY <1>2, <1>a, <2>1 DEF AttachCheck
  <2> QED
    BY <1>2, <1>a, <2>1, <2>2 DEF AttachCheck, ThreadInv
<1>3. ASSUME NEW ts \in SUBSET Tasks, StartCheck(ts) PROVE ThreadInv' /\ SlotsOwned'
  BY <1>3, <1>a DEF StartCheck, drvVars, ThreadInv
<1>4. ASSUME NEW d \in DcmdRequests, DcmdCommit(d) PROVE ThreadInv' /\ SlotsOwned'
  <2>1. ThreadInv'
    BY <1>4 DEF DcmdCommit, ThreadInv
  <2>2. \A t \in Tasks : currentReq[t] # d
    BY <1>0, RequestsAssumption DEF TypeOK, AllReqs
  <2>3. reqStat' = [reqStat EXCEPT ![d] = "PENDING"] /\ currentReq' = currentReq
        /\ currentDcmd' = d
    BY <1>4 DEF DcmdCommit
  <2> QED
    BY <1>0, <2>1, <2>2, <2>3 DEF SlotsOwned, InUse, TypeOK, AllReqs
<1>5. ASSUME NEW enable \in BOOLEAN, SetDirectCmdConfig(enable)
      PROVE  ThreadInv' /\ SlotsOwned'
  <2>1. reqStat' = reqStat /\ api' = api
    BY <1>5 DEF SetDirectCmdConfig
  <2>2. InUse' = InUse
    BY <2>1 DEF InUse
  <2>3. \A t \in Tasks : currentReq'[t] \in {currentReq[t], NoReq}
    BY <1>0, <1>5 DEF SetDirectCmdConfig, TypeOK
  <2>4. currentDcmd' \in {currentDcmd, NoReq}
    BY <1>5 DEF SetDirectCmdConfig
  <2>5. SlotsOwned'
    BY <1>0, <2>1, <2>2, <2>3, <2>4 DEF SlotsOwned
  <2> QED
    BY <1>0, <2>1, <2>2, <2>5 DEF ThreadInv
<1>6. ASSUME NEW enable \in BOOLEAN, SetIntCoalescingCfg(enable)
      PROVE  ThreadInv' /\ SlotsOwned'
  <2>1. UNCHANGED <<currentReq, currentDcmd, reqStat, api>>
    BY <1>6 DEF SetIntCoalescingCfg
  <2> QED
    BY <1>0, <1>a, <2>1 DEF ThreadInv
<1>7. ASSUME NEW op \in {"halt", "discard", "discardAll"}, NEW ts \in SUBSET Tasks,
             HaltBegin(op, ts)
      PROVE  ThreadInv' /\ SlotsOwned'
  BY <1>7, <1>a DEF HaltBegin, drvVars, ThreadInv
<1>8. CASE HaltEnd
  BY <1>8, <1>a DEF HaltEnd, Unhalt, Return, ApiIdle, ThreadInv
<1> QED
  BY <1>1, <1>2, <1>3, <1>4, <1>5, <1>6, <1>7, <1>8 DEF ApiCall

LEMMA ApiContinueSlots == ASSUME IInv, ApiContinue PROVE ThreadInv' /\ SlotsOwned'
<1>0. TypeOK /\ ThreadInv /\ SlotsOwned
  BY DEF IInv
<1>a. ASSUME UNCHANGED <<currentReq, currentDcmd, reqStat>>
      PROVE  SlotsOwned' /\ InUse' = InUse
  BY <1>0, <1>a DEF SlotsOwned, InUse
<1>1. CASE AttachReject
  <2>1. api.req \in Requests \ InUse
    BY <1>0, <1>1 DEF AttachReject, ApiStep, ThreadInv
  <2>2. reqStat' = [reqStat EXCEPT ![api.req] = "FAILED"] /\ currentReq' = currentReq
        /\ currentDcmd' = currentDcmd
    BY <1>1 DEF AttachReject
  <2>3. currentDcmd # api.req
    BY <1>0, <2>1, RequestsAssumption DEF TypeOK, AllReqs
  <2>4. SlotsOwned'
    BY <1>0, <2>1, <2>2, <2>3 DEF SlotsOwned, InUse, TypeOK, AllReqs
  <2> QED
    BY <1>1, <2>4 DEF AttachReject, Return, ApiIdle, ThreadInv
<1>2. CASE AttachCommit
  <2>1. api.req \in Requests \ InUse /\ \E t \in Tasks : api.tasks = {t}
    BY <1>0, <1>2 DEF AttachCommit, ApiStep, ThreadInv
  <2>2. PICK t \in Tasks : api.tasks = {t}
    BY <2>1
  <2>3. currentReq' = [u \in Tasks |-> IF u = t THEN api.req ELSE currentReq[u]]
    BY <1>2, <2>2 DEF AttachCommit
  <2>4. reqStat' = [reqStat EXCEPT ![api.req] = "ATTACHED"] /\ currentDcmd' = currentDcmd
    BY <1>2 DEF AttachCommit
  <2>5. InUse' = InUse \cup {api.req}
    BY <1>0, <2>1, <2>4 DEF InUse, TypeOK, AllReqs
  <2>6. \A u \in Tasks : currentReq[u] # api.req
    BY <1>0, <2>1, RequestsAssumption DEF SlotsOwned, AllReqs
  <2>7. currentDcmd # api.req
    BY <1>0, <2>1, RequestsAssumption DEF TypeOK, AllReqs
  <2>8. currentDcmd' # NoReq => reqStat'[currentDcmd'] = "PENDING"
    BY <1>0, <2>4, <2>7 DEF SlotsOwned, TypeOK, AllReqs
  <2>9. \A u \in Tasks : currentReq'[u] # NoReq => currentReq'[u] \in InUse'
    BY <1>0, <2>3, <2>5 DEF SlotsOwned
  <2>10. \A u, v \in Tasks : currentReq'[u] = currentReq'[v]
                               => u = v \/ currentReq'[u] = NoReq
    BY <1>0, <2>3, <2>6 DEF SlotsOwned
  <2> QED
    BY <1>2, <2>8, <2>9, <2>10 DEF AttachCommit, Return, ApiIdle, ThreadInv, SlotsOwned
<1>3. CASE StartMark
  <2>1. reqStat' = [r \in AllReqs |->
                 IF \E t \in api.tasks : currentReq[t] = r THEN "PENDING" ELSE reqStat[r]]
    BY <1>3 DEF StartMark
  <2>2. currentReq' = currentReq /\ currentDcmd' = currentDcmd
    BY <1>3 DEF StartMark
  <2>3. InUse \subseteq InUse'
    BY <2>1 DEF InUse
  <2>4. currentDcmd # NoReq => reqStat'[currentDcmd] = "PENDING"
    BY <1>0, <2>1 DEF SlotsOwned, TypeOK, AllReqs
  <2>5. SlotsOwned'
    BY <1>0, <2>2, <2>3, <2>4 DEF SlotsOwned
  <2> QED
    BY <1>3, <2>5 DEF StartMark, Goto, ThreadInv
<1>4. CASE Ring
  BY <1>4, <1>a DEF Ring, drvVars, Return, ApiIdle, ThreadInv
<1>5. CASE HaltSeen
  <2>1. api.op \in {"halt", "discard", "discardAll"}
    BY <1>0, <1>5 DEF HaltSeen, ApiStep, ThreadInv
  <2>2. api' = [api EXCEPT !.pc = "haltSet"]
    BY <1>5 DEF HaltSeen, Goto
  <2>3. api'.pc = "haltSet" /\ api'.op = api.op
    BY <1>0, <2>2 DEF TypeOK, ApiStates
  <2> QED
    BY <1>5, <1>a, <2>1, <2>3 DEF HaltSeen, drvVars, ThreadInv
<1>6. CASE HaltTimeout
  BY <1>6, <1>a DEF HaltTimeout, drvVars, Return, ApiIdle, ThreadInv
<1>7. CASE HaltSet
  <2>1. api.op \in {"halt", "discard", "discardAll"}
    BY <1>0, <1>7 DEF HaltSet, ApiStep, ThreadInv
  <2>2. api'.pc \in {"idle", "discard", "discardAll"}
    BY <1>0, <1>7, <2>1 DEF HaltSet, Return, Goto, ApiIdle, TypeOK, ApiStates
  <2> QED
    BY <1>7, <1>a, <2>2 DEF HaltSet, ThreadInv
<1>8. CASE DiscardEnd
  BY <1>8, <1>a DEF DiscardEnd, Unhalt, Return, ApiIdle, ThreadInv
<1>9. CASE DiscardTask
  <2>1. api'.pc \in {"finish", "unhalt"}
    BY <1>0, <1>9 DEF DiscardTask, Goto, TypeOK, ApiStates
  <2> QED
    BY <1>9, <1>a, <2>1 DEF DiscardTask, drvVars, ThreadInv
<1>10. CASE DiscardAllTasks
  <2>1. api'.pc \in {"idle", "finish"}
    BY <1>0, <1>10 DEF DiscardAllTasks, Goto, Return, ApiIdle, TypeOK, ApiStates
  <2> QED
    BY <1>10, <1>a, <2>1 DEF DiscardAllTasks, drvVars, ThreadInv
<1>11. CASE DiscardFinish
  <2>1. FinishSome
    <3>1. api.tasks \in SUBSET Tasks /\ ScannedTasks \in SUBSET Tasks
      BY <1>0, DepthAssumption, NumTasksAssumption
         DEF TypeOK, ApiStates, ScannedTasks, Tasks
    <3> QED
      BY <1>0, <1>11, <3>1 DEF DiscardFinish, FinishSome, TypeOK
  <2>2. SlotsOwned'
    BY <1>0, <2>1, FinishOwned
  <2>3. api'.pc = "unhalt"
    BY <1>0, <1>11 DEF DiscardFinish, Goto, TypeOK, ApiStates
  <2> QED
    BY <2>2, <2>3 DEF ThreadInv
<1> QED
  BY <1>1, <1>2, <1>3, <1>4, <1>5, <1>6, <1>7, <1>8, <1>9, <1>10, <1>11 DEF ApiContinue

LEMMA NextSlots == ASSUME IInv, [Next]_vars PROVE ThreadInv' /\ SlotsOwned'
<1>0. TypeOK /\ ThreadInv /\ SlotsOwned
  BY DEF IInv
<1>a. ASSUME UNCHANGED <<currentReq, currentDcmd, reqStat, api>>
      PROVE  ThreadInv' /\ SlotsOwned'
  BY <1>0, <1>a DEF ThreadInv, SlotsOwned, InUse
<1>1. CASE UNCHANGED vars
  BY <1>1, <1>a DEF vars, drvVars
<1>2. CASE IsrStep \/ HwStep
  <2>1. api' = api /\ (FinishSome \/ UNCHANGED <<currentReq, currentDcmd, reqStat>>)
    BY <1>2, IsrOrHwFinishes
  <2>2. CASE FinishSome
    BY <1>0, <2>1, <2>2, FinishOwned DEF ThreadInv
  <2> QED
    BY <1>a, <2>1, <2>2
<1> QED
  BY <1>1, <1>2, ApiCallSlots, ApiContinueSlots DEF Next

\* IInv is inductive: the handler and the functions of sdio_cq.c keep it together,
\* none of its parts alone.
THEOREM Inductive == Spec => []IInv
<1>1. IInv /\ [Next]_vars => IInv'
  BY NextTypes, NextSlots DEF IInv
<1> QED
  BY InitIInv, <1>1, PTL DEF Spec

-----------------------------------------------------------------------------------
(***************************************************************************)
(* The theorems.                                                           *)
(***************************************************************************)

\* Whatever the client, the device and the interrupts do, the driver's flags,
\* slots and statuses and the registers keep their types (sdio_cq.c, all of it).
THEOREM TypeCorrect == Spec => []TypeOK
  BY Inductive, PTL DEF IInv

\* The slots own their requests: FinishRequest (sdio_cq.c) never leaves a second
\* slot that leads to a request it has given back to the client.
THEOREM Ownership == Spec => []SlotsOwned
  BY Inductive, PTL DEF IInv

-----------------------------------------------------------------------------------
(***************************************************************************)
(* The halt.                                                               *)
(***************************************************************************)

\* The driver believes in a halt only while there is one; when the thread has seen it,
\* nothing that restarts the engine is raised or under way.
HaltInv ==
    /\ cqHalted => hwHalt
    /\ api.pc = "haltSet" =>
         /\ hwHalt /\ ~srsErr /\ "RED" \notin cqInt
         /\ isr.pc \in {"idle", "dispatch", "cqint", "coal", "complete", "finish"}

\* The thread sees the halt with no interrupt raised and no handler under way.
LEMMA ApiHalt == ASSUME TypeOK, env.promptIrq, HaltInv, ApiCall \/ ApiContinue PROVE HaltInv'
<1> USE DEF HaltInv, ApiStep, Call, Goto, Return, ApiIdle, drvVars, hwVars
<1>0. api \in ApiStates /\ isr \in IsrStates
  BY DEF TypeOK
<1>1. CASE ApiCall
  BY <1>1 DEF ApiCall, Enable, Disable, ResetIntCoalCounters, AttachCheck, StartCheck, DcmdCommit,
              SetDirectCmdConfig, SetIntCoalescingCfg, HaltBegin, HaltEnd, Unhalt, Restart
<1>2. CASE HaltSeen
  <2>1. isr.pc = "idle" /\ ~srsErr /\ cqInt = {}
    BY <1>2 DEF HaltSeen, PromptIrq, IrqLine
  <2> QED
    BY <1>2, <2>1 DEF HaltSeen
<1>3. CASE HaltSet
  <2>1. hwHalt' /\ api'.pc # "haltSet"
    <3>1. api'.pc \in {"idle", api.op}
      BY <1>0, <1>3 DEF HaltSet, ApiStates
    <3>2. api.op # "haltSet"
      BY <1>0 DEF ApiStates, AllOps
    <3> QED
      BY <1>3, <3>1, <3>2 DEF HaltSet
  <2> QED
    BY <2>1
<1>4. CASE AttachReject \/ AttachCommit \/ Ring \/ HaltTimeout
  BY <1>4 DEF AttachReject, AttachCommit, Ring, HaltTimeout
<1>5. CASE StartMark \/ DiscardTask \/ DiscardAllTasks \/ DiscardFinish
  <2>1. api'.pc # "haltSet" /\ UNCHANGED <<cqHalted, hwHalt>>
    BY <1>0, <1>5 DEF StartMark, DiscardTask, DiscardAllTasks, DiscardFinish, ApiStates
  <2> QED
    BY <2>1
<1>6. CASE DiscardEnd
  BY <1>6 DEF DiscardEnd, Unhalt, Restart
<1> QED
  BY <1>1, <1>2, <1>3, <1>4, <1>5, <1>6 DEF ApiContinue

\* The handler restarts the engine only after an error, and then says so.
LEMMA IsrHalt == ASSUME TypeOK, HaltInv, IsrStep PROVE HaltInv'
<1> USE DEF HaltInv, IsrAt, IsrGoto, IsrIdle, drvVars, hwVars
<1>0. isr \in IsrStates /\ cqInt \subseteq {"TCC", "RED"}
  BY DEF TypeOK
<1>1. CASE IsrEnter \/ IsrReadNotif \/ IsrCoal \/ IsrFinish
  <2>1. /\ UNCHANGED <<cqHalted, hwHalt, api, srsErr, cqInt>>
        /\ isr.pc \in {"idle", "complete", "coal", "finish"}
    BY <1>1 DEF IsrEnter, IsrReadNotif, IsrCoal, IsrFinish
  <2>2. isr'.pc \in {"dispatch", "finish", "complete"}
    BY <1>0, <1>1 DEF IsrEnter, IsrReadNotif, IsrCoal, IsrFinish, IsrStates
  <2> QED
    BY <2>1, <2>2
<1>2. CASE IsrDispatch
  BY <1>0, <1>2 DEF IsrDispatch, IsrStates
<1>3. CASE IsrCqInt
  BY <1>0, <1>3 DEF IsrCqInt, IsrStates
<1>4. CASE IsrTaskError \/ IsrHalted \/ IsrHaltTimeout \/ IsrRecover \/ IsrUnhalt \/ IsrClearError
  <2>1. api.pc # "haltSet" /\ api' = api
    BY <1>4 DEF IsrTaskError, IsrHalted, IsrHaltTimeout, IsrRecover, IsrUnhalt, IsrClearError
  <2>2. (cqHalted => hwHalt)'
    BY <1>4 DEF IsrTaskError, IsrHalted, IsrHaltTimeout, IsrRecover, IsrUnhalt, Restart, IsrClearError
  <2> QED
    BY <2>1, <2>2
<1> QED
  BY <1>1, <1>2, <1>3, <1>4 DEF IsrStep

\* A halted engine raises no error.
LEMMA HwHaltKept == ASSUME HaltInv, HwStep PROVE HaltInv'
<1>1. /\ UNCHANGED <<cqHalted, api, isr>>
      /\ hwHalt => hwHalt' /\ srsErr' = srsErr /\ ("RED" \in cqInt' => "RED" \in cqInt)
  BY DEF HwStep, HwCoalTimer, HwHalt, HwFetch, HwComplete, HwError, HwClear, Running, drvVars
<1> QED
  BY <1>1 DEF HaltInv

\* The driver's belief in a halt is right while interrupts are taken at once: only then
\* does it send commands of its own and clear tasks (SDIOHost_CQ_Halt, CQErrorRecovery).
THEOREM HaltIsReal == Spec => []HaltAgreement
<1> DEFINE PromptHalt == env.promptIrq => HaltInv
<1>1. Init => PromptHalt
  BY DEF Init, HaltInv, ApiIdle
<1>2. IInv /\ PromptHalt /\ [Next]_vars => PromptHalt'
  <2> SUFFICES ASSUME IInv, env.promptIrq', PromptHalt, [Next]_vars PROVE HaltInv'
    OBVIOUS
  <2>1. TypeOK
    BY DEF IInv
  <2>2. env' = env
    BY DEF Next, vars, ApiCall, Enable, Disable, ResetIntCoalCounters, AttachCheck, StartCheck, DcmdCommit,
           SetDirectCmdConfig, SetIntCoalescingCfg, HaltBegin, HaltEnd, Unhalt, ApiContinue, AttachReject,
           AttachCommit, StartMark, Ring, HaltSeen, HaltTimeout, HaltSet, DiscardEnd, DiscardTask,
           DiscardAllTasks, DiscardFinish, IsrStep, IsrEnter, IsrDispatch, IsrTaskError, IsrHalted,
           IsrHaltTimeout, IsrRecover, IsrUnhalt, IsrClearError, IsrCqInt, IsrCoal, IsrReadNotif, IsrFinish,
           HwStep, HwCoalTimer, HwHalt, HwFetch, HwComplete, HwError, HwClear
  <2>3. env.promptIrq /\ HaltInv
    BY <2>2
  <2>4. CASE UNCHANGED vars
    BY <2>3, <2>4 DEF vars, drvVars, hwVars, HaltInv
  <2> QED
    BY <2>1, <2>3, <2>4, ApiHalt, IsrHalt, HwHaltKept DEF Next
<1>3. PromptHalt => HaltAgreement
  BY DEF HaltInv, HaltAgreement, Timely
<1> QED
  BY <1>1, <1>2, <1>3, Inductive, PTL DEF Spec

-----------------------------------------------------------------------------------
(***************************************************************************)
(* What a careful client can rely on.                                      *)
(***************************************************************************)

\* A non-empty set of natural numbers has a least element.
LEMMA LeastElement ==
    ASSUME NEW S \in SUBSET Nat, S # {}
    PROVE  \E u \in S : \A v \in S : u <= v
<1> DEFINE Less == {p \in Nat \X Nat : p[1] < p[2]}
<1>1. IsWellFoundedOn(Less, Nat)
  BY NatLessThanWellFounded DEF OpToRel
<1>2. \A u, v \in Nat : v < u => <<v, u>> \in Less
  OBVIOUS
<1> HIDE DEF Less
<1>3. PICK u \in S : \A v \in S : <<v, u>> \notin Less
  BY <1>1, WFMin
<1>4. ASSUME NEW v \in S PROVE u <= v
  <2>1. u \in Nat /\ v \in Nat /\ ~(v < u)
    BY <1>2, <1>3
  <2> QED
    BY <2>1
<1> QED
  BY <1>4

\* The slot CQGetUnusedTaskId returns is empty, not queued in the device, and one of those
\* the completion loop visits.
LEMMA UnusedIsEmpty ==
    ASSUME UnusedTaskId \in Tasks
    PROVE  /\ UnusedTaskId \in ScannedTasks
           /\ currentReq[UnusedTaskId] = NoReq
<1> DEFINE free == {t \in 0 .. Depth - 1 : currentReq[t] = NoReq /\ ~IsHwTaskPending(t)}
           least == CHOOSE u \in free : \A v \in free : u <= v
<1>1. NoTask \notin Tasks
  BY NumTasksAssumption DEF NoTask, Tasks
<1>2. /\ UnusedTaskId # NoTask
      /\ UnusedTaskId = IF free = {} THEN NoTask ELSE IF IsDirectTask(least) THEN NoTask ELSE least
  BY <1>1 DEF UnusedTaskId
<1>3. free \in SUBSET Nat
  BY DepthAssumption, NumTasksAssumption
<1>4. free # {} => least \in free
  <2> HIDE DEF free
  <2> QED
    BY <1>3, LeastElement
<1>5. UnusedTaskId = least /\ least \in free /\ ~IsDirectTask(least)
  <2> HIDE DEF free, least
  <2> QED
    BY <1>2, <1>4
<1>6. least \in 0 .. Depth - 1 /\ currentReq[least] = NoReq
  <2> HIDE DEF least
  <2> QED
    BY <1>5
<1> HIDE DEF least, free
<1> QED
  BY <1>5, <1>6 DEF ScannedTasks

\* The surroundings never change.
LEMMA EnvKept == ASSUME [Next]_vars PROVE env' = env
  BY DEF Next, vars, ApiCall, Enable, Disable, ResetIntCoalCounters, AttachCheck, StartCheck, DcmdCommit,
         SetDirectCmdConfig, SetIntCoalescingCfg, HaltBegin, HaltEnd, Unhalt, ApiContinue, AttachReject,
         AttachCommit, StartMark, Ring, HaltSeen, HaltTimeout, HaltSet, DiscardEnd, DiscardTask,
         DiscardAllTasks, DiscardFinish, IsrStep, IsrEnter, IsrDispatch, IsrTaskError, IsrHalted,
         IsrHaltTimeout, IsrRecover, IsrUnhalt, IsrClearError, IsrCqInt, IsrCoal, IsrReadNotif, IsrFinish,
         HwStep, HwCoalTimer, HwHalt, HwFetch, HwComplete, HwError, HwClear

\* The handler and the engine leave the modes of the driver and the thread alone.
LEMMA IsrOrHwKeeps ==
    ASSUME IsrStep \/ HwStep
    PROVE  UNCHANGED <<cqEnabled, dcmdEnabled, coalEn, api, desc>>
  BY DEF drvVars, IsrStep, IsrEnter, IsrDispatch, IsrTaskError, IsrHalted,
         IsrHaltTimeout, IsrRecover, IsrUnhalt, IsrClearError, IsrCqInt, IsrCoal, IsrReadNotif, IsrFinish,
         HwStep, HwCoalTimer, HwHalt, HwFetch, HwComplete, HwError, HwClear

\* Answering some slots only empties slots, and a request that is then still in use stays
\* where it is.
LEMMA FinishKeeps ==
    ASSUME TypeOK, FinishSome
    PROVE  /\ \A t \in Tasks : currentReq'[t] \in {currentReq[t], NoReq}
           /\ currentDcmd' \in {currentDcmd, NoReq}
           /\ \A r \in InUse' : /\ r \in InUse /\ reqStat'[r] = reqStat[r]
                                /\ currentDcmd = r => currentDcmd' = r
                                /\ \A t \in Tasks : currentReq[t] = r => currentReq'[t] = r
<1>1. PICK ts \in SUBSET Tasks, dcmd \in BOOLEAN, status \in {"FINISHED", "FAILED"} :
         Finish(ts, dcmd, status)
  BY DEF FinishSome
<1> DEFINE done == {currentReq[t] : t \in ts} \cup (IF dcmd THEN {currentDcmd} ELSE {})
<1>2. /\ reqStat' = [r \in AllReqs |-> IF r \in done THEN status ELSE reqStat[r]]
      /\ currentReq' = [t \in Tasks |-> IF t \in ts THEN NoReq ELSE currentReq[t]]
      /\ currentDcmd' = IF dcmd THEN NoReq ELSE currentDcmd
  BY <1>1 DEF Finish
<1>3. ASSUME NEW r \in InUse'
      PROVE  r \in AllReqs /\ r \notin done /\ r \in InUse /\ reqStat'[r] = reqStat[r]
  <2> HIDE DEF done
  <2> QED
    BY <1>2, <1>3 DEF InUse
<1>4. ASSUME NEW r \in InUse', NEW t \in Tasks, currentReq[t] = r PROVE currentReq'[t] = r
  BY <1>2, <1>3, <1>4
<1>5. ASSUME NEW r \in InUse', currentDcmd = r PROVE currentDcmd' = r
  BY <1>2, <1>3, <1>5
<1> QED
  BY <1>2, <1>3, <1>4, <1>5

-----------------------------------------------------------------------------------
(***************************************************************************)
(* A careful client.                                                       *)
(***************************************************************************)

\* The slots in use are those the completion loop visits; the slot that is being attached
\* is still empty; a queue that is switched off has nothing in use; no request is orphaned.
Slotted == \A t \in Tasks : currentReq[t] # NoReq => t \in ScannedTasks
Reachable == \A r \in InUse : currentDcmd = r \/ \E t \in Tasks : currentReq[t] = r
CarefulInv ==
    /\ Slotted
    /\ currentDcmd # NoReq => dcmdEnabled
    /\ api.pc = "attach" => \A t \in api.tasks : currentReq[t] = NoReq /\ t \in ScannedTasks
    /\ ~cqEnabled => InUse = {} /\ api.pc = "idle"
    /\ Reachable

\* At the start no slot is in use.
LEMMA InitCareful == Init => CarefulInv
  BY DEF Init, CarefulInv, Slotted, Reachable, InUse, ApiIdle, Tasks

\* A client that reconfigures the queue only while nothing is in use leaves all slots empty.
LEMMA NothingInUse ==
    ASSUME TypeOK, SlotsOwned, InUse = {}
    PROVE  currentDcmd = NoReq /\ \A t \in Tasks : currentReq[t] = NoReq
  BY DEF SlotsOwned, TypeOK, InUse, AllReqs

\* A step that leaves slots, statuses and modes alone, and checks no slot, keeps CarefulInv.
LEMMA CarefulUnchanged ==
    ASSUME CarefulInv, UNCHANGED <<currentReq, currentDcmd, reqStat, dcmdEnabled, cqEnabled>>,
           api'.pc = "idle" \/ (api'.pc # "attach" /\ cqEnabled)
    PROVE  CarefulInv'
  BY DEF CarefulInv, Slotted, Reachable, InUse, ScannedTasks, IsDirectTask

\* The handler and the engine only empty slots, and only of requests they answer.
LEMMA IsrHwCareful == ASSUME IInv, CarefulInv, IsrStep \/ HwStep PROVE CarefulInv'
<1>0. TypeOK
  BY DEF IInv
<1>1. UNCHANGED <<cqEnabled, dcmdEnabled, api>>
  BY IsrOrHwKeeps
<1>2. ScannedTasks' = ScannedTasks
  BY <1>1 DEF ScannedTasks, IsDirectTask
<1>3. CASE UNCHANGED <<currentReq, currentDcmd, reqStat>>
  BY <1>1, <1>2, <1>3 DEF CarefulInv, Slotted, Reachable, InUse
<1>4. CASE FinishSome
  <2>1. api \in ApiStates
    BY <1>0 DEF TypeOK
  <2> HIDE DEF FinishSome
  <2>2. Slotted'
    BY <1>0, <1>2, <1>4, FinishKeeps DEF CarefulInv, Slotted
  <2>3. Reachable'
    BY <1>0, <1>4, FinishKeeps DEF CarefulInv, Reachable
  <2>4. InUse' \subseteq InUse /\ (currentDcmd' # NoReq => currentDcmd # NoReq)
    BY <1>0, <1>4, FinishKeeps
  <2>5. api.pc = "attach" => \A t \in api.tasks : currentReq'[t] = NoReq
    BY <1>0, <1>4, <2>1, FinishKeeps DEF CarefulInv, ApiStates
  <2> QED
    BY <1>1, <1>2, <2>2, <2>3, <2>4, <2>5 DEF CarefulInv
<1> QED
  BY <1>3, <1>4, IsrOrHwFinishes

\* A careful client attaches to the slot the driver chose, and reconfigures only an idle queue.
LEMMA ApiCallCareful == ASSUME IInv, Careful, CarefulInv, ApiCall PROVE CarefulInv'
<1>0. TypeOK /\ SlotsOwned
  BY DEF IInv
<1>1. CASE Enable
  <2>1. InUse = {} /\ api.pc = "idle"
    BY <1>1 DEF Enable, CarefulInv
  <2> QED
    BY <1>1, <2>1 DEF Enable, CarefulInv, Slotted, Reachable, InUse, ScannedTasks, IsDirectTask
<1>2. CASE Disable
  <2>1. InUse = {} /\ api.pc = "idle"
    BY <1>2 DEF Disable, Call, ApiStep
  <2> QED
    BY <1>2, <2>1 DEF Disable, CarefulInv, Slotted, Reachable, InUse, ScannedTasks, IsDirectTask
<1>3. ASSUME NEW r \in Requests, NEW t \in Tasks, AttachCheck(r, t) PROVE CarefulInv'
  <2>1. currentReq[t] = NoReq /\ t \in ScannedTasks
    BY <1>3, UnusedIsEmpty DEF AttachCheck
  <2>2. /\ UNCHANGED <<currentReq, currentDcmd, reqStat, dcmdEnabled, cqEnabled>>
        /\ api'.tasks = {t} /\ cqEnabled
    BY <1>3 DEF AttachCheck, drvVars
  <2> QED
    BY <2>1, <2>2 DEF CarefulInv, Slotted, Reachable, InUse, ScannedTasks, IsDirectTask
<1>4. ASSUME NEW ts \in SUBSET Tasks, StartCheck(ts) PROVE CarefulInv'
  BY <1>4, CarefulUnchanged DEF StartCheck, drvVars
<1>5. ASSUME NEW d \in DcmdRequests, DcmdCommit(d) PROVE CarefulInv'
  <2>1. cqEnabled /\ currentDcmd = NoReq /\ dcmdEnabled /\ d \notin InUse
    BY <1>5 DEF DcmdCommit
  <2>2. /\ reqStat' = [reqStat EXCEPT ![d] = "PENDING"] /\ currentDcmd' = d
        /\ UNCHANGED <<currentReq, cqEnabled, dcmdEnabled>> /\ api'.pc = "ring"
    BY <1>5 DEF DcmdCommit
  <2>3. InUse' \subseteq InUse \cup {d}
    BY <1>0, <2>2 DEF InUse, TypeOK
  <2>4. Slotted'
    BY <2>2 DEF CarefulInv, Slotted, ScannedTasks, IsDirectTask
  <2>5. Reachable'
    <3>1. NoReq \notin InUse
      BY RequestsAssumption DEF InUse
    <3>2. \A r \in InUse : \E t \in Tasks : currentReq[t] = r
      BY <2>1, <3>1 DEF CarefulInv, Reachable
    <3> QED
      BY <2>2, <2>3, <3>2 DEF Reachable
  <2> QED
    BY <2>1, <2>2, <2>4, <2>5 DEF CarefulInv
<1>6. ASSUME NEW enable \in BOOLEAN, SetDirectCmdConfig(enable) PROVE CarefulInv'
  <2>1. InUse = {} /\ cqEnabled /\ api.pc = "idle"
    BY <1>6 DEF SetDirectCmdConfig, Call, ApiStep
  <2>2. currentDcmd = NoReq /\ \A t \in Tasks : currentReq[t] = NoReq
    BY <1>0, <2>1, NothingInUse
  <2>3. UNCHANGED <<reqStat, cqEnabled, api>> /\ currentDcmd' = NoReq
        /\ \A t \in Tasks : currentReq'[t] = NoReq
    BY <1>0, <1>6, <2>2 DEF SetDirectCmdConfig, TypeOK
  <2> QED
    BY <2>1, <2>3 DEF CarefulInv, Slotted, Reachable, InUse
<1>7. ASSUME NEW enable \in BOOLEAN, SetIntCoalescingCfg(enable) PROVE CarefulInv'
  BY <1>7, CarefulUnchanged DEF SetIntCoalescingCfg, Call, ApiStep
<1>8. ASSUME NEW op \in {"halt", "discard", "discardAll"}, NEW ts \in SUBSET Tasks, HaltBegin(op, ts)
      PROVE  CarefulInv'
  BY <1>8, CarefulUnchanged DEF HaltBegin, drvVars
<1>9. CASE ResetIntCoalCounters \/ HaltEnd
  BY <1>9, CarefulUnchanged DEF ResetIntCoalCounters, HaltEnd, Unhalt, Return, ApiIdle, Call, ApiStep, drvVars
<1> QED
  BY <1>1, <1>2, <1>3, <1>4, <1>5, <1>6, <1>7, <1>8, <1>9 DEF ApiCall

\* Between its check and its write the thread loses neither its slot nor its request.
LEMMA ApiContinueCareful == ASSUME IInv, CarefulInv, ApiContinue PROVE CarefulInv'
<1>0. TypeOK /\ ThreadInv /\ SlotsOwned /\ api \in ApiStates
  BY DEF IInv, TypeOK
<1>a. api.pc # "idle" => cqEnabled
  BY DEF CarefulInv
<1>1. CASE AttachReject
  <2>1. api.req \in Requests \ InUse
    BY <1>0, <1>1 DEF AttachReject, ApiStep, ThreadInv
  <2>2. InUse' \subseteq InUse
    BY <1>0, <1>1, <2>1 DEF AttachReject, InUse, TypeOK, AllReqs
  <2>3. UNCHANGED <<currentReq, currentDcmd, dcmdEnabled, cqEnabled>> /\ api'.pc = "idle"
    BY <1>1 DEF AttachReject, Return, ApiIdle
  <2> QED
    BY <2>2, <2>3 DEF CarefulInv, Slotted, Reachable, ScannedTasks, IsDirectTask
<1>2. CASE AttachCommit
  <2>1. api.req \in Requests /\ api.tasks # {} /\ api.tasks \subseteq Tasks
    BY <1>0, <1>2 DEF AttachCommit, ApiStep, ThreadInv, ApiStates
  <2>2. \A t \in api.tasks : currentReq[t] = NoReq /\ t \in ScannedTasks
    BY <1>2 DEF CarefulInv, AttachCommit, ApiStep
  <2>3. InUse' \subseteq InUse \cup {api.req}
    BY <1>0, <1>2, <2>1 DEF AttachCommit, InUse, TypeOK, AllReqs
  <2>4. UNCHANGED <<currentDcmd, dcmdEnabled, cqEnabled>> /\ api'.pc = "idle" /\ cqEnabled
    BY <1>a, <1>2 DEF AttachCommit, Return, ApiIdle, ApiStep
  <2>5. currentReq' = [t \in Tasks |-> IF t \in api.tasks THEN api.req ELSE currentReq[t]]
    BY <1>2 DEF AttachCommit
  <2>6. Slotted'
    BY <2>2, <2>4, <2>5 DEF CarefulInv, Slotted, ScannedTasks, IsDirectTask
  <2>7. ASSUME NEW r \in InUse' PROVE currentDcmd = r \/ \E t \in Tasks : currentReq'[t] = r
    <3>1. CASE r = api.req
      BY <2>1, <2>5, <3>1
    <3>2. CASE r # api.req
      <4>1. r \in InUse /\ r \in AllReqs
        BY <2>3, <2>7, <3>2 DEF InUse
      <4>2. CASE currentDcmd = r
        BY <4>2
      <4>3. ASSUME NEW t \in Tasks, currentReq[t] = r PROVE currentReq'[t] = r
        BY <2>2, <2>5, <4>1, <4>3, RequestsAssumption
      <4> QED
        BY <4>1, <4>2, <4>3 DEF CarefulInv, Reachable
    <3> QED
      BY <3>1, <3>2
  <2> QED
    BY <2>4, <2>6, <2>7 DEF CarefulInv, Reachable
<1>3. CASE StartMark
  <2>1. InUse' \subseteq InUse \cup {currentReq[t] : t \in Tasks}
    BY <1>0, <1>3 DEF StartMark, InUse, TypeOK, ApiStates
  <2>2. UNCHANGED <<currentReq, currentDcmd, dcmdEnabled, cqEnabled>> /\ api'.pc = "ring" /\ cqEnabled
    BY <1>0, <1>a, <1>3 DEF StartMark, Goto, ApiStates, ApiStep
  <2> QED
    BY <2>1, <2>2 DEF CarefulInv, Slotted, Reachable, ScannedTasks, IsDirectTask
<1>4. CASE DiscardFinish
  <2>1. FinishSome
    <3>1. api.tasks \in SUBSET Tasks /\ ScannedTasks \in SUBSET Tasks
      BY <1>0, DepthAssumption, NumTasksAssumption DEF ApiStates, ScannedTasks, Tasks
    <3> QED
      BY <1>0, <1>4, <3>1 DEF DiscardFinish, FinishSome, TypeOK
  <2>2. UNCHANGED <<dcmdEnabled, cqEnabled>> /\ api'.pc = "unhalt" /\ cqEnabled
    BY <1>0, <1>a, <1>4 DEF DiscardFinish, Goto, ApiStates, ApiStep
  <2>3. ScannedTasks' = ScannedTasks
    BY <2>2 DEF ScannedTasks, IsDirectTask
  <2> HIDE DEF FinishSome
  <2>4. Slotted'
    BY <1>0, <2>1, <2>3, FinishKeeps DEF CarefulInv, Slotted
  <2>5. Reachable'
    BY <1>0, <2>1, FinishKeeps DEF CarefulInv, Reachable
  <2>6. currentDcmd' # NoReq => currentDcmd # NoReq
    BY <1>0, <2>1, FinishKeeps
  <2> QED
    BY <2>2, <2>4, <2>5, <2>6 DEF CarefulInv
<1>5. CASE Ring \/ HaltSeen \/ HaltTimeout \/ HaltSet
  <2>1. UNCHANGED <<currentReq, currentDcmd, reqStat, dcmdEnabled, cqEnabled>> /\ cqEnabled
    BY <1>a, <1>5 DEF Ring, HaltSeen, HaltTimeout, HaltSet, ApiStep, drvVars
  <2>2. api'.pc # "attach"
    <3>1. CASE HaltSet
      BY <1>0, <3>1 DEF HaltSet, ThreadInv, ApiStep, Goto, Return, ApiIdle, ApiStates
    <3> QED
      BY <1>0, <1>5, <3>1 DEF Ring, HaltSeen, HaltTimeout, Goto, Return, ApiIdle, ApiStates
  <2> QED
    BY <2>1, <2>2, CarefulUnchanged
<1>6. CASE DiscardTask \/ DiscardAllTasks \/ DiscardEnd
  <2>1. UNCHANGED <<currentReq, currentDcmd, reqStat, dcmdEnabled, cqEnabled>> /\ cqEnabled
    BY <1>a, <1>6 DEF DiscardTask, DiscardAllTasks, DiscardEnd, Unhalt, ApiStep, drvVars
  <2>2. api'.pc # "attach"
    BY <1>0, <1>6 DEF DiscardTask, DiscardAllTasks, DiscardEnd, Unhalt, Goto, Return, ApiIdle, ApiStates
  <2> QED
    BY <2>1, <2>2, CarefulUnchanged
<1> QED
  BY <1>1, <1>2, <1>3, <1>4, <1>5, <1>6 DEF ApiContinue

\* What a careful client finds holds in every behaviour.
LEMMA CarefulCorrect == Spec => [](Careful => CarefulInv)
<1> DEFINE CInv == Careful => CarefulInv
<1>1. Init => CInv
  BY InitCareful
<1>2. IInv /\ CInv /\ [Next]_vars => CInv'
  <2> SUFFICES ASSUME IInv, CInv, [Next]_vars, Careful' PROVE CarefulInv'
    OBVIOUS
  <2>1. Careful /\ CarefulInv
    BY EnvKept DEF Careful
  <2>2. CASE UNCHANGED vars
    BY <2>1, <2>2 DEF vars, drvVars, CarefulInv, Slotted, Reachable, InUse, ScannedTasks, IsDirectTask
  <2> QED
    BY <2>1, <2>2, IsrHwCareful, ApiCallCareful, ApiContinueCareful DEF Next
<1> QED
  BY <1>1, <1>2, Inductive, PTL DEF Spec

\* No request of a careful client is orphaned (SDIOHost_CQ_AttachRequest,
\* SDIOHost_CQ_ExecuteDcmdRequest, SDIOHost_CQ_SetDirectCmdConfig), whatever the errors,
\* the latencies and the timeouts.
THEOREM NoneOrphaned == Spec => []NoOrphan
<1>1. (Careful => CarefulInv) => NoOrphan
  BY DEF CarefulInv, Reachable, NoOrphan
<1> QED
  BY <1>1, CarefulCorrect, PTL

-----------------------------------------------------------------------------------
(***************************************************************************)
(* The handler and the wake-ups.                                           *)
(***************************************************************************)

Waiting == {"halt", "recover", "unhalt"}
Recovering == {"taskerr", "clearerr"} \cup Waiting

\* What the handler knows while it works: a completion it has read and not served belongs
\* to an error recovery or is being served, the slot of the task it recovers is empty, and
\* nobody else takes a notification away.
HandlerInv ==
    /\ "TCC" \in isr.ints => isr.err = "red" /\ isr.pc \notin {"idle", "dispatch", "cqint"}
    /\ isr.pc \in Waiting /\ isr.task \in Tasks => currentReq[isr.task] = NoReq
    /\ isr.pc = "finish" => isr.done \subseteq notif

\* The thread steps only while the handler does not run.
LEMMA ThreadSteps ==
    ASSUME ApiCall \/ ApiContinue
    PROVE  /\ isr.pc = "idle" /\ isr' = isr
           /\ PromptIrq => ~IrqLine
           /\ PromptClear => clearReq = {}
<1> USE DEF ApiStep, Call
<1>1. CASE ApiCall
  BY <1>1 DEF ApiCall, Enable, Disable, ResetIntCoalCounters, AttachCheck, StartCheck, DcmdCommit,
              SetDirectCmdConfig, SetIntCoalescingCfg, HaltBegin, HaltEnd, Unhalt
<1>2. CASE ApiContinue
  BY <1>2 DEF ApiContinue, AttachReject, AttachCommit, StartMark, Ring, HaltSeen, HaltTimeout, HaltSet,
              DiscardEnd, DiscardTask, DiscardAllTasks, DiscardFinish, Unhalt
<1> QED
  BY <1>1, <1>2

\* The engine leaves the driver and the handler alone, and notifications stay.
LEMMA EngineSteps ==
    ASSUME HwStep
    PROVE  /\ UNCHANGED <<env, cqEnabled, cqHalted, dcmdEnabled, coalEn, currentReq, currentDcmd,
                          reqStat, desc, api, isr>>
           /\ notif \subseteq notif'
  BY DEF HwStep, HwCoalTimer, HwHalt, HwFetch, HwComplete, HwError, HwClear, drvVars

\* At the start the handler is idle.
LEMMA InitHandler == Init => HandlerInv
  BY DEF Init, HandlerInv, IsrIdle, Waiting

\* The handler keeps what it knows while it works.
LEMMA IsrHandler == ASSUME TypeOK, HandlerInv, IsrStep PROVE HandlerInv'
<1> USE DEF HandlerInv, IsrAt, IsrGoto, Waiting, drvVars, hwVars
<1>0. isr \in IsrStates /\ notif \subseteq Tasks
  BY DEF TypeOK
<1>1. CASE IsrEnter \/ IsrCoal \/ IsrReadNotif \/ IsrFinish
  BY <1>0, <1>1 DEF IsrEnter, IsrCoal, IsrReadNotif, IsrFinish, IsrIdle, IsrStates
<1>2. CASE IsrDispatch
  <2>1. "TCC" \notin isr.ints
    BY <1>2 DEF IsrDispatch
  <2>2. "TCC" \notin isr'.ints /\ isr'.pc \in {"idle", "dispatch", "taskerr", "cqint"}
    <3>1. CASE isr' = IsrIdle \/ isr' = isr
      BY <1>2, <2>1, <3>1 DEF IsrDispatch, IsrIdle
    <3>2. CASE isr' = [isr EXCEPT !.pc = "cqint"]
      BY <1>0, <2>1, <3>2 DEF IsrStates
    <3>3. CASE isr' = [IsrIdle EXCEPT !.pc = "taskerr", !.err = "srs",
                                     !.ints = IF cqInt # {} THEN {"CQINT"} ELSE {}]
      <4>1. isr'.pc = "taskerr" /\ isr'.ints = IF cqInt # {} THEN {"CQINT"} ELSE {}
        BY <3>3 DEF IsrIdle
      <4> QED
        BY <4>1
    <3> QED
      BY <1>2, <3>1, <3>2, <3>3 DEF IsrDispatch
  <2> QED
    BY <2>2
<1>3. CASE IsrTaskError
  <2>1. errField \in [cmd : 0 .. NumTasks, data : 0 .. NumTasks]
    BY DEF TypeOK
  <2>2. errField.data \in Tasks => currentReq'[errField.data] = NoReq
    BY <1>3 DEF IsrTaskError, Finish
  <2>3. isr' = [isr EXCEPT !.pc = "halt", !.task = errField.data]
    BY <1>3 DEF IsrTaskError
  <2>4. isr'.pc = "halt" /\ isr'.task = errField.data /\ isr'.ints = isr.ints /\ isr'.err = isr.err
    BY <1>0, <2>3 DEF IsrStates
  <2> QED
    BY <2>2, <2>4
<1>4. CASE IsrHalted \/ IsrHaltTimeout \/ IsrRecover \/ IsrUnhalt
  BY <1>0, <1>4 DEF IsrHalted, IsrHaltTimeout, IsrRecover, IsrUnhalt, IsrStates
<1>5. CASE IsrClearError
  BY <1>0, <1>5 DEF IsrClearError, IsrStates
<1>6. CASE IsrCqInt
  BY <1>0, <1>6 DEF IsrCqInt, IsrStates
<1> QED
  BY <1>1, <1>2, <1>3, <1>4, <1>5, <1>6 DEF IsrStep

\* What the handler relies on holds in every behaviour: only it moves itself.
LEMMA HandlerCorrect == Spec => []HandlerInv
<1>1. IInv /\ HandlerInv /\ [Next]_vars => HandlerInv'
  <2> SUFFICES ASSUME IInv, HandlerInv, [Next]_vars PROVE HandlerInv'
    OBVIOUS
  <2>1. CASE ApiCall \/ ApiContinue
    BY <2>1, ThreadSteps DEF HandlerInv, Waiting
  <2>2. CASE HwStep
    BY <2>2, EngineSteps DEF HandlerInv
  <2>3. CASE UNCHANGED vars
    BY <2>3 DEF HandlerInv, vars, drvVars, hwVars
  <2> QED
    BY <2>1, <2>2, <2>3, IsrHandler DEF Next, IInv
<1> QED
  BY InitHandler, <1>1, Inductive, PTL DEF Spec

\* Somebody waits for a request that was executed, and its notification waits.
Wanted == cqEnabled /\ notif # {} /\ InUse \cap executed # {}
Woken == \/ "TCC" \in cqInt \/ coalCnt
         \/ "TCC" \in isr.ints /\ isr.pc \in Recovering
         \/ isr.pc = "coal" \/ isr.pc = "complete"
         \/ isr.pc = "finish" /\ notif \subseteq isr.done
WakeInv == Wanted => Woken

\* Functions that drop a counted completion or its interrupt are called while nothing is in
\* use; an attach forgets that its request was executed before.
LEMMA ApiCallWake == ASSUME IInv, Careful, CarefulInv, WakeInv, ApiCall PROVE WakeInv'
<1> USE DEF WakeInv, Wanted, Woken, InUse
<1>0. TypeOK
  BY DEF IInv
<1>1. CASE Enable \/ Disable
  <2>1. InUse = {} /\ reqStat' = reqStat
    BY <1>1 DEF Enable, Disable, CarefulInv
  <2> QED
    BY <2>1
<1>2. CASE ResetIntCoalCounters
  BY <1>2 DEF ResetIntCoalCounters, drvVars
<1>3. ASSUME NEW enable \in BOOLEAN,
             SetDirectCmdConfig(enable) \/ SetIntCoalescingCfg(enable)
      PROVE  WakeInv'
  <2>1. InUse = {} /\ reqStat' = reqStat
    BY <1>3 DEF SetDirectCmdConfig, SetIntCoalescingCfg
  <2> QED
    BY <2>1
<1>4. ASSUME NEW d \in DcmdRequests, DcmdCommit(d) PROVE WakeInv'
  <2>1. InUse' \cap executed' \subseteq InUse \cap executed
    BY <1>0, <1>4 DEF DcmdCommit, TypeOK
  <2>2. UNCHANGED <<cqEnabled, notif, cqInt, coalCnt, isr>>
    BY <1>4 DEF DcmdCommit
  <2> QED
    BY <2>1, <2>2
<1>5. ASSUME NEW r \in Requests, NEW t \in Tasks, AttachCheck(r, t) PROVE WakeInv'
  BY <1>5 DEF AttachCheck, drvVars, hwVars
<1>6. ASSUME NEW ts \in SUBSET Tasks, StartCheck(ts) PROVE WakeInv'
  BY <1>6 DEF StartCheck, drvVars, hwVars
<1>7. ASSUME NEW op \in {"halt", "discard", "discardAll"}, NEW ts \in SUBSET Tasks, HaltBegin(op, ts)
      PROVE  WakeInv'
  BY <1>7 DEF HaltBegin, drvVars
<1>8. CASE HaltEnd
  BY <1>8 DEF HaltEnd, Unhalt
<1> QED
  BY <1>1, <1>2, <1>3, <1>4, <1>5, <1>6, <1>7, <1>8 DEF ApiCall

\* No function drops a completion between its steps.
LEMMA ApiContinueWake == ASSUME IInv, WakeInv, ApiContinue PROVE WakeInv'
<1> USE DEF WakeInv, Wanted, Woken
<1>0. TypeOK /\ ThreadInv /\ SlotsOwned
  BY DEF IInv
<1>1. UNCHANGED <<cqEnabled, notif, cqInt, coalCnt, isr>>
  BY DEF ApiContinue, AttachReject, AttachCommit, StartMark, Ring, HaltSeen, HaltTimeout, HaltSet,
         DiscardEnd, Unhalt, DiscardTask, DiscardAllTasks, DiscardFinish, drvVars, hwVars
<1>2. InUse' \cap executed' \subseteq InUse \cap executed
  <2>1. CASE AttachReject
    BY <1>0, <2>1 DEF AttachReject, InUse, TypeOK, hwVars
  <2>2. CASE AttachCommit
    BY <1>0, <2>2 DEF AttachCommit, InUse, TypeOK
  <2>3. CASE StartMark
    <3>1. InUse' \subseteq InUse \cup {currentReq[t] : t \in Tasks}
      BY <1>0, <2>3 DEF StartMark, InUse, TypeOK, ApiStates
    <3>2. InUse' \subseteq InUse
      <4>1. NoReq \notin InUse'
        BY RequestsAssumption DEF InUse
      <4> QED
        BY <1>0, <3>1, <4>1 DEF SlotsOwned
    <3> QED
      BY <2>3, <3>2 DEF StartMark, hwVars
  <2>4. CASE DiscardFinish
    <3>1. FinishSome
      <4>1. api.tasks \in SUBSET Tasks /\ ScannedTasks \in SUBSET Tasks
        BY <1>0, DepthAssumption, NumTasksAssumption DEF TypeOK, ApiStates, ScannedTasks, Tasks
      <4> QED
        BY <1>0, <2>4, <4>1 DEF DiscardFinish, FinishSome, TypeOK
    <3> QED
      BY <1>0, <2>4, <3>1, FinishOwned DEF DiscardFinish, hwVars
  <2>5. CASE Ring \/ HaltSeen \/ HaltTimeout \/ HaltSet \/ DiscardEnd \/ DiscardTask \/ DiscardAllTasks
    BY <2>5 DEF InUse, Ring, HaltSeen, HaltTimeout, HaltSet, DiscardEnd, Unhalt, DiscardTask,
                DiscardAllTasks, drvVars, hwVars
  <2> QED
    BY <2>1, <2>2, <2>3, <2>4, <2>5 DEF ApiContinue
<1> QED
  BY <1>1, <1>2

\* The handler clears an interrupt or the counter only on its way to CQRS11, and takes from
\* CQRS11 what it has read: what comes later raises the interrupt again.
LEMMA IsrWake == ASSUME IInv, HandlerInv, WakeInv, IsrStep PROVE WakeInv'
<1> USE DEF WakeInv, Wanted, Woken, IsrAt, IsrGoto, Recovering, Waiting, drvVars, hwVars
<1>0. TypeOK /\ SlotsOwned /\ isr \in IsrStates /\ notif \subseteq Tasks /\ cqInt \subseteq {"TCC", "RED"}
  BY DEF IInv, TypeOK
<1>1. CASE IsrTaskError
  <2>1. FinishSome
    BY <1>0, <1>1 DEF IsrTaskError, FinishSome, TypeOK, IsDirectTask
  <2>2. InUse' \subseteq InUse
    BY <1>0, <2>1, FinishOwned
  <2>3. UNCHANGED <<cqEnabled, notif, executed, cqInt, coalCnt>> /\ isr.pc = "taskerr"
        /\ isr'.pc = "halt" /\ isr'.ints = isr.ints
    BY <1>0, <1>1 DEF IsrTaskError, IsrStates
  <2> QED
    BY <2>2, <2>3
<1>2. CASE IsrFinish
  <2>1. notif' = notif \ isr.done /\ UNCHANGED <<cqEnabled, executed, cqInt, coalCnt>> /\ isr.pc = "finish"
    BY <1>2 DEF IsrFinish
  <2>2. FinishSome
    <3>1. isr.done \cap ScannedTasks \in SUBSET Tasks
      BY <1>0 DEF IsrStates
    <3> QED
      BY <1>0, <1>2, <3>1 DEF IsrFinish, FinishSome, TypeOK
  <2>3. InUse' \subseteq InUse
    BY <1>0, <2>2, FinishOwned
  <2> QED
    BY <2>1, <2>3
<1>3. UNCHANGED <<reqStat>> => InUse' = InUse
  BY DEF InUse
<1>4. CASE IsrEnter \/ IsrDispatch
  BY <1>0, <1>3, <1>4 DEF IsrEnter, IsrDispatch, IsrIdle, IsrStates, HandlerInv
<1>5. CASE IsrHalted \/ IsrHaltTimeout \/ IsrRecover \/ IsrUnhalt
  BY <1>0, <1>3, <1>5 DEF IsrHalted, IsrHaltTimeout, IsrRecover, IsrUnhalt, IsrStates
<1>6. CASE IsrClearError
  BY <1>0, <1>3, <1>6 DEF IsrClearError, IsrStates, HandlerInv
<1>7. CASE IsrCqInt
  BY <1>0, <1>3, <1>7 DEF IsrCqInt, IsrStates
<1>8. CASE IsrCoal \/ IsrReadNotif
  BY <1>0, <1>3, <1>8 DEF IsrCoal, IsrReadNotif, IsrStates
<1> QED
  BY <1>1, <1>2, <1>4, <1>5, <1>6, <1>7, <1>8 DEF IsrStep

\* A completion is signalled or counted in the step that notifies it.
LEMMA HwWake == ASSUME WakeInv, HwStep PROVE WakeInv'
<1> USE DEF WakeInv, Wanted, Woken, InUse
<1>1. UNCHANGED <<cqEnabled, reqStat, isr>>
  BY EngineSteps
<1>2. CASE \E t \in Tasks : HwComplete(t)
  BY <1>2 DEF HwComplete
<1>3. CASE HwCoalTimer
  BY <1>3 DEF HwCoalTimer
<1>4. CASE HwHalt \/ \E t \in Tasks : HwFetch(t) \/ HwError(t) \/ HwClear(t)
  <2>1. UNCHANGED <<notif, executed, coalCnt>> /\ cqInt \subseteq cqInt'
    BY <1>4 DEF HwHalt, HwFetch, HwError, HwClear
  <2> QED
    BY <1>1, <2>1
<1> QED
  BY <1>2, <1>3, <1>4 DEF HwStep

\* A careful client is always woken.
LEMMA WakeCorrect == Spec => [](Careful => WakeInv)
<1> DEFINE CInv == Careful => CarefulInv
           WInv == Careful => WakeInv
<1>1. Init => WInv
  BY DEF Init, WakeInv, Wanted
<1>2. IInv /\ HandlerInv /\ CInv /\ WInv /\ [Next]_vars => WInv'
  <2> SUFFICES ASSUME IInv, HandlerInv, CInv, WInv, [Next]_vars, Careful' PROVE WakeInv'
    OBVIOUS
  <2>1. Careful /\ CarefulInv /\ WakeInv
    BY EnvKept DEF Careful
  <2>2. CASE UNCHANGED vars
    BY <2>1, <2>2 DEF vars, drvVars, hwVars, WakeInv, Wanted, Woken, InUse
  <2> QED
    BY <2>1, <2>2, ApiCallWake, ApiContinueWake, IsrWake, HwWake DEF Next
<1> QED
  BY <1>1, <1>2, Inductive, HandlerCorrect, CarefulCorrect, PTL DEF Spec

\* No wake-up of a careful client is lost (CheckCQInterrupt, CheckTaskCompletion and the
\* interrupt coalescing of sdio_cq.c), whatever the errors, the latencies and the timeouts.
THEOREM WakeUpsArrive == Spec => []NoLostWakeup
<1>1. (Careful => WakeInv) => NoLostWakeup
  BY DEF WakeInv, Wanted, Woken, Recovering, Waiting, NoLostWakeup
<1> QED
  BY <1>1, WakeCorrect, PTL

-----------------------------------------------------------------------------------
(***************************************************************************)
(* Error responses.                                                        *)
(***************************************************************************)

Reported == stuck # {} => "RED" \in cqInt \/ isr.pc \in {"taskerr"} \cup Waiting

\* The thread finds no task stopped, and stops none.
LEMMA ThreadReported == ASSUME Reported, PromptIrq, ApiCall \/ ApiContinue PROVE Reported'
<1>1. stuck = {}
  BY ThreadSteps DEF Reported, Waiting, IrqLine
<1>2. stuck' \subseteq stuck
  BY DEF ApiCall, Enable, Disable, ResetIntCoalCounters, AttachCheck, StartCheck, DcmdCommit,
         SetDirectCmdConfig, SetIntCoalescingCfg, HaltBegin, HaltEnd, Unhalt, Restart,
         ApiContinue, AttachReject, AttachCommit, StartMark, Ring, HaltSeen, HaltTimeout, HaltSet,
         DiscardEnd, DiscardTask, DiscardAllTasks, DiscardFinish, hwVars
<1> QED
  BY <1>1, <1>2 DEF Reported

\* The handler that clears the interrupt of an error response goes on to restart the engine.
LEMMA IsrReported == ASSUME TypeOK, Reported, ~HaltTimeouts, IsrStep PROVE Reported'
<1> USE DEF Reported, IsrAt, IsrGoto, Waiting, drvVars, hwVars
<1>0. isr \in IsrStates
  BY DEF TypeOK
<1>1. CASE IsrEnter \/ IsrDispatch \/ IsrClearError \/ IsrCoal \/ IsrReadNotif \/ IsrFinish
  BY <1>1 DEF IsrEnter, IsrDispatch, IsrClearError, IsrCoal, IsrReadNotif, IsrFinish
<1>2. CASE IsrTaskError \/ IsrHalted \/ IsrRecover
  BY <1>0, <1>2 DEF IsrTaskError, IsrHalted, IsrRecover, IsrStates
<1>3. CASE IsrUnhalt \/ IsrHaltTimeout
  BY <1>3 DEF IsrUnhalt, IsrHaltTimeout, Restart
<1>4. CASE IsrCqInt
  BY <1>0, <1>4 DEF IsrCqInt, IsrStates
<1> QED
  BY <1>1, <1>2, <1>3, <1>4 DEF IsrStep

\* An error response raises its interrupt in the step that stops the task.
LEMMA HwReported == ASSUME Reported, Errors \subseteq {"resp"}, HwStep PROVE Reported'
<1> USE DEF Reported
<1>1. isr' = isr
  BY EngineSteps
<1>2. CASE \E t \in Tasks : HwError(t)
  BY <1>2 DEF HwError
<1>3. CASE HwCoalTimer \/ HwHalt \/ \E t \in Tasks : HwFetch(t) \/ HwComplete(t) \/ HwClear(t)
  <2>1. stuck' = stuck /\ cqInt \subseteq cqInt'
    BY <1>3 DEF HwCoalTimer, HwHalt, HwFetch, HwComplete, HwClear
  <2> QED
    BY <1>1, <2>1
<1> QED
  BY <1>2, <1>3 DEF HwStep

\* An error response is never lost where interrupts are taken at once and halts are in time
\* (CheckCQInterrupt, CQErrorRecovery): whatever the client does, careful or not.
THEOREM ErrorsReported == Spec => []ErrorIsReported
<1> DEFINE Cond == Timely /\ Errors \subseteq {"resp"}
           RInv == Cond => Reported
<1>1. Init => RInv
  BY DEF Init, Reported
<1>2. IInv /\ RInv /\ [Next]_vars => RInv'
  <2> SUFFICES ASSUME IInv, RInv, [Next]_vars, Cond' PROVE Reported'
    OBVIOUS
  <2>1. Timely /\ Errors \subseteq {"resp"} /\ Reported
    BY EnvKept DEF Timely, Errors
  <2>2. CASE UNCHANGED vars
    BY <2>1, <2>2 DEF vars, hwVars, Reported
  <2> QED
    BY <2>1, <2>2, ThreadReported, IsrReported, HwReported
       DEF Next, IInv, Timely, PromptIrq, HaltTimeouts
<1>3. RInv => ErrorIsReported
  BY DEF Reported, Waiting, ErrorIsReported
<1> QED
  BY <1>1, <1>2, <1>3, Inductive, PTL DEF Spec

-----------------------------------------------------------------------------------
(***************************************************************************)
(* Discards and the tasks the engine is told to clear.                     *)
(***************************************************************************)

\* The thread is where the function it was called for takes it.
DiscardInv ==
    /\ api.op = "discard" => \E t \in Tasks : api.tasks = {t}
    /\ api.pc \in {"discard", "discardAll"} => api.op = api.pc
    /\ api.pc = "finish" => api.op \in {"discard", "discardAll"}
    /\ api.op # "none" => api.op \in Ops

\* A thread that goes on within a function keeps what it was called for.
LEMMA ThreadDiscards == ASSUME TypeOK, ThreadInv, DiscardInv, ApiCall \/ ApiContinue PROVE DiscardInv'
<1> USE DEF DiscardInv, ThreadInv, Goto, Return, ApiIdle, Ops
<1>0. api \in ApiStates
  BY DEF TypeOK
<1>e. env' = env
  BY EnvKept DEF Next
<1>1. CASE ApiCall
  <2>1. CASE \E t \in Tasks : HaltBegin("discard", {t})
    BY <1>e, <2>1 DEF HaltBegin, Call
  <2>2. CASE HaltBegin("halt", {}) \/ HaltBegin("discardAll", {})
    BY <1>e, <2>2 DEF HaltBegin, Call
  <2>3. CASE \E d \in DcmdRequests : DcmdCommit(d)
    BY <1>e, <2>3 DEF DcmdCommit, Call
  <2>4. CASE \E r \in Requests, t \in Tasks : AttachCheck(r, t)
    BY <1>e, <2>4 DEF AttachCheck, Call
  <2>5. CASE \E ts \in SUBSET Tasks : StartCheck(ts)
    BY <1>e, <2>5 DEF StartCheck, Call
  <2>6. CASE HaltEnd
    BY <1>e, <2>6 DEF HaltEnd, Unhalt
  <2>7. CASE UNCHANGED api
    BY <1>e, <2>7
  <2> QED
    BY <1>1, <2>1, <2>2, <2>3, <2>4, <2>5, <2>6, <2>7
       DEF ApiCall, Enable, Disable, ResetIntCoalCounters, SetDirectCmdConfig, SetIntCoalescingCfg, drvVars
<1>2. CASE api' = ApiIdle
  BY <1>2
<1>3. ASSUME NEW pc \in {"ring", "haltSet", "unhalt"}, Goto(pc) PROVE DiscardInv'
  <2>1. api'.pc = pc /\ api'.op = api.op /\ api'.tasks = api.tasks
    BY <1>0, <1>3 DEF ApiStates
  <2> QED
    BY <1>e, <2>1
<1>4. CASE HaltSet
  <2>1. api.op \in {"halt", "discard", "discardAll"}
    BY <1>4 DEF HaltSet, ApiStep
  <2>2. CASE api.op = "halt"
    BY <1>2, <1>4, <2>2 DEF HaltSet
  <2>3. CASE api.op # "halt"
    <3>1. api'.pc = api.op /\ api'.op = api.op /\ api'.tasks = api.tasks
      BY <1>0, <1>4, <2>3 DEF HaltSet, ApiStates
    <3> QED
      BY <1>e, <2>1, <2>3, <3>1
  <2> QED
    BY <2>2, <2>3
<1>5. CASE DiscardTask \/ DiscardAllTasks
  <2>1. api.op \in {"discard", "discardAll"}
    BY <1>5 DEF DiscardTask, DiscardAllTasks, ApiStep
  <2>2. CASE Goto("finish")
    <3>1. api'.pc = "finish" /\ api'.op = api.op /\ api'.tasks = api.tasks
      BY <1>0, <2>2 DEF ApiStates
    <3> QED
      BY <1>e, <2>1, <3>1
  <2> HIDE DEF Goto, Return, DiscardInv
  <2> QED
    BY <1>2, <1>3, <1>5, <2>2 DEF DiscardTask, DiscardAllTasks, Return
<1> HIDE DEF Goto, Return, DiscardInv
<1> QED
  BY <1>1, <1>2, <1>3, <1>4, <1>5
     DEF ApiContinue, AttachReject, AttachCommit, StartMark, Ring, HaltSeen, HaltTimeout, DiscardEnd,
         Unhalt, DiscardFinish, Return

\* What a discard was called for is kept in every behaviour.
LEMMA DiscardCorrect == Spec => []DiscardInv
<1>1. Init => DiscardInv
  BY DEF Init, DiscardInv, ApiIdle
<1>2. IInv /\ DiscardInv /\ [Next]_vars => DiscardInv'
  <2> SUFFICES ASSUME IInv, DiscardInv, [Next]_vars PROVE DiscardInv'
    OBVIOUS
  <2>1. env' = env
    BY EnvKept
  <2>2. CASE UNCHANGED vars \/ IsrStep \/ HwStep
    BY <2>1, <2>2, IsrOrHwKeeps DEF DiscardInv, Ops, vars
  <2> QED
    BY <2>2, ThreadDiscards DEF Next, IInv
<1> QED
  BY <1>1, <1>2, Inductive, PTL DEF Spec

\* The tasks of the discard that is under way.
Discarded == IF api.pc # "finish" THEN {}
             ELSE IF api.op = "discardAll" THEN Tasks ELSE api.tasks
\* The engine is told to clear only the tasks of a discard or of an error recovery.
ClearInv == clearReq \subseteq Discarded \cup (IF isr.pc = "unhalt" THEN {isr.task} ELSE {})

\* Where clears are prompt, each is done before its discard or recovery goes on.
LEMMA NextClear ==
    ASSUME TypeOK, ThreadInv, DiscardInv, PromptClear, ClearInv, [Next]_vars
    PROVE  ClearInv'
<1>0. api \in ApiStates /\ isr \in IsrStates
  BY DEF TypeOK
<1>1. CASE ApiCall \/ ApiContinue
  <2>1. clearReq = {}
    BY <1>1, ThreadSteps
  <2>2. CASE clearReq' = clearReq
    BY <2>1, <2>2 DEF ClearInv
  <2>3. CASE DiscardTask /\ clearReq' # clearReq
    <3>1. api'.pc = "finish" /\ api'.op = "discard" /\ api'.tasks = api.tasks /\ clearReq' = api.tasks
      BY <1>0, <2>1, <2>3 DEF DiscardTask, Goto, ApiStates, ApiStep, DiscardInv
    <3> QED
      BY <3>1 DEF ClearInv, Discarded
  <2>4. CASE DiscardAllTasks /\ clearReq' # clearReq
    <3>1. api'.pc = "finish" /\ api'.op = "discardAll" /\ clearReq' = Tasks
      BY <1>0, <2>4 DEF DiscardAllTasks, Goto, ApiStates, ApiStep, DiscardInv
    <3> QED
      BY <3>1 DEF ClearInv, Discarded
  <2> QED
    BY <1>1, <2>2, <2>3, <2>4
       DEF ApiCall, Enable, Disable, ResetIntCoalCounters, AttachCheck, StartCheck, DcmdCommit,
           SetDirectCmdConfig, SetIntCoalescingCfg, HaltBegin, HaltEnd, Unhalt, ApiContinue, AttachReject,
           AttachCommit, StartMark, Ring, HaltSeen, HaltTimeout, HaltSet, DiscardEnd, DiscardFinish, hwVars
<1>2. CASE IsrStep
  <2>1. api' = api
    BY <1>2, IsrOrHwKeeps
  <2>2. CASE IsrRecover
    <3>1. isr'.pc = "unhalt" /\ isr'.task = isr.task
      BY <1>0, <2>2 DEF IsrRecover, IsrGoto, IsrStates
    <3> QED
      BY <2>1, <2>2, <3>1 DEF IsrRecover, IsrAt, ClearInv, Discarded
  <2>3. CASE IsrUnhalt
    BY <2>1, <2>3 DEF IsrUnhalt, ClearInv
  <2>4. CASE isr.pc # "unhalt" /\ clearReq' = clearReq
    BY <2>1, <2>4 DEF ClearInv, Discarded
  <2> QED
    BY <1>2, <2>2, <2>3, <2>4
       DEF IsrStep, IsrAt, IsrEnter, IsrDispatch, IsrTaskError, IsrHalted, IsrHaltTimeout, IsrClearError,
           IsrCqInt, IsrCoal, IsrReadNotif, IsrFinish, hwVars
<1>3. CASE HwStep
  <2>1. clearReq' \subseteq clearReq
    BY <1>3 DEF HwStep, HwCoalTimer, HwHalt, HwFetch, HwComplete, HwError, HwClear
  <2> QED
    BY <1>3, <2>1, EngineSteps DEF ClearInv, Discarded
<1>4. CASE UNCHANGED vars
  BY <1>4 DEF vars, hwVars, ClearInv, Discarded
<1> QED
  BY <1>1, <1>2, <1>3, <1>4 DEF Next

-----------------------------------------------------------------------------------
(***************************************************************************)
(* The engine and the slots keep in step.                                  *)
(***************************************************************************)

\* The request a task works for; a rung task has a PENDING one, which its descriptor names.
Owner(t) == IF IsDirectTask(t) THEN currentDcmd ELSE currentReq[t]
Live(t) == Owner(t) # NoReq /\ reqStat[Owner(t)] = "PENDING"
Rung(t) == Live(t) /\ desc[t] = Owner(t)

\* The engine has only rung tasks, but for the one the handler is about to clear; it works
\* on what their descriptors name; what it notifies was executed for its owner.
EngineInv ==
    /\ \A t \in doorbell : Rung(t) \/ (isr.pc \in Waiting /\ t = isr.task)
    /\ \A t \in Tasks : hwReq[t] # NoReq => t \in doorbell /\ hwReq[t] = desc[t]
    /\ \A t \in notif : Live(t) /\ Owner(t) \in executed /\ t \notin doorbell

\* What the thread has checked is still so when it acts on it.
StartInv ==
    /\ api.pc = "attach" => api.tasks \cap doorbell = {}
    /\ \A t \in Tasks : IsRequestAttached(t) => desc[t] = currentReq[t]
    /\ api.pc = "start" => \A t \in api.tasks : IsRequestAttached(t)
    /\ api.pc = "ring" => \A t \in api.tasks : Rung(t) /\ t \notin doorbell \cup notif
    /\ api.pc = "finish" => Discarded \cap doorbell \subseteq clearReq
    /\ api.pc = "finish" /\ api.op = "discard" => api.tasks \cap notif = {}
    /\ "coal" \notin Ops => ~coalEn /\ ~coalCnt

\* While a data error is raised the task it names is stopped and was not answered; the task
\* the handler recovers stays stopped until the engine was told to clear it.
Ordinary(t) == t \in Tasks /\ ~IsDirectTask(t)
ErrorInv ==
    /\ "RED" \notin cqInt /\ errField.cmd = NoTask
    /\ isr.pc \in Recovering => isr.err = "srs"
    /\ isr.pc = "taskerr" => srsErr
    /\ srsErr /\ isr.pc \notin Waiting \cup {"clearerr"} =>
          Ordinary(errField.data) /\ errField.data \in (stuck \cap doorbell) \ clearReq
    /\ isr.pc \in Waiting => Ordinary(isr.task) /\ isr.task \in stuck
    /\ isr.pc = "unhalt" => isr.task \in clearReq \/ isr.task \notin doorbell

\* What the earlier lemmas give for an orderly system.
Grounds == IInv /\ CarefulInv /\ HandlerInv /\ WakeInv /\ DiscardInv
OrderInv == EngineInv /\ StartInv /\ ErrorInv

\* At the start nothing is rung.
LEMMA InitOrder == Init => OrderInv
<1> SUFFICES ASSUME Init PROVE OrderInv
  OBVIOUS
<1>1. /\ api.pc = "idle" /\ isr.pc = "idle" /\ doorbell = {} /\ notif = {} /\ ~srsErr /\ cqInt = {}
      /\ errField.cmd = NoTask /\ ~coalEn /\ ~coalCnt
      /\ \A t \in Tasks : hwReq[t] = NoReq /\ currentReq[t] = NoReq
  BY DEF Init, ApiIdle, IsrIdle
<1> QED
  BY <1>1 DEF OrderInv, EngineInv, StartInv, ErrorInv, Recovering, Waiting, IsRequestAttached

\* A live request belongs to one task, and is in use.
LEMMA OwnersDiffer ==
    ASSUME TypeOK, SlotsOwned
    PROVE  /\ \A t, u \in Tasks : Owner(t) = Owner(u) => t = u \/ Owner(t) = NoReq
           /\ \A t \in Tasks : Live(t) => Owner(t) \in InUse
<1>1. \A t \in Tasks : Owner(t) # NoReq =>
         Owner(t) \in AllReqs /\ (IsDirectTask(t) <=> Owner(t) \in DcmdRequests)
  BY RequestsAssumption DEF TypeOK, Owner, AllReqs
<1>2. \A t, u \in Tasks : IsDirectTask(t) /\ IsDirectTask(u) => t = u
  BY DEF IsDirectTask
<1>3. \A t, u \in Tasks : Owner(t) = Owner(u) => t = u \/ Owner(t) = NoReq
  BY <1>1, <1>2 DEF SlotsOwned, Owner
<1>4. \A t \in Tasks : Live(t) => Owner(t) \in InUse
  BY <1>1 DEF Live, InUse
<1> QED
  BY <1>3, <1>4

\* A task whose slot holds nothing, or a request that was not started, is not rung.
LEMMA NotRung ==
    ASSUME TypeOK, EngineInv, isr.pc \notin Waiting, NEW t \in Tasks, ~Live(t)
    PROVE  t \notin doorbell /\ t \notin notif /\ hwReq[t] = NoReq
  BY DEF EngineInv, Rung

\* With nothing in use the engine has nothing to do.
LEMMA NothingRung ==
    ASSUME TypeOK, SlotsOwned, EngineInv, isr.pc \notin Waiting, InUse = {}
    PROVE  doorbell = {} /\ notif = {} /\ \A t \in Tasks : hwReq[t] = NoReq
<1>1. \A t \in Tasks : ~Live(t)
  BY OwnersDiffer
<1> QED
  BY <1>1, NotRung DEF TypeOK

\* A step that leaves slots, statuses and descriptors alone leaves every task's owner alone.
LEMMA SameOwners ==
    ASSUME UNCHANGED <<currentReq, currentDcmd, reqStat, dcmdEnabled, desc>>
    PROVE  \A t : /\ IsDirectTask(t)' = IsDirectTask(t) /\ Owner(t)' = Owner(t)
                  /\ Live(t)' = Live(t) /\ Rung(t)' = Rung(t)
                  /\ IsRequestAttached(t)' = IsRequestAttached(t)
  BY DEF IsDirectTask, Owner, Live, Rung, IsRequestAttached

\* Answering other slots leaves a task's owner alone, and no request becomes ATTACHED.
LEMMA FinishOthers ==
    ASSUME TypeOK, SlotsOwned, UNCHANGED <<dcmdEnabled, desc>>,
           NEW ts \in SUBSET Tasks, NEW dcmd \in BOOLEAN, NEW status \in {"FINISHED", "FAILED"},
           Finish(ts, dcmd, status), \A t \in ts : ~IsDirectTask(t)
    PROVE  /\ \A u \in Tasks : Live(u) /\ u \notin ts /\ (IsDirectTask(u) => ~dcmd) =>
                                  /\ Owner(u)' = Owner(u) /\ Live(u)'
                                  /\ Rung(u) => Rung(u)'
           /\ \A u \in Tasks : IsRequestAttached(u)' => IsRequestAttached(u) /\ currentReq'[u] = currentReq[u]
           /\ \A u \in Tasks : IsRequestAttached(u) /\ u \notin ts => IsRequestAttached(u)'
<1> DEFINE done == {currentReq[t] : t \in ts} \cup (IF dcmd THEN {currentDcmd} ELSE {})
<1>1. /\ reqStat' = [r \in AllReqs |-> IF r \in done THEN status ELSE reqStat[r]]
      /\ currentReq' = [t \in Tasks |-> IF t \in ts THEN NoReq ELSE currentReq[t]]
      /\ currentDcmd' = IF dcmd THEN NoReq ELSE currentDcmd
  BY DEF Finish
<1>2. ASSUME NEW u \in Tasks, Live(u), u \notin ts, IsDirectTask(u) => ~dcmd
      PROVE  Owner(u)' = Owner(u) /\ Live(u)' /\ (Rung(u) => Rung(u)')
  <2>1. Owner(u)' = Owner(u)
    BY <1>1, <1>2 DEF Owner, IsDirectTask
  <2>2. Owner(u) \in AllReqs /\ Owner(u) # NoReq /\ reqStat[Owner(u)] = "PENDING"
    BY <1>2 DEF Live, Owner, TypeOK, AllReqs
  <2>3. \A t \in ts : currentReq[t] # Owner(u)
    <3>1. \A t \in ts : Owner(t) = currentReq[t]
      BY DEF Owner
    <3> QED
      BY <1>2, <2>2, <3>1, OwnersDiffer
  <2>4. dcmd => currentDcmd # Owner(u)
    BY <1>2, <2>2, RequestsAssumption DEF Owner, TypeOK, AllReqs
  <2>5. Owner(u) \notin done
    BY <2>3, <2>4
  <2>6. reqStat'[Owner(u)] = "PENDING"
    <3> HIDE DEF done
    <3> QED
      BY <1>1, <2>2, <2>5
  <2> QED
    BY <2>1, <2>2, <2>6 DEF Live, Rung
<1>3. ASSUME NEW u \in Tasks, IsRequestAttached(u)'
      PROVE  IsRequestAttached(u) /\ currentReq'[u] = currentReq[u]
  <2>1. currentReq'[u] = currentReq[u] /\ currentReq[u] # NoReq /\ currentReq[u] \in AllReqs
    BY <1>1, <1>3 DEF IsRequestAttached, TypeOK, AllReqs
  <2>2. reqStat'[currentReq[u]] = reqStat[currentReq[u]]
    <3> HIDE DEF done
    <3> QED
      BY <1>1, <1>3, <2>1 DEF IsRequestAttached
  <2> QED
    BY <1>3, <2>1, <2>2 DEF IsRequestAttached
<1>4. ASSUME NEW u \in Tasks, IsRequestAttached(u), u \notin ts PROVE IsRequestAttached(u)'
  <2>1. currentReq'[u] = currentReq[u] /\ currentReq[u] # NoReq /\ currentReq[u] \in Requests
    BY <1>1, <1>4 DEF IsRequestAttached, TypeOK
  <2>2. \A t \in ts : currentReq[t] # currentReq[u]
    BY <1>4, <2>1 DEF SlotsOwned
  <2>3. currentReq[u] \notin done
    BY <2>1, <2>2, RequestsAssumption DEF TypeOK, AllReqs
  <2>4. reqStat'[currentReq[u]] = reqStat[currentReq[u]]
    <3> HIDE DEF done
    <3> QED
      BY <1>1, <2>1, <2>3 DEF AllReqs
  <2> QED
    BY <1>4, <2>1, <2>4 DEF IsRequestAttached
<1> QED
  BY <1>2, <1>3, <1>4

\* The thread finds no error raised and raises none.
LEMMA ThreadError == ASSUME ErrorInv, PromptIrq, ApiCall \/ ApiContinue PROVE ErrorInv'
<1>1. isr.pc = "idle" /\ isr' = isr /\ ~srsErr
  BY ThreadSteps DEF IrqLine
<1>2. UNCHANGED <<srsErr, errField>> /\ cqInt' \subseteq cqInt
  BY DEF ApiCall, Enable, Disable, ResetIntCoalCounters, AttachCheck, StartCheck, DcmdCommit,
         SetDirectCmdConfig, SetIntCoalescingCfg, HaltBegin, HaltEnd, Unhalt, Restart,
         ApiContinue, AttachReject, AttachCommit, StartMark, Ring, HaltSeen, HaltTimeout, HaltSet,
         DiscardEnd, DiscardTask, DiscardAllTasks, DiscardFinish, hwVars
<1> QED
  BY <1>1, <1>2 DEF ErrorInv, Recovering, Waiting

\* A step that touches neither slots nor engine, and after which the thread has checked
\* nothing, keeps them in step.
LEMMA SlotsKept ==
    ASSUME EngineInv, StartInv, env' = env, isr' = isr, isr.pc = "idle",
           UNCHANGED <<currentReq, currentDcmd, reqStat, dcmdEnabled, desc>>,
           UNCHANGED <<doorbell, hwReq, notif, executed>>,
           "coal" \notin Ops => (coalEn' => coalEn) /\ (coalCnt' => coalCnt)
    PROVE  /\ EngineInv'
           /\ api'.pc \notin {"attach", "start", "ring", "finish"} => StartInv'
<1>1. \A t : Owner(t)' = Owner(t) /\ Live(t)' = Live(t) /\ Rung(t)' = Rung(t)
             /\ IsRequestAttached(t)' = IsRequestAttached(t)
  BY SameOwners
<1>2. EngineInv'
  BY <1>1 DEF EngineInv, Waiting
<1>3. ASSUME api'.pc \notin {"attach", "start", "ring", "finish"} PROVE StartInv'
  BY <1>1, <1>3 DEF StartInv, Ops
<1> QED
  BY <1>2, <1>3

\* The functions of a careful client when they are called.
LEMMA ApiCallOrder ==
    ASSUME Grounds, OrderInv, Orderly, ApiCall
    PROVE  EngineInv' /\ StartInv'
<1>0. /\ TypeOK /\ SlotsOwned /\ CarefulInv /\ EngineInv /\ StartInv /\ Careful
      /\ api \in ApiStates /\ isr.pc = "idle" /\ isr' = isr /\ env' = env
      /\ isr.pc \notin Waiting /\ isr'.pc \notin Waiting
  BY ThreadSteps, EnvKept DEF Grounds, OrderInv, IInv, TypeOK, Orderly, Next, Waiting
<1>1. CASE Enable \/ ResetIntCoalCounters
  <2>1. api'.pc = "idle"
    BY <1>1 DEF Enable, ResetIntCoalCounters, Call, ApiStep
  <2> QED
    BY <1>0, <1>1, <2>1, SlotsKept DEF Enable, ResetIntCoalCounters, drvVars
<1>2. CASE Disable
  <2>1. InUse = {} /\ api'.pc = "idle"
    BY <1>0, <1>2 DEF Disable, Call, ApiStep
  <2>2. doorbell = {} /\ notif = {} /\ \A t \in Tasks : ~IsRequestAttached(t)
    BY <1>0, <2>1, NothingRung, NothingInUse DEF IsRequestAttached
  <2>3. doorbell' = {} /\ notif' = {} /\ \A t \in Tasks : hwReq'[t] = NoReq
    BY <1>2, <2>2 DEF Disable
  <2>4. \A t \in Tasks : ~IsRequestAttached(t)'
    BY <1>2, <2>2 DEF Disable, IsRequestAttached
  <2>5. EngineInv'
    BY <2>3 DEF EngineInv
  <2>6. "coal" \notin Ops' => ~coalEn' /\ ~coalCnt'
    BY <1>0, <1>2 DEF Disable, StartInv, Ops
  <2> QED
    BY <2>1, <2>4, <2>5, <2>6 DEF StartInv
<1>3. ASSUME NEW r \in Requests, NEW t \in Tasks, AttachCheck(r, t) PROVE EngineInv' /\ StartInv'
  <2>1. currentReq[t] = NoReq /\ t \in ScannedTasks
    BY <1>0, <1>3, UnusedIsEmpty DEF AttachCheck
  <2>2. t \notin doorbell
    BY <1>0, <2>1, NotRung DEF Live, Owner, ScannedTasks
  <2>3. /\ UNCHANGED <<currentReq, currentDcmd, reqStat, dcmdEnabled, desc, coalEn, coalCnt>>
        /\ UNCHANGED <<doorbell, hwReq, notif, executed>>
        /\ api'.pc = "attach" /\ api'.tasks = {t}
    BY <1>3 DEF AttachCheck, drvVars, hwVars
  <2>4. EngineInv'
    BY <1>0, <2>3, SlotsKept
  <2> QED
    BY <1>0, <2>2, <2>3, <2>4, SameOwners DEF StartInv, Ops
<1>4. ASSUME NEW ts \in SUBSET Tasks, StartCheck(ts) PROVE EngineInv' /\ StartInv'
  <2>1. /\ UNCHANGED <<currentReq, currentDcmd, reqStat, dcmdEnabled, desc, coalEn, coalCnt>>
        /\ UNCHANGED <<doorbell, hwReq, notif, executed>>
        /\ api'.pc = "start" /\ api'.tasks = ts /\ \A t \in ts : IsRequestAttached(t)
    BY <1>4 DEF StartCheck, drvVars, hwVars
  <2>2. EngineInv'
    BY <1>0, <2>1, SlotsKept
  <2> QED
    BY <1>0, <2>1, <2>2, SameOwners DEF StartInv, Ops
<1>5. ASSUME NEW d \in DcmdRequests, DcmdCommit(d) PROVE EngineInv' /\ StartInv'
  <2>1. /\ currentDcmd = NoReq /\ dcmdEnabled /\ d \notin InUse /\ d \in AllReqs /\ d # NoReq
        /\ d \notin Requests /\ DcmdTask \in Tasks
    BY <1>0, <1>5, RequestsAssumption, NumTasksAssumption DEF DcmdCommit, AllReqs, DcmdTask, Tasks
  <2>2. /\ reqStat' = [reqStat EXCEPT ![d] = "PENDING"] /\ currentDcmd' = d
        /\ desc' = [desc EXCEPT ![DcmdTask] = d] /\ executed' = executed \ {d}
        /\ UNCHANGED <<currentReq, dcmdEnabled, doorbell, hwReq, notif, coalEn, coalCnt>>
        /\ api'.pc = "ring" /\ api'.tasks = {DcmdTask}
    BY <1>5 DEF DcmdCommit
  <2>3. ~Live(DcmdTask) /\ currentReq[DcmdTask] = NoReq
    BY <1>0, <2>1 DEF Live, Owner, IsDirectTask, CarefulInv, Slotted, ScannedTasks
  <2>4. DcmdTask \notin doorbell /\ DcmdTask \notin notif
    BY <1>0, <2>1, <2>3, NotRung
  <2>5. /\ Rung(DcmdTask)'
        /\ desc \in [Tasks -> AllReqs \cup {NoReq}] /\ reqStat \in [AllReqs -> Stat]
    BY <1>0, <2>1, <2>2 DEF TypeOK, Rung, Live, Owner, IsDirectTask
  <2>6. ASSUME NEW t \in Tasks, t # DcmdTask
        PROVE  /\ Owner(t)' = Owner(t) /\ Owner(t) # d /\ Live(t)' = Live(t) /\ Rung(t)' = Rung(t)
               /\ desc'[t] = desc[t]
    <3>1. Owner(t)' = Owner(t) /\ Owner(t) = currentReq[t] /\ currentReq[t] \in Requests \cup {NoReq}
      BY <1>0, <2>2, <2>6 DEF Owner, IsDirectTask, TypeOK
    <3>2. Owner(t) # NoReq => reqStat'[Owner(t)] = reqStat[Owner(t)]
      BY <2>1, <2>2, <2>5, <3>1 DEF AllReqs
    <3> QED
      BY <2>1, <2>2, <2>5, <2>6, <3>1, <3>2 DEF Live, Rung
  <2>7. ASSUME NEW t \in Tasks, IsRequestAttached(t)' PROVE desc'[t] = currentReq'[t]
    <3>1. t # DcmdTask /\ currentReq[t] \in Requests /\ currentReq[t] # NoReq
      BY <1>0, <2>2, <2>3, <2>7 DEF IsRequestAttached, TypeOK
    <3>2. IsRequestAttached(t)
      BY <2>1, <2>2, <2>5, <2>7, <3>1 DEF IsRequestAttached, AllReqs
    <3> QED
      BY <1>0, <2>2, <2>6, <3>1, <3>2 DEF StartInv
  <2>8. EngineInv'
    <3>1. \A t \in doorbell : Rung(t)'
      BY <1>0, <2>4, <2>6 DEF EngineInv, TypeOK
    <3>2. \A t \in Tasks : hwReq[t] # NoReq => t \in doorbell /\ hwReq[t] = desc'[t]
      BY <1>0, <2>4, <2>6 DEF EngineInv
    <3>3. \A t \in notif : Live(t)' /\ Owner(t)' \in executed' /\ t \notin doorbell
      BY <1>0, <2>2, <2>4, <2>6 DEF EngineInv, TypeOK
    <3> QED
      BY <2>2, <3>1, <3>2, <3>3 DEF EngineInv
  <2> QED
    BY <1>0, <2>2, <2>4, <2>5, <2>7, <2>8 DEF StartInv, Ops
<1>6. ASSUME NEW enable \in BOOLEAN, SetDirectCmdConfig(enable) PROVE EngineInv' /\ StartInv'
  <2>1. InUse = {} /\ api'.pc = "idle"
    BY <1>0, <1>6 DEF SetDirectCmdConfig, Call, ApiStep
  <2>2. doorbell = {} /\ notif = {} /\ \A t \in Tasks : hwReq[t] = NoReq /\ currentReq[t] = NoReq
    BY <1>0, <2>1, NothingRung, NothingInUse
  <2>3. /\ UNCHANGED <<doorbell, notif, hwReq, coalEn, coalCnt>>
        /\ \A t \in Tasks : currentReq'[t] = NoReq
    BY <1>0, <1>6, <2>2 DEF SetDirectCmdConfig, hwVars, TypeOK
  <2>4. EngineInv'
    BY <2>2, <2>3 DEF EngineInv
  <2> QED
    BY <1>0, <2>1, <2>3, <2>4 DEF StartInv, Ops, IsRequestAttached
<1>7. ASSUME NEW enable \in BOOLEAN, SetIntCoalescingCfg(enable) PROVE EngineInv' /\ StartInv'
  <2>1. "coal" \in Ops /\ api'.pc = "idle"
    BY <1>7 DEF SetIntCoalescingCfg, Call, ApiStep
  <2> QED
    BY <1>0, <1>7, <2>1, SlotsKept DEF SetIntCoalescingCfg
<1>8. ASSUME NEW op \in {"halt", "discard", "discardAll"}, NEW ts \in SUBSET Tasks, HaltBegin(op, ts)
      PROVE  EngineInv' /\ StartInv'
  <2>1. api'.pc = "halt"
    BY <1>8 DEF HaltBegin
  <2> QED
    BY <1>0, <1>8, <2>1, SlotsKept DEF HaltBegin, drvVars
<1>9. CASE HaltEnd
  <2>1. api'.pc = "idle"
    BY <1>9 DEF HaltEnd, Unhalt, Return, ApiIdle
  <2> QED
    BY <1>0, <1>9, <2>1, SlotsKept DEF HaltEnd, Unhalt
<1> QED
  BY <1>1, <1>2, <1>3, <1>4, <1>5, <1>6, <1>7, <1>8, <1>9 DEF ApiCall

\* Taking over the checked request, or refusing it, disturbs no other task.
LEMMA AttachOrder ==
    ASSUME Grounds, OrderInv, Orderly, AttachReject \/ AttachCommit
    PROVE  EngineInv' /\ StartInv'
<1>0. /\ TypeOK /\ SlotsOwned /\ CarefulInv /\ EngineInv /\ StartInv /\ ThreadInv
      /\ isr.pc = "idle" /\ isr' = isr /\ env' = env
      /\ isr.pc \notin Waiting /\ isr'.pc \notin Waiting
      /\ desc \in [Tasks -> AllReqs \cup {NoReq}] /\ reqStat \in [AllReqs -> Stat]
  BY ThreadSteps, EnvKept DEF Grounds, OrderInv, IInv, TypeOK, Next, ApiContinue, Waiting
<1>1. /\ api.pc = "attach" /\ api.req \in Requests \ InUse /\ api.req \in AllReqs /\ api.req # NoReq
      /\ api'.pc = "idle"
  BY <1>0, RequestsAssumption
     DEF AttachReject, AttachCommit, ApiStep, ThreadInv, Return, ApiIdle, AllReqs
<1>2. PICK t \in Tasks : api.tasks = {t}
  BY <1>0, <1>1 DEF ThreadInv
<1>3. currentReq[t] = NoReq /\ t \in ScannedTasks /\ t \notin doorbell /\ t \notin notif /\ ~Live(t)
  <2>1. currentReq[t] = NoReq /\ t \in ScannedTasks
    BY <1>0, <1>1, <1>2 DEF CarefulInv
  <2>2. ~Live(t)
    BY <2>1 DEF Live, Owner, ScannedTasks
  <2> QED
    BY <1>0, <2>1, <2>2, NotRung
<1>4. \A u \in Tasks : /\ Live(u) => Owner(u) # api.req
                       /\ currentReq[u] # api.req
                       /\ Owner(u) \in AllReqs \cup {NoReq}
  BY <1>0, <1>1, OwnersDiffer DEF SlotsOwned, TypeOK, Owner, AllReqs
<1>5. CASE AttachReject
  <2>1. /\ reqStat' = [reqStat EXCEPT ![api.req] = "FAILED"]
        /\ UNCHANGED <<currentReq, currentDcmd, dcmdEnabled, desc, doorbell, hwReq, notif, executed,
                       coalEn, coalCnt>>
    BY <1>5 DEF AttachReject, hwVars
  <2>2. ASSUME NEW u \in Tasks
        PROVE  /\ Owner(u)' = Owner(u) /\ (Live(u) => Live(u)') /\ (Rung(u) => Rung(u)')
               /\ IsRequestAttached(u)' => IsRequestAttached(u)
    <3>1. Owner(u)' = Owner(u) /\ currentReq'[u] = currentReq[u]
      BY <2>1 DEF Owner, IsDirectTask
    <3>2. Live(u) => Live(u)'
      BY <1>0, <1>4, <2>1, <3>1 DEF Live
    <3>3. IsRequestAttached(u)' => IsRequestAttached(u)
      BY <1>0, <1>1, <1>4, <2>1, <3>1 DEF IsRequestAttached, AllReqs, TypeOK
    <3> QED
      BY <2>1, <3>1, <3>2, <3>3 DEF Rung
  <2>3. EngineInv'
    BY <1>0, <2>1, <2>2 DEF EngineInv, TypeOK
  <2> QED
    BY <1>0, <1>1, <2>1, <2>2, <2>3 DEF StartInv, Ops
<1>6. CASE AttachCommit
  <2>1. /\ reqStat' = [reqStat EXCEPT ![api.req] = "ATTACHED"]
        /\ desc' = [u \in Tasks |-> IF u = t THEN api.req ELSE desc[u]]
        /\ currentReq' = [u \in Tasks |-> IF u = t THEN api.req ELSE currentReq[u]]
        /\ executed' = executed \ {api.req}
        /\ UNCHANGED <<currentDcmd, dcmdEnabled, doorbell, hwReq, notif, coalEn, coalCnt>>
    BY <1>2, <1>6 DEF AttachCommit
  <2>2. ASSUME NEW u \in Tasks, u # t
        PROVE  /\ Owner(u)' = Owner(u) /\ (Live(u) => Live(u)') /\ (Rung(u) => Rung(u)')
               /\ IsRequestAttached(u)' => IsRequestAttached(u)
               /\ desc'[u] = desc[u] /\ currentReq'[u] = currentReq[u]
    <3>1. Owner(u)' = Owner(u) /\ currentReq'[u] = currentReq[u] /\ desc'[u] = desc[u]
      BY <2>1, <2>2 DEF Owner, IsDirectTask
    <3>2. Live(u) => Live(u)'
      BY <1>0, <1>4, <2>1, <3>1 DEF Live
    <3>3. IsRequestAttached(u)' => IsRequestAttached(u)
      BY <1>0, <1>1, <1>4, <2>1, <3>1 DEF IsRequestAttached, AllReqs, TypeOK
    <3> QED
      BY <3>1, <3>2, <3>3 DEF Rung
  <2>3. EngineInv'
    <3>1. \A u \in doorbell : Rung(u)'
      BY <1>0, <1>3, <2>2 DEF EngineInv, TypeOK
    <3>2. \A u \in Tasks : hwReq[u] # NoReq => u \in doorbell /\ hwReq[u] = desc'[u]
      BY <1>0, <1>3, <2>2 DEF EngineInv
    <3>3. \A u \in notif : Live(u)' /\ Owner(u)' \in executed' /\ u \notin doorbell
      BY <1>0, <1>3, <1>4, <2>1, <2>2 DEF EngineInv, TypeOK
    <3> QED
      BY <2>1, <3>1, <3>2, <3>3 DEF EngineInv
  <2>4. \A u \in Tasks : IsRequestAttached(u)' => desc'[u] = currentReq'[u]
    BY <1>0, <2>1, <2>2 DEF StartInv
  <2> QED
    BY <1>0, <1>1, <2>1, <2>3, <2>4 DEF StartInv, Ops
<1> QED
  BY <1>5, <1>6

\* Marking requests PENDING and ringing their doorbells.
LEMMA StartOrder ==
    ASSUME Grounds, OrderInv, Orderly, StartMark \/ Ring
    PROVE  EngineInv' /\ StartInv'
<1>0. /\ TypeOK /\ SlotsOwned /\ CarefulInv /\ EngineInv /\ StartInv /\ api \in ApiStates
      /\ isr.pc = "idle" /\ isr' = isr /\ env' = env
      /\ isr.pc \notin Waiting /\ isr'.pc \notin Waiting /\ api.tasks \subseteq Tasks
      /\ reqStat \in [AllReqs -> Stat]
  BY ThreadSteps, EnvKept DEF Grounds, OrderInv, IInv, TypeOK, Next, ApiContinue, Waiting, ApiStates
<1>1. CASE StartMark
  <2>1. /\ reqStat' = [r \in AllReqs |-> IF \E t \in api.tasks : currentReq[t] = r THEN "PENDING"
                                         ELSE reqStat[r]]
        /\ UNCHANGED <<currentReq, currentDcmd, dcmdEnabled, desc, doorbell, hwReq, notif, executed,
                       coalEn, coalCnt>>
        /\ api.pc = "start"
    BY <1>1 DEF StartMark, hwVars, ApiStep
  <2>2. api'.pc = "ring" /\ api'.tasks = api.tasks
    BY <1>0, <1>1 DEF StartMark, Goto, ApiStates
  <2>3. ASSUME NEW t \in Tasks
        PROVE  /\ Owner(t)' = Owner(t) /\ (Live(t) => Live(t)') /\ (Rung(t) => Rung(t)')
               /\ IsRequestAttached(t)' => IsRequestAttached(t)
    <3>1. Owner(t)' = Owner(t) /\ Owner(t) \in AllReqs \cup {NoReq} /\ currentReq[t] \in AllReqs \cup {NoReq}
      BY <1>0, <2>1 DEF Owner, IsDirectTask, TypeOK, AllReqs
    <3>2. Live(t) => Live(t)'
      BY <2>1, <3>1 DEF Live
    <3>3. IsRequestAttached(t)' => IsRequestAttached(t)
      BY <2>1, <3>1 DEF IsRequestAttached
    <3> QED
      BY <2>1, <3>1, <3>2, <3>3 DEF Rung
  <2>4. ASSUME NEW t \in api.tasks PROVE Rung(t)' /\ t \notin doorbell /\ t \notin notif
    <3>1. t \in Tasks /\ IsRequestAttached(t) /\ desc[t] = currentReq[t]
      BY <1>0, <2>1 DEF StartInv
    <3>2. currentReq[t] # NoReq /\ ~IsDirectTask(t) /\ currentReq[t] \in AllReqs
      BY <1>0, <3>1 DEF IsRequestAttached, CarefulInv, Slotted, ScannedTasks, TypeOK, AllReqs
    <3>3. Owner(t) = currentReq[t] /\ ~Live(t)
      BY <3>1, <3>2 DEF Owner, Live, IsRequestAttached
    <3>4. Rung(t)'
      BY <2>1, <2>3, <3>1, <3>2, <3>3 DEF Rung, Live
    <3> QED
      BY <1>0, <3>1, <3>3, <3>4, NotRung
  <2>5. EngineInv'
    BY <1>0, <2>1, <2>3 DEF EngineInv, TypeOK
  <2>6. \A t \in Tasks : IsRequestAttached(t)' => desc'[t] = currentReq'[t]
    BY <1>0, <2>1, <2>3 DEF StartInv
  <2> QED
    BY <1>0, <2>1, <2>2, <2>4, <2>5, <2>6 DEF StartInv, Ops
<1>2. CASE Ring
  <2>1. /\ api.pc = "ring" /\ doorbell' = doorbell \cup api.tasks /\ api'.pc = "idle"
        /\ UNCHANGED <<currentReq, currentDcmd, reqStat, dcmdEnabled, desc, hwReq, notif, executed,
                       coalEn, coalCnt>>
    BY <1>2 DEF Ring, drvVars, ApiStep, Return, ApiIdle
  <2>2. \A t : Owner(t)' = Owner(t) /\ Live(t)' = Live(t) /\ Rung(t)' = Rung(t)
               /\ IsRequestAttached(t)' = IsRequestAttached(t)
    BY <2>1, SameOwners
  <2>3. \A t \in api.tasks : Rung(t) /\ t \notin notif
    BY <1>0, <2>1 DEF StartInv
  <2>4. EngineInv'
    BY <1>0, <2>1, <2>2, <2>3 DEF EngineInv
  <2> QED
    BY <1>0, <2>1, <2>2, <2>4 DEF StartInv, Ops
<1> QED
  BY <1>1, <1>2

\* Halting, restarting, and telling the engine to clear tasks.
LEMMA HaltOrder ==
    ASSUME Grounds, OrderInv, Orderly,
           HaltSeen \/ HaltTimeout \/ HaltSet \/ DiscardEnd \/ DiscardTask \/ DiscardAllTasks
    PROVE  EngineInv' /\ StartInv'
<1>0. /\ TypeOK /\ EngineInv /\ StartInv /\ ThreadInv /\ DiscardInv /\ api \in ApiStates
      /\ isr.pc = "idle" /\ isr' = isr /\ env' = env
      /\ api.tasks \subseteq Tasks /\ doorbell \subseteq Tasks
  BY ThreadSteps, EnvKept DEF Grounds, OrderInv, IInv, TypeOK, Next, ApiContinue, ApiStates
<1>1. /\ UNCHANGED <<currentReq, currentDcmd, reqStat, dcmdEnabled, desc>>
      /\ UNCHANGED <<doorbell, hwReq, notif, executed, coalEn, coalCnt>>
  BY DEF HaltSeen, HaltTimeout, HaltSet, DiscardEnd, Unhalt, DiscardTask, DiscardAllTasks, drvVars, hwVars
<1>2. EngineInv'
  BY <1>0, <1>1, SlotsKept
<1>3. CASE api'.pc \notin {"attach", "start", "ring", "finish"}
  BY <1>0, <1>1, <1>3, SlotsKept
<1>4. CASE HaltSeen \/ HaltTimeout \/ DiscardEnd
  <2>1. api'.pc \in {"haltSet", "idle"}
    BY <1>0, <1>4 DEF HaltSeen, HaltTimeout, DiscardEnd, Unhalt, Goto, Return, ApiIdle, ApiStates
  <2> QED
    BY <1>3, <2>1
<1>5. CASE HaltSet
  <2>1. api.op \in {"halt", "discard", "discardAll"}
    BY <1>0, <1>5 DEF HaltSet, ApiStep, ThreadInv
  <2>2. api'.pc \in {"idle", "discard", "discardAll"}
    BY <1>0, <1>5, <2>1 DEF HaltSet, Return, Goto, ApiIdle, ApiStates
  <2> QED
    BY <1>3, <2>2
<1>6. CASE DiscardTask
  <2>1. CASE api.tasks \subseteq doorbell
    <3>1. /\ api'.pc = "finish" /\ api'.op = "discard" /\ api'.tasks = api.tasks
          /\ api.tasks \subseteq clearReq'
      BY <1>0, <1>6, <2>1 DEF DiscardTask, ApiStep, Goto, ApiStates, DiscardInv
    <3>2. Discarded' \cap doorbell' \subseteq clearReq' /\ api'.tasks \cap notif' = {}
      BY <1>0, <1>1, <2>1, <3>1 DEF Discarded, EngineInv
    <3> QED
      BY <1>0, <1>1, <1>2, <3>1, <3>2, SameOwners DEF StartInv, Ops
  <2>2. CASE ~(api.tasks \subseteq doorbell)
    <3>1. api'.pc = "unhalt"
      BY <1>0, <1>6, <2>2 DEF DiscardTask, Goto, ApiStates
    <3> QED
      BY <1>3, <3>1
  <2> QED
    BY <2>1, <2>2
<1>7. CASE DiscardAllTasks
  <2>1. CASE Return
    BY <1>3, <2>1 DEF Return, ApiIdle
  <2>2. CASE clearReq' = Tasks /\ Goto("finish")
    <3>1. api'.pc = "finish" /\ api'.op = "discardAll"
      BY <1>0, <1>7, <2>2 DEF DiscardAllTasks, ApiStep, Goto, ApiStates, DiscardInv
    <3>2. Discarded' \cap doorbell' \subseteq clearReq'
      BY <1>0, <1>1, <2>2
    <3> QED
      BY <1>0, <1>1, <1>2, <3>1, <3>2, SameOwners DEF StartInv, Ops
  <2> QED
    BY <1>7, <2>1, <2>2 DEF DiscardAllTasks
<1> QED
  BY <1>4, <1>5, <1>6, <1>7

\* When everything was cleared and no completion is counted, none is notified either.
LEMMA AllCleared ==
    ASSUME Grounds, OrderInv, Orderly, DiscardFinish, api.op = "discardAll"
    PROVE  doorbell = {} /\ notif = {}
<1>0. /\ EngineInv /\ StartInv /\ isr.pc = "idle" /\ ~IrqLine /\ clearReq = {} /\ api.pc = "finish"
      /\ doorbell \subseteq Tasks /\ notif \subseteq Tasks
  BY ThreadSteps
     DEF Grounds, OrderInv, IInv, TypeOK, ApiContinue, Orderly, Timely, PromptIrq, DiscardFinish, ApiStep
<1>1. doorbell = {}
  BY <1>0 DEF StartInv, Discarded
<1>2. "coal" \notin Ops
  BY DEF Grounds, DiscardInv, Orderly
<1>3. ~Woken
  BY <1>0, <1>2 DEF Woken, IrqLine, StartInv, Recovering, Waiting
<1>4. cqEnabled
  BY <1>0 DEF Grounds, CarefulInv
<1>5. notif = {} \/ InUse \cap executed = {}
  BY <1>3, <1>4 DEF Grounds, WakeInv, Wanted
<1>6. ASSUME NEW t \in notif PROVE FALSE
  <2>1. t \in Tasks /\ Live(t) /\ Owner(t) \in executed
    BY <1>0, <1>6 DEF EngineInv
  <2>2. Owner(t) \in InUse
    BY <2>1, OwnersDiffer DEF Grounds, IInv
  <2> QED
    BY <1>5, <1>6, <2>1, <2>2
<1> QED
  BY <1>1, <1>6

\* A discard answers requests whose tasks the engine has dropped.
LEMMA DiscardOrder ==
    ASSUME Grounds, OrderInv, Orderly, DiscardFinish
    PROVE  EngineInv' /\ StartInv'
<1>0. /\ TypeOK /\ SlotsOwned /\ EngineInv /\ StartInv /\ DiscardInv /\ api \in ApiStates
      /\ isr.pc = "idle" /\ isr' = isr /\ env' = env /\ clearReq = {} /\ api.pc = "finish"
      /\ isr.pc \notin Waiting /\ isr'.pc \notin Waiting /\ dcmdEnabled \in BOOLEAN
      /\ doorbell \subseteq Tasks /\ notif \subseteq Tasks /\ api.op \in {"discard", "discardAll"}
  BY ThreadSteps, EnvKept
     DEF Grounds, OrderInv, IInv, TypeOK, Next, ApiContinue, Waiting, Orderly, DiscardFinish, ApiStep,
         DiscardInv
<1>1. /\ UNCHANGED <<dcmdEnabled, desc, doorbell, hwReq, notif, executed, coalEn, coalCnt>>
      /\ api'.pc = "unhalt"
  BY <1>0 DEF DiscardFinish, hwVars, Goto, ApiStates
<1>2. PICK ts \in SUBSET Tasks, dcmd \in BOOLEAN :
         /\ Finish(ts, dcmd, "FAILED") /\ \A t \in ts : ~IsDirectTask(t)
         /\ \A u \in doorbell \cup notif : u \notin ts /\ (IsDirectTask(u) => ~dcmd)
  <2>1. CASE api.op = "discardAll"
    <3>1. ScannedTasks \in SUBSET Tasks /\ \A t \in ScannedTasks : ~IsDirectTask(t)
      BY DepthAssumption, NumTasksAssumption DEF ScannedTasks, Tasks
    <3>2. doorbell = {} /\ notif = {}
      BY <2>1, AllCleared
    <3>3. Finish(ScannedTasks, dcmdEnabled, "FAILED")
      BY <2>1 DEF DiscardFinish
    <3> QED
      BY <1>0, <3>1, <3>2, <3>3
  <2>2. CASE api.op = "discard"
    <3> DEFINE direct == dcmdEnabled /\ api.tasks = {DcmdTask}
    <3>1. Finish(IF direct THEN {} ELSE api.tasks, direct, "FAILED") /\ direct \in BOOLEAN
      BY <1>0, <2>2 DEF DiscardFinish
    <3>2. PICK t \in Tasks : api.tasks = {t}
      BY <1>0, <2>2 DEF DiscardInv
    <3>3. t \notin doorbell /\ t \notin notif
      BY <1>0, <2>2, <3>2 DEF StartInv, Discarded
    <3>4. direct <=> IsDirectTask(t)
      BY <3>2 DEF IsDirectTask
    <3>5. \A u \in doorbell \cup notif : IsDirectTask(u) => ~direct
      BY <3>2, <3>3, <3>4 DEF IsDirectTask
    <3>6. PICK ts \in SUBSET Tasks : ts = IF direct THEN {} ELSE {t}
      OBVIOUS
    <3> HIDE DEF direct
    <3> QED
      BY <3>1, <3>2, <3>3, <3>4, <3>5, <3>6
  <2> QED
    BY <1>0, <2>1, <2>2
<1>3. /\ \A u \in Tasks : Live(u) /\ u \notin ts /\ (IsDirectTask(u) => ~dcmd) =>
                             Owner(u)' = Owner(u) /\ Live(u)' /\ (Rung(u) => Rung(u)')
      /\ \A u \in Tasks : IsRequestAttached(u)' => IsRequestAttached(u) /\ currentReq'[u] = currentReq[u]
  BY <1>0, <1>1, <1>2, FinishOthers
<1>4. \A u \in doorbell : Rung(u)'
  BY <1>0, <1>2, <1>3 DEF EngineInv, Rung
<1>5. \A u \in notif : Live(u)' /\ Owner(u)' \in executed /\ u \notin doorbell
  BY <1>0, <1>2, <1>3 DEF EngineInv
<1>6. EngineInv'
  BY <1>0, <1>1, <1>4, <1>5 DEF EngineInv
<1>7. \A u \in Tasks : IsRequestAttached(u)' => desc'[u] = currentReq'[u]
  BY <1>0, <1>1, <1>3 DEF StartInv
<1> QED
  BY <1>0, <1>1, <1>6, <1>7 DEF StartInv, Ops

\* The functions of the driver keep engine and slots in step.
LEMMA ThreadOrder ==
    ASSUME Grounds, OrderInv, Orderly, ApiCall \/ ApiContinue
    PROVE  OrderInv'
<1>1. EngineInv' /\ StartInv'
  BY ApiCallOrder, AttachOrder, StartOrder, HaltOrder, DiscardOrder DEF ApiContinue
<1>2. ErrorInv'
  BY ThreadError DEF OrderInv, Orderly, Timely, PromptIrq
<1> QED
  BY <1>1, <1>2 DEF OrderInv

\* The engine works only on what the driver has rung, and completes for the owner.
LEMMA EngineOrder ==
    ASSUME Grounds, OrderInv, Orderly, HwStep
    PROVE  OrderInv'
<1>0. /\ TypeOK /\ EngineInv /\ StartInv /\ ErrorInv /\ Errors \subseteq {"data"}
      /\ UNCHANGED <<env, cqEnabled, cqHalted, dcmdEnabled, coalEn, currentReq, currentDcmd,
                     reqStat, desc, api, isr>>
      /\ doorbell \subseteq Tasks /\ notif \subseteq Tasks
      /\ desc \in [Tasks -> AllReqs \cup {NoReq}] /\ hwReq \in [Tasks -> AllReqs \cup {NoReq}]
  BY EngineSteps DEF Grounds, OrderInv, IInv, TypeOK, Orderly
<1>1. /\ \A t : /\ IsDirectTask(t)' = IsDirectTask(t) /\ Owner(t)' = Owner(t) /\ Live(t)' = Live(t)
                /\ Rung(t)' = Rung(t) /\ IsRequestAttached(t)' = IsRequestAttached(t)
                /\ Ordinary(t)' = Ordinary(t)
      /\ Discarded' = Discarded /\ Ops' = Ops
  BY <1>0, SameOwners DEF Ordinary, Discarded, IsDirectTask, Ops
<1>2. ASSUME NEW t \in Tasks, Running(t), hwReq[t] # NoReq
      PROVE  Rung(t) /\ hwReq[t] = Owner(t) /\ t \in doorbell
  <2>1. t \in doorbell /\ t \notin stuck
    BY <1>2 DEF Running
  <2>2. Rung(t)
    BY <1>0, <2>1 DEF EngineInv, ErrorInv
  <2> QED
    BY <1>0, <1>2, <2>1, <2>2 DEF EngineInv, Rung
<1>3. ASSUME NEW t \in Tasks, HwFetch(t) PROVE OrderInv'
  <2>1. /\ hwReq' = [hwReq EXCEPT ![t] = desc[t]] /\ t \in doorbell
        /\ UNCHANGED <<doorbell, clearReq, notif, stuck, errField, cqInt, srsErr, coalCnt, executed>>
    BY <1>3 DEF HwFetch, Running
  <2>2. EngineInv'
    BY <1>0, <1>1, <2>1 DEF EngineInv
  <2> QED
    BY <1>0, <1>1, <2>1, <2>2 DEF OrderInv, StartInv, ErrorInv
<1>4. ASSUME NEW t \in Tasks, HwComplete(t) PROVE OrderInv'
  <2>1. /\ Running(t) /\ t \notin stuck /\ t \notin clearReq
        /\ doorbell' = doorbell \ {t} /\ hwReq' = [hwReq EXCEPT ![t] = NoReq]
        /\ notif' = notif \cup {t} /\ executed' = executed \cup {hwReq[t]}
        /\ UNCHANGED <<clearReq, stuck, errField, srsErr>>
        /\ cqInt' \subseteq cqInt \cup {"TCC"} /\ (~coalEn => coalCnt' = coalCnt)
    BY <1>4 DEF HwComplete, Running
  <2>2. Rung(t) /\ hwReq[t] = Owner(t) /\ t \in doorbell
    BY <1>2, <1>4 DEF HwComplete
  <2>3. EngineInv'
    BY <1>0, <1>1, <2>1, <2>2 DEF EngineInv, Rung
  <2>4. api.pc = "finish" => t \notin Discarded
    BY <1>0, <2>1, <2>2 DEF StartInv
  <2>5. api.pc = "finish" /\ api.op = "discard" => api.tasks \cap notif' = {}
    BY <1>0, <2>1, <2>4 DEF StartInv, Discarded
  <2>6. api.pc = "ring" => \A u \in api.tasks : Rung(u) /\ u \notin doorbell' \cup notif'
    BY <1>0, <2>1, <2>2 DEF StartInv
  <2>7. StartInv'
    BY <1>0, <1>1, <2>1, <2>5, <2>6 DEF StartInv
  <2>8. ErrorInv'
    BY <1>0, <1>1, <2>1 DEF ErrorInv
  <2> QED
    BY <2>3, <2>7, <2>8 DEF OrderInv
<1>5. ASSUME NEW t \in Tasks, HwError(t) PROVE OrderInv'
  <2>1. /\ Running(t) /\ hwReq[t] \in Requests /\ errField' = [cmd |-> NoTask, data |-> t] /\ srsErr'
        /\ UNCHANGED <<doorbell, clearReq, notif, hwReq, cqInt, coalCnt, executed>>
        /\ stuck' = stuck \cup {t}
    BY <1>0, <1>5 DEF HwError
  <2>2. Ordinary(t) /\ t \in doorbell /\ t \notin clearReq
    <3>1. Owner(t) \in Requests /\ t \in doorbell
      BY <1>2, <2>1, RequestsAssumption DEF AllReqs
    <3>2. ~IsDirectTask(t)
      BY <1>0, <3>1, RequestsAssumption DEF Owner, TypeOK, AllReqs
    <3> QED
      BY <2>1, <3>1, <3>2 DEF Ordinary, Running
  <2>3. EngineInv' /\ StartInv'
    BY <1>0, <1>1, <2>1 DEF EngineInv, StartInv
  <2>4. ErrorInv'
    BY <1>0, <1>1, <2>1, <2>2 DEF ErrorInv
  <2> QED
    BY <2>3, <2>4 DEF OrderInv
<1>6. ASSUME NEW t \in Tasks, HwClear(t) PROVE OrderInv'
  <2>1. /\ doorbell' = doorbell \ {t} /\ hwReq' = [hwReq EXCEPT ![t] = NoReq]
        /\ clearReq' = clearReq \ {t} /\ t \in clearReq
        /\ UNCHANGED <<notif, stuck, errField, srsErr, cqInt, coalCnt, executed>>
    BY <1>6 DEF HwClear
  <2>2. EngineInv'
    BY <1>0, <1>1, <2>1 DEF EngineInv
  <2>3. StartInv'
    BY <1>0, <1>1, <2>1 DEF StartInv
  <2>4. ErrorInv'
    BY <1>0, <1>1, <2>1 DEF ErrorInv
  <2> QED
    BY <2>2, <2>3, <2>4 DEF OrderInv
<1>7. CASE HwCoalTimer \/ HwHalt
  <2>1. /\ UNCHANGED <<doorbell, clearReq, notif, hwReq, stuck, errField, srsErr, executed>>
        /\ cqInt' \subseteq cqInt \cup {"TCC"} /\ (coalCnt' => coalCnt)
    BY <1>7 DEF HwCoalTimer, HwHalt
  <2>2. EngineInv' /\ StartInv'
    BY <1>0, <1>1, <2>1 DEF EngineInv, StartInv
  <2>3. ErrorInv'
    BY <1>0, <1>1, <2>1 DEF ErrorInv
  <2> QED
    BY <2>2, <2>3 DEF OrderInv
<1> QED
  BY <1>3, <1>4, <1>5, <1>6, <1>7 DEF HwStep

\* The handler outside FinishRequest: the task it recovers is dropped before the restart.
LEMMA HandlerOrder ==
    ASSUME Grounds, OrderInv, Orderly, IsrStep, ~IsrTaskError, ~IsrFinish
    PROVE  OrderInv'
<1> USE DEF IsrAt, IsrGoto, drvVars, hwVars
<1>0. /\ TypeOK /\ EngineInv /\ StartInv /\ ErrorInv /\ ~HaltTimeouts /\ PromptClear
      /\ env' = env /\ UNCHANGED <<cqEnabled, dcmdEnabled, coalEn, api, desc>>
      /\ isr \in IsrStates
  BY EnvKept, IsrOrHwKeeps
     DEF Grounds, OrderInv, IInv, TypeOK, Orderly, Timely, HaltTimeouts, Next
<1>1. /\ UNCHANGED <<currentReq, currentDcmd, reqStat, doorbell, hwReq, notif, executed, errField>>
      /\ clearReq \subseteq clearReq' /\ (coalCnt' => coalCnt) /\ cqInt' \subseteq cqInt
  <2>1. CASE IsrEnter \/ IsrDispatch \/ IsrHalted \/ IsrHaltTimeout \/ IsrReadNotif
    BY <2>1 DEF IsrEnter, IsrDispatch, IsrHalted, IsrHaltTimeout, IsrReadNotif
  <2>2. CASE IsrRecover
    BY <2>2 DEF IsrRecover
  <2>3. CASE IsrUnhalt
    BY <2>3 DEF IsrUnhalt, Restart
  <2>4. CASE IsrClearError
    BY <2>4 DEF IsrClearError
  <2>5. CASE IsrCqInt
    BY <2>5 DEF IsrCqInt
  <2>6. CASE IsrCoal
    BY <1>0, <2>6 DEF IsrCoal, TypeOK
  <2> QED
    BY <2>1, <2>2, <2>3, <2>4, <2>5, <2>6 DEF IsrStep
<1>2. /\ \A t : /\ IsDirectTask(t)' = IsDirectTask(t) /\ Owner(t)' = Owner(t) /\ Live(t)' = Live(t)
                /\ Rung(t)' = Rung(t) /\ IsRequestAttached(t)' = IsRequestAttached(t)
                /\ Ordinary(t)' = Ordinary(t)
      /\ Discarded' = Discarded /\ Ops' = Ops
  BY <1>0, <1>1, SameOwners DEF Ordinary, Discarded, IsDirectTask, Ops
<1>3. StartInv'
  BY <1>0, <1>1, <1>2 DEF StartInv
<1>4. ASSUME isr'.pc \notin Waiting, isr.pc \notin Waiting PROVE EngineInv'
  <2>1. \A t \in doorbell : Rung(t)
    BY <1>0, <1>4 DEF EngineInv
  <2> QED
    BY <1>0, <1>1, <1>2, <2>1 DEF EngineInv
<1>d. ASSUME IsrDispatch
      PROVE  /\ isr.pc = "dispatch" /\ isr'.pc \in {"idle", "dispatch", "taskerr", "cqint"}
             /\ srsErr' => srsErr
             /\ isr'.pc = "taskerr" => isr'.err = "srs" /\ srsErr'
  <2>1. CASE isr' = IsrIdle \/ isr' = isr
    BY <1>d, <2>1 DEF IsrDispatch, IsrIdle
  <2>2. CASE isr' = [isr EXCEPT !.pc = "cqint"] /\ srsErr' = srsErr
    BY <1>0, <1>d, <2>2 DEF IsrDispatch, IsrStates
  <2>3. CASE /\ isr' = [IsrIdle EXCEPT !.pc = "taskerr", !.err = "srs",
                                      !.ints = IF cqInt # {} THEN {"CQINT"} ELSE {}]
             /\ srsErr /\ srsErr' = srsErr
    <3>1. isr'.pc = "taskerr" /\ isr'.err = "srs"
      BY <2>3 DEF IsrIdle
    <3> QED
      BY <1>d, <2>3, <3>1 DEF IsrDispatch
  <2> QED
    BY <1>d, <2>1, <2>2, <2>3 DEF IsrDispatch
<1>5. CASE IsrHalted \/ IsrRecover
  <2>1. /\ isr.pc \in Waiting /\ isr'.pc \in Waiting /\ isr'.task = isr.task /\ isr'.err = isr.err
        /\ stuck' = stuck
        /\ isr'.pc = "unhalt" => isr.task \in clearReq' \/ isr.task \notin Tasks
    BY <1>0, <1>5 DEF IsrHalted, IsrRecover, Waiting, IsrStates
  <2>2. EngineInv'
    BY <1>0, <1>1, <1>2, <2>1 DEF EngineInv
  <2>3. ErrorInv'
    <3>1. isr.pc \in Recovering /\ isr'.pc # "taskerr"
      BY <2>1 DEF Recovering, Waiting
    <3> QED
      BY <1>0, <1>1, <1>2, <2>1, <3>1 DEF ErrorInv, Ordinary
  <2> QED
    BY <1>3, <2>2, <2>3 DEF OrderInv
<1>6. CASE IsrUnhalt
  <2>1. isr.pc = "unhalt" /\ isr'.pc = "clearerr" /\ isr'.err = isr.err /\ clearReq = {}
    BY <1>0, <1>6 DEF IsrUnhalt, IsrStates
  <2>2. \A t \in doorbell : Rung(t)
    BY <1>0, <2>1 DEF EngineInv, ErrorInv
  <2>3. EngineInv'
    BY <1>0, <1>1, <1>2, <2>2 DEF EngineInv
  <2>4. ErrorInv'
    BY <1>0, <1>1, <2>1 DEF ErrorInv, Recovering, Waiting
  <2> QED
    BY <1>3, <2>3, <2>4 DEF OrderInv
<1>7. CASE IsrEnter \/ IsrDispatch \/ IsrCqInt \/ IsrCoal \/ IsrReadNotif \/ IsrClearError
  <2>1. isr.pc \notin Waiting /\ isr'.pc \notin Waiting
    <3>1. CASE IsrEnter \/ IsrCoal \/ IsrReadNotif
      BY <1>0, <3>1 DEF IsrEnter, IsrCoal, IsrReadNotif, IsrIdle, IsrStates, Waiting
    <3>2. CASE IsrCqInt
      BY <1>0, <3>2 DEF IsrCqInt, IsrStates, Waiting
    <3>3. CASE IsrClearError
      BY <1>0, <3>3 DEF IsrClearError, IsrStates, Waiting
    <3> QED
      BY <1>7, <1>d, <3>1, <3>2, <3>3 DEF Waiting
  <2>2. stuck' = stuck /\ clearReq' = clearReq
    BY <1>7 DEF IsrEnter, IsrDispatch, IsrCqInt, IsrCoal, IsrReadNotif, IsrClearError
  <2>3. isr'.pc # "unhalt"
    BY <2>1 DEF Waiting
  <2>4. CASE IsrEnter \/ IsrCqInt \/ IsrCoal \/ IsrReadNotif
    <3>1. srsErr' = srsErr /\ isr.pc # "clearerr" /\ isr'.pc \notin Recovering
      BY <1>0, <2>4 DEF IsrEnter, IsrCqInt, IsrCoal, IsrReadNotif, IsrIdle, IsrStates, ErrorInv, Recovering,
                        Waiting
    <3>2. isr'.pc # "taskerr"
      BY <3>1 DEF Recovering
    <3> QED
      BY <1>0, <1>1, <1>2, <1>3, <1>4, <2>1, <2>2, <2>3, <3>1, <3>2 DEF OrderInv, ErrorInv
  <2>5. CASE IsrDispatch
    <3>1. isr'.pc \in Recovering => isr'.pc = "taskerr"
      BY <1>d, <2>5 DEF Recovering, Waiting
    <3> QED
      BY <1>0, <1>1, <1>2, <1>3, <1>4, <1>d, <2>1, <2>2, <2>3, <2>5, <3>1 DEF OrderInv, ErrorInv
  <2>6. CASE IsrClearError
    <3>1. isr.pc = "clearerr" /\ isr'.pc \in {"cqint", "coal", "dispatch"}
      BY <1>0, <2>6 DEF IsrClearError, IsrStates
    <3>2. isr.err = "srs" /\ ~srsErr'
      BY <1>0, <2>6, <3>1 DEF IsrClearError, ErrorInv, Recovering
    <3>3. isr'.pc \notin Recovering /\ isr'.pc # "taskerr"
      BY <3>1 DEF Recovering, Waiting
    <3> QED
      BY <1>0, <1>1, <1>3, <1>4, <2>1, <2>3, <3>2, <3>3 DEF OrderInv, ErrorInv
  <2> QED
    BY <1>7, <2>4, <2>5, <2>6
<1>8. ~IsrHaltTimeout
  BY <1>0 DEF IsrHaltTimeout
<1> QED
  BY <1>5, <1>6, <1>7, <1>8 DEF IsrStep

\* A request that is started is not in flight, so neither an error nor a completion is its own.
LEMMA AttachedIsQuiet ==
    ASSUME TypeOK, CarefulInv, EngineInv, isr.pc \notin Waiting,
           NEW t \in Tasks, IsRequestAttached(t)
    PROVE  ~IsDirectTask(t) /\ ~Live(t) /\ t \notin doorbell /\ t \notin notif
<1>1. ~IsDirectTask(t)
  BY DEF IsRequestAttached, CarefulInv, Slotted, ScannedTasks
<1>2. ~Live(t)
  BY <1>1 DEF IsRequestAttached, Live, Owner
<1> QED
  BY <1>1, <1>2, NotRung

\* A data error answers the request of the task it stopped; that task stays stopped.
LEMMA TaskErrorOrder == ASSUME Grounds, OrderInv, Orderly, IsrTaskError PROVE OrderInv'
<1> DEFINE bad == errField.data
<1>0. /\ TypeOK /\ SlotsOwned /\ CarefulInv /\ EngineInv /\ StartInv /\ ErrorInv
      /\ env' = env /\ UNCHANGED <<cqEnabled, dcmdEnabled, coalEn, api, desc>>
      /\ isr \in IsrStates /\ isr.pc = "taskerr" /\ isr.pc \notin Waiting
      /\ doorbell \subseteq Tasks /\ notif \subseteq Tasks
      /\ api.pc \in {"start", "ring"} => api.tasks \subseteq Tasks
  BY EnvKept, IsrOrHwKeeps
     DEF Grounds, OrderInv, IInv, TypeOK, Next, IsrStep, IsrTaskError, IsrAt, Waiting, ApiStates
<1>1. /\ UNCHANGED <<doorbell, clearReq, notif, hwReq, stuck, errField, cqInt, srsErr, coalCnt, executed>>
      /\ isr'.pc = "halt" /\ isr'.task = bad /\ isr'.err = isr.err
  BY <1>0 DEF IsrTaskError, IsrStates
<1>2. Ordinary(bad) /\ bad \in Tasks /\ bad \in stuck /\ bad \in doorbell /\ isr.err = "srs"
  BY <1>0 DEF ErrorInv, Ordinary, Recovering
<1>3. Finish({bad}, FALSE, "FAILED")
  <2>1. ~IsDirectTask(errField.cmd) /\ {errField.cmd} \cap Tasks = {}
    BY <1>0, NumTasksAssumption DEF ErrorInv, IsDirectTask, NoTask, DcmdTask, Tasks
  <2>2. ({errField.cmd} \cup {bad}) \cap Tasks = {bad}
    BY <1>2, <2>1
  <2>3. (IF IsDirectTask(errField.cmd) THEN {} ELSE {errField.cmd}) = {errField.cmd}
    BY <2>1
  <2>4. Finish({bad}, IsDirectTask(errField.cmd), "FAILED")
    BY <2>2, <2>3 DEF IsrTaskError
  <2> QED
    BY <2>1, <2>4 DEF Finish
<1> HIDE DEF bad
<1>4. /\ \A u \in Tasks : Live(u) /\ u # bad => Owner(u)' = Owner(u) /\ Live(u)' /\ (Rung(u) => Rung(u)')
      /\ \A u \in Tasks : IsRequestAttached(u)' => IsRequestAttached(u) /\ currentReq'[u] = currentReq[u]
      /\ \A u \in Tasks : IsRequestAttached(u) /\ u # bad => IsRequestAttached(u)'
  <2>1. /\ \A u \in Tasks : Live(u) /\ u \notin {bad} /\ (IsDirectTask(u) => ~FALSE) =>
                               Owner(u)' = Owner(u) /\ Live(u)' /\ (Rung(u) => Rung(u)')
        /\ \A u \in Tasks : IsRequestAttached(u)' => IsRequestAttached(u) /\ currentReq'[u] = currentReq[u]
        /\ \A u \in Tasks : IsRequestAttached(u) /\ u \notin {bad} => IsRequestAttached(u)'
    BY <1>0, <1>2, <1>3, FinishOthers DEF Ordinary
  <2> QED
    BY <2>1
<1>5. EngineInv'
  <2>1. \A u \in doorbell : Rung(u)' \/ u = bad
    BY <1>0, <1>4 DEF EngineInv, Rung
  <2>2. \A u \in notif : Live(u)' /\ Owner(u)' \in executed /\ u \notin doorbell
    BY <1>0, <1>2, <1>4 DEF EngineInv
  <2> QED
    BY <1>0, <1>1, <2>1, <2>2 DEF EngineInv, Waiting
<1>6. StartInv'
  <2>1. \A u \in Tasks : IsRequestAttached(u)' => desc'[u] = currentReq'[u]
    BY <1>0, <1>4 DEF StartInv
  <2>2. api.pc = "start" => \A u \in api.tasks : IsRequestAttached(u)'
    BY <1>0, <1>2, <1>4, AttachedIsQuiet DEF StartInv
  <2>3. api.pc = "ring" => \A u \in api.tasks : Rung(u)'
    BY <1>0, <1>2, <1>4 DEF StartInv, Rung
  <2> QED
    BY <1>0, <1>1, <2>1, <2>2, <2>3 DEF StartInv, Ops, Discarded
<1>7. ErrorInv'
  BY <1>0, <1>1, <1>2 DEF ErrorInv, Recovering, Waiting, Ordinary, IsDirectTask
<1> QED
  BY <1>5, <1>6, <1>7 DEF OrderInv

\* Completions are answered for the tasks that were notified, and only for them.
LEMMA FinishOrder == ASSUME Grounds, OrderInv, Orderly, IsrFinish PROVE OrderInv'
<1>0. /\ TypeOK /\ SlotsOwned /\ CarefulInv /\ EngineInv /\ StartInv /\ ErrorInv
      /\ env' = env /\ UNCHANGED <<cqEnabled, dcmdEnabled, coalEn, api, desc>>
      /\ isr \in IsrStates /\ isr.pc = "finish" /\ isr.pc \notin Waiting
      /\ doorbell \subseteq Tasks /\ notif \subseteq Tasks /\ isr.done \subseteq notif
      /\ api.pc \in {"start", "ring"} => api.tasks \subseteq Tasks
  BY EnvKept, IsrOrHwKeeps
     DEF Grounds, OrderInv, IInv, TypeOK, Next, IsrStep, IsrFinish, IsrAt, Waiting, ApiStates, HandlerInv
<1>1. /\ UNCHANGED <<doorbell, clearReq, hwReq, stuck, errField, cqInt, srsErr, coalCnt, executed>>
      /\ notif' = notif \ isr.done /\ isr'.pc = "dispatch"
  BY DEF IsrFinish, IsrIdle
<1>2. PICK ts \in SUBSET Tasks, dcmd \in BOOLEAN :
         /\ Finish(ts, dcmd, "FINISHED") /\ \A t \in ts : ~IsDirectTask(t)
         /\ ts \subseteq isr.done /\ \A t \in Tasks \ isr.done : IsDirectTask(t) => ~dcmd
  <2>1. isr.done \cap ScannedTasks \in SUBSET Tasks /\ \A t \in isr.done \cap ScannedTasks : ~IsDirectTask(t)
    BY <1>0 DEF ScannedTasks
  <2>2. PICK dcmd \in BOOLEAN : dcmd = (dcmdEnabled /\ DcmdTask \in isr.done)
    OBVIOUS
  <2>3. Finish(isr.done \cap ScannedTasks, dcmd, "FINISHED")
    BY <2>2 DEF IsrFinish
  <2>4. \A t \in Tasks \ isr.done : IsDirectTask(t) => ~dcmd
    BY <2>2 DEF IsDirectTask
  <2> QED
    BY <2>1, <2>3, <2>4
<1>3. /\ \A u \in Tasks \ isr.done : Live(u) => Owner(u)' = Owner(u) /\ Live(u)' /\ (Rung(u) => Rung(u)')
      /\ \A u \in Tasks : IsRequestAttached(u)' => IsRequestAttached(u) /\ currentReq'[u] = currentReq[u]
      /\ \A u \in Tasks \ isr.done : IsRequestAttached(u) => IsRequestAttached(u)'
  <2>1. /\ \A u \in Tasks : Live(u) /\ u \notin ts /\ (IsDirectTask(u) => ~dcmd) =>
                               Owner(u)' = Owner(u) /\ Live(u)' /\ (Rung(u) => Rung(u)')
        /\ \A u \in Tasks : IsRequestAttached(u)' => IsRequestAttached(u) /\ currentReq'[u] = currentReq[u]
        /\ \A u \in Tasks : IsRequestAttached(u) /\ u \notin ts => IsRequestAttached(u)'
    BY <1>0, <1>2, FinishOthers
  <2> QED
    BY <1>2, <2>1
<1>4. EngineInv'
  <2>1. \A u \in doorbell : Rung(u)'
    BY <1>0, <1>3 DEF EngineInv, Rung
  <2>2. \A u \in notif' : Live(u)' /\ Owner(u)' \in executed /\ u \notin doorbell
    BY <1>0, <1>1, <1>3 DEF EngineInv
  <2> QED
    BY <1>0, <1>1, <2>1, <2>2 DEF EngineInv
<1>5. StartInv'
  <2>1. \A u \in Tasks : IsRequestAttached(u)' => desc'[u] = currentReq'[u]
    BY <1>0, <1>3 DEF StartInv
  <2>2. api.pc = "start" => \A u \in api.tasks : IsRequestAttached(u)'
    BY <1>0, <1>3, AttachedIsQuiet DEF StartInv
  <2>3. api.pc = "ring" => \A u \in api.tasks : Rung(u)'
    BY <1>0, <1>3 DEF StartInv, Rung
  <2> QED
    BY <1>0, <1>1, <2>1, <2>2, <2>3 DEF StartInv, Ops, Discarded
<1>6. ErrorInv'
  BY <1>0, <1>1 DEF ErrorInv, Recovering, Waiting, Ordinary, IsDirectTask
<1> QED
  BY <1>4, <1>5, <1>6 DEF OrderInv

\* The engine and the slots of an orderly system keep in step.
LEMMA OrderCorrect == Spec => [](Orderly => OrderInv)
<1> DEFINE CInv == Careful => CarefulInv
           WInv == Careful => WakeInv
           OInv == Orderly => OrderInv
<1>1. Init => OInv
  BY InitOrder
<1>2. IInv /\ HandlerInv /\ DiscardInv /\ CInv /\ WInv /\ OInv /\ [Next]_vars => OInv'
  <2> SUFFICES ASSUME IInv, HandlerInv, DiscardInv, CInv, WInv, OInv, [Next]_vars, Orderly' PROVE OrderInv'
    OBVIOUS
  <2>1. Orderly /\ OrderInv /\ Grounds
    BY EnvKept DEF Orderly, Careful, Timely, PromptClear, Errors, Ops, Grounds
  <2>2. CASE UNCHANGED vars
    BY <2>1, <2>2, SameOwners
       DEF vars, drvVars, hwVars, OrderInv, EngineInv, StartInv, ErrorInv, Ordinary, Discarded, Ops
  <2> QED
    BY <2>1, <2>2, ThreadOrder, EngineOrder, HandlerOrder, TaskErrorOrder, FinishOrder DEF Next
<1> QED
  BY <1>1, <1>2, Inductive, HandlerCorrect, DiscardCorrect, CarefulCorrect, WakeCorrect, PTL DEF Spec

\* Between its checks and its writes the thread loses no request it is about to start
\* (SDIOHost_CQ_StartExecuteTask, SDIOHost_CQ_StartExecuteTasks).
THEOREM StartIsSafe == Spec => []StartSeesRequest
<1>1. (Orderly => OrderInv) => StartSeesRequest
  BY DEF OrderInv, StartInv, StartSeesRequest
<1> QED
  BY <1>1, OrderCorrect, PTL

-----------------------------------------------------------------------------------
(***************************************************************************)
(* Every PENDING request is owed an answer.                                *)
(***************************************************************************)

\* A client that issues no direct commands has none in flight.
DirectInv == "dcmd" \in Ops \/ currentDcmd = NoReq

\* Only SDIOHost_CQ_ExecuteDcmdRequest puts a direct command in flight.
LEMMA DirectCorrect == Spec => []DirectInv
<1>1. Init => DirectInv
  BY DEF Init, DirectInv
<1>2. IInv /\ DirectInv /\ [Next]_vars => DirectInv'
  <2> SUFFICES ASSUME IInv, DirectInv, [Next]_vars PROVE DirectInv'
    OBVIOUS
  <2>1. Ops' = Ops
    BY EnvKept DEF Ops
  <2>2. CASE IsrStep \/ HwStep
    <3>1. currentDcmd' \in {currentDcmd, NoReq}
      BY <2>2, IsrOrHwFinishes, FinishKeeps DEF IInv
    <3> QED
      BY <2>1, <3>1 DEF DirectInv
  <2>3. CASE \E d \in DcmdRequests : DcmdCommit(d)
    BY <2>1, <2>3 DEF DcmdCommit, Call, DirectInv
  <2>4. CASE currentDcmd' \in {currentDcmd, NoReq}
    BY <2>1, <2>4 DEF DirectInv
  <2>5. CASE DiscardFinish
    <3>1. currentDcmd' \in {currentDcmd, NoReq}
      BY <2>5 DEF DiscardFinish, Finish
    <3> QED
      BY <2>4, <3>1
  <2> QED
    BY <2>2, <2>3, <2>4, <2>5
       DEF Next, vars, ApiCall, Enable, Disable, ResetIntCoalCounters, AttachCheck, StartCheck,
           SetDirectCmdConfig, SetIntCoalescingCfg, HaltBegin, HaltEnd, Unhalt, ApiContinue, AttachReject,
           AttachCommit, StartMark, Ring, HaltSeen, HaltTimeout, HaltSet, DiscardEnd, DiscardTask,
           DiscardAllTasks, drvVars
<1> QED
  BY <1>1, <1>2, Inductive, PTL DEF Spec

\* The tasks of which something is still to come, and the requests that wait for it.
Owing == Ringing \cup doorbell \cup notif \cup Discarding
OwedInv == /\ \A t \in Tasks : IsRequestPending(t) => t \in Owing
           /\ currentDcmd # NoReq => DcmdTask \in Owing

\* Answering requests leaves no other request without its answer.
LEMMA FinishOwed ==
    ASSUME NEW ts \in SUBSET Tasks, NEW dcmd \in BOOLEAN, NEW status \in {"FINISHED", "FAILED"},
           TypeOK, Finish(ts, dcmd, status)
    PROVE  /\ \A t \in Tasks : IsRequestPending(t)' => IsRequestPending(t) /\ t \notin ts
           /\ currentDcmd' # NoReq => currentDcmd # NoReq /\ ~dcmd
<1> DEFINE done == {currentReq[t] : t \in ts} \cup (IF dcmd THEN {currentDcmd} ELSE {})
<1>1. /\ reqStat' = [r \in AllReqs |-> IF r \in done THEN status ELSE reqStat[r]]
      /\ currentReq' = [t \in Tasks |-> IF t \in ts THEN NoReq ELSE currentReq[t]]
      /\ currentDcmd' = IF dcmd THEN NoReq ELSE currentDcmd
  BY DEF Finish
<1>2. ASSUME NEW t \in Tasks, IsRequestPending(t)' PROVE IsRequestPending(t) /\ t \notin ts
  <2>1. t \notin ts /\ currentReq'[t] = currentReq[t] /\ currentReq[t] \in AllReqs
    BY <1>1, <1>2 DEF IsRequestPending, TypeOK, AllReqs
  <2>2. reqStat'[currentReq[t]] \in {status, reqStat[currentReq[t]]}
    <3> HIDE DEF done
    <3> QED
      BY <1>1, <2>1
  <2> QED
    BY <1>2, <2>1, <2>2 DEF IsRequestPending
<1> QED
  BY <1>1, <1>2

\* The functions of the driver before a discard's last step.
LEMMA ThreadOwed ==
    ASSUME IInv, Careful, CarefulInv, OwedInv, ApiCall \/ ApiContinue, ~DiscardFinish
    PROVE  OwedInv'
<1>0. TypeOK /\ SlotsOwned /\ ThreadInv /\ api \in ApiStates /\ api.tasks \subseteq Tasks
  BY DEF IInv, TypeOK, ApiStates
<1>1. CASE Disable \/ \E enable \in BOOLEAN : SetDirectCmdConfig(enable)
  <2>1. InUse = {}
    BY <1>1 DEF Disable, SetDirectCmdConfig
  <2>2. currentDcmd = NoReq /\ \A t \in Tasks : currentReq[t] = NoReq
    BY <1>0, <2>1, NothingInUse
  <2>3. currentDcmd' = NoReq /\ \A t \in Tasks : currentReq'[t] = NoReq
    BY <1>0, <1>1, <2>2 DEF Disable, SetDirectCmdConfig, TypeOK
  <2> QED
    BY <2>3 DEF OwedInv, IsRequestPending
<1>2. ASSUME UNCHANGED <<currentReq, currentDcmd, reqStat, doorbell, notif>>, Ringing \subseteq Ringing',
             Discarding \subseteq Discarding'
      PROVE  OwedInv'
  BY <1>2 DEF OwedInv, Owing, IsRequestPending
<1>3. CASE ApiCall /\ UNCHANGED <<currentReq, currentDcmd, reqStat, doorbell, notif>>
  <2>1. api.pc = "idle"
    BY <1>3 DEF ApiCall, Enable, Disable, ResetIntCoalCounters, AttachCheck, StartCheck, DcmdCommit,
                SetDirectCmdConfig, SetIntCoalescingCfg, HaltBegin, HaltEnd, Call, ApiStep
  <2> QED
    BY <1>2, <1>3, <2>1 DEF Ringing, Discarding
<1>4. ASSUME NEW d \in DcmdRequests, DcmdCommit(d) PROVE OwedInv'
  <2>1. /\ reqStat' = [reqStat EXCEPT ![d] = "PENDING"] /\ currentDcmd' = d
        /\ UNCHANGED <<currentReq, doorbell, notif>>
        /\ api.pc = "idle" /\ api'.pc = "ring" /\ api'.tasks = {DcmdTask}
    BY <1>4 DEF DcmdCommit, Call, ApiStep
  <2>2. ASSUME NEW t \in Tasks, IsRequestPending(t)' PROVE IsRequestPending(t)
    <3>1. currentReq[t] # d /\ currentReq[t] \in AllReqs
      BY <1>0, <2>1, <2>2, RequestsAssumption DEF IsRequestPending, TypeOK, AllReqs
    <3> QED
      BY <1>0, <2>1, <2>2, <3>1 DEF IsRequestPending, TypeOK
  <2>3. Owing \subseteq Owing' /\ DcmdTask \in Owing'
    BY <2>1 DEF Owing, Ringing, Discarding
  <2> QED
    BY <2>2, <2>3 DEF OwedInv
<1>5. CASE AttachReject \/ AttachCommit
  <2>1. /\ api.pc = "attach" /\ api.req \in Requests \ InUse /\ UNCHANGED <<currentDcmd, doorbell, notif>>
        /\ reqStat'[api.req] # "PENDING"
        /\ \A r \in AllReqs : r # api.req => reqStat'[r] = reqStat[r]
        /\ \A t \in Tasks : currentReq'[t] \in {currentReq[t], api.req}
    BY <1>0, <1>5 DEF AttachReject, AttachCommit, ApiStep, ThreadInv, hwVars, TypeOK, AllReqs
  <2>2. ASSUME NEW t \in Tasks, IsRequestPending(t)' PROVE IsRequestPending(t)
    BY <1>0, <2>1, <2>2 DEF IsRequestPending, TypeOK, AllReqs
  <2>3. Owing \subseteq Owing'
    BY <2>1 DEF Owing, Ringing, Discarding
  <2> QED
    BY <2>1, <2>2, <2>3 DEF OwedInv
<1>6. CASE StartMark
  <2>1. /\ reqStat' = [r \in AllReqs |-> IF \E t \in api.tasks : currentReq[t] = r THEN "PENDING"
                                         ELSE reqStat[r]]
        /\ UNCHANGED <<currentReq, currentDcmd, doorbell, notif>> /\ api.pc = "start"
    BY <1>6 DEF StartMark, hwVars, ApiStep
  <2>2. api'.pc = "ring" /\ api'.tasks = api.tasks
    BY <1>0, <1>6 DEF StartMark, Goto, ApiStates
  <2>3. Owing \subseteq Owing' /\ api.tasks \subseteq Owing'
    BY <2>1, <2>2 DEF Owing, Ringing, Discarding
  <2>4. ASSUME NEW t \in Tasks, IsRequestPending(t)' PROVE IsRequestPending(t) \/ t \in api.tasks
    BY <1>0, <2>1, <2>4 DEF IsRequestPending, TypeOK, AllReqs, SlotsOwned
  <2> QED
    BY <2>1, <2>3, <2>4 DEF OwedInv
<1>7. CASE Ring
  <2>1. /\ UNCHANGED <<currentReq, currentDcmd, reqStat, notif>> /\ doorbell' = doorbell \cup api.tasks
        /\ api.pc = "ring"
    BY <1>7 DEF Ring, drvVars, ApiStep
  <2>2. Owing \subseteq Owing'
    BY <2>1 DEF Owing, Ringing, Discarding
  <2> QED
    BY <2>1, <2>2 DEF OwedInv, IsRequestPending
<1>8. CASE HaltSeen \/ HaltTimeout \/ HaltSet \/ DiscardEnd \/ DiscardTask \/ DiscardAllTasks
  <2>1. /\ UNCHANGED <<currentReq, currentDcmd, reqStat, doorbell, notif>>
        /\ api.pc \notin {"ring", "finish"}
    BY <1>8 DEF HaltSeen, HaltTimeout, HaltSet, DiscardEnd, Unhalt, DiscardTask, DiscardAllTasks, ApiStep,
                drvVars, hwVars
  <2> QED
    BY <1>2, <2>1 DEF Ringing, Discarding
<1>9. CASE ApiCall
  <2>1. UNCHANGED <<currentReq, currentDcmd, reqStat, doorbell, notif>>
        \/ Disable \/ (\E enable \in BOOLEAN : SetDirectCmdConfig(enable))
        \/ (\E d \in DcmdRequests : DcmdCommit(d))
    BY <1>9 DEF ApiCall, Enable, ResetIntCoalCounters, AttachCheck, StartCheck, SetIntCoalescingCfg,
                HaltBegin, HaltEnd, Unhalt, drvVars, hwVars
  <2> QED
    BY <1>1, <1>3, <1>4, <1>9, <2>1
<1> QED
  BY <1>5, <1>6, <1>7, <1>8, <1>9 DEF ApiContinue

\* A discard answers every request whose task it has cleared.
LEMMA DiscardOwed ==
    ASSUME IInv, CarefulInv, DiscardInv, OwedInv, DiscardFinish
    PROVE  OwedInv'
<1>0. /\ TypeOK /\ api \in ApiStates /\ api.pc = "finish" /\ api.op \in {"discard", "discardAll"}
      /\ dcmdEnabled \in BOOLEAN /\ UNCHANGED <<doorbell, notif>>
  BY DEF IInv, TypeOK, DiscardFinish, ApiStep, DiscardInv, hwVars
<1>1. Owing \subseteq Discarding \cup Owing'
  BY <1>0 DEF Owing, Ringing
<1>2. CASE api.op = "discardAll"
  <2>1. ScannedTasks \in SUBSET Tasks
    BY DepthAssumption, NumTasksAssumption DEF ScannedTasks, Tasks
  <2>2. Finish(ScannedTasks, dcmdEnabled, "FAILED")
    BY <1>2 DEF DiscardFinish
  <2>3. currentDcmd' = NoReq /\ \A t \in Tasks : ~IsRequestPending(t)'
    BY <1>0, <2>1, <2>2, FinishOwed DEF CarefulInv, Slotted, IsRequestPending
  <2> QED
    BY <2>3 DEF OwedInv
<1>3. CASE api.op = "discard"
  <2> DEFINE direct == dcmdEnabled /\ api.tasks = {DcmdTask}
             ts == IF direct THEN {} ELSE api.tasks
  <2>1. Finish(ts, direct, "FAILED") /\ direct \in BOOLEAN /\ Discarding = api.tasks
    BY <1>0, <1>3 DEF DiscardFinish, Discarding
  <2>2. PICK t \in Tasks : api.tasks = {t}
    BY <1>0, <1>3 DEF DiscardInv
  <2>3. ts \in SUBSET Tasks
    BY <2>2
  <2>4. \A u \in Tasks : IsRequestPending(u) /\ u \notin ts => u \notin api.tasks
    BY <2>2 DEF CarefulInv, Slotted, ScannedTasks, IsDirectTask, IsRequestPending
  <2>5. currentDcmd # NoReq /\ ~direct => DcmdTask \notin api.tasks
    BY <2>2 DEF CarefulInv
  <2> HIDE DEF direct, ts
  <2>6. /\ \A u \in Tasks : IsRequestPending(u)' => IsRequestPending(u) /\ u \notin ts
        /\ currentDcmd' # NoReq => currentDcmd # NoReq /\ ~direct
    BY <1>0, <2>1, <2>3, FinishOwed
  <2> QED
    BY <1>1, <2>1, <2>4, <2>5, <2>6 DEF OwedInv
<1> QED
  BY <1>0, <1>2, <1>3

\* The handler takes from CQRS11 only what it answers.
LEMMA HandlerOwed == ASSUME IInv, CarefulInv, OwedInv, IsrStep PROVE OwedInv'
<1>0. /\ TypeOK /\ isr \in IsrStates /\ UNCHANGED <<dcmdEnabled, api, doorbell>>
  <2>1. doorbell' = doorbell
    BY DEF IsrStep, IsrEnter, IsrDispatch, IsrTaskError, IsrHalted, IsrHaltTimeout, IsrRecover, IsrUnhalt,
           IsrClearError, IsrCqInt, IsrCoal, IsrReadNotif, IsrFinish, hwVars
  <2> QED
    BY <2>1, IsrOrHwKeeps DEF IInv, TypeOK
<1>1. Ringing' = Ringing /\ Discarding' = Discarding
  BY <1>0 DEF Ringing, Discarding, ScannedTasks, IsDirectTask
<1>2. CASE IsrFinish
  <2>1. isr.done \cap ScannedTasks \in SUBSET Tasks
    BY <1>0 DEF IsrStates
  <2>2. PICK dcmd \in BOOLEAN : dcmd = (dcmdEnabled /\ DcmdTask \in isr.done)
    OBVIOUS
  <2>3. Finish(isr.done \cap ScannedTasks, dcmd, "FINISHED") /\ notif' = notif \ isr.done
    BY <1>2, <2>2 DEF IsrFinish
  <2>4. /\ \A t \in Tasks : IsRequestPending(t)' => IsRequestPending(t) /\ t \notin isr.done \cap ScannedTasks
        /\ currentDcmd' # NoReq => currentDcmd # NoReq /\ ~dcmd
    BY <1>0, <2>1, <2>3, FinishOwed
  <2>5. \A t \in Tasks : IsRequestPending(t)' => IsRequestPending(t) /\ t \notin isr.done
    BY <2>4 DEF IsRequestPending, CarefulInv, Slotted
  <2>6. currentDcmd' # NoReq => currentDcmd # NoReq /\ DcmdTask \notin isr.done
    BY <2>2, <2>4 DEF CarefulInv
  <2> QED
    BY <1>0, <1>1, <2>3, <2>5, <2>6 DEF OwedInv, Owing
<1>3. ASSUME notif' = notif, FinishSome \/ UNCHANGED <<currentReq, currentDcmd, reqStat>> PROVE OwedInv'
  <2>1. /\ \A t \in Tasks : IsRequestPending(t)' => IsRequestPending(t)
        /\ currentDcmd' # NoReq => currentDcmd # NoReq
    BY <1>0, <1>3, FinishOwed DEF FinishSome, IsRequestPending
  <2> QED
    BY <1>0, <1>1, <1>3, <2>1 DEF OwedInv, Owing
<1>4. ~IsrFinish => notif' = notif
  BY DEF IsrStep, IsrEnter, IsrDispatch, IsrTaskError, IsrHalted, IsrHaltTimeout, IsrRecover, IsrUnhalt,
         IsrClearError, IsrCqInt, IsrCoal, IsrReadNotif, hwVars
<1> QED
  BY <1>2, <1>3, <1>4, IsrOrHwFinishes

\* The engine drops only tasks whose requests were answered or are about to be.
LEMMA EngineOwed ==
    ASSUME IInv, CarefulInv, HandlerInv, DiscardInv, ClearInv, OwedInv, HwStep,
           currentDcmd = NoReq \/ ErrorInv
    PROVE  OwedInv'
<1>0. /\ UNCHANGED <<dcmdEnabled, currentReq, currentDcmd, reqStat, api, isr>> /\ TypeOK /\ api \in ApiStates
  BY EngineSteps DEF IInv, TypeOK
<1>1. /\ Ringing' = Ringing /\ Discarding' = Discarding
      /\ \A t \in Tasks : IsRequestPending(t)' = IsRequestPending(t)
  BY <1>0 DEF Ringing, Discarding, ScannedTasks, IsDirectTask, IsRequestPending
<1>2. CASE doorbell \cup notif \subseteq doorbell' \cup notif'
  BY <1>0, <1>1, <1>2 DEF OwedInv, Owing
<1>3. ASSUME NEW t \in Tasks, HwClear(t) PROVE OwedInv'
  <2>1. doorbell' = doorbell \ {t} /\ notif' = notif /\ t \in clearReq
    BY <1>3 DEF HwClear
  <2>2. CASE t \in Discarded
    <3>1. api.pc = "finish" /\ api.op \in {"discard", "discardAll"}
      BY <2>2 DEF Discarded, DiscardInv
    <3>2. /\ IsRequestPending(t) => t \in Discarding
          /\ currentDcmd # NoReq /\ t = DcmdTask => t \in Discarding
      BY <2>2, <3>1 DEF Discarded, Discarding, CarefulInv, Slotted, IsRequestPending
    <3> QED
      BY <1>0, <1>1, <2>1, <3>2 DEF OwedInv, Owing
  <2>3. CASE isr.pc = "unhalt" /\ t = isr.task
    <3>1. currentReq[t] = NoReq /\ ~IsRequestPending(t)
      BY <2>3 DEF HandlerInv, Waiting, IsRequestPending
    <3>2. currentDcmd # NoReq => t # DcmdTask
      BY <2>3 DEF CarefulInv, ErrorInv, Waiting, Ordinary, IsDirectTask
    <3> QED
      BY <1>0, <1>1, <2>1, <3>1, <3>2 DEF OwedInv, Owing
  <2> QED
    BY <2>1, <2>2, <2>3 DEF ClearInv
<1>4. HwCoalTimer \/ HwHalt \/ (\E t \in Tasks : HwFetch(t) \/ HwComplete(t) \/ HwError(t)) =>
         doorbell \cup notif \subseteq doorbell' \cup notif'
  BY DEF HwCoalTimer, HwHalt, HwFetch, HwComplete, HwError
<1> QED
  BY <1>2, <1>3, <1>4 DEF HwStep

\* Whatever errors occur and however late interrupts are, as long as no direct command is
\* involved, and in an orderly system also with direct commands: a PENDING request has its
\* doorbell rung or about to be, its completion notified, or its discard under way.
THEOREM PendingAnswered == Spec => []PendingIsOwed
<1> DEFINE CInv == Careful => CarefulInv
           LInv == PromptClear => ClearInv
           OInv == Orderly => OrderInv
           Cond == Careful /\ PromptClear /\ (Orderly \/ "dcmd" \notin Ops)
           PInv == Cond => OwedInv
<1>1. Init => LInv /\ PInv
  <2> SUFFICES ASSUME Init PROVE ClearInv /\ OwedInv
    OBVIOUS
  <2> QED
    BY DEF Init, ClearInv, OwedInv, IsRequestPending
<1>2. IInv /\ DiscardInv /\ LInv /\ [Next]_vars => LInv'
  BY EnvKept, NextClear DEF PromptClear, IInv
<1>3. IInv /\ HandlerInv /\ DiscardInv /\ DirectInv /\ CInv /\ LInv /\ OInv /\ PInv /\ [Next]_vars => PInv'
  <2> SUFFICES ASSUME IInv, HandlerInv, DiscardInv, DirectInv, CInv, LInv, OInv, PInv, [Next]_vars, Cond'
               PROVE  OwedInv'
    OBVIOUS
  <2>1. /\ Careful /\ CarefulInv /\ ClearInv /\ OwedInv
        /\ currentDcmd = NoReq \/ ErrorInv
    BY EnvKept DEF Careful, PromptClear, Orderly, Timely, Errors, Ops, OrderInv, DirectInv
  <2>2. CASE UNCHANGED vars
    BY <2>1, <2>2 DEF vars, drvVars, hwVars, OwedInv, Owing, Ringing, Discarding, IsRequestPending,
                      ScannedTasks, IsDirectTask
  <2> QED
    BY <2>1, <2>2, ThreadOwed, DiscardOwed, HandlerOwed, EngineOwed DEF Next
<1>4. PInv => PendingIsOwed
  BY DEF PendingIsOwed, OwedInv, Owing
<1> QED
  BY <1>1, <1>2, <1>3, <1>4, Inductive, HandlerCorrect, DiscardCorrect, DirectCorrect, CarefulCorrect,
     OrderCorrect, PTL DEF Spec

-----------------------------------------------------------------------------------
(***************************************************************************)
(* CQ implements CQRequest.                                                *)
(***************************************************************************)

\* The requests of the slots ts and, when dcmd, the direct command.
Answered(ts, dcmd) == {r \in AllReqs : (\E t \in ts : currentReq[t] = r) \/ (dcmd /\ currentDcmd = r)}

\* FinishRequest answers requests the driver owns, or none.
LEMMA FinishAnswers ==
    ASSUME TypeOK, SlotsOwned, NEW ts \in SUBSET Tasks, NEW dcmd \in BOOLEAN, NEW status \in Stat,
           Finish(ts, dcmd, status)
    PROVE  /\ Answered(ts, dcmd) \subseteq InUse
           /\ reqStat' = [r \in AllReqs |-> IF r \in Answered(ts, dcmd) THEN status ELSE reqStat[r]]
<1> DEFINE done == {currentReq[t] : t \in ts} \cup (IF dcmd THEN {currentDcmd} ELSE {})
<1>1. reqStat' = [r \in AllReqs |-> IF r \in done THEN status ELSE reqStat[r]]
  BY DEF Finish
<1>2. \A r \in AllReqs : r \in Answered(ts, dcmd) <=> r \in done
  BY DEF Answered
<1> HIDE DEF done
<1>3. \A r \in Answered(ts, dcmd) : r \in AllReqs /\ r # NoReq
  BY RequestsAssumption DEF Answered
<1>4. \A r \in Answered(ts, dcmd) : r \in InUse
  BY <1>3 DEF Answered, SlotsOwned, InUse
<1> QED
  BY <1>1, <1>2, <1>4

Same == UNCHANGED <<reqStat, executed>>

\* Requests are taken over, refused and started as CQRequest says.
LEMMA ThreadRefines ==
    ASSUME Grounds, OrderInv, ApiCall \/ ApiContinue
    PROVE  Same \/ Abs!Next
<1>0. /\ TypeOK /\ SlotsOwned /\ ThreadInv /\ StartInv /\ api \in ApiStates
      /\ reqStat \in [AllReqs -> Stat]
  BY DEF Grounds, IInv, OrderInv, TypeOK
<1>a. Abs!Owned = InUse
  BY DEF Abs!Owned, InUse
<1>1. ASSUME NEW d \in DcmdRequests, DcmdCommit(d) PROVE Abs!Next
  <2>1. /\ d \in AllReqs /\ d \notin InUse
        /\ reqStat' = [reqStat EXCEPT ![d] = "PENDING"] /\ executed' = executed \ {d}
    BY <1>1 DEF DcmdCommit, AllReqs
  <2>2. Abs!Attach(d)
    BY <1>a, <2>1 DEF Abs!Attach
  <2> QED
    BY <2>1, <2>2 DEF Abs!Next
<1>2. CASE AttachReject
  <2>1. /\ api.req \in AllReqs /\ api.req \notin InUse
        /\ reqStat' = [reqStat EXCEPT ![api.req] = "FAILED"] /\ executed' = executed
    BY <1>0, <1>2 DEF AttachReject, ApiStep, ThreadInv, AllReqs, hwVars
  <2>2. Abs!Reject(api.req)
    BY <1>a, <2>1 DEF Abs!Reject
  <2> QED
    BY <2>1, <2>2 DEF Abs!Next
<1>3. CASE AttachCommit
  <2>1. /\ api.req \in AllReqs /\ api.req \notin InUse /\ api.req \notin DcmdRequests
        /\ reqStat' = [reqStat EXCEPT ![api.req] = "ATTACHED"] /\ executed' = executed \ {api.req}
    BY <1>0, <1>3, RequestsAssumption DEF AttachCommit, ApiStep, ThreadInv, AllReqs
  <2>2. Abs!Attach(api.req)
    BY <1>a, <2>1 DEF Abs!Attach
  <2> QED
    BY <2>1, <2>2 DEF Abs!Next
<1>4. CASE StartMark
  <2> DEFINE R == {r \in AllReqs : \E t \in api.tasks : currentReq[t] = r}
  <2>1. /\ api.pc = "start" /\ executed' = executed
        /\ reqStat' = [r \in AllReqs |-> IF r \in R THEN "PENDING" ELSE reqStat[r]]
    BY <1>4 DEF StartMark, ApiStep, hwVars
  <2>2. \A r \in R : reqStat[r] = "ATTACHED"
    BY <1>0, <2>1 DEF StartInv, IsRequestAttached
  <2>3. R \in SUBSET AllReqs
    OBVIOUS
  <2> HIDE DEF R
  <2>4. CASE R = {}
    BY <1>0, <2>1, <2>4 DEF Same
  <2>5. CASE R # {}
    <3>1. Abs!Start(R)
      BY <2>1, <2>2, <2>5 DEF Abs!Start, Abs!Answer
    <3> QED
      BY <2>3, <3>1 DEF Abs!Next
  <2> QED
    BY <2>4, <2>5
<1>5. CASE DiscardFinish
  <2>1. PICK ts \in SUBSET Tasks, dcmd \in BOOLEAN : Finish(ts, dcmd, "FAILED")
    <3>1. api.tasks \in SUBSET Tasks /\ ScannedTasks \in SUBSET Tasks /\ dcmdEnabled \in BOOLEAN
      BY <1>0, DepthAssumption, NumTasksAssumption DEF TypeOK, ApiStates, ScannedTasks, Tasks
    <3> QED
      BY <1>5, <3>1 DEF DiscardFinish
  <2>2. PICK R \in SUBSET InUse : reqStat' = [r \in AllReqs |-> IF r \in R THEN "FAILED" ELSE reqStat[r]]
    BY <1>0, <2>1, FinishAnswers DEF Stat
  <2>3. executed' = executed
    BY <1>5 DEF DiscardFinish, hwVars
  <2>4. CASE R = {}
    BY <1>0, <2>2, <2>3, <2>4 DEF Same
  <2>5. CASE R # {}
    <3>1. Abs!Fail(R)
      BY <1>a, <2>2, <2>3, <2>5 DEF Abs!Fail, Abs!Answer
    <3>2. R \in SUBSET AllReqs
      BY DEF InUse
    <3> QED
      BY <3>1, <3>2 DEF Abs!Next
  <2> QED
    BY <2>4, <2>5
<1> QED
  BY <1>1, <1>2, <1>3, <1>4, <1>5
     DEF Same, ApiCall, Enable, Disable, ResetIntCoalCounters, AttachCheck, StartCheck, SetDirectCmdConfig,
         SetIntCoalescingCfg, HaltBegin, HaltEnd, Unhalt, ApiContinue, Ring, HaltSeen, HaltTimeout, HaltSet,
         DiscardEnd, DiscardTask, DiscardAllTasks, drvVars, hwVars

\* The handler answers FINISHED only what was executed.
LEMMA HandlerRefines ==
    ASSUME Grounds, OrderInv, IsrStep
    PROVE  Same \/ Abs!Next
<1>0. TypeOK /\ SlotsOwned /\ EngineInv /\ isr \in IsrStates /\ reqStat \in [AllReqs -> Stat]
  BY DEF Grounds, IInv, OrderInv, TypeOK
<1>1. CASE IsrTaskError
  <2>1. PICK ts \in SUBSET Tasks, dcmd \in BOOLEAN : Finish(ts, dcmd, "FAILED")
    BY <1>0, <1>1 DEF IsrTaskError, TypeOK, IsDirectTask
  <2>2. PICK R \in SUBSET InUse : reqStat' = [r \in AllReqs |-> IF r \in R THEN "FAILED" ELSE reqStat[r]]
    BY <1>0, <2>1, FinishAnswers DEF Stat
  <2>3. executed' = executed
    BY <1>1 DEF IsrTaskError
  <2>4. CASE R = {}
    BY <1>0, <2>2, <2>3, <2>4 DEF Same
  <2>5. CASE R # {}
    <3>1. Abs!Fail(R)
      BY <2>2, <2>3, <2>5 DEF Abs!Fail, Abs!Answer, Abs!Owned, InUse
    <3>2. R \in SUBSET AllReqs
      BY DEF InUse
    <3> QED
      BY <3>1, <3>2 DEF Abs!Next
  <2> QED
    BY <2>4, <2>5
<1>2. CASE IsrFinish
  <2>1. PICK ts \in SUBSET Tasks : ts = isr.done \cap ScannedTasks /\ isr.done \subseteq notif
    BY <1>0, <1>2 DEF IsrStates, Grounds, HandlerInv, IsrFinish, IsrAt
  <2>2. PICK dcmd \in BOOLEAN : dcmd = (dcmdEnabled /\ DcmdTask \in isr.done)
    OBVIOUS
  <2>3. Finish(ts, dcmd, "FINISHED") /\ executed' = executed
    BY <1>2, <2>1, <2>2 DEF IsrFinish
  <2>4. PICK R : R = Answered(ts, dcmd)
    OBVIOUS
  <2>5. R \subseteq InUse /\ reqStat' = [r \in AllReqs |-> IF r \in R THEN "FINISHED" ELSE reqStat[r]]
    BY <1>0, <2>1, <2>2, <2>3, <2>4, FinishAnswers, ZenonT(30) DEF Stat
  <2>6. \A r \in R : r \in AllReqs /\ reqStat[r] = "PENDING" /\ r \in executed
    <3>1. \A t \in isr.done : Live(t) /\ Owner(t) \in executed
      BY <1>0, <2>1 DEF EngineInv
    <3>2. ASSUME NEW r \in R, NEW t \in ts, currentReq[t] = r
          PROVE  reqStat[r] = "PENDING" /\ r \in executed
      BY <2>1, <3>1, <3>2 DEF ScannedTasks, Live, Owner
    <3>3. ASSUME NEW r \in R, dcmd, currentDcmd = r PROVE reqStat[r] = "PENDING" /\ r \in executed
      BY <2>2, <3>1, <3>3 DEF Live, Owner, IsDirectTask
    <3> QED
      BY <2>4, <3>2, <3>3 DEF Answered
  <2>7. CASE R = {}
    BY <1>0, <2>3, <2>5, <2>7 DEF Same
  <2>8. CASE R # {}
    <3>1. Abs!Succeed(R)
      BY <2>3, <2>5, <2>6, <2>8 DEF Abs!Succeed, Abs!Answer, Abs!Pending
    <3>2. R \in SUBSET AllReqs
      BY <2>6
    <3> QED
      BY <3>1, <3>2 DEF Abs!Next
  <2> QED
    BY <2>7, <2>8
<1> QED
  BY <1>1, <1>2
     DEF Same, IsrStep, IsrEnter, IsrDispatch, IsrHalted, IsrHaltTimeout, IsrRecover, IsrUnhalt,
         IsrClearError, IsrCqInt, IsrCoal, IsrReadNotif, drvVars, hwVars

\* The engine executes only requests that were started.
LEMMA EngineRefines ==
    ASSUME Grounds, OrderInv, HwStep
    PROVE  Same \/ Abs!Next
<1>0. TypeOK /\ EngineInv /\ ErrorInv /\ reqStat' = reqStat /\ hwReq \in [Tasks -> AllReqs \cup {NoReq}]
  BY EngineSteps DEF Grounds, IInv, OrderInv, TypeOK
<1>1. ASSUME NEW t \in Tasks, HwComplete(t) PROVE Abs!Next
  <2>1. t \in doorbell /\ t \notin stuck /\ hwReq[t] # NoReq /\ executed' = executed \cup {hwReq[t]}
    BY <1>1 DEF HwComplete, Running
  <2>2. Rung(t) /\ hwReq[t] = Owner(t) /\ hwReq[t] \in AllReqs
    BY <1>0, <2>1 DEF EngineInv, ErrorInv, Rung
  <2>3. Abs!Execute(hwReq[t])
    BY <1>0, <2>1, <2>2 DEF Abs!Execute, Rung, Live
  <2> QED
    BY <2>2, <2>3 DEF Abs!Next
<1>2. HwCoalTimer \/ HwHalt \/ (\E t \in Tasks : HwFetch(t) \/ HwError(t) \/ HwClear(t)) => Same
  BY <1>0 DEF HwCoalTimer, HwHalt, HwFetch, HwError, HwClear, Same
<1> QED
  BY <1>1, <1>2 DEF HwStep

\* What the client of an orderly system sees of a request is what CQRequest promises: it is
\* attached, started and answered once, and FINISHED only after it was executed.
THEOREM Implements == Spec => Refines
<1> DEFINE CInv == Careful => CarefulInv
           WInv == Careful => WakeInv
           OInv == Orderly => OrderInv
<1>1. Init => Abs!Init
  BY DEF Init, Abs!Init
<1>2. IInv /\ HandlerInv /\ DiscardInv /\ CInv /\ WInv /\ OInv /\ [Next]_vars
        => [Orderly => Abs!Next]_(Abs!vars)
  <2> SUFFICES ASSUME IInv, HandlerInv, DiscardInv, CInv, WInv, OInv, [Next]_vars, Orderly
               PROVE  Abs!Next \/ UNCHANGED (Abs!vars)
    OBVIOUS
  <2>1. Grounds /\ OrderInv
    BY DEF Orderly, Grounds
  <2>2. CASE UNCHANGED vars
    BY <2>2 DEF vars, drvVars, hwVars, Abs!vars
  <2>3. Same => UNCHANGED (Abs!vars)
    BY DEF Same, Abs!vars
  <2> QED
    BY <2>1, <2>2, <2>3, ThreadRefines, HandlerRefines, EngineRefines DEF Next
<1> QED
  BY <1>1, <1>2, Inductive, HandlerCorrect, DiscardCorrect, CarefulCorrect, WakeCorrect, OrderCorrect, PTL
     DEF Spec, Refines
====
