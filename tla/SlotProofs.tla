---------------------------------- MODULE SlotProofs ----------------------------------
(* Proofs about Slot for every set of requests and all surroundings: a command is sent   *)
(* only on free lines (SentWhenFree), and pCurrentRequest refers to no function that has *)
(* returned (CurrentIsLive).  For a tame client, whatever errors and removals there are: *)
(* an OK is the truth (OkWasExecuted), and no request is forgotten (PendingIsOwed).      *)
EXTENDS Slot, TLAPS

LEMMA EnvConstant == [Next]_vars => env' = env
  BY DEF vars, Next, ApiStep, ApiContinue, IsrStep, RecStep, HwStep, HwAnswer,
     ExecCall, WaitCall, AbortCall, SyncAbortCall, DetachCall, AttachCall,
     ExecSwap, ExecLineBusy, ExecPrepare, ExecFlag, ExecSend, WaitRound, WaitAgain, WaitTimeout,
     WaitDone, AbortStopped, AbortReset, AbortRecovered, AbortFinish, DetachEnd,
     IsrEnter, IsrReturn, IsrRead, IsrCard, IsrNormal, IsrError, IsrErrorEnd,
     RecStart, RecSend, RecPoll, RecEnd,
     HwResponse, HwTransfer, HwCmdError, HwDatError, HwStopAtGap, HwCard

----------------------------------------------------------------------------
(* What has which fields *)

ShapeInv == /\ DOMAIN api = {"pc", "req", "main", "aborting", "outer"}
            /\ DOMAIN isr = {"pc", "bits", "cur", "scmds"}
            /\ DOMAIN rec = Parties
            /\ \A o \in Parties : DOMAIN rec[o] = {"pc", "saved", "sig", "auto", "bits", "ok"}

LEMMA InitShape == Init => ShapeInv
  BY DEF Init, ShapeInv, ApiIdle, IsrIdle, RecIdle, Parties

LEMMA NextShape == ShapeInv /\ [Next]_vars => ShapeInv'
<1> SUFFICES ASSUME ShapeInv, [Next]_vars PROVE ShapeInv'
  OBVIOUS
<1> USE DEF ShapeInv
<1>2. CASE UNCHANGED vars
  BY <1>2 DEF vars
<1>3. CASE ApiStep
  BY <1>3 DEF ApiStep, ExecCall, WaitCall, AbortCall, SyncAbortCall, DetachCall, AttachCall, ApiIdle, Goto
<1>4. CASE ApiContinue
  <2>1. CASE ExecSwap \/ ExecLineBusy \/ ExecPrepare \/ ExecFlag \/ ExecSend
    BY <2>1 DEF ExecSwap, ExecLineBusy, ExecPrepare, ExecFlag, ExecSend, Issued, Goto, ApiIdle
  <2>2. CASE WaitRound \/ WaitAgain \/ WaitTimeout
    BY <2>2 DEF WaitRound, WaitAgain, WaitTimeout, Goto
  <2>3. CASE WaitDone
    BY <2>3 DEF WaitDone, Goto, ApiIdle, RecIdle, Parties
  <2>4. CASE AbortStopped \/ AbortReset \/ AbortRecovered \/ AbortFinish \/ DetachEnd
    BY <2>4 DEF AbortStopped, AbortReset, AbortRecovered, AbortFinish, DetachEnd, Goto, ApiIdle, RecIdle,
       AbortReturn, Parties
  <2> QED
    BY <1>4, <2>1, <2>2, <2>3, <2>4 DEF ApiContinue
<1>5. CASE IsrStep
  <2>1. CASE IsrEnter \/ IsrReturn \/ IsrRead \/ IsrCard \/ IsrNormal
    BY <2>1 DEF IsrEnter, IsrReturn, IsrRead, IsrCard, IsrNormal, IsrIdle
  <2>2. CASE IsrError \/ IsrErrorEnd
    <3>1. CASE IsrError
      BY <3>1 DEF IsrError, RecIdle, Parties
    <3>2. CASE IsrErrorEnd
      BY <3>2 DEF IsrErrorEnd, RecIdle, IsrIdle, Parties
    <3> QED
      BY <2>2, <3>1, <3>2
  <2> QED
    BY <1>5, <2>1, <2>2 DEF IsrStep
<1>6. CASE \E o \in Parties : RecStep(o)
  <2>1. PICK o \in Parties : RecStep(o)
    BY <1>6
  <2>2. UNCHANGED <<api, isr>>
    BY <2>1 DEF RecStep, RecStart, RecSend, RecPoll, RecEnd
  <2>3. DOMAIN rec' = Parties /\ \A p \in Parties : DOMAIN rec'[p] = {"pc", "saved", "sig", "auto", "bits", "ok"}
    BY <2>1 DEF RecStep, RecStart, RecSend, RecPoll, RecEnd, RecFails
  <2> QED
    BY <2>2, <2>3
<1>7. CASE HwStep
  BY <1>7 DEF HwStep, HwAnswer, HwResponse, HwTransfer, HwCmdError, HwDatError, HwStopAtGap, HwCard
<1> QED
  BY <1>2, <1>3, <1>4, <1>5, <1>6, <1>7 DEF Next

----------------------------------------------------------------------------
(* Where the thread, the handler and the recoveries are *)

\* A recovery runs inside the function that started it; with interrupts off the handler
\* runs inside SDIOHost_CheckBusy.
PlaceInv == /\ rec["api"].pc # "idle" => api.pc = "recover"
            /\ rec["isr"].pc # "idle" => isr.pc = "recover"
            /\ ~IntEn /\ isr.pc # "idle" => api.pc = "poll"

LEMMA InitPlace == Init => PlaceInv
  BY DEF Init, PlaceInv, RecIdle, IsrIdle, Parties

LEMMA NextPlace == ShapeInv /\ PlaceInv /\ [Next]_vars => PlaceInv'
<1> SUFFICES ASSUME ShapeInv, PlaceInv, [Next]_vars PROVE PlaceInv'
  OBVIOUS
<1> USE DEF ShapeInv, PlaceInv, IntEn, Parties
<1>1. env' = env
  BY EnvConstant
<1>2. CASE UNCHANGED vars
  BY <1>2 DEF vars, hwVars
<1>3. CASE ApiStep
  BY <1>1, <1>3 DEF ApiStep, ExecCall, WaitCall, AbortCall, SyncAbortCall, DetachCall, AttachCall,
     Call, ApiAt, ApiIdle, Goto
<1>4. CASE ApiContinue
  <2>1. CASE ExecSwap \/ ExecLineBusy \/ ExecPrepare \/ ExecFlag \/ ExecSend
    BY <1>1, <2>1 DEF ExecSwap, ExecLineBusy, ExecPrepare, ExecFlag, ExecSend, ApiAt, Issued, Goto, ApiIdle
  <2>2. CASE WaitRound \/ WaitAgain \/ WaitTimeout
    BY <1>1, <2>2 DEF WaitRound, WaitAgain, WaitTimeout, ApiAt, Goto
  <2>3. CASE WaitDone
    BY <1>1, <2>3 DEF WaitDone, ApiAt, Goto, ApiIdle, RecIdle
  <2>4. CASE AbortStopped \/ AbortReset \/ AbortRecovered \/ AbortFinish \/ DetachEnd
    BY <1>1, <2>4 DEF AbortStopped, AbortReset, AbortRecovered, AbortFinish, DetachEnd, ApiAt, Goto,
       ApiIdle, RecIdle, AbortReturn
  <2> QED
    BY <1>4, <2>1, <2>2, <2>3, <2>4 DEF ApiContinue
<1>5. CASE IsrStep
  <2>1. CASE IsrEnter
    BY <1>1, <2>1 DEF IsrEnter, IsrIdle
  <2>2. CASE IsrReturn
    BY <1>1, <2>2 DEF IsrReturn, IsrIdle, IntEn
  <2>3. CASE IsrRead \/ IsrCard \/ IsrNormal
    BY <1>1, <2>3 DEF IsrRead, IsrCard, IsrNormal, IsrIdle
  <2>4. CASE IsrError
    BY <1>1, <2>4 DEF IsrError, RecIdle
  <2>5. CASE IsrErrorEnd
    BY <1>1, <2>5 DEF IsrErrorEnd, RecIdle, IsrIdle
  <2> QED
    BY <1>5, <2>1, <2>2, <2>3, <2>4, <2>5 DEF IsrStep
<1>6. CASE \E o \in Parties : RecStep(o)
  <2>1. PICK o \in Parties : RecStep(o)
    BY <1>6
  <2>2. UNCHANGED <<api, isr>> /\ rec[o].pc # "idle"
    BY <2>1 DEF RecStep, RecStart, RecSend, RecPoll, RecEnd, RecAt
  <2>3. \A p \in Parties : p # o => rec'[p] = rec[p]
    BY <2>1 DEF RecStep, RecStart, RecSend, RecPoll, RecEnd, RecFails
  <2> QED
    BY <1>1, <2>2, <2>3 DEF Parties
<1>7. CASE HwStep
  BY <1>1, <1>7 DEF HwStep, HwAnswer, HwResponse, HwTransfer, HwCmdError, HwDatError, HwStopAtGap, HwCard
<1> QED
  BY <1>2, <1>3, <1>4, <1>5, <1>6, <1>7 DEF Next

----------------------------------------------------------------------------
(* Commands are sent on free lines *)

\* Once the thread has seen its lines free they stay free until it sends: a recovery that
\* cuts in takes them for its CMD12 and resets them before the handler returns.
LinesInv ==
    ~env.resetFails /\ api.pc \in {"flag", "send"} /\ rec["isr"].pc # "poll" =>
        cmdLine = NoReq /\ (ChecksDat(api.req) => datLine = NoReq)

\* The controller takes a line from the driver, or leaves a line inhibited that was in use.
LEMMA HwLeavesLines ==
    ASSUME HwStep PROVE /\ UNCHANGED <<env, api, isr, rec>>
                        /\ cmdLine = NoReq => cmdLine' = NoReq
                        /\ datLine = NoReq => datLine' = NoReq
                        /\ cmdLine' \in {cmdLine, NoReq, Blocked}
<1>1. NoReq \notin AllReqs /\ NoReq \notin Data
  BY RequestsAssumption DEF AllReqs, Reqs, Data
<1> QED
  BY <1>1 DEF HwStep, HwAnswer, HwResponse, HwTransfer, HwCmdError, HwDatError, HwStopAtGap, HwCard

\* The handler's own steps free lines at most.
LEMMA IsrLeavesLines ==
    ASSUME IsrStep PROVE /\ cmdLine' \in {cmdLine, NoReq} /\ datLine' \in {datLine, NoReq}
  BY DEF IsrStep, IsrEnter, IsrReturn, IsrRead, IsrCard, IsrNormal, IsrError, IsrErrorEnd, CardEvent, Progress,
     hwVars

LEMMA InitLines == Init => LinesInv
  BY DEF Init, LinesInv, ApiIdle

LEMMA NextLines == ShapeInv /\ PlaceInv /\ LinesInv /\ [Next]_vars => LinesInv'
<1> SUFFICES ASSUME ShapeInv, PlaceInv, LinesInv, [Next]_vars PROVE LinesInv'
  OBVIOUS
<1> USE DEF LinesInv
<1>1. env' = env
  BY EnvConstant
<1>2. CASE UNCHANGED vars
  BY <1>2 DEF vars, hwVars
<1>3. CASE ApiStep
  <2>1. api'.pc \notin {"flag", "send"}
    BY <1>3 DEF ApiStep, ExecCall, WaitCall, AbortCall, SyncAbortCall, DetachCall, AttachCall,
       Call, ApiAt, ApiIdle, Goto, ShapeInv
  <2> QED
    BY <2>1
<1>4. CASE ApiContinue
  <2> USE DEF ShapeInv
  <2>1. CASE ExecSwap \/ ExecLineBusy \/ ExecSend
    <3>1. CASE ExecSwap
      BY <3>1 DEF ExecSwap
    <3>2. CASE ExecLineBusy \/ ExecSend
      <4>1. Issued
        BY <3>2 DEF ExecLineBusy, ExecSend
      <4> QED
        BY <4>1 DEF Issued, Goto, ApiIdle
    <3> QED
      BY <2>1, <3>1, <3>2
  <2>2. CASE ExecPrepare
    <3>1. LinesFree(api.req) /\ UNCHANGED <<cmdLine, datLine>>
      BY <2>2 DEF ExecPrepare
    <3>2. api'.pc \in {"flag", "send"} => api'.req = api.req
      BY <2>2 DEF ExecPrepare, Issued, Goto, ApiIdle
    <3> QED
      BY <3>1, <3>2 DEF LinesFree, ChecksDat
  <2>3. CASE ExecFlag
    <3>1. api.pc = "flag" /\ api' = [api EXCEPT !.pc = "send"] /\ UNCHANGED <<cmdLine, datLine, rec>>
      BY <2>3 DEF ExecFlag, ApiAt, Goto, hwVars
    <3> QED
      BY <1>1, <3>1 DEF ChecksDat
  <2>4. CASE WaitRound \/ WaitAgain \/ WaitTimeout \/ WaitDone
    <3>1. CASE WaitRound \/ WaitAgain
      BY <3>1 DEF WaitRound, WaitAgain, Goto
    <3>2. CASE WaitTimeout
      <4>1. api' \in {[api EXCEPT !.pc = "wait"], [api EXCEPT !.pc = "reset", !.outer = api.req]}
        BY <3>2 DEF WaitTimeout, Goto
      <4> QED
        BY <4>1
    <3>3. CASE WaitDone
      <4>1. api' \in {ApiIdle, [api EXCEPT !.pc = "finish"], [api EXCEPT !.pc = "recover"]}
        BY <3>3 DEF WaitDone, Goto
      <4> QED
        BY <4>1 DEF ApiIdle
    <3> QED
      BY <2>4, <3>1, <3>2, <3>3
  <2>5. CASE AbortStopped \/ AbortReset \/ AbortRecovered \/ AbortFinish \/ DetachEnd
    <3>1. CASE AbortStopped
      BY <3>1 DEF AbortStopped, Goto
    <3>2. CASE AbortReset
      <4>1. api' = ApiIdle \/ api'.pc = "swap"
        BY <3>2, ZenonT(30) DEF AbortReset, ShapeInv
      <4> QED
        BY <4>1 DEF ApiIdle
    <3>3. CASE AbortRecovered \/ AbortFinish \/ DetachEnd
      <4>1. api' = ApiIdle
        BY <3>3 DEF AbortRecovered, AbortFinish, DetachEnd, AbortReturn
      <4> QED
        BY <4>1 DEF ApiIdle
    <3> QED
      BY <2>5, <3>1, <3>2, <3>3
  <2> QED
    BY <1>4, <2>1, <2>2, <2>3, <2>4, <2>5 DEF ApiContinue
<1>5. CASE IsrStep
  <2>1. api'.pc \in {"flag", "send"} => api' = api
    BY <1>5 DEF IsrStep, IsrEnter, IsrReturn, IsrRead, IsrCard, IsrNormal, IsrError, IsrErrorEnd, ShapeInv
  <2>2. rec["isr"].pc # "poll"
    BY <1>5 DEF IsrStep, IsrEnter, IsrReturn, IsrRead, IsrCard, IsrNormal, IsrError, IsrErrorEnd, PlaceInv
  <2> QED
    BY <1>1, <1>5, <2>1, <2>2, IsrLeavesLines DEF ChecksDat
<1>6. CASE \E o \in Parties : RecStep(o)
  <2>1. PICK o \in Parties : RecStep(o)
    BY <1>6
  <2>2. UNCHANGED <<api, isr>> /\ rec[o].pc # "idle"
    BY <2>1 DEF RecStep, RecStart, RecSend, RecPoll, RecEnd, RecAt
  <2>3. CASE o = "api"
    BY <2>2, <2>3 DEF PlaceInv
  <2>4. CASE o = "isr"
    <3>1. CASE RecStart(o)
      <4>1. cmdLine' \in {cmdLine, NoReq} /\ datLine' \in {datLine, NoReq} /\ rec[o].pc = "start"
        BY <3>1 DEF RecStart, RecAt, KeepLines
      <4> QED
        BY <1>1, <2>2, <2>4, <4>1 DEF ChecksDat
    <3>2. CASE RecSend(o)
      <4>1. rec'[o].pc = "poll"
        BY <2>4, <3>2 DEF RecSend, ShapeInv, Parties
      <4> QED
        BY <2>4, <4>1
    <3>3. CASE RecPoll(o)
      BY <1>1, <2>4, <3>3 DEF RecPoll, RecAt
    <3>4. CASE RecEnd(o)
      <4>1. env.resetFails \/ (cmdLine' = NoReq /\ datLine' = NoReq)
        BY <3>4 DEF RecEnd, ResetBoth, ResetFails
      <4> QED
        BY <1>1, <4>1
    <3> QED
      BY <2>1, <3>1, <3>2, <3>3, <3>4 DEF RecStep
  <2> QED
    BY <2>3, <2>4 DEF Parties
<1>7. CASE HwStep
  BY <1>1, <1>7, HwLeavesLines DEF ChecksDat
<1> QED
  BY <1>2, <1>3, <1>4, <1>5, <1>6, <1>7 DEF Next

\* Only two steps put a command on the line.
LEMMA Sends ==
    ASSUME ShapeInv, PlaceInv, LinesInv, [Next]_vars, cmdLine' \in AllReqs, cmdLine' # cmdLine, ~env.resetFails
    PROVE  cmdLine = NoReq /\ (ChecksDat(cmdLine') => datLine = NoReq)
<1>1. NoReq \notin AllReqs /\ Blocked \notin AllReqs
  BY RequestsAssumption
<1>2. CASE UNCHANGED vars
  BY <1>2 DEF vars, hwVars
<1>3. CASE ApiStep
  BY <1>1, <1>3 DEF ApiStep, ExecCall, WaitCall, AbortCall, SyncAbortCall, DetachCall, AttachCall, hwVars,
     ResetBoth, KeepLines
<1>4. CASE ApiContinue
  <2>1. CASE ExecSend
    <3>1. api.pc = "send" /\ isr.pc = "idle" /\ cmdLine' = api.req
      BY <2>1 DEF ExecSend, ApiAt, Send
    <3>2. rec["isr"].pc # "poll"
      BY <3>1 DEF PlaceInv
    <3> QED
      BY <3>1, <3>2 DEF LinesInv
  <2>2. CASE ~ExecSend
    BY <1>1, <1>4, <2>2 DEF ApiContinue, ExecSwap, ExecLineBusy, ExecPrepare, ExecFlag, WaitRound, WaitAgain,
       WaitTimeout, WaitDone, AbortStopped, AbortReset, AbortRecovered, AbortFinish, DetachEnd, hwVars,
       ResetBoth, KeepLines
  <2> QED
    BY <2>1, <2>2
<1>5. CASE IsrStep
  BY <1>1, <1>5, IsrLeavesLines
<1>6. CASE \E o \in Parties : RecStep(o)
  <2>1. PICK o \in Parties : RecStep(o)
    BY <1>6
  <2>2. CASE RecSend(o)
    <3>1. cmdLine = NoReq /\ cmdLine' = RecReq(o)
      BY <2>2 DEF RecSend, KeepLines, Send
    <3>2. RecReq(o) \in Cmd12 /\ Reqs \cap Cmd12 = {}
      BY RequestsAssumption DEF RecReq, Cmd12
    <3> QED
      BY <3>1, <3>2 DEF ChecksDat, Reqs
  <2>3. CASE ~RecSend(o)
    BY <1>1, <2>1, <2>3 DEF RecStep, RecStart, RecPoll, RecEnd, KeepLines, ResetBoth, CardEvent, Progress
  <2> QED
    BY <2>2, <2>3
<1>7. CASE HwStep
  BY <1>1, <1>7, HwLeavesLines
<1> QED
  BY <1>2, <1>3, <1>4, <1>5, <1>6, <1>7 DEF Next

\* A command is written only on free lines, for any client, any errors and cards that come
\* and go, unless a software reset fails (SDIOHost_ExecCardCommand_ProcessRequest, which the
\* thread and the recovery run, after SDIOHost_IsDatLineBusy and the command inhibit bit).
THEOREM LinesAreFree == Spec => SentWhenFree
<1> DEFINE Inv == ShapeInv /\ PlaceInv /\ LinesInv
<1>1. Init => Inv
  BY InitShape, InitPlace, InitLines
<1>2. Inv /\ [Next]_vars => Inv'
  BY NextShape, NextPlace, NextLines
<1>3. Inv /\ [Next]_vars =>
        [cmdLine' \in AllReqs /\ cmdLine' # cmdLine /\ ~env.resetFails =>
            cmdLine = NoReq /\ (ChecksDat(cmdLine') => datLine = NoReq)]_vars
  BY Sends
<1> QED
  BY <1>1, <1>2, <1>3, PTL DEF Spec, SentWhenFree
----------------------------------------------------------------------------
(* pCurrentRequest refers to nobody who has returned *)

\* Where a call of the client leaves the thread.
Called == /\ api'.req \in Reqs \cup {NoReq, api.req}
          /\ api'.main \in {NoReq, api.main}
          /\ api'.pc \notin {"inhibit", "flag", "send", "recover"}
          /\ api'.pc = "reset" => "abort" \in env.ops \/ api' = api
          /\ api'.pc = "spin" => "sync" \in env.ops \/ api' = api
          /\ api'.req \in Reqs \cup {NoReq} \/ api'.pc = "detach" \/ api' = api
LEMMA Calls == ASSUME ShapeInv, ApiStep PROVE api.pc = "idle" /\ isr.pc = "idle" /\ Called
<1> USE DEF ApiAt, Called
<1>1. CASE \E r \in Reqs : ExecCall(r) \/ WaitCall(r)
  <2>1. PICK r \in Reqs : ExecCall(r) \/ WaitCall(r)
    BY <1>1
  <2>2. api.pc = "idle" /\ isr.pc = "idle"
    BY <2>1 DEF ExecCall, WaitCall, Call
  <2>3. api' \in {api, [ApiIdle EXCEPT !.pc = "swap", !.req = r], [ApiIdle EXCEPT !.pc = "wait", !.req = r]}
    BY <2>1 DEF ExecCall, WaitCall
  <2> QED
    BY <2>2, <2>3 DEF ApiIdle
<1>2. CASE AbortCall
  BY <1>2 DEF AbortCall, Call, Ops, ApiIdle
<1>3. CASE SyncAbortCall
  BY <1>3 DEF SyncAbortCall, Call, Ops, ApiIdle
<1>4. CASE DetachCall
  BY <1>4 DEF DetachCall, Call, Goto, ShapeInv
<1>5. CASE AttachCall
  BY <1>5 DEF AttachCall, Call
<1> QED
  BY <1>1, <1>2, <1>3, <1>4, <1>5 DEF ApiStep

\* What the controller leaves to the driver.
LEMMA HwLeavesDriver ==
    ASSUME HwStep
    PROVE  /\ UNCHANGED <<env, status, current, api, isr, rec>>
           /\ cmdLine # NoReq \/ datLine # NoReq \/ env.removal
           /\ env.errors = {} /\ ~env.removal /\ card = "ready" =>
                 /\ card' = "ready" /\ cmdLine' \in {cmdLine, NoReq}
                 /\ srs' \subseteq srs \cup {"CC", "TC", "GAP"}
           /\ "EAUTO" \notin env.errors /\ "EAUTO" \notin srs => "EAUTO" \notin srs'
  BY RequestsAssumption DEF HwStep, HwAnswer, HwResponse, HwTransfer, HwCmdError, HwDatError, HwStopAtGap, HwCard, reqVars,
     Errors, Removal, AllReqs, Reqs

\* Auto CMD12 errors come from the controller only.
LEMMA NoAutoError ==
    ASSUME [Next]_vars, "EAUTO" \notin env.errors, "EAUTO" \notin srs PROVE "EAUTO" \notin srs'
<1>1. CASE UNCHANGED vars
  BY <1>1 DEF vars, hwVars
<1>2. CASE ApiStep
  BY <1>2 DEF ApiStep, ExecCall, WaitCall, AbortCall, SyncAbortCall, DetachCall, AttachCall, hwVars,
     ResetBoth, KeepLines
<1>3. CASE ApiContinue
  BY <1>3 DEF ApiContinue, ExecSwap, ExecLineBusy, ExecPrepare, ExecFlag, ExecSend, WaitRound, WaitAgain,
     WaitTimeout, WaitDone, AbortStopped, AbortReset, AbortRecovered, AbortFinish, DetachEnd, hwVars,
     ResetBoth, KeepLines
<1>4. CASE IsrStep
  BY <1>4 DEF IsrStep, IsrEnter, IsrReturn, IsrRead, IsrCard, IsrNormal, IsrError, IsrErrorEnd, CardEvent,
     Progress, hwVars
<1>5. CASE \E o \in Parties : RecStep(o)
  BY <1>5 DEF RecStep, RecStart, RecSend, RecPoll, RecEnd, KeepLines, ResetBoth, CardEvent, Progress
<1>6. CASE HwStep
  BY <1>6, HwLeavesDriver
<1> QED
  BY <1>1, <1>2, <1>3, <1>4, <1>5, <1>6 DEF Next

RecReqs == {"recApi", "recIsr"}

\* The CMD12 of a recovery is current only while that recovery polls for it; what a recovery
\* saved to put back is never its own CMD12, and the handler's gives back the thread's.
RecInv == "EAUTO" \notin env.errors =>
    /\ "EAUTO" \notin srs
    /\ api.req \notin RecReqs
    /\ api.pc \in {"inhibit", "flag"} => api.main \notin RecReqs
    /\ \A o \in Parties :
          /\ "EAUTO" \notin rec[o].bits
          /\ current = RecReq(o) => rec[o].pc = "poll"
          /\ rec[o].pc \in {"send", "poll"} => ~rec[o].auto /\ rec[o].saved # "recIsr"
    /\ rec["api"].pc \in {"send", "poll"} => rec["api"].saved # "recApi"
    /\ rec["isr"].pc \in {"send", "poll"} /\ rec["isr"].saved = "recApi" => rec["api"].pc = "poll"

LEMMA RecReqFacts ==
    /\ RecReq("api") = "recApi" /\ RecReq("isr") = "recIsr"
    /\ Reqs \cap RecReqs = {} /\ NoReq \notin RecReqs /\ "abort" \notin RecReqs
    /\ "abort" \notin Reqs /\ NoReq # "abort" /\ NoReq # Blocked
    /\ "abort" \in AllReqs /\ NoReq \notin AllReqs /\ Blocked \notin AllReqs
  BY RequestsAssumption DEF RecReq, RecReqs, Cmd12, AllReqs

LEMMA InitRec == Init => RecInv
  BY RecReqFacts DEF Init, RecInv, ApiIdle, RecIdle, Parties, RecReq, RecReqs

LEMMA NextRec == ShapeInv /\ PlaceInv /\ RecInv /\ [Next]_vars => RecInv'
<1> SUFFICES ASSUME ShapeInv, PlaceInv, RecInv, [Next]_vars, "EAUTO" \notin env.errors PROVE RecInv'
  BY EnvConstant DEF RecInv
<1> USE RecReqFacts DEF RecInv, Parties
<1>1. env' = env /\ "EAUTO" \notin srs'
  BY EnvConstant, NoAutoError
<1>2. CASE UNCHANGED vars
  BY <1>2, <1>1 DEF vars, reqVars
<1>3. CASE ApiStep
  <2>1. UNCHANGED <<current, rec>>
    BY <1>3 DEF ApiStep, ExecCall, WaitCall, AbortCall, SyncAbortCall, DetachCall, AttachCall, reqVars
  <2>2. api'.req \notin RecReqs /\ api'.pc \notin {"inhibit", "flag"}
    BY <1>3, Calls DEF Called
  <2> QED
    BY <1>1, <2>1, <2>2
<1>4. CASE ApiContinue
  <2>1. api.pc # "recover" \/ rec["api"].pc = "idle"
    BY <1>4 DEF ApiContinue, ExecSwap, ExecLineBusy, ExecPrepare, ExecFlag, ExecSend, WaitRound, WaitAgain,
       WaitTimeout, WaitDone, AbortStopped, AbortReset, AbortRecovered, AbortFinish, DetachEnd, ApiAt
  <2>2. isr.pc = "idle"
    BY <1>4 DEF ApiContinue, ExecSwap, ExecLineBusy, ExecPrepare, ExecFlag, ExecSend, WaitRound, WaitAgain,
       WaitTimeout, WaitDone, AbortStopped, AbortReset, AbortRecovered, AbortFinish, DetachEnd, ApiAt
  <2>3. rec["api"].pc = "idle" /\ rec["isr"].pc = "idle" /\ current \notin RecReqs
    BY <2>1, <2>2 DEF PlaceInv, RecReqs
  <2>4. rec'["isr"] = rec["isr"] /\ rec'["api"].pc \notin {"send", "poll"} /\ "EAUTO" \notin rec'["api"].bits
    <3>1. CASE WaitDone
      <4>1. rec' = rec \/ rec' = [rec EXCEPT !["api"] = [RecIdle EXCEPT !.pc = "start", !.bits = srs]]
        BY <3>1 DEF WaitDone
      <4>2. "EAUTO" \notin srs /\ "EAUTO" \notin rec["api"].bits
        OBVIOUS
      <4>3. CASE rec' = rec
        BY <2>3, <4>2, <4>3
      <4>4. CASE rec' = [rec EXCEPT !["api"] = [RecIdle EXCEPT !.pc = "start", !.bits = srs]]
        <5>1. rec'["isr"] = rec["isr"] /\ rec'["api"] = [RecIdle EXCEPT !.pc = "start", !.bits = srs]
          BY <4>4 DEF ShapeInv
        <5> QED
          BY <4>2, <5>1 DEF RecIdle
      <4> QED
        BY <4>1, <4>3, <4>4
    <3>2. CASE AbortRecovered
      BY <2>3, <3>2 DEF AbortRecovered, ShapeInv, RecIdle
    <3>3. CASE ~WaitDone /\ ~AbortRecovered
      <4>1. rec' = rec
        BY <1>4, <3>3 DEF ApiContinue, ExecSwap, ExecLineBusy, ExecPrepare, ExecFlag, ExecSend, WaitRound,
           WaitAgain, WaitTimeout, AbortStopped, AbortReset, AbortFinish, DetachEnd
      <4> QED
        BY <2>3, <4>1
    <3> QED
      BY <3>1, <3>2, <3>3
  <2>5. /\ current' \notin RecReqs /\ api'.req \notin RecReqs
        /\ api'.pc \in {"inhibit", "flag"} => api'.main \notin RecReqs
    <3> USE DEF ShapeInv
    <3>1. CASE ExecSwap \/ ExecPrepare \/ ExecFlag
      <4>1. CASE ExecSwap
        BY <2>3, <4>1 DEF ExecSwap
      <4>2. CASE ExecPrepare
        BY <2>3, <4>2 DEF ExecPrepare, Issued, Goto, ApiIdle, ApiAt
      <4>3. CASE ExecFlag
        BY <2>3, <4>3 DEF ExecFlag, Goto, ApiAt
      <4> QED
        BY <3>1, <4>1, <4>2, <4>3
    <3>2. CASE ExecLineBusy \/ ExecSend
      BY <2>3, <3>2 DEF ExecLineBusy, ExecSend, Issued, Goto, ApiIdle, reqVars
    <3>3. CASE WaitRound \/ WaitAgain \/ WaitTimeout \/ WaitDone
      <4>1. current' = current
        BY <3>3 DEF WaitRound, WaitAgain, WaitTimeout, WaitDone, reqVars
      <4>2. CASE WaitDone
        <5>1. api' \in {ApiIdle, [api EXCEPT !.pc = "finish"], [api EXCEPT !.pc = "recover"]}
          BY <4>2 DEF WaitDone, Goto
        <5> QED
          BY <2>3, <4>1, <5>1 DEF ApiIdle
      <4>3. CASE ~WaitDone
        BY <2>3, <3>3, <4>1, <4>3 DEF WaitRound, WaitAgain, WaitTimeout, Goto
      <4> QED
        BY <4>2, <4>3
    <3>4. CASE AbortReset
      <4>1. current' = current /\ (api' = ApiIdle \/ (api'.pc = "swap" /\ api'.req = "abort"))
        BY <3>4, ZenonT(30) DEF AbortReset
      <4> QED
        BY <2>3, <4>1 DEF ApiIdle
    <3>5. CASE AbortStopped \/ AbortRecovered \/ AbortFinish \/ DetachEnd
      BY <2>3, <3>5 DEF AbortStopped, AbortRecovered, AbortFinish, DetachEnd, AbortReturn, Goto, ApiIdle, reqVars
    <3> QED
      BY <1>4, <3>1, <3>2, <3>3, <3>4, <3>5 DEF ApiContinue
  <2> QED
    BY <1>1, <2>3, <2>4, <2>5 DEF RecReqs
<1>5. CASE IsrStep
  <2>1. rec["isr"].pc = "idle" /\ current # "recIsr"
    <3>1. isr.pc # "recover" \/ rec["isr"].pc = "idle"
      BY <1>5 DEF IsrStep, IsrEnter, IsrReturn, IsrRead, IsrCard, IsrNormal, IsrError, IsrErrorEnd
    <3> QED
      BY <3>1 DEF PlaceInv
  <2>2. current' \in {current, NoReq}
    BY <1>5 DEF IsrStep, IsrEnter, IsrReturn, IsrRead, IsrCard, IsrNormal, IsrError, IsrErrorEnd, CardEvent,
       Progress, Release, reqVars
  <2>3. api'.req = api.req /\ (api'.pc \in {"inhibit", "flag"} => api' = api)
    BY <1>5 DEF IsrStep, IsrEnter, IsrReturn, IsrRead, IsrCard, IsrNormal, IsrError, IsrErrorEnd, ShapeInv
  <2>4. rec'["api"] = rec["api"] /\ rec'["isr"].pc \in {"idle", "start"} /\ "EAUTO" \notin rec'["isr"].bits
    <3>1. CASE IsrError
      BY <3>1 DEF IsrError, ShapeInv, RecIdle
    <3>2. CASE IsrErrorEnd
      BY <3>2 DEF IsrErrorEnd, ShapeInv, RecIdle
    <3>3. CASE ~IsrError /\ ~IsrErrorEnd
      BY <1>5, <2>1, <3>3 DEF IsrStep, IsrEnter, IsrReturn, IsrRead, IsrCard, IsrNormal
    <3> QED
      BY <3>1, <3>2, <3>3
  <2> QED
    BY <1>1, <2>1, <2>2, <2>3, <2>4 DEF RecReqs
<1>6. CASE \E o \in Parties : RecStep(o)
  <2>1. PICK o \in Parties : RecStep(o)
    BY <1>6
  <2>2. api' = api /\ (o = "api" => rec["isr"].pc = "idle")
    BY <2>1 DEF RecStep, RecStart, RecSend, RecPoll, RecEnd, RecAt, PlaceInv
  <2>3. CASE RecStart(o)
    <3>1. rec[o].pc = "start" /\ current' = current
      BY <2>3 DEF RecStart, RecAt, reqVars
    <3>2. \/ rec' = [rec EXCEPT ![o].pc = "send", ![o].saved = current, ![o].sig = sigOn,
                               ![o].auto = ("EAUTO" \in rec[o].bits)]
          \/ rec' = [rec EXCEPT ![o].pc = "idle", ![o].ok = FALSE]
      BY <2>3 DEF RecStart, RecFails
    <3>3. current # RecReq(o) /\ (o = "api" => current \notin RecReqs)
      BY <2>2, <3>1 DEF RecReqs
    <3>4. /\ \A p \in Parties : p # o => rec'[p] = rec[p]
          /\ rec'[o].bits = rec[o].bits /\ rec'[o].pc \in {"send", "idle"}
          /\ rec'[o].pc = "send" => rec'[o].saved = current
      BY <3>2, o \in DOMAIN rec, DOMAIN rec[o] = {"pc", "saved", "sig", "auto", "bits", "ok"} DEF ShapeInv
    <3>5. rec'[o].pc = "send" => ~rec'[o].auto
      <4>1. "EAUTO" \notin rec[o].bits
        OBVIOUS
      <4>2. ("EAUTO" \in rec[o].bits) = FALSE
        BY <4>1
      <4>3. \/ rec' = [rec EXCEPT ![o].pc = "send", ![o].saved = current, ![o].sig = sigOn, ![o].auto = FALSE]
            \/ rec' = [rec EXCEPT ![o].pc = "idle", ![o].ok = FALSE]
        BY <3>2, <4>2, Zenon
      <4> QED
        BY <4>3 DEF ShapeInv
    <3> QED
      BY <1>1, <2>2, <3>1, <3>3, <3>4, <3>5 DEF RecReqs
  <2>4. CASE RecSend(o)
    <3>1. rec[o].pc = "send" /\ rec' = [rec EXCEPT ![o].pc = "poll"] /\ current' \in {current, RecReq(o), NoReq}
      BY <2>4 DEF RecSend, RecAt
    <3> QED
      BY <1>1, <2>2, <3>1 DEF ShapeInv, RecReqs
  <2>5. CASE RecPoll(o)
    <3>1. rec' = rec /\ current' \in {current, NoReq}
      BY <2>5 DEF RecPoll, CardEvent, Progress, Release
    <3> QED
      BY <1>1, <2>2, <3>1 DEF RecReqs
  <2>6. CASE RecEnd(o)
    <3>1. rec[o].pc = "poll" /\ current' = rec[o].saved
      BY <2>6 DEF RecEnd, RecAt, PutBack
    <3>2. \E ok \in BOOLEAN : rec' = [rec EXCEPT ![o].pc = "idle", ![o].ok = ok]
      BY <2>6 DEF RecEnd, RecFails
    <3> QED
      BY <1>1, <2>2, <3>1, <3>2 DEF ShapeInv, RecReqs
  <2> QED
    BY <2>1, <2>3, <2>4, <2>5, <2>6 DEF RecStep
<1>7. CASE HwStep
  BY <1>1, <1>7, HwLeavesDriver
<1> QED
  BY <1>2, <1>3, <1>4, <1>5, <1>6, <1>7 DEF Next

\* Without abort calls and without time-outs nobody makes the CMD12 of an abort.
NoAborts == ~env.timeouts /\ {"abort", "sync"} \cap env.ops = {} =>
    /\ api.pc \notin {"reset", "spin"} /\ api.req # "abort" /\ api.main # "abort" /\ current # "abort"
    /\ \A o \in Parties : rec[o].saved # "abort"

LEMMA InitNoAborts == Init => NoAborts
  BY RecReqFacts DEF Init, NoAborts, ApiIdle, RecIdle, Parties

LEMMA NextNoAborts == ShapeInv /\ NoAborts /\ [Next]_vars => NoAborts'
<1> SUFFICES ASSUME ShapeInv, NoAborts, [Next]_vars, ~env.timeouts, {"abort", "sync"} \cap env.ops = {}
             PROVE  NoAborts'
  BY EnvConstant DEF NoAborts
<1> USE RecReqFacts DEF NoAborts, Parties
<1>1. env' = env
  BY EnvConstant
<1>2. CASE UNCHANGED vars
  BY <1>2 DEF vars, reqVars
<1>3. CASE ApiStep
  <2>1. UNCHANGED <<current, rec>>
    BY <1>3 DEF ApiStep, ExecCall, WaitCall, AbortCall, SyncAbortCall, DetachCall, AttachCall, reqVars
  <2>2. api'.req # "abort" /\ api'.main # "abort" /\ api'.pc \notin {"reset", "spin"}
    BY <1>3, Calls DEF Called
  <2> QED
    BY <1>1, <2>1, <2>2
<1>4. CASE ApiContinue
  <2> USE DEF ShapeInv
  <2>1. CASE ExecSwap \/ ExecLineBusy \/ ExecPrepare \/ ExecFlag \/ ExecSend
    <3>1. rec' = rec
      BY <2>1 DEF ExecSwap, ExecLineBusy, ExecPrepare, ExecFlag, ExecSend
    <3>2. CASE ExecSwap
      BY <3>1, <3>2 DEF ExecSwap
    <3>3. CASE ExecLineBusy
      BY <3>1, <3>3 DEF ExecLineBusy, Issued, ApiIdle
    <3>4. CASE ExecPrepare
      BY <3>1, <3>4 DEF ExecPrepare, Issued, Goto, ApiIdle
    <3>5. CASE ExecFlag
      BY <3>1, <3>5 DEF ExecFlag, Goto
    <3>6. CASE ExecSend
      BY <3>1, <3>6 DEF ExecSend, Issued, ApiIdle, reqVars
    <3> QED
      BY <2>1, <3>2, <3>3, <3>4, <3>5, <3>6
  <2>2. CASE WaitRound \/ WaitAgain
    BY <2>2 DEF WaitRound, WaitAgain, Goto, reqVars
  <2>3. CASE WaitTimeout
    BY <2>3 DEF WaitTimeout, Timeouts
  <2>4. CASE WaitDone
    <3>1. api' = ApiIdle /\ rec' = rec
      BY <2>4 DEF WaitDone
    <3> QED
      BY <2>4, <3>1 DEF WaitDone, reqVars, ApiIdle
  <2>5. CASE AbortStopped \/ AbortReset
    BY <2>5 DEF AbortStopped, AbortReset, ApiAt
  <2>6. CASE AbortRecovered \/ AbortFinish \/ DetachEnd
    BY <2>6 DEF AbortRecovered, AbortFinish, DetachEnd, AbortReturn, ApiIdle, RecIdle
  <2> QED
    BY <1>1, <1>4, <2>1, <2>2, <2>3, <2>4, <2>5, <2>6 DEF ApiContinue
<1>5. CASE IsrStep
  <2>1. current' \in {current, NoReq}
    BY <1>5 DEF IsrStep, IsrEnter, IsrReturn, IsrRead, IsrCard, IsrNormal, IsrError, IsrErrorEnd, CardEvent,
       Progress, Release, reqVars
  <2>2. api' \in {api, [api EXCEPT !.pc = "polled"]}
    BY <1>5 DEF IsrStep, IsrEnter, IsrReturn, IsrRead, IsrCard, IsrNormal, IsrError, IsrErrorEnd
  <2>3. \A o \in Parties : rec'[o].saved \in {rec[o].saved, NoReq}
    <3>1. CASE IsrError
      BY <3>1 DEF IsrError, RecIdle, ShapeInv
    <3>2. CASE IsrErrorEnd
      BY <3>2 DEF IsrErrorEnd, RecIdle, ShapeInv
    <3>3. CASE ~IsrError /\ ~IsrErrorEnd
      BY <1>5, <3>3 DEF IsrStep, IsrEnter, IsrReturn, IsrRead, IsrCard, IsrNormal
    <3> QED
      BY <3>1, <3>2, <3>3
  <2> QED
    BY <1>1, <2>1, <2>2, <2>3 DEF ShapeInv
<1>6. CASE \E o \in Parties : RecStep(o)
  <2>1. PICK o \in Parties : RecStep(o)
    BY <1>6
  <2>2. api' = api
    BY <2>1 DEF RecStep, RecStart, RecSend, RecPoll, RecEnd
  <2>3. current' \in {current, NoReq, RecReq(o), rec[o].saved}
    BY <2>1 DEF RecStep, RecStart, RecSend, RecPoll, RecEnd, CardEvent, Progress, Release, PutBack, reqVars
  <2>4. \A p \in Parties : rec'[p].saved \in {rec[p].saved, current}
    BY <2>1 DEF RecStep, RecStart, RecSend, RecPoll, RecEnd, RecFails, ShapeInv
  <2> QED
    BY <1>1, <2>2, <2>3, <2>4
<1>7. CASE HwStep
  BY <1>1, <1>7, HwLeavesDriver
<1> QED
  BY <1>2, <1>3, <1>4, <1>5, <1>6, <1>7 DEF Next

\* While nothing fails, the CMD12 of an abort is current from the moment ProcessRequest makes
\* it so to the answer, and the abort does not leave before it.
Faultless == ~env.timeouts /\ env.errors = {} /\ ~env.removal
AbortWay == {"inhibit", "flag", "send", "wait", "poll", "polled"}
BeforeSend == {"swap", "inhibit", "flag", "send"}
AbortInv == Faultless =>
    /\ srs \subseteq {"CC", "TC", "GAP"} /\ card = "ready" /\ cmdLine # Blocked
    /\ api.req \in AllReqs \cup {NoReq}
    /\ isr.pc \in {"idle", "read", "normal"} /\ (isr.pc = "normal" => isr.cur = current)
    /\ \A o \in Parties : rec[o].pc = "idle"
    /\ api.pc # "recover" /\ (api.pc \in {"inhibit", "flag"} => api.main # "abort")
    /\ api.req = "abort" /\ api.pc \in BeforeSend =>
          /\ srs = {} /\ cmdLine = NoReq /\ datLine = NoReq /\ isr.pc # "normal"
          /\ status["abort"] = "PENDING"
    /\ api.req = "abort" /\ api.pc \in AbortWay => status["abort"] \in {"PENDING", "OK"}
    /\ current = "abort" => api.req = "abort" /\ api.pc \in AbortWay /\ status["abort"] = "PENDING"

LEMMA InitAbort == Init => AbortInv
  BY RecReqFacts DEF Init, AbortInv, ApiIdle, IsrIdle, RecIdle, Parties, AbortWay, BeforeSend

LEMMA NextAbort == ShapeInv /\ PlaceInv /\ AbortInv /\ [Next]_vars => AbortInv'
<1> SUFFICES ASSUME ShapeInv, PlaceInv, AbortInv, [Next]_vars, Faultless PROVE AbortInv'
  BY EnvConstant DEF AbortInv, Faultless
<1> USE RecReqFacts DEF AbortInv, Parties, AbortWay, BeforeSend
<1>1. env' = env
  BY EnvConstant
<1>2. CASE UNCHANGED vars
  BY <1>2 DEF vars, reqVars, hwVars
<1>3. CASE ApiStep
  <2>1. UNCHANGED <<current, rec, isr>> /\ api.pc = "idle" /\ current # "abort"
    BY <1>3 DEF ApiStep, ExecCall, WaitCall, AbortCall, SyncAbortCall, DetachCall, AttachCall, reqVars, Call, ApiAt
  <2>2. srs' \subseteq srs /\ cmdLine' \in {cmdLine, NoReq} /\ card' = "ready"
    BY <1>3 DEF ApiStep, ExecCall, WaitCall, AbortCall, SyncAbortCall, DetachCall, AttachCall, hwVars,
       ResetBoth, KeepLines
  <2>3. /\ api'.pc \notin {"recover", "inhibit", "flag"}
        /\ api'.req = "abort" => api'.pc = "detach" \/ api' = api
        /\ api'.req \in Reqs \cup {NoReq, api.req}
    BY <1>3, Calls DEF Called
  <2>4. api.pc \notin AbortWay \cup {"swap"}
    BY <2>1
  <2> QED
    BY <2>1, <2>2, <2>3, <2>4 DEF AllReqs
<1>4. CASE ApiContinue
  <2>1. isr' = isr /\ isr.pc = "idle"
    BY <1>4 DEF ApiContinue, ExecSwap, ExecLineBusy, ExecPrepare, ExecFlag, ExecSend, WaitRound, WaitAgain,
       WaitTimeout, WaitDone, AbortStopped, AbortReset, AbortRecovered, AbortFinish, DetachEnd, ApiAt
  <2>2. srs' \subseteq srs /\ card' = card
    BY <1>4 DEF ApiContinue, ExecSwap, ExecLineBusy, ExecPrepare, ExecFlag, ExecSend, WaitRound, WaitAgain,
       WaitTimeout, WaitDone, AbortStopped, AbortReset, AbortRecovered, AbortFinish, DetachEnd, hwVars,
       ResetBoth, KeepLines
  <2> USE DEF ShapeInv
  <2>3. CASE ExecSwap
    <3>1. api' = [api EXCEPT !.pc = "inhibit", !.main = current] /\ current' = api.req /\ api.pc = "swap"
      BY <2>3 DEF ExecSwap, ApiAt
    <3>2. UNCHANGED <<status, srs, cmdLine, datLine, rec>>
      BY <2>3 DEF ExecSwap, hwVars
    <3>3. current # "abort"
      BY <3>1
    <3> QED
      BY <2>1, <2>2, <3>1, <3>2, <3>3
  <2>4. CASE ExecLineBusy
    <3>1. api.req # "abort" /\ api.pc = "inhibit"
      BY <2>4 DEF ExecLineBusy, ApiAt, Timeouts, Faultless, ChecksDat, Reqs, Data
    <3>2. api' = ApiIdle /\ current' = NoReq /\ UNCHANGED <<cmdLine, rec>>
      BY <2>4, <3>1 DEF ExecLineBusy, Issued, hwVars
    <3> QED
      BY <2>1, <2>2, <3>1, <3>2 DEF ApiIdle
  <2>5. CASE ExecPrepare
    <3>1. api.pc = "inhibit" /\ UNCHANGED <<cmdLine, datLine, rec>>
      BY <2>5 DEF ExecPrepare, ApiAt
    <3>2. \/ UNCHANGED <<status, current>> /\ \E pc \in {"send", "flag"} : api' = [api EXCEPT !.pc = pc]
          \/ api.req # "abort" /\ current' = NoReq /\ api' = ApiIdle
      BY <2>5 DEF ExecPrepare, Issued, Goto, Reqs, Data
    <3> QED
      BY <2>1, <2>2, <3>1, <3>2 DEF ApiIdle
  <2>6. CASE ExecFlag
    <3>1. /\ api.pc = "flag" /\ current' \in {current, api.main} /\ UNCHANGED <<cmdLine, datLine, rec, status>>
          /\ api' = [api EXCEPT !.pc = "send"]
      BY <2>6 DEF ExecFlag, ApiAt, Goto, hwVars
    <3> QED
      BY <2>1, <2>2, <3>1
  <2>7. CASE ExecSend
    <3>1. /\ api.pc = "send" /\ cmdLine' = api.req /\ UNCHANGED <<rec, current, status>>
          /\ api' = IF api.req = "abort" THEN [api EXCEPT !.pc = "wait"] ELSE ApiIdle
      BY <2>7 DEF ExecSend, Send, ApiAt, Issued, Goto, reqVars
    <3> QED
      BY <2>1, <2>2, <3>1 DEF ApiIdle
  <2>8. CASE WaitRound \/ WaitAgain
    <3>1. /\ api.pc \in {"wait", "polled"} /\ UNCHANGED <<cmdLine, rec, status, current>>
          /\ \E pc \in {"polled", "poll", "wait"} : api' = [api EXCEPT !.pc = pc]
      BY <2>8 DEF WaitRound, WaitAgain, ApiAt, Goto, reqVars, hwVars
    <3> QED
      BY <2>1, <2>2, <3>1
  <2>9. CASE WaitTimeout
    BY <2>9 DEF WaitTimeout, Timeouts, Faultless
  <2>10. CASE WaitDone
    <3>1. api.pc = "wait" /\ status[api.req] # "PENDING" /\ UNCHANGED <<cmdLine, status, current>>
      BY <2>10 DEF WaitDone, ApiAt, reqVars, hwVars
    <3>2. current # "abort"
      BY <3>1
    <3>3. rec' = rec /\ api' \in {ApiIdle, [api EXCEPT !.pc = "finish"]}
      BY <2>10, <3>1 DEF WaitDone, Goto
    <3> QED
      BY <2>1, <2>2, <3>1, <3>2, <3>3 DEF ApiIdle
  <2>11. CASE AbortReset
    <3>1. /\ api.pc = "reset" /\ UNCHANGED <<current, rec>> /\ cmdLine' \in {cmdLine, NoReq}
      BY <2>11 DEF AbortReset, ApiAt, ResetBoth, KeepLines
    <3>2. \/ api' = ApiIdle
          \/ /\ api' = [api EXCEPT !.pc = "swap", !.req = "abort", !.aborting = Aborted]
             /\ ResetBoth /\ Answer("abort", "PENDING")
      BY <2>11, ZenonT(30) DEF AbortReset
    <3>3. CASE api' = ApiIdle
      BY <2>1, <2>2, <3>1, <3>3 DEF ApiIdle
    <3>4. CASE api' = [api EXCEPT !.pc = "swap", !.req = "abort", !.aborting = Aborted] /\ ResetBoth
               /\ Answer("abort", "PENDING")
      <4>1. srs' = {} /\ cmdLine' = NoReq /\ datLine' = NoReq /\ status'["abort"] = "PENDING"
        BY <3>4 DEF ResetBoth, Answer
      <4>2. api'.pc = "swap" /\ api'.req = "abort"
        BY <3>4
      <4> QED
        BY <2>1, <2>2, <3>1, <4>1, <4>2
    <3> QED
      BY <3>2, <3>3, <3>4
  <2>12. CASE AbortStopped \/ AbortRecovered \/ AbortFinish \/ DetachEnd
    <3>1. /\ api.pc \in {"spin", "recover", "finish", "detach"} /\ current' \in {current, NoReq}
          /\ cmdLine' \in {cmdLine, NoReq} /\ \A o \in Parties : rec'[o].pc = "idle"
      BY <2>12 DEF AbortStopped, AbortRecovered, AbortFinish, DetachEnd, ApiAt, reqVars, hwVars, ResetBoth,
         KeepLines, RecIdle
    <3>2. api' = ApiIdle \/ api' = [api EXCEPT !.pc = "reset"]
      BY <2>12 DEF AbortStopped, AbortRecovered, AbortFinish, DetachEnd, AbortReturn, Goto
    <3> QED
      BY <2>1, <2>2, <3>1, <3>2 DEF ApiIdle
  <2> QED
    BY <1>4, <2>3, <2>4, <2>5, <2>6, <2>7, <2>8, <2>9, <2>10, <2>11, <2>12 DEF ApiContinue
<1>5. CASE IsrStep
  <2> USE DEF ShapeInv
  <2>1. CASE IsrEnter \/ IsrReturn
    <3>1. /\ UNCHANGED <<srs, card, cmdLine, datLine, current, status, rec>> /\ isr'.pc \in {"idle", "read"}
          /\ api' = api \/ (api.pc = "poll" /\ api' = [api EXCEPT !.pc = "polled"])
      BY <2>1 DEF IsrEnter, IsrReturn, IsrIdle, reqVars, hwVars, PlaceInv
    <3> QED
      BY <3>1
  <2>2. CASE IsrRead
    <3>1. UNCHANGED <<card, cmdLine, datLine, current, status, rec, api>> /\ srs' \subseteq srs /\ srs # {}
      BY <2>2 DEF IsrRead, reqVars
    <3>2. srs \cap BusErrors = {} /\ "CARD" \notin srs
      BY DEF BusErrors
    <3>3. isr'.pc \in {"normal", "read"} /\ isr'.cur = current
      BY <2>2, <3>2 DEF IsrRead
    <3> QED
      BY <3>1, <3>3
  <2>3. CASE IsrNormal
    <3>1. isr.pc = "normal" /\ isr.cur = current /\ UNCHANGED <<card, rec, api>> /\ isr'.pc = "read"
      BY <2>3 DEF IsrNormal, IsrIdle
    <3>2. Progress(isr.bits, isr.cur, srs)
      BY <2>3 DEF IsrNormal
    <3>3. srs' \subseteq srs /\ cmdLine' \in {cmdLine, NoReq} /\ current' \in {current, NoReq}
      BY <3>2 DEF Progress, Release
    <3>4. status'["abort"] \in {status["abort"], "OK"}
      <4>1. "RESP" \notin Errors
        BY DEF Errors, Faultless
      <4> DEFINE beside == {q \in AllReqs : q = isr.cur \/ (q = sub[isr.cur] /\ Pending(q))}
      <4>2. \/ status' = [q \in AllReqs |-> IF q = isr.cur THEN "OK" ELSE status[q]]
            \/ status' = status
            \/ status' = [q \in AllReqs |-> IF q \in beside THEN "OK" ELSE status[q]]
            \/ status' = [q \in AllReqs |-> status[q]]
        BY <3>2, <4>1 DEF Progress, Answer
      <4> HIDE DEF beside
      <4> QED
        BY <4>2
    <3>5. current = "abort" /\ current' = current /\ NoReq # current => status'["abort"] = status["abort"]
      <4>1. "RESP" \notin Errors
        BY DEF Errors, Faultless
      <4> QED
        BY <3>1, <3>2, <4>1 DEF Progress, Release
    <3> QED
      BY <3>1, <3>3, <3>4, <3>5
  <2>4. ~IsrCard /\ ~IsrError /\ ~IsrErrorEnd
    BY DEF IsrCard, IsrError, IsrErrorEnd
  <2> QED
    BY <1>5, <2>1, <2>2, <2>3, <2>4 DEF IsrStep
<1>6. CASE \E o \in Parties : RecStep(o)
  BY <1>6 DEF RecStep, RecStart, RecSend, RecPoll, RecEnd, RecAt
<1>7. CASE HwStep
  BY <1>7, HwLeavesDriver DEF Faultless
<1> QED
  BY <1>2, <1>3, <1>4, <1>5, <1>6, <1>7 DEF Next

\* pCurrentRequest never refers to the request of a function that has returned: the CMD12 of
\* SDIOHost_ProcessAbort or of SDIOHost_ErrorRecovery, which lies on their stack.
THEOREM CurrentLives == Spec => []CurrentIsLive
<1> DEFINE Inv == ShapeInv /\ PlaceInv /\ RecInv /\ NoAborts /\ AbortInv
<1>1. Init => Inv
  BY InitShape, InitPlace, InitRec, InitNoAborts, InitAbort
<1>2. Inv /\ [Next]_vars => Inv'
  BY NextShape, NextPlace, NextRec, NextNoAborts, NextAbort
<1>3. Inv => CurrentIsLive
  BY DEF RecInv, NoAborts, AbortInv, CurrentIsLive, AbortsAnswered, Faultless
<1> QED
  BY <1>1, <1>2, <1>3, PTL DEF Spec

----------------------------------------------------------------------------
(* Every request is owed its answer, and OK is the truth *)

\* A client that issues one request at a time and aborts none, a card that is not slower than
\* the driver's bounded waits, and resets that succeed; any errors, and cards that come and go.
Tame == /\ env.careful /\ ~env.subCommands /\ ~env.timeouts /\ ~env.resetFails
        /\ {"abort", "sync"} \cap env.ops = {}

Answers == {"CC", "TC"}
Preparing == api.pc \in BeforeSend
Unused == cmdLine = NoReq /\ datLine = NoReq
Recover == rec["isr"]
\* the answers the handler has read and not yet acted upon
Held == IF isr.pc = "normal" THEN isr.bits ELSE {}
\* the recovery, if any, has not touched the lines yet
Untouched == isr.pc # "recover" \/ Recover.pc = "start"

Objects == Reqs \cup {"recIsr", NoReq}
TameTypes ==
    /\ stopGap = FALSE /\ abortFlag = FALSE /\ card \in {"out", "new", "ready"}
    /\ srs \subseteq Answers \cup BusErrors \cup {"CARD"} /\ isr.bits \subseteq Answers \cup BusErrors \cup {"CARD"}
    /\ rec["api"].pc = "idle" /\ Recover.pc \in {"idle", "start", "send", "poll"}
    /\ api.pc \in BeforeSend \cup {"idle", "wait", "poll", "polled", "detach"}
    /\ api.pc \notin {"idle", "detach"} => api.req \in Reqs
    /\ isr.pc \in {"idle", "read", "card", "error", "normal", "recover"}
    /\ current \in Objects /\ isr.cur \in Objects /\ \A q \in AllReqs : sub[q] \notin Reqs
    /\ DOMAIN status = AllReqs /\ DOMAIN flags = AllReqs /\ DOMAIN sub = AllReqs

\* One request is pending at most.
OnePending == \A p, q \in InFlight : p = q

\* While the thread prepares a request nothing of an earlier one is left.
PrepareInv == Preparing =>
    /\ Unused /\ srs \subseteq {"CARD"} /\ isr.pc \in {"idle", "read", "card"}
    /\ InFlight \subseteq {api.req} /\ sub[api.req] = NoReq
    /\ api.pc # "swap" => current \in {api.req, NoReq} /\ (current = NoReq => InFlight = {})
    /\ InFlight = {} => ~inserted
    /\ ~inserted => card # "ready"
    /\ api.pc \in {"flag", "send"} => flags[api.req] = Preset(api.req)

\* A card that has just come or gone answers nothing.
CardInv == /\ "CARD" \in srs \/ isr.pc = "card" => card # "ready"
           /\ isr.pc = "card" => srs \cap Answers = {}

\* With no request pending no answer can come that a later one would take for its own.
NonePending == InFlight = {} /\ ~Preparing =>
    /\ isr.pc # "normal"
    /\ Recover.pc # "poll" => srs \cap Answers = {} /\ (inserted \/ card = "ready" => Unused)
    /\ isr.pc = "idle" /\ inserted /\ api.pc # "detach" => srs \subseteq {"CARD"}

\* The lines are in use for the current request or for none.
LineInv == ~Preparing /\ Untouched /\ current \in Reqs =>
    /\ cmdLine \in {current, NoReq, Blocked} /\ datLine \in {current, NoReq, Blocked}
    /\ current \in Plain => datLine = NoReq
    /\ cmdLine = current /\ current \notin Plain => datLine = current
    /\ datLine = current => cmdLine # Blocked
    /\ "ECMD" \in srs /\ current \notin Data => datLine = NoReq

\* The controller works on request r or has raised a bit about it.
Works(r) == \/ cmdLine = r \/ srs \cap BusErrors # {}
            \/ r \in Plain /\ "CC" \in srs \cup Held
            \/ r \notin Plain /\ (datLine = r \/ "TC" \in srs \cup Held)
\* The answers that are raised or read are those of the pending request, and come in order;
\* the request is current, and its answer under way.
SentInv == ~Preparing /\ Untouched => \A r \in InFlight :
    /\ current = r
    /\ "CC" \in srs \cup Held => cmdLine = NoReq /\ (r \in Plain => r \in executed)
    /\ "TC" \in srs \cup Held => Unused /\ r \in executed /\ r \notin Plain
    /\ "CC" \in Held => "CC" \notin srs
    /\ "TC" \in Held => srs \cap Answers = {}
    /\ Preset(r) \subseteq flags[r] /\ "TC" \notin flags[r]
    /\ datLine = r => srs \cap BusErrors = {}
    /\ isr.pc # "card" \/ ~inserted =>
        /\ datLine = r /\ cmdLine # r => "CC" \in srs \cup Held \cup flags[r]
        /\ "TC" \in Held => "CC" \in Held \cup flags[r]
        /\ "TC" \in srs => "CC" \in srs \cup Held \cup flags[r]
        /\ Works(r)
    /\ ~inserted => card # "ready" /\ srs \cap Answers = {} /\ Held = {} /\ (datLine = r => cmdLine = r)

\* What the handler remembers is still so when it acts upon it.
HandlerInv ==
    /\ api.pc = "detach" => InFlight = {}
    /\ isr.pc \in {"normal", "error", "recover", "card"} => isr.bits # {}
    /\ isr.pc \in {"normal", "error"} => isr.cur = current
    /\ isr.pc = "normal" => isr.cur # NoReq /\ isr.bits \subseteq Answers
    /\ isr.pc = "error" => srs \cap BusErrors # {}
    /\ isr.pc = "recover" => InFlight \subseteq {isr.cur} /\ (isr.scmds => isr.cur \notin Reqs)

\* A recovery puts back the request it found and leaves nothing of its CMD12 behind.
RecoverInv ==
    /\ isr.pc = "recover" /\ Recover.pc = "idle" => Unused /\ srs \cap Answers = {}
    /\ Recover.pc = "start" => isr.cur = current /\ Recover.bits \subseteq srs /\ Recover.bits \cap BusErrors # {}
    /\ Recover.pc = "send" => /\ current = isr.cur /\ Recover.saved = current
                              /\ ~Recover.auto /\ current \in Reqs => datLine = NoReq
    /\ Recover.pc = "poll" => /\ Recover.saved = isr.cur
                              /\ current \in Reqs => current = isr.cur /\ status["recIsr"] = "PENDING"
                              /\ ~Recover.auto /\ isr.cur \in Reqs => sub[isr.cur] = NoReq
    /\ current \in Reqs /\ Recover.pc # "poll" => sub[current] = NoReq

\* What was answered OK was executed, but for what a recovery is about to answer again.
OkInv == \A r \in Reqs : status[r] = "OK" => r \in executed \/ (isr.pc = "recover" /\ r = isr.cur)

TameInv == /\ TameTypes /\ OnePending /\ PrepareInv /\ CardInv /\ NonePending /\ LineInv /\ SentInv
           /\ HandlerInv /\ RecoverInv /\ OkInv
Base == Tame /\ ShapeInv /\ PlaceInv /\ TameInv

LEMMA ReqFacts ==
    /\ "recIsr" \notin Reqs /\ NoReq \notin Reqs /\ Blocked \notin Reqs /\ Blocked # NoReq
    /\ "recIsr" # NoReq /\ "recIsr" # Blocked /\ Reqs \subseteq AllReqs /\ "recIsr" \in AllReqs
    /\ NoReq \notin AllReqs /\ Blocked \notin AllReqs /\ Data \subseteq Reqs /\ Plain \subseteq Reqs /\ Busy \subseteq Reqs
    /\ Reqs = Plain \cup Busy \cup Data /\ Plain \cap Data = {} /\ Busy \cap Data = {} /\ Plain \cap Busy = {}
    /\ HwChecked \subseteq Data /\ "abort" \notin Reqs /\ "recApi" \notin Reqs
    /\ "abort" \in AllReqs /\ "recApi" \in AllReqs
  BY RequestsAssumption DEF Reqs, AllReqs, Cmd12, Data

LEMMA InitTame == Init => TameInv
<1> SUFFICES ASSUME Init PROVE TameInv
  OBVIOUS
<1>1. InFlight = {}
  BY ReqFacts DEF Init, InFlight
<1>2. /\ api.pc = "idle" /\ isr.pc = "idle" /\ isr.bits = {} /\ isr.cur = NoReq
      /\ rec["isr"].pc = "idle" /\ rec["api"].pc = "idle" /\ Unused /\ srs = {} /\ current = NoReq
      /\ DOMAIN status = AllReqs /\ DOMAIN flags = AllReqs /\ DOMAIN sub = AllReqs
      /\ \A q \in AllReqs : sub[q] = NoReq /\ status[q] = "NONE"
      /\ stopGap = FALSE /\ abortFlag = FALSE /\ card = "ready"
  BY DEF Init, ApiIdle, IsrIdle, RecIdle, Parties, Unused
<1> QED
  BY <1>1, <1>2, ReqFacts DEF TameInv, TameTypes, OnePending, PrepareInv, CardInv, NonePending, LineInv, SentInv,
     HandlerInv, RecoverInv, OkInv, Preparing, BeforeSend, Objects, Recover, Answers

\* While the handler is at rest nothing is held and no recovery runs.
LEMMA AtRest == ASSUME Base, isr.pc = "idle" PROVE Recover.pc = "idle" /\ Held = {} /\ Untouched
  BY DEF Base, PlaceInv, Recover, Held, Untouched

----------------------------------------------------------------------------
(* The controller and the card *)

\* What a step of the controller leaves alone.
HwFrame == /\ UNCHANGED <<env, reqVars, slotVars, stopGap, api, isr, rec>>
           /\ InFlight' = InFlight /\ Held' = Held /\ Recover' = Recover
           /\ Preparing' = Preparing /\ Untouched' = Untouched
LEMMA HwLeaves == ASSUME HwStep, stopGap = FALSE PROVE HwFrame
  BY DEF HwStep, HwAnswer, HwResponse, HwTransfer, HwCmdError, HwDatError, HwStopAtGap, HwCard, HwFrame,
     InFlight, Held, Recover, Preparing, Untouched, reqVars, slotVars

\* The parts of the invariant that a step of the controller cannot touch.
LEMMA HwKeeps ==
    ASSUME Base, HwFrame, card' \in {"out", "new", "ready"}, srs' \subseteq Answers \cup BusErrors \cup {"CARD"},
           executed \subseteq executed'
    PROVE  TameTypes' /\ OnePending' /\ OkInv'
<1>1. TameTypes'
  BY DEF Base, TameInv, TameTypes, HwFrame, reqVars, slotVars
<1>2. OnePending'
  BY DEF Base, TameInv, OnePending, HwFrame
<1>3. OkInv'
  BY DEF Base, TameInv, OkInv, HwFrame, reqVars
<1> QED
  BY <1>1, <1>2, <1>3

\* A request on a line is the one that is pending, while the handler is not recovering.
LEMMA InUse ==
    ASSUME Base, Untouched, NEW x \in {cmdLine, datLine}, x \in AllReqs
    PROVE  /\ ~Preparing /\ (current \in Reqs => x = current)
           /\ card = "ready" \/ inserted => InFlight = {current} /\ current \in Reqs /\ x = current
<1>1. x # NoReq /\ x # Blocked
  BY ReqFacts
<1>2. ~Preparing
  BY <1>1 DEF Base, TameInv, PrepareInv, Unused
<1>3. current \in Reqs => x = current
  BY <1>1, <1>2 DEF Base, TameInv, LineInv
<1>4. ASSUME card = "ready" \/ inserted PROVE InFlight = {current} /\ current \in Reqs
  <2>1. Recover.pc # "poll"
    BY DEF Untouched, Base, PlaceInv, Recover
  <2>2. InFlight # {}
    BY <1>1, <1>2, <1>4, <2>1 DEF Base, TameInv, NonePending, Unused
  <2>3. PICK r \in InFlight : TRUE
    BY <2>2
  <2>4. r = current
    BY <1>2, <2>3 DEF Base, TameInv, SentInv
  <2> QED
    BY <2>3, <2>4 DEF Base, TameInv, OnePending, InFlight
<1> QED
  BY <1>2, <1>3, <1>4

\* While the handler recovers only its recovery's CMD12 can be answered, or a request it will
\* answer itself.
LEMMA Recovering ==
    ASSUME Base, ~Untouched
    PROVE  /\ isr.pc = "recover" /\ ~Preparing
           /\ Recover.pc \in {"send", "poll"} \/ (Recover.pc = "idle" /\ Unused)
           /\ Recover.pc = "send" /\ InFlight = {} /\ (card = "ready" \/ inserted) => Unused
<1>1. isr.pc = "recover" /\ Recover.pc # "start"
  BY DEF Untouched
<1>2. ~Preparing
  BY <1>1 DEF Base, TameInv, PrepareInv
<1> QED
  BY <1>1, <1>2 DEF Base, TameInv, TameTypes, RecoverInv, NonePending

LEMMA ResponseTame == ASSUME Base, HwResponse PROVE TameInv'
<1>1. /\ HwFrame /\ datLine' = datLine /\ card' = card /\ card = "ready" /\ cmdLine \in AllReqs /\ cmdLine' = NoReq
      /\ srs' \in {srs, srs \cup {"CC"}} /\ executed \subseteq executed'
      /\ cmdLine \in Plain => srs' = srs \cup {"CC"} /\ cmdLine \in executed'
  <2>1. HwFrame
    BY HwLeaves DEF HwStep, HwAnswer, Base, TameInv, TameTypes
  <2> QED
    BY <2>1, ReqFacts DEF HwResponse
<1>2. TameTypes' /\ OnePending' /\ OkInv'
  BY <1>1, HwKeeps DEF Base, TameInv, TameTypes, Answers
<1> USE DEF HwFrame, reqVars, slotVars
<1>3. PrepareInv' /\ CardInv'
  <2>1. ~Preparing
    BY <1>1, InUse, Recovering DEF Base, TameInv, PrepareInv, Unused
  <2> QED
    BY <1>1, <2>1 DEF Base, TameInv, PrepareInv, CardInv
<1>4. CASE Untouched
  <2>1. ~Preparing /\ InFlight = {current} /\ current \in Reqs /\ cmdLine = current
    BY <1>1, <1>4, InUse
  <2>2. NonePending'
    BY <1>1, <2>1 DEF NonePending
  <2>3. LineInv'
    BY <1>1, <1>4, <2>1, ReqFacts DEF Base, TameInv, LineInv
  <2>4. SentInv'
    <3>1. "CC" \notin Held /\ "TC" \notin srs \cup Held /\ Held' = Held
      BY <1>1, <1>4, <2>1, ReqFacts DEF Base, TameInv, SentInv, Unused
    <3>2. inserted
      BY <1>1, <1>4, <2>1 DEF Base, TameInv, SentInv
    <3>3. current \notin Plain => datLine = current
      BY <1>4, <2>1 DEF Base, TameInv, LineInv
    <3>4. "CC" \in srs' \/ (current \in HwChecked /\ srs' = srs)
      BY <2>1 DEF HwResponse
    <3>5. flags' = flags /\ current' = current /\ inserted' = inserted
      BY <1>1
    <3>6. current \in Plain => srs' = srs \cup {"CC"} /\ current \in executed'
      BY <1>1, <2>1
    <3>7. "TC" \notin srs' \cup Held'
      BY <1>1, <3>1
    <3>8. "CC" \in srs' \cup Held' \cup flags'[current]
      BY <3>4, <3>5, <1>4, <2>1 DEF Base, TameInv, SentInv, Preset
    <3>9. srs' \cap BusErrors = srs \cap BusErrors
      BY <1>1 DEF BusErrors
    <3> QED
      BY <1>1, <1>4, <2>1, <3>1, <3>2, <3>3, <3>5, <3>6, <3>7, <3>8, <3>9 DEF Base, TameInv, SentInv, Works
  <2>5. HandlerInv' /\ RecoverInv'
    BY <1>1, <1>4, <2>1 DEF Base, TameInv, HandlerInv, RecoverInv, Untouched, Unused, Recover
  <2> QED
    BY <1>2, <1>3, <2>2, <2>3, <2>4, <2>5 DEF TameInv
<1>5. CASE ~Untouched
  <2>1. isr.pc = "recover" /\ ~Preparing /\ (InFlight # {} \/ Recover.pc = "poll") /\ Recover.pc \in {"send", "poll"}
    BY <1>1, <1>5, Recovering, ReqFacts DEF Unused
  <2>2. NonePending' /\ LineInv' /\ SentInv'
    BY <1>1, <1>5, <2>1 DEF NonePending, LineInv, SentInv
  <2>3. HandlerInv' /\ RecoverInv'
    BY <1>1, <1>5, <2>1 DEF Base, TameInv, HandlerInv, RecoverInv, Recover
  <2> QED
    BY <1>2, <1>3, <2>2, <2>3 DEF TameInv
<1> QED
  BY <1>4, <1>5

LEMMA TransferTame == ASSUME Base, HwTransfer PROVE TameInv'
<1>1. /\ HwFrame /\ cmdLine' = cmdLine /\ card' = card /\ card = "ready" /\ datLine \in AllReqs /\ cmdLine # datLine
      /\ datLine' = NoReq /\ srs' = srs \cup {"TC"} /\ executed' = executed \cup {datLine}
  <2>1. HwFrame
    BY HwLeaves DEF HwStep, HwAnswer, Base, TameInv, TameTypes
  <2> QED
    BY <2>1, ReqFacts DEF HwTransfer
<1>2. TameTypes' /\ OnePending' /\ OkInv'
  BY <1>1, HwKeeps DEF Base, TameInv, TameTypes, Answers
<1> USE DEF HwFrame, reqVars, slotVars
<1>3. PrepareInv' /\ CardInv'
  <2>1. ~Preparing
    BY <1>1, InUse, Recovering DEF Base, TameInv, PrepareInv, Unused
  <2> QED
    BY <1>1, <2>1 DEF Base, TameInv, PrepareInv, CardInv
<1>4. CASE Untouched
  <2>1. ~Preparing /\ InFlight = {current} /\ current \in Reqs /\ datLine = current
    BY <1>1, <1>4, InUse
  <2>2. NonePending'
    BY <1>1, <2>1 DEF NonePending
  <2>3. cmdLine = NoReq /\ current \notin Plain /\ LineInv'
    BY <1>1, <1>4, <2>1, ReqFacts DEF Base, TameInv, LineInv
  <2>4. SentInv'
    <3>1. "TC" \notin srs \cup Held /\ inserted
      BY <1>1, <1>4, <2>1, ReqFacts DEF Base, TameInv, SentInv, Unused
    <3>2. isr.pc # "card" => "CC" \in srs \cup Held \cup flags[current]
      BY <1>1, <1>4, <2>1 DEF Base, TameInv, SentInv
    <3> QED
      BY <1>1, <1>4, <2>1, <2>3, <3>1, <3>2 DEF Base, TameInv, SentInv, Works, Unused
  <2>5. HandlerInv' /\ RecoverInv'
    BY <1>1, <1>4, <2>1 DEF Base, TameInv, HandlerInv, RecoverInv, Untouched, Unused, Recover
  <2> QED
    BY <1>2, <1>3, <2>2, <2>3, <2>4, <2>5 DEF TameInv
<1>5. CASE ~Untouched
  <2>1. isr.pc = "recover" /\ ~Preparing /\ (InFlight # {} \/ Recover.pc = "poll") /\ Recover.pc \in {"send", "poll"}
    BY <1>1, <1>5, Recovering, ReqFacts DEF Unused
  <2>2. NonePending' /\ LineInv' /\ SentInv'
    BY <1>1, <1>5, <2>1 DEF NonePending, LineInv, SentInv
  <2>3. HandlerInv' /\ RecoverInv'
    BY <1>1, <1>5, <2>1 DEF Base, TameInv, HandlerInv, RecoverInv, Recover
  <2> QED
    BY <1>2, <1>3, <2>2, <2>3 DEF TameInv
<1> QED
  BY <1>4, <1>5

\* A command that times out, or whose response is damaged.
LEMMA CmdErrorTame == ASSUME Base, HwCmdError PROVE TameInv'
<1>1. /\ HwFrame /\ card' = card /\ cmdLine \in AllReqs /\ cmdLine' \in {NoReq, Blocked} /\ executed' = executed
      /\ srs' = srs \cup {"ECMD"}
      /\ datLine # cmdLine => datLine' = datLine
      /\ datLine = cmdLine => datLine' = NoReq \/ (cmdLine \in Data /\ datLine' = Blocked)
  <2>1. HwFrame
    BY HwLeaves DEF HwStep, HwAnswer, Base, TameInv, TameTypes
  <2> QED
    BY <2>1, ReqFacts DEF HwCmdError
<1>2. TameTypes' /\ OnePending' /\ OkInv'
  BY <1>1, HwKeeps DEF Base, TameInv, TameTypes, BusErrors
<1> USE DEF HwFrame, reqVars, slotVars
<1>3. ~Preparing
  BY <1>1, InUse, Recovering DEF Base, TameInv, PrepareInv, Unused
<1>4. PrepareInv' /\ CardInv'
  BY <1>1, <1>3 DEF Base, TameInv, PrepareInv, CardInv, Answers
<1>5. NonePending'
  <2>1. Untouched /\ InFlight = {} => ~inserted /\ card # "ready"
    BY <1>1, InUse
  <2>2. ~Untouched => isr.pc # "idle" /\ (Recover.pc \in {"send", "poll"} \/ (Recover.pc = "idle" /\ Unused))
    BY Recovering
  <2>3. ~Unused
    BY <1>1, ReqFacts DEF Unused
  <2>4. ~Untouched /\ InFlight = {} /\ Recover.pc # "poll" => ~inserted /\ card # "ready"
    BY <1>1, <2>3, Recovering
  <2> QED
    BY <1>1, <1>3, <2>1, <2>2, <2>3, <2>4 DEF Base, TameInv, NonePending, Answers
<1>6. LineInv'
  <2> SUFFICES ASSUME Untouched, current \in Reqs PROVE LineInv'
    BY <1>1 DEF LineInv
  <2>1. cmdLine = current
    BY <1>1, InUse
  <2> QED
    BY <1>1, <1>3, <2>1, ReqFacts DEF Base, TameInv, LineInv
<1>7. SentInv'
  <2> SUFFICES ASSUME Untouched, NEW r \in InFlight PROVE SentInv'
    BY <1>1 DEF SentInv
  <2>1. current = r /\ r \in Reqs /\ cmdLine = r
    BY <1>1, <1>3, InUse DEF Base, TameInv, SentInv, InFlight
  <2>2. Held = {} \/ Held \cap Answers = {}
    BY <1>1, <1>3, <2>1, ReqFacts DEF Base, TameInv, SentInv, Unused, Answers
  <2>3. srs \cap Answers = {}
    BY <1>1, <1>3, <2>1, ReqFacts DEF Base, TameInv, SentInv, Unused, Answers
  <2>4. datLine' # r
    BY <1>1, <2>1, ReqFacts
  <2>5. srs' \cap BusErrors # {} /\ srs' \cap Answers = {}
    BY <1>1, <2>3 DEF BusErrors, Answers
  <2> QED
    BY <1>1, <1>3, <2>1, <2>2, <2>4, <2>5 DEF Base, TameInv, SentInv, Works, Answers
<1>8. HandlerInv'
  BY <1>1 DEF Base, TameInv, HandlerInv, BusErrors
<1>9. RecoverInv'
  <2>1. ~Unused
    BY <1>1, ReqFacts DEF Unused
  <2>2. datLine = NoReq => datLine' = NoReq
    BY <1>1, ReqFacts
  <2> QED
    BY <1>1, <2>1, <2>2 DEF Base, TameInv, RecoverInv, Recover
<1> QED
  BY <1>2, <1>4, <1>5, <1>6, <1>7, <1>8, <1>9 DEF TameInv

\* A transfer that goes wrong.
LEMMA DatErrorTame == ASSUME Base, NEW e \in {"EDAT", "EAUTO"}, HwDatError(e) PROVE TameInv'
<1>1. /\ HwFrame /\ card' = card /\ datLine \in AllReqs /\ cmdLine # datLine /\ cmdLine' = cmdLine
      /\ datLine' = Blocked /\ executed' = executed /\ srs' = srs \cup {e}
  <2>1. HwStep
    BY DEF HwStep
  <2>2. HwFrame
    BY <2>1, HwLeaves DEF Base, TameInv, TameTypes
  <2> QED
    BY <2>2 DEF HwDatError
<1>2. TameTypes' /\ OnePending' /\ OkInv'
  BY <1>1, HwKeeps DEF Base, TameInv, TameTypes, BusErrors
<1> USE DEF HwFrame, reqVars, slotVars
<1>3. ~Preparing
  BY <1>1, InUse, Recovering DEF Base, TameInv, PrepareInv, Unused
<1>4. PrepareInv' /\ CardInv'
  BY <1>1, <1>3 DEF Base, TameInv, PrepareInv, CardInv, Answers
<1>5. NonePending'
  <2>1. Untouched /\ InFlight = {} => ~inserted /\ card # "ready"
    BY <1>1, InUse
  <2>2. ~Untouched => isr.pc # "idle" /\ (Recover.pc \in {"send", "poll"} \/ (Recover.pc = "idle" /\ Unused))
    BY Recovering
  <2>3. ~Unused
    BY <1>1, ReqFacts DEF Unused
  <2>4. ~Untouched /\ InFlight = {} /\ Recover.pc # "poll" => ~inserted /\ card # "ready"
    BY <1>1, <2>3, Recovering
  <2> QED
    BY <1>1, <1>3, <2>1, <2>2, <2>3, <2>4 DEF Base, TameInv, NonePending, Answers
<1>6. LineInv'
  <2> SUFFICES ASSUME Untouched, current \in Reqs PROVE LineInv'
    BY <1>1 DEF LineInv
  <2>1. datLine = current
    BY <1>1, InUse
  <2> QED
    BY <1>1, <1>3, <2>1, ReqFacts DEF Base, TameInv, LineInv
<1>7. SentInv'
  <2> SUFFICES ASSUME Untouched, NEW r \in InFlight PROVE SentInv'
    BY <1>1 DEF SentInv
  <2>1. current = r /\ r \in Reqs /\ datLine = r
    BY <1>1, <1>3, InUse DEF Base, TameInv, SentInv, InFlight
  <2>2. "TC" \notin Held \cup srs /\ r # Blocked
    BY <1>1, <1>3, <2>1, ReqFacts DEF Base, TameInv, SentInv, Unused, Answers
  <2>3. inserted
    BY <1>1, <1>3, <2>1 DEF Base, TameInv, SentInv
  <2>5. srs' \cap BusErrors # {} /\ srs' \cap Answers = srs \cap Answers
    BY <1>1 DEF BusErrors, Answers
  <2> QED
    BY <1>1, <1>3, <2>1, <2>2, <2>3, <2>5 DEF Base, TameInv, SentInv, Works, Answers
<1>8. HandlerInv'
  BY <1>1 DEF Base, TameInv, HandlerInv, BusErrors
<1>9. RecoverInv'
  <2>1. ~Unused /\ datLine # NoReq
    BY <1>1, ReqFacts DEF Unused
  <2> QED
    BY <1>1, <2>1 DEF Base, TameInv, RecoverInv, Recover, Answers
<1> QED
  BY <1>2, <1>4, <1>5, <1>6, <1>7, <1>8, <1>9 DEF TameInv

LEMMA CardTame == ASSUME Base, HwCard PROVE TameInv'
<1>1. /\ HwFrame /\ card' \in {"out", "new"} /\ srs' = srs \cup {"CARD"} /\ cmdLine' = cmdLine
      /\ datLine' = datLine /\ executed' = executed
  <2>1. HwFrame
    BY HwLeaves DEF HwStep, HwAnswer, Base, TameInv, TameTypes
  <2> QED
    BY <2>1 DEF HwCard
<1>2. TameTypes' /\ OnePending' /\ OkInv'
  BY <1>1, HwKeeps DEF Base, TameInv, TameTypes
<1> USE DEF HwFrame, reqVars, slotVars
<1>3. srs' \cap Answers = srs \cap Answers /\ srs' \cap BusErrors = srs \cap BusErrors
  BY <1>1 DEF Answers, BusErrors
<1>4. PrepareInv' /\ CardInv' /\ NonePending'
  BY <1>1, <1>3 DEF Base, TameInv, PrepareInv, CardInv, NonePending, Unused
<1>5. LineInv'
  BY <1>1 DEF Base, TameInv, LineInv
<1>6. SentInv'
  BY <1>1, <1>3 DEF Base, TameInv, SentInv, Works, Unused
<1>7. HandlerInv' /\ RecoverInv'
  BY <1>1, <1>3 DEF Base, TameInv, HandlerInv, RecoverInv, Recover, Unused
<1> QED
  BY <1>2, <1>4, <1>5, <1>6, <1>7 DEF TameInv

LEMMA HwTame == ASSUME Base, HwStep PROVE TameInv'
<1>1. ~HwStopAtGap
  BY DEF HwStopAtGap, Base, TameInv, TameTypes
<1> QED
  BY <1>1, ResponseTame, TransferTame, CmdErrorTame, DatErrorTame, CardTame DEF HwStep, HwAnswer

----------------------------------------------------------------------------
(* The thread *)

\* The thread moves only when the handler does not.
ApiFrame == UNCHANGED <<env, stopGap, isr, rec>> /\ Held' = Held /\ Recover' = Recover /\ Untouched' = Untouched

LEMMA ExecCallTame == ASSUME Base, NEW r \in Reqs, ExecCall(r) PROVE TameInv'
<1>1. /\ api.pc = "idle" /\ isr.pc = "idle" /\ inserted /\ InFlight = {} /\ ApiFrame
      /\ UNCHANGED <<env, current, slotVars, hwVars, isr, rec>>
      /\ sub' = [sub EXCEPT ![r] = NoReq] /\ flags' = [flags EXCEPT ![r] = {}] /\ executed' = executed \ {r}
  <2>1. MayIssue(r) /\ inserted /\ ~SubCommands
    BY DEF ExecCall, Base, Tame, Careful, SubCommands
  <2> QED
    BY <2>1 DEF ExecCall, Call, ApiAt, MayIssue, ApiFrame, Held, Recover, Untouched, hwVars
<1> USE DEF slotVars, hwVars, ApiFrame
<1>2. Recover.pc = "idle" /\ Held = {} /\ Untouched /\ ~Preparing
  BY <1>1, AtRest DEF Preparing, BeforeSend
<1>3. Unused /\ srs \subseteq {"CARD"}
  BY <1>1, <1>2 DEF Base, TameInv, NonePending
<1>4. \/ status' = [q \in AllReqs |-> IF q = r THEN "FAILED" ELSE status[q]] /\ api' = api
      \/ status' = [q \in AllReqs |-> IF q = r THEN "PENDING" ELSE status[q]]
           /\ api' = [ApiIdle EXCEPT !.pc = "swap", !.req = r]
  BY DEF ExecCall, Answer
<1>5. /\ DOMAIN status' = AllReqs /\ \A q \in Reqs : q # r => status'[q] = status[q]
      /\ status'[r] \in {"FAILED", "PENDING"}
  BY <1>4, ReqFacts
<1>6. \/ InFlight' = {} /\ api' = api
      \/ InFlight' = {r} /\ api'.pc = "swap" /\ api'.req = r
  <2>1. CASE api' = api /\ status'[r] = "FAILED"
    <3>1. InFlight' = {}
      BY <1>1, <1>5, <2>1 DEF InFlight
    <3> QED
      BY <2>1, <3>1
  <2>2. CASE api' = [ApiIdle EXCEPT !.pc = "swap", !.req = r] /\ status'[r] = "PENDING"
    <3>1. InFlight' = {r}
      BY <1>1, <1>5, <2>2 DEF InFlight
    <3> QED
      BY <2>2, <3>1 DEF ApiIdle
  <2> QED
    BY <1>4, <2>1, <2>2, ReqFacts
<1>7. TameTypes'
  BY <1>1, <1>4, <1>5, <1>6, ReqFacts DEF Base, TameInv, TameTypes, BeforeSend
<1>8. OnePending' /\ CardInv'
  BY <1>1, <1>6 DEF Base, TameInv, OnePending, CardInv
<1>9. PrepareInv'
  <2>1. sub'[r] = NoReq
    BY <1>1, ReqFacts DEF Base, TameInv, TameTypes
  <2> QED
    BY <1>1, <1>2, <1>3, <1>6, <2>1 DEF PrepareInv, Preparing, Unused, BeforeSend
<1>10. NonePending' /\ LineInv' /\ SentInv'
  BY <1>1, <1>2, <1>3, <1>6, ReqFacts DEF NonePending, LineInv, SentInv, Preparing, Unused, Answers, BeforeSend
<1>11. HandlerInv' /\ RecoverInv'
  <2>1. current \in Reqs => sub'[current] = NoReq
    BY <1>1, <1>2, ReqFacts DEF Base, TameInv, TameTypes, RecoverInv
  <2> QED
    BY <1>1, <1>2, <1>6, <2>1 DEF HandlerInv, RecoverInv
<1>12. OkInv'
  BY <1>1, <1>5 DEF Base, TameInv, OkInv
<1> QED
  BY <1>7, <1>8, <1>9, <1>10, <1>11, <1>12 DEF TameInv

\* The calls and the rounds of a wait: only the thread moves.
LEMMA WaitTame ==
    ASSUME Base, UNCHANGED <<env, reqVars, slotVars, hwVars, isr, rec, executed>>, isr.pc = "idle",
           api.pc \in {"idle", "wait", "poll", "polled"}, api'.pc \in {"idle", "wait", "poll", "polled"},
           api'.pc # "idle" => api'.req \in Reqs
    PROVE  TameInv'
<1> USE DEF reqVars, slotVars, hwVars
<1>1. /\ InFlight' = InFlight /\ Held' = Held /\ Recover' = Recover /\ Untouched' = Untouched
      /\ ~Preparing /\ ~Preparing' /\ Unused' = Unused
  BY DEF InFlight, Held, Recover, Untouched, Preparing, BeforeSend, Unused
<1>2. TameTypes'
  BY <1>1 DEF Base, TameInv, TameTypes
<1>3. OnePending' /\ PrepareInv' /\ CardInv' /\ NonePending'
  BY <1>1 DEF Base, TameInv, OnePending, PrepareInv, CardInv, NonePending
<1>4. LineInv' /\ SentInv'
  BY <1>1 DEF Base, TameInv, LineInv, SentInv, Works
<1>5. HandlerInv' /\ RecoverInv' /\ OkInv'
  BY <1>1 DEF Base, TameInv, HandlerInv, RecoverInv, OkInv
<1> QED
  BY <1>2, <1>3, <1>4, <1>5 DEF TameInv

LEMMA WaitCallTame == ASSUME Base, NEW r \in Reqs, WaitCall(r) PROVE TameInv'
<1>1. /\ api.pc = "idle" /\ isr.pc = "idle" /\ UNCHANGED <<env, reqVars, slotVars, hwVars, isr, rec, executed>>
      /\ api'.pc = "wait" /\ api'.req = r
  BY DEF WaitCall, Call, ApiAt, ApiIdle
<1> QED
  BY <1>1, WaitTame

LEMMA WaitRoundTame == ASSUME Base, WaitRound \/ WaitAgain \/ WaitDone PROVE TameInv'
<1>1. isr.pc = "idle" /\ api.pc \in {"wait", "polled"} /\ UNCHANGED <<env, reqVars, slotVars, hwVars, isr, executed>>
  BY DEF WaitRound, WaitAgain, WaitDone, ApiAt
<1>2. api.req \in Reqs
  BY <1>1 DEF Base, TameInv, TameTypes
<1>3. rec' = rec /\ (api' = ApiIdle \/ api' = [api EXCEPT !.pc = "polled"] \/ api' = [api EXCEPT !.pc = "poll"]
                     \/ api' = [api EXCEPT !.pc = "wait"])
  BY <1>2, ReqFacts DEF WaitRound, WaitAgain, WaitDone, Goto
<1>4. api'.pc \in {"idle", "wait", "poll", "polled"} /\ (api'.pc # "idle" => api'.req \in Reqs)
  BY <1>2, <1>3 DEF ApiIdle, Base, ShapeInv
<1> QED
  BY <1>1, <1>3, <1>4, WaitTame

LEMMA DetachCallTame == ASSUME Base, DetachCall PROVE TameInv'
<1>1. /\ api.pc = "idle" /\ isr.pc = "idle" /\ ApiFrame /\ api' = [api EXCEPT !.pc = "detach"]
      /\ Unused' /\ srs' = srs \ {"CC", "TC", "GAP"} /\ UNCHANGED <<flags, sub, current, slotVars, stopGap, card, isr, rec, executed>>
      /\ status' = [q \in AllReqs |-> IF q = current THEN "ABORTED" ELSE status[q]]
  <2>1. ~ResetFails
    BY DEF Base, Tame, ResetFails
  <2> QED
    BY <2>1 DEF DetachCall, Call, ApiAt, Goto, ResetBoth, Detached, Answer, Unused, ApiFrame, Held, Recover, Untouched
<1> USE DEF slotVars, ApiFrame
<1>2. Recover.pc = "idle" /\ Held = {} /\ Untouched /\ ~Preparing /\ api'.pc = "detach"
  BY <1>1, AtRest DEF Preparing, BeforeSend, Base, ShapeInv
<1>3. /\ \A q \in Reqs : status'[q] = IF q = current THEN "ABORTED" ELSE status[q]
      /\ DOMAIN status' = AllReqs
  BY <1>1, ReqFacts
<1>4. InFlight' = {}
  <2>1. \A q \in InFlight : q = current
    BY <1>2 DEF Base, TameInv, SentInv
  <2> QED
    BY <1>3, <2>1 DEF InFlight
<1>5. TameTypes'
  BY <1>1, <1>2, <1>3 DEF Base, TameInv, TameTypes
<1>6. OnePending' /\ PrepareInv' /\ SentInv'
  BY <1>2, <1>4 DEF OnePending, PrepareInv, SentInv, Preparing, BeforeSend
<1>7. CardInv' /\ NonePending' /\ LineInv'
  BY <1>1, <1>2, ReqFacts DEF Base, TameInv, CardInv, NonePending, LineInv, Answers, Unused
<1>8. HandlerInv' /\ RecoverInv'
  BY <1>1, <1>2, <1>4 DEF Base, TameInv, HandlerInv, RecoverInv, Unused
<1>9. OkInv'
  BY <1>1, <1>3 DEF Base, TameInv, OkInv
<1> QED
  BY <1>5, <1>6, <1>7, <1>8, <1>9 DEF TameInv

LEMMA DetachEndTame == ASSUME Base, DetachEnd PROVE TameInv'
<1>1. /\ api.pc = "detach" /\ isr.pc = "idle" /\ ApiFrame /\ api' = ApiIdle /\ ~inserted' /\ current' = NoReq
      /\ UNCHANGED <<status, flags, sub, abortFlag, srs, cmdLine, datLine, stopGap, card, isr, rec, executed>>
  BY DEF DetachEnd, ApiAt, ApiFrame, Held, Recover, Untouched, hwVars
<1> USE DEF ApiFrame
<1>2. Recover.pc = "idle" /\ Held = {} /\ Untouched /\ ~Preparing /\ api'.pc = "idle" /\ ~Preparing' /\ InFlight' = InFlight
  BY <1>1, AtRest DEF Preparing, BeforeSend, Base, ApiIdle, InFlight
<1>3. InFlight = {}
  BY <1>1 DEF Base, TameInv, HandlerInv
<1>4. TameTypes'
  BY <1>1, <1>2 DEF Base, TameInv, TameTypes, Objects
<1>5. OnePending' /\ PrepareInv' /\ SentInv' /\ LineInv' /\ CardInv'
  BY <1>1, <1>2, <1>3, ReqFacts DEF OnePending, PrepareInv, SentInv, LineInv, Base, TameInv, CardInv
<1>6. NonePending'
  BY <1>1, <1>2, <1>3 DEF Base, TameInv, NonePending, Unused
<1>7. HandlerInv' /\ RecoverInv' /\ OkInv'
  BY <1>1, <1>2, <1>3, ReqFacts DEF Base, TameInv, HandlerInv, RecoverInv, OkInv, Unused
<1> QED
  BY <1>4, <1>5, <1>6, <1>7 DEF TameInv

LEMMA AttachTame == ASSUME Base, AttachCall PROVE TameInv'
<1>1. /\ api.pc = "idle" /\ isr.pc = "idle" /\ ApiFrame /\ ~inserted /\ inserted' /\ Unused /\ srs = {} /\ card' = "ready"
      /\ UNCHANGED <<reqVars, abortFlag, srs, cmdLine, datLine, stopGap, api, isr, rec, executed>>
  BY DEF AttachCall, Call, ApiAt, ApiFrame, Held, Recover, Untouched, Unused
<1> USE DEF ApiFrame, reqVars
<1>2. Recover.pc = "idle" /\ Held = {} /\ Untouched /\ ~Preparing /\ ~Preparing' /\ InFlight' = InFlight /\ Unused'
  BY <1>1, AtRest DEF Preparing, BeforeSend, InFlight, Unused
<1>3. InFlight = {}
  <2> SUFFICES ASSUME NEW r \in InFlight PROVE FALSE
    OBVIOUS
  <2>1. Works(r) /\ r # NoReq
    BY <1>1, <1>2, ReqFacts DEF Base, TameInv, SentInv, InFlight
  <2> QED
    BY <1>1, <1>2, <2>1 DEF Works, Unused
<1>4. TameTypes'
  BY <1>1, <1>2 DEF Base, TameInv, TameTypes
<1>5. OnePending' /\ PrepareInv' /\ SentInv' /\ LineInv' /\ CardInv'
  BY <1>1, <1>2, <1>3, ReqFacts DEF OnePending, PrepareInv, SentInv, LineInv, CardInv, Unused
<1>6. NonePending'
  BY <1>1, <1>2, <1>3 DEF NonePending
<1>7. HandlerInv' /\ RecoverInv' /\ OkInv'
  BY <1>1, <1>2, <1>3, ReqFacts DEF Base, TameInv, HandlerInv, RecoverInv, OkInv, Unused
<1> QED
  BY <1>4, <1>5, <1>6, <1>7 DEF TameInv

\* What holds while the thread prepares a request, the handler being at rest.
LEMMA InPreparation ==
    ASSUME Base, Preparing, isr.pc = "idle"
    PROVE  /\ api.req \in Reqs /\ Recover.pc = "idle" /\ Held = {} /\ Untouched /\ Unused /\ srs \subseteq {"CARD"}
           /\ InFlight \subseteq {api.req} /\ sub[api.req] = NoReq
           /\ srs \cap Answers = {} /\ api.req # "abort"
<1>1. api.req \in Reqs
  BY DEF Base, TameInv, TameTypes, Preparing, BeforeSend
<1> QED
  BY <1>1, AtRest, ReqFacts DEF Base, TameInv, PrepareInv, Answers

LEMMA ExecSwapTame == ASSUME Base, ExecSwap PROVE TameInv'
<1>1. /\ api.pc = "swap" /\ isr.pc = "idle" /\ ApiFrame /\ api' = [api EXCEPT !.pc = "inhibit", !.main = current]
      /\ current' = api.req /\ flags' = [flags EXCEPT ![api.req] = {}]
      /\ UNCHANGED <<status, sub, slotVars, hwVars, executed>>
  BY DEF ExecSwap, ApiAt, ApiFrame, Held, Recover, Untouched, hwVars
<1> USE DEF slotVars, hwVars, ApiFrame
<1>2. /\ Preparing /\ api'.pc = "inhibit" /\ api'.req = api.req /\ InFlight' = InFlight
  BY <1>1 DEF Preparing, BeforeSend, InFlight, Base, ShapeInv
<1>3. TameTypes'
  BY <1>1, <1>2, InPreparation DEF Base, TameInv, TameTypes, Objects, BeforeSend
<1>4. Preparing'
  BY <1>2 DEF Preparing, BeforeSend
<1>5. OnePending' /\ CardInv' /\ NonePending' /\ LineInv' /\ SentInv'
  BY <1>1, <1>2, <1>4 DEF Base, TameInv, OnePending, CardInv, NonePending, LineInv, SentInv
<1>6. PrepareInv'
  BY <1>1, <1>2, InPreparation, ReqFacts DEF Base, TameInv, PrepareInv, Unused
<1>7. HandlerInv' /\ RecoverInv' /\ OkInv'
  BY <1>1, <1>2, InPreparation DEF Base, TameInv, HandlerInv, RecoverInv, OkInv
<1> QED
  BY <1>3, <1>5, <1>6, <1>7 DEF TameInv

LEMMA ExecPrepareTame == ASSUME Base, ExecPrepare PROVE TameInv'
<1>1. /\ api.pc = "inhibit" /\ isr.pc = "idle" /\ ApiFrame /\ srs' = srs \cap {"CARD"}
      /\ flags' = [flags EXCEPT ![api.req] = Preset(api.req)]
      /\ UNCHANGED <<sub, slotVars, stopGap, cmdLine, datLine, card, executed>>
  BY DEF ExecPrepare, ApiAt, ApiFrame, Held, Recover, Untouched
<1> USE DEF slotVars, ApiFrame
<1>2. Preparing
  BY <1>1 DEF Preparing, BeforeSend
<1>3. \/ UNCHANGED <<status, current>> /\ api' \in {[api EXCEPT !.pc = "send"], [api EXCEPT !.pc = "flag"]}
      \/ Answer(api.req, "FAILED") /\ current' = NoReq /\ api' = ApiIdle
  BY <1>1, <1>2, InPreparation DEF ExecPrepare, Issued, Goto
<1>4. srs' \cap Answers = {} /\ Unused'
  BY <1>1, <1>2, InPreparation DEF Answers, Unused
<1>5. CASE UNCHANGED <<status, current>> /\ api' \in {[api EXCEPT !.pc = "send"], [api EXCEPT !.pc = "flag"]}
  <2>1. api'.pc \in {"send", "flag"} /\ api'.req = api.req /\ InFlight' = InFlight
    BY <1>5 DEF InFlight, Base, ShapeInv
  <2>2. Preparing'
    BY <2>1 DEF Preparing, BeforeSend
  <2>3. flags'[api.req] = Preset(api.req)
    BY <1>1, <1>2, InPreparation, ReqFacts DEF Base, TameInv, TameTypes
  <2>4. TameTypes'
    BY <1>1, <1>5, <2>1 DEF Base, TameInv, TameTypes, BeforeSend
  <2>5. OnePending' /\ CardInv' /\ NonePending' /\ LineInv' /\ SentInv'
    BY <1>1, <1>4, <2>1, <2>2 DEF Base, TameInv, OnePending, CardInv, NonePending, LineInv, SentInv
  <2>6. PrepareInv'
    BY <1>1, <1>2, <1>4, <1>5, <2>1, <2>3, InPreparation DEF Base, TameInv, PrepareInv
  <2>7. HandlerInv' /\ RecoverInv' /\ OkInv'
    BY <1>1, <1>2, <1>4, <1>5, <2>1, InPreparation DEF Base, TameInv, HandlerInv, RecoverInv, OkInv
  <2> QED
    BY <2>4, <2>5, <2>6, <2>7 DEF TameInv
<1>6. CASE Answer(api.req, "FAILED") /\ current' = NoReq /\ api' = ApiIdle
  <2>1. /\ DOMAIN status' = AllReqs
        /\ \A q \in Reqs : status'[q] = IF q = api.req THEN "FAILED" ELSE status[q]
    BY <1>6, ReqFacts DEF Answer
  <2>2. InFlight' = {}
    BY <1>1, <1>2, <2>1, InPreparation DEF InFlight
  <2>3. api'.pc = "idle" /\ ~Preparing'
    BY <1>6 DEF Preparing, BeforeSend, ApiIdle
  <2>4. TameTypes'
    BY <1>1, <1>6, <2>1, <2>3 DEF Base, TameInv, TameTypes, Objects
  <2>5. OnePending' /\ CardInv' /\ NonePending' /\ LineInv' /\ SentInv' /\ PrepareInv'
    BY <1>1, <1>2, <1>4, <1>6, <2>2, <2>3, InPreparation, ReqFacts DEF Base, TameInv, OnePending, CardInv, NonePending,
       LineInv, SentInv, PrepareInv
  <2>6. HandlerInv' /\ RecoverInv'
    BY <1>1, <1>2, <1>4, <1>6, <2>2, <2>3, InPreparation, ReqFacts DEF HandlerInv, RecoverInv
  <2>7. OkInv'
    BY <1>1, <2>1 DEF Base, TameInv, OkInv
  <2> QED
    BY <2>4, <2>5, <2>6, <2>7 DEF TameInv
<1> QED
  BY <1>3, <1>5, <1>6

LEMMA ExecFlagTame == ASSUME Base, ExecFlag PROVE TameInv'
<1>1. api.pc = "flag" /\ isr.pc = "idle"
  BY DEF ExecFlag, ApiAt
<1>2. Preparing
  BY <1>1 DEF Preparing, BeforeSend
<1>3. /\ ApiFrame /\ UNCHANGED <<status, flags, sub, current, slotVars, hwVars, executed>>
      /\ api' = [api EXCEPT !.pc = "send"]
  BY <1>1, <1>2, InPreparation DEF ExecFlag, Unused, ApiFrame, Goto, Held, Recover, Untouched, hwVars
<1> USE DEF slotVars, hwVars, ApiFrame
<1>4. api'.pc = "send" /\ api'.req = api.req /\ InFlight' = InFlight /\ Unused' = Unused
  BY <1>3 DEF InFlight, Base, ShapeInv, Unused
<1>5. Preparing'
  BY <1>4 DEF Preparing, BeforeSend
<1>6. TameTypes'
  BY <1>1, <1>3, <1>4 DEF Base, TameInv, TameTypes, BeforeSend
<1>7. OnePending' /\ CardInv' /\ NonePending' /\ LineInv' /\ SentInv'
  BY <1>3, <1>4, <1>5 DEF Base, TameInv, OnePending, CardInv, NonePending, LineInv, SentInv
<1>8. PrepareInv'
  BY <1>1, <1>2, <1>3, <1>4 DEF Base, TameInv, PrepareInv
<1>9. HandlerInv' /\ RecoverInv' /\ OkInv'
  BY <1>1, <1>3, <1>4 DEF Base, TameInv, HandlerInv, RecoverInv, OkInv
<1> QED
  BY <1>6, <1>7, <1>8, <1>9 DEF TameInv

LEMMA ExecSendTame == ASSUME Base, ExecSend PROVE TameInv'
<1>1. api.pc = "send" /\ isr.pc = "idle"
  BY DEF ExecSend, ApiAt
<1>2. Preparing
  BY <1>1 DEF Preparing, BeforeSend
<1>3. /\ ApiFrame /\ UNCHANGED <<status, flags, sub, current, slotVars, stopGap, srs, card, executed>>
      /\ api' = ApiIdle /\ cmdLine' = api.req /\ datLine' = IF api.req \in Plain THEN NoReq ELSE api.req
  BY <1>1, <1>2, InPreparation DEF ExecSend, Send, UsesDat, Unused, ApiFrame, Issued, Held, Recover, Untouched, reqVars
<1> USE DEF slotVars, ApiFrame
<1>4. api'.pc = "idle" /\ ~Preparing' /\ InFlight' = InFlight
  BY <1>3 DEF InFlight, Preparing, BeforeSend, ApiIdle
<1>5. current \in {api.req, NoReq} /\ (current = NoReq => InFlight = {}) /\ flags[api.req] = Preset(api.req)
  BY <1>1, <1>2 DEF Base, TameInv, PrepareInv
<1>6. TameTypes'
  BY <1>3, <1>4 DEF Base, TameInv, TameTypes
<1>7. OnePending' /\ CardInv' /\ PrepareInv'
  BY <1>3, <1>4 DEF Base, TameInv, OnePending, CardInv, PrepareInv
<1>8. NonePending'
  BY <1>1, <1>2, <1>3, <1>4, InPreparation DEF Base, TameInv, NonePending, PrepareInv
<1>9. LineInv'
  BY <1>1, <1>2, <1>3, <1>5, InPreparation, ReqFacts DEF LineInv
<1>10. SentInv'
  <2> SUFFICES ASSUME NEW r \in InFlight PROVE SentInv'
    BY <1>4 DEF SentInv
  <2>1. r = api.req /\ current = r /\ InFlight = {r}
    BY <1>1, <1>2, <1>5, InPreparation
  <2>2. "TC" \notin flags[r] /\ Preset(r) \subseteq flags[r]
    BY <1>5, <2>1 DEF Preset
  <2>3. ~inserted => card # "ready"
    BY <1>2 DEF Base, TameInv, PrepareInv
  <2>4. srs \cap BusErrors = {} /\ srs \cap Answers = {}
    BY <1>1, <1>2, InPreparation DEF BusErrors, Answers
  <2> QED
    BY <1>1, <1>2, <1>3, <1>4, <2>1, <2>2, <2>3, <2>4, InPreparation DEF SentInv, Works, Answers
<1>11. HandlerInv' /\ RecoverInv' /\ OkInv'
  BY <1>1, <1>3, <1>4, AtRest DEF Base, TameInv, HandlerInv, RecoverInv, OkInv
<1> QED
  BY <1>6, <1>7, <1>8, <1>9, <1>10, <1>11 DEF TameInv

\* Nothing else the thread can do occurs.
LEMMA NotTame ==
    ASSUME Base
    PROVE  /\ ~ExecLineBusy /\ ~WaitTimeout /\ ~AbortCall /\ ~SyncAbortCall
           /\ ~AbortStopped /\ ~AbortReset /\ ~AbortRecovered /\ ~AbortFinish
<1>1. api.pc \notin {"spin", "reset", "recover", "finish"}
  BY DEF Base, TameInv, TameTypes, BeforeSend
<1>2. ~AbortStopped /\ ~AbortReset /\ ~AbortRecovered /\ ~AbortFinish
  BY <1>1 DEF AbortStopped, AbortReset, AbortRecovered, AbortFinish, ApiAt
<1>3. ~WaitTimeout
  BY DEF WaitTimeout, Timeouts, Base, Tame
<1>4. ~AbortCall /\ ~SyncAbortCall
  BY DEF AbortCall, SyncAbortCall, Call, Ops, Base, Tame
<1>5. ~ExecLineBusy
  <2>1. api.pc = "inhibit" => Unused
    BY DEF Base, TameInv, PrepareInv, Preparing, BeforeSend
  <2> QED
    BY <2>1 DEF ExecLineBusy, ApiAt, Unused
<1> QED
  BY <1>2, <1>3, <1>4, <1>5

LEMMA ApiTame == ASSUME Base, ApiStep \/ ApiContinue PROVE TameInv'
<1>1. CASE ApiStep
  BY <1>1, NotTame, ExecCallTame, WaitCallTame, DetachCallTame, AttachTame DEF ApiStep
<1>2. CASE ApiContinue
  BY <1>2, NotTame, ExecSwapTame, ExecPrepareTame, ExecFlagTame, ExecSendTame, WaitRoundTame, DetachEndTame DEF ApiContinue
<1> QED
  BY <1>1, <1>2

----------------------------------------------------------------------------
(* The handler *)

LEMMA EnterTame == ASSUME Base, IsrEnter PROVE TameInv'
<1>1. /\ isr.pc = "idle" /\ isr' = [IsrIdle EXCEPT !.pc = "read"] /\ UNCHANGED <<env, reqVars, slotVars, hwVars, api, rec, executed>>
  BY DEF IsrEnter
<1> USE DEF reqVars, slotVars, hwVars
<1>2. /\ isr'.pc = "read" /\ isr'.bits = {} /\ isr'.cur = NoReq
  BY <1>1 DEF IsrIdle
<1>3. /\ InFlight' = InFlight /\ Held' = {} /\ Recover' = Recover /\ Untouched' /\ Preparing' = Preparing /\ Unused' = Unused
  BY <1>1, <1>2 DEF InFlight, Held, Recover, Untouched, Preparing, Unused
<1>4. TameTypes'
  BY <1>1, <1>2, <1>3 DEF Base, TameInv, TameTypes, Objects
<1>5. OnePending' /\ PrepareInv' /\ CardInv' /\ NonePending'
  BY <1>1, <1>2, <1>3 DEF Base, TameInv, OnePending, PrepareInv, CardInv, NonePending
<1>6. LineInv' /\ SentInv'
  BY <1>1, <1>2, <1>3, AtRest DEF Base, TameInv, LineInv, SentInv, Works
<1>7. HandlerInv' /\ RecoverInv' /\ OkInv'
  BY <1>1, <1>2, <1>3, AtRest DEF Base, TameInv, HandlerInv, RecoverInv, OkInv
<1> QED
  BY <1>4, <1>5, <1>6, <1>7 DEF TameInv

LEMMA ReturnTame == ASSUME Base, IsrReturn PROVE TameInv'
<1>1. /\ isr.pc = "read" /\ srs = {} /\ isr' = IsrIdle /\ UNCHANGED <<env, reqVars, slotVars, hwVars, rec, executed>>
      /\ api' = api \/ (api.pc = "poll" /\ api' = [api EXCEPT !.pc = "polled"])
  BY DEF IsrReturn, Base, PlaceInv
<1> USE DEF reqVars, slotVars, hwVars
<1>2. /\ isr'.pc = "idle" /\ isr'.bits = {} /\ isr'.cur = NoReq
      /\ api' = api \/ (api.pc = "poll" /\ api'.pc = "polled" /\ api'.req = api.req)
  BY <1>1 DEF IsrIdle, Base, ShapeInv
<1>3. /\ InFlight' = InFlight /\ Held' = {} /\ Recover' = Recover /\ Untouched' /\ Preparing' = Preparing /\ Unused' = Unused
      /\ Preparing => api' = api
  BY <1>1, <1>2 DEF InFlight, Held, Recover, Untouched, Preparing, BeforeSend, Unused
<1>4. Held = {} /\ Untouched /\ Recover.pc = "idle"
  BY <1>1 DEF Held, Untouched, Base, PlaceInv, Recover
<1>5. TameTypes'
  BY <1>1, <1>2, <1>3 DEF Base, TameInv, TameTypes, Objects
<1>6. OnePending' /\ PrepareInv' /\ CardInv' /\ NonePending'
  BY <1>1, <1>2, <1>3 DEF Base, TameInv, OnePending, PrepareInv, CardInv, NonePending
<1>7. LineInv' /\ SentInv'
  BY <1>1, <1>2, <1>3, <1>4 DEF Base, TameInv, LineInv, SentInv, Works
<1>8. HandlerInv' /\ RecoverInv' /\ OkInv'
  BY <1>1, <1>2, <1>3, <1>4 DEF Base, TameInv, HandlerInv, RecoverInv, OkInv
<1> QED
  BY <1>5, <1>6, <1>7, <1>8 DEF TameInv

\* What a step of the handler that only reads leaves alone.
IsrFrame == /\ UNCHANGED <<env, reqVars, slotVars, stopGap, cmdLine, datLine, card, api, executed>>
            /\ InFlight' = InFlight /\ Preparing' = Preparing /\ Unused' = Unused
            /\ rec'["api"] = rec["api"]

\* The handler reads the raised bits and clears those of a command that went well.
LEMMA ReadTame == ASSUME Base, IsrRead PROVE TameInv'
<1> USE DEF IsrFrame, reqVars, slotVars
<1>1. /\ isr.pc = "read" /\ srs # {} /\ IsrFrame /\ rec' = rec /\ Recover' = Recover /\ srs' = srs \ Normal
      /\ isr'.bits = srs /\ isr'.cur = current
      /\ \/ "CARD" \in srs /\ isr'.pc = "card"
         \/ "CARD" \notin srs /\ srs \cap BusErrors # {} /\ isr'.pc = "error"
         \/ srs \subseteq Normal \ {"CARD"} /\ current # NoReq /\ isr'.pc = "normal"
         \/ ~(srs \subseteq Normal \ {"CARD"} /\ current # NoReq) /\ srs \cap BusErrors = {} /\ "CARD" \notin srs /\ isr'.pc = "read"
  BY DEF IsrRead, InFlight, Preparing, Unused, Recover
<1>2. /\ srs \subseteq Answers \cup BusErrors \cup {"CARD"} /\ srs' = srs \cap BusErrors /\ srs' \cap Answers = {}
      /\ srs' \cap BusErrors = srs \cap BusErrors
  <2>1. srs \subseteq Answers \cup BusErrors \cup {"CARD"}
    BY DEF Base, TameInv, TameTypes
  <2> QED
    BY <1>1, <2>1 DEF Answers, BusErrors, Normal
<1>3. Held = {} /\ Untouched /\ Untouched' /\ Recover.pc = "idle"
  BY <1>1 DEF Held, Untouched, Base, PlaceInv, Recover
<1>4. Held' = IF isr'.pc = "normal" THEN srs ELSE {}
  BY <1>1 DEF Held
<1>5. isr'.pc = "normal" => srs' = {} /\ srs \subseteq Answers
  BY <1>1, <1>2 DEF Normal, BusErrors, Answers
<1>6. /\ isr'.pc = "normal" => InFlight # {} /\ ~Preparing
      /\ isr'.pc # "read"
  <2>1. ASSUME srs \subseteq Answers PROVE InFlight # {} /\ ~Preparing
    <3>1. srs \cap Answers # {} /\ ~(srs \subseteq {"CARD"})
      BY <1>1, <2>1 DEF Answers
    <3> QED
      BY <1>3, <3>1 DEF Base, TameInv, NonePending, PrepareInv
  <2>2. isr'.pc = "read" => srs \subseteq Answers /\ current = NoReq
    BY <1>1, <1>2 DEF Normal, BusErrors, Answers
  <2>3. current = NoReq /\ ~Preparing => InFlight = {}
    BY <1>3, ReqFacts DEF Base, TameInv, SentInv, InFlight
  <2> QED
    BY <1>5, <2>1, <2>2, <2>3
<1>7. TameTypes'
  BY <1>1, <1>2, <1>6 DEF Base, TameInv, TameTypes
<1>8. OnePending' /\ CardInv'
  BY <1>1, <1>2 DEF Base, TameInv, OnePending, CardInv, BusErrors
<1>9. PrepareInv'
  <2>1. Preparing => isr'.pc = "card" /\ srs' = {}
    <3>1. Preparing => srs \subseteq {"CARD"}
      BY DEF Base, TameInv, PrepareInv
    <3> QED
      BY <1>1, <1>2, <1>6, <3>1 DEF BusErrors
  <2> QED
    BY <1>1, <2>1 DEF Base, TameInv, PrepareInv
<1>10. NonePending'
  BY <1>1, <1>2, <1>3, <1>6 DEF Base, TameInv, NonePending
<1>11. LineInv'
  BY <1>1, <1>2, <1>3 DEF Base, TameInv, LineInv
<1>12. SentInv'
  <2>1. "CC" \notin srs' /\ "TC" \notin srs' /\ (isr'.pc = "normal" => srs' \cup Held' = srs)
        /\ (isr'.pc # "normal" => srs' \cup Held' = srs')
    BY <1>2, <1>4, <1>5 DEF Answers
  <2>2. CASE isr'.pc = "normal"
    BY <1>1, <1>2, <1>3, <1>4, <1>5, <2>1, <2>2 DEF Base, TameInv, SentInv, Works
  <2>3. CASE isr'.pc # "normal"
    BY <1>1, <1>2, <1>3, <1>4, <1>6, <2>1, <2>3 DEF Base, TameInv, SentInv, Works, Answers
  <2> QED
    BY <2>2, <2>3
<1>13. HandlerInv' /\ RecoverInv' /\ OkInv'
  BY <1>1, <1>2, <1>3, <1>5, <1>6 DEF Base, TameInv, HandlerInv, RecoverInv, OkInv
<1> QED
  BY <1>7, <1>8, <1>9, <1>10, <1>11, <1>12, <1>13 DEF TameInv

\* A card has come or gone: the request it finds is answered ABORTED.
LEMMA CardEventTame == ASSUME Base, IsrCard PROVE TameInv'
<1>1. /\ isr.pc = "card" /\ isr' = [IsrIdle EXCEPT !.pc = "read"] /\ srs' = srs
      /\ UNCHANGED <<env, flags, sub, abortFlag, stopGap, card, api, rec, executed>>
      /\ \/ ~inserted /\ UNCHANGED <<status, current, inserted, cmdLine, datLine>>
         \/ /\ status' = [q \in AllReqs |-> IF q = current THEN "ABORTED" ELSE status[q]]
            /\ inserted' = FALSE /\ current' = NoReq /\ cmdLine' = NoReq /\ datLine' = NoReq
  <2>1. ~ResetFails
    BY DEF Base, Tame, ResetFails
  <2> QED
    BY <2>1 DEF IsrCard, CardEvent, Detached, Answer
<1>2. /\ isr'.pc = "read" /\ isr'.bits = {} /\ isr'.cur = NoReq /\ Held = {} /\ Held' = {}
      /\ Untouched /\ Untouched' /\ Recover' = Recover /\ Recover.pc = "idle" /\ Preparing' = Preparing
  BY <1>1 DEF IsrIdle, Held, Untouched, Recover, Preparing, Base, PlaceInv
<1>3. card # "ready" /\ srs \cap Answers = {}
  BY <1>1 DEF Base, TameInv, CardInv
<1>4. CASE ~inserted /\ UNCHANGED <<status, current, inserted, cmdLine, datLine>>
  <2>1. InFlight' = InFlight /\ Unused' = Unused
    BY <1>4 DEF InFlight, Unused
  <2>2. TameTypes'
    BY <1>1, <1>2, <1>4 DEF Base, TameInv, TameTypes, Objects
  <2>3. OnePending' /\ PrepareInv' /\ CardInv' /\ NonePending'
    BY <1>1, <1>2, <1>3, <1>4, <2>1 DEF Base, TameInv, OnePending, PrepareInv, CardInv, NonePending
  <2>4. LineInv' /\ SentInv'
    BY <1>1, <1>2, <1>3, <1>4, <2>1 DEF Base, TameInv, LineInv, SentInv, Works
  <2>5. HandlerInv' /\ RecoverInv' /\ OkInv'
    BY <1>1, <1>2, <1>4, <2>1 DEF Base, TameInv, HandlerInv, RecoverInv, OkInv
  <2> QED
    BY <2>2, <2>3, <2>4, <2>5 DEF TameInv
<1>5. CASE /\ status' = [q \in AllReqs |-> IF q = current THEN "ABORTED" ELSE status[q]]
           /\ inserted' = FALSE /\ current' = NoReq /\ cmdLine' = NoReq /\ datLine' = NoReq
  <2>1. /\ DOMAIN status' = AllReqs
        /\ \A q \in Reqs : status'[q] = IF q = current THEN "ABORTED" ELSE status[q]
    BY <1>5, ReqFacts
  <2>2. InFlight' \subseteq InFlight /\ current \notin InFlight'
    BY <2>1 DEF InFlight
  <2>3. ~Preparing \/ api.pc # "swap" => InFlight' = {}
    BY <1>2, <2>2 DEF Base, TameInv, PrepareInv, SentInv
  <2>4. Unused'
    BY <1>5 DEF Unused
  <2>5. TameTypes'
    BY <1>1, <1>2, <1>5, <2>1 DEF Base, TameInv, TameTypes, Objects
  <2>6. OnePending' /\ CardInv'
    BY <1>1, <1>2, <1>3, <2>2 DEF Base, TameInv, OnePending, CardInv
  <2>7. PrepareInv'
    <3> SUFFICES ASSUME Preparing PROVE PrepareInv'
      BY <1>2 DEF PrepareInv
    <3>1. srs \subseteq {"CARD"} /\ InFlight \subseteq {api.req} /\ sub[api.req] = NoReq
          /\ (api.pc \in {"flag", "send"} => flags[api.req] = Preset(api.req))
      BY DEF Base, TameInv, PrepareInv
    <3> QED
      BY <1>1, <1>2, <1>3, <1>5, <2>2, <2>3, <2>4, <3>1 DEF PrepareInv
  <2>8. NonePending' /\ LineInv' /\ SentInv'
    BY <1>1, <1>2, <1>3, <1>5, <2>3, <2>4, ReqFacts DEF NonePending, LineInv, SentInv
  <2>9. HandlerInv' /\ RecoverInv'
    BY <1>1, <1>2, <1>3, <1>5, <2>2, <2>4, ReqFacts DEF Base, TameInv, HandlerInv, RecoverInv
  <2>10. OkInv'
    BY <1>1, <2>1 DEF Base, TameInv, OkInv
  <2> QED
    BY <2>5, <2>6, <2>7, <2>8, <2>9, <2>10 DEF TameInv
<1> QED
  BY <1>1, <1>4, <1>5

\* What the handler knows when it acts upon answers.
LEMMA Answering ==
    ASSUME Base, isr.pc = "normal"
    PROVE  /\ ~Preparing /\ current \in Reqs /\ InFlight = {current} /\ isr.cur = current /\ Held = isr.bits
           /\ isr.bits # {} /\ isr.bits \subseteq Answers /\ Recover.pc = "idle" /\ Untouched
           /\ sub[current] = NoReq /\ abortFlag = FALSE /\ inserted
<1>1. /\ isr.cur = current /\ Held = isr.bits /\ isr.bits # {} /\ isr.bits \subseteq Answers
      /\ Recover.pc = "idle" /\ Untouched /\ ~Preparing /\ InFlight # {} /\ abortFlag = FALSE
  BY DEF Held, Untouched, Recover, Base, PlaceInv, TameInv, TameTypes, HandlerInv, PrepareInv, NonePending
<1>2. PICK r \in InFlight : TRUE
  BY <1>1
<1>3. r = current
  BY <1>1, <1>2 DEF Base, TameInv, SentInv
<1>4. inserted
  BY <1>1, <1>2 DEF Base, TameInv, SentInv
<1>5. InFlight = {current} /\ current \in Reqs
  BY <1>2, <1>3 DEF Base, TameInv, OnePending, InFlight
<1>6. sub[current] = NoReq
  BY <1>1, <1>5 DEF Base, TameInv, RecoverInv
<1> QED
  BY <1>1, <1>4, <1>5, <1>6

\* The pending request is answered, and nothing of it is left.
LEMMA AnsweredTame ==
    ASSUME Base, isr.pc \in {"normal", "recover"}, isr' = [IsrIdle EXCEPT !.pc = "read"],
           UNCHANGED <<env, sub, inserted, stopGap, card, api, executed>>,
           DOMAIN status' = AllReqs, DOMAIN flags' = AllReqs, abortFlag' = FALSE,
           rec'["api"] = rec["api"], Recover.pc = "idle", Recover'.pc = "idle",
           InFlight' = {}, Unused', srs' \subseteq srs, srs' \cap Answers = {}, current' \in {current, NoReq},
           \A q \in Reqs : status'[q] = "OK" => q \in executed
    PROVE  TameInv'
<1>1. /\ isr'.pc = "read" /\ isr'.bits = {} /\ isr'.cur = NoReq /\ Held' = {} /\ Untouched' /\ Preparing' = Preparing
      /\ ~Preparing
  BY DEF IsrIdle, Held, Untouched, Preparing, Base, TameInv, PrepareInv
<1>2. TameTypes'
  BY <1>1 DEF Base, TameInv, TameTypes, Objects, Recover
<1>3. OnePending' /\ PrepareInv' /\ CardInv' /\ NonePending' /\ SentInv'
  BY <1>1 DEF Base, TameInv, OnePending, PrepareInv, CardInv, NonePending, SentInv
<1>4. LineInv'
  <2>1. "ECMD" \in srs' => datLine' = NoReq
    BY DEF Unused
  <2> QED
    BY <1>1, <2>1, ReqFacts DEF LineInv, Unused
<1>5. HandlerInv' /\ RecoverInv' /\ OkInv'
  BY <1>1, ReqFacts DEF Base, TameInv, HandlerInv, RecoverInv, OkInv
<1> QED
  BY <1>2, <1>3, <1>4, <1>5 DEF TameInv

\* The response of a request that is not complete yet: the request stays pending.
LEMMA HalfwayTame ==
    ASSUME Base, isr.pc = "normal", "CC" \in isr.bits, "TC" \notin isr.bits, current \notin Plain,
           isr' = [IsrIdle EXCEPT !.pc = "read"], flags' = [flags EXCEPT ![current] = flags[current] \cup {"CC"}],
           UNCHANGED <<env, status, sub, current, slotVars, stopGap, srs, cmdLine, datLine, card, api, rec, executed>>
    PROVE  TameInv'
<1> USE DEF slotVars
<1>1. /\ isr'.pc = "read" /\ isr'.bits = {} /\ isr'.cur = NoReq /\ Held' = {} /\ Untouched' /\ Preparing' = Preparing
      /\ Recover' = Recover /\ InFlight' = InFlight /\ Unused' = Unused
  BY DEF IsrIdle, Held, Untouched, Preparing, Recover, InFlight, Unused
<1>2. TameTypes'
  BY <1>1 DEF Base, TameInv, TameTypes, Objects
<1>3. OnePending' /\ PrepareInv' /\ CardInv' /\ NonePending' /\ LineInv'
  BY <1>1, Answering DEF Base, TameInv, OnePending, PrepareInv, CardInv, NonePending, LineInv
<1>4. SentInv'
  <2>1. /\ flags'[current] = flags[current] \cup {"CC"}
    BY Answering, ReqFacts DEF Base, TameInv, TameTypes
  <2>2. cmdLine # current
    BY Answering, ReqFacts DEF Base, TameInv, SentInv
  <2> QED
    BY <1>1, <2>1, <2>2, Answering DEF Base, TameInv, SentInv, Works
<1>5. HandlerInv' /\ RecoverInv' /\ OkInv'
  BY <1>1, Answering DEF Base, TameInv, HandlerInv, RecoverInv, OkInv
<1> QED
  BY <1>2, <1>3, <1>4, <1>5 DEF TameInv

LEMMA NormalTame == ASSUME Base, IsrNormal PROVE TameInv'
<1>1. /\ isr.pc = "normal" /\ isr' = [IsrIdle EXCEPT !.pc = "read"] /\ Progress(isr.bits, current, srs)
      /\ UNCHANGED <<env, sub, inserted, stopGap, card, api, rec, executed>> /\ ~ResetFails
  BY Answering DEF IsrNormal, Base, Tame, ResetFails
<1>2. /\ rec'["api"] = rec["api"] /\ Recover'.pc = "idle" /\ DOMAIN flags = AllReqs /\ DOMAIN status = AllReqs
      /\ \A q \in Reqs : status[q] = "OK" => q \in executed
  BY <1>1, Answering DEF Recover, Base, TameInv, TameTypes, OkInv
<1>3. /\ "CC" \in isr.bits => cmdLine = NoReq /\ (current \in Plain => current \in executed) /\ "CC" \notin srs
      /\ "TC" \in isr.bits => /\ Unused /\ current \in executed /\ current \notin Plain /\ srs \cap Answers = {}
                              /\ "CC" \in isr.bits \cup flags[current]
      /\ "TC" \in srs => current \notin Plain
      /\ "TC" \notin flags[current]
      /\ current \in Plain => datLine = NoReq
  BY <1>1, Answering DEF Base, TameInv, SentInv, LineInv
<1>4. CASE /\ flags' = [flags EXCEPT ![current] = Seen(current, isr.bits)] /\ Answer(current, "FAILED")
           /\ cmdLine' = NoReq /\ datLine' = NoReq /\ srs' = srs \ {"CC", "TC", "GAP"}
           /\ UNCHANGED <<current, adma3Sel, abortFlag>>
  <2>1. DOMAIN status' = AllReqs /\ \A q \in Reqs : status'[q] = IF q = current THEN "FAILED" ELSE status[q]
    BY <1>4, ReqFacts DEF Answer
  <2>2. InFlight' = {}
    BY <1>1, <2>1, Answering DEF InFlight
  <2>3. srs' \subseteq srs /\ srs' \cap Answers = {} /\ Unused'
    BY <1>4 DEF Normal, Answers, Unused
  <2>4. \A q \in Reqs : status'[q] = "OK" => q \in executed
    BY <1>2, <2>1
  <2>5. DOMAIN flags' = AllReqs /\ abortFlag' = FALSE
    BY <1>1, <1>2, <1>4, Answering
  <2> QED
    BY <1>1, <1>2, <1>4, <2>1, <2>2, <2>3, <2>4, <2>5, Answering, AnsweredTame
<1>5. CASE /\ "CC" \in isr.bits /\ (current \in Plain \/ Complete(Seen(current, isr.bits)))
           /\ flags' = [flags EXCEPT ![current] = Seen(current, isr.bits)] /\ Answer(current, "OK")
           /\ Release(TRUE) /\ srs' = srs
           /\ UNCHANGED <<adma3Sel, abortFlag, cmdLine, datLine>>
  <2>1. DOMAIN status' = AllReqs /\ \A q \in Reqs : status'[q] = IF q = current THEN "OK" ELSE status[q]
    BY <1>5, ReqFacts DEF Answer
  <2>2. InFlight' = {}
    BY <1>1, <2>1, Answering DEF InFlight
  <2>3. current \in Plain
    BY <1>3, <1>5 DEF Complete, Seen
  <2>4. srs' \subseteq srs /\ srs' \cap Answers = {} /\ Unused' /\ current' = NoReq
    BY <1>3, <1>5, <2>3 DEF Answers, Unused, Release
  <2>5. \A q \in Reqs : status'[q] = "OK" => q \in executed
    BY <1>2, <1>3, <1>5, <2>1, <2>3
  <2>6. DOMAIN flags' = AllReqs /\ abortFlag' = FALSE
    BY <1>1, <1>2, <1>5, Answering
  <2> QED
    BY <1>1, <1>2, <2>1, <2>2, <2>4, <2>5, <2>6, Answering, AnsweredTame
<1>6. CASE /\ "TC" \in isr.bits /\ flags' = [flags EXCEPT ![current] = AllSeen(current, isr.bits)]
           /\ abortFlag' = FALSE /\ srs' = srs /\ UNCHANGED <<cmdLine, datLine>>
           /\ \E done \in BOOLEAN :
                /\ done = Complete(AllSeen(current, isr.bits))
                /\ status' = [q \in AllReqs |-> IF done /\ (q = current \/ (q = sub[current] /\ Pending(q)))
                                                THEN "OK" ELSE status[q]]
                /\ Release(done)
  <2>1. Complete(AllSeen(current, isr.bits))
    BY <1>3, <1>6 DEF Complete, AllSeen
  <2>2. /\ status' = [q \in AllReqs |-> IF q = current \/ (q = sub[current] /\ Pending(q)) THEN "OK" ELSE status[q]]
        /\ current' = NoReq
    BY <1>6, <2>1 DEF Release
  <2>3. DOMAIN status' = AllReqs /\ \A q \in Reqs : status'[q] = IF q = current THEN "OK" ELSE status[q]
    BY <1>1, <2>2, Answering, ReqFacts
  <2>4. InFlight' = {}
    BY <1>1, <2>3, Answering DEF InFlight
  <2>5. srs' \subseteq srs /\ srs' \cap Answers = {} /\ Unused'
    BY <1>3, <1>6 DEF Unused
  <2>6. \A q \in Reqs : status'[q] = "OK" => q \in executed
    BY <1>2, <1>3, <1>6, <2>3
  <2>7. DOMAIN flags' = AllReqs
    BY <1>2, <1>6
  <2> QED
    BY <1>1, <1>2, <1>6, <2>2, <2>3, <2>4, <2>5, <2>6, <2>7, Answering, AnsweredTame
<1>7. CASE /\ ~("CC" \in isr.bits /\ (current \in Plain \/ Complete(Seen(current, isr.bits)))) /\ "TC" \notin isr.bits
           /\ flags' = [flags EXCEPT ![current] = Seen(current, isr.bits)] /\ srs' = srs
           /\ UNCHANGED <<status, current, adma3Sel, abortFlag, cmdLine, datLine>>
  <2>1. "CC" \in isr.bits /\ current \notin Plain
    BY <1>1, <1>7, Answering DEF Answers
  <2>2. Seen(current, isr.bits) = flags[current] \cup {"CC"}
    BY <2>1 DEF Seen
  <2> QED
    BY <1>1, <1>7, <2>1, <2>2, HalfwayTame DEF slotVars
<1>8. abortFlag = FALSE
  BY <1>1, Answering
<1> QED
  <2>1. CASE "CC" \in isr.bits /\ "RESP" \in Errors /\ flags' = [flags EXCEPT ![current] = Seen(current, isr.bits)]
             /\ Answer(current, "FAILED") /\ cmdLine' = NoReq /\ datLine' = NoReq /\ srs' = srs \ {"CC", "TC", "GAP"}
             /\ UNCHANGED <<current, adma3Sel, abortFlag>>
    BY <1>4, <2>1
  <2>2. CASE ~("CC" \in isr.bits /\ (current \in Plain \/ Complete(Seen(current, isr.bits)))) /\ "TC" \in isr.bits
             /\ flags' = [flags EXCEPT ![current] = AllSeen(current, isr.bits)] /\ abortFlag' = FALSE
             /\ status' = [q \in AllReqs |-> IF Complete(AllSeen(current, isr.bits)) /\ (q = current \/ (q = sub[current] /\ Pending(q)))
                                             THEN "OK" ELSE status[q]]
             /\ Release(Complete(AllSeen(current, isr.bits))) /\ srs' = srs /\ UNCHANGED <<cmdLine, datLine>>
    <3>1. Complete(AllSeen(current, isr.bits)) \in BOOLEAN
      BY DEF Complete
    <3> QED
      BY <1>6, <2>2, <3>1
  <2> QED
    BY <1>1, <1>5, <1>7, <1>8, <2>1, <2>2 DEF Progress, Release, Complete, Seen, AllSeen

\* The handler starts a recovery for the request that was current when it read the error.
LEMMA ErrorTame == ASSUME Base, IsrError PROVE TameInv'
<1>1. /\ isr.pc = "error" /\ isr.cur = current /\ srs \cap BusErrors # {} /\ isr.bits # {} /\ Recover.pc = "idle"
      /\ Untouched /\ Held = {} /\ ~Preparing
  BY DEF IsrError, Base, TameInv, HandlerInv, PrepareInv, PlaceInv, Untouched, Held, Recover
<1>2. /\ UNCHANGED <<env, status, flags, sub, current, slotVars, hwVars, api, executed>>
      /\ rec' = [rec EXCEPT !["isr"] = [RecIdle EXCEPT !.pc = "start", !.bits = srs]]
  BY DEF IsrError
<1> USE DEF slotVars, hwVars
<1>3. /\ isr'.pc = "recover" /\ isr'.bits = isr.bits /\ isr'.cur = isr.cur /\ (isr'.scmds => current \notin Reqs)
  <2>1. PICK scmds \in {FALSE, isr.cur # NoReq /\ sub[isr.cur] # NoReq /\ "ECMD" \in srs} :
             isr' = [isr EXCEPT !.pc = "recover", !.scmds = scmds]
    BY DEF IsrError
  <2>2. isr'.pc = "recover" /\ isr'.bits = isr.bits /\ isr'.cur = isr.cur /\ isr'.scmds = scmds
    BY <2>1 DEF Base, ShapeInv
  <2>3. current \in Reqs => sub[current] = NoReq
    BY <1>1 DEF Base, TameInv, RecoverInv
  <2>4. scmds => current \notin Reqs
    BY <1>1, <2>1, <2>3
  <2> QED
    BY <2>2, <2>4
<1>4. Recover'.pc = "start" /\ Recover'.bits = srs /\ rec'["api"] = rec["api"]
  BY <1>2 DEF Recover, RecIdle, Base, ShapeInv, Parties
<1>5. /\ InFlight' = InFlight /\ Held' = {} /\ Untouched' /\ Preparing' = Preparing /\ Unused' = Unused
  BY <1>2, <1>3, <1>4 DEF InFlight, Held, Untouched, Preparing, Unused
<1>6. TameTypes'
  BY <1>2, <1>3, <1>4 DEF Base, TameInv, TameTypes, Recover
<1>7. OnePending' /\ PrepareInv' /\ CardInv' /\ NonePending' /\ LineInv'
  BY <1>1, <1>2, <1>3, <1>4, <1>5 DEF Base, TameInv, OnePending, PrepareInv, CardInv, NonePending, LineInv
<1>8. SentInv'
  BY <1>1, <1>2, <1>3, <1>5 DEF Base, TameInv, SentInv, Works
<1>9. InFlight \subseteq {isr.cur}
  BY <1>1 DEF Base, TameInv, SentInv
<1>10. HandlerInv' /\ RecoverInv' /\ OkInv'
  BY <1>1, <1>2, <1>3, <1>4, <1>5, <1>9 DEF Base, TameInv, HandlerInv, RecoverInv, OkInv
<1> QED
  BY <1>6, <1>7, <1>8, <1>10 DEF TameInv

\* The recovery is over: the request is answered FAILED.
LEMMA ErrorEndTame == ASSUME Base, IsrErrorEnd PROVE TameInv'
<1>1. /\ isr.pc = "recover" /\ Recover.pc = "idle" /\ isr' = [IsrIdle EXCEPT !.pc = "read"] /\ srs' \subseteq srs
      /\ UNCHANGED <<env, flags, sub, current, slotVars, stopGap, cmdLine, datLine, card, api, executed>>
      /\ rec' = [rec EXCEPT !["isr"] = RecIdle]
  BY DEF IsrErrorEnd, Recover
<1> USE DEF slotVars
<1>2. /\ Unused /\ srs \cap Answers = {} /\ InFlight \subseteq {isr.cur} /\ (isr.scmds => isr.cur \notin Reqs)
      /\ ~Preparing /\ abortFlag = FALSE /\ DOMAIN status = AllReqs /\ DOMAIN flags = AllReqs
      /\ \A q \in AllReqs : sub[q] \notin Reqs
      /\ isr.cur # NoReq => isr.cur \in AllReqs
      /\ \A q \in Reqs : status[q] = "OK" => q \in executed \/ q = isr.cur
  <2>1. isr.cur # NoReq => isr.cur \in AllReqs
    BY ReqFacts DEF Base, TameInv, TameTypes, Objects
  <2> QED
    BY <1>1, <2>1 DEF Base, TameInv, TameTypes, HandlerInv, RecoverInv, PrepareInv, OkInv
<1>3. /\ DOMAIN status' = AllReqs
      /\ \A q \in Reqs : status'[q] = IF q = isr.cur THEN "FAILED" ELSE status[q]
  <2> DEFINE beside == IF isr.cur = NoReq THEN NoReq ELSE sub[isr.cur]
  <2>1. beside \notin Reqs
    BY <1>2, ReqFacts
  <2>2. status' = [q \in AllReqs |-> IF isr.scmds
                        THEN IF q = beside \/ (q = isr.cur /\ Pending(q)) THEN "FAILED" ELSE status[q]
                        ELSE IF q = isr.cur THEN "FAILED"
                        ELSE IF q = beside /\ Pending(q) THEN "OK" ELSE status[q]]
    BY DEF IsrErrorEnd
  <2> HIDE DEF beside
  <2> QED
    BY <1>2, <2>1, <2>2, ReqFacts
<1>4. InFlight' = {}
  BY <1>2, <1>3 DEF InFlight
<1>5. \A q \in Reqs : status'[q] = "OK" => q \in executed
  BY <1>2, <1>3
<1>6. rec'["api"] = rec["api"] /\ Recover'.pc = "idle" /\ Unused' /\ srs' \cap Answers = {}
  BY <1>1, <1>2 DEF Recover, RecIdle, Base, ShapeInv, Parties, Unused
<1> QED
  BY <1>1, <1>2, <1>3, <1>4, <1>5, <1>6, AnsweredTame

LEMMA IsrTame == ASSUME Base, IsrStep PROVE TameInv'
  BY EnterTame, ReturnTame, ReadTame, CardEventTame, NormalTame, ErrorTame, ErrorEndTame DEF IsrStep

----------------------------------------------------------------------------
(* The recovery *)

\* What a step of the recovery leaves alone.
RecFrame == /\ UNCHANGED <<env, stopGap, card, api, isr, executed>> /\ rec'["api"] = rec["api"]
            /\ isr.pc = "recover" /\ Preparing' = Preparing /\ Held = {} /\ Held' = {}

LEMMA StartTame == ASSUME Base, RecStart("isr") PROVE TameInv'
<1>1. /\ Recover.pc = "start" /\ ~Preparing /\ Untouched /\ Recover.bits \subseteq srs /\ isr.cur = current
      /\ Recover.bits \cap BusErrors # {} /\ isr.pc = "recover"
  BY DEF RecStart, RecAt, Recover, Untouched, Base, TameInv, PrepareInv, PlaceInv, RecoverInv
<1>2. /\ RecFrame /\ UNCHANGED <<reqVars, slotVars>> /\ srs' \subseteq srs
      /\ Recover'.pc = "send" /\ Recover'.saved = current /\ (~Recover'.auto => "EAUTO" \notin Recover.bits)
      /\ cmdLine' \in {cmdLine, NoReq} /\ datLine' \in {datLine, NoReq}
      /\ "EAUTO" \notin Recover.bits /\ ("EDAT" \in srs \/ current \in Data) => datLine' = NoReq
  <2>1. ~ResetFails
    BY DEF Base, Tame, ResetFails
  <2>2. /\ rec' = [rec EXCEPT !["isr"].pc = "send", !["isr"].saved = current,
                              !["isr"].sig = sigOn, !["isr"].auto = "EAUTO" \in Recover.bits]
    BY <2>1 DEF RecStart, Recover
  <2>3. /\ rec'["api"] = rec["api"] /\ Recover'.pc = "send" /\ Recover'.saved = current
        /\ Recover'.auto = ("EAUTO" \in Recover.bits)
    BY <2>2 DEF Recover, Base, ShapeInv, Parties
  <2>4. /\ UNCHANGED <<env, stopGap, card, api, isr, executed, reqVars, slotVars>>
        /\ cmdLine' \in {cmdLine, NoReq} /\ datLine' \in {datLine, NoReq} /\ srs' \subseteq srs
        /\ "EAUTO" \notin Recover.bits /\ ("EDAT" \in srs \/ current \in Data) => datLine' = NoReq
    BY <2>1 DEF RecStart, Recover
  <2> QED
    BY <1>1, <2>3, <2>4 DEF RecFrame, Preparing, Held
<1> USE DEF RecFrame, reqVars, slotVars
<1>3. ~Untouched' /\ InFlight' = InFlight /\ (Unused => Unused')
  BY <1>1, <1>2 DEF Untouched, InFlight, Unused
<1>4. TameTypes'
  BY <1>2 DEF Base, TameInv, TameTypes
<1>5. OnePending' /\ PrepareInv' /\ CardInv' /\ LineInv' /\ SentInv'
  BY <1>1, <1>2, <1>3 DEF Base, TameInv, OnePending, PrepareInv, CardInv, LineInv, SentInv
<1>6. NonePending'
  BY <1>1, <1>2, <1>3 DEF Base, TameInv, NonePending
<1>7. ~Recover'.auto /\ current \in Reqs => datLine' = NoReq
  <2> SUFFICES ASSUME "EAUTO" \notin Recover.bits, current \in Reqs, current \notin Data, "EDAT" \notin srs
               PROVE  datLine' = NoReq
    BY <1>2
  <2>1. "ECMD" \in srs
    BY <1>1 DEF BusErrors
  <2>2. datLine = NoReq
    BY <1>1, <2>1 DEF Base, TameInv, LineInv
  <2> QED
    BY <1>2, <2>2
<1>8. HandlerInv' /\ RecoverInv' /\ OkInv'
  BY <1>1, <1>2, <1>3, <1>7 DEF Base, TameInv, HandlerInv, RecoverInv, OkInv
<1> QED
  BY <1>4, <1>5, <1>6, <1>8 DEF TameInv

\* While the recovery polls, only what its own CMD12 leaves behind matters.
LEMMA PollingTame ==
    ASSUME Base, RecFrame, Recover.pc \in {"send", "poll"}, Recover'.pc \in {"poll", "idle"},
           DOMAIN status' = AllReqs, DOMAIN flags' = AllReqs, DOMAIN sub' = AllReqs,
           abortFlag' = FALSE, srs' \subseteq srs \/ srs' \subseteq {"CARD"} \cap srs,
           current' \in Objects, \A q \in AllReqs : sub'[q] \notin Reqs,
           InFlight' \subseteq InFlight,
           \A q \in Reqs : status'[q] = "OK" => status[q] = "OK" \/ q = isr.cur,
           RecoverInv'
    PROVE  TameInv'
<1> USE DEF RecFrame
<1>1. ~Preparing /\ ~Untouched'
  BY DEF Base, TameInv, PrepareInv, Untouched
<1>2. TameTypes'
  BY DEF Base, TameInv, TameTypes
<1>3. OnePending' /\ PrepareInv' /\ CardInv' /\ LineInv' /\ SentInv'
  BY <1>1 DEF Base, TameInv, OnePending, PrepareInv, CardInv, LineInv, SentInv
<1>4. NonePending'
  BY <1>1 DEF Base, TameInv, NonePending, RecoverInv
<1>5. HandlerInv' /\ OkInv'
  BY DEF Base, TameInv, HandlerInv, OkInv
<1> QED
  BY <1>2, <1>3, <1>4, <1>5 DEF TameInv

LEMMA SendTame == ASSUME Base, RecSend("isr") PROVE TameInv'
<1>1. /\ Recover.pc = "send" /\ isr.pc = "recover" /\ current = isr.cur /\ Recover.saved = current
      /\ (~Recover.auto /\ current \in Reqs => datLine = NoReq) /\ (current \in Reqs => sub[current] = NoReq)
      /\ abortFlag = FALSE /\ DOMAIN status = AllReqs /\ DOMAIN flags = AllReqs /\ DOMAIN sub = AllReqs
      /\ current \in Objects /\ \A q \in AllReqs : sub[q] \notin Reqs
      /\ srs \subseteq Answers \cup BusErrors \cup {"CARD"}
  BY DEF RecSend, RecAt, Recover, Base, TameInv, TameTypes, PlaceInv, RecoverInv
<1>2. /\ UNCHANGED <<env, slotVars, stopGap, card, api, isr, executed>>
      /\ rec' = [rec EXCEPT !["isr"].pc = "poll"] /\ flags' = [flags EXCEPT !["recIsr"] = {}]
  BY DEF RecSend, RecReq
<1> USE DEF slotVars
<1>3. RecFrame /\ Recover'.pc = "poll" /\ Recover'.saved = Recover.saved /\ Recover'.auto = Recover.auto
  <2>1. rec'["api"] = rec["api"] /\ Recover'.pc = "poll" /\ Recover'.saved = Recover.saved /\ Recover'.auto = Recover.auto
    BY <1>2 DEF Recover, Base, ShapeInv, Parties
  <2> QED
    BY <1>1, <1>2, <2>1 DEF RecFrame, Preparing, Held
<1>4. \/ /\ Answer("recIsr", "PENDING") /\ srs' = srs \cap {"CARD"}
         /\ IF datLine # NoReq /\ current # NoReq
            THEN sub' = [sub EXCEPT !["recIsr"] = NoReq, ![current] = "recIsr"] /\ current' = current
            ELSE sub' = [sub EXCEPT !["recIsr"] = NoReq] /\ current' = "recIsr"
      \/ /\ Answer("recIsr", "FAILED") /\ srs' = srs /\ current' = NoReq
         /\ sub' = [sub EXCEPT !["recIsr"] = NoReq]
  BY DEF RecSend, RecReq, KeepLines
<1>5. /\ DOMAIN status' = AllReqs /\ \A q \in Reqs : status'[q] = status[q]
      /\ srs' \subseteq srs /\ DOMAIN sub' = AllReqs /\ DOMAIN flags' = AllReqs
  BY <1>1, <1>2, <1>4, ReqFacts DEF Answer
<1>6. /\ current' \in Objects /\ \A q \in AllReqs : sub'[q] \notin Reqs
      /\ \A q \in Reqs : sub'[q] = sub[q] \/ (q = current /\ datLine # NoReq)
      /\ current' \in Reqs => current' = current /\ status'["recIsr"] = "PENDING"
  <2>1. CASE Answer("recIsr", "PENDING") /\ datLine # NoReq /\ current # NoReq /\ current' = current
             /\ sub' = [sub EXCEPT !["recIsr"] = NoReq, ![current] = "recIsr"]
    BY <1>1, <2>1, ReqFacts DEF Answer
  <2>2. CASE sub' = [sub EXCEPT !["recIsr"] = NoReq] /\ current' \in {"recIsr", NoReq}
    BY <1>1, <2>2, ReqFacts DEF Objects
  <2> QED
    BY <1>4, <2>1, <2>2
<1>7. RecoverInv'
  BY <1>1, <1>2, <1>3, <1>6 DEF RecoverInv
<1>8. InFlight' = InFlight
  BY <1>5 DEF InFlight
<1> QED
  BY <1>1, <1>2, <1>3, <1>5, <1>6, <1>7, <1>8, PollingTame

\* What one round of the poll may do.
LEMMA PollTame == ASSUME Base, RecPoll("isr") PROVE TameInv'
<1>1. /\ Recover.pc = "poll" /\ isr.pc = "recover" /\ status["recIsr"] = "PENDING" /\ Recover.saved = isr.cur
      /\ (current \in Reqs => current = isr.cur)
      /\ (~Recover.auto /\ isr.cur \in Reqs => sub[isr.cur] = NoReq)
      /\ abortFlag = FALSE /\ DOMAIN status = AllReqs /\ DOMAIN flags = AllReqs /\ DOMAIN sub = AllReqs
      /\ current \in Objects /\ \A q \in AllReqs : sub[q] \notin Reqs
  BY DEF RecPoll, RecAt, RecReq, Pending, Recover, Base, TameInv, TameTypes, PlaceInv, RecoverInv
<1>2. /\ RecFrame /\ UNCHANGED <<sub, rec>> /\ Recover' = Recover
  BY <1>1 DEF RecPoll, RecFrame, Recover, Preparing, Held
<1>3. /\ srs' \subseteq srs /\ abortFlag' = FALSE /\ DOMAIN flags' = AllReqs
      /\ \/ DOMAIN status' = AllReqs /\ (\A q \in AllReqs : status'[q] = status[q]) /\ current' = current
         \/ \E s \in {"FAILED", "OK", "ABORTED"} : Answer(current, s) /\ (current' = NoReq \/ (s # "OK" /\ current' = current))
         \/ /\ current # NoReq /\ current' = NoReq
            /\ status' = [q \in AllReqs |-> IF q = current \/ (q = sub[current] /\ Pending(q)) THEN "OK" ELSE status[q]]
  <2> DEFINE left == srs \ Normal
  <2>1. CASE CardEvent(left) /\ UNCHANGED <<flags, adma3Sel, abortFlag>>
    <3>1. ~ResetFails
      BY DEF Base, Tame, ResetFails
    <3> QED
      BY <1>1, <2>1, <3>1 DEF CardEvent, Detached
  <2>2. CASE Answer(current, "FAILED") /\ srs' = left \ {Reported(srs)} /\ UNCHANGED <<flags, current, slotVars>>
    BY <1>1, <2>2 DEF slotVars
  <2>3. CASE srs' = left /\ UNCHANGED <<status, flags, current, slotVars>>
    BY <1>1, <2>3 DEF slotVars
  <2>4. CASE current # NoReq /\ Progress(srs, current, left)
    <3>1. CASE /\ flags' = [flags EXCEPT ![current] = Seen(current, srs)] /\ Answer(current, "FAILED") /\ srs' \subseteq left
               /\ UNCHANGED <<current, abortFlag>>
      BY <1>1, <3>1
    <3>2. CASE /\ flags' = [flags EXCEPT ![current] = Seen(current, srs)] /\ Answer(current, "OK") /\ srs' = left
               /\ Release(TRUE) /\ UNCHANGED abortFlag
      BY <1>1, <3>2 DEF Release
    <3>3. CASE /\ flags' = [flags EXCEPT ![current] = AllSeen(current, srs)] /\ srs' = left /\ abortFlag' = FALSE
               /\ \E done \in BOOLEAN :
                    /\ status' = [q \in AllReqs |-> IF done /\ (q = current \/ (q = sub[current] /\ Pending(q)))
                                                    THEN "OK" ELSE status[q]]
                    /\ Release(done)
      <4>1. PICK done \in BOOLEAN :
                    /\ status' = [q \in AllReqs |-> IF done /\ (q = current \/ (q = sub[current] /\ Pending(q)))
                                                    THEN "OK" ELSE status[q]]
                    /\ Release(done)
        BY <3>3
      <4>2. CASE done = TRUE
        BY <1>1, <2>4, <3>3, <4>1, <4>2 DEF Release
      <4>3. CASE done = FALSE
        <5>1. DOMAIN status' = AllReqs /\ (\A q \in AllReqs : status'[q] = status[q]) /\ current' = current
          BY <4>1, <4>3 DEF Release
        <5> QED
          BY <1>1, <3>3, <5>1
      <4> QED
        BY <4>2, <4>3
    <3>4. CASE /\ flags' = [flags EXCEPT ![current] = Seen(current, srs)] /\ srs' = left
               /\ UNCHANGED <<status, current, abortFlag>>
      BY <1>1, <3>4
    <3> QED
      <4>1. ~ResetFails
        BY DEF Base, Tame, ResetFails
      <4> QED
        BY <1>1, <2>4, <3>1, <3>2, <3>3, <3>4, <4>1 DEF Progress, Release, Complete, Seen, AllSeen
  <2> QED
    BY <1>1, <2>1, <2>2, <2>3, <2>4 DEF RecPoll
<1>4. /\ DOMAIN status' = AllReqs /\ InFlight' \subseteq InFlight /\ current' \in Objects
      /\ \A q \in Reqs : status'[q] = "OK" => status[q] = "OK" \/ q = isr.cur
      /\ current' \in Reqs => current' = current /\ status'["recIsr"] = "PENDING"
  <2>1. CASE DOMAIN status' = AllReqs /\ (\A q \in AllReqs : status'[q] = status[q]) /\ current' = current
    BY <1>1, <2>1, ReqFacts DEF InFlight, Objects
  <2>2. ASSUME NEW s \in {"FAILED", "OK", "ABORTED"}, Answer(current, s), current' = NoReq \/ current' = current
        PROVE  <1>4
    BY <1>1, <2>2, ReqFacts DEF InFlight, Objects, Answer
  <2>3. CASE /\ current # NoReq /\ current' = NoReq
             /\ status' = [q \in AllReqs |-> IF q = current \/ (q = sub[current] /\ Pending(q)) THEN "OK" ELSE status[q]]
    <3>1. \A q \in Reqs : q # sub[current]
      BY <1>1, <2>3, ReqFacts DEF Objects
    <3> QED
      BY <1>1, <2>3, <3>1, ReqFacts DEF InFlight, Objects
  <2> QED
    BY <1>3, <2>1, <2>2, <2>3
<1>5. RecoverInv'
  BY <1>1, <1>2, <1>4 DEF RecoverInv, RecFrame
<1> QED
  BY <1>1, <1>2, <1>3, <1>4, <1>5, PollingTame

LEMMA EndTame == ASSUME Base, RecEnd("isr") PROVE TameInv'
<1>1. /\ Recover.pc = "poll" /\ isr.pc = "recover" /\ status["recIsr"] # "PENDING" /\ Recover.saved = isr.cur
      /\ (current \in Reqs => status["recIsr"] = "PENDING")
      /\ (~Recover.auto /\ isr.cur \in Reqs => sub[isr.cur] = NoReq)
      /\ abortFlag = FALSE /\ DOMAIN status = AllReqs /\ DOMAIN flags = AllReqs /\ DOMAIN sub = AllReqs
      /\ current \in Objects /\ isr.cur \in Objects /\ \A q \in AllReqs : sub[q] \notin Reqs
  BY ReqFacts DEF RecEnd, RecAt, RecReq, Pending, Recover, Base, TameInv, TameTypes, PlaceInv, RecoverInv
<1>2. /\ UNCHANGED <<env, slotVars, stopGap, card, api, isr, executed>>
      /\ current' = IF Recover.auto THEN current ELSE Recover.saved
      /\ ResetBoth
      /\ \E ok \in BOOLEAN : rec' = [rec EXCEPT !["isr"].pc = "idle", !["isr"].ok = ok]
      /\ status' = [status EXCEPT !["recIsr"] = "NONE"]
      /\ flags' = [flags EXCEPT !["recIsr"] = {}] /\ sub' = [sub EXCEPT !["recIsr"] = NoReq]
  <2>1. ~ResetFails
    BY DEF Base, Tame, ResetFails
  <2> QED
    BY <2>1, ReqFacts DEF RecEnd, RecReq, PutBack, Recover
<1> USE DEF slotVars
<1>3. RecFrame /\ Recover'.pc = "idle"
  <2>1. rec'["api"] = rec["api"] /\ Recover'.pc = "idle"
    BY <1>2 DEF Recover, Base, ShapeInv, Parties
  <2> QED
    BY <1>1, <1>2, <2>1 DEF RecFrame, Preparing, Held
<1>4. /\ DOMAIN status' = AllReqs /\ \A q \in Reqs : status'[q] = status[q]
      /\ DOMAIN sub' = AllReqs /\ DOMAIN flags' = AllReqs /\ \A q \in AllReqs : sub'[q] \notin Reqs
      /\ \A q \in Reqs : sub'[q] = sub[q]
  BY <1>1, <1>2, ReqFacts
<1>5. srs' \subseteq srs /\ Unused' /\ srs' \cap Answers = {}
  <2>1. "CC" \notin srs' /\ "TC" \notin srs'
    BY <1>2 DEF ResetBoth
  <2> QED
    BY <1>2, <2>1 DEF ResetBoth, Unused, Answers
<1>6. current' \in Objects /\ (current' \in Reqs => sub'[current'] = NoReq)
  BY <1>1, <1>2, <1>4
<1>7. RecoverInv'
  BY <1>2, <1>3, <1>5, <1>6 DEF RecoverInv
<1>8. InFlight' = InFlight
  BY <1>4 DEF InFlight
<1> QED
  BY <1>1, <1>2, <1>3, <1>4, <1>5, <1>6, <1>7, <1>8, PollingTame

LEMMA RecTame == ASSUME Base, NEW o \in Parties, RecStep(o) PROVE TameInv'
<1>1. rec[o].pc # "idle"
  BY DEF RecStep, RecStart, RecSend, RecPoll, RecEnd, RecAt
<1>2. o = "isr"
  BY <1>1 DEF Base, TameInv, TameTypes, Parties
<1> QED
  BY <1>2, StartTame, SendTame, PollTame, EndTame DEF RecStep

----------------------------------------------------------------------------
(* The theorems *)

LEMMA NextTame == Base /\ [Next]_vars => (Tame => TameInv)'
<1> SUFFICES ASSUME Base, [Next]_vars PROVE TameInv'
  OBVIOUS
<1>1. CASE UNCHANGED vars
  <2> USE DEF vars, reqVars, slotVars, hwVars
  <2>1. /\ InFlight' = InFlight /\ Held' = Held /\ Recover' = Recover /\ Untouched' = Untouched
        /\ Preparing' = Preparing /\ Unused' = Unused
    BY <1>1 DEF InFlight, Held, Recover, Untouched, Preparing, Unused
  <2>2. TameTypes' /\ OnePending' /\ PrepareInv' /\ CardInv' /\ NonePending'
    BY <1>1, <2>1 DEF Base, TameInv, TameTypes, OnePending, PrepareInv, CardInv, NonePending
  <2>3. LineInv' /\ SentInv'
    BY <1>1, <2>1 DEF Base, TameInv, LineInv, SentInv, Works
  <2>4. HandlerInv' /\ RecoverInv' /\ OkInv'
    BY <1>1, <2>1 DEF Base, TameInv, HandlerInv, RecoverInv, OkInv
  <2> QED
    BY <2>2, <2>3, <2>4 DEF TameInv
<1> QED
  BY <1>1, ApiTame, IsrTame, RecTame, HwTame DEF Next

LEMMA TameKept == Spec => [](ShapeInv /\ PlaceInv /\ (Tame => TameInv))
<1> DEFINE Inv == ShapeInv /\ PlaceInv /\ (Tame => TameInv)
<1>1. Init => Inv
  BY InitShape, InitPlace, InitTame
<1>2. Inv /\ [Next]_vars => Inv'
  <2> SUFFICES ASSUME Inv, [Next]_vars PROVE Inv'
    OBVIOUS
  <2>1. Tame' => Tame
    BY EnvConstant DEF Tame
  <2>2. Tame => (Tame => TameInv)'
    BY NextTame DEF Base
  <2> QED
    BY <2>1, <2>2, NextShape, NextPlace
<1> QED
  BY <1>1, <1>2, PTL DEF Spec

\* For a tame client, and whatever errors and removals there are: when no handler is in the
\* middle of its work, a request answered OK was executed by the card (CheckInterruptNonError
\* with SDIOHost_CheckError; the answer a recovery may give to the request it interrupts is
\* overwritten before the handler returns).
THEOREM OkIsTrue == Spec => [](Tame => OkWasExecuted)
<1>1. Tame /\ (Tame => TameInv) => OkWasExecuted
  <2> SUFFICES ASSUME Tame, TameInv PROVE OkWasExecuted
    OBVIOUS
  <2>1. \A r \in Reqs : Quiet /\ status[r] = "OK" => r \in executed
    BY DEF TameInv, OkInv, Quiet
  <2> QED
    BY <2>1 DEF OkWasExecuted
<1>2. (Tame => TameInv) => (Tame => OkWasExecuted)
  BY <1>1
<1> QED
  BY <1>2, TameKept, PTL

\* For a tame client, and whatever errors and removals there are, no request is forgotten:
\* while it is pending the thread still holds it, or it is the one the handler will answer and
\* the controller works on it or has raised a bit (SDIOHost_ExecCardCommand,
\* SDIOHost_InterruptHandler, SDIOHost_ErrorRecovery, SDIOHost_DeviceDetach).
THEOREM NoneForgotten == Spec => [](Tame => PendingIsOwed)
<1>1. ASSUME Base, NEW r \in InFlight PROVE InHand(r) \/ ((current = r \/ isr.cur = r) /\ Owing(r))
  <2>1. CASE Preparing
    BY <1>1, <2>1 DEF Base, TameInv, PrepareInv, Preparing, BeforeSend, InHand
  <2>2. CASE ~Preparing /\ ~Untouched
    <3>1. isr.cur = r /\ isr.bits # {}
      BY <1>1, <2>2 DEF Untouched, Base, TameInv, HandlerInv
    <3> QED
      BY <3>1 DEF Owing
  <2>3. CASE ~Preparing /\ Untouched
    <3>1. current = r /\ (isr.pc # "card" => Works(r))
      BY <1>1, <2>3 DEF Base, TameInv, SentInv
    <3>2. isr.pc = "card" => isr.bits # {}
      BY <1>1 DEF Base, TameInv, HandlerInv
    <3>3. Works(r) => Owing(r)
      BY DEF Works, Owing, Held
    <3> QED
      BY <3>1, <3>2, <3>3 DEF Owing
  <2> QED
    BY <2>1, <2>2, <2>3
<1>2. ShapeInv /\ PlaceInv /\ (Tame => TameInv) => (Tame => PendingIsOwed)
  BY <1>1 DEF Base, PendingIsOwed
<1> QED
  BY <1>2, TameKept, PTL
======================================================================================
