------------------------------- MODULE SessionProofs -------------------------------
(* Proofs about Session for every set of surroundings: an orderly client and the        *)
(* settings of the interrupts agree (SignalsAgree), no answer of the card is taken for   *)
(* a time-out (AnswersSeen), and no function works on what is not there (UsesWhatExists). *)
EXTENDS Session, TLAPS

\* The host that stands after an initialisation has a slot that records events.
HostInv == /\ slots \in {0, 1}
           /\ ready => slots = 1 /\ status

\* What the client said last and what the driver and the slot are set to.
SaidInv == /\ asked \in {"none", "polled", "signalled", "masked"}
           /\ asked \in {"none", "polled"} => ~intEn /\ ~signal
           /\ asked \in {"signalled", "masked"} => ready /\ intEn
           /\ asked = "signalled" => signal
           /\ asked = "masked" => ~signal /\ saved /\ req = "none"

\* A request needs a host that stands; an answer is recorded until somebody took it.
RequestInv == /\ req # "none" => ready
              /\ req = "answered" => "done" \in events

\* What the order let a call count on is still so when its work is done.
CallInv == /\ pc = "run" =>
                /\ call.does # "init" => ready
                /\ call.does \in {"init", "reset"} => asked \in {"none", "polled"}
                /\ call.does \in {"init", "reset", "start", "stop", "standby"} => req = "none"
                /\ call.does \in {"start", "stop", "command", "issue", "wait"} => asked # "masked"
                /\ call.val = "DISABLE_SIGNAL_INTERRUPT" => asked = "signalled" /\ req = "none"
                /\ call.val = "RESTORE_SIGNAL_INTERRUPT" => asked = "masked"
           /\ pc = "wait" => ready /\ asked # "masked"

OrderInv == HostInv /\ (env.orderly => SaidInv /\ RequestInv /\ CallInv)

\* Before the first call nothing is set and nothing is pending.
LEMMA InitOrder == Init => OrderInv
  BY DEF Init, OrderInv, HostInv, SaidInv, RequestInv, CallInv

\* A call starts with what the order demands of it.
LEMMA ClientOrder == ASSUME OrderInv, Client PROVE OrderInv'
<1>1. PICK row \in Rows : Call(row)
  BY DEF Client
<1> DEFINE does == row.does
<1>2. /\ pc = "idle" /\ pc' = "run" /\ call'.does = does
      /\ env.orderly => InOrder(row) /\ MayConfigure(call'.val)
      /\ UNCHANGED <<env, host, ints, events, bus, attached, card, req, wake, ghosts>>
  BY <1>1 DEF Call, MayCall, MayConfigure
<1>3. env.orderly /\ SaidInv /\ RequestInv =>
        /\ does # "init" => ready
        /\ does \in {"init", "reset"} => asked \in {"none", "polled"}
        /\ does \in {"init", "reset", "start", "stop", "standby"} => req = "none"
        /\ does \in {"start", "stop", "command", "issue", "wait"} => asked # "masked"
  BY <1>2 DEF InOrder, SaidInv, RequestInv
<1>4. HostInv' /\ (env.orderly => SaidInv' /\ RequestInv')
  BY <1>2 DEF OrderInv, HostInv, SaidInv, RequestInv, host, ints, ghosts
<1>5. env.orderly => CallInv'
  BY <1>2, <1>3 DEF OrderInv, CallInv, MayConfigure, ghosts
<1> QED
  BY <1>2, <1>4, <1>5 DEF OrderInv

\* Work that leaves the interrupts and the request alone.
LEMMA OtherOrder ==
    ASSUME OrderInv,
           RunLocal \/ RunLoad \/ RunSimple \/ RunDetach \/ RunAttach \/ RunSlots \/ RunIssue
             \/ RunCommand \/ RunWait \/ RunAbort
    PROVE OrderInv'
<1> USE DEF OrderInv, HostInv, SaidInv, RequestInv, CallInv, Runs, Return, NoCall,
            host, ints, bus, attached, thread, ghosts
<1>1. CASE RunLocal \/ RunLoad
  BY <1>1 DEF RunLocal, RunLoad
<1>2. CASE RunSimple
  <2>1. pc = "run" /\ Return /\ UNCHANGED <<env, host, ints, events, req, ghosts>>
    BY <1>2 DEF RunSimple
  <2> QED
    BY <2>1
<1>3. CASE RunDetach \/ RunAttach \/ RunSlots
  <2>1. /\ pc = "run" /\ Return
        /\ req' = req \/ req' = IF req = "none" THEN "none" ELSE "finished"
        /\ UNCHANGED <<env, host, ints, events, ghosts>>
    BY <1>3 DEF RunDetach, RunAttach, RunSlots, Detach, Attach
  <2> QED
    BY <2>1
<1>4. CASE RunIssue \/ RunCommand \/ RunWait
  BY <1>4 DEF RunIssue, RunCommand, RunWait
<1>5. CASE RunAbort
  BY <1>5 DEF RunAbort
<1> QED
  BY <1>1, <1>2, <1>3, <1>4, <1>5

\* The functions that set the interrupts.
LEMMA SettingOrder ==
    ASSUME OrderInv, RunReset \/ RunInit \/ RunStartStop \/ RunConfigure \/ RunStandby
    PROVE OrderInv'
<1> USE DEF OrderInv, HostInv, SaidInv, RequestInv, CallInv, Runs, Return, NoCall,
            host, ints, bus, attached, thread, ghosts
<1>1. CASE RunReset
  BY <1>1 DEF RunReset
<1>2. CASE RunInit
  <2>1. CASE InitAddresses
    BY <1>2, <2>1 DEF RunInit, InitAddresses
  <2>2. CASE HostInitSlots /\ HostInitialize
    BY <1>2, <2>2 DEF RunInit, HostInitSlots, HostInitialize
  <2> QED
    BY <1>2, <2>1, <2>2 DEF RunInit
<1>3. CASE RunStartStop
  <2>1. env.orderly => ready /\ slots = 1
    BY <1>3 DEF RunStartStop, RunStart, RunStop
  <2>2. CASE RunStart
    BY <1>3, <2>1, <2>2 DEF RunStartStop, RunStart, InterruptConfig
  <2>3. CASE RunStop
    BY <1>3, <2>1, <2>3 DEF RunStartStop, RunStop, InterruptConfig
  <2> QED
    BY <1>3, <2>2, <2>3 DEF RunStartStop
<1>4. CASE RunConfigure
  BY <1>4 DEF RunConfigure, RestoreSignals
<1>5. CASE RunStandby
  BY <1>5 DEF RunStandby
<1> QED
  BY <1>1, <1>2, <1>3, <1>4, <1>5

\* The handler takes an answer together with the event that tells of it.
LEMMA HandledOrder ==
    ASSUME OrderInv, HandleEvents, (pc' = pc /\ call' = call) \/ Return
    PROVE OrderInv'
  BY DEF OrderInv, HostInv, SaidInv, RequestInv, CallInv, Return, HandleEvents, Detach,
         host, ints, bus, attached, ghosts

\* What comes between the calls and their work.
LEMMA EventOrder ==
    ASSUME OrderInv, RunIsr \/ Interrupt \/ Poll \/ Answer \/ Finished \/ Timeout \/ Wake \/ Put \/ Take
    PROVE OrderInv'
<1>1. CASE RunIsr \/ Interrupt \/ Poll
  <2>1. CASE HandleEvents
    BY <1>1, <2>1, HandledOrder DEF RunIsr, Interrupt, Poll, thread
  <2>2. CASE ~HandleEvents
    BY <1>1, <2>2 DEF RunIsr, Interrupt, Poll, Return, NoCall, OrderInv, HostInv, SaidInv, RequestInv,
                      CallInv, host, ints, ghosts
  <2> QED
    BY <2>1, <2>2
<1>2. CASE Answer \/ Finished \/ Timeout \/ Wake \/ Put \/ Take
  BY <1>2 DEF Answer, Finished, Timeout, Wake, Put, Take, Move, AtRest, Return, NoCall,
              OrderInv, HostInv, SaidInv, RequestInv, CallInv, host, ints, bus, attached, thread, ghosts
<1> QED
  BY <1>1, <1>2

\* Every step keeps the order.
LEMMA NextOrder == OrderInv /\ [Next]_vars => OrderInv'
<1> SUFFICES ASSUME OrderInv, [Next]_vars PROVE OrderInv'
  OBVIOUS
<1>1. CASE UNCHANGED vars
  BY <1>1 DEF vars, host, ints, thread, ghosts, OrderInv, HostInv, SaidInv, RequestInv, CallInv
<1>2. CASE Next
  BY <1>2, ClientOrder, OtherOrder, SettingOrder, EventOrder DEF Next, Run
<1> QED
  BY <1>1, <1>2

\* The order holds in every behaviour.
THEOREM OrderCorrect == Spec => []OrderInv
  BY InitOrder, NextOrder, PTL DEF Spec

\* Between the calls of an orderly client the slot's signals and the host's idea of its
\* interrupts are what the client asked for last (CSDD_Start, CSDD_Stop, the masking and
\* restoring of SDIOHost_Configure, CSDD_Init, CSDD_ResetHost).
THEOREM SignalsAreAsAsked == Spec => []SignalsAgree
<1>1. OrderInv => SignalsAgree
  BY DEF OrderInv, SaidInv, SignalsAgree
<1> QED
  BY <1>1, OrderCorrect, PTL

\* A command of an orderly client that the card answered never ends in a time-out
\* (SDIOHost_CheckBusy: handler and poll see what SDIOHost_InterruptConfig set).
THEOREM AnswersAreSeen == Spec => AnswersSeen
<1>1. OrderInv /\ [Next]_vars => [Timeout /\ env.orderly => req = "pending"]_vars
  <2> SUFFICES ASSUME OrderInv, Timeout, env.orderly PROVE req = "pending"
    OBVIOUS
  <2>1. ~Unseen
    BY DEF OrderInv, SaidInv, RequestInv, CallInv, Timeout, Unseen, Signalled
  <2> QED
    BY <2>1 DEF Timeout, Unanswered
<1> QED
  BY <1>1, OrderCorrect, PTL DEF Spec, AnswersSeen

----------------------------------------------------------------------------
(* Nothing is used that is not there *)

\* What is known of a host comes after its register window.
WindowInv == (slots = 1 => regs) /\ (cq => regs) /\ (ccp => regs)
\* A call in progress has what it uses, and no event waits that takes it away.
UseInv == pc = "run" =>
    /\ call.uses \subseteq {"regs", "slot", "data"}
    /\ "regs" \in call.uses => regs
    /\ "slot" \in call.uses => slots = 1
    /\ "data" \in call.uses => /\ env.orderly /\ dev.data
                               /\ signal /\ intEn => events \cap {"in", "out"} = {}

ExistInv == OrderInv /\ WindowInv /\ UseInv

\* Before the first call there is nothing, and nothing is used.
LEMMA InitExist == Init => ExistInv
<1> SUFFICES ASSUME Init PROVE ExistInv
  OBVIOUS
<1>1. OrderInv
  BY InitOrder
<1> QED
  BY <1>1 DEF Init, ExistInv, WindowInv, UseInv

\* The gates of a function that looks, and the order for one that does not.
LEMMA ClientExist == ASSUME ExistInv, Client PROVE WindowInv' /\ UseInv'
<1>1. PICK row \in Rows : Call(row)
  BY DEF Client
<1>2. /\ pc = "idle" /\ call'.uses = row.uses
      /\ IF env.orderly THEN InOrder(row) /\ Settled ELSE Gated(row)
      /\ \A gate \in row.gates : GateOpen(gate)
      /\ UNCHANGED <<env, host, ints, events, bus, attached, card, req, wake, ghosts>>
  BY <1>1 DEF Call, MayCall
<1>3. WindowInv'
  BY <1>2 DEF ExistInv, WindowInv, host
<1>4. row.uses \subseteq {"regs", "slot", "data"} /\ (row.does = "init" => row.uses = {})
  BY RowsAssumption
<1>5. CASE env.orderly
  <2>1. row.uses # {} => ready
    BY <1>2, <1>4, <1>5 DEF InOrder, ExistInv, OrderInv, RequestInv
  <2>2. ready => regs /\ slots = 1
    BY DEF ExistInv, OrderInv, HostInv, WindowInv
  <2>3. "data" \in row.uses => dev.data
    BY <1>2, <1>5 DEF InOrder, Served
  <2>4. UNCHANGED <<env, regs, slots, signal, intEn, events, dev>>
    BY <1>2 DEF host, ints, attached
  <2>5. signal /\ intEn => events \cap {"in", "out"} = {}
    BY <1>2, <1>5 DEF Settled
  <2> QED
    BY <1>2, <1>3, <1>4, <1>5, <2>1, <2>2, <2>3, <2>4, <2>5 DEF UseInv
<1>6. CASE ~env.orderly
  <2>1. "slot" \in row.gates => slots = 1
    <3>1. GateOpen("slot") <=> slots > 0
      BY DEF GateOpen
    <3> QED
      BY <1>2, <3>1 DEF ExistInv, OrderInv, HostInv
  <2>2. ("cq" \in row.gates => cq) /\ ("ccp" \in row.gates => ccp)
    BY <1>2 DEF GateOpen
  <2>3. /\ row.uses \subseteq {"regs", "slot"}
        /\ "regs" \in row.uses => regs
        /\ "slot" \in row.uses => slots = 1
    BY <1>2, <1>6, <2>1, <2>2 DEF Gated, Given, ExistInv, WindowInv
  <2> QED
    BY <1>2, <1>3, <1>4, <2>3 DEF UseInv, host
<1> QED
  BY <1>5, <1>6

\* Work ends the call, and only an initialisation changes what the host is known to have.
LEMMA RunExist == ASSUME ExistInv, Run PROVE WindowInv' /\ UseInv'
<1>1. CASE RunInit
  <2>1. regs' /\ pc' = "idle"
    BY <1>1 DEF RunInit, InitAddresses, HostInitialize, Return
  <2> QED
    BY <2>1 DEF WindowInv, UseInv
<1>2. CASE ~RunInit
  <2>1. pc' # "run" /\ UNCHANGED <<regs, slots, cq, ccp>>
    BY <1>2 DEF Run, RunLocal, RunLoad, RunReset, RunStartStop, RunStart, RunStop, RunConfigure, RunSimple,
                RunDetach, RunAttach, RunSlots, RunIsr, HandleEvents, RunIssue, RunCommand, RunWait, RunAbort,
                RunStandby, Return, host
  <2> QED
    BY <2>1 DEF ExistInv, WindowInv, UseInv
<1> QED
  BY <1>1, <1>2

\* The handler may run inside a call, but then has no movement of a card to deal with.
LEMMA EventExist ==
    ASSUME ExistInv, Interrupt \/ Poll \/ Answer \/ Finished \/ Timeout \/ Wake \/ Put \/ Take
    PROVE WindowInv' /\ UseInv'
<1> USE DEF ExistInv, WindowInv, UseInv
<1>1. CASE Interrupt
  <2>1. signal /\ HandleEvents /\ UNCHANGED <<env, host, ints, thread>>
    BY <1>1 DEF Interrupt, Signalled, HandleEvents
  <2>2. pc = "run" /\ "data" \in call.uses => dev' = dev /\ events' = {}
    <3>1. env.orderly => intEn
      BY <2>1 DEF OrderInv, SaidInv
    <3> QED
      BY <2>1, <3>1 DEF HandleEvents, attached
  <2> QED
    BY <2>1, <2>2 DEF host, ints, thread
<1>2. CASE Poll \/ Finished \/ Timeout \/ Wake
  BY <1>2 DEF Poll, HandleEvents, Finished, Timeout, Wake, Return, thread, host
<1>3. CASE Answer
  BY <1>3 DEF Answer, host, ints, attached, thread
<1>4. CASE Put \/ Take
  BY <1>4 DEF Put, Take, Move, AtRest, host, ints, attached, thread
<1> QED
  BY <1>1, <1>2, <1>3, <1>4

\* Every step leaves a call in progress what it uses.
LEMMA NextExist == ExistInv /\ [Next]_vars => ExistInv'
<1> SUFFICES ASSUME ExistInv, [Next]_vars PROVE ExistInv'
  OBVIOUS
<1>1. OrderInv'
  BY NextOrder DEF ExistInv
<1>2. WindowInv' /\ UseInv'
  <2>1. CASE UNCHANGED vars
    BY <2>1 DEF vars, host, ints, attached, thread, ExistInv, WindowInv, UseInv
  <2>2. CASE Next
    BY <2>2, ClientExist, RunExist, EventExist DEF Next
  <2> QED
    BY <2>1, <2>2
<1> QED
  BY <1>1, <1>2 DEF ExistInv

\* No function of the driver works on a register window, a slot or a card object that
\* is not there, if it looks before it uses them or its caller keeps the order (sdio.c).
THEOREM UsesAreSafe == Spec => []UsesWhatExists
<1>1. ExistInv => UsesWhatExists
  <2> SUFFICES ASSUME ExistInv, pc = "run", NEW thing \in call.uses PROVE Exists(thing)
    BY DEF UsesWhatExists
  <2>1. thing \in {"regs", "slot", "data"}
    BY DEF ExistInv, UseInv
  <2>2. CASE thing = "regs"
    BY <2>2 DEF ExistInv, UseInv, Exists
  <2>3. CASE thing = "slot"
    BY <2>3 DEF ExistInv, UseInv, WindowInv, Exists
  <2>4. CASE thing = "data"
    BY <2>4 DEF ExistInv, UseInv, Exists
  <2> QED
    BY <2>1, <2>2, <2>3, <2>4
<1> QED
  BY <1>1, InitExist, NextExist, PTL DEF Spec
====
