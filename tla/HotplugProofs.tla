------------------------------- MODULE HotplugProofs -------------------------------
(* Proofs about Hotplug for every number of movements, every kind of card and every  *)
(* client: an attach that reports success left the device ready, but for a detach     *)
(* after its last answer (OkMeansReady), and in tame surroundings the pool of card    *)
(* objects is balanced (PoolBalanced) and no card that was put in is forgotten        *)
(* (InsertionKnown).                                                                  *)
EXTENDS Hotplug, TLAPS

\* The device of the slot, and the values the flags can have.
Devices == [type : {"none", "sd", "mmc"}, slot : BOOLEAN, deinit : BOOLEAN, data : BOOLEAN]

TypeInv == /\ dev \in Devices
           /\ cur \in {"none", "run", "aborted"}
           /\ used \in BOOLEAN /\ inserted \in BOOLEAN /\ needAttach \in BOOLEAN /\ fresh \in BOOLEAN

\* A device that still knows its slot was wiped by no detach since it was identified, and
\* keeps what the attach has established at each of its steps.  A command that the handler
\* did not abort had a slot to run on; after the last one there is nothing left to ask.
StageInv ==
    /\ dev.slot =>
        /\ pc \in {"volt", "cid", "rca", "switch", "driver"} => dev.type # "none"
        /\ pc \in {"switch", "driver"} => inserted
        /\ pc \in {"take", "ref", "csd", "len"} => dev.type # "none" /\ dev.deinit /\ inserted
        /\ pc \in {"ref", "csd", "len"} => used
        /\ pc \in {"csd", "len"} => dev.data
    /\ cur # "none" => pc \in AttachCommands
    /\ pc \in {"csd", "len"} /\ cur = "run" => dev.slot
    /\ pc \in {"store", "ok"} /\ fresh => Ready /\ inserted /\ used

ReadyInv == TypeInv /\ StageInv

\* A slot that was just initialised runs no attach.
LEMMA InitReady == Init => ReadyInv
<1> SUFFICES ASSUME Init PROVE ReadyInv
  OBVIOUS
<1>1. Blank \in Devices
  BY DEF Blank, Devices
<1> QED
  BY <1>1 DEF Init, ReadyInv, TypeInv, StageInv, Ready, AttachCommands

\* Cards and contacts touch nothing of the driver.
LEMMA SocketReady == ASSUME ReadyInv, Put \/ Take \/ Shake \/ Settle PROVE ReadyInv'
  BY DEF ReadyInv, TypeInv, StageInv, Ready, AttachCommands, Put, Take, Shake, Settle, Moves, flags, client

\* The handler's detach wipes the device and says so.
LEMMA HandlerReady == ASSUME ReadyInv, Handler PROVE ReadyInv'
<1>1. CASE HandlerEnter \/ HandlerClear
  BY <1>1 DEF ReadyInv, TypeInv, StageInv, Ready, AttachCommands, HandlerEnter, HandlerClear, socket, flags, client
<1>2. CASE HandlerAct
  <2>1. CASE HandlerInsertion
    BY <1>2, <2>1 DEF ReadyInv, TypeInv, StageInv, Ready, AttachCommands, HandlerAct, HandlerInsertion, socket
  <2>2. CASE HandlerRemoval \/ HandlerProblem
    <3>1. /\ dev' = Blank /\ fresh' = FALSE /\ inserted' = FALSE /\ needAttach' = FALSE
          /\ used' \in BOOLEAN /\ cur' \in {"none", "aborted"}
          /\ cur' # "none" => pc' \in AttachCommands
      BY <1>2, <2>2 DEF HandlerAct, HandlerRemoval, HandlerProblem, DetachAll, FreeCard, ReadyInv,
                       TypeInv, StageInv, Devices
    <3> QED
      BY <3>1 DEF ReadyInv, TypeInv, StageInv, Ready, AttachCommands, Devices, Blank
  <2> QED
    BY <1>2, <2>1, <2>2 DEF HandlerAct
<1> QED
  BY <1>1, <1>2 DEF Handler

\* The commands of the attach up to the search for a driver.
LEMMA IdentifyReady ==
    ASSUME ReadyInv, ExecCommand \/ ResetStep \/ TypeStep \/ PrepareStep \/ RcaStep \/ SwitchStep
    PROVE ReadyInv'
<1> USE DEF ReadyInv, TypeInv, StageInv, Ready, AttachCommands, Devices, Finish, After, socket, flags, client
<1>1. CASE ExecCommand
  BY <1>1 DEF ExecCommand, AttachCommands, SlotReached
<1>2. CASE ResetStep
  BY <1>2 DEF ResetStep
<1>3. CASE TypeStep
  <2>1. Answers => card \in {"sd", "mmc"}
    BY <1>3 DEF TypeStep, Answers
  <2> QED
    BY <1>3, <2>1 DEF TypeStep, Identified
<1>4. CASE PrepareStep
  BY <1>4 DEF PrepareStep
<1>5. CASE RcaStep
  BY <1>5 DEF RcaStep
<1>6. CASE SwitchStep
  BY <1>6 DEF SwitchStep
<1> QED
  BY <1>1, <1>2, <1>3, <1>4, <1>5, <1>6

\* The steps of the memory card driver.
LEMMA DriverReady ==
    ASSUME ReadyInv, LookingForDriver \/ GetUnusedCard \/ ReferToCard \/ CsdStep \/ LenStep \/ StoreCard
    PROVE ReadyInv'
<1> USE DEF ReadyInv, TypeInv, StageInv, Ready, AttachCommands, Devices, Finish, After, Local, socket, flags, client
<1>1. CASE LookingForDriver
  BY <1>1 DEF LookingForDriver
<1>2. CASE GetUnusedCard
  BY <1>2 DEF GetUnusedCard
<1>3. CASE ReferToCard
  BY <1>3 DEF ReferToCard
<1>4. CASE CsdStep
  BY <1>4 DEF CsdStep
<1>5. CASE LenStep
  BY <1>5 DEF LenStep, Succeeds
<1>6. CASE StoreCard
  BY <1>6 DEF StoreCard
<1> QED
  BY <1>1, <1>2, <1>3, <1>4, <1>5, <1>6

\* A new attach starts from nothing, whatever an earlier one left behind.
LEMMA ClientReady ==
    ASSUME ReadyInv,
           AttachReturns \/ CallAttach \/ CallCheck \/ CallDetach \/ DetachFlags \/ DetachForget
    PROVE ReadyInv'
<1> USE DEF ReadyInv, TypeInv, StageInv, Ready, AttachCommands, Devices, Calls, socket, flags, client
<1>1. CASE AttachReturns
  BY <1>1 DEF AttachReturns
<1>2. CASE CallAttach
  BY <1>2 DEF CallAttach
<1>3. CASE CallCheck
  BY <1>3 DEF CallCheck, CheckUnstable, CheckFindsCard, CheckMissesCard
<1>4. CASE CallDetach
  BY <1>4 DEF CallDetach
<1>5. CASE DetachFlags
  BY <1>5 DEF DetachFlags
<1>6. CASE DetachForget
  BY <1>6 DEF DetachForget, FreeCard, Blank
<1> QED
  BY <1>1, <1>2, <1>3, <1>4, <1>5, <1>6

\* Every step keeps what the attach has established.
LEMMA NextReady == ReadyInv /\ [Next]_vars => ReadyInv'
<1> SUFFICES ASSUME ReadyInv, [Next]_vars PROVE ReadyInv'
  OBVIOUS
<1>1. CASE UNCHANGED vars
  BY <1>1 DEF vars, flags, client, ReadyInv, TypeInv, StageInv, Ready, AttachCommands
<1>2. CASE Next
  BY <1>2, SocketReady, HandlerReady, IdentifyReady, DriverReady, ClientReady DEF Next, AttachStep
<1> QED
  BY <1>1, <1>2

\* What the steps of an attach have established holds in every behaviour.
THEOREM ReadyCorrect == Spec => []ReadyInv
  BY InitReady, NextReady, PTL DEF Spec

\* An attach that reports success left the device with its type, slot, driver and card
\* object and the slot inserted (SDIOHost_DeviceAttach, MemoryCard_Initialize), unless a
\* detach came after the answer to its last command, whatever the handler, the card and the
\* client did before.
THEOREM AttachTellsTruth == Spec => []OkMeansReady
<1>1. ReadyInv => OkMeansReady
  BY DEF ReadyInv, StageInv, OkMeansReady, Ready
<1> QED
  BY <1>1, ReadyCorrect, PTL

----------------------------------------------------------------------------
(* The pool in tame surroundings *)

SocketInv == /\ stable
             /\ ci <=> card # "none"
             /\ cur # "none" => pc \in AttachCommands

Quiet == isr = "off" /\ irq = {}
\* Where interrupts are signalled, the handler has answered the movement of a card
\* before an attach gets past the command that card has to answer.
SignalInv == env.signals =>
    /\ isr = "wait" => irq = {}
    /\ pc \in AttachSteps \ {"reset", "type", "fail"} => Quiet
    /\ pc \in {"reset", "type"} => Quiet \/ card = "none"
    /\ needAttach /\ isr = "off" => irq = {} \/ card = "none"
    /\ needAttach /\ Quiet => ci
\* Where the thread polls, the handler runs only inside a command.
PollInv == ~env.signals /\ isr # "off" => cur # "none"

EntryInv ==
    /\ dev.data => dev.deinit
    /\ used <=> dev.data \/ pc = "ref"
    /\ dev.data => inserted \/ pc = "forget"
StepInv ==
    /\ pc \in {"switch", "driver"} => inserted \/ dev.type = "none"
    /\ pc \in {"take", "ref"} => inserted /\ dev.deinit
    /\ pc \in {"csd", "len"} /\ cur # "aborted" => dev.data /\ inserted
    /\ pc = "store" => dev.data /\ inserted

PoolInv == TypeInv /\ (Tame => SocketInv /\ SignalInv /\ PollInv /\ EntryInv /\ StepInv)

\* At the start the entry is free and no device refers to it.
LEMMA InitPool == Init => PoolInv
<1> SUFFICES ASSUME Init PROVE PoolInv
  OBVIOUS
<1>1. Blank \in Devices /\ ~Blank.data
  BY DEF Blank, Devices
<1> QED
  BY <1>1 DEF Init, PoolInv, TypeInv, SocketInv, SignalInv, PollInv, EntryInv, StepInv, Quiet,
              AttachSteps, AttachCommands

\* Only Put and Take are left of the socket, and both wait for the driver to rest.
LEMMA SocketPool == ASSUME PoolInv, Put \/ Take \/ Shake \/ Settle PROVE PoolInv'
<1> USE DEF PoolInv, TypeInv, Tame, SocketInv, SignalInv, PollInv, EntryInv, StepInv, Quiet,
            AttachSteps, AttachCommands, Moves, flags
<1>1. CASE Put \/ Take
  BY <1>1, KindsAssumption DEF Put, Take, AtRest, client
<1>2. CASE Shake \/ Settle
  BY <1>2 DEF Shake, Settle, client
<1> QED
  BY <1>1, <1>2

\* The detach of the handler gives the entry back and wipes the device in one step.
LEMMA HandlerPool == ASSUME PoolInv, Handler PROVE PoolInv'
<1> USE DEF PoolInv, Tame, Quiet, AttachSteps, AttachCommands
<1>1. CASE HandlerEnter
  BY <1>1 DEF TypeInv, SocketInv, SignalInv, PollInv, EntryInv, StepInv, HandlerEnter, socket, flags, client
<1>2. CASE HandlerClear
  BY <1>2 DEF TypeInv, SocketInv, SignalInv, PollInv, EntryInv, StepInv, HandlerClear, flags, client
<1>3. CASE HandlerAct
  <2> USE <1>3 DEF HandlerAct, socket
  <2>1. CASE HandlerInsertion
    BY <2>1 DEF HandlerInsertion, TypeInv, SocketInv, SignalInv, PollInv, EntryInv, StepInv
  <2>2. CASE HandlerRemoval \/ HandlerProblem
    <3>1. /\ dev' = Blank /\ inserted' = FALSE /\ needAttach' = FALSE /\ fresh' = FALSE
          /\ cur' = IF cur = "run" THEN "aborted" ELSE cur
          /\ used' = (used /\ ~(dev.deinit /\ dev.data))
      BY <2>2 DEF HandlerRemoval, HandlerProblem, DetachAll, FreeCard
    <3>2. Blank \in Devices /\ ~Blank.data /\ Blank.type = "none"
      BY DEF Blank, Devices
    <3>3. TypeInv'
      BY <3>1, <3>2 DEF TypeInv, Devices
    <3>4. Tame => pc \notin {"take", "ref", "store"} /\ (pc \in {"csd", "len"} => cur # "none")
      BY DEF SocketInv, SignalInv, PollInv, TypeInv
    <3> QED
      BY <3>1, <3>2, <3>3, <3>4 DEF TypeInv, SocketInv, SignalInv, PollInv, EntryInv, StepInv
  <2> QED
    BY <2>1, <2>2
<1> QED
  BY <1>1, <1>2, <1>3 DEF Handler

\* Up to the search for a driver the attach leaves the entry alone; only a device whose
\* card type is known goes on to the driver as inserted.
LEMMA IdentifyPool ==
    ASSUME PoolInv, ExecCommand \/ ResetStep \/ TypeStep \/ PrepareStep \/ RcaStep \/ SwitchStep
    PROVE PoolInv'
<1> USE DEF PoolInv, TypeInv, Devices, Tame, SocketInv, SignalInv, PollInv, EntryInv, StepInv,
            Quiet, AttachSteps, AttachCommands, Finish, After, socket, flags, client
<1>1. CASE ExecCommand
  BY <1>1 DEF ExecCommand
<1>2. CASE ResetStep
  BY <1>2 DEF ResetStep
<1>3. CASE TypeStep
  <2>1. Answers => card \in {"sd", "mmc"}
    BY <1>3 DEF TypeStep, Answers
  <2>2. dev' \in Devices /\ dev'.data = dev.data /\ dev'.deinit = dev.deinit
    BY <1>3, <2>1 DEF TypeStep, Identified
  <2>3. /\ pc = "type" /\ isr = "off" /\ cur' = "none"
        /\ pc' \in {"volt", "fail"} /\ (pc' = "volt" => card # "none")
        /\ UNCHANGED <<env, moves, socket, isr, client, flags, used>>
    BY <1>3, <2>1 DEF TypeStep
  <2> HIDE DEF Finish, After, Devices
  <2> QED
    BY <2>2, <2>3
<1>4. CASE PrepareStep
  BY <1>4 DEF PrepareStep
<1>5. CASE RcaStep
  BY <1>5 DEF RcaStep
<1>6. CASE SwitchStep
  BY <1>6 DEF SwitchStep
<1> QED
  BY <1>1, <1>2, <1>3, <1>4, <1>5, <1>6

\* The entry is taken and referred to with no detach in between.
LEMMA DriverPool ==
    ASSUME PoolInv, LookingForDriver \/ GetUnusedCard \/ ReferToCard \/ CsdStep \/ LenStep \/ StoreCard
    PROVE PoolInv'
<1> USE DEF PoolInv, TypeInv, Devices, Tame, SocketInv, SignalInv, PollInv, EntryInv, StepInv,
            Quiet, AttachSteps, AttachCommands, Finish, After, Local, socket, flags, client
<1>1. CASE LookingForDriver
  BY <1>1 DEF LookingForDriver
<1>2. CASE GetUnusedCard
  BY <1>2 DEF GetUnusedCard
<1>3. CASE ReferToCard
  BY <1>3 DEF ReferToCard
<1>4. CASE CsdStep
  BY <1>4 DEF CsdStep, Succeeds, Fails
<1>5. CASE LenStep
  <2>1. /\ pc = "len" /\ isr = "off" /\ cur' = "none" /\ pc' \in {"store", "fail"}
        /\ pc' = "store" => cur = "run"
        /\ fresh' \in BOOLEAN
        /\ UNCHANGED <<env, moves, socket, isr, flags, dev, used>>
    BY <1>5 DEF LenStep, Succeeds
  <2> HIDE DEF Finish, After, Devices
  <2> QED
    BY <2>1
<1>6. CASE StoreCard
  BY <1>6 DEF StoreCard
<1> QED
  BY <1>1, <1>2, <1>3, <1>4, <1>5, <1>6

\* The detach of the thread gives back the entry the device refers to, after its flags.
LEMMA ClientPool ==
    ASSUME PoolInv,
           AttachReturns \/ CallAttach \/ CallCheck \/ CallDetach \/ DetachFlags \/ DetachForget
    PROVE PoolInv'
<1> USE DEF PoolInv, TypeInv, Devices, Tame, SocketInv, SignalInv, PollInv, EntryInv, StepInv,
            Quiet, AttachSteps, AttachCommands, Calls, socket, flags, client
<1>1. CASE AttachReturns
  BY <1>1 DEF AttachReturns
<1>2. CASE CallAttach
  BY <1>2, ZenonT(30) DEF CallAttach
<1>3. CASE CallCheck
  BY <1>3, ZenonT(30) DEF CallCheck, CheckUnstable, CheckFindsCard, CheckMissesCard
<1>4. CASE CallDetach
  BY <1>4 DEF CallDetach
<1>5. CASE DetachFlags
  BY <1>5 DEF DetachFlags
<1>6. CASE DetachForget
  BY <1>6 DEF DetachForget, FreeCard, Blank
<1> QED
  BY <1>1, <1>2, <1>3, <1>4, <1>5, <1>6

\* Every step keeps the balance of the pool.
LEMMA NextPool == PoolInv /\ [Next]_vars => PoolInv'
<1> SUFFICES ASSUME PoolInv, [Next]_vars PROVE PoolInv'
  OBVIOUS
<1>1. CASE UNCHANGED vars
  BY <1>1 DEF vars, socket, flags, client, PoolInv, TypeInv, Tame, SocketInv, SignalInv,
              PollInv, EntryInv, StepInv, Quiet
<1>2. CASE Next
  BY <1>2, SocketPool, HandlerPool, IdentifyPool, DriverPool, ClientPool DEF Next, AttachStep
<1> QED
  BY <1>1, <1>2

\* Where cards move only while the driver is at rest, with firm contacts, and slots are
\* not checked beside signalled interrupts, no attach or detach leaks the entry of the
\* pool of card objects (GetUnusedCard of MemoryCard_Initialize, SDIOHost_DeviceDetach).
THEOREM PoolCorrect == Spec => []PoolBalanced
<1>1. PoolInv => PoolBalanced
  BY DEF PoolInv, TypeInv, EntryInv, PoolBalanced, AtRest
<1> QED
  BY <1>1, InitPool, NextPool, PTL DEF Spec

----------------------------------------------------------------------------
(* A card that was put in *)

\* Tame surroundings with signalled interrupts, and a client that never detaches.
Announced == Tame /\ env.signals /\ "detach" \notin env.ops
\* The steps of an attach after the card has answered for the first time.
PastType == AttachSteps \ {"reset", "type", "fail"}

\* Once the handler has answered the last movement, the flags are those of the socket:
\* what is inserted is there, and what is there and was put in is inserted or asked for.
KnownInv ==
    Announced =>
        /\ pc \notin {"detach", "forget"}
        /\ pc \in PastType => ci
        /\ inserted => (Quiet <=> ci)
        /\ moves > 0 /\ ci /\ Quiet => inserted \/ needAttach

InsertInv == PoolInv /\ KnownInv

\* Nothing has moved yet.
LEMMA InitKnown == Init => KnownInv
  BY DEF Init, KnownInv, PastType, AttachSteps, AttachCommands

\* A card that comes or goes finds the driver at rest and leaves an event.
LEMMA SocketKnown == ASSUME InsertInv, Put \/ Take \/ Shake \/ Settle PROVE KnownInv'
<1> USE DEF InsertInv, PoolInv, TypeInv, Announced, Tame, SocketInv, SignalInv, KnownInv, Quiet,
            PastType, AttachSteps, AttachCommands, Moves, flags
<1>1. CASE Put
  BY <1>1 DEF Put, AtRest
<1>2. CASE Take
  BY <1>2 DEF Take, AtRest
<1>3. CASE Shake \/ Settle
  BY <1>3 DEF Shake, Settle
<1> QED
  BY <1>1, <1>2, <1>3

\* The handler ends its answer with the flags that fit the socket.
LEMMA HandlerKnown == ASSUME InsertInv, Handler PROVE KnownInv'
<1> USE DEF InsertInv, PoolInv, Announced, Tame, KnownInv, Quiet
<1>1. CASE HandlerEnter
  BY <1>1 DEF HandlerEnter, socket, flags
<1>2. CASE HandlerClear
  BY <1>2 DEF HandlerClear, flags
<1>3. CASE HandlerAct
  <2> USE <1>3 DEF HandlerAct, socket
  <2>1. CASE HandlerInsertion
    BY <2>1 DEF HandlerInsertion, SignalInv
  <2>2. CASE HandlerRemoval \/ HandlerProblem
    <3>1. inserted' = FALSE /\ needAttach' = FALSE
      BY <2>2 DEF HandlerRemoval, HandlerProblem, DetachAll
    <3>2. Announced => ~ci
      BY <2>2 DEF HandlerRemoval, HandlerProblem, SocketInv
    <3> QED
      BY <3>1, <3>2
  <2> QED
    BY <2>1, <2>2
<1> QED
  BY <1>1, <1>2, <1>3 DEF Handler

\* The attach goes past the card's first answer only with a card, and takes back the
\* request for an attach only together with the mark that the card is inserted.
LEMMA AttachKnown == ASSUME InsertInv, AttachStep PROVE KnownInv'
<1> USE DEF InsertInv, PoolInv, TypeInv, Announced, Tame, SocketInv, SignalInv, KnownInv, Quiet,
            PastType, AttachSteps, AttachCommands, Finish, After, Local, socket, flags, client
<1>1. CASE ExecCommand
  BY <1>1 DEF ExecCommand
<1>2. CASE ResetStep
  BY <1>2 DEF ResetStep
<1>3. CASE TypeStep
  <2>1. Answers /\ Announced => ci
    BY <1>3, KindsAssumption DEF TypeStep, Answers
  <2>2. pc = "type" /\ pc' \in {"volt", "fail"} /\ (pc' = "volt" => Answers)
        /\ UNCHANGED <<env, moves, socket, isr, client, flags>>
    BY <1>3 DEF TypeStep
  <2> HIDE DEF Finish, After, TypeInv
  <2> QED
    BY <2>1, <2>2
<1>4. CASE PrepareStep
  BY <1>4 DEF PrepareStep
<1>5. CASE RcaStep
  BY <1>5 DEF RcaStep
<1>6. CASE SwitchStep
  BY <1>6 DEF SwitchStep
<1>7. CASE LookingForDriver \/ GetUnusedCard
  BY <1>7 DEF LookingForDriver, GetUnusedCard
<1>8. CASE ReferToCard \/ StoreCard
  BY <1>8 DEF ReferToCard, StoreCard
<1>9. CASE CsdStep \/ LenStep
  BY <1>9 DEF CsdStep, LenStep
<1> QED
  BY <1>1, <1>2, <1>3, <1>4, <1>5, <1>6, <1>7, <1>8, <1>9 DEF AttachStep

\* Such a client begins attaches only, and no call changes the flags.
LEMMA ClientKnown ==
    ASSUME InsertInv,
           AttachReturns \/ CallAttach \/ CallCheck \/ CallDetach \/ DetachFlags \/ DetachForget
    PROVE KnownInv'
<1> USE DEF InsertInv, Announced, Tame, KnownInv, Quiet, PastType, AttachSteps, AttachCommands,
            Calls, socket, flags, client
<1>1. CASE AttachReturns \/ CallAttach
  BY <1>1 DEF AttachReturns, CallAttach
<1>2. CASE CallCheck \/ CallDetach
  BY <1>2 DEF CallCheck, CallDetach
<1>3. CASE DetachFlags \/ DetachForget
  BY <1>3 DEF DetachFlags, DetachForget
<1> QED
  BY <1>1, <1>2, <1>3

\* Every step keeps what is known of the card.
LEMMA NextKnown == InsertInv /\ [Next]_vars => InsertInv'
<1> SUFFICES ASSUME InsertInv, [Next]_vars PROVE InsertInv'
  OBVIOUS
<1>1. PoolInv'
  BY NextPool DEF InsertInv
<1>2. CASE UNCHANGED vars
  BY <1>1, <1>2 DEF vars, socket, flags, client, InsertInv, KnownInv, Announced, Tame, Quiet
<1>3. CASE Next
  BY <1>1, <1>3, SocketKnown, HandlerKnown, AttachKnown, ClientKnown DEF Next, InsertInv
<1> QED
  BY <1>2, <1>3

\* With signalled interrupts and tame surroundings a card put in after the start is attached
\* or waits to be, though the handler clears both event bits whichever it read and every
\* step of the attach may fail (ProcessCheckInterruptRemovalInsertion, SDIOHost_DeviceAttach).
THEOREM InsertionsKnown == Spec => []InsertionKnown
<1>1. Init => InsertInv
  BY InitPool, InitKnown DEF InsertInv
<1>2. InsertInv => InsertionKnown
  BY DEF InsertInv, KnownInv, Announced, Quiet, InsertionKnown, AtRest
<1> QED
  BY <1>1, <1>2, NextKnown, PTL DEF Spec
====
