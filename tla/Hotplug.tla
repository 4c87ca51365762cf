---------------------------------- MODULE Hotplug ----------------------------------
(* Cards that come and go: the card detect interrupt, the slot check by polling,  *)
(* the identification and initialisation of a new card (SDIOHost_DeviceAttach and *)
(* the memory card driver it calls), and SDIOHost_DeviceDetach, which runs in the *)
(* thread or in the interrupt handler and may then find the thread in the middle  *)
(* of an attach.  One slot (SDIO_SLOT_COUNT = 1), memory cards only               *)
(* (SDIO_CFG_ENABLE_IO = 0).                                                      *)
EXTENDS Naturals, Sequences

CONSTANTS Envs,      \* surroundings a behaviour picks one of
          Kinds      \* cards that can be in the socket: "sd", "mmc", "mute"

(* env.signals: the slot's interrupts are signalled, else the handler runs only     *)
(* while CheckBusy polls; env.calm: cards move only while the driver is at rest;    *)
(* env.bounce: the contact may shake; env.faults: a command may fail; env.ops: the  *)
(* calls the client makes; env.moves: bound on the movements of cards.              *)
EnvFields == {"signals", "calm", "bounce", "faults", "ops", "moves"}
ASSUME EnvsAssumption ==
    \A e \in Envs : /\ DOMAIN e = EnvFields
                    /\ e.moves \in Nat
                    /\ e.ops \subseteq {"attach", "check", "detach"}
ASSUME KindsAssumption == "none" \notin Kinds

VARIABLES env, moves,
          card, ci, stable, irq,      \* socket, SRS9 card inserted and stable, SRS12
          inserted, needAttach,       \* CardInserted, NeedAttach
          dev,                        \* Devices[0]
          used,                       \* MemCards[0].Used
          cur,                        \* pCurrentRequest: the command that runs
          pc, isr,                    \* the client's thread, the interrupt handler
          told,                       \* the callback called last
          fresh,                      \* no detach since the last command of the last attach was answered
          attachRes                   \* what the last CSDD_DeviceAttach returned

socket == <<card, ci, stable, irq>>
flags == <<inserted, needAttach>>
client == <<told, fresh, attachRes>>
vars == <<env, moves, socket, flags, dev, used, cur, pc, isr, client>>

Blank == [type |-> "none", slot |-> FALSE, deinit |-> FALSE, data |-> FALSE]
AttachCommands == {"reset", "type", "volt", "cid", "rca", "switch", "csd", "len"}
AttachSteps == AttachCommands \cup {"driver", "take", "ref", "store", "ok", "fail"}

\* Nothing is going on and no event waits.
AtRest == pc = "idle" /\ isr = "off" /\ (env.signals => irq = {}) /\ stable
\* The card is initialised and its driver has it.
Ready == dev.type # "none" /\ dev.slot /\ dev.deinit /\ dev.data

\* SDIOHost_SlotInitialize clears the events first: a card that was there already raises none.
Init ==
    /\ env \in Envs /\ moves = 0
    /\ card \in Kinds \cup {"none"} /\ ci = (card # "none") /\ stable = TRUE /\ irq = {}
    /\ inserted = FALSE /\ needAttach = FALSE
    /\ dev = Blank /\ used = FALSE /\ cur = "none"
    /\ pc = "idle" /\ isr = "off" /\ told = "none" /\ fresh = FALSE /\ attachRes = "none"

----------------------------------------------------------------------------
(* The socket *)

Moves == /\ moves < env.moves
         /\ moves' = moves + 1
         /\ env.calm => AtRest
         /\ UNCHANGED <<env, flags, dev, used, cur, pc, isr, client>>

Put == /\ Moves /\ card = "none" /\ stable
       /\ card' \in Kinds
       /\ ci' = TRUE /\ irq' = irq \cup {"in"}
       /\ UNCHANGED stable

Take == /\ Moves /\ card # "none" /\ stable
        /\ card' = "none" /\ ci' = FALSE /\ irq' = irq \cup {"out"}
        /\ UNCHANGED stable

Shake == /\ Moves /\ env.bounce /\ card # "none" /\ stable
         /\ stable' = FALSE /\ ci' = FALSE /\ irq' = irq \cup {"out"}
         /\ UNCHANGED card

Settle == /\ ~stable
          /\ stable' = TRUE /\ ci' = TRUE /\ irq' = irq \cup {"in"}
          /\ UNCHANGED <<env, moves, card, flags, dev, used, cur, pc, isr, client>>

----------------------------------------------------------------------------
(* Detach *)

\* mutant: the deinitialisation does not give the entry back
FreeCardLeaks == used' = used

FreeCard == used' = (used /\ ~(dev.deinit /\ dev.data))

DetachAll ==
    /\ cur' = IF cur = "run" THEN "aborted" ELSE cur
    /\ inserted' = FALSE /\ needAttach' = FALSE
    /\ FreeCard
    /\ dev' = Blank
    /\ fresh' = FALSE

\* The same in the thread, where the handler may come between the flags and the rest.
DetachFlags ==
    /\ isr = "off" /\ pc = "detach"
    /\ inserted' = FALSE /\ needAttach' = FALSE
    /\ fresh' = FALSE
    /\ pc' = "forget"
    /\ UNCHANGED <<env, moves, socket, dev, used, cur, isr, told, attachRes>>

DetachForget ==
    /\ isr = "off" /\ pc = "forget"
    /\ FreeCard
    /\ dev' = Blank
    /\ pc' = "idle"
    /\ UNCHANGED <<env, moves, socket, flags, cur, isr, client>>

----------------------------------------------------------------------------
(* The interrupt handler *)

\* SDIOHost_InterruptHandler has read SRS12 with a card detect bit in it.
HandlerEnter ==
    /\ isr = "off" /\ irq # {}
    /\ env.signals \/ cur = "run"
    /\ isr' = "clear"
    /\ UNCHANGED <<env, moves, socket, flags, dev, used, cur, pc, client>>

\* Both bits are cleared, whichever of them was read.
HandlerClear ==
    /\ isr = "clear"
    /\ irq' = {}
    /\ isr' = "wait"
    /\ UNCHANGED <<env, moves, card, ci, stable, flags, dev, used, cur, pc, client>>

\* ProcessCheckInterruptRemovalInsertion, after the wait for a stable state, which
\* may give up while the contact shakes.
HandlerRemoval ==
    /\ inserted /\ (~ci \/ ~stable)
    /\ DetachAll
    /\ told' = "out"

\* mutant: the handler acknowledges the insertion without asking for an attach
InsertionUnasked ==
    /\ ~inserted /\ ci
    /\ told' = "in"
    /\ UNCHANGED <<inserted, needAttach, dev, used, cur, fresh>>

HandlerInsertion ==
    /\ ~inserted /\ ci
    /\ needAttach' = TRUE
    /\ told' = "in"
    /\ UNCHANGED <<inserted, dev, used, cur, fresh>>
HandlerProblem ==
    /\ ~(inserted /\ (~ci \/ ~stable)) /\ ~(~inserted /\ ci)
    /\ DetachAll
    /\ UNCHANGED told
HandlerAct ==
    /\ isr = "wait"
    /\ HandlerRemoval \/ HandlerInsertion \/ HandlerProblem
    /\ isr' = "off"
    /\ UNCHANGED <<env, moves, socket, pc, attachRes>>

Handler == HandlerEnter \/ HandlerClear \/ HandlerAct

----------------------------------------------------------------------------
(* Commands of an attach *)

Answers == CASE pc = "reset" -> TRUE
             [] pc = "type" -> card \in {"sd", "mmc"} /\ stable
             [] OTHER -> card # "none" /\ stable

\* mutant: they use the slot they were called with, which no detach takes away
SlotOfTheCall == TRUE

\* GetCSD and ProcessInitialize reach the slot through the device.
SlotReached == pc \in {"csd", "len"} => dev.slot

ExecCommand ==
    /\ isr = "off" /\ cur = "none"
    /\ pc \in AttachCommands /\ SlotReached
    /\ cur' = "run"
    /\ dev' = IF pc = "type" THEN [dev EXCEPT !.type = "none"] ELSE dev
    /\ UNCHANGED <<env, moves, socket, flags, used, pc, isr, client>>

Succeeds == cur = "run" /\ Answers
Fails == cur = "aborted" \/ (cur = "run" /\ (~Answers \/ env.faults))

Finish == isr = "off" /\ cur # "none" /\ cur' = "none"
After(next) == pc' = next /\ UNCHANGED <<env, moves, socket, isr, client>>

\* DeviceAttachProcess1: power, clock, CMD0.
ResetStep ==
    /\ pc = "reset" /\ Finish
    /\ \/ Succeeds /\ After("type")
       \/ Fails /\ After("fail")
    /\ UNCHANGED <<flags, dev, used>>

\* CheckdeviceType: CMD8, whose status is ignored, so that a detach during it ends nothing;
\* ACMD41, and CMD1 for the card that does not answer it.
Identified(known) == [dev EXCEPT !.type = card, !.slot = known]
TypeStep ==
    /\ pc = "type" /\ Finish
    /\ \/ Answers /\ dev' = Identified(TRUE) /\ After("volt")
       \/ Fails /\ UNCHANGED dev /\ After("fail")
       \/ Answers /\ env.faults /\ dev' = Identified(dev.slot) /\ After("fail")
    /\ UNCHANGED <<flags, used>>

\* DeviceAttachProcess2 to 4: CMD8, OCR, voltage; then the start of Process5: CMD2.
PrepareStep ==
    /\ pc \in {"volt", "cid"} /\ Finish
    /\ \/ Succeeds /\ After(IF pc = "volt" THEN "cid" ELSE "rca")
       \/ Fails /\ After("fail")
    /\ UNCHANGED <<flags, dev, used>>

\* DeviceAttachProcess5: whatever CMD3 came to, the card counts as inserted.
RcaStep ==
    /\ pc = "rca" /\ Finish
    /\ inserted' = TRUE /\ needAttach' = FALSE
    /\ After("switch")
    /\ UNCHANGED <<dev, used>>

\* SwitchVoltageIfSupported and the commands of Process6.  Without a card type none
\* of them is sent.
SwitchStep ==
    /\ pc = "switch" /\ Finish
    /\ \/ (Succeeds \/ dev.type = "none") /\ After("driver")
       \/ Fails /\ dev.type # "none" /\ After("fail")
    /\ UNCHANGED <<flags, dev, used>>

\* A step of the thread that sends no command.
Local(step) == isr = "off" /\ pc = step /\ UNCHANGED <<env, moves, socket, flags, cur, isr, client>>

\* LookingForDriver finds the memory card driver for a known card type only.
LookingForDriver ==
    /\ Local("driver")
    /\ IF dev.type = "none"
         THEN pc' = "fail" /\ UNCHANGED dev
         ELSE pc' = "take" /\ dev' = [dev EXCEPT !.deinit = TRUE]
    /\ UNCHANGED used

\* MemoryCard_Initialize takes an entry of the pool, then refers to it.
GetUnusedCard ==
    /\ Local("take")
    /\ pc' = IF used THEN "fail" ELSE "ref"
    /\ used' = TRUE
    /\ UNCHANGED dev
ReferToCard ==
    /\ Local("ref")
    /\ dev' = [dev EXCEPT !.data = TRUE]
    /\ pc' = "csd"
    /\ UNCHANGED used

\* MemoryCard_GetCSD: CMD9, not sent once the device was wiped.
CsdStep ==
    /\ pc = "csd" /\ UNCHANGED <<flags, dev, used>>
    /\ \/ Finish /\ ((Succeeds /\ After("len")) \/ (Fails /\ After("fail")))
       \/ isr = "off" /\ cur = "none" /\ ~(dev.slot /\ dev.data) /\ After("fail") /\ UNCHANGED cur

\* MemoryCard_ProcessInitialize: CMD7, CMD16, then the data pointer once more.
LenStep ==
    /\ pc = "len" /\ UNCHANGED <<flags, dev, used>>
    /\ \/ /\ Finish /\ Succeeds /\ pc' = "store" /\ fresh' = TRUE
          /\ UNCHANGED <<env, moves, socket, isr, told, attachRes>>
       \/ Finish /\ Fails /\ After("fail")
       \/ isr = "off" /\ cur = "none" /\ ~dev.slot /\ After("fail") /\ UNCHANGED cur
StoreCard ==
    /\ Local("store")
    /\ dev' = [dev EXCEPT !.data = TRUE]
    /\ pc' = "ok"
    /\ UNCHANGED used

AttachStep == ExecCommand \/ ResetStep \/ TypeStep \/ PrepareStep \/ RcaStep \/ SwitchStep
              \/ LookingForDriver \/ GetUnusedCard \/ ReferToCard \/ CsdStep \/ LenStep \/ StoreCard

----------------------------------------------------------------------------
(* The client *)

Calls(op) == isr = "off" /\ pc = "idle" /\ op \in env.ops
             /\ UNCHANGED <<env, moves, socket, flags, dev, used, cur, isr>>

\* CSDD_DeviceAttach, called once the callback told of a card.
CallAttach ==
    /\ Calls("attach") /\ told = "in"
    /\ told' = "none" /\ UNCHANGED fresh
    /\ IF needAttach THEN pc' = "reset" /\ UNCHANGED attachRes
                     ELSE pc' = "idle" /\ attachRes' = "ok"

\* CSDD_CheckSlots: an unstable slot loses its card, a stable one is looked at.
CheckUnstable == ~stable /\ inserted /\ pc' = "detach" /\ UNCHANGED client

\* mutant: only a card the handler announced is attached by the check of the slots
CheckFindsAnnounced == stable /\ ci /\ ~inserted /\ needAttach /\ pc' = "reset" /\ UNCHANGED client

CheckFindsCard == stable /\ ci /\ ~inserted /\ pc' = "reset" /\ UNCHANGED client

\* mutant: a missing card is looked for in slots only that are not stable
CheckMissesUnstable == ~stable /\ ~ci /\ inserted /\ pc' = "detach" /\ UNCHANGED client

CheckMissesCard == stable /\ ~ci /\ inserted /\ pc' = "detach" /\ UNCHANGED client
CallCheck == Calls("check") /\ (CheckUnstable \/ CheckFindsCard \/ CheckMissesCard)

CallDetach == Calls("detach") /\ pc' = "detach" /\ UNCHANGED client

\* SDIOHost_DeviceAttach returns.
AttachReturns ==
    /\ isr = "off" /\ pc \in {"ok", "fail"}
    /\ attachRes' = pc /\ pc' = "idle"
    /\ UNCHANGED <<env, moves, socket, flags, dev, used, cur, isr, told, fresh>>

Next == Put \/ Take \/ Shake \/ Settle \/ Handler \/ AttachStep \/ AttachReturns
        \/ CallAttach \/ CallCheck \/ CallDetach \/ DetachFlags \/ DetachForget

Spec == Init /\ [][Next]_vars

\* The contact settles, the thread runs, the interrupt is served, commands end, the
\* client answers the callback and calls CSDD_CheckSlots again and again.
FairSpec == /\ Spec
            /\ WF_vars(Settle) /\ WF_vars(Handler)
            /\ WF_vars(AttachStep \/ AttachReturns \/ DetachFlags \/ DetachForget)
            /\ SF_vars(CallAttach) /\ SF_vars(CallCheck)

----------------------------------------------------------------------------
(* Properties *)

\* As long as cards move only while the driver is at rest, with firm contacts, and slots are
\* not checked beside signalled interrupts (README), the one entry of the pool of card
\* objects is taken exactly when the device refers to it, and the slot then knows the card:
\* no failed, repeated or detached attach leaks the entry.
Tame == env.calm /\ ~env.bounce /\ (env.signals => "check" \notin env.ops)
PoolBalanced == Tame /\ AtRest => (used <=> dev.data) /\ (dev.data => inserted)

\* With signalled interrupts, in tame surroundings and without a detach by the client, a card
\* put in after the start is attached or waits to be: clearing both event bits forgets no
\* insertion, and no failed or aborted attach makes the driver forget the card.
InsertionKnown ==
    moves > 0 /\ Tame /\ env.signals /\ "detach" \notin env.ops /\ AtRest /\ ci => inserted \/ needAttach

\* An attach that reports success has left the device with its type, slot, driver and card
\* object and the slot marked as inserted, unless a detach came after the answer to its last
\* command (CMD16), which the driver does not look for any more: one the handler's detach
\* overtook before that answer fails, or has set up everything anew.
OkMeansReady == pc = "ok" /\ fresh => Ready /\ inserted /\ used

\* A card that stays out ends up detached, however the attach it interrupted went on.
RemovalNoticed == ("check" \in env.ops /\ <>[](card = "none")) => <>[]~inserted

\* Without faults, and with cards that move only at rest, a card that stays in is in
\* the end attached and ready, through the callback or through CSDD_CheckSlots.
CardServed ==
    (env.calm /\ ~env.faults /\ ~env.bounce
        /\ <>[](card \in {"sd", "mmc"} /\ ("check" \in env.ops \/ moves > 0)))
        => <>[](Ready /\ inserted)

====
