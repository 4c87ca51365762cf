# A TLA+ model of the SD/SDIO/eMMC host driver

The repository holds the Cadence SDHost4 firmware: a *core driver* for the SD4HC
host controller (`core_driver/`), a driver for its combo PHY (`ccp_driver/`) and
reference programs (`reference_code/`).  This directory models the parts of it
that are hard to test, checks them with TLC on small instances and proves what
matters most with TLAPS.

## 1. Inventory

| component | code | state | operations |
|---|---|---|---|
| command queuing | `sdio_cq.c` | `CQEnabled`, `CQHalted`, `CQDcmdEnabled`, `CQIntCoalescingEn`, `CQCurrentReq[32]`, `CQCurrentDcmdReq`, the descriptor list, registers CQRS* | init, enable, disable, attach, start, direct command, halt, discard one / all, coalescing configuration, interrupt path |
| ordinary requests | `sdio_host.c` 2778-4712, 5400-5500, 6150-6206 | `pCurrentRequest`, `AbortRequest`, `ErrorRecovery`, status / `busyCheckFlags` of a request, SRS00-SRS14 | execute a command, sub-commands, interrupt handler, error recovery, busy check, abort |
| card detection | `sdio_host.c` 2575-2770, 3575-3638, 3964-4031, 4717-5187 | `CardInserted`, `NeedAttach`, `Devices[]`, `NumberOfDevices` | check slots, attach, detach, identification |
| memory card driver | `sdio_memory_card.c` | pool of card objects, partial-access buffers, one request for infinite transfers | initialise, deinitialise, transfers |
| DMA | `sdio_dma.c` | descriptor buffers of a slot, list of sub-buffers of a request | prepare, continue and finish a transfer (SDMA, ADMA2, ADMA3) |
| initialisation and standby | `sdio_host.c` 1498-1730, 5504-5590 | host and slot configuration | initialise, interrupt configuration, standby, configure |
| access modes, tuning, voltage, clock, bus width | `sdio_host.c` 215-1230, 2069-2560, 3231-3465, 5591-6105 | access mode, clock, width of a device | set them, retune |
| response decoding | `sdio_host.c` 1735-2065 | - | response bits to status codes |
| driver list | `sdio_host.c` 1293-1315, 3035-3135, 3469-3552 | list of SDIO class drivers and its pool | add, remove, find |
| general card commands | `sdio_card_general.c` | `CardInfo` of a device | command sequences over `SDIOHost_ExecCardCommand`, parsing of CSD, SCR, CIS |
| PHY | `sdio_phy.c` | PHY delays | set, get, train |
| combo PHY | `ccp.c` | PHY registers | field-wise read-modify-write, wait for the DLL |
| wrappers and checks | `sdio.c`, `csdd_obj_if.c`, `*_sanity.c` | - | validate and delegate; every function has preconditions of its own |
| AXI errors, error texts, utilities | `sdio_sd4_host.c`, `sdio_errors.c`, `sdio_debug.c`, `sdio_utils.c` | - | log and clear; format; bounded wait |
| reference programs | `reference_code/` | - | how the driver is used; the port to the PHY's registers |

**How they interact.**  A client calls `CSDD_*` functions (`sdio.c`), which delegate to
`SDIOHost_*` and `SDIOHost_CQ_*`.  There is no thread in the driver: the client's call runs
in its own context and the *interrupt handler* (`SDIOHost_InterruptHandler`) preempts it and runs
to completion; when interrupts are off, `SDIOHost_CheckBusy` polls the same handler.  The
*controller* and the *card* change the registers at any time.  All parties share the slot
structure and the request objects, without locks and without masking interrupts.  The handler
calls the client back when a card is inserted or removed.

**What is hard.**  The handler between a check and the write that relies on it; completions that
arrive between the read and the clearing of a status register; error recovery, which runs commands
of its own inside the handler; time-outs racing with late completions; aborts; a card removed in the
middle of anything; queue slots and pools that must be given back exactly once.  `PROJECT.json`
lists these hazards line by line with the properties that cover them.

**What makes a component correct.**
*Command queuing:* a slot holds only a request the driver owns and a request sits in one slot; a
started request is owed an answer at all times and gets one; success is answered only for what
was executed; a completion never loses its interrupt; the halt flag agrees with the engine.
*Ordinary requests:* a request given to the controller is answered exactly once; the command register
is written only when the lines are free; a failing recovery leaves the slot usable.
*Card detection and memory cards:* a detach leaves no request, device or card object behind; an attach that fails can be
repeated; success means a card that is ready; no insertion or removal is forgotten.  *Transfers:* memory changes only where it was asked to,
success means that all was moved, and the card is never left in its data state.  *DMA:* the descriptors of a request describe exactly its bytes, in order, within
the limits of each entry.  *Access modes:* timing, width, voltage and strength of host and card agree after
success and after each failing step; the clock is no faster than asked.  *Session:* no function uses what does not exist, and the
interrupt enables agree with what the client asked for.  *PHY:* a field holds what was set last and nothing else changes.


## 2. Plan

The modules, in the order in which they were written.  Command queuing came first: it is the newest and most concurrent part
of the driver; the ordinary engine next, since every other component sits on it; then outwards to the public functions.

| module | models | section |
|---|---|---|
| `CQ`, `CQRequest`, `CQProofs` | command queuing and what its client is promised | 3 |
| `Slot`, `SlotProofs` | ordinary requests, handler, recovery, abort, detach | 4 |
| `Dma`, `DmaProofs` | mode of a transfer, descriptors of SDMA, ADMA2, ADMA3, blocks by the CPU, DMA interrupts | 5 |
| `Hotplug`, `HotplugProofs` | card events, check of the slots, attach and identification, detach between two steps, pool of memory cards | 6 |
| `MemCard`, `MemCardProofs` | the calls of the memory card driver as lists of commands against a card | 7 |
| `Mode`, `ModeProofs` | access mode, width, voltage, strength, clock, tuning: host, card and record | 8 |
| `Session`, `Api`, `SessionProofs` | the public functions with their checks and preconditions, initialisation, interrupts, standby | 9 |
| `Phy`, `PhyTables`, `PhyProofs` | field-wise register access of the combo PHY, handshake of the older one | 10 |

*How they fit together.*  The modules meet at the call of a command.  `Slot` shows that a command is answered and the slot stays usable whatever
fails; `MemCard`, `Mode` and `Hotplug` take from it that a command succeeds, fails or is cut off, and add what only they know: that its answer may
be lost after the card has acted.  `Dma` shows that what a command moves is what its descriptors say; `MemCard` takes a
command's data as moved in order.  `Hotplug` details the attach and detach that `Slot` and `Session` have as one step with several outcomes.
*Abstract specifications:* `CQRequest` (refined by `CQ`); in `MemCard` the memory of the card read and written by ranges, as action properties.
*Theorems:* of `CQ` every safety property its runs check and the refinement of `CQRequest`; of `Slot` the order of its commands on the lines, what the slot's pointer refers to and, for a tame client, that no request is forgotten and an OK is the truth; of `Dma` the exactness of the split, the size of the table, and that what is moved is what was asked; of `Hotplug` its three invariants;
of `MemCard` and `Session` the agreements between the driver and what it drives; of `MemCard` also that the card's memory changes only as asked and that success is of the whole request; of `Mode` the agreement of card, host and record, the clock and the tuning; of `Phy` that the setters keep apart and the answers are true (sections 3 to 10; section 12 says what is left to TLC).

Each run covers several *surroundings* (`Envs`): which functions the client calls, which errors the bus produces, which waits may be
too slow.  A behaviour picks one at its start and keeps it (variable `env`), so one run checks its properties in all of them.  A
property that holds only in some names them itself, by the fields of `env` it supposes.

## 3. Command queuing: `CQ`, `CQRequest`

`CQ` has three parties.  The *API thread* (`api`) runs one `SDIOHost_CQ_*` function at a time, the
*handler* (`isr`) preempts it and runs to completion, and the *engine* (external: the controller's
queuing engine and the eMMC device) moves at any time.  A function is one action when nothing can happen
inside it that matters, and several when it reads state first and relies on it later, waits for a register,
or writes in an order another party can see:

| code | actions |
|---|---|
| `Enable`, `Disable`, `SetDirectCmdConfig`, `SetIntCoalescingCfg`, `ResetIntCoalCounters` | one action each |
| `AttachRequest` | `AttachCheck`, then `AttachReject` or `AttachCommit` |
| `StartExecuteTask(s)` | `StartCheck`, `StartMark` (statuses), `Ring` (doorbell) |
| `ExecuteDcmdRequest` | `DcmdCommit`, `Ring` |
| `Halt(1)` | `HaltBegin`, `HaltSeen` or `HaltTimeout`, `HaltSet`; `Halt(0)` is `HaltEnd`: the engine is taken to restart at once, so the wait for it (`sdio_cq.c:1814`) never times out |
| `TaskDiscard`, `AllTasksDiscard` | `HaltBegin`, ..., `DiscardTask` / `DiscardAllTasks`, `DiscardFinish`, `DiscardEnd` |
| handler: `CheckInterrupt` ... `CheckTaskCompletion` | `IsrEnter`, `IsrDispatch`, `IsrTaskError`, `IsrHalted` / `IsrHaltTimeout`, `IsrRecover`, `IsrUnhalt`, `IsrClearError`, `IsrCqInt`, `IsrCoal`, `IsrReadNotif`, `IsrFinish` |
| engine (external) | `HwFetch`, `HwComplete`, `HwError`, `HwCoalTimer`, `HwHalt`, `HwClear` |

`desc`, `doorbell` (CQRS10), `clearReq` (CQRS14), `notif` (CQRS11), `errField` (CQRS21), `cqInt` (CQRS04) and
`srsErr` (SRS12) stand for the registers and the descriptor list; `hwReq` and `stuck` are the engine's own.
`executed` is a history variable used by the properties and by the refinement only.  Data, descriptors' layout
and the register getters are abstracted.  A call that is refused changes nothing and is a stuttering step.

One precondition is the client's and is not tested by the code: a request object that the driver still owns
is not passed in again (`AttachCheck`, `DcmdCommit`).  What else may happen is a field of `env`:

- `ops`, `errors`: the functions the client calls and the errors the device and the bus produce;
- `careful`: the client takes slots from `GetUnusedTaskId`, and disables, reconfigures or sends a direct command only when the
  interface's comments allow it.  The theorems hold without it;
- `promptIrq`: an interrupt that is raised is taken before the thread's next step;
- `promptClear`: the engine has cleared a task before the driver goes on (the code does not wait for it);
- `haltTimeouts`: a halt may take longer than the bounded wait.

`CQRequest` is what the client sees: a request is attached, started and answered once, and `FINISHED` only after it was
executed.  `Refines` says that `CQ` implements it with `stat <- reqStat`, `ran <- executed`, in *orderly* surroundings (`Orderly`).
Each conjunct of `Orderly` rules out something the code really does, after which slots and engine are out of step:

| conjunct | without it |
|---|---|
| the client is careful | a slot is filled that the completion loop does not visit, or its request is orphaned |
| interrupts are prompt, halts in time (`Timely`) | a recovery restarts an engine the thread believes halted; a completion from before a discard answers the slot's next request |
| clears are prompt | a clear still under way drops the doorbell of the next request in the slot |
| only data errors | after a command or response error the task is not cleared in the engine, and completes for the slot's next request |
| coalescing and the discard of all tasks not together | a completion that is counted and not yet signalled survives the discard and answers the slot's next request |

| run | surroundings | shows |
|---|---|---|
| `cq_safety` | `Discards`: discard one or all, halt, data errors; `Switches`: direct command, mode switch, coalescing, disable, data errors; `SlowHalts`: data and command errors, halts that time out; `LateIrqs`: interrupts taken late | `TypeOK`, `SlotsOwned`, `NoOrphan`, `PendingIsOwed`, `NoLostWakeup` in all of them; `StartSeesRequest`, `HaltAgreement`, `Refines` in the first two (`Orderly`, of which `HaltAgreement` needs `Timely` only) |
| `cq_liveness` | `Coalesced`: coalescing and a direct command, no errors; `Responses`: error responses, discard; one request | `ErrorIsReported`, `PendingEnds`, `HandlerReturns` |

**Bounds.**  Two slots and two requests are enough for the cases that matter: a slot that changes its meaning while
the other is in use, an error naming two tasks, a completion while another task is started, a slot reused by another request.  A
request object is reused without bound; no counter is capped.  Request objects are symmetric where no liveness is checked.

**Fairness** (`cq_liveness`).  `ApiContinue` and `IsrStep` are weakly fair: the CPU finishes a function that was called and runs a
raised interrupt; new calls are never forced.  The engine is weakly fair in acknowledging halts, clearing tasks and running the
coalescing timer, and strongly fair in fetching and completing a task, since halts may disable a task again and again.  Errors are
never forced.

**Deadlock** is checked in `cq_liveness`.  In `cq_safety` a late interrupt
can find the queue halted; the handler then spins (section 11), which in the model is a state without a next step.

**Proved (`CQProofs`).**  For every number of slots, every set of requests, every client, every error and timing:
`TypeCorrect` (`Spec => []TypeOK`) and `Ownership` (`Spec => []SlotsOwned`), both from `Inductive` (`Spec => []IInv`).
`IInv == TypeOK /\ ThreadInv /\ SlotsOwned`.  `SlotsOwned` alone is not inductive: `AttachCommit` writes a slot that was
checked one step earlier, so `ThreadInv` records what the check found and what the handler cannot undo in between - the request being
attached is not in use by anybody else and the slot is not refilled.  All steps that empty slots go through `Finish`; one lemma
(`FinishOwned`) shows that it keeps ownership and `IsrOrHwFinishes` reduces the handler's and the engine's actions to it.
`HaltIsReal` (`Spec => []HaltAgreement`) needs `HaltInv`: between the thread's reading of the halt and its writing of `CQHalted` the handler may run, but where interrupts are taken at once no
error was raised when the halt was read, a halted engine raises none, and a completion alone does not make the handler restart the engine.

For the same constants, in its second part: `NoneOrphaned` (`Spec => []NoOrphan`), `WakeUpsArrive` (`Spec => []NoLostWakeup`) and `ErrorsReported` (`Spec => []ErrorIsReported`).
`CarefulInv` adds to `IInv` what a careful client keeps true: slots are taken by `CQGetUnusedTaskId` only, so a request in use is in a slot the completion loop visits (`UnusedIsEmpty`), and the direct
command's slot changes its meaning only while nothing is in use.  `HandlerInv` says what the handler has taken from CQRS11 but not yet answered; with it `WakeInv` follows a completion from the
notification to the interrupt, through coalescing, clearing and a recovery in between.  `ErrorIsReported` is for error responses only: an error of SRS12 that is raised between the restart and
`IsrClearError` is lost (section 11).

**Proved, in the last part of `CQProofs`**: `StartIsSafe` (`Spec => []StartSeesRequest`), `PendingAnswered` (`Spec => []PendingIsOwed`) and the refinement, `Implements` (`Spec => Refines`).  `OrderInv` is the inductive invariant that ties
slots to engine: a task that is rung, fetched, counted or notified belongs to the live request of its slot, and the descriptor is that request's (`EngineInv`); what `StartCheck` saw stands (`StartInv`); and no error is
raised that the handler is not about to take (`ErrorInv`).  It is proved party by party: `ThreadOrder`, `HandlerOrder`, `TaskErrorOrder`, `FinishOrder`, `EngineOrder`.  The discard is the delicate case: `DiscardInv` keeps what it
was called for, and `ClearInv` that the engine is told to clear only what a discard or a recovery is about to answer, so that a prompt clear has emptied the engine when `DiscardTask` ends the request.
For the refinement each action is shown to be a step of `CQRequest` or to leave `reqStat` and `executed` alone; the step that needs the invariant is `IsrFinish`, which answers `FINISHED`: the notification belongs to
the request in the slot, and that request was executed.  `PendingAnswered` also holds with the other errors, late interrupts and slow halts, as long as no direct command is sent.
## 4. Ordinary requests: `Slot`

`Slot` models the request engine with command queuing off.  The *API thread* (`api`) runs `SDIOHost_ExecCardCommand`,
`SDIOHost_CheckBusy`, `SDIOHost_Abort`, `SDIOHost_DeviceDetach`; the *handler* (`isr`) preempts it, or is called by
`CheckBusy` when interrupts are off; both can be inside `SDIOHost_ErrorRecovery` (`rec`), which runs a CMD12 and a polling loop
of its own.  The *controller* and the *card* (external) move at any time.

| code | actions |
|---|---|
| `ExecCardCommand`: precondition, then `ProcessRequest` | `ExecCall`, `ExecSwap` (`pCurrentRequest`), `ExecLineBusy` or `ExecPrepare` (clears SRS12, prepares the data), `ExecFlag` (sub-command), `ExecSend` |
| `CheckBusy`, `CheckBusyAbort` | `WaitCall`, `WaitRound`, `WaitAgain`, `WaitTimeout`, `WaitDone` |
| `Abort`, `ProcessAbort` | `AbortCall`, `SyncAbortCall`, `AbortStopped`, `AbortReset`, the steps of `ProcessRequest` for its CMD12, `AbortFinish` or `AbortRecovered` |
| `DeviceDetach`, outcome of an attach | `DetachCall`, `DetachEnd`, `AttachCall` |
| handler | `IsrEnter`, `IsrRead` (reads and clears SRS12), `IsrCard`, `IsrNormal`, `IsrError`, `IsrErrorEnd`, `IsrReturn` |
| `ErrorRecovery` | `RecStart` (mask, reset), `RecSend` (CMD12), `RecPoll`, `RecEnd` (restore) |
| controller and card | `HwResponse`, `HwTransfer`, `HwStopAtGap`, `HwCmdError`, `HwDatError`, `HwCard` |

Requests differ in what the engine looks at: without data, with busy (R1B), reads, writes, those whose response the controller
checks, those sent through ADMA3.  `srs` is SRS12 by groups: command complete, transfer complete, block gap, card, and the
error of the command line, the data line and Auto CMD12.  `cmdLine` and `datLine` say whose command inhibits a line; `Blocked` is a
line that stays inhibited until it is reset.  The stack objects of an abort and of the two recoveries are the requests `"abort"`,
`"recApi"`, `"recIsr"`.  `executed` is a history variable.  Not modelled here: buffer-ready interrupts and CPU transfers (`Dma`),
infinite transfers, the tuning command, the steps inside an attach, controllers without sub-commands (`hostCtrlVer` below 6).

| run | surroundings | shows |
|---|---|---|
| `slot_safety` | `Interrupts`, `Polled`: every kind of request and error; `AutoCmd12`: ADMA3 reads with Auto CMD12 errors; `Removals`; `Aborts`: waits that time out and aborts; `BesideAdma3`: a plain command beside an ADMA3 transfer; `Subs`: sub-commands with errors; `GapAborts`: synchronous aborts; `FailedResets`, `FailedAborts`: software resets that time out | `PendingIsOwed`, `OkWasExecuted` in all but `Subs`, `GapAborts`, `FailedAborts` (`Ordinary`); `SentWhenFree` in all but `FailedResets`, `FailedAborts`; `CurrentIsLive`: of the CMD12 of an abort in all but `Aborts`, of that of a recovery in all but `AutoCmd12` |
| `slot_liveness` | `Recovering`: errors in interrupt mode; `SlowCard`: polled, with time-outs; `AutoAlone`: Auto CMD12 errors | `WaitEnds`, `HandlerReturns` |

**What the properties suppose.**  The surroundings that a property leaves out break it, as section 11 tells: sub-commands that fail and synchronous
aborts can leave a request without an answer or answer it too early; the CMD12 of an abort that is never answered stays current, as does that of an Auto CMD12 recovery; and after a reset that failed a command is written to
a line that may still be inhibited.

**Bounds.**  One request object of each kind, each used again without bound: the engine handles one current request and at most
one beside it.  No counter is capped.

**Fairness** (`slot_liveness`).  A function that was called goes on, a raised interrupt is taken, a recovery goes on, and the controller
ends what it was given to do (for a card that is gone: with an error).  Calls, errors, removals are never forced.

**Deadlock** is checked in `slot_liveness`.  In `slot_safety` the driver can stop: a synchronous abort that spins, a recovery
that waits without a time-out for a CMD12 which ended together with another error (section 11).

**Proved (`SlotProofs`)**, for every set of requests and surroundings: `LinesAreFree` (`Spec => SentWhenFree`) and `CurrentLives` (`Spec => []CurrentIsLive`).
Both rest on `PlaceInv`: a recovery runs inside the function that started it, a polled handler inside `CheckBusy`.  *The lines:* the thread looks at them at one step and writes the command two steps later;
`LinesInv` says that they stay free in between, but for a handler's recovery that polls for its own CMD12, which the thread waits for and which resets the lines before it returns.  `Sends` then has only two steps to look at.
*The pointer:* `RecInv` says that a recovery's CMD12 is current only while that recovery polls, and that nobody saves it to put it back, but the handler's recovery that of the thread's it interrupted.  For the abort there
are two invariants, one for each way the property is supposed: `NoAborts` (nobody makes its CMD12) and `AbortInv`: while nothing fails, SRS12 is empty and the lines are free until that CMD12 is sent, so that no late bit answers it, and
the abort does not leave its loop while it is current.

`NoneForgotten` (`Spec => [](Tame => PendingIsOwed)`) and `OkIsTrue` (`Spec => [](Tame => OkWasExecuted)`) hold for every set of requests, with and without interrupts, and whatever bus errors and card movements there are, if the client is `Tame`: it
issues one request at a time and aborts none, no bounded wait of the driver expires and resets succeed.  Beyond that they are false for some sets of requests, whatever the instance of `slot_safety` shows: an error that comes while an abort recovers, begun by the client or by a wait that expired, is charged to the next request; preparing a sub-command
wipes the main request's completion; a transfer whose lines could not be reset ends beside the next request (section 11).  The invariant, `TameInv`, follows a request: while the thread prepares it nothing of an earlier one is on the lines or in SRS12 (`PrepareInv`);
once sent it is the only one pending, it is current, the lines are its own, the answers raised are its own and come in order, and the controller works on it or has raised a bit (`SentInv`, `LineInv`); when none is pending no answer can come (`NonePending`); a card that came or went answers nothing (`CardInv`).
What the handler remembers while it works is still so (`HandlerInv`): in particular the request it will answer after a recovery is the only one pending, so that the recovery may leave anything behind but its own CMD12 (`RecoverInv`), even an OK for the request it interrupted (`OkInv`), which the handler overwrites.


## 5. The data path: `Dma`

`Dma` models `sdio_dma.c` and what `sdio_host.c` adds to it: the block count, the blocks that the CPU moves, the DMA interrupts.  The
*thread* prepares a request (`pc`) and starts it, the *engine* (external) follows registers and descriptors, the *handler*
(`isr`) preempts the thread.  Addresses and sizes count 32-bit words; pointers have 64 bits, as in the reference build.  The contents of the descriptor buffer
are kept word by word (`table`), since descriptors of one command can meet those of the next.  The history variable `moved`
records which words of memory the engine or the CPU has moved for each command.

| code | actions |
|---|---|
| `SetDmaMode`, `DMA_SpecifyTransmissionMode` | `SetDmaMode`; `SpecifyMode` (in `Exec`, and again in each interrupt) |
| `ProcessRequestDataPresent`, `DMA_PrepareTransfer` | `Exec`; every refusal below answers the request with an error |
| `DMA_PrepareTransferSDMA`, `SetDMAAddr` | `PrepareSdma`, `RefuseSdma` |
| `DMA_PrepareTransferADMA3` | `CreateCommandDescriptors`, `RefuseCommands`, `Integrate` (in the step that completes a command), `StartAdma3` |
| `DMA_PrepareTransferADMA`, `DMA_PrepareSubBuffers` | `UserBuffers`, `WholeBuffer`, `SplitBegin`, `SplitPiece` (one round of the loop), `SplitEnd`, `SplitRefuse` |
| `ADMACreateDescriptors`, `ADMA2FillDescriptors` | `CreateDescriptors`, `RefuseDescriptors`, `AdmaAddress` |
| `Set_Block_Count`, the command register, `CheckBusy` | `Issue`, `Poll`, `Return` |
| handler, `TransferDataBuffer`, `DMA_HandleInterrupt` | `IsrEnter`, `IsrBuffer`, `IsrComplete`, `IsrDma`, `IsrResume` (clear the interrupt, write the address) |
| controller | `EngSdma` (up to the next boundary), `EngBlock`, `EngCommand`, `EngData` |

The surroundings `env` fix the host: 64-bit addressing, version from 6 on (26-bit lengths, ADMA3, the larger buffer), the modes it
supports, the modes and requests the client uses.

| run | surroundings | shows |
|---|---|---|
| `dma_transfers` | `Narrow`: every mode on a version 4 host; `Beyond`: buffers a 32-bit register cannot reach; `Lists`: sub-buffers of the client; `Wide`: 64-bit addresses across the 4 GiB line; `Chains`: ADMA3 with several commands; `WideAlone`: ADMA3 with 64-bit addresses and one command | `SplitCovers`, `MovesInOrder`, `OkMovedAll`, `TableFits`, `TransferEnds` |
| `dma_v_chain` | 64-bit addresses, write, status and read in one ADMA3 request | `MovesInOrder` is violated |

**Bounds.**  A descriptor moves 4 or 6 words, SDMA stops every 4 words, an address word reaches 16, three sub-buffers and three commands: every
limit is met exactly, missed by one and exceeded.  (`dma_v_chain` has a larger descriptor buffer, so that three commands fit.)  Lengths are chosen around them: one word, less than a piece, exactly two pieces, three,
four.  No counter is capped; a client goes on for ever.

**Fairness.**  The thread goes on, a raised interrupt is taken and served, the engine does what it was started for.  Calls are not forced.

**What the client may not do in the runs.**  The code does not refuse these, and properties fail with them:
changing the mode while a transfer is pending (`DMA_HandleInterrupt` works the mode out again, and an SDMA transfer at a boundary is never resumed);
sub-buffers with no DMA (the CPU copies over the array of sub-buffers); sub-buffers longer than a descriptor can say (the
length is cut); `blockCount * blockLen` of 4 GiB and more (a 32-bit product, `sdio_dma.c:552`); more than 65535 blocks on a host before
version 6 (`sdio_host.c:4351`); ADMA2 buffers above 4 GiB with 32-bit DMA (the high word is dropped without an error, where SDMA refuses);
a first command of no data (a length of 0 in an ADMA2 descriptor means the whole limit).
Also met: the integrated descriptors of ADMA3 hold the logical address of the descriptor buffer (`sdio_dma.c:710`), not `DescriptorDMAAddr`;
`SDIOHost_SetDmaMode` accepts ADMA1 with a message only.

**What is proved** (`DmaProofs`), for every limit, buffer size, set of hosts and set of requests:
`SplitIsExact` (`Spec => []SplitCovers`) and `DescriptorsFit` (`Spec => []TableFits`).  Neither property is inductive.  `IInv` adds: at every round of
the loop there is data to split, so that the list it leaves is not empty; the running size is at least what is
written plus 8 words for each command to come (`TableInv`), which is what makes the check of one list enough for all that
follow; and nothing moves or interrupts while the thread prepares (`Handshake`), so the mode cannot change under it.  The step
of `CreateDescriptors` needs that the next free word is never beyond the list just written (`NextOffset`).  Assumptions:
`SizesAssumption` (all the command descriptors of `CSDD_MAX_NUMBER_COMMAND` commands fit in the buffer: 10 of 32 bytes in 100 KiB),
`EnvironmentAssumption` (requests are commands), `VersionAssumption` (SRS17 shows ADMA3 from version 6 on only, `sdio_host.c:5196`).

`TransfersInOrder` (`RequestsSuit /\ Spec => []MovesInOrder`) and `TransfersComplete` (`RequestsSuit /\ Spec => []OkMovedAll`): whatever the mode, the
alignment and the boundaries, what is moved is the memory the client named, no word skipped, repeated or swapped, and all of it when
the request is answered OK.  `RequestsSuit` leaves out the requests that "What the client may not do" lists, for which this is false, and no others on purpose: sizes and block
counts fit their registers, ADMA buffers are in the reach of a descriptor, sub-buffers have a length a descriptor can say and are used with a DMA mode, the
first command moves something, and no chain of commands has 64-bit addresses (`dma_v_chain` is what becomes of one).  TLC evaluates it for the
surroundings of the run (`InstanceSuits`), and checked the parts of the invariant before they were proved.

Neither property says anything of what is still to come, so the invariant is much stronger.  `MoveInv` says: the mode chosen is one the host and the request
allow (`ChosenInv`); the register or pointer the transfer starts from holds the address of the data (`StartInv`); the pieces made so far, which `SplitCovers` counts, are not empty and lie between the
buffer's beginning and where the loop stands (`PiecesInv`); the descriptors written, read the way the engine reads them, list consecutive pieces of the command's memory
(`DescrInv`, with `Listed`: there is a sequence of cuts, each descriptor covers the words from one to the next, and only the last has the end mark);
the engine, or the CPU, stands at the cut that fits what has been moved (`EngineInv`); and what has been moved is a beginning of the memory (`Prefixes`).  Two arguments carry
it.  *A later command does not spoil an earlier one:* the descriptors of a chain are kept below `used`, what `CreateDescriptors` and `Integrate` write is above
it (from `TableInv` and `NextOffset`), and `Listed` looks only at words below its end (`Agree`).  *The memory of a list is the sum of its pieces:*
`Memory` is a recursive function over the sub-buffers; that a function with that recursion exists (`UpToExists`) is
shown by taking the least length without one, after which only the recursion itself is used.


## 6. Cards that come and go: `Hotplug`

One slot, memory cards only, as the build is configured.  Three parties: the *client's thread* (`pc`), which attaches, detaches or polls the slot; the
*interrupt handler* (`isr`), which preempts it - signalled, or called by `CheckBusy` while a command runs; and the *socket* (external), whose card
moves and whose contact shakes.  The detach exists twice, as in the code: in the thread (`DetachFlags`, `DetachForget`, with the handler possibly in between) and
in the handler (`DetachAll`, in one step), where it finds the thread anywhere in an attach, which then goes on.

| code | actions |
|---|---|
| `SDIOHost_DeviceAttach`, its `Process1` to `Process6` | `CallAttach`; a command is issued by `ExecCommand` and ends in `ResetStep`, `TypeStep`, `PrepareStep`, `RcaStep`, `SwitchStep`; then `LookingForDriver`; `AttachReturns` |
| `MemoryCard_Initialize` | `GetUnusedCard`, `ReferToCard`, `CsdStep`, `LenStep`, `StoreCard` |
| `SDIOHost_DeviceDetach` | `CallDetach`, `DetachFlags`, `DetachForget`; `DetachAll` in the handler |
| `CSDD_CheckSlots` | `CallCheck`: `CheckUnstable`, `CheckFindsCard`, `CheckMissesCard` |
| card branch of the handler | `HandlerEnter`, `HandlerClear`, `HandlerAct` (removal, insertion, or the branch called "Problem") |
| socket | `Put`, `Take`, `Shake`, `Settle` |

| run | surroundings | shows |
|---|---|---|
| `hotplug` | calm (cards move only while the driver is at rest): attach after the callback, with and without failing commands, with detaches by hand, or polled; wild (cards move and contacts shake at any time): signalled and polled | `PoolBalanced`, `InsertionKnown`, `CardServed` in calm ones; `OkMeansReady`, `RemovalNoticed` in all |

**Bounds.**  Four movements of cards (`moves`; three in the wild surroundings), which allow a card to be swapped twice.  One entry in the pool, as in the code.
**Fairness.**  The contact settles, commands end, a raised interrupt is taken, the thread runs; the client answers the callback and polls again and again, as the
comments of `CSDD_CheckSlots` ask (strong fairness, since a call is possible only between two others).  Cards, faults and detaches are never forced.  The client may stop, so deadlock is not checked.

**Left out of the runs.**  `CSDD_CheckSlots` beside signalled interrupts in calm surroundings: a check that attaches a card whose insertion
interrupt is still pending lets the handler run into its "Problem" branch and detach it in the middle of the attach, which then takes a pool entry for
a device that was wiped and leaks it (section 11).

**Proved (`HotplugProofs`)**, for every number of movements, every set of kinds of cards and every set of surroundings, from `KindsAssumption` (an empty socket is not a kind of card):
`AttachTellsTruth` (`Spec => []OkMeansReady`), `PoolCorrect` (`Spec => []PoolBalanced`) and `InsertionsKnown` (`Spec => []InsertionKnown`).  `OkMeansReady` speaks of the last step of an attach only; `StageInv` says for each
step what the attach has established by then.  Its witness is the device itself: one that still knows its slot was wiped by no detach since it was identified.  GetCSD and ProcessInitialize reach the slot through the device (`SlotReached`), so a command after a
detach is not sent, one in flight is aborted, and the attach fails; only a detach that comes when the last command has been answered is seen by no later step (`fresh`, section 11).  `PoolBalanced` speaks of moments of rest in *tame* surroundings (`Tame`: calm, firm contacts, no check of the slots beside signalled interrupts); `PoolInv` carries it through an attach: the entry is taken
one step before the device refers to it (`pc = "ref"`), the device's driver is assigned before it has data (or the detach would not give the entry back), and where the handler can cut in - under polling only inside
a command (`PollInv`), with signalled interrupts only before the card has answered (`SignalInv`) - it never does so between the taking and the referring.  This is what fails when a check of the slots runs beside signalled interrupts.
`InsertionsKnown` extends `PoolInv` by `KnownInv`: whenever the handler has nothing left to answer, what is inserted is in the socket, and what is in the socket and was put in is inserted or asked for.  It needs the tame
surroundings: with contacts that shake, a second insertion event can reach the handler when the card is already attached, and `ProcessCheckInterruptRemovalInsertion`, which knows no such case, detaches the card and asks for nothing.

## 7. Transfers of a memory card: `MemCard`

A call of `sdio_memory_card.c` is computed when it is made: `Commands(o)` is the list of commands it sends, `Refuses(o)` what it rejects, and `Exec` sends one after
another; a failure ends the call unless the code does not look at that command's status (`strict`).  The card (external) has its own block length, state, preset count and
*memory*, byte by byte: bytes get fresh names between two calls, so every move can be recognised.  The fields `blockSize`, `isSelected` are the driver's
caches of what the card has; `g` is the static `gRequest` with the call that left it.

| code | definitions |
|---|---|
| `MemoryCard_PartialDataXfer`, `MemoryCard_DataTransfer2` | `Partial`, `Transfer2`, `StopAfter`, `AutoStop` |
| `MemoryCard_ProcessDataTransferNonBlock`, its end | `NonBlock`, `StartRequest`, `RequestEnds` |
| `MemoryCard_InfXferStart`, `Continue`, `Finish` | `InfStart`, `InfContinue`, `InfFinish` |
| `MemoryCard_DataErase`, `Configure` | `Erase`, `Configure` |
| `MemoryCard_SetBlockLength`, `SDIOHost_SelectCard` | `SetBlockLength`, `SkipSelect`, `DriverAfter` |
| `SDIOHost_ExecCardCommand_Precond` | `SlotIsBusy` |

What may become of a command (`Outcomes`): done and answered; not taken (`mute`); done, the answer lost (`lost`); a transfer broken off after some blocks (`cut`).  A
command the card would not take in its state is always mute - so a missing CMD12, a wrong block length or count shows as an error of a later call.

| run | surroundings | shows |
|---|---|---|
| `card` | SD cards of both capacities, with and without CMD23, write-protected; MMC with locking and DDR; infinite transfers; background transfers with Auto CMD12 and Auto CMD23; the same in ADMA3, counted and not, blocking and in the background; the same with faults | `AgreeOnLength`, `StreamsAreStopped` (without faults), `TouchesOnlyAsked`, `OkMeansDone` |

**Who ends a transfer.**  Five conditions decide it: the number of blocks, `CMD23Supported`, `USE_AUTO_CMD` (fixed when the driver is built), whether the mode is SDMA (a non-blocking transfer is counted by a CMD23
of its own then), and whether it is ADMA3 - the mode the automatic choice takes for every transfer of several blocks on a version 6 host (`sdio_dma.c:982`), `env.dma`.  The command descriptors of ADMA3 ask for the automatic
command of the host's own choice whatever the request says (`sdio_dma.c:329`), so `MemoryCard_ProcessDataTransfer2ExecCardCommand` sends no CMD12 there (`sdio_memory_card.c:806`).  Three facts of the host are supposed: its
automatic choice is CMD23 where the attach has set SRS15 for the card, else CMD12 (`AutoStop`); it sends the automatic command with transfers of several blocks only, though the descriptor of a single block asks for it as well;
and it takes the same count twice, for a blocking transfer to a card with CMD23 announces it itself before the descriptors do.  Infinite transfers use no DMA (`sdio_dma.c:955`).  The model takes any command sent while a background
request is in flight as refused; a version 6 host lets those without data through as sub-commands unless that request is ADMA3's (`sdio_host.c:4277`), which `Slot` models.

**Bounds.**  Three sectors of four bytes, partial transfers in words of two: transfers of nothing, of a byte, one sector and two, at every address, partial ones of every position and size.  `Wrap`, the first value
an argument cannot have, is just beyond the last address.  No counter is capped.  The client may stop, so deadlock is not checked.

**Supposed of the client.**  Ranges are on the card; `gRequest` is not overwritten in flight; an infinite transfer is started with two sectors, and only continued or finished
afterwards; DDR is chosen while the block length is 512 bytes (section 11 tells why each is needed).

**Proved (`MemCardProofs`)**, for every size of the card and of a sector and every choice of failures: `LengthsAgree` (`Spec => []AgreeOnLength`).  `LengthInv` drops the
condition that no call is in progress, and adds that a request in the background is a transfer, which cannot change the card's block length; then each command is looked at once (`CardKeepsLength`), whether carried out, lost or recovered from.

`StreamsStop` (`Spec => []StreamsAreStopped`) is about the two places that decide who ends a transfer.  Its first half is about the lists: `GoodList` and `StopsBehind` say that every count (CMD23) is followed by the transfer it counts, and every
transfer neither the command nor the host ends has its count before or its stop behind it, and that a stop follows such a transfer only; `CommandsGood` and `CommandsOnce` show it of what each call prepares, from the conditions of
`Transfer2` and `NonBlock` in every DMA mode, for every size.  Its second half is the
invariant `StreamInv`: what is left of a good list is one (`TailGood`); the card is in its data state only in an infinite transfer or with a stop next; it holds a count only for the transfer sent next or for the request in the background;
and a wait, a non-blocking and a finishing call find `gRequest` as they need it.  `OnceInv`, on top of it, is why nothing is ended twice: the card holds no count of a transfer that a stop follows, so the card that took the transfer is
still moving data when the stop is sent, and an infinite transfer keeps the card moving until its own call finishes it.  It speaks of surroundings without faults, as the property does: a CMD12 whose failure is not looked at would leave the stream running.

`MovesStayInside` (`Spec => TouchesOnlyAsked`) and `SuccessIsDone` (`Spec => OkMeansDone`) follow what a call moves, from its arguments to the bytes of the card.  Their invariant `MoveInv` says where the list of a call in progress
stands.  Every accepted call has one command that does its `Work`, with commands `Before` it that touch no data and, of `whole`, a stop `After` it.  `ListInv`: the work is still `Ahead` and nothing has been read, or the call is `Finished`
(what it asked for is in the card's memory or in `got`); the strict failure of any command on the way ends the call.  `OpFine` is what the argument checks leave: the range lies in the card, a writer is not write-protected, the work
command is `Aimed` at the first byte and covers the size exactly (`WholeAimed`, `EraseAimed`, from the arithmetic of `\div` and `%` that `Quotient`, `Multiple` and `WholeCount` state once, for cards addressed by bytes or by sectors; `Wrap`
is where the assumption on the constants is used).  Three parts tie the list to the card: `EraseInv`, that the card has the range before the erasing is sent, `EndlessInv`, that an infinite transfer goes on at the byte the next call
names, `BehindInv`, that the request in the background is the work of an accepted call, so that `RequestEnds` may interleave with another call's list.  TLC checked `MoveInv` on the instance of `card` before it was proved.

## 8. Access modes, width, voltage, clock and tuning: `Mode`

A function is again a list of steps (`Steps(o)`), each a command to the card or a write to the host or to the slot's record; an error ends it with a
prefix done.  Three views of the bus are kept apart: `card` (external: timing, edges, strobe, width, voltage, strength), `host` (HRS06, SRS10, SRS15) and `slot` (`AccessMode`,
`BusWidth`, `UhsiSelected`, ...).  `aux` is the stale content of `AuxBuff`, which decides more than its readers know; `doubt` names what a call that failed
half way may have left apart, `touched` whether the call in progress has sent the card a switch and whether the error of one was lost.

| code | definitions |
|---|---|
| `SDIOHost_ConfigureAccessMode` and what it calls | `AccessModeSd`, `AccessModeMmc`, `ByHs200`, `ChangeDeviceSd`, `ChangeDeviceMmc`, `MmcSwitches` |
| `SDIOHost_ConfigureHighSpeed`, `SetBusWidth`, `ConfigureDrvStrength` | `HighSpeed`, `SetBusWidth`, `Strength` |
| `SDIOHost_DeviceAttach`, `SwitchVoltageCard33` | `Attach`, `Identify`, `Cmd11`, `Voltage` |
| `SDIOHost_ExecCMD6Command`, `MmcSwitch`, `ReadExCSD` | `Check`, `SwitchFn`, `Switch`, `ReadExtCsd`, `Supports` |
| `CalcSrs11RegAndSetFreqKhz`, `SDIOHost_SetSDCLK` | `ClockFor`, `Divider8`, `Divider10`, `DividerProg`, `SetClock`; `RealClock` is what the hardware makes of the field |
| `ExecuteTuningMmc`, `CalcLongestValidDelayChainVal`, `SDIOHost_Tuning` | `TuneMmc`, `LongestValid`, `TuneSd` |

| run | surroundings | shows |
|---|---|---|
| `mode` | SD cards at 1.8 V and at 3.3 V, without CMD6, failing; MMC, sound and failing; one card after another; a multiplied clock | `ModesAgree`, `ClockAsAsked`, `TunedBest` |

`ModesAgree` is not that nothing ever fails: after any sequence of calls and failures the three views agree, except for what a call failed at after it had sent a switch (the card may have taken it),
and the next call that succeeds brings that back.  `ClockAsAsked` holds each kind of divider against the bound of its own search, and leaves out two cases of section 11 by what they are: `TooSlow`, no divider
that is tried is slow enough (the eight- and the ten-bit search then take the last one, the programmable one overflows its field), and `NeedsOdd`, the ten-bit divider needed is odd and the field holds half of it: the clock is that of the divider one below.
A PHY that does not leave its reset ends `SDIOHost_SetSDCLK` with an error and the clock supplied, which is a way of `SetClock`.  `TunedBest` compares the one-pass search with the definition of a longest run, for every set of passing delays.

**Bounds.**  A base clock of 54 units, multiplied by four, with dividers up to 16 (8-bit), 18 (10-bit) and 32 (programmable) in place of 256, 2046 and 1024: for each kind a frequency asked needs its last divider (4, 3 and 6 units), one is
below all of them (2, or 5), and 6 and 18 need odd ten-bit dividers, the second with a clock that is really faster; five delays in place of 40, all their subsets.  No counter is capped.  The client may
stop, so deadlock is not checked.

**Left out.**  `SwitchVoltageCardNot33` (`sdio_host.c:1085`): a card that does not offer 1.8 V in its OCR, though the host asked for it, but claims SDR50, is met with 1.8 V on the host's side alone, without CMD11; the two would then disagree
on the voltage.  `SDIOHost_SDCardUhsiSupported` (`sdio_card_general.c:964`) asks the card only when `SpecVersNumb` of the device is not 0, and that is read from the SCR later in the attach (`sdio_host.c:4923`), from a record that initialisation and
detach have cleared: in an attach that the handler does not cut into the branch is dead.  `Mode` has no handler; an attach that goes on after the handler's detach (`Hotplug`, section 11) can leave a version behind that revives it.

**Supposed of the client.**  `CSDD_ConfigureHighSpeed` for SD cards at 3.3 V and to switch an MMC on; a card that is replaced has left no mode behind (section 11).

**Proved (`ModeProofs`)**, for every base clock, multiplier, set of dividers and length of the delay chain.  `TunedIsBest` (`Spec => []TunedBest`) rests on `LongestIsMiddle`, a fact about one pass over a set of
delays of any size.  The pass is a recursive function, and nothing about all its values can be had from an induction theorem here; so `ScanKnows` looks at the set of indices at which the loop's invariant (`Known`: the run in progress reaches back
to a delay that failed, and the remembered one is as long as any that has ended) holds, and shows that it contains 0 and with each index the next; `AllReached` concludes, by the least number that would be missing.
`ClockIsAsked` (`Spec => []ClockAsAsked`) needs `ClockInv`, since the clock is also switched on again, unset, by the change to 1.8 V: the clock is on only when it is right, and every list in which
1.8 V is to come has a setting of the clock before it, or the clock is right already.  All three rest on `ModeTypes` (`Spec => []TypeInv`), which gives each function the alphabet of the steps its list may hold.

`CardAndHostAgree` (`KeepsCard /\ Spec => []ModesAgree`) is about every sequence of calls and failures.  `ModesAgree` speaks of the state between two calls, so it has to be followed through lists of steps of which an error may take any prefix:
- `FinalInv`: of every function a few steps decide what it leaves behind (`Finals`, the last of their kind).  Each of them is still `ToCome`, with nothing after it that undoes it, or `Done`: nothing that undoes it is left, and
  what it leaves is there unless an error was lost.  `StepsFinals` shows it of what each function prepares, and one lemma per kind of step that the step keeps it.
- `ListInv`: the shapes the lists keep from any step on.  Nothing is written to the host or to the record before a switch was sent (`Led`), so that a function that fails before has changed nothing; a width is recorded right after it is set.
- `NowInv`: the agreement holds within functions as well, but for what is in doubt and what the function in progress has begun to change (`Suspect`).  A function that comes to its end has all its finals `Done`, which is the agreement again.
- `SideInv`: what the two sides cannot part on, such as the strobe, which is never set without DDR, or an unattached slot, whose records are the initial ones.

`KeepsCard` is the exception of section 11, that a detach does not reset the host's modes: a card is replaced only where no mode or strength is set.  TLC checked `ModeInv`, the conjunction, in the surroundings of the run before it was proved.

## 9. The public functions: `Api`, `Session`

`Api` is a table: for each of the functions of `sdio.c` the check of its arguments (`csdd_sanity.c`: which argument is looked at, and what it accepts), the preconditions it tests before it goes on (`gates`), what it
then uses without looking (`uses`) and which work it delegates to (`does`).  `Session` lets a client call them.  A call whose gates are open (`Call`) is followed by its work (`Run...`), and the handler, cards and answers
may come between the two.  Work that another module details is one step with its outcomes (attach, detach, commands).

| code | actions |
|---|---|
| `CSDD_Init`, `SDIOHost_Initialize`, `SDIOHost_InitializeSlot` | `RunInit`, with every point at which it may give up |
| `CSDD_Start`, `CSDD_Stop`, `SDIOHost_InterruptConfig` | `RunStartStop` |
| `SDIOHost_Configure` | `RunConfigure`: masking and restoring the signals |
| `CSDD_StandBy`, `SDIOHost_ProcessStandby` | `RunStandby`, `Wake` |
| `CSDD_ResetHost`, `CSDD_SimpleInit`, attach, detach, check of the slots | `RunReset`, `RunSimple`, `RunAttach`, `RunDetach`, `RunSlots` |
| interrupt, `CSDD_Isr`, the poll of `CheckBusy` | `Interrupt`, `RunIsr`, `Poll` |
| commands, time-outs, aborts | `RunIssue`, `RunCommand`, `RunWait`, `Finished`, `Timeout`, `RunAbort` |

| run | surroundings | shows |
|---|---|---|
| `session` | a client that keeps the order, signalled and polled, and one that makes any call at any time (of functions that look before they use) | `UsesWhatExists` for both; `SignalsAgree`, `AnswersSeen` for the orderly ones; `StandbyWakes` while the slot is not signalled |
| `session_v_standby` | an orderly client that has called `CSDD_Start` | `StandbyReturns` is violated (section 11) |

**The order** (`InOrder`): initialise while nothing is pending and interrupts are off; everything else after a success of it; mask only what is signalled, restore only what is masked; no command while masked.
**Bounds.**  One slot, one card, one request; nothing is capped.  **Fairness.**  The thread runs, raised interrupts are served, the card answers; the client and the socket owe nothing.  The client may stop, so deadlock is not checked.

**Proved (`SessionProofs`)**, for every set of surroundings: `SignalsAreAsAsked` (`Spec => []SignalsAgree`), `AnswersAreSeen` (`Spec => AnswersSeen`) and `UsesAreSafe` (`Spec => []UsesWhatExists`).
The properties speak of moments between calls; `OrderInv` carries the order across a call: what its start counted on (`CallInv`: nothing pending, not masked, host initialised) still holds when its work is done, although
handler, answers and cards came in between.  With it, `AnswersSeen` is an action property: an answer is among the events (`RequestInv`), and the events are signalled or polled (`SaidInv`).  `UseInv` adds that
an orderly call that uses the card object has no card event waiting.  The proof takes from the table `Api` one fact, `RowsAssumption`, which has no parameters: TLC evaluates it over all rows in the run `session`.

## 10. The PHY: `Phy`, `PhyTables`, `PhyProofs`

`PhyTables` says of each setter of `ccp.c` and of the `SDIO_CPhy` functions of `sdio_phy.c` where every member of its structure goes (shift and width), and how many bits of
it the argument checks let through; the getters read the same fields.  A register is the set of its bits that are 1, so a field write is the code's mask and shift, not an
assignment.  `Phy` interleaves two threads: a setter reads (`Point`, `Read`), merges and writes (`Write`) through the address and data port the reference program provides, or directly in the host's registers.
The older PHY is a handshake of request and acknowledge (`UisWait`, `UisPut`, `UisRaise`, `UisTake`, `UisTimeout`), with the hardware serving it late (`UisServe`, `UisDrop`).

| run | surroundings | shows |
|---|---|---|
| `phy` | each of the operations alone, those that share a register together, two threads that keep apart, the handshake with and without time-outs and with delay lines that keep one bit | `FieldsAsAsked`, `AnswersAreTrue` |

**Bounds.**  Two or three calls (`calls`), enough for any two setters and a getter in every order; values are nothing, all that the check accepts, each member alone at its limit, and one bit too many;
registers start with all bits clear or all set.  `AnswersAreTrue` is three promises: no call that was let through follows a null pointer, a getter returns what fits its field, success of the handshake is the delay line's.

**Supposed.**  No two threads work on one register or on the port at once, and after a handshake that timed out nothing is stated (section 11).

**Proved (`PhyProofs`)**: `SettersKeepApart` (`Spec => []FieldsAsAsked`) and `AnswersHold` (`Spec => []AnswersAreTrue`), for every table of operations that suits and every finite number of delay lines and of calls.
A table suits (`TableAssumption`) if its fields lie within the word, no two setters own a bit of one register, what is written unread keeps all of it, and the pointers a call follows are checked: facts about the masks
of the driver, which TLC evaluates for `PhyTable`.  What is proved is that they are enough, through reads and writes in several steps, a shared port, and a second thread.
- `ComboInv`: the two calls in progress are of registers of their own (`Apart`), the address port names the register accessed next (`Aimed`), what a thread has read is still there (`Fresh`), and every register is what the setters were told (`RegsInv`),
  but for the parts a setter has written and not yet finished, which already have the new value; `Collected` says which members a getter has, and that they are those that were set.  Without the part that is written early `RegsInv` is not
  inductive: a setter of two registers is recorded as told only when both are written.
- The lemmas on fields it rests on: `Merged` (a merge sets its own bits and keeps the rest), `TellOwn` and `TellOthers` (telling a setter is merging its fields), `ReadBack` (a value that fits is read back from its field).
- `UisInv`: as long as nothing timed out, the request that is raised is for the head of the list, and an acknowledge means it was served (`Handshake`); lines are written before they are read back, and a line has
  its value or is still to be written (`Duties`).  After a time-out a late acknowledge is taken for the next request's, which is why both suppose there was none.

TLC checked both invariants in the surroundings of the run before they were proved.

## 11. Where code and documentation disagree, and what the runs leave out

Two disagreements have a run in which TLC finds them (`findings` in `PROJECT.json`).  The model follows the code.

- `dma_v_chain`: in an ADMA3 request with 64-bit addresses the next command's descriptors overwrite the high address word of the
  last data descriptor before them (`sdio_dma.c:420`); the reference test that compares what it wrote and read would fail.
- `session_v_standby`: `CSDD_StandBy` waits for bits of SRS12 (`sdio_host.c:5540`) while the normal interrupts stay signalled (`sdio_host.c:5518`), so the handler clears the
  event the wait is for, and the function does not return for it (`csdd_if.h:564`).

Others were met while modelling; the surroundings of the passing runs leave them out.

*Command queuing.*

- After a command or response error the task is not cleared in the engine (`sdio_cq.c:551`), and the next request in its slot is set FINISHED by the old task's completion
  (`csdd_if.h:425` says the request was finished).  A stale task can also take a request out of its slot between the check and the marking of `StartExecuteTask`.
- A completion whose interrupt is taken after the queue was marked halted is handled by neither path; the handler spins (`sdio_host.c:1470`).  Plain requests while the queue is enabled make it spin too.
- `VerifyRequest` (`sdio_cq.c:1101`) only logs a task number that is out of range or belongs to the direct command: slot 31 can be
  filled in DCMD mode, where `csdd_structs_if.h:464` says it is always NULL, and its request is never answered.
- `SDIOHost_CQ_Disable` (`sdio_cq.c:1432`) looks at the tasks queued in the device, not at doorbells, and can strand a pending request.
- `SDIOHost_CQ_Halt` (`sdio_cq.c:1820`) sets `CQHalted` although a recovery may have restarted the engine since it saw the halt (late interrupts); a wait that times out leaves the halt requested.
- `SDIOHost_CQ_SetIntCoalescingCfg` and the reset of the counters (`sdio_cq.c:1680`) can drop a completion that is counted and not yet signalled.
- `SDIOHost_CQ_CheckInterrupt` (`sdio_cq.c:674`) clears SRS12 errors after it restarted the engine: another task's error in between is lost.
- `SDIOHost_CQ_AllTasksDiscard` (`sdio_cq.c:1880`) clears tasks, not notifications (CQRS11).  With interrupt coalescing a completion
  that is counted but not signalled survives it, and the next request in that slot is reported FINISHED without having been executed.
- The force-programming flag of a task descriptor is `6UL << 1` (`sdio_cq.h:70`).
- `SDIOHost_CQ_AllTasksDiscard` (`sdio_cq.c:1899`) returns with the engine halted when the device refuses CMD48;
  `SDIOHost_CQ_ExecuteDcmdRequest` (`sdio_cq.c:1255`) tests neither `CQEnabled` nor a direct command in flight.

*Ordinary requests.*

- Preparing a sub-command clears SRS12 (`sdio_host.c:4530`); a completion of the main request raised just before is lost.  While it is prepared the sub-command is current, so a completion of the main request can answer it (`sdio_host.c:4511`).
- `STOP_AT_BLOCK_GAP` is never cleared (`sdio_host.c:5491`); the transfer after a synchronous abort stops at its first gap and is answered OK.  The wait for the gap (`sdio_host.c:5493`) does not end if the transfer completes without one.
- A second plain command is accepted while the first is pending (`sdio_host.c:4276`); the first one's completion answers it.
- The CMD12 of an abort or of an Auto CMD12 recovery can stay in `pCurrentRequest` after the function returned (`sdio_host.c:5439`).
- A recovery whose last reset fails leaves SRS14 masked (`sdio_host.c:2822`), and the thread it cut into writes its command to a line that may still be inhibited (`sdio_host.c:4566`); a handler whose recovery keeps failing does not return.
- An error raised while an abort recovers stays raised (`sdio_host.c:5409`): the handler answers the next request FAILED while the thread prepares it, the thread sends it all the same, and its late response answers the request after it with OK.
- A write is sent while the data line is inhibited (`sdio_host.c:4467`).
- An error that comes with the end of the recovery's CMD12, when that was issued beside the failed transfer, answers the transfer instead;
  the loop of `SDIOHost_CheckRequestOnRecovery` (`sdio_host.c:2937`) then has nothing to wait for.
- The flags of a slot are bit-fields of one word that thread and handler write without masking interrupts (`csdd_structs_if.h:462`): one may undo the other's write.  The compiled access is not modelled.

*Cards that come and go.*

- An attach that fails late leaves `CardInserted` set (`sdio_host.c:4967`), though `csdd_structs_if.h:249` says it is set when the card is properly detected and initialized; the check of the slots then does not try again.
- An insertion event that finds the card attached already - a contact that shook - detaches it without asking for another attach (`sdio_host.c:3964`).
- A detach by the handler after the last command of an attach (CMD16) was answered goes unnoticed: `MemoryCard_ProcessInitialize` stores the card object in the wiped device (`sdio_memory_card.c:287`) and the attach
  reports success for a device without type, slot and driver.  It happens in the wild surroundings of `hotplug`; `OkMeansReady` is about every earlier detach.
- An attach by `CSDD_CheckSlots` while an insertion interrupt is pending is detached by the handler in its middle, and leaks the pool entry it then takes.

*Transfers.*

- With DDR the block length the driver remembers goes stale (`sdio_memory_card.c:367`); transfers are then not in the 512-byte blocks of `csdd_if.h:671`.
- The byte address of a sector wraps at 4 GiB and no call looks at the card's capacity (`sdio_memory_card.c:766`).
- `gRequest` is overwritten by a second non-blocking or infinite transfer in flight (`sdio_memory_card.c:636`).  `USE_AUTO_CMD` is 0 in the build, where non-blocking transfers are refused on an attached slot; the runs take it as 1.
- After a CMD16 whose answer was lost card and driver disagree on the block length until the next one (`sdio_memory_card.c:396`).
- An infinite transfer of size 0 wraps its block count (`sdio_memory_card.c:959`); one of a single block sends CMD18 without the multi-block bit.
- Finishing an infinite write waits 300 microseconds and aborts, whether or not the card has taken the last block (`sdio_memory_card.c:1040`).
- The status of the closing CMD12 is ignored (`sdio_memory_card.c:811`).  An MMC erases whole erase groups, whatever the range.  Two arguments are swapped at `sdio_host.c:3634`.

*Modes.*

- An error of CMD6 is overwritten and the status an older command left in `AuxBuff` decides (`sdio_card_general.c:827`); an R1B response is never checked (`sdio_host.c:1940`); two error bits at once read as no error.
- `ChangeDeviceMmcBusMode` overwrites the status of reading EXT_CSD (`sdio_host.c:655`); HS_DDR is accepted from the bit of HS_SDR (`sdio_host.c:482`); HS400_ES is not looked up.
- `ConfigureHighSpeed(0)` leaves the host of an MMC in HS_SDR (`sdio_host.c:5618`), keeps the card's DDR bit, and at 1.8 V does not change SRS15.
- A detach resets neither `UhsiSelected` nor the voltage, access mode, high speed and strength of the host; the next card runs with the first one's.
- `HS_400` is recorded before its tuning succeeds (`sdio_host.c:5753`); the tuning of an MMC succeeds when no delay passes; retuning stays enabled when the mode changes.
- Odd ten-bit dividers are halved, rounded down: the clock is faster than asked and the report (`sdio_host.c:2223`) is wrong.  A frequency below the last programmable divider gives 1024, which overflows the field (`sdio_host.c:2127`): the clock is then the fastest.
- When the PHY does not leave its reset, `SDIOHost_SetSDCLK` returns the error and supplies the clock all the same (`sdio_host.c:2242`).
- An attach after one that the handler's detach cut into may find a version in the wiped device and set the host to 1.8 V without CMD11 (`sdio_host.c:4834`).
- Standby changes the bus width in the record only (`sdio_host.c:5551`); the partition code maps BOOT_2 to 1 (`sdio_card_general.c:1115`); nothing clears the host's CMD23 enable again (`sdio_host.c:6209`).

*Session.*

- Masking or restoring the signals twice loses the enables (`sdio_host.c:5372`).  Standby clears pending card events when it begins.
- `CSDD_MemoryCardGetSecCount` (`sdio.c:117`) follows `CardDriverData` after a failed attach or a detach by the handler; the queue functions look at `cqSupported` only, and use a slot that a failed `CSDD_Init` never set up (`sdio.c:1314`); `CSDD_StandBy` does not check its slot.
- A second `CSDD_Init` does not reset `intEn`, empties the list of class drivers (`sdio_host.c:1640`) and leaks the pool entry; `CSDD_ResetHost` leaves interrupts disabled until `CSDD_Init`.
- The descriptors of the queue and large tables of ordinary DMA share a buffer (`sdio_cq.c:1180`, `sdio_dma.c:401`).

*PHY.*

- Some checks let through more bits than the field has (the value is cut); two threads undo each other through the shared port or HRS09 and HRS10.
- Settings that read back wrong return success (`sdio_phy.c:224`); a handshake that timed out leaves its request raised, and its late acknowledge answers the next access (`sdio_phy.c:120`).

## 12. What is proved, what is only model-checked, what is not modelled

Proved are the theorems of sections 3 to 10: of the 12 runs, `cq_safety`, `cq_liveness`, `slot_safety`, `dma_transfers`, `hotplug`, `card`, `mode`, `session` and `phy` have properties that also hold for every value of the constants.  Nothing is
assumed but the named assumptions on the constants, `KeepsCard` in `CardAndHostAgree`, `RequestsSuit` in `TransfersInOrder` and `TransfersComplete`, `Tame` in `OkIsTrue` and `NoneForgotten` (and `RowsAssumption` on the closed table `Api`, `TableAssumption` on that of the PHY): the assumptions and the first two of these conditions TLC evaluates, and the surroundings `Interrupts`, `Polled`, `AutoCmd12` and `Removals` of `slot_safety` are tame.

Model-checked only are the liveness properties; every invariant and every action property of a run that passes is stated by a theorem.
Liveness under fairness is model-checked only: it is out of the prover's reach.

*Not modelled:* SDIO and combo cards (the build leaves them out), the boot operation, parsing of CSD, SCR and CIS, CCCR access, preset values, the retuning started by the handler, AXI errors, error texts, the reference
programs.  These are reads and writes without a state of the driver of their own, or compiled out; `components` in `PROJECT.json` names them one by one.
