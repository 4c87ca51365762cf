----------------------------------- MODULE MemCard -----------------------------------
(* The memory card driver (sdio_memory_card.c): whole-sector, partial, infinite and      *)
(* non-blocking transfers, erasing, locking.  A call is the list of commands it sends;    *)
(* an error ends it.  The card has its own block length, state and memory; it may not     *)
(* answer, its answer may be lost, a transfer may break off.  How a command is sent,      *)
(* waited for and recovered from is in Slot, how its data is moved in Dma.                *)
EXTENDS Integers, Sequences

CONSTANTS Sectors,   \* sectors of the card
          Sector,    \* bytes of a sector: 512
          Word,      \* partial transfers are of words: 4
          Wrap,      \* one more than the largest command argument: 2^32
          Envs       \* surroundings a behaviour picks one of

\* env.high: DeviceCapacity is HIGH; mmc: deviceType is MMC; cmd23: CMD23Supported;
\* protected: the slot's write protect switch; partial, misalign: what the CSD allows;
\* autoCmd: USE_AUTO_CMD; dma: the mode DMA_SpecifyTransmissionMode takes for several
\* blocks, SDMA, ADMA3 or another; ops: the calls made; faults: what may happen to a command.
EnvFields == {"high", "mmc", "cmd23", "protected", "partial", "misalign", "autoCmd", "dma", "ops", "faults"}
ASSUME MemCardAssumption ==
    /\ Sectors \in Nat \ {0} /\ Sector \in Nat \ {0} /\ Word \in Nat \ {0} /\ Wrap \in Nat /\ Wrap >= Sectors * Sector
    /\ \A e \in Envs : DOMAIN e = EnvFields /\ e.faults \subseteq {"mute", "lost", "cut"}

VARIABLES env,
          blockSize, isSelected, ddr,   \* BlockSize, IsSelected, AccessMode is HS_DDR
          card,                         \* the card: selected, state, block length, preset count, erase range
          mem,                          \* its bytes, named afresh between calls
          op, todo, status, got,        \* the call, the commands left, its result, the data read
          g,                            \* gRequest and the call that uses it
          doubt                         \* the card may have taken a CMD16 whose answer was lost

driver == <<blockSize, isSelected, ddr>>
vars == <<env, driver, card, mem, op, todo, status, got, g, doubt>>

Bytes == 0 .. Sectors * Sector - 1
Erased == -1
Named == [b \in Bytes |-> b]
NoOp == [name |-> "none", addr |-> 0, size |-> 0, dir |-> "read"]

----------------------------------------------------------------------------
(* Commands *)

\* strict: a failure ends the call with it; else its status is not looked at.
Command(cmd, arg) == [cmd |-> cmd, arg |-> arg, len |-> 0, count |-> 0, stop |-> "none", strict |-> TRUE]
Data(cmd, arg, len, count, stop) ==
    [cmd |-> cmd, arg |-> arg, len |-> len, count |-> count, stop |-> stop, strict |-> TRUE]
Select == [Command("select", 0) EXCEPT !.strict = FALSE]
Refuse == Command("refuse", 0)
NoG == [state |-> "free", op |-> NoOp, step |-> Refuse, got |-> <<>>]

\* After the attach: selected, 512 bytes a block.
Init ==
    /\ env \in Envs
    /\ blockSize = Sector /\ isSelected = TRUE /\ ddr = FALSE
    /\ card = [selected |-> TRUE, state |-> "tran", locked |-> FALSE, len |-> Sector, preset |-> 0,
               from |-> 0, to |-> 0, at |-> 0]
    /\ mem = Named
    /\ op = NoOp /\ todo = <<>> /\ status = "idle" /\ got = <<>>
    /\ g = NoG /\ doubt = FALSE

\* MemoryCard_DataXferCalcCommand: a single block has a command of its own.
CalcCommand(count) == IF count = 1 THEN "single" ELSE "multiple"

\* In DDR mode CMD16 is illegal: 512 is taken as set, BlockSize stays as it is.
SetBlockLength(n) ==
    IF ddr THEN (IF n = Sector THEN <<>> ELSE <<Refuse>>) ELSE <<Select, Command("length", n)>>
SetBlockLengthTo512 == IF blockSize # Sector THEN SetBlockLength(Sector) ELSE <<>>
\* BlockSize once that is done.
FullSize == IF ddr THEN blockSize ELSE Sector

\* mutant: a card of high capacity is addressed by bytes as well
ArgumentInBytes(address) == (address * Sector) % Wrap
\* A card of standard capacity is addressed by bytes.
Argument(address) == IF env.high THEN address ELSE (address * Sector) % Wrap
BlockLen == IF env.high THEN Sector ELSE FullSize
BlockCount(size) == (size - 1) \div FullSize + 1

----------------------------------------------------------------------------
(* The calls: what each refuses, and the commands of one it accepts *)

IsWriteToWriteProtectedSd(dir) == ~env.mmc /\ env.protected /\ dir = "write"

RefusesPartial(o) ==
    \/ o.size > Sector \/ o.size % Word # 0 \/ env.high \/ IsWriteToWriteProtectedSd(o.dir)
    \/ ~env.partial
    \/ ~env.misalign /\ o.addr \div Sector # (o.addr + o.size - 1) \div Sector
Partial(o) ==
    (IF o.size # blockSize THEN SetBlockLength(o.size) ELSE <<>>)
    \o <<Select, Data("single", o.addr, o.size, 1, "none")>>

RefusesWhole(o) == o.size % Sector # 0 \/ IsWriteToWriteProtectedSd(o.dir)
StopIt == [Command("stop", 0) EXCEPT !.strict = FALSE]
\* mutant: a stop whatever the mode of the transfer
StopAfterAny(count) == IF count > 1 /\ ~env.cmd23 /\ ~env.autoCmd THEN <<StopIt>> ELSE <<>>
\* Neither the card counts nor the host stops it: a command whose own failure is not looked at.
StopAfter(count) ==
    IF count > 1 /\ ~env.cmd23 /\ ~env.autoCmd /\ env.dma # "adma3" THEN <<StopIt>> ELSE <<>>
\* The host's automatic command: the count where the card takes it, else the stop.  In ADMA3
\* the host selects it by SRS15, where the attach has told it so (SDIOHost_EnableCMD23Ifsupported).
AutoStop == IF env.cmd23 THEN "auto23" ELSE "auto12"
\* MemoryCard_ProcessDataTransfer2: a block count sent before, or a stop after.  The command
\* descriptors of ADMA3 ask for the automatic command whatever the request says, so that
\* the count is sent twice there.
Transfer2(o) ==
    LET count == BlockCount(o.size)
        asked == env.autoCmd /\ (env.cmd23 => env.dma # "sdma")
        stop == IF count > 1 /\ (asked \/ env.dma = "adma3") THEN AutoStop ELSE "none"
    IN SetBlockLengthTo512 \o <<Select>>
       \o (IF count > 1 /\ env.cmd23 /\ ~asked THEN <<Command("preset", count)>> ELSE <<>>)
       \o <<Data(CalcCommand(count), Argument(o.addr \div Sector), BlockLen, count, stop)>>
       \o StopAfter(count)

RefusesNonBlock(o) == o.size % Sector # 0 \/ ~env.autoCmd \/ IsWriteToWriteProtectedSd(o.dir)
\* MemoryCard_ProcessDataTransferNonBlock: the last command is started and left to gRequest.
NonBlock(o) ==
    LET count == BlockCount(o.size)
        ahead == env.cmd23 /\ env.dma = "sdma"
        stop == IF count = 1 \/ ahead THEN "none" ELSE AutoStop
    IN SetBlockLengthTo512 \o <<Select>>
       \o (IF count > 1 /\ ahead THEN <<Command("preset", count)>> ELSE <<>>)
       \o <<Data(CalcCommand(count), Argument(o.addr \div Sector), BlockLen, count, stop)>>

InfStart(o) ==
    SetBlockLengthTo512 \o <<Select>>
    \o <<Data("multiple", Argument(o.addr \div Sector), BlockLen, BlockCount(o.size), "none")>>
InfContinue(o) == <<Data("next", 0, BlockLen, BlockCount(o.size), "none")>>
InfFinish == <<Command("stop", 0)>>

RefusesErase == ~env.mmc /\ env.protected
\* MemoryCard_DataErase: the first block, the last block, the erasing.
Erase(o) == <<Select, Command("from", Argument(o.addr \div Sector)),
              Command("to", Argument(o.addr \div Sector + o.size \div Sector - 1)), Command("erase", 0)>>

\* MemoryCard_Configure: the password's size is looked at when the block length is set.
Configure(o) == <<Select>> \o SetBlockLengthTo512
                \o (IF o.size \in 1 .. 16 THEN <<Data("config", 0, FullSize, 1, "none")>> ELSE <<Refuse>>)

\* A transfer of nothing succeeds before the card is looked at; CSDD_MemCardInfXferStart
\* alone does not look for one.
Nothing(o) == o.size = 0 /\ o.name \in {"partial", "whole", "nonBlock", "erase"}
Refuses(o) ==
    /\ ~Nothing(o)
    /\ CASE o.name = "partial" -> RefusesPartial(o)
         [] o.name \in {"whole", "infStart", "infContinue"} -> RefusesWhole(o)
         [] o.name = "nonBlock" -> RefusesNonBlock(o)
         [] o.name = "erase" -> RefusesErase
         [] OTHER -> FALSE
Commands(o) ==
    CASE o.name = "partial" -> Partial(o)
      [] o.name = "whole" -> Transfer2(o)
      [] o.name = "nonBlock" -> NonBlock(o)
      [] o.name = "infStart" -> InfStart(o)
      [] o.name = "infContinue" -> InfContinue(o)
      [] o.name = "infFinish" -> InfFinish
      [] o.name = "erase" -> Erase(o)
      [] o.name = "config" -> Configure(o)
      [] o.name = "deselect" -> IF isSelected THEN <<Command("deselect", 0)>> ELSE <<>>
      [] o.name = "wait" -> <<>>

\* Sectors or, of a partial transfer, bytes that the card has.
Operations ==
    LET moves(names, sizes) == [name : names, addr : {Sector * s : s \in 0 .. Sectors - 1}, size : sizes,
                                dir : {"read", "write"}]
        own(names, dirs) == [name : names, addr : {0}, size : {1}, dir : dirs]
    IN {o \in moves({"whole", "nonBlock", "erase"}, {0, 1, Sector, 2 * Sector}) \cup moves({"infStart"}, {2 * Sector})
              \cup [name : {"partial"}, addr : Bytes, size : 1 .. Sector, dir : {"read", "write"}] :
          o.addr + o.size <= Sectors * Sector /\ (o.name = "erase" => o.dir = "write" /\ o.size # 1)}
       \cup own({"config"}, {"lock", "unlock"}) \cup own({"deselect", "wait", "infFinish", "ddr"}, {"read"})

Infinite == g.state = "ok" /\ g.op.name = "infStart"
\* An infinite transfer is continued or finished; gRequest is free before it is used; the DDR
\* mode is chosen while the block length is 512, since whole transfers keep it (README).
MayCall(o) ==
    /\ o.name \in env.ops
    /\ o.name \in {"infContinue", "infFinish"} <=> Infinite
    /\ o.name \in {"nonBlock", "infStart"} => g.state = "free"
    /\ o.name = "wait" => g.op.name = "nonBlock"
    /\ o.name \in {"config", "ddr"} => env.mmc
    /\ o.name = "ddr" => ~ddr /\ g.state = "free" /\ blockSize = Sector /\ ~doubt

Continuation == [name |-> "infContinue", addr |-> g.op.addr + g.op.size, size |-> Sector, dir |-> g.op.dir]
Calls == Operations \cup (IF Infinite /\ g.op.addr + g.op.size < Sectors * Sector THEN {Continuation} ELSE {})

Call ==
    /\ status = "idle"
    /\ \E o \in Calls :
        /\ MayCall(o) /\ o.name # "ddr"
        /\ op' = o /\ got' = <<>>
        /\ IF Refuses(o) THEN todo' = <<>> /\ status' = "refused"
           ELSE /\ todo' = IF Nothing(o) THEN <<>> ELSE Commands(o)
                /\ status' = "run"
    /\ UNCHANGED <<env, driver, card, mem, g, doubt>>

\* The access mode of an MMC changes: the card takes 512 bytes a block from then on.
ChangeMode ==
    /\ status = "idle" /\ \E o \in Operations : o.name = "ddr" /\ MayCall(o)
    /\ ddr' = TRUE /\ card' = [card EXCEPT !.len = Sector]
    /\ UNCHANGED <<env, blockSize, isSelected, mem, op, todo, status, got, g, doubt>>

----------------------------------------------------------------------------
(* The card *)

IsTransfer(s) == s.cmd \in {"single", "multiple", "next"}
Start(s) == IF s.cmd = "next" THEN card.at ELSE IF env.high THEN s.arg * Sector ELSE s.arg
Fits(s) == /\ s.len = card.len
           /\ IsTransfer(s) =>
                /\ Start(s) + s.len * s.count <= Sectors * Sector
                /\ ~env.misalign => Start(s) \div Sector = (Start(s) + s.len - 1) \div Sector
                /\ s.cmd = "single" => s.count = 1
                /\ card.preset > 0 => card.preset = s.count
Takes(s) ==
    CASE s.cmd = "select" -> ~card.selected
      [] s.cmd = "deselect" -> TRUE
      [] s.cmd = "stop" -> card.selected /\ card.state = "data"
      [] s.cmd = "length" -> card.selected /\ card.state = "tran" /\ ~ddr
      [] s.cmd = "next" -> card.selected /\ card.state = "data" /\ Fits(s)
      [] s.cmd \in {"single", "multiple"} -> card.selected /\ card.state = "tran" /\ Fits(s) /\ ~card.locked
      [] s.cmd = "config" -> card.selected /\ card.state = "tran" /\ s.len = card.len
      [] s.cmd = "refuse" -> FALSE
      [] OTHER -> card.selected /\ card.state = "tran" /\ ~card.locked

\* The card is stopped by a count, preset or in the host's own command, or goes on.
Ends(s) == s.cmd = "single" \/ s.stop # "none" \/ card.preset = s.count
CardAfter(s, o) ==
    CASE s.cmd = "select" -> [card EXCEPT !.selected = TRUE]
      [] s.cmd = "deselect" -> [card EXCEPT !.selected = FALSE]
      [] s.cmd = "stop" -> [card EXCEPT !.state = "tran", !.at = 0]
      [] s.cmd = "length" -> IF env.high THEN card ELSE [card EXCEPT !.len = s.arg]
      [] s.cmd = "preset" -> [card EXCEPT !.preset = s.arg]
      [] s.cmd = "from" -> [card EXCEPT !.from = s.arg]
      [] s.cmd = "to" -> [card EXCEPT !.to = s.arg]
      [] s.cmd = "erase" -> [card EXCEPT !.from = 0, !.to = 0]
      [] IsTransfer(s) -> [card EXCEPT !.state = IF Ends(s) THEN "tran" ELSE "data", !.preset = 0,
                                       !.at = IF Ends(s) THEN 0 ELSE Start(s) + s.len * s.count]
      [] OTHER -> [card EXCEPT !.locked = (o.dir = "lock")]

\* The bytes a transfer moves, in blocks: all of them, or those before it breaks off.
Moved(s, blocks) == Start(s) .. Start(s) + s.len * blocks - 1
Scale == IF env.high THEN Sector ELSE 1
MemAfter(s, o, blocks) ==
    IF IsTransfer(s) /\ o.dir = "write"
      THEN [b \in Bytes |-> IF b \in Moved(s, blocks) THEN 100 + b - Start(s) ELSE mem[b]]
    ELSE IF s.cmd = "erase"
      THEN [b \in Bytes |-> IF b \div Sector \in (card.from * Scale) \div Sector .. (card.to * Scale) \div Sector
                            THEN Erased ELSE mem[b]]
    ELSE mem
Read(s, o) ==
    IF IsTransfer(s) /\ o.dir = "read" THEN [i \in 1 .. s.len * s.count |-> mem[Start(s) + i - 1]] ELSE <<>>

\* What may become of a command the card would take: it is carried out and answered;
\* neither; carried out, the answer lost; a transfer broken off after some blocks.
Outcomes(s) == IF ~Takes(s) THEN {"mute"} ELSE {"ok"} \cup (env.faults \ (IF IsTransfer(s) THEN {} ELSE {"cut"}))
\* The host's recovery stops the card; a mute one stays as it is.
Recovered(c) == {[c EXCEPT !.state = "tran", !.preset = 0, !.from = 0, !.to = 0, !.at = 0]} \cup (IF "mute" \in env.faults THEN {c} ELSE {})

Carry(s, o, outcome) ==
    \/ outcome = "ok" /\ card' = CardAfter(s, o) /\ mem' = MemAfter(s, o, s.count)
    \/ outcome = "mute" /\ card' \in Recovered(card) /\ UNCHANGED mem
    \/ outcome = "lost" /\ card' \in Recovered(CardAfter(s, o)) /\ mem' = MemAfter(s, o, s.count)
    \/ /\ outcome = "cut" /\ card' \in Recovered(CardAfter(s, o))
       /\ \E blocks \in 0 .. s.count : mem' = MemAfter(s, o, blocks)

----------------------------------------------------------------------------
(* The commands of a call *)

Proceed == todo' = Tail(todo) /\ status' = "run"
\* mutant: the status of a command is not looked at
FailUnnoticed(s) == Proceed
Fail(s) == IF s.strict THEN todo' = <<>> /\ status' = "error" ELSE Proceed
AtCommand == status = "run" /\ todo # <<>>
\* SDIOHost_SelectCard of the card that is selected already.
NoNeed == Head(todo) = Select /\ isSelected

SkipSelect ==
    /\ AtCommand /\ NoNeed /\ Proceed
    /\ UNCHANGED <<env, driver, card, mem, op, got, g, doubt>>

\* SDIOHost_ExecCardCommand_Precond: refused while another request is pending.
SlotIsBusy ==
    /\ AtCommand /\ ~NoNeed /\ g.state = "pending" /\ Fail(Head(todo))
    /\ UNCHANGED <<env, driver, card, mem, op, got, g, doubt>>

\* mutant: the block length is taken as set before the answer is looked at
DriverAfterSent(s, ok) ==
    /\ blockSize' = IF s.cmd = "length" THEN s.arg ELSE blockSize
    /\ isSelected' = IF ok /\ s.cmd \in {"select", "deselect"} THEN s.cmd = "select" ELSE isSelected
    /\ doubt' = IF s.cmd = "length" THEN ~ok /\ (doubt \/ card'.len # card.len) ELSE doubt
    /\ UNCHANGED ddr
\* BlockSize and IsSelected follow the answer.
DriverAfter(s, ok) ==
    /\ blockSize' = IF ok /\ s.cmd = "length" THEN s.arg ELSE blockSize
    /\ isSelected' = IF ok /\ s.cmd \in {"select", "deselect"} THEN s.cmd = "select" ELSE isSelected
    /\ doubt' = IF s.cmd = "length" THEN ~ok /\ (doubt \/ card'.len # card.len) ELSE doubt
    /\ UNCHANGED ddr
\* gRequest keeps an infinite transfer for the calls that continue it.
GAfter(s, ok) ==
    CASE op.name \in {"infStart", "infContinue"} /\ IsTransfer(s) ->
           IF ok THEN [NoG EXCEPT !.state = "ok", !.op = [op EXCEPT !.name = "infStart"]] ELSE NoG
      [] op.name = "infFinish" -> NoG
      [] OTHER -> g

LeftToG(s) == op.name = "nonBlock" /\ IsTransfer(s)
Exec ==
    /\ AtCommand /\ ~NoNeed /\ g.state # "pending" /\ ~LeftToG(Head(todo))
    /\ LET s == Head(todo)
       IN \E outcome \in Outcomes(s) :
            /\ Carry(s, op, outcome)
            /\ IF outcome = "ok" THEN Proceed /\ got' = got \o Read(s, op) ELSE Fail(s) /\ UNCHANGED got
            /\ DriverAfter(s, outcome = "ok")
            /\ g' = GAfter(s, outcome = "ok")
    /\ UNCHANGED <<env, op>>

\* MemoryCard_ProcessDataTransferNonBlock: the request is started, the call returns.
StartRequest ==
    /\ AtCommand /\ g.state # "pending" /\ LeftToG(Head(todo))
    /\ g' = [NoG EXCEPT !.state = "pending", !.op = op, !.step = Head(todo)]
    /\ todo' = <<>> /\ status' = "started"
    /\ UNCHANGED <<env, driver, card, mem, op, got, doubt>>
\* It ends at any time later.
RequestEnds ==
    /\ g.state = "pending"
    /\ \E outcome \in Outcomes(g.step) :
        /\ Carry(g.step, g.op, outcome)
        /\ g' = IF outcome = "ok" THEN [NoG EXCEPT !.state = "ok", !.op = g.op, !.got = Read(g.step, g.op)]
                ELSE [NoG EXCEPT !.state = "error", !.op = g.op]
    /\ UNCHANGED <<env, driver, op, todo, status, got, doubt>>

Return ==
    \/ /\ status = "run" /\ todo = <<>> /\ (op.name = "wait" => g.state # "pending")
       /\ status' = IF op.name = "wait" THEN g.state ELSE "ok"
       /\ UNCHANGED <<env, driver, card, mem, op, todo, got, g, doubt>>
    \/ /\ status \in {"ok", "refused", "error", "started"} /\ status' = "idle"
       /\ op' = NoOp /\ got' = <<>>
       /\ g' = IF op.name = "wait" THEN NoG ELSE g
       /\ mem' = IF g.state = "pending" THEN mem ELSE Named
       /\ UNCHANGED <<env, driver, card, todo, doubt>>

Next == Call \/ ChangeMode \/ SkipSelect \/ SlotIsBusy \/ Exec \/ StartRequest \/ RequestEnds \/ Return
Spec == Init /\ [][Next]_vars

----------------------------------------------------------------------------
(* Properties *)

Covers(o) == o.addr .. o.addr + o.size - 1
Writes(o) == o.dir = "write" /\ o.name # "none"
\* The card's memory changes only in the range the caller of the function in progress
\* named, or of the one still going on in the background, if that function writes or
\* erases, and never behind the slot's write protection (the addresses and counts
\* sdio_memory_card.c computes, for either capacity and every block length).
TouchesOnlyAsked ==
    [][\A b \in Bytes : mem'[b] \notin {mem[b], b} =>
          /\ env.mmc \/ ~env.protected
          /\ \/ status = "run" /\ Writes(op) /\ b \in Covers(op)
             \/ g.state = "pending" /\ Writes(g.op) /\ b \in Covers(g.op)]_vars

Done(o, data) ==
    CASE o.name = "erase" -> \A b \in Covers(o) : mem[b] = Erased
      [] o.name # "erase" /\ o.dir = "write" -> \A b \in Covers(o) : mem[b] = 100 + b - o.addr
      [] o.dir = "read" -> data = [i \in 1 .. o.size |-> mem[o.addr + i - 1]]
\* A call that returns success has moved or erased all it was asked to, in order, even
\* when the answers of earlier commands were lost; so has a request in the background
\* that ends with success.
OkMeansDone ==
    [][/\ status = "run" /\ status' = "ok" =>
            CASE op.name \in {"partial", "whole", "infStart", "infContinue", "erase"} -> Done(op, got)
              [] op.name = "config" -> card.locked = (op.dir = "lock")
              [] OTHER -> TRUE
       /\ g.state = "pending" /\ g'.state = "ok" => Done(g.op, g.got)']_vars

\* Between calls the driver and the card agree on the block length, unless the answer of
\* a CMD16 was lost: BlockSize follows it through partial transfers, refusals and errors.
AgreeOnLength == status = "idle" /\ ~doubt => env.high \/ blockSize = card.len

\* Without faults every transfer of several blocks is ended, by a count sent ahead, by the
\* host or by a stop: but for an infinite one the card waits for commands when a call has
\* returned.  It is not ended twice: a stop is sent only to a card that moves data.
StreamsAreStopped ==
    env.faults = {} =>
        /\ status = "idle" /\ g.state = "free" => card.state = "tran" /\ card.preset = 0
        /\ AtCommand /\ Head(todo).cmd = "stop" => card.state = "data"
====
