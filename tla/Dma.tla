----------------------------------- MODULE Dma -----------------------------------
(***************************************************************************)
(* The data path of a request: core_driver/src/sdio_dma.c, and the parts   *)
(* of sdio_host.c that move a block by the CPU, program the block count    *)
(* and serve the DMA interrupts.                                           *)
(*                                                                         *)
(* The thread prepares a request (pc) and starts it; the DMA engine        *)
(* (external) follows the registers and descriptors it was given and       *)
(* records in moved which memory it touched; the handler (isr) preempts    *)
(* the thread.  Addresses and sizes count 32-bit words.  What goes wrong   *)
(* on the bus, aborts and sub-commands belong to Slot.                     *)
(***************************************************************************)
EXTENDS Integers, Sequences

CONSTANTS
    Limit16, Limit26,   \* ADMA2_16LM_MAX_BUFSIZE, ADMA2_26LM_MAX_BUFSIZE
    SubBuffersCount,    \* SDIO_CFG_SDIO_SUB_BUFFERS_COUNT
    DescrWords,         \* MAX_DESCR_BUFF_SIZE
    CommandDescrWords,  \* MAX_COMMAND_DESCR_BUFF_SIZE
    MaxCommands,        \* CSDD_MAX_NUMBER_COMMAND
    SdmaMinBlock,       \* the block length beyond which AUTO takes SDMA
    Boundary,           \* DMABufferBoundary
    Wrap,               \* 2^32: one address word, one byte count
    CountWrap,          \* 2^16: the block count of SRS01
    Envs                \* the surroundings the driver may find itself in, one of which is env

Modes == {"none", "sdma", "adma2", "adma3"}
SubBuffer == [address : Nat, size : Nat]
\* CSDD_CommandField: dataPresent, blockCount, blockLen, pDataBuffer, sub-buffers
Command == [data : BOOLEAN, count : Nat, len : Nat, buffer : Nat, subs : Seq(SubBuffer)]
CommandLen == 8         \* words of a command descriptor
TableWords == DescrWords + CommandDescrWords

ASSUME SizesAssumption ==
    /\ {Limit16, Limit26, Boundary, Wrap, CountWrap, MaxCommands} \subseteq Nat \ {0}
    /\ {SubBuffersCount, DescrWords, CommandDescrWords, SdmaMinBlock} \subseteq Nat
    /\ CommandLen * MaxCommands <= TableWords
    /\ \A n \in {Limit16, Limit26, Boundary} : n % 2 = 0
ASSUME EnvironmentAssumption ==
    Envs \subseteq [dma64 : BOOLEAN, long : BOOLEAN, caps : SUBSET Modes,
                    modes : SUBSET (Modes \cup {"auto"}), requests : SUBSET Seq(Command)]
\* SRS17 has the bit of ADMA3, and exists from version 6 on
ASSUME VersionAssumption == \A e \in Envs : "adma3" \in e.caps => e.long

VARIABLES
    env,            \* host version, addressing, what the client does; never changes
    dmaMode,        \* DmaMode
    sel,            \* dmaModeSelected
    req,            \* the commands of the current request
    stat,           \* its status
    pc, k,          \* where the thread is, and at which command
    subs,           \* SubBuffers, or those of the client
    split,          \* Size and BufAddress of the loop of DMA_PrepareSubBuffers
    used, next,     \* ADMADescSize (in words) and the next free word of the descriptor buffer
    first,          \* CDDescriptorsAddr
    ids,            \* the integrated descriptors
    table,          \* the words of the descriptor buffer
    top,            \* history: the end of the furthest write to it
    addrReg,        \* SRS00 or SRS22/23: the DMA system address
    bufPos, remaining,  \* pBufferPos, dataRemaining
    irq, isr,       \* SRS12 and where the handler is
    eng,            \* the engine
    moved           \* history: for each command, the words of memory it has moved

prepVars == <<subs, split, used, next, first, ids, table, top>>
cpuVars == <<bufPos, remaining>>
hwVars == <<addrReg, irq, isr, eng, moved>>
vars == <<env, dmaMode, sel, req, stat, pc, k, prepVars, cpuVars, hwVars>>

\* max data length, 2^16 or 2^26 bytes
Limit == IF env.long THEN Limit26 ELSE Limit16
\* words of a transfer descriptor; 64-bit addresses come with HV4
DescLen == IF env.dma64 THEN 4 ELSE 2
MaxBuf == IF env.long THEN DescrWords + CommandDescrWords ELSE DescrWords
Least(a, b) == IF a < b THEN a ELSE b
Cmd == req[k]
\* blockCount * blockLen, a 32-bit product
DataSize(c) == (c.count * c.len) % Wrap
\* the words from a on, n of them
Run(a, n) == [i \in 1 .. n |-> a + i - 1]

Word(kind, val, end) == [kind |-> kind, val |-> val, end |-> end]
Words == [kind : {"void", "tran", "low", "high", "zero", "command"}, val : Nat, end : BOOLEAN]
EngineOff == [st |-> "off", id |-> 0, at |-> 0, left |-> 0]
EngineStates == {"off", "sdma", "boundary", "pio", "block", "command", "data"}

Aligned(a) == env.dma64 => a % 2 = 0

\* DMA_SpecifyTransmissionMode (infinite transfers are left out)
AutoMode(c) ==
    CASE ~Aligned(c.buffer) -> "none"
      [] Aligned(c.buffer) /\ c.count > 1 /\ env.long /\ "adma3" \in env.caps -> "adma3"
      [] Aligned(c.buffer) /\ c.count > 1 /\ ~(env.long /\ "adma3" \in env.caps)
            /\ "adma2" \in env.caps -> "adma2"
      [] OTHER -> IF Aligned(c.buffer) /\ "sdma" \in env.caps /\ c.len > SdmaMinBlock
                  THEN "sdma" ELSE "none"
SpecifyMode(c) == IF dmaMode = "auto" THEN AutoMode(c) ELSE dmaMode

\* SetDMAAddr: refuses NULL, unaligned addresses and those it has no register for
AddrAccepted(a) == a # 0 /\ Aligned(a) /\ (env.dma64 \/ a < Wrap)

Init ==
    /\ env \in Envs
    /\ dmaMode = "auto" /\ sel = "none"
    /\ req = <<>> /\ stat = "none" /\ pc = "idle" /\ k = 1
    /\ subs = <<>> /\ split = [left |-> 0, pos |-> 0]
    /\ used = 0 /\ next = 0 /\ first = 0 /\ ids = <<>>
    /\ table = [w \in 0 .. TableWords - 1 |-> Word("void", 0, FALSE)] /\ top = 0
    /\ addrReg = 0 /\ bufPos = 0 /\ remaining = 0
    /\ irq = {} /\ isr = "idle" /\ eng = EngineOff /\ moved = <<>>

(***************************************************************************)
(* The thread.                                                             *)
(***************************************************************************)

ThreadAt(p) == pc = p /\ isr = "idle"

\* SDIOHost_SetDmaMode, for a mode the host supports.  The client changes the
\* mode between requests: nothing in the function asks for that.
SetDmaMode(m) ==
    /\ ThreadAt("idle")
    /\ m \in {"none", "auto"} \/ m \in env.caps
    /\ dmaMode' = m
    /\ UNCHANGED <<env, sel, req, stat, pc, k, prepVars, cpuVars, hwVars>>

\* SDIOHost_ExecCardCommand_ProcessRequestDataPresent and the head of
\* DMA_PrepareTransfer.  Only ADMA3 takes more than one command.
Exec(r) ==
    LET mode == SpecifyMode(r[1])
    IN  /\ ThreadAt("idle")
        /\ r # <<>> /\ r[1].data /\ (Len(r) > 1 => mode = "adma3")
        /\ req' = r /\ stat' = "pending" /\ sel' = mode /\ k' = 1
        /\ bufPos' = r[1].buffer /\ remaining' = DataSize(r[1])
        /\ used' = IF mode = "adma3" THEN CommandLen * Len(r) ELSE 0
        /\ next' = 0 /\ ids' = <<>>
        /\ moved' = [i \in 1 .. Len(r) |-> <<>>]
        /\ \/ mode = "none" /\ pc' = "issue"
           \/ mode = "sdma" /\ pc' = "address"
           \/ mode = "adma2" /\ pc' = "buffers"
           \/ mode = "adma3" /\ pc' = "command"
        /\ UNCHANGED <<env, dmaMode, subs, split, first, table, top, addrReg, irq, isr, eng>>

\* a request that cannot be prepared is answered with the error
Refuse ==
    /\ stat' = "error" /\ pc' = "idle"
    /\ UNCHANGED <<env, dmaMode, sel, req, k, prepVars, cpuVars, hwVars>>

\* DMA_PrepareTransferSDMA
PrepareSdma ==
    /\ ThreadAt("address") /\ sel = "sdma"
    /\ Cmd.subs = <<>> /\ AddrAccepted(Cmd.buffer)
    /\ addrReg' = Cmd.buffer /\ pc' = "issue"
    /\ UNCHANGED <<env, dmaMode, sel, req, stat, k, prepVars, cpuVars, irq, isr, eng, moved>>
RefuseSdma ==
    /\ ThreadAt("address") /\ sel = "sdma"
    /\ Cmd.subs # <<>> \/ ~AddrAccepted(Cmd.buffer)
    /\ Refuse

\* the words of the table from a on become those of f, n of them
WriteTable(a, n, f(_)) ==
    /\ table' = [w \in DOMAIN table |-> IF w \in a .. a + n - 1 THEN f(w - a) ELSE table[w]]
    /\ top' = IF a + n > top THEN a + n ELSE top

\* ADMA3FillCommandDescriptors: the last of the four ends a command without data
CommandWord(i) == Word("command", 0, i = 6 /\ ~Cmd.data)

\* the integrated descriptor of a command that is complete
Integrate(start) ==
    /\ ids' = Append(ids, start)
    /\ IF k < Len(req) THEN k' = k + 1 /\ pc' = "command"
                       ELSE k' = k /\ pc' = "address"

CommandIsEmpty == Cmd.data /\ (Cmd.count = 0 \/ Cmd.len = 0)

\* one round of the loop of DMA_PrepareTransferADMA3 up to ADMACreateCommandDescriptors
CreateCommandDescriptors ==
    /\ ThreadAt("command") /\ Len(req) <= MaxCommands /\ ~CommandIsEmpty
    /\ WriteTable(next, CommandLen, CommandWord)
    /\ next' = next + CommandLen /\ first' = next
    /\ IF Cmd.data THEN pc' = "buffers" /\ UNCHANGED <<ids, k>> ELSE Integrate(next)
    /\ UNCHANGED <<env, dmaMode, sel, req, stat, subs, split, used, cpuVars, hwVars>>
RefuseCommands ==
    /\ ThreadAt("command") /\ (Len(req) > MaxCommands \/ CommandIsEmpty)
    /\ Refuse

\* DMA_PrepareTransferADMA takes the client's sub-buffers, or makes some
Buffers(s) ==
    /\ subs' = s /\ pc' = "fill"
    /\ UNCHANGED <<env, dmaMode, sel, req, stat, k, split, used, next, first, ids, table, top,
                   cpuVars, hwVars>>
UserBuffers == ThreadAt("buffers") /\ Cmd.subs # <<>> /\ Buffers(Cmd.subs)

\* DMA_PrepareSubBuffers: one piece, or pieces of at most Limit
WholeBuffer ==
    /\ ThreadAt("buffers") /\ Cmd.subs = <<>> /\ DataSize(Cmd) < Limit
    /\ Buffers(<<[address |-> Cmd.buffer, size |-> DataSize(Cmd)]>>)
SplitBegin ==
    /\ ThreadAt("buffers") /\ Cmd.subs = <<>> /\ DataSize(Cmd) >= Limit
    /\ split' = [left |-> DataSize(Cmd), pos |-> Cmd.buffer]
    /\ subs' = <<>> /\ pc' = "split"
    /\ UNCHANGED <<env, dmaMode, sel, req, stat, k, used, next, first, ids, table, top,
                   cpuVars, hwVars>>
PieceSize(left) == Least(left, Limit)
\* mutant: the buffer address does not move on
StayPos(pos, n) == pos
NextPos(pos, n) == pos + n
SplitPiece ==
    LET n == PieceSize(split.left)
    IN  /\ ThreadAt("split") /\ split.left > 0 /\ Len(subs) < SubBuffersCount
        /\ subs' = Append(subs, [address |-> split.pos, size |-> n])
        /\ split' = [left |-> split.left - n, pos |-> NextPos(split.pos, n)]
        /\ UNCHANGED <<env, dmaMode, sel, req, stat, pc, k, used, next, first, ids, table, top,
                       cpuVars, hwVars>>
SplitEnd ==
    /\ ThreadAt("split") /\ split.left = 0
    /\ Buffers(subs)
SplitRefuse ==
    /\ ThreadAt("split") /\ split.left > 0 /\ Len(subs) >= SubBuffersCount
    /\ Refuse

\* ADMA2_DESCRIPTOR_LENGTH: the limit itself is encoded as 0
LengthField(n) == n % Limit
\* mutant: the END flag one descriptor too early
IsLastEarly(i, n) == i >= n - 1
IsLast(i, n) == i = n
\* mutant: the high half of the address is left out
NoHighHalf(a) == 0
HighHalf(a) == a \div Wrap
\* ADMA2FillDescriptors, word w of the list
DescWord(w) ==
    LET i == w \div DescLen + 1
    IN  CASE w % DescLen = 0 -> Word("tran", LengthField(subs[i].size), IsLast(i, Len(subs)))
          [] w % DescLen = 1 -> Word("low", subs[i].address % Wrap, FALSE)
          [] w % DescLen = 2 -> Word("high", HighHalf(subs[i].address), FALSE)
          [] w % DescLen = 3 -> Word("zero", 0, FALSE)
\* mutant: the size of the list is not compared with the buffer
AlwaysFits(n) == TRUE
Fits(n) == n <= MaxBuf
\* *next: two words behind the start of the last descriptor
NextOffset(n) == n * DescLen - DescLen + 2

\* ADMACreateDescriptors
CreateDescriptors ==
    LET n == Len(subs)
    IN  /\ ThreadAt("fill") /\ Fits(used + n * DescLen)
        /\ used' = used + n * DescLen
        /\ WriteTable(next, n * DescLen, DescWord)
        /\ IF sel = "adma3"
           THEN next' = next + NextOffset(n) /\ Integrate(first)
           ELSE pc' = "address" /\ UNCHANGED <<next, ids, k>>
        /\ UNCHANGED <<env, dmaMode, sel, req, stat, subs, split, first, cpuVars, hwVars>>
RefuseDescriptors ==
    /\ ThreadAt("fill") /\ ~Fits(used + Len(subs) * DescLen)
    /\ Refuse

\* SetDMAAddr of a descriptor table; for ADMA3 writing the address starts the engine
AdmaAddress ==
    /\ ThreadAt("address") /\ sel = "adma2"
    /\ pc' = "issue"
    /\ UNCHANGED <<env, dmaMode, sel, req, stat, k, prepVars, cpuVars, hwVars>>
StartAdma3 ==
    /\ ThreadAt("address") /\ sel = "adma3"
    /\ eng' = [EngineOff EXCEPT !.st = "command", !.id = 1, !.at = ids[1]]
    /\ pc' = "wait"
    /\ UNCHANGED <<env, dmaMode, sel, req, stat, k, prepVars, cpuVars, addrReg, irq, isr, moved>>

\* SDIOHost_ExecCardCommand_Set_Block_Count: SRS01 holds 16 bits, SRS00 of a host from version 6 on all of it
BlockCount(c) == IF env.long THEN c.count ELSE c.count % CountWrap
\* the command is written; the engine goes by the registers
Issue ==
    /\ ThreadAt("issue")
    /\ eng' = CASE sel = "none" -> [EngineOff EXCEPT !.st = "pio", !.left = BlockCount(Cmd)]
                [] sel = "sdma" -> [EngineOff EXCEPT !.st = "sdma",
                                                     !.left = BlockCount(Cmd) * Cmd.len]
                [] sel = "adma2" -> [EngineOff EXCEPT !.st = "data"]
    /\ pc' = "wait"
    /\ UNCHANGED <<env, dmaMode, sel, req, stat, k, prepVars, cpuVars, addrReg, irq, isr, moved>>

\* SDIOHost_CheckBusy reads the status until the request is answered
Poll == ThreadAt("wait") /\ stat = "pending" /\ UNCHANGED vars
Return ==
    /\ ThreadAt("wait") /\ stat # "pending"
    /\ pc' = "idle"
    /\ UNCHANGED <<env, dmaMode, sel, req, stat, k, prepVars, cpuVars, hwVars>>

(***************************************************************************)
(* The engine (external).                                                  *)
(***************************************************************************)

Move(c, a, n) == moved' = [moved EXCEPT ![c] = @ \o Run(a, n)]
KeepCpu == UNCHANGED <<env, dmaMode, sel, req, stat, pc, k, prepVars, cpuVars, isr>>

\* SDMA stops at every boundary and waits for its address register to be written
EngSdma ==
    LET n == Least(eng.left, Boundary - (addrReg % Boundary))
    IN  /\ eng.st = "sdma"
        /\ Move(1, addrReg, n) /\ addrReg' = addrReg + n
        /\ eng' = IF eng.left = n THEN EngineOff
                  ELSE [eng EXCEPT !.st = "boundary", !.left = @ - n]
        /\ irq' = irq \cup {IF eng.left = n THEN "complete" ELSE "dma"}
        /\ KeepCpu

\* without DMA a block waits in the buffer until the CPU has moved it
EngBlock ==
    /\ eng.st = "pio"
    /\ eng' = IF eng.left = 0 THEN EngineOff ELSE [eng EXCEPT !.st = "block", !.left = @ - 1]
    /\ irq' = irq \cup {IF eng.left = 0 THEN "complete" ELSE "buffer"}
    /\ UNCHANGED <<addrReg, moved>> /\ KeepCpu

\* after a descriptor with END, ADMA3 goes on with the next integrated descriptor
EngNext ==
    IF eng.id < Len(ids)
    THEN /\ eng' = [eng EXCEPT !.st = "command", !.id = @ + 1, !.at = ids[eng.id + 1]]
         /\ UNCHANGED irq
    ELSE eng' = EngineOff /\ irq' = irq \cup {"complete"}

EngCommand ==
    /\ eng.st = "command"
    /\ IF table[eng.at + 6].end THEN EngNext
       ELSE eng' = [eng EXCEPT !.st = "data", !.at = @ + CommandLen] /\ UNCHANGED irq
    /\ UNCHANGED <<addrReg, moved>> /\ KeepCpu

\* what the engine takes for the high half of an address: VAL and ACT of a
\* command descriptor are some number, too
HighPart(w) == IF w.kind = "command" THEN 1 ELSE w.val
\* anything but a transfer descriptor stops it
EngData ==
    LET w == table[eng.at]
        high == IF env.dma64 THEN HighPart(table[eng.at + 2]) ELSE 0
    IN  /\ eng.st = "data" /\ w.kind = "tran"
        /\ Move(IF sel = "adma3" THEN eng.id ELSE 1,
                table[eng.at + 1].val + high * Wrap, IF w.val = 0 THEN Limit ELSE w.val)
        /\ IF w.end THEN EngNext
           ELSE eng' = [eng EXCEPT !.at = @ + DescLen] /\ UNCHANGED irq
        /\ UNCHANGED addrReg /\ KeepCpu

Engine == EngSdma \/ EngBlock \/ EngCommand \/ EngData

(***************************************************************************)
(* The handler.                                                            *)
(***************************************************************************)

\* SRS12 is read and cleared, then its bit is served: the engine raises the next
\* one only after it has been resumed
IsrEnter ==
    /\ isr = "idle" /\ irq # {}
    /\ irq' = {}
    /\ isr' = IF "buffer" \in irq THEN "buffer"
              ELSE IF "complete" \in irq THEN "complete" ELSE "dma"
    /\ UNCHANGED <<env, dmaMode, sel, req, stat, pc, k, prepVars, cpuVars, addrReg, eng, moved>>

\* CalcDataToCopy and ProcessTransferDataBufferRead or -Write
DataToCopy(c) == IF remaining < c.len THEN remaining ELSE c.len
IsrBuffer ==
    LET n == DataToCopy(req[1])
    IN  /\ isr = "buffer"
        /\ Move(1, bufPos, n)
        /\ bufPos' = bufPos + n /\ remaining' = remaining - n
        /\ eng' = [eng EXCEPT !.st = "pio"]
        /\ isr' = "idle"
        /\ UNCHANGED <<env, dmaMode, sel, req, stat, pc, k, prepVars, addrReg, irq>>

\* SDIOHost_InterruptTransferComplete; DMA_HandleInterrupt drops the descriptors
IsrComplete ==
    /\ isr = "complete"
    /\ sel' = SpecifyMode(req[1])
    /\ stat' = "ok" /\ isr' = "idle"
    /\ UNCHANGED <<env, dmaMode, req, pc, k, prepVars, cpuVars, addrReg, irq, eng, moved>>

\* DMA_HandleInterrupt works out the mode again, and goes on for SDMA only
IsrDma ==
    /\ isr = "dma"
    /\ sel' = SpecifyMode(req[1])
    /\ isr' = IF sel' = "sdma" /\ bufPos # 0 THEN "first" ELSE "idle"
    /\ UNCHANGED <<env, dmaMode, req, stat, pc, k, prepVars, cpuVars, addrReg, irq, eng, moved>>

\* it clears the interrupt and then writes the address back, which resumes the engine
\* mutant: the interrupt is cleared only after the transfer was resumed
ResumeFirst == [first |-> "resume", second |-> "clear"]
HandlerOrder == [first |-> "clear", second |-> "resume"]
Do(part) ==
    \/ /\ part = "clear"
       /\ irq' = irq \ {"dma"}
       /\ UNCHANGED <<bufPos, eng>>
    \/ /\ part = "resume"
       /\ bufPos' = addrReg
       /\ eng' = IF AddrAccepted(addrReg) THEN [eng EXCEPT !.st = "sdma"] ELSE eng
       /\ UNCHANGED irq
IsrResume ==
    /\ isr \in {"first", "second"}
    /\ Do(HandlerOrder[isr])
    /\ isr' = IF isr = "first" THEN "second" ELSE "idle"
    /\ UNCHANGED <<env, dmaMode, sel, req, stat, pc, k, prepVars, remaining, addrReg, moved>>

Handler == IsrEnter \/ IsrBuffer \/ IsrComplete \/ IsrDma \/ IsrResume

(***************************************************************************)
(* The specification.  The handler runs to completion, the engine at will. *)
(***************************************************************************)

Thread ==
    \/ PrepareSdma \/ RefuseSdma
    \/ CreateCommandDescriptors \/ RefuseCommands
    \/ UserBuffers \/ WholeBuffer \/ SplitBegin \/ SplitPiece \/ SplitEnd \/ SplitRefuse
    \/ CreateDescriptors \/ RefuseDescriptors
    \/ AdmaAddress \/ StartAdma3 \/ Issue \/ Return
Client == (\E m \in env.modes : SetDmaMode(m)) \/ (\E r \in env.requests : Exec(r))

Next == Client \/ Thread \/ Poll \/ Engine \/ Handler

Spec == /\ Init /\ [][Next]_vars
        /\ WF_vars(Thread) /\ WF_vars(Engine) /\ WF_vars(Handler)

(***************************************************************************)
(* Properties.                                                             *)
(***************************************************************************)

\* The pieces p cut the memory from a to b, in order, without a gap or an
\* overlap, and none is longer than a descriptor can say.
Covers(p, a, b) ==
    /\ \A i \in 1 .. Len(p) : p[i].size <= Limit
    /\ \A i \in 1 .. Len(p) - 1 : p[i + 1].address = p[i].address + p[i].size
    /\ IF p = <<>> THEN a = b
       ELSE p[1].address = a /\ p[Len(p)].address + p[Len(p)].size = b

\* DMA_PrepareSubBuffers cuts the client's buffer exactly: at every round of the
\* loop the pieces cover what is done, and at its end all of the data.
SplitCovers ==
    /\ pc = "split" =>
        /\ Covers(subs, Cmd.buffer, split.pos)
        /\ split.pos + split.left = Cmd.buffer + DataSize(Cmd)
    /\ pc = "fill" /\ Cmd.subs = <<>> =>
        Covers(subs, Cmd.buffer, Cmd.buffer + DataSize(Cmd))

\* the memory a command is to move, word by word
Memory(c) ==
    LET upTo[i \in 0 .. Len(c.subs)] ==
            IF i = 0 THEN <<>> ELSE upTo[i - 1] \o Run(c.subs[i].address, c.subs[i].size)
    IN  CASE ~c.data -> <<>>
          [] c.data /\ c.subs = <<>> -> Run(c.buffer, c.count * c.len)
          [] OTHER -> upTo[Len(c.subs)]

\* Whatever has been moved for a command is the memory the client named, from its
\* beginning and in its order, while the transfer runs and when it fails.
MovesInOrder ==
    \A c \in DOMAIN moved :
        /\ Len(moved[c]) <= Len(Memory(req[c]))
        /\ moved[c] = SubSeq(Memory(req[c]), 1, Len(moved[c]))

\* A request is answered OK only when all the data of all its commands was moved.
OkMovedAll == stat = "ok" => \A c \in DOMAIN req : moved[c] = Memory(req[c])

\* What the theorems about these two suppose of the surroundings, and the run has (README says
\* what becomes of the others): sizes and block counts that fit their registers, buffers within
\* the reach of a descriptor, sub-buffers of a length it can say and only where a DMA mode is
\* taken for them, no empty transfer, no chain of commands with 64-bit addresses.
DataSuit(e, c) ==
    /\ c.count * c.len < Wrap
    /\ e.long \/ c.count < CountWrap
    /\ ~e.dma64 /\ {"adma2", "adma3"} \cap e.caps # {} =>
          /\ c.subs = <<>> => c.buffer + c.count * c.len <= Wrap
          /\ \A i \in 1 .. Len(c.subs) : c.subs[i].address < Wrap
    /\ \A i \in 1 .. Len(c.subs) : c.subs[i].size \in 1 .. (IF e.long THEN Limit26 ELSE Limit16)
FirstSuits(e, c) ==
    /\ c.count * c.len > 0
    /\ c.subs # <<>> => /\ "none" \notin e.modes
                        /\ c.count > 1 /\ (e.dma64 => c.buffer % 2 = 0)
                        /\ "adma2" \in e.caps \/ (e.long /\ "adma3" \in e.caps)
Suits(e) ==
    \A r \in e.requests :
        /\ \A i \in 1 .. Len(r) : r[i].data => DataSuit(e, r[i])
        /\ r # <<>> /\ r[1].data => FirstSuits(e, r[1])
        /\ e.dma64 => Len(r) <= 1
RequestsSuit == \A e \in Envs : Suits(e)

\* The descriptors are written inside the slot's descriptor buffer.
TableFits == top <= MaxBuf

\* Every request that is started is answered.
TransferEnds == stat = "pending" ~> stat # "pending"
====
