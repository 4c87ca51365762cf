--------------------------------- MODULE DmaProofs ---------------------------------
(***************************************************************************)
(* Proofs about Dma for every limit, buffer size, host version and set of  *)
(* requests: the split of a buffer is exact (SplitCovers), and descriptors *)
(* stay inside the slot's descriptor buffer (TableFits); and for every set *)
(* of requests that suits the host, what is moved is what the client named *)
(* (MovesInOrder, OkMovedAll).                                             *)
(***************************************************************************)
EXTENDS Dma, SequenceTheorems, WellFoundedInduction, TLAPS

Preparing == {"address", "command", "buffers", "split", "fill", "issue"}
HasBuffers == {"buffers", "split", "fill"}

\* the types these proofs need
PrepTypes ==
    /\ env \in Envs /\ req \in Seq(Command)
    /\ pc \in Preparing \cup {"idle", "wait"}
    /\ pc \in Preparing => k \in 1 .. Len(req)
    /\ subs \in Seq(SubBuffer) /\ split \in [left : Nat, pos : Nat]
    /\ used \in Nat /\ next \in Nat /\ top \in Nat

\* while the loop runs there is data to split; the list it leaves is not empty
SplitInv ==
    /\ SplitCovers
    /\ pc = "split" => Cmd.subs = <<>> /\ DataSize(Cmd) >= Limit
    /\ pc = "fill" => Len(subs) >= 1

\* ADMADescSize runs ahead of the words that are written by the command
\* descriptors that are still to come
TableInv ==
    /\ TableFits
    /\ dmaMode = "adma3" => env.long
    /\ pc = "command" =>
        /\ sel = "adma3" /\ env.long
        /\ Len(req) <= MaxCommands => used <= MaxBuf
        /\ next + CommandLen * (Len(req) - k + 1) <= used
    /\ pc \in HasBuffers =>
        /\ sel = "adma3" => env.long /\ Len(req) <= MaxCommands
        /\ sel \in {"adma2", "adma3"}
        /\ used <= MaxBuf
        /\ next + CommandLen * (Len(req) - k) <= used

\* An interrupt is raised by an engine that then waits for the handler, and
\* nothing moves while the thread prepares a request.
Quiet == eng = EngineOff /\ irq = {} /\ isr = "idle"
Waiting(state) == eng.st = state
Handshake ==
    /\ irq # {} => isr = "idle"
    /\ irq \subseteq {"buffer", "complete", "dma"}
    /\ isr \in {"idle", "buffer", "complete", "dma", "first", "second"}
    /\ "complete" \in irq \/ isr = "complete" => eng = EngineOff
    /\ "dma" \in irq \/ isr \in {"dma", "first", "second"} => Waiting("boundary")
    /\ "buffer" \in irq \/ isr = "buffer" => Waiting("block")
    /\ Quiet \/ (pc = "wait" /\ stat = "pending")
    /\ pc \in Preparing => stat = "pending"

IInv == PrepTypes /\ SplitInv /\ TableInv /\ Handshake

LEMMA InitIInv == Init => IInv
<1> SUFFICES ASSUME Init PROVE IInv
  OBVIOUS
<1>1. PrepTypes
  BY DEF Init, PrepTypes, Preparing
<1>2. SplitInv
  BY DEF Init, SplitInv, SplitCovers
<1>3. TableInv
  <2>1. 0 <= MaxBuf
    BY SizesAssumption DEF MaxBuf
  <2> QED
    BY <2>1 DEF Init, TableInv, TableFits, HasBuffers
<1>4. Handshake
  BY DEF Init, Handshake, Preparing, Quiet, EngineOff
<1> QED
  BY <1>1, <1>2, <1>3, <1>4 DEF IInv

-----------------------------------------------------------------------------------
(***************************************************************************)
(* The handler and the engine move only while a started request is         *)
(* pending, so nothing happens behind the back of the thread that prepares *)
(* one.                                                                    *)
(***************************************************************************)

LEMMA ClientHandshake == ASSUME IInv, Client PROVE Handshake'
<1>0. Handshake
  BY DEF IInv
<1>1. ASSUME NEW m \in env.modes, SetDmaMode(m) PROVE Handshake'
  BY <1>0, <1>1 DEF SetDmaMode, ThreadAt, hwVars, Preparing, Handshake, Quiet, Waiting, EngineOff
<1>2. ASSUME NEW r \in env.requests, Exec(r) PROVE Handshake'
  BY <1>0, <1>2 DEF Exec, ThreadAt, Handshake, Quiet, Waiting, EngineOff
<1> QED
  BY <1>1, <1>2 DEF Client

LEMMA ThreadHandshake == ASSUME IInv, Thread PROVE Handshake'
<1>0. Handshake
  BY DEF IInv
<1>1. ASSUME Refuse, pc \in Preparing PROVE Handshake'
  BY <1>0, <1>1 DEF Refuse, hwVars, Preparing, Handshake, Quiet, Waiting, EngineOff
<1>2. CASE PrepareSdma
  BY <1>0, <1>2 DEF PrepareSdma, ThreadAt, Preparing, Handshake, Quiet, Waiting, EngineOff
<1>3. CASE CreateCommandDescriptors
  BY <1>0, <1>3 DEF CreateCommandDescriptors, ThreadAt, Preparing, hwVars, Handshake, Quiet, Waiting, EngineOff
<1>4. ASSUME NEW s, Buffers(s), pc \in Preparing PROVE Handshake'
  BY <1>0, <1>4 DEF Buffers, hwVars, Preparing, Handshake, Quiet, Waiting, EngineOff
<1>5. CASE SplitBegin
  BY <1>0, <1>5 DEF SplitBegin, ThreadAt, Preparing, hwVars, Handshake, Quiet, Waiting, EngineOff
<1>6. CASE SplitPiece
  BY <1>0, <1>6 DEF SplitPiece, ThreadAt, Preparing, hwVars, Handshake, Quiet, Waiting, EngineOff
<1>7. CASE CreateDescriptors
  BY <1>0, <1>7 DEF CreateDescriptors, ThreadAt, Preparing, hwVars, Handshake, Quiet, Waiting, EngineOff
<1>8. CASE AdmaAddress
  BY <1>0, <1>8 DEF AdmaAddress, ThreadAt, Preparing, hwVars, Handshake, Quiet, Waiting, EngineOff
<1>9. ASSUME pc \in Preparing, irq' = irq, isr' = isr, pc' = "wait", stat' = stat
      PROVE  Handshake'
  BY <1>0, <1>9 DEF Preparing, Handshake, Quiet, Waiting, EngineOff
<1>10. CASE Return
  BY <1>0, <1>10 DEF Return, ThreadAt, Preparing, hwVars, Handshake, Quiet, Waiting, EngineOff
<1> QED
  BY <1>1, <1>2, <1>3, <1>4, <1>5, <1>6, <1>7, <1>8, <1>9, <1>10
  DEF Thread, RefuseSdma, RefuseCommands, RefuseDescriptors, SplitRefuse, UserBuffers,
      WholeBuffer, SplitEnd, StartAdma3, Issue, ThreadAt, Preparing

LEMMA EngineHandshake == ASSUME IInv, Engine PROVE Handshake'
<1>0. Handshake
  BY DEF IInv
<1>1. ~Quiet => pc = "wait" /\ stat = "pending" /\ pc \notin Preparing
  BY <1>0 DEF Handshake, Preparing
<1>2. ASSUME eng.st \in {"sdma", "pio", "command", "data"}
      PROVE  irq = {} /\ isr = "idle" /\ ~Quiet
  BY <1>0, <1>2 DEF Handshake, Quiet, Waiting, EngineOff
<1>3. ASSUME eng.st \in {"sdma", "pio", "command", "data"}, KeepCpu,
             \/ eng' = EngineOff /\ irq' = {"complete"}
             \/ eng'.st = "boundary" /\ irq' = {"dma"}
             \/ eng'.st = "block" /\ irq' = {"buffer"}
             \/ irq' = {}
      PROVE  Handshake'
  BY <1>1, <1>2, <1>3 DEF KeepCpu, Handshake, Quiet, Waiting, Preparing
<1>4. CASE EngSdma
  <2>1. eng.st = "sdma"
    BY <1>4 DEF EngSdma
  <2>2. CASE eng.left = Least(eng.left, Boundary - (addrReg % Boundary))
    BY <1>2, <1>3, <1>4, <2>1, <2>2 DEF EngSdma
  <2>3. CASE eng.left # Least(eng.left, Boundary - (addrReg % Boundary))
    BY <1>2, <1>3, <1>4, <2>1, <2>3 DEF EngSdma
  <2> QED
    BY <2>2, <2>3
<1>5. CASE EngBlock
  <2>1. eng.st = "pio"
    BY <1>5 DEF EngBlock
  <2>2. CASE eng.left = 0
    BY <1>2, <1>3, <1>5, <2>1, <2>2 DEF EngBlock
  <2>3. CASE eng.left # 0
    BY <1>2, <1>3, <1>5, <2>1, <2>3 DEF EngBlock
  <2> QED
    BY <2>2, <2>3
<1>6. ASSUME eng.st \in {"command", "data"}, EngNext
      PROVE  (eng' = EngineOff /\ irq' = {"complete"}) \/ irq' = {}
  BY <1>2, <1>6 DEF EngNext
<1>7. CASE EngCommand
  BY <1>2, <1>3, <1>6, <1>7 DEF EngCommand
<1>8. CASE EngData
  BY <1>2, <1>3, <1>6, <1>8 DEF EngData
<1> QED
  BY <1>4, <1>5, <1>7, <1>8 DEF Engine

LEMMA HandlerHandshake == ASSUME IInv, Handler PROVE Handshake'
<1>0. Handshake
  BY DEF IInv
<1>1. CASE IsrEnter
  BY <1>0, <1>1 DEF IsrEnter, Handshake, Quiet, Waiting, EngineOff, Preparing
<1>2. CASE IsrBuffer
  BY <1>0, <1>2 DEF IsrBuffer, Handshake, Quiet, Waiting, EngineOff, Preparing
<1>3. CASE IsrComplete
  BY <1>0, <1>3 DEF IsrComplete, Handshake, Quiet, Waiting, EngineOff, Preparing
<1>4. CASE IsrDma
  BY <1>0, <1>4 DEF IsrDma, Handshake, Quiet, Waiting, EngineOff, Preparing
<1>5. CASE IsrResume
  <2>1. CASE isr = "first"
    <3>1. irq' = irq /\ eng' = eng
      BY <1>0, <1>5, <2>1 DEF IsrResume, HandlerOrder, Do, Handshake
    <3> QED
      BY <1>0, <1>5, <2>1, <3>1 DEF IsrResume, Handshake, Quiet, Waiting, Preparing
  <2>2. CASE isr = "second"
    <3>1. irq' = irq
      BY <1>5, <2>2 DEF IsrResume, HandlerOrder, Do
    <3> QED
      BY <1>0, <1>5, <2>2, <3>1 DEF IsrResume, Handshake, Quiet, Waiting, Preparing
  <2> QED
    BY <1>5, <2>1, <2>2 DEF IsrResume
<1> QED
  BY <1>1, <1>2, <1>3, <1>4, <1>5 DEF Handler

-----------------------------------------------------------------------------------
(***************************************************************************)
(* Sizes, and what a mode tells about the host.                            *)
(***************************************************************************)

LEMMA Sizes == ASSUME PrepTypes
               PROVE  Limit \in Nat \ {0} /\ DescLen \in {2, 4} /\ MaxBuf \in Nat
BY SizesAssumption DEF Limit, DescLen, MaxBuf

LEMMA DataSizeNat == ASSUME NEW c \in Command PROVE DataSize(c) \in Nat
<1>1. c.count \in Nat /\ c.len \in Nat
  BY DEF Command
<1>2. c.count * c.len \in Int
  BY <1>1
<1>3. \A x \in Int : x % Wrap \in Nat
  BY SizesAssumption
<1> QED
  BY <1>2, <1>3 DEF DataSize

\* the command the thread is at is one of the request
LEMMA CurrentCommand == ASSUME PrepTypes, pc \in Preparing
                        PROVE  Cmd \in Command /\ DataSize(Cmd) \in Nat /\ Cmd.buffer \in Nat
<1>1. Cmd \in Command
  BY DEF PrepTypes, Cmd
<1>2. Cmd.buffer \in Nat
  BY <1>1 DEF Command
<1> QED
  BY <1>1, <1>2, DataSizeNat

\* a host that is told to use ADMA3 has the large descriptor buffer
LEMMA ChainsAreLong == ASSUME TableInv, NEW c, SpecifyMode(c) = "adma3" PROVE env.long
<1>1. CASE dmaMode = "auto"
  BY <1>1, Zenon DEF SpecifyMode, AutoMode
<1>2. CASE dmaMode # "auto"
  BY <1>2, Zenon DEF SpecifyMode, TableInv
<1> QED
  BY <1>1, <1>2

-----------------------------------------------------------------------------------
(***************************************************************************)
(* Steps that leave the preparation of a request alone, or leave it.       *)
(***************************************************************************)

prepared == <<env, req, subs, split, used, next, top, dmaMode>>

LEMMA Untouched ==
    ASSUME IInv, UNCHANGED <<prepared, pc, k, sel>>
    PROVE  PrepTypes' /\ SplitInv' /\ TableInv'
<1>1. PrepTypes'
  BY DEF IInv, PrepTypes, prepared
<1>2. SplitInv'
  BY DEF IInv, SplitInv, SplitCovers, Covers, Limit, DataSize, Cmd, prepared
<1>3. TableInv'
  BY DEF IInv, TableInv, TableFits, MaxBuf, prepared
<1> QED
  BY <1>1, <1>2, <1>3

LEMMA Left ==
    ASSUME IInv, UNCHANGED <<env, req, subs, split, used, next, top>>,
           UNCHANGED dmaMode \/ (dmaMode' = "adma3" => env.long),
           pc' \in {"idle", "wait", "address", "issue"},
           pc' \in Preparing => pc \in Preparing /\ k' = k
    PROVE  PrepTypes' /\ SplitInv' /\ TableInv'
<1>1. PrepTypes'
  BY DEF IInv, PrepTypes, Preparing
<1>2. SplitInv'
  BY DEF IInv, SplitInv, SplitCovers
<1>3. TableInv'
  BY DEF IInv, TableInv, TableFits, MaxBuf, HasBuffers
<1> QED
  BY <1>1, <1>2, <1>3

LEMMA EngineLeaves ==
    ASSUME IInv, Engine PROVE PrepTypes' /\ SplitInv' /\ TableInv'
<1>1. UNCHANGED <<prepared, pc, k, sel>>
  BY DEF Engine, EngSdma, EngBlock, EngCommand, EngData, KeepCpu, prepVars, prepared
<1> QED
  BY <1>1, Untouched

LEMMA HandlerLeaves ==
    ASSUME IInv, Handler PROVE PrepTypes' /\ SplitInv' /\ TableInv'
<1>1. ASSUME IsrEnter \/ IsrBuffer \/ IsrResume PROVE UNCHANGED <<prepared, pc, k, sel>>
  BY <1>1 DEF IsrEnter, IsrBuffer, IsrResume, prepVars, prepared
<1>2. ASSUME IsrComplete \/ IsrDma
      PROVE  UNCHANGED <<prepared, pc, k>> /\ pc = "wait"
  BY <1>2 DEF IsrComplete, IsrDma, prepVars, prepared, IInv, Handshake, Quiet
<1> QED
  BY <1>1, <1>2, Untouched, Left DEF Handler, prepared, Preparing

LEMMA RefuseLeaves ==
    ASSUME IInv, Refuse PROVE PrepTypes' /\ SplitInv' /\ TableInv'
BY Left DEF Refuse, prepVars, Preparing

\* steps of the thread that do not touch the pieces and the descriptors
LEMMA StartLeaves ==
    ASSUME IInv, PrepareSdma \/ AdmaAddress \/ StartAdma3 \/ Issue \/ Return
    PROVE  PrepTypes' /\ SplitInv' /\ TableInv'
<1>1. CASE PrepareSdma
  BY <1>1, Left DEF PrepareSdma, ThreadAt, prepVars, Preparing
<1>2. CASE AdmaAddress
  BY <1>2, Left DEF AdmaAddress, ThreadAt, prepVars, Preparing
<1>3. CASE StartAdma3
  BY <1>3, Left DEF StartAdma3, prepVars, Preparing
<1>4. CASE Issue
  BY <1>4, Left DEF Issue, prepVars, Preparing
<1>5. CASE Return
  BY <1>5, Left DEF Return, prepVars, Preparing
<1> QED
  BY <1>1, <1>2, <1>3, <1>4, <1>5

-----------------------------------------------------------------------------------
(***************************************************************************)
(* The start of a request, and the steps that split its data.              *)
(***************************************************************************)

\* a step that reaches neither the split nor the list of pieces
LEMMA NoPieces == ASSUME pc' \notin {"split", "fill"} PROVE SplitInv'
BY DEF SplitInv, SplitCovers

LEMMA ClientPrepares ==
    ASSUME IInv, Client PROVE PrepTypes' /\ SplitInv' /\ TableInv'
<1>1. ASSUME NEW m \in env.modes, SetDmaMode(m)
      PROVE  PrepTypes' /\ SplitInv' /\ TableInv'
  <2>1. dmaMode' = "adma3" => env.long
    BY <1>1, VersionAssumption DEF SetDmaMode, IInv, PrepTypes
  <2> QED
    BY <1>1, <2>1, Left DEF SetDmaMode, ThreadAt, prepVars, Preparing
<1>2. ASSUME NEW r \in env.requests, Exec(r)
      PROVE  PrepTypes' /\ SplitInv' /\ TableInv'
  <2> DEFINE mode == SpecifyMode(r[1])
  <2>1. r \in Seq(Command) /\ Len(r) \in Nat \ {0} /\ req' = r /\ k' = 1
    BY <1>2, EnvironmentAssumption DEF Exec, IInv, PrepTypes
  <2>2. /\ \/ pc' = "issue" /\ mode = "none"
           \/ pc' = "address" /\ mode = "sdma"
           \/ pc' = "buffers" /\ mode = "adma2"
           \/ pc' = "command" /\ mode = "adma3"
        /\ sel' = mode /\ next' = 0 /\ (Len(r) > 1 => mode = "adma3")
        /\ used' = IF mode = "adma3" THEN CommandLen * Len(r) ELSE 0
        /\ UNCHANGED <<env, dmaMode, subs, split, top>>
    BY <1>2 DEF Exec
  <2>3. PrepTypes'
    BY <2>1, <2>2 DEF IInv, PrepTypes, Preparing, CommandLen
  <2>4. SplitInv'
    BY <2>2, NoPieces
  <2>5. mode = "adma3" => env.long
    BY ChainsAreLong DEF IInv
  <2>6. TableInv'
    <3>1. TableFits' /\ (dmaMode' = "adma3" => env'.long)
      BY <2>2 DEF IInv, TableInv, TableFits, MaxBuf
    <3>2. CASE mode = "adma3"
      <4>1. pc' = "command" /\ used' = CommandLen * Len(r)
        BY <2>2, <3>2
      <4>2. Len(r) <= MaxCommands => CommandLen * Len(r) <= TableWords
        BY <2>1, SizesAssumption DEF CommandLen, TableWords
      <4>3. Len(r) <= MaxCommands => used' <= MaxBuf'
        BY <2>2, <2>5, <3>2, <4>1, <4>2 DEF MaxBuf, TableWords
      <4> QED
        BY <2>1, <2>2, <2>5, <3>1, <3>2, <4>1, <4>3 DEF TableInv, HasBuffers, CommandLen
    <3>3. CASE mode # "adma3"
      <4>1. Len(r) = 1 /\ used' = 0
        <5>1. ~(Len(r) > 1) /\ used' = 0
          BY <2>2, <3>3
        <5>2. \A n \in Nat \ {0} : ~(n > 1) => n = 1
          OBVIOUS
        <5> QED
          BY <2>1, <5>1, <5>2
      <4>2. pc' # "command" /\ (pc' \in HasBuffers => sel' = "adma2")
        BY <2>2, <3>3 DEF HasBuffers
      <4>3. 0 <= MaxBuf'
        BY <2>2, SizesAssumption DEF MaxBuf
      <4> QED
        BY <2>1, <2>2, <3>1, <4>1, <4>2, <4>3 DEF TableInv, CommandLen
    <3> QED
      BY <3>2, <3>3
  <2> QED
    BY <2>3, <2>4, <2>6
<1> QED
  BY <1>1, <1>2 DEF Client

\* the steps of the split leave the descriptors alone
LEMMA TableKept ==
    ASSUME IInv, pc \in HasBuffers, pc' \in HasBuffers,
           UNCHANGED <<env, dmaMode, sel, req, k, used, next, top>>
    PROVE  TableInv'
BY DEF IInv, TableInv, TableFits, MaxBuf, HasBuffers

LEMMA ListsPrepare ==
    ASSUME IInv, UserBuffers \/ WholeBuffer \/ SplitEnd
    PROVE  PrepTypes' /\ SplitInv' /\ TableInv'
<1>0. PrepTypes /\ SplitInv /\ TableInv
  BY DEF IInv
<1>1. /\ pc \in HasBuffers /\ pc' = "fill" /\ pc \in Preparing
      /\ UNCHANGED <<env, dmaMode, sel, req, k, split, used, next, top>>
  BY DEF UserBuffers, WholeBuffer, SplitEnd, Buffers, ThreadAt, HasBuffers, Preparing
<1>2. Cmd \in Command /\ DataSize(Cmd) \in Nat /\ Cmd.buffer \in Nat
  BY <1>0, <1>1, CurrentCommand
<1>3. TableInv'
  BY <1>1, TableKept DEF HasBuffers
<1>4. CASE UserBuffers
  <2>1. subs' = Cmd.subs /\ Cmd.subs # <<>> /\ Cmd.subs \in Seq(SubBuffer)
    BY <1>2, <1>4 DEF UserBuffers, Buffers, Command
  <2>2. PrepTypes'
    BY <1>0, <1>1, <2>1 DEF PrepTypes, Preparing
  <2>3. Cmd' = Cmd
    BY <1>1 DEF Cmd
  <2>4. SplitInv'
    BY <1>1, <2>1, <2>3 DEF SplitInv, SplitCovers
  <2> QED
    BY <1>3, <2>2, <2>4
<1>5. CASE WholeBuffer
  <2> DEFINE piece == [address |-> Cmd.buffer, size |-> DataSize(Cmd)]
  <2>1. subs' = <<piece>> /\ DataSize(Cmd) < Limit /\ piece \in SubBuffer
    BY <1>2, <1>5 DEF WholeBuffer, Buffers, SubBuffer
  <2>2. PrepTypes'
    BY <1>0, <1>1, <2>1 DEF PrepTypes, Preparing
  <2>3. Cmd' = Cmd /\ Limit' = Limit /\ DataSize(Cmd)' = DataSize(Cmd)
    BY <1>1 DEF Cmd, Limit, DataSize
  <2>4. Covers(<<piece>>, Cmd.buffer, Cmd.buffer + DataSize(Cmd))
    BY <1>0, <1>2, <2>1, Sizes DEF Covers
  <2>5. SplitInv'
    BY <1>1, <2>1, <2>3, <2>4 DEF SplitInv, SplitCovers, Covers
  <2> QED
    BY <1>3, <2>2, <2>5
<1>6. CASE SplitEnd
  <2>1. subs' = subs /\ pc = "split" /\ split.left = 0
    BY <1>6 DEF SplitEnd, ThreadAt, Buffers
  <2>2. PrepTypes'
    BY <1>0, <1>1, <2>1 DEF PrepTypes, Preparing
  <2>3. Cmd' = Cmd /\ Limit' = Limit /\ DataSize(Cmd)' = DataSize(Cmd)
    BY <1>1 DEF Cmd, Limit, DataSize
  <2>4. split.pos \in Nat /\ split.left \in Nat
    BY <1>0 DEF PrepTypes
  <2>5. Covers(subs, Cmd.buffer, split.pos) /\ split.pos = Cmd.buffer + DataSize(Cmd)
    BY <1>0, <1>2, <2>1, <2>4 DEF SplitInv, SplitCovers
  <2>6. DataSize(Cmd) > 0
    BY <1>0, <1>2, <2>1, Sizes DEF SplitInv
  <2>7. subs # <<>>
    BY <1>2, <2>4, <2>5, <2>6 DEF Covers
  <2>8. Len(subs) >= 1
    BY <1>0, <2>7 DEF PrepTypes
  <2>9. SplitInv'
    BY <1>1, <2>1, <2>3, <2>5, <2>8 DEF SplitInv, SplitCovers, Covers
  <2> QED
    BY <1>3, <2>2, <2>9
<1> QED
  BY <1>4, <1>5, <1>6

\* what one round of the loop adds to the pieces
LEMMA CoversMore ==
    ASSUME NEW p \in Seq(SubBuffer), NEW a \in Nat, NEW b \in Nat, NEW n \in Nat,
           Limit \in Nat, n <= Limit, Covers(p, a, b)
    PROVE  Covers(Append(p, [address |-> b, size |-> n]), a, b + n)
<1> DEFINE piece == [address |-> b, size |-> n]
           q == Append(p, piece)
<1>1. piece \in SubBuffer /\ q \in Seq(SubBuffer) /\ Len(q) = Len(p) + 1
      /\ q[Len(p) + 1] = piece /\ \A i \in 1 .. Len(p) : q[i] = p[i]
  BY DEF SubBuffer
<1>2. \A i \in 1 .. Len(q) : q[i].size <= Limit
  <2> SUFFICES ASSUME NEW i \in 1 .. Len(q) PROVE q[i].size <= Limit
    OBVIOUS
  <2>1. CASE i = Len(p) + 1
    BY <1>1, <2>1
  <2>2. CASE i \in 1 .. Len(p)
    BY <1>1, <2>2 DEF Covers
  <2> QED
    BY <1>1, <2>1, <2>2
<1>3. \A i \in 1 .. Len(q) - 1 : q[i + 1].address = q[i].address + q[i].size
  <2> SUFFICES ASSUME NEW i \in 1 .. Len(p)
               PROVE  q[i + 1].address = q[i].address + q[i].size
    BY <1>1
  <2>1. CASE i = Len(p)
    <3>1. p # <<>>
      BY <2>1
    <3>2. p[Len(p)].address + p[Len(p)].size = b
      BY <3>1 DEF Covers
    <3> QED
      BY <1>1, <2>1, <3>2
  <2>2. CASE i \in 1 .. Len(p) - 1
    <3>1. i \in 1 .. Len(p) /\ i + 1 \in 1 .. Len(p)
      BY <2>2
    <3>2. p[i + 1].address = p[i].address + p[i].size
      BY <2>2 DEF Covers
    <3> QED
      BY <1>1, <3>1, <3>2
  <2> QED
    BY <2>1, <2>2
<1>4. q # <<>> /\ q[1].address = a /\ q[Len(q)].address + q[Len(q)].size = b + n
  <2>1. q # <<>> /\ q[Len(q)].address + q[Len(q)].size = b + n
    BY <1>1
  <2>2. CASE p = <<>>
    BY <1>1, <2>2 DEF Covers
  <2>3. CASE p # <<>>
    <3>1. 1 \in 1 .. Len(p)
      BY <2>3
    <3> QED
      BY <1>1, <2>3, <3>1 DEF Covers
  <2> QED
    BY <2>1, <2>2, <2>3
<1> QED
  BY <1>2, <1>3, <1>4 DEF Covers

LEMMA SplitPrepares ==
    ASSUME IInv, SplitBegin \/ SplitPiece
    PROVE  PrepTypes' /\ SplitInv' /\ TableInv'
<1>0. PrepTypes /\ SplitInv /\ TableInv
  BY DEF IInv
<1>1. /\ pc \in HasBuffers /\ pc' = "split" /\ pc \in Preparing
      /\ UNCHANGED <<env, dmaMode, sel, req, k, used, next, top>>
  BY DEF SplitBegin, SplitPiece, ThreadAt, HasBuffers, Preparing
<1>2. Cmd \in Command /\ DataSize(Cmd) \in Nat /\ Cmd.buffer \in Nat
  BY <1>0, <1>1, CurrentCommand
<1>3. TableInv'
  BY <1>1, TableKept DEF HasBuffers
<1>4. Cmd' = Cmd /\ Limit' = Limit /\ DataSize(Cmd)' = DataSize(Cmd)
  BY <1>1 DEF Cmd, Limit, DataSize
<1>5. CASE SplitBegin
  <2>1. /\ split' = [left |-> DataSize(Cmd), pos |-> Cmd.buffer] /\ subs' = <<>>
        /\ Cmd.subs = <<>> /\ DataSize(Cmd) >= Limit
    BY <1>5 DEF SplitBegin
  <2>2. PrepTypes'
    BY <1>0, <1>1, <1>2, <2>1 DEF PrepTypes, Preparing
  <2>3. split'.pos = Cmd.buffer /\ split'.left = DataSize(Cmd)
    BY <2>1
  <2>4. Covers(<<>>, Cmd.buffer, Cmd.buffer)
    BY DEF Covers
  <2>5. SplitInv'
    BY <1>1, <1>2, <1>4, <2>1, <2>3, <2>4 DEF SplitInv, SplitCovers, Covers
  <2> QED
    BY <1>3, <2>2, <2>5
<1>6. CASE SplitPiece
  <2> DEFINE n == PieceSize(split.left)
  <2>1. /\ subs' = Append(subs, [address |-> split.pos, size |-> n])
        /\ split' = [left |-> split.left - n, pos |-> split.pos + n]
        /\ pc = "split"
    BY <1>6 DEF SplitPiece, ThreadAt, NextPos
  <2>2. split.left \in Nat /\ split.pos \in Nat /\ subs \in Seq(SubBuffer)
    BY <1>0 DEF PrepTypes
  <2>3. n \in Nat /\ n <= split.left /\ n <= Limit /\ Limit \in Nat
    BY <1>0, <2>2, Sizes DEF PieceSize, Least
  <2> HIDE DEF n
  <2>4. split'.pos = split.pos + n /\ split'.left = split.left - n
    BY <2>1
  <2>5. PrepTypes'
    <3>1. [address |-> split.pos, size |-> n] \in SubBuffer
      BY <2>2, <2>3 DEF SubBuffer
    <3>2. subs' \in Seq(SubBuffer) /\ split' \in [left : Nat, pos : Nat]
      BY <2>1, <2>2, <2>3, <3>1
    <3> QED
      BY <1>0, <1>1, <3>2 DEF PrepTypes, Preparing
  <2>6. Covers(subs, Cmd.buffer, split.pos)
        /\ split.pos + split.left = Cmd.buffer + DataSize(Cmd)
        /\ Cmd.subs = <<>> /\ DataSize(Cmd) >= Limit
    BY <1>0, <2>1 DEF SplitInv, SplitCovers
  <2>7. Covers(subs', Cmd.buffer, split'.pos)
    BY <1>2, <2>1, <2>2, <2>3, <2>4, <2>6, CoversMore
  <2>8. split'.pos + split'.left = Cmd.buffer + DataSize(Cmd)
    BY <2>2, <2>3, <2>4, <2>6
  <2>9. SplitInv'
    BY <1>1, <1>4, <2>6, <2>7, <2>8 DEF SplitInv, SplitCovers, Covers
  <2> QED
    BY <1>3, <2>5, <2>9
<1> QED
  BY <1>5, <1>6

-----------------------------------------------------------------------------------
(***************************************************************************)
(* The steps that write descriptors.                                       *)
(***************************************************************************)

LEMMA CommandsPrepare ==
    ASSUME IInv, CreateCommandDescriptors
    PROVE  PrepTypes' /\ SplitInv' /\ TableInv'
<1>0. PrepTypes /\ SplitInv /\ TableInv
  BY DEF IInv
<1>1. /\ pc = "command" /\ Len(req) <= MaxCommands /\ next' = next + CommandLen
      /\ top' = IF next + CommandLen > top THEN next + CommandLen ELSE top
      /\ UNCHANGED <<env, dmaMode, sel, req, subs, split, used>>
      /\ \/ pc' = "buffers" /\ k' = k
         \/ k < Len(req) /\ pc' = "command" /\ k' = k + 1
         \/ pc' = "address" /\ k' = k
  BY DEF CreateCommandDescriptors, ThreadAt, WriteTable, Integrate
<1>2. req \in Seq(Command) /\ Len(req) \in Nat /\ k \in 1 .. Len(req) /\ next \in Nat /\ top \in Nat
      /\ used \in Nat
  BY <1>0, <1>1 DEF PrepTypes, Preparing
<1>3. sel = "adma3" /\ env.long /\ used <= MaxBuf
      /\ next + CommandLen * (Len(req) - k + 1) <= used
  BY <1>0, <1>1 DEF TableInv
<1>4. next' \in Nat /\ top' \in Nat /\ (pc' \in Preparing => k' \in 1 .. Len(req))
  BY <1>1, <1>2 DEF CommandLen
<1>5. PrepTypes'
  BY <1>0, <1>1, <1>4 DEF PrepTypes, Preparing
<1>6. SplitInv'
  BY <1>1, NoPieces
<1>7. MaxBuf' = MaxBuf /\ MaxBuf \in Nat
  BY <1>0, <1>1, Sizes DEF MaxBuf
<1>8. TableFits'
  BY <1>0, <1>1, <1>2, <1>3, <1>7 DEF TableInv, TableFits, CommandLen
<1>9. pc' = "command" => next' + CommandLen * (Len(req') - k' + 1) <= used'
  BY <1>1, <1>2, <1>3 DEF CommandLen
<1>10. pc' = "buffers" => next' + CommandLen * (Len(req') - k') <= used'
  BY <1>1, <1>2, <1>3 DEF CommandLen
<1>11. TableInv'
  BY <1>0, <1>1, <1>3, <1>7, <1>8, <1>9, <1>10 DEF TableInv, HasBuffers
<1> QED
  BY <1>5, <1>6, <1>11

LEMMA DescriptorsPrepare ==
    ASSUME IInv, CreateDescriptors
    PROVE  PrepTypes' /\ SplitInv' /\ TableInv'
<1>0. PrepTypes /\ SplitInv /\ TableInv
  BY DEF IInv
<1> DEFINE size == Len(subs) * DescLen
<1>1. /\ pc = "fill" /\ used + size <= MaxBuf /\ used' = used + size
      /\ top' = IF next + size > top THEN next + size ELSE top
      /\ UNCHANGED <<env, dmaMode, sel, req, subs, split>>
      /\ \/ /\ sel = "adma3" /\ next' = next + NextOffset(Len(subs))
            /\ \/ k < Len(req) /\ pc' = "command" /\ k' = k + 1
               \/ pc' = "address" /\ k' = k
         \/ pc' = "address" /\ UNCHANGED <<next, k>>
  BY DEF CreateDescriptors, ThreadAt, WriteTable, Integrate, Fits
<1>2. req \in Seq(Command) /\ Len(req) \in Nat /\ k \in 1 .. Len(req) /\ next \in Nat /\ top \in Nat
      /\ used \in Nat /\ Len(subs) \in Nat
  BY <1>0, <1>1 DEF PrepTypes, Preparing
<1>3. (sel = "adma3" => env.long /\ Len(req) <= MaxCommands)
      /\ next + CommandLen * (Len(req) - k) <= used
  BY <1>0, <1>1 DEF TableInv, HasBuffers
\* the offset that is handed on lies within the list that was written
<1>4. size \in Nat /\ NextOffset(Len(subs)) \in Nat /\ NextOffset(Len(subs)) <= size
  <2>1. Len(subs) >= 1
    BY <1>0, <1>1 DEF SplitInv
  <2>2. CASE DescLen = 2
    BY <1>2, <2>1, <2>2 DEF NextOffset
  <2>3. CASE DescLen = 4
    BY <1>2, <2>1, <2>3 DEF NextOffset
  <2> QED
    BY <1>0, <2>2, <2>3, Sizes
<1> HIDE DEF size
<1>5. next' \in Nat /\ top' \in Nat /\ used' \in Nat /\ (pc' \in Preparing => k' \in 1 .. Len(req))
  BY <1>1, <1>2, <1>4
<1>6. PrepTypes'
  BY <1>0, <1>1, <1>5 DEF PrepTypes, Preparing
<1>7. SplitInv'
  BY <1>1, NoPieces
<1>8. MaxBuf' = MaxBuf /\ MaxBuf \in Nat
  BY <1>0, <1>1, Sizes DEF MaxBuf
<1>9. TableFits'
  BY <1>0, <1>1, <1>2, <1>3, <1>4, <1>8 DEF TableInv, TableFits, CommandLen
<1>10. pc' = "command" => next' + CommandLen * (Len(req') - k' + 1) <= used'
  BY <1>1, <1>2, <1>3, <1>4 DEF CommandLen
<1>11. TableInv'
  BY <1>0, <1>1, <1>3, <1>8, <1>9, <1>10 DEF TableInv, HasBuffers
<1> QED
  BY <1>6, <1>7, <1>11

-----------------------------------------------------------------------------------
(***************************************************************************)
(* The theorems.                                                           *)
(***************************************************************************)

LEMMA ThreadPrepares ==
    ASSUME IInv, Thread PROVE PrepTypes' /\ SplitInv' /\ TableInv'
<1>1. RefuseSdma \/ RefuseCommands \/ SplitRefuse \/ RefuseDescriptors => Refuse
  BY DEF RefuseSdma, RefuseCommands, SplitRefuse, RefuseDescriptors
<1> QED
  BY <1>1, RefuseLeaves, StartLeaves, CommandsPrepare, ListsPrepare, SplitPrepares,
     DescriptorsPrepare
  DEF Thread

LEMMA NextIInv == IInv /\ [Next]_vars => IInv'
<1> SUFFICES ASSUME IInv, [Next]_vars PROVE IInv'
  OBVIOUS
<1>1. CASE Client
  BY <1>1, ClientHandshake, ClientPrepares DEF IInv
<1>2. CASE Thread
  BY <1>2, ThreadHandshake, ThreadPrepares DEF IInv
<1>3. CASE Engine
  BY <1>3, EngineHandshake, EngineLeaves DEF IInv
<1>4. CASE Handler
  BY <1>4, HandlerHandshake, HandlerLeaves DEF IInv
<1>5. CASE UNCHANGED vars \/ Poll
  <2>1. UNCHANGED <<prepared, pc, k, sel>>
    BY <1>5 DEF Poll, vars, prepVars, prepared
  <2>2. Handshake'
    BY <1>5 DEF Poll, vars, hwVars, IInv, Handshake, Quiet, Waiting, Preparing
  <2> QED
    BY <2>1, <2>2, Untouched DEF IInv
<1> QED
  BY <1>1, <1>2, <1>3, <1>4, <1>5 DEF Next

\* The inductive invariant: the pieces made so far are exact, ADMADescSize covers
\* all that is and will be written, and the hardware is at rest meanwhile.
THEOREM Inductive == Spec => []IInv
<1>1. Init => IInv
  BY InitIInv
<1>2. IInv /\ [Next]_vars => IInv'
  BY NextIInv
<1> QED
  BY <1>1, <1>2, PTL DEF Spec

\* DMA_PrepareSubBuffers cuts every buffer of every size exactly, for every limit
\* and whatever the client does.
THEOREM SplitIsExact == Spec => []SplitCovers
<1>1. IInv => SplitCovers
  BY DEF IInv, SplitInv
<1> QED
  BY <1>1, Inductive, PTL

\* No request makes DMA_PrepareTransferADMA write beyond the descriptor buffer, as
\* long as the command descriptors of CSDD_MAX_NUMBER_COMMAND commands fit in it.
THEOREM DescriptorsFit == Spec => []TableFits
<1>1. IInv => TableFits
  BY DEF IInv, TableInv
<1> QED
  BY <1>1, Inductive, PTL
\* A non-empty set of natural numbers has a least element.
LEMMA LeastElement ==
    ASSUME NEW S \in SUBSET Nat, S # {}
    PROVE  \E u \in S : \A v \in S : u <= v
<1> DEFINE Less == {p \in Nat \X Nat : p[1] < p[2]}
<1>1. IsWellFoundedOn(Less, Nat)
  BY NatLessThanWellFounded DEF OpToRel
<1>2. \A u, v \in Nat : v < u => <<v, u>> \in Less
  OBVIOUS
<1> HIDE DEF Less
<1>3. PICK u \in S : \A v \in S : <<v, u>> \notin Less
  BY <1>1, WFMin
<1>4. ASSUME NEW v \in S PROVE u <= v
  <2>1. u \in Nat /\ v \in Nat /\ ~(v < u)
    BY <1>2, <1>3
  <2> QED
    BY <2>1
<1> QED
  BY <1>4

\* A set of natural numbers with zero and every successor is all of them.
LEMMA AllReached ==
    ASSUME NEW S, 0 \in S, \A n \in Nat : n \in S => n + 1 \in S
    PROVE  Nat \subseteq S
<1> DEFINE missing == Nat \ S
<1>1. CASE missing = {}
  BY <1>1
<1>2. CASE missing # {}
  <2>1. PICK u \in missing : \A v \in missing : u <= v
    BY <1>2, LeastElement
  <2>2. u \in Nat /\ u # 0
    BY <2>1
  <2>3. u - 1 \in Nat /\ (u - 1) + 1 = u
    BY <2>2
  <2>4. u - 1 \in S
    BY <2>1, <2>3
  <2> QED
    BY <2>1, <2>3, <2>4
<1> QED
  BY <1>1, <1>2


---------------------------------------------------------------------------------------
(***************************************************************************)
(* What is moved.                                                          *)
(***************************************************************************)

\* s is the first n words of m
Begins(s, m, n) == s \in Seq(Nat) /\ Len(s) = n /\ n <= Len(m) /\ \A x \in 1 .. n : s[x] = m[x]
Whole(s, m) == Begins(s, m, Len(m))

LEMMA RunFacts ==
    ASSUME NEW a \in Nat, NEW n \in Nat
    PROVE  Run(a, n) \in Seq(Nat) /\ Len(Run(a, n)) = n /\ \A x \in 1 .. n : Run(a, n)[x] = a + x - 1
<1>1. \A x \in 1 .. n : a + x - 1 \in Nat
  OBVIOUS
<1>2. Run(a, n) \in [1 .. n -> Nat]
  BY <1>1 DEF Run
<1> QED
  BY <1>2 DEF Run

LEMMA Joined ==
    ASSUME NEW s \in Seq(Nat), NEW r \in Seq(Nat)
    PROVE  /\ s \o r \in Seq(Nat) /\ Len(s \o r) = Len(s) + Len(r)
           /\ \A x \in 1 .. Len(s) : (s \o r)[x] = s[x]
           /\ \A x \in 1 .. Len(r) : (s \o r)[Len(s) + x] = r[x]
  BY ConcatProperties

\* What was moved grows by the piece of memory that comes next.
LEMMA BeginsMore ==
    ASSUME NEW s, NEW m \in Seq(Nat), NEW n \in Nat, NEW a \in Nat, NEW d \in Nat,
           Begins(s, m, n), n + d <= Len(m), \A x \in 1 .. d : m[n + x] = a + x - 1
    PROVE  Begins(s \o Run(a, d), m, n + d)
<1> DEFINE r == Run(a, d)
           u == s \o r
<1>1. r \in Seq(Nat) /\ Len(r) = d /\ \A x \in 1 .. d : r[x] = a + x - 1
  BY RunFacts
<1>2. s \in Seq(Nat) /\ Len(s) = n /\ \A x \in 1 .. n : s[x] = m[x]
  BY DEF Begins
<1> HIDE DEF r
<1>3. /\ u \in Seq(Nat) /\ Len(u) = n + d
      /\ \A x \in 1 .. n : u[x] = s[x]
      /\ \A x \in 1 .. d : u[n + x] = r[x]
  BY <1>1, <1>2, Joined
<1> HIDE DEF u
<1>4. ASSUME NEW x \in 1 .. n + d PROVE u[x] = m[x]
  <2>1. CASE x <= n
    BY <1>2, <1>3, <2>1
  <2>2. CASE x > n
    <3>1. x - n \in 1 .. d /\ n + (x - n) = x
      BY <2>2
    <3>2. u[x] = r[x - n] /\ m[x] = a + (x - n) - 1
      BY <1>3, <3>1
    <3> QED
      BY <1>1, <3>1, <3>2
  <2> QED
    BY <2>1, <2>2
<1> QED
  BY <1>3, <1>4 DEF Begins, u, r

LEMMA BeginsNothing ==
    ASSUME NEW m \in Seq(Nat)
    PROVE  Begins(<<>>, m, 0)
  BY DEF Begins

LEMMA BeginsPart ==
    ASSUME NEW m \in Seq(Nat), NEW s, NEW n \in Nat, Begins(s, m, n)
    PROVE  s = SubSeq(m, 1, n) /\ Len(s) = n /\ n <= Len(m)
<1>1. s \in Seq(Nat) /\ Len(s) = n /\ n <= Len(m) /\ \A x \in 1 .. n : s[x] = m[x]
  BY DEF Begins
<1>2. SubSeq(m, 1, n) = [x \in 1 .. n |-> m[x]]
  <2>1. \A x \in 1 .. n : m[1 + x - 1] = m[x]
    OBVIOUS
  <2> QED
    BY <1>1, <2>1
<1>3. s = [x \in 1 .. n |-> s[x]]
  BY <1>1
<1> QED
  BY <1>1, <1>2, <1>3

LEMMA WholeIsAll ==
    ASSUME NEW m \in Seq(Nat), NEW s, Whole(s, m)
    PROVE  s = m
<1>1. s \in Seq(Nat) /\ Len(s) = Len(m) /\ \A x \in 1 .. Len(m) : s[x] = m[x]
  BY DEF Whole, Begins
<1>2. s = [x \in 1 .. Len(m) |-> s[x]] /\ m = [x \in 1 .. Len(m) |-> m[x]]
  BY <1>1
<1> QED
  BY <1>1, <1>2

---------------------------------------------------------------------------------------
(***************************************************************************)
(* The memory of a command.                                                *)
(***************************************************************************)

Further(p, f, i) == IF i = 0 THEN <<>> ELSE f[i - 1] \o Run(p[i].address, p[i].size)
UpTo(p) == CHOOSE f : f = [i \in 0 .. Len(p) |-> Further(p, f, i)]

LEMMA MemoryIs ==
    ASSUME NEW c
    PROVE  /\ ~c.data => Memory(c) = <<>>
           /\ c.data /\ c.subs = <<>> => Memory(c) = Run(c.buffer, c.count * c.len)
           /\ c.data /\ c.subs # <<>> => Memory(c) = UpTo(c.subs)[Len(c.subs)]
  BY Zenon DEF Memory, UpTo, Further

\* The recursion has a solution: one for n pieces is continued by the next.
LEMMA UpToExists ==
    ASSUME NEW p \in Seq(SubBuffer)
    PROVE  UpTo(p) = [i \in 0 .. Len(p) |-> Further(p, UpTo(p), i)]
<1> DEFINE solvable == {n \in Nat : \E f : f = [i \in 0 .. n |-> Further(p, f, i)]}
<1>1. 0 \in solvable
  <2> DEFINE f == [i \in 0 .. 0 |-> <<>>]
  <2>1. \A i \in 0 .. 0 : i = 0
    OBVIOUS
  <2>2. f = [i \in 0 .. 0 |-> Further(p, f, i)]
    BY <2>1 DEF Further
  <2> QED
    BY <2>2
<1>2. ASSUME NEW n \in Nat, n \in solvable PROVE n + 1 \in solvable
  <2>1. PICK g : g = [i \in 0 .. n |-> Further(p, g, i)]
    BY <1>2
  <2> DEFINE h == [i \in 0 .. n + 1 |-> IF i <= n THEN g[i] ELSE Further(p, g, i)]
  <2>2. ASSUME NEW i \in 0 .. n + 1 PROVE h[i] = Further(p, h, i)
    <3>1. h[i] = Further(p, g, i)
      BY <2>1
    <3>2. i # 0 => i - 1 \in 0 .. n + 1 /\ i - 1 <= n
      OBVIOUS
    <3>3. i # 0 => h[i - 1] = g[i - 1]
      BY <3>2
    <3> HIDE DEF h
    <3>4. Further(p, h, i) = Further(p, g, i)
      BY <3>3 DEF Further
    <3> QED
      BY <3>1, <3>4
  <2>3. h = [i \in 0 .. n + 1 |-> h[i]]
    OBVIOUS
  <2> HIDE DEF h
  <2>4. h = [i \in 0 .. n + 1 |-> Further(p, h, i)]
    BY <2>2, <2>3
  <2>5. n + 1 \in Nat
    OBVIOUS
  <2> QED
    BY <2>4, <2>5
<1>3. Len(p) \in solvable
  <2>1. Len(p) \in Nat
    OBVIOUS
  <2> HIDE DEF solvable
  <2> QED
    BY <1>1, <1>2, <2>1, AllReached
<1>4. \E f : f = [i \in 0 .. Len(p) |-> Further(p, f, i)]
  BY <1>3
<1> QED
  BY <1>4 DEF UpTo

\* m is made of the pieces p, of which those before the i-th reach up to word cut[i] of m.
Cuts(p, m, cut) ==
    /\ m \in Seq(Nat) /\ cut \in [0 .. Len(p) -> Nat] /\ cut[0] = 0 /\ cut[Len(p)] = Len(m)
    /\ \A i \in 1 .. Len(p) : /\ cut[i] = cut[i - 1] + p[i].size /\ cut[i] <= Len(m)
                              /\ \A x \in 1 .. p[i].size : m[cut[i - 1] + x] = p[i].address + x - 1

\* The first n pieces make f[n].
Made(p, f, n) ==
    /\ f[n] \in Seq(Nat)
    /\ \E cut \in [0 .. n -> Nat] :
          /\ cut[0] = 0 /\ cut[n] = Len(f[n])
          /\ \A i \in 1 .. n : /\ cut[i] = cut[i - 1] + p[i].size /\ cut[i] <= Len(f[n])
                               /\ \A x \in 1 .. p[i].size : f[n][cut[i - 1] + x] = p[i].address + x - 1

LEMMA MadeMore ==
    ASSUME NEW p \in Seq(SubBuffer), NEW f, NEW n \in 0 .. Len(p) - 1, Made(p, f, n),
           f[n + 1] = f[n] \o Run(p[n + 1].address, p[n + 1].size)
    PROVE  Made(p, f, n + 1)
<1>1. Len(p) \in Nat /\ \A i \in 1 .. Len(p) : p[i].address \in Nat /\ p[i].size \in Nat
  <2>1. \A i \in 1 .. Len(p) : p[i] \in SubBuffer
    OBVIOUS
  <2> QED
    BY <2>1 DEF SubBuffer
<1> DEFINE a == p[n + 1].address
           d == p[n + 1].size
           g == f[n]
           h == f[n + 1]
           N == Len(p)
<1>2. n \in Nat /\ n + 1 \in 1 .. N /\ a \in Nat /\ d \in Nat
  BY <1>1
<1>3. PICK cut \in [0 .. n -> Nat] :
          /\ cut[0] = 0 /\ cut[n] = Len(g)
          /\ \A i \in 1 .. n : /\ cut[i] = cut[i - 1] + p[i].size /\ cut[i] <= Len(g)
                               /\ \A x \in 1 .. p[i].size : g[cut[i - 1] + x] = p[i].address + x - 1
  BY Zenon DEF Made
<1>4. g \in Seq(Nat) /\ h = g \o Run(a, d)
  BY DEF Made
<1>5. N \in Nat /\ \A i \in 1 .. N : p[i].size \in Nat
  BY <1>1
<1> HIDE DEF a, d, g, h, N
<1>6. /\ h \in Seq(Nat) /\ Len(h) = Len(g) + d /\ Len(g) \in Nat
      /\ \A x \in 1 .. Len(g) : h[x] = g[x]
      /\ \A x \in 1 .. d : h[Len(g) + x] = a + x - 1
  <2> DEFINE r == Run(a, d)
  <2>1. r \in Seq(Nat) /\ Len(r) = d /\ \A x \in 1 .. d : r[x] = a + x - 1
    BY <1>2, RunFacts
  <2>2. h = g \o r
    BY <1>4
  <2> HIDE DEF r
  <2>3. /\ g \o r \in Seq(Nat) /\ Len(g \o r) = Len(g) + Len(r)
        /\ \A x \in 1 .. Len(g) : (g \o r)[x] = g[x]
        /\ \A x \in 1 .. Len(r) : (g \o r)[Len(g) + x] = r[x]
    BY <1>4, <2>1, Joined, Zenon
  <2>4. Len(g) \in Nat
    BY <1>4
  <2>5. /\ h \in Seq(Nat) /\ Len(h) = Len(g) + d
        /\ \A x \in 1 .. Len(g) : h[x] = g[x]
        /\ \A x \in 1 .. d : h[Len(g) + x] = r[x]
    BY <2>1, <2>2, <2>3, Zenon
  <2> QED
    BY <2>1, <2>4, <2>5, Zenon
<1> DEFINE more == [i \in 0 .. n + 1 |-> IF i <= n THEN cut[i] ELSE Len(g) + d]
<1>7. /\ more \in [0 .. n + 1 -> Nat] /\ more[0] = 0 /\ more[n + 1] = Len(h)
      /\ \A i \in 0 .. n : more[i] = cut[i]
  BY <1>2, <1>3, <1>6
<1> HIDE DEF more
<1>8. ASSUME NEW i \in 1 .. n + 1
      PROVE  /\ more[i] = more[i - 1] + p[i].size /\ more[i] <= Len(h)
             /\ \A x \in 1 .. p[i].size : h[more[i - 1] + x] = p[i].address + x - 1
  <2>1. CASE i = n + 1
    <3>1. i - 1 = n /\ n \in 0 .. n
      BY <1>2, <2>1
    <3>2. more[i - 1] = Len(g) /\ p[i].size = d /\ p[i].address = a /\ more[i] = Len(h)
      BY <1>3, <1>7, <2>1, <3>1 DEF a, d
    <3> QED
      BY <1>2, <1>6, <3>2
  <2>2. CASE i # n + 1
    <3>1. i \in 1 .. n /\ i \in 0 .. n /\ i - 1 \in 0 .. n /\ i \in 1 .. N
      BY <1>2, <1>5, <2>2
    <3>2. more[i] = cut[i] /\ more[i - 1] = cut[i - 1] /\ cut[i - 1] \in Nat /\ cut[i] \in Nat
      BY <1>3, <1>7, <3>1
    <3>3. p[i].size \in Nat /\ cut[i] = cut[i - 1] + p[i].size /\ cut[i] <= Len(g)
      BY <1>3, <1>5, <3>1
    <3>4. ASSUME NEW x \in 1 .. p[i].size PROVE h[more[i - 1] + x] = p[i].address + x - 1
      <4>1. cut[i - 1] + x \in 1 .. Len(g)
        <5> DEFINE q == cut[i - 1]
                   r == cut[i]
                   y == p[i].size
        <5>1. q \in Nat /\ r = q + y /\ r <= Len(g) /\ y \in Nat /\ Len(g) \in Nat /\ x \in 1 .. y
          BY <1>6, <3>2, <3>3
        <5> HIDE DEF q, r, y
        <5>2. q + x \in 1 .. Len(g)
          BY <5>1
        <5> QED
          BY <5>2 DEF q
      <4>2. g[cut[i - 1] + x] = p[i].address + x - 1
        BY <1>3, <3>1
      <4>3. h[cut[i - 1] + x] = g[cut[i - 1] + x]
        BY <1>6, <4>1
      <4> QED
        BY <3>2, <4>2, <4>3
    <3> QED
      BY <1>2, <1>6, <3>2, <3>3, <3>4
  <2> QED
    BY <2>1, <2>2
<1>9. h \in Seq(Nat) /\ \E z \in [0 .. n + 1 -> Nat] :
          /\ z[0] = 0 /\ z[n + 1] = Len(h)
          /\ \A i \in 1 .. n + 1 : /\ z[i] = z[i - 1] + p[i].size /\ z[i] <= Len(h)
                                   /\ \A x \in 1 .. p[i].size : h[z[i - 1] + x] = p[i].address + x - 1
  BY <1>6, <1>7, <1>8, Zenon
<1> QED
  BY <1>9, Zenon DEF Made, h

\* The pieces of a list of sub-buffers make the memory it names.
LEMMA ListIsCut ==
    ASSUME NEW p \in Seq(SubBuffer)
    PROVE  \E cut : Cuts(p, UpTo(p)[Len(p)], cut)
<1>0. Len(p) \in Nat
  OBVIOUS
<1> DEFINE f == UpTo(p)
           N == Len(p)
           reached == {n \in Nat : n <= N => Made(p, f, n)}
<1>1. f[0] = <<>> /\ \A n \in 0 .. N - 1 : f[n + 1] = f[n] \o Run(p[n + 1].address, p[n + 1].size)
  <2>1. f = [i \in 0 .. N |-> Further(p, f, i)]
    BY UpToExists
  <2> HIDE DEF f
  <2>2. \A i \in 0 .. N : f[i] = Further(p, f, i)
    BY <2>1
  <2>3. f[0] = <<>>
    BY <1>0, <2>2 DEF Further
  <2>4. ASSUME NEW n \in 0 .. N - 1 PROVE f[n + 1] = f[n] \o Run(p[n + 1].address, p[n + 1].size)
    <3>1. n + 1 \in 0 .. N /\ n + 1 # 0 /\ (n + 1) - 1 = n
      BY <1>0
    <3> QED
      BY <2>2, <3>1 DEF Further
  <2> QED
    BY <2>3, <2>4
<1> HIDE DEF f
<1>2. Made(p, f, 0)
  <2>1. f[0] \in Seq(Nat) /\ Len(f[0]) = 0
    BY <1>1
  <2>2. [i \in 0 .. 0 |-> 0] \in [0 .. 0 -> Nat] /\ [i \in 0 .. 0 |-> 0][0] = 0
    OBVIOUS
  <2>3. \A i \in 1 .. 0 : FALSE
    OBVIOUS
  <2> QED
    BY <2>1, <2>2, <2>3, Zenon DEF Made
<1>3. 0 \in reached
  BY <1>2
<1>4. ASSUME NEW n \in Nat, n \in reached PROVE n + 1 \in reached
  <2>1. CASE n + 1 <= N
    <3>1. n \in 0 .. N - 1 /\ n <= N
      BY <1>0, <2>1
    <3>2. Made(p, f, n + 1)
      BY <1>1, <1>4, <3>1, MadeMore
    <3> QED
      BY <3>2
  <2>2. CASE ~(n + 1 <= N)
    BY <2>2
  <2> QED
    BY <2>1, <2>2
<1>5. N \in reached
  <2> HIDE DEF reached
  <2> QED
    BY <1>0, <1>3, <1>4, AllReached
<1>6. Made(p, f, N)
  BY <1>0, <1>5
<1> QED
  BY <1>6, Zenon DEF Cuts, Made, f

LEMMA MemoryIsSeq ==
    ASSUME NEW c \in Command
    PROVE  Memory(c) \in Seq(Nat)
<1>1. c.buffer \in Nat /\ c.count \in Nat /\ c.len \in Nat /\ c.subs \in Seq(SubBuffer) /\ c.data \in BOOLEAN
  BY DEF Command
<1>2. CASE ~c.data
  <2>1. <<>> \in Seq(Nat)
    OBVIOUS
  <2> QED
    BY <1>2, <2>1, MemoryIs, Zenon
<1>3. CASE c.data /\ c.subs = <<>>
  <2>1. c.count * c.len \in Nat
    BY <1>1
  <2>2. Run(c.buffer, c.count * c.len) \in Seq(Nat)
    BY <1>1, <2>1, RunFacts, Zenon
  <2> QED
    BY <1>3, <2>2, MemoryIs, Zenon
<1>4. CASE c.data /\ c.subs # <<>>
  <2>1. PICK cut : Cuts(c.subs, UpTo(c.subs)[Len(c.subs)], cut)
    BY <1>1, ListIsCut
  <2>2. UpTo(c.subs)[Len(c.subs)] \in Seq(Nat)
    BY <2>1 DEF Cuts
  <2> QED
    BY <1>4, <2>2, MemoryIs, Zenon
<1> QED
  BY <1>1, <1>2, <1>3, <1>4

\* Pieces that cover a buffer within its bounds cut it.
LEMMA CoverIsCut ==
    ASSUME NEW p \in Seq(SubBuffer), NEW a \in Nat, NEW n \in Nat, Len(p) >= 1, Covers(p, a, a + n),
           \A i \in 1 .. Len(p) : a <= p[i].address /\ p[i].address + p[i].size <= a + n
    PROVE  \E cut : Cuts(p, Run(a, n), cut)
<1>1. Len(p) \in Nat /\ \A i \in 1 .. Len(p) : p[i].address \in Nat /\ p[i].size \in Nat
  <2>1. \A i \in 1 .. Len(p) : p[i] \in SubBuffer
    OBVIOUS
  <2> QED
    BY <2>1 DEF SubBuffer
<1> DEFINE m == Run(a, n)
           cut == [i \in 0 .. Len(p) |-> IF i = 0 THEN 0 ELSE p[i].address + p[i].size - a]
<1>2. m \in Seq(Nat) /\ Len(m) = n /\ \A x \in 1 .. n : m[x] = a + x - 1
  BY RunFacts
<1>3. /\ \A i \in 1 .. Len(p) - 1 : p[i + 1].address = p[i].address + p[i].size
      /\ p[1].address = a /\ p[Len(p)].address + p[Len(p)].size = a + n
  <2>1. p # <<>>
    BY <1>1
  <2> QED
    BY <2>1, Zenon DEF Covers
<1> HIDE DEF m
<1>4. \A i \in 0 .. Len(p) : (IF i = 0 THEN 0 ELSE p[i].address + p[i].size - a) \in Nat
  BY <1>1
<1>5. /\ cut \in [0 .. Len(p) -> Nat] /\ cut[0] = 0
      /\ \A i \in 1 .. Len(p) : cut[i] = p[i].address + p[i].size - a
  BY <1>1, <1>4
<1> HIDE DEF cut
<1>9. cut[Len(p)] = n
  BY <1>1, <1>3, <1>5
<1>6. ASSUME NEW i \in 1 .. Len(p)
      PROVE  /\ cut[i] = cut[i - 1] + p[i].size /\ cut[i] <= n
             /\ \A x \in 1 .. p[i].size : m[cut[i - 1] + x] = p[i].address + x - 1
  <2>0. p[i].address \in Nat /\ p[i].size \in Nat
    BY <1>1
  <2>1. cut[i] = p[i].address + p[i].size - a
    BY <1>5
  <2>2. cut[i - 1] = p[i].address - a
    <3>1. CASE i = 1
      BY <1>1, <1>3, <1>5, <3>1
    <3>2. CASE i # 1
      <4>1. i - 1 \in 1 .. Len(p) - 1 /\ i - 1 \in 1 .. Len(p) /\ (i - 1) + 1 = i
        BY <1>1, <3>2
      <4>2. p[(i - 1) + 1].address = p[i - 1].address + p[i - 1].size
        BY <1>3, <4>1, Zenon
      <4>3. cut[i - 1] = p[i - 1].address + p[i - 1].size - a
        BY <1>5, <4>1, Zenon
      <4>4. p[i].address = p[i - 1].address + p[i - 1].size /\ p[i - 1].address \in Nat /\ p[i - 1].size \in Nat
        BY <1>1, <4>1, <4>2, Zenon
      <4> QED
        BY <4>3, <4>4
    <3> QED
      BY <3>1, <3>2
  <2> DEFINE q == p[i].address
             z == p[i].size
             y == cut[i - 1]
  <2>3. q \in Nat /\ z \in Nat /\ a <= q /\ q + z <= a + n /\ cut[i] = q + z - a /\ y = q - a
    BY <2>0, <2>1, <2>2
  <2> HIDE DEF q, z, y
  <2>4. ASSUME NEW x \in 1 .. z PROVE m[y + x] = q + x - 1
    <3>1. y + x \in 1 .. n /\ a + (y + x) - 1 = q + x - 1
      BY <2>3
    <3>2. m[y + x] = a + (y + x) - 1
      BY <1>2, <3>1, Zenon
    <3> QED
      BY <3>1, <3>2
  <2>5. cut[i] = y + z /\ cut[i] <= n
    BY <2>3
  <2> QED
    BY <2>4, <2>5 DEF q, z, y
<1>7. \A i \in 1 .. Len(p) : /\ cut[i] = cut[i - 1] + p[i].size /\ cut[i] <= Len(m)
                             /\ \A x \in 1 .. p[i].size : m[cut[i - 1] + x] = p[i].address + x - 1
  BY <1>2, <1>6
<1>8. Cuts(p, m, cut)
  BY <1>2, <1>5, <1>7, <1>9 DEF Cuts
<1> QED
  BY <1>8 DEF m

---------------------------------------------------------------------------------------
(***************************************************************************)
(* The table.                                                              *)
(***************************************************************************)

LimitOf(e) == IF e.long THEN Limit26 ELSE Limit16
DescLenOf(e) == IF e.dma64 THEN 4 ELSE 2

LEMMA OfEnv ==
    ASSUME env \in Envs
    PROVE  Limit = LimitOf(env) /\ DescLen = DescLenOf(env)
  BY DEF Limit, LimitOf, DescLen, DescLenOf

LEMMA EnvFacts ==
    ASSUME NEW e \in Envs
    PROVE  /\ LimitOf(e) \in Nat \ {0} /\ DescLenOf(e) \in {2, 4} /\ (e.dma64 <=> DescLenOf(e) = 4)
           /\ Wrap \in Nat \ {0} /\ Limit16 \in Nat /\ e.dma64 \in BOOLEAN /\ e.long \in BOOLEAN
  BY SizesAssumption, EnvironmentAssumption DEF LimitOf, DescLenOf

\* The piece of memory that the descriptor at word w of table t names.
Taken(e, t, w) == IF t[w].val = 0 THEN LimitOf(e) ELSE t[w].val
Named(e, t, w) == t[w + 1].val + (IF e.dma64 THEN HighPart(t[w + 2]) ELSE 0) * Wrap
NamesPiece(e, t, w, m, d) ==
    /\ t[w].kind = "tran" /\ Taken(e, t, w) \in Nat /\ Named(e, t, w) \in Nat
    /\ \A x \in 1 .. Taken(e, t, w) : m[d + x] = Named(e, t, w) + x - 1
\* From word a on, and before word b, table t has n descriptors, the last with END, which name
\* the memory m from its word d on: those before the i-th reach up to its word cut[i].
Lays(e, t, a, n, cut, m, d, b) ==
    /\ cut[0] = d /\ cut[n] = Len(m) /\ a + n * DescLenOf(e) <= b
    /\ \A i \in 0 .. n - 1 :
        LET w == a + i * DescLenOf(e)
        IN  /\ NamesPiece(e, t, w, m, cut[i]) /\ t[w].end = (i = n - 1)
            /\ cut[i + 1] = cut[i] + Taken(e, t, w)
Listed(e, t, a, m, d, b) ==
    \E n \in Nat \ {0} : \E cut \in [0 .. n -> 0 .. Len(m)] : Lays(e, t, a, n, cut, m, d, b)
\* The descriptors of a command of ADMA3 from word a on.
Described(e, t, a, c, b) ==
    /\ a \in Nat /\ a + CommandLen <= b /\ t[a + 6].end = ~c.data
    /\ c.data => Listed(e, t, a + CommandLen, Memory(c), 0, b)

\* The engine reads one descriptor, and finds the rest described.
LEMMA ListedStep ==
    ASSUME NEW e \in Envs, NEW t, NEW a \in Nat, NEW m \in Seq(Nat), NEW d \in Nat, NEW b \in Nat,
           Listed(e, t, a, m, d, b)
    PROVE  /\ NamesPiece(e, t, a, m, d) /\ d + Taken(e, t, a) <= Len(m)
           /\ t[a].end \in BOOLEAN
           /\ t[a].end => d + Taken(e, t, a) = Len(m)
           /\ ~t[a].end => Listed(e, t, a + DescLenOf(e), m, d + Taken(e, t, a), b)
<1> DEFINE L == DescLenOf(e)
           T == Taken(e, t, a)
<1>0. PICK n \in Nat \ {0} : \E cut \in [0 .. n -> 0 .. Len(m)] : Lays(e, t, a, n, cut, m, d, b)
  BY DEF Listed
<1>1. PICK cut \in [0 .. n -> 0 .. Len(m)] : Lays(e, t, a, n, cut, m, d, b)
  BY <1>0
<1>2. /\ cut[0] = d /\ cut[n] = Len(m) /\ a + n * L <= b
      /\ \A i \in 0 .. n - 1 :
          /\ NamesPiece(e, t, a + i * L, m, cut[i]) /\ t[a + i * L].end = (i = n - 1)
          /\ cut[i + 1] = cut[i] + Taken(e, t, a + i * L)
  BY <1>1, Zenon DEF Lays
<1>3. L \in {2, 4} /\ Len(m) \in Nat
  BY EnvFacts
<1> HIDE DEF L
<1>4. a + 0 * L = a /\ 0 \in 0 .. n - 1
  BY <1>3
<1>5. NamesPiece(e, t, a, m, d) /\ t[a].end = (0 = n - 1) /\ cut[0 + 1] = d + T
  BY <1>2, <1>4
<1>6. 0 + 1 = 1 /\ 1 \in 0 .. n /\ cut[1] \in 0 .. Len(m)
  BY <1>1
<1>7. d + T <= Len(m)
  BY <1>3, <1>5, <1>6
<1>8. ASSUME t[a].end PROVE d + T = Len(m)
  <2>1. 0 = n - 1
    BY <1>5, <1>8, Zenon
  <2>2. n = 1
    BY <2>1
  <2> QED
    BY <1>2, <1>5, <1>6, <2>2, Zenon
<1>9. ASSUME ~t[a].end PROVE Listed(e, t, a + L, m, d + T, b)
  <2> DEFINE q == n - 1
             z == [i \in 0 .. q |-> cut[i + 1]]
  <2>1. q \in Nat \ {0} /\ q + 1 = n
    <3>1. 0 # n - 1
      BY <1>5, <1>9, Zenon
    <3> QED
      BY <3>1
  <2>2. z \in [0 .. q -> 0 .. Len(m)] /\ \A i \in 0 .. q : z[i] = cut[i + 1]
    <3>1. \A i \in 0 .. q : i + 1 \in 0 .. n
      BY <2>1
    <3> QED
      BY <3>1
  <2> HIDE DEF q, z
  <2>3. z[0] = d + T /\ z[q] = Len(m)
    BY <1>2, <1>5, <1>6, <2>1, <2>2
  <2>4. a + L + q * L <= b
    BY <1>2, <1>3, <2>1
  <2>5. ASSUME NEW i \in 0 .. q - 1
        PROVE  /\ NamesPiece(e, t, a + L + i * L, m, z[i]) /\ t[a + L + i * L].end = (i = q - 1)
               /\ z[i + 1] = z[i] + Taken(e, t, a + L + i * L)
    <3>1. a + L + i * L = a + (i + 1) * L /\ i + 1 \in 0 .. n - 1 /\ i \in 0 .. q /\ i + 1 \in 0 .. q
      <4>1. CASE L = 2
        BY <2>1, <4>1
      <4>2. CASE L = 4
        BY <2>1, <4>2
      <4> QED
        BY <1>3, <4>1, <4>2
    <3>2. /\ NamesPiece(e, t, a + (i + 1) * L, m, cut[i + 1]) /\ t[a + (i + 1) * L].end = (i + 1 = n - 1)
          /\ cut[i + 1 + 1] = cut[i + 1] + Taken(e, t, a + (i + 1) * L)
      BY <1>2, <3>1, Zenon
    <3>3. z[i] = cut[i + 1] /\ z[i + 1] = cut[i + 1 + 1] /\ (i + 1 = n - 1 <=> i = q - 1)
      BY <2>1, <2>2, <3>1
    <3> QED
      BY <3>1, <3>2, <3>3
  <2>6. Lays(e, t, a + L, q, z, m, d + T, b)
    BY <2>3, <2>4, <2>5, Zenon DEF Lays, L
  <2> QED
    BY <2>1, <2>2, <2>6, Zenon DEF Listed
<1> QED
  BY <1>5, <1>7, <1>8, <1>9, Zenon DEF L

\* What is listed stays so while nothing is written there.
LEMMA ListedKept ==
    ASSUME NEW e \in Envs, NEW t, NEW u, NEW a \in Nat, NEW m \in Seq(Nat), NEW d \in Nat, NEW b \in Nat, NEW b2 \in Nat,
           Listed(e, t, a, m, d, b), b <= b2, \A w \in Nat : w < b => u[w] = t[w]
    PROVE  Listed(e, u, a, m, d, b2)
<1> DEFINE L == DescLenOf(e)
<1>0. PICK n \in Nat \ {0} : \E cut \in [0 .. n -> 0 .. Len(m)] : Lays(e, t, a, n, cut, m, d, b)
  BY DEF Listed
<1>1. PICK cut \in [0 .. n -> 0 .. Len(m)] : Lays(e, t, a, n, cut, m, d, b)
  BY <1>0
<1>2. /\ cut[0] = d /\ cut[n] = Len(m) /\ a + n * L <= b
      /\ \A i \in 0 .. n - 1 :
          /\ NamesPiece(e, t, a + i * L, m, cut[i]) /\ t[a + i * L].end = (i = n - 1)
          /\ cut[i + 1] = cut[i] + Taken(e, t, a + i * L)
  BY <1>1, Zenon DEF Lays
<1>3. L \in {2, 4} /\ (e.dma64 <=> L = 4)
  BY EnvFacts
<1> HIDE DEF L
<1>4. ASSUME NEW i \in 0 .. n - 1
      PROVE  /\ NamesPiece(e, u, a + i * L, m, cut[i]) /\ u[a + i * L].end = (i = n - 1)
             /\ cut[i + 1] = cut[i] + Taken(e, u, a + i * L)
  <2> DEFINE w == a + i * L
  <2>1. w \in Nat /\ w + L <= b
    <3>1. a + n * L <= b
      BY <1>2
    <3>2. CASE L = 2
      BY <3>1, <3>2
    <3>3. CASE L = 4
      BY <3>1, <3>3
    <3> QED
      BY <1>3, <3>2, <3>3
  <2> HIDE DEF w
  <2>2. u[w] = t[w] /\ u[w + 1] = t[w + 1] /\ (e.dma64 => u[w + 2] = t[w + 2])
    <3>1. w < b /\ w + 1 \in Nat /\ w + 1 < b /\ w + 2 \in Nat /\ (L = 4 => w + 2 < b)
      BY <1>3, <2>1
    <3> QED
      BY <1>3, <2>1, <3>1, Zenon
  <2>3. Taken(e, u, w) = Taken(e, t, w) /\ Named(e, u, w) = Named(e, t, w)
    BY <2>2, Zenon DEF Taken, Named
  <2>4. NamesPiece(e, t, w, m, cut[i]) /\ t[w].end = (i = n - 1) /\ cut[i + 1] = cut[i] + Taken(e, t, w)
    BY <1>2 DEF w
  <2>5. NamesPiece(e, u, w, m, cut[i])
    BY <2>2, <2>3, <2>4, Zenon DEF NamesPiece
  <2> QED
    BY <2>2, <2>3, <2>4, <2>5 DEF w
<1>5. a + n * L <= b2
  BY <1>2, <1>3
<1>6. Lays(e, u, a, n, cut, m, d, b2)
  BY <1>2, <1>4, <1>5, Zenon DEF Lays, L
<1> QED
  BY <1>6, Zenon DEF Listed

LEMMA DescribedKept ==
    ASSUME NEW e \in Envs, NEW t, NEW u, NEW a, NEW c \in Command, NEW b \in Nat, NEW b2 \in Nat,
           Described(e, t, a, c, b), b <= b2, \A w \in Nat : w < b => u[w] = t[w]
    PROVE  Described(e, u, a, c, b2)
<1>1. a \in Nat /\ a + CommandLen <= b /\ t[a + 6].end = ~c.data /\ CommandLen = 8
  BY DEF Described, CommandLen
<1>2. u[a + 6] = t[a + 6] /\ a + CommandLen <= b2 /\ a + CommandLen \in Nat
  BY <1>1
<1>3. ASSUME c.data PROVE Listed(e, u, a + CommandLen, Memory(c), 0, b2)
  <2>1. Listed(e, t, a + CommandLen, Memory(c), 0, b)
    BY <1>3 DEF Described
  <2>2. Memory(c) \in Seq(Nat) /\ 0 \in Nat
    BY MemoryIsSeq
  <2> QED
    BY <1>2, <2>1, <2>2, ListedKept
<1> QED
  BY <1>1, <1>2, <1>3 DEF Described

\* What a descriptor says of a piece is what the engine reads there.
LEMMA LengthRead ==
    ASSUME NEW n \in Nat \ {0}, NEW s \in 1 .. n
    PROVE  s % n \in Nat /\ (IF s % n = 0 THEN n ELSE s % n) = s
<1>1. CASE s = n
  <2>1. s % n = 0
    BY <1>1
  <2> QED
    BY <1>1, <2>1
<1>2. CASE s # n
  <2>1. s \in Nat /\ s < n /\ s # 0
    BY <1>2
  <2>2. s % n = s
    BY <2>1
  <2> QED
    BY <2>1, <2>2
<1> QED
  BY <1>1, <1>2

LEMMA AddressRead ==
    ASSUME NEW n \in Nat \ {0}, NEW a \in Nat
    PROVE  /\ a % n \in Nat /\ a \div n \in Nat /\ (a % n) + (a \div n) * n = a
           /\ a < n => a % n = a
<1>1. a % n \in Nat /\ a \div n \in Nat
  OBVIOUS
<1>2. a = n * (a \div n) + (a % n)
  BY SMTT(20)
<1>3. n * (a \div n) = (a \div n) * n
  BY <1>1
<1>4. a < n => a % n = a
  OBVIOUS
<1> QED
  BY <1>1, <1>2, <1>3, <1>4

\* Descriptors made of pieces which cut the memory m list it.
LEMMA ListedMade ==
    ASSUME NEW e \in Envs, NEW t, NEW a \in Nat, NEW p \in Seq(SubBuffer), NEW m, NEW cut, Cuts(p, m, cut), Len(p) >= 1,
           \A i \in 1 .. Len(p) : p[i].size \in 1 .. LimitOf(e) /\ (~e.dma64 => p[i].address < Wrap),
           \A i \in 0 .. Len(p) - 1 :
              LET w == a + i * DescLenOf(e)
              IN  /\ t[w] = Word("tran", p[i + 1].size % LimitOf(e), i + 1 = Len(p))
                  /\ t[w + 1] = Word("low", p[i + 1].address % Wrap, FALSE)
                  /\ e.dma64 => t[w + 2] = Word("high", p[i + 1].address \div Wrap, FALSE)
    PROVE  Listed(e, t, a, m, 0, a + Len(p) * DescLenOf(e))
<1> DEFINE n == Len(p)
           L == DescLenOf(e)
           top0 == a + n * L
<1>1. n \in Nat \ {0} /\ m \in Seq(Nat) /\ cut \in [0 .. n -> Nat] /\ cut[0] = 0 /\ cut[n] = Len(m)
  BY DEF Cuts
<1>2. L \in {2, 4} /\ LimitOf(e) \in Nat \ {0} /\ Wrap \in Nat \ {0}
  BY EnvFacts
<1>3. ASSUME NEW i \in 0 .. n - 1
      PROVE  /\ NamesPiece(e, t, a + i * L, m, cut[i]) /\ t[a + i * L].end = (i = n - 1)
             /\ cut[i + 1] = cut[i] + Taken(e, t, a + i * L)
  <2> DEFINE q == p[i + 1].address
             z == p[i + 1].size
             w == a + i * L
  <2>1. /\ t[w] = Word("tran", z % LimitOf(e), i + 1 = n) /\ t[w + 1] = Word("low", q % Wrap, FALSE)
        /\ e.dma64 => t[w + 2] = Word("high", q \div Wrap, FALSE)
    OBVIOUS
  <2>2. i + 1 \in 1 .. n /\ (i + 1) - 1 = i /\ (i + 1 = n <=> i = n - 1)
    BY <1>1
  <2>3. z \in 1 .. LimitOf(e) /\ (~e.dma64 => q < Wrap)
    BY <2>2
  <2>4. cut[i + 1] = cut[i] + z /\ \A x \in 1 .. z : m[cut[i] + x] = q + x - 1
    BY <2>2, Zenon DEF Cuts
  <2>5. q \in Nat
    <3>1. p[i + 1] \in SubBuffer
      BY <2>2
    <3> QED
      BY <3>1 DEF SubBuffer
  <2> HIDE DEF q, z, w
  <2>6. /\ t[w].kind = "tran" /\ t[w].val = z % LimitOf(e) /\ t[w].end = (i + 1 = n)
        /\ t[w + 1].val = q % Wrap /\ (e.dma64 => t[w + 2].val = q \div Wrap /\ t[w + 2].kind = "high")
    BY <2>1 DEF Word
  <2>7. Taken(e, t, w) = z
    BY <1>2, <2>3, <2>6, LengthRead, Zenon DEF Taken
  <2>8. Named(e, t, w) = q
    <3>1. CASE e.dma64
      <4>1. HighPart(t[w + 2]) = q \div Wrap
        BY <2>6, <3>1 DEF HighPart
      <4>2. Named(e, t, w) = (q % Wrap) + (q \div Wrap) * Wrap
        BY <2>6, <3>1, <4>1 DEF Named
      <4> QED
        BY <1>2, <2>5, <4>2, AddressRead, Zenon
    <3>2. CASE ~e.dma64
      <4>1. q % Wrap = q
        BY <1>2, <2>3, <2>5, <3>2, AddressRead
      <4>2. Named(e, t, w) = (q % Wrap) + 0 * Wrap
        BY <2>6, <3>2, Zenon DEF Named
      <4> QED
        BY <1>2, <2>5, <4>1, <4>2
    <3> QED
      BY <3>1, <3>2
  <2>9. z \in Nat
    BY <2>3, <1>2
  <2>10. NamesPiece(e, t, w, m, cut[i])
    BY <2>4, <2>5, <2>6, <2>7, <2>8, <2>9, Zenon DEF NamesPiece
  <2>11. t[w].end = (i = n - 1)
    BY <2>2, <2>6
  <2> QED
    BY <2>4, <2>7, <2>10, <2>11, Zenon DEF w
<1>4. cut \in [0 .. n -> 0 .. Len(m)]
  <2>1. ASSUME NEW i \in 0 .. n PROVE cut[i] \in 0 .. Len(m)
    <3>1. CASE i = 0
      BY <1>1, <3>1
    <3>2. CASE i # 0
      <4>1. i \in 1 .. n
        BY <3>2
      <4>2. cut[i] <= Len(m)
        BY <4>1, Zenon DEF Cuts
      <4> QED
        BY <1>1, <4>2
    <3> QED
      BY <3>1, <3>2
  <2> QED
    BY <1>1, <2>1
<1>5. top0 <= top0
  BY <1>1, <1>2
<1>6. Lays(e, t, a, n, cut, m, 0, top0)
  BY <1>1, <1>3, <1>5, Zenon DEF Lays
<1> QED
  BY <1>1, <1>4, <1>6, Zenon DEF Listed

---------------------------------------------------------------------------------------
(***************************************************************************)
(* How far a request is.                                                   *)
(***************************************************************************)

Active == Preparing \cup {"wait"}
DataTypes ==
    /\ addrReg \in Nat /\ bufPos \in Nat /\ remaining \in Nat /\ first \in Nat
    /\ eng \in [st : EngineStates, id : Nat, at : Nat, left : Nat]
    /\ DOMAIN table = 0 .. TableWords - 1 /\ ids \in Seq(Nat) /\ moved \in [1 .. Len(req) -> Seq(Nat)]

\* The mode of a request is the one its first command asks for.
ChosenInv ==
    /\ dmaMode \in env.modes \cup {"auto"} /\ dmaMode \in {"none", "auto"} \cup env.caps
    /\ req = <<>> \/ req \in env.requests
    /\ pc \in Active =>
        req # <<>> /\ req[1].data /\ sel = SpecifyMode(req[1]) /\ (Len(req) > 1 => sel = "adma3")
    /\ pc = "address" => sel \in {"sdma", "adma2", "adma3"}
    /\ pc = "issue" => sel \in {"none", "sdma", "adma2"}

\* A request that is being prepared has moved nothing yet.
StartInv ==
    /\ pc \in Preparing => \A c \in 1 .. Len(req) : moved[c] = <<>>
    /\ pc = "issue" /\ sel = "sdma" => addrReg = req[1].buffer /\ req[1].subs = <<>>
    /\ pc \in Preparing /\ sel = "none" => bufPos = req[1].buffer /\ remaining = DataSize(req[1])

\* The pieces that were cut stay within the buffer, and none is empty.
Within(p, a, b) == p.size > 0 /\ a <= p.address /\ p.address + p.size <= b
PiecesInv ==
    /\ pc = "split" => \A i \in 1 .. Len(subs) : Within(subs[i], Cmd.buffer, split.pos)
    /\ pc = "fill" /\ Cmd.subs = <<>> =>
        \A i \in 1 .. Len(subs) : Within(subs[i], Cmd.buffer, Cmd.buffer + DataSize(Cmd))
    /\ pc = "fill" /\ Cmd.subs # <<>> => subs = Cmd.subs

\* The descriptors of the commands so far are in the table, before the word Ready.
Ready == IF pc = "command" THEN next ELSE IF pc \in HasBuffers THEN first ELSE TableWords
Chained ==
    /\ Len(ids) = IF pc \in {"command"} \cup HasBuffers THEN k - 1 ELSE Len(req)
    /\ \A i \in 1 .. Len(ids) : Described(env, table, ids[i], req[i], Ready)
    /\ pc \in HasBuffers => Cmd.data /\ first + CommandLen = next /\ table[first + 6].end = FALSE
                            /\ Cmd.count # 0 /\ Cmd.len # 0
DescrInv ==
    /\ sel = "adma3" /\ (pc \in Preparing \/ (pc = "wait" /\ stat = "pending")) => Chained
    /\ sel = "adma2" /\ pc \in HasBuffers => next = 0
    /\ sel = "adma2" /\ pc \in {"address", "issue"} => Listed(env, table, 0, Memory(req[1]), 0, TableWords)

\* Only ADMA3 has integrated descriptors.
NoChain == sel # "adma3" /\ pc \in Active => ids = <<>>

\* How far the engine is.
BySdma ==
    /\ sel = "sdma" /\ Len(req) = 1 /\ req[1].subs = <<>>
    /\ addrReg = req[1].buffer + Len(moved[1]) /\ eng.left + Len(moved[1]) = req[1].count * req[1].len
ByCpu ==
    /\ sel = "none" /\ Len(req) = 1 /\ req[1].subs = <<>>
    /\ bufPos = req[1].buffer + Len(moved[1]) /\ remaining + Len(moved[1]) = req[1].count * req[1].len
    /\ remaining = (IF eng.st = "block" THEN eng.left + 1 ELSE eng.left) * req[1].len
UpToCommand(id) ==
    /\ id \in 1 .. Len(req)
    /\ \A c \in 1 .. id - 1 : Whole(moved[c], Memory(req[c]))
    /\ \A c \in id + 1 .. Len(req) : moved[c] = <<>>
InCommand == sel = "adma3" /\ UpToCommand(eng.id) /\ eng.at = ids[eng.id] /\ moved[eng.id] = <<>>
Part == IF sel = "adma3" THEN eng.id ELSE 1
InData ==
    /\ sel = "adma3" \/ (sel = "adma2" /\ Len(req) = 1)
    /\ UpToCommand(Part) /\ Listed(env, table, eng.at, Memory(req[Part]), Len(moved[Part]), TableWords)
EngineInv ==
    /\ eng.st \in {"sdma", "boundary"} => BySdma
    /\ eng.st \in {"pio", "block"} => ByCpu
    /\ eng.st = "command" => InCommand
    /\ eng.st = "data" => InData
    /\ stat = "ok" \/ "complete" \in irq \/ isr = "complete" =>
        \A c \in 1 .. Len(req) : Whole(moved[c], Memory(req[c]))

Prefixes == \A c \in 1 .. Len(req) : Begins(moved[c], Memory(req[c]), Len(moved[c]))
MoveInv == DataTypes /\ ChosenInv /\ NoChain /\ StartInv /\ PiecesInv /\ DescrInv /\ EngineInv /\ Prefixes

---------------------------------------------------------------------------------------
\* What is known of the commands of a request.
LEMMA RequestFacts ==
    ASSUME RequestsSuit, IInv, ChosenInv
    PROVE  /\ env \in Envs /\ req \in Seq(Command) /\ Len(req) \in Nat
           /\ \A i \in 1 .. Len(req) :
                /\ req[i] \in Command /\ Memory(req[i]) \in Seq(Nat)
                /\ req[i].data => DataSuit(env, req[i])
           /\ req # <<>> => (env.dma64 => Len(req) <= 1) /\ Len(req) > 0
           /\ req # <<>> /\ req[1].data => FirstSuits(env, req[1])
<1>1. env \in Envs /\ req \in Seq(Command)
  BY DEF IInv, PrepTypes
<1>2. \A i \in 1 .. Len(req) : req[i] \in Command
  BY <1>1
<1>3. \A i \in 1 .. Len(req) : Memory(req[i]) \in Seq(Nat)
  BY <1>2, MemoryIsSeq
<1>4. Len(req) \in Nat /\ (req # <<>> => Len(req) > 0)
  BY <1>1
<1>5. CASE req = <<>>
  BY <1>1, <1>2, <1>3, <1>4, <1>5
<1>6. CASE req # <<>>
  <2>1. req \in env.requests
    BY <1>6 DEF ChosenInv
  <2>2. /\ \A i \in 1 .. Len(req) : req[i].data => DataSuit(env, req[i])
        /\ req # <<>> /\ req[1].data => FirstSuits(env, req[1])
        /\ env.dma64 => Len(req) <= 1
    BY <1>1, <2>1, Zenon DEF RequestsSuit, Suits
  <2> QED
    BY <1>1, <1>2, <1>3, <1>4, <1>6, <2>2
<1> QED
  BY <1>5, <1>6

\* Types of a data command, and its size, which no word overflows.
LEMMA SizeFacts ==
    ASSUME NEW e, NEW c \in Command, DataSuit(e, c)
    PROVE  /\ c.count \in Nat /\ c.len \in Nat /\ c.buffer \in Nat /\ c.subs \in Seq(SubBuffer)
           /\ c.count * c.len \in Nat /\ c.count * c.len < Wrap /\ DataSize(c) = c.count * c.len
<1>1. c.count \in Nat /\ c.len \in Nat /\ c.buffer \in Nat /\ c.subs \in Seq(SubBuffer)
  BY DEF Command
<1> DEFINE n == c.count * c.len
<1>2. n \in Nat
  BY <1>1
<1>3. n < Wrap /\ Wrap \in Nat
  BY SizesAssumption DEF DataSuit
<1>4. DataSize(c) = n % Wrap
  BY DEF DataSize
<1> HIDE DEF n
<1>5. n % Wrap = n
  BY <1>2, <1>3
<1> QED
  BY <1>1, <1>2, <1>3, <1>4, <1>5 DEF n

LEMMA MoveInvStarts == Init => MoveInv
<1> SUFFICES ASSUME Init PROVE MoveInv
  OBVIOUS
<1>1. Len(req) = 0 /\ req = <<>>
  BY DEF Init
<1>2. DataTypes
  <2>1. moved \in [1 .. Len(req) -> Seq(Nat)]
    BY <1>1 DEF Init
  <2>2. EngineOff \in [st : EngineStates, id : Nat, at : Nat, left : Nat]
    BY DEF EngineOff, EngineStates
  <2>3. ids \in Seq(Nat)
    BY DEF Init
  <2> QED
    BY <2>1, <2>2, <2>3 DEF Init, DataTypes
<1>3. ChosenInv /\ NoChain
  BY DEF Init, ChosenInv, NoChain, Active, Preparing
<1>4. StartInv /\ PiecesInv
  BY DEF Init, StartInv, PiecesInv, Preparing
<1>5. DescrInv
  BY DEF Init, DescrInv, Preparing, HasBuffers
<1>6. EngineInv
  BY <1>1 DEF Init, EngineInv, EngineOff
<1>7. Prefixes
  BY <1>1 DEF Prefixes
<1> QED
  BY <1>2, <1>3, <1>4, <1>5, <1>6, <1>7 DEF MoveInv

LEMMA ModeKept ==
    ASSUME NEW c, UNCHANGED <<env, dmaMode>>
    PROVE  SpecifyMode(c)' = SpecifyMode(c)
  BY DEF SpecifyMode, AutoMode, Aligned

\* Only a new request changes what was chosen, and only the client the mode.
LEMMA ChosenKept ==
    ASSUME ChosenInv, UNCHANGED <<env, dmaMode, req>>, sel' = sel \/ sel' = SpecifyMode(req[1]),
           pc' \in Active => pc \in Active,
           pc' = "address" => sel' \in {"sdma", "adma2", "adma3"},
           pc' = "issue" => sel' \in {"none", "sdma", "adma2"}
    PROVE  ChosenInv'
<1>1. SpecifyMode(req[1])' = SpecifyMode(req[1])
  BY ModeKept
<1> QED
  BY <1>1 DEF ChosenInv

LEMMA ChosenNext ==
    ASSUME IInv, MoveInv, Next
    PROVE  ChosenInv'
<1>0. ChosenInv
  BY DEF MoveInv
<1>1. CASE \E m \in env.modes : SetDmaMode(m)
  <2>1. PICK m \in env.modes : SetDmaMode(m)
    BY <1>1
  <2>2. UNCHANGED <<env, sel, req, pc>> /\ pc = "idle" /\ dmaMode' = m /\ (m \in {"none", "auto"} \/ m \in env.caps)
    BY <2>1 DEF SetDmaMode, ThreadAt
  <2> QED
    BY <1>0, <2>2 DEF ChosenInv, Active, Preparing
<1>2. CASE \E r \in env.requests : Exec(r)
  <2>1. PICK r \in env.requests : Exec(r)
    BY <1>2
  <2> DEFINE mode == SpecifyMode(r[1])
  <2>2. /\ UNCHANGED <<env, dmaMode>> /\ r # <<>> /\ r[1].data /\ (Len(r) > 1 => mode = "adma3") /\ req' = r /\ sel' = mode
        /\ \/ mode = "none" /\ pc' = "issue"
           \/ mode = "sdma" /\ pc' = "address"
           \/ mode = "adma2" /\ pc' = "buffers"
           \/ mode = "adma3" /\ pc' = "command"
    BY <2>1 DEF Exec
  <2>3. SpecifyMode(r[1])' = mode
    BY <2>2, ModeKept
  <2>4. SpecifyMode(req[1])' = mode
    BY <2>2, <2>3
  <2> HIDE DEF mode
  <2> QED
    BY <1>0, <2>2, <2>4 DEF ChosenInv
<1>3. ASSUME Refuse, pc \in Preparing PROVE ChosenInv'
  BY <1>0, <1>3, ChosenKept DEF Refuse, Active, Preparing
<1>4. RefuseSdma \/ RefuseCommands \/ SplitRefuse \/ RefuseDescriptors => Refuse /\ pc \in Preparing
  BY DEF RefuseSdma, RefuseCommands, SplitRefuse, RefuseDescriptors, ThreadAt, Preparing
<1>5. CASE PrepareSdma
  BY <1>0, <1>5, ChosenKept DEF PrepareSdma, ThreadAt, Active, Preparing
<1>6. CASE UserBuffers \/ WholeBuffer \/ SplitEnd \/ SplitBegin
  BY <1>0, <1>6, ChosenKept DEF UserBuffers, WholeBuffer, SplitEnd, SplitBegin, Buffers, ThreadAt, Active, Preparing
<1>7. CASE SplitPiece
  BY <1>0, <1>7, ChosenKept DEF SplitPiece, ThreadAt, Active, Preparing
<1>8. CASE CreateCommandDescriptors
  <2>1. pc = "command" /\ sel = "adma3" /\ UNCHANGED <<env, dmaMode, req, sel>> /\ pc' \in {"buffers", "command", "address"}
    BY <1>8 DEF CreateCommandDescriptors, ThreadAt, Integrate, IInv, TableInv
  <2> QED
    BY <1>0, <2>1, ChosenKept DEF Active, Preparing
<1>9. CASE CreateDescriptors
  <2>1. pc = "fill" /\ sel \in {"adma2", "adma3"} /\ UNCHANGED <<env, dmaMode, req, sel>> /\ pc' \in {"command", "address"}
    BY <1>9 DEF CreateDescriptors, ThreadAt, Integrate, IInv, TableInv, HasBuffers
  <2> QED
    BY <1>0, <2>1, ChosenKept DEF Active, Preparing
<1>10. CASE AdmaAddress \/ StartAdma3 \/ Issue \/ Return
  <2>1. /\ UNCHANGED <<env, dmaMode, req, sel>> /\ pc \in Active
        /\ pc' \in {"wait", "idle"} \/ (pc' = "issue" /\ sel = "adma2")
    BY <1>10, Zenon DEF AdmaAddress, StartAdma3, Issue, Return, ThreadAt, Active, Preparing
  <2> QED
    BY <1>0, <2>1, ChosenKept
<1>11. CASE Poll
  BY <1>0, <1>11, ChosenKept DEF Poll, ThreadAt, vars, prepVars
<1>12. CASE Engine
  <2>1. UNCHANGED <<env, dmaMode, sel, req, pc>>
    BY <1>12 DEF Engine, EngSdma, EngBlock, EngCommand, EngData, KeepCpu
  <2> QED
    BY <1>0, <2>1, ChosenKept DEF ChosenInv
<1>13. CASE Handler
  <2>1. UNCHANGED <<env, dmaMode, req, pc>> /\ (sel' = sel \/ sel' = SpecifyMode(req[1]))
    BY <1>13 DEF Handler, IsrEnter, IsrBuffer, IsrComplete, IsrDma, IsrResume
  <2>2. pc \in Active => sel = SpecifyMode(req[1])
    BY <1>0 DEF ChosenInv
  <2>3. pc \in {"address", "issue"} => sel' = sel
    BY <2>1, <2>2 DEF Active, Preparing
  <2> QED
    BY <1>0, <2>1, <2>3, ChosenKept DEF ChosenInv
<1> QED
  BY <1>1, <1>2, <1>3, <1>4, <1>5, <1>6, <1>7, <1>8, <1>9, <1>10, <1>11, <1>12, <1>13 DEF Next, Client, Thread

\* While a request is prepared nothing is moved, and no interrupt comes.
LEMMA AtRest ==
    ASSUME IInv, pc \in Preparing
    PROVE  eng = EngineOff /\ irq = {} /\ isr = "idle" /\ stat = "pending"
  BY DEF IInv, Handshake, Quiet, Preparing

LEMMA EngineAtRest ==
    ASSUME IInv, pc \in Preparing, UNCHANGED <<eng, irq, isr>>, stat' # "ok"
    PROVE  EngineInv'
<1>1. eng = EngineOff /\ irq = {} /\ isr = "idle"
  BY AtRest
<1>2. eng'.st = "off" /\ irq' = {} /\ isr' = "idle"
  BY <1>1 DEF EngineOff
<1> QED
  BY <1>2 DEF EngineInv

\* A descriptor or an integrated one, and what the next step of the engine is.
LEMMA NextPart ==
    ASSUME EngNext, eng \in [st : EngineStates, id : Nat, at : Nat, left : Nat], ids \in Seq(Nat)
    PROVE  eng' \in [st : EngineStates, id : Nat, at : Nat, left : Nat]
<1>1. CASE eng.id < Len(ids)
  <2>1. eng.id + 1 \in 1 .. Len(ids) /\ ids[eng.id + 1] \in Nat /\ "command" \in EngineStates
    BY <1>1 DEF EngineStates
  <2>2. eng' = [eng EXCEPT !.st = "command", !.id = @ + 1, !.at = ids[eng.id + 1]]
    BY <1>1 DEF EngNext
  <2>3. eng' = [st |-> "command", id |-> eng.id + 1, at |-> ids[eng.id + 1], left |-> eng.left]
    BY <2>2
  <2>4. eng.id + 1 \in Nat /\ eng.left \in Nat
    OBVIOUS
  <2> QED
    BY <2>1, <2>3, <2>4
<1>2. CASE ~(eng.id < Len(ids))
  BY <1>2 DEF EngNext, EngineOff, EngineStates
<1> QED
  BY <1>1, <1>2

LEMMA DescLenNat ==
    ASSUME IInv
    PROVE  DescLen \in {2, 4} /\ Limit \in Nat \ {0} /\ env \in Envs
<1>1. PrepTypes
  BY DEF IInv
<1> QED
  BY <1>1, Sizes DEF PrepTypes

LEMMA BufferSize == ASSUME env \in Envs PROVE MaxBuf \in Nat /\ TableWords \in Nat /\ MaxBuf <= TableWords
  BY SizesAssumption DEF MaxBuf, TableWords

\* What the engine moves in a step, and how it is left.
LEMMA SdmaStep ==
    ASSUME IInv, MoveInv, EngSdma
    PROVE  \E n \in Nat : /\ n <= eng.left /\ Move(1, addrReg, n) /\ addrReg' = addrReg + n
                          /\ \/ eng' = EngineOff /\ n = eng.left /\ irq' = irq \cup {"complete"}
                             \/ eng' = [eng EXCEPT !.st = "boundary", !.left = eng.left - n] /\ irq' = irq \cup {"dma"}
<1> DEFINE r == Boundary - (addrReg % Boundary)
           n == Least(eng.left, r)
<1>1. addrReg \in Nat /\ eng.left \in Nat /\ Boundary \in Nat \ {0}
  BY SizesAssumption DEF MoveInv, DataTypes
<1>2. r \in Nat
  <2>1. addrReg % Boundary \in 0 .. Boundary - 1
    BY <1>1
  <2> QED
    BY <1>1, <2>1
<1>3. n \in Nat /\ n <= eng.left
  BY <1>1, <1>2 DEF Least
<1>4. /\ Move(1, addrReg, n) /\ addrReg' = addrReg + n
      /\ eng' = IF eng.left = n THEN EngineOff ELSE [eng EXCEPT !.st = "boundary", !.left = @ - n]
      /\ irq' = irq \cup {IF eng.left = n THEN "complete" ELSE "dma"}
  BY DEF EngSdma
<1> HIDE DEF n
<1> QED
  BY <1>3, <1>4

LEMMA DataStep ==
    ASSUME RequestsSuit, IInv, MoveInv, EngData
    PROVE  LET a == Named(env, table, eng.at)
               n == Taken(env, table, eng.at)
               d == Len(moved[Part])
           IN  /\ InData /\ Part \in 1 .. Len(req) /\ Move(Part, a, n) /\ a \in Nat /\ n \in Nat /\ d \in Nat
               /\ NamesPiece(env, table, eng.at, Memory(req[Part]), d)
               /\ d + n <= Len(Memory(req[Part])) /\ Memory(req[Part]) \in Seq(Nat)
               /\ \/ EngNext /\ d + n = Len(Memory(req[Part]))
                  \/ /\ eng' = [eng EXCEPT !.at = eng.at + DescLen] /\ UNCHANGED irq
                     /\ Listed(env, table, eng.at + DescLen, Memory(req[Part]), d + n, TableWords)
<1>1. InData /\ eng.at \in Nat /\ moved \in [1 .. Len(req) -> Seq(Nat)]
  BY DEF MoveInv, EngineInv, DataTypes, EngData
<1>2. ChosenInv
  BY DEF MoveInv
<1> DEFINE a == Named(env, table, eng.at)
           n == Taken(env, table, eng.at)
           m == Memory(req[Part])
           d == Len(moved[Part])
<1>3. Part \in 1 .. Len(req) /\ Listed(env, table, eng.at, m, d, TableWords)
  BY <1>1 DEF InData, UpToCommand
<1>4. m \in Seq(Nat) /\ d \in Nat /\ env \in Envs /\ TableWords \in Nat
  <2>1. m \in Seq(Nat) /\ env \in Envs
    BY <1>2, <1>3, RequestFacts
  <2>2. moved[Part] \in Seq(Nat)
    BY <1>1, <1>3
  <2> QED
    BY <2>1, <2>2, BufferSize
<1>5. /\ NamesPiece(env, table, eng.at, m, d) /\ d + n <= Len(m)
      /\ table[eng.at].end \in BOOLEAN
      /\ table[eng.at].end => d + n = Len(m)
      /\ ~table[eng.at].end => Listed(env, table, eng.at + DescLenOf(env), m, d + n, TableWords)
  <2> HIDE DEF m, d, n
  <2>1. Listed(env, table, eng.at, m, d, TableWords)
    BY <1>3
  <2> USE DEF n
  <2> QED
    BY <1>1, <1>4, <2>1, ListedStep
<1>6. a \in Nat /\ n \in Nat
  BY <1>5 DEF NamesPiece
<1>7. DescLen = DescLenOf(env) /\ Limit = LimitOf(env)
  BY <1>4, OfEnv
<1>8. /\ Move(Part, a, n)
      /\ IF table[eng.at].end THEN EngNext ELSE eng' = [eng EXCEPT !.at = @ + DescLen] /\ UNCHANGED irq
  BY <1>7, Zenon DEF EngData, Part, Named, Taken
<1>9. \/ EngNext /\ d + n = Len(m)
      \/ /\ eng' = [eng EXCEPT !.at = eng.at + DescLen] /\ UNCHANGED irq
         /\ Listed(env, table, eng.at + DescLen, m, d + n, TableWords)
  BY <1>5, <1>7, <1>8
<1> QED
  BY <1>1, <1>3, <1>4, <1>5, <1>6, <1>8, <1>9

LEMMA MovedMore ==
    ASSUME moved \in [1 .. Len(req) -> Seq(Nat)], NEW c \in 1 .. Len(req), NEW a \in Nat, NEW n \in Nat, Move(c, a, n)
    PROVE  /\ moved' \in [1 .. Len(req) -> Seq(Nat)] /\ moved'[c] = moved[c] \o Run(a, n)
           /\ Len(moved'[c]) = Len(moved[c]) + n
           /\ \A x \in 1 .. Len(req) : x # c => moved'[x] = moved[x]
<1> DEFINE r == Run(a, n)
<1>1. r \in Seq(Nat) /\ Len(r) = n
  BY RunFacts
<1>2. moved' = [moved EXCEPT ![c] = moved[c] \o r]
  BY DEF Move
<1> HIDE DEF r
<1>3. moved[c] \in Seq(Nat)
  OBVIOUS
<1>4. moved[c] \o r \in Seq(Nat) /\ Len(moved[c] \o r) = Len(moved[c]) + n
  BY <1>1, <1>3, Joined
<1> QED
  BY <1>2, <1>4 DEF r

EngineTypes == [st : EngineStates, id : Nat, at : Nat, left : Nat]

LEMMA TypesKept ==
    ASSUME DataTypes, UNCHANGED <<addrReg, bufPos, remaining, first, eng, table, ids, moved, req>>
    PROVE  DataTypes'
  BY DEF DataTypes

\* A command of a request being prepared.
LEMMA CommandFacts ==
    ASSUME RequestsSuit, IInv, MoveInv, pc \in Preparing
    PROVE  /\ k \in 1 .. Len(req) /\ Cmd \in Command /\ Cmd = req[k]
           /\ Cmd.buffer \in Nat /\ Cmd.count \in Nat /\ Cmd.len \in Nat /\ Cmd.subs \in Seq(SubBuffer) /\ Cmd.data \in BOOLEAN
           /\ Cmd.data => DataSuit(env, Cmd) /\ DataSize(Cmd) = Cmd.count * Cmd.len
           /\ req # <<>> /\ Len(req) \in Nat \ {0} /\ req[1].data /\ FirstSuits(env, req[1])
           /\ sel # "adma3" => Len(req) = 1 /\ k = 1 /\ Cmd = req[1]
<1>1. k \in 1 .. Len(req)
  BY DEF IInv, PrepTypes
<1>2. ChosenInv /\ pc \in Active
  BY DEF MoveInv, Active
<1>3. req # <<>> /\ req[1].data /\ (Len(req) > 1 => sel = "adma3")
  BY <1>2 DEF ChosenInv
<1>4. /\ Len(req) \in Nat /\ Len(req) > 0 /\ req[k] \in Command /\ (req[k].data => DataSuit(env, req[k]))
      /\ FirstSuits(env, req[1])
  BY <1>1, <1>2, <1>3, RequestFacts, Zenon
<1>5. ASSUME req[k].data PROVE DataSize(req[k]) = req[k].count * req[k].len
  BY <1>4, <1>5, SizeFacts
<1>6. /\ req[k].buffer \in Nat /\ req[k].count \in Nat /\ req[k].len \in Nat /\ req[k].subs \in Seq(SubBuffer)
      /\ req[k].data \in BOOLEAN
  BY <1>4 DEF Command
<1>7. ASSUME sel # "adma3" PROVE Len(req) = 1 /\ k = 1
  <2> DEFINE n == Len(req)
  <2>1. n \in Nat /\ n > 0
    BY <1>4
  <2>2. ~(n > 1)
    BY <1>3, <1>7
  <2> HIDE DEF n
  <2>3. n = 1
    BY <2>1, <2>2
  <2>4. Len(req) = 1
    BY <2>3 DEF n
  <2> QED
    BY <1>1, <2>4
<1> QED
  BY <1>1, <1>3, <1>4, <1>5, <1>6, <1>7 DEF Cmd

LEMMA TypesNext ==
    ASSUME RequestsSuit, IInv, MoveInv, Next
    PROVE  DataTypes'
<1>0. DataTypes /\ ChosenInv /\ eng \in EngineTypes
  BY DEF MoveInv, DataTypes, EngineTypes
<1>1. CASE \E m \in env.modes : SetDmaMode(m)
  BY <1>0, <1>1, TypesKept DEF SetDmaMode, prepVars, cpuVars, hwVars
<1>2. CASE \E r \in env.requests : Exec(r)
  <2>1. PICK r \in env.requests : Exec(r)
    BY <1>2
  <2>2. /\ req' = r /\ bufPos' = r[1].buffer /\ remaining' = DataSize(r[1]) /\ ids' = <<>>
        /\ moved' = [i \in 1 .. Len(r) |-> <<>>] /\ UNCHANGED <<first, table, addrReg, eng>> /\ r # <<>>
    BY <2>1 DEF Exec
  <2>3. r \in Seq(Command)
    <3>1. env \in Envs
      BY DEF IInv, PrepTypes
    <3> QED
      BY <2>1, <3>1, EnvironmentAssumption
  <2>4. r[1] \in Command
    BY <2>2, <2>3
  <2>5. r[1].buffer \in Nat /\ DataSize(r[1]) \in Nat
    BY <2>4, DataSizeNat DEF Command
  <2>6. moved' \in [1 .. Len(req') -> Seq(Nat)] /\ ids' \in Seq(Nat)
    <3>1. <<>> \in Seq(Nat)
      OBVIOUS
    <3> QED
      BY <2>2, <3>1
  <2> QED
    BY <1>0, <2>2, <2>5, <2>6 DEF DataTypes
<1>3. CASE Refuse
  BY <1>0, <1>3, TypesKept DEF Refuse, prepVars, cpuVars, hwVars
<1>4. RefuseSdma \/ RefuseCommands \/ SplitRefuse \/ RefuseDescriptors => Refuse
  BY DEF RefuseSdma, RefuseCommands, SplitRefuse, RefuseDescriptors
<1>5. CASE PrepareSdma
  <2>1. Cmd.buffer \in Nat
    BY <1>5, CommandFacts DEF PrepareSdma, ThreadAt, Preparing
  <2> QED
    BY <1>0, <1>5, <2>1 DEF DataTypes, PrepareSdma, prepVars, cpuVars
<1>6. CASE UserBuffers \/ WholeBuffer \/ SplitEnd \/ SplitBegin \/ SplitPiece
  <2>1. UNCHANGED <<addrReg, bufPos, remaining, first, eng, table, ids, moved, req>>
    BY <1>6, Zenon DEF UserBuffers, WholeBuffer, SplitEnd, SplitBegin, SplitPiece, Buffers, cpuVars, hwVars
  <2> QED
    BY <1>0, <2>1, TypesKept
<1>7. CASE CreateCommandDescriptors
  <2>0. WriteTable(next, CommandLen, CommandWord)
    BY <1>7, Zenon DEF CreateCommandDescriptors
  <2>4. DOMAIN table' = DOMAIN table
    BY <2>0 DEF WriteTable
  <2>5. UNCHANGED <<addrReg, bufPos, remaining, eng, moved, req>> /\ first' = next
    BY <1>7, Zenon DEF CreateCommandDescriptors, cpuVars, hwVars
  <2>6. ids' = ids \/ ids' = Append(ids, next)
    BY <1>7, Zenon DEF CreateCommandDescriptors, Integrate
  <2>1. /\ UNCHANGED <<addrReg, bufPos, remaining, eng, moved, req>> /\ first' = next
        /\ (ids' = ids \/ ids' = Append(ids, next)) /\ DOMAIN table' = DOMAIN table
    BY <2>4, <2>5, <2>6
  <2>2. next \in Nat
    BY DEF IInv, PrepTypes
  <2>3. ids' \in Seq(Nat)
    <3>1. ids \in Seq(Nat)
      BY <1>0 DEF DataTypes
    <3>2. Append(ids, next) \in Seq(Nat)
      BY <2>2, <3>1
    <3> QED
      BY <2>6, <3>1, <3>2
  <2> QED
    BY <1>0, <2>1, <2>2, <2>3 DEF DataTypes
<1>8. CASE CreateDescriptors
  <2>0. WriteTable(next, Len(subs) * DescLen, DescWord)
    BY <1>8, Zenon DEF CreateDescriptors
  <2>4. DOMAIN table' = DOMAIN table
    BY <2>0 DEF WriteTable
  <2>5. UNCHANGED <<addrReg, bufPos, remaining, eng, moved, req, first>>
    BY <1>8, Zenon DEF CreateDescriptors, cpuVars, hwVars
  <2>6. ids' = ids \/ ids' = Append(ids, first)
    BY <1>8, Zenon DEF CreateDescriptors, Integrate
  <2>1. /\ UNCHANGED <<addrReg, bufPos, remaining, eng, moved, req, first>>
        /\ (ids' = ids \/ ids' = Append(ids, first)) /\ DOMAIN table' = DOMAIN table
    BY <2>4, <2>5, <2>6
  <2>2. ids' \in Seq(Nat)
    <3>1. ids \in Seq(Nat) /\ first \in Nat
      BY <1>0 DEF DataTypes
    <3>2. Append(ids, first) \in Seq(Nat)
      BY <3>1
    <3> QED
      BY <2>6, <3>1, <3>2
  <2> QED
    BY <1>0, <2>1, <2>2 DEF DataTypes
<1>9. CASE AdmaAddress \/ Return
  BY <1>0, <1>9, TypesKept DEF AdmaAddress, Return, prepVars, cpuVars, hwVars
<1>10. CASE StartAdma3
  <2>1. /\ UNCHANGED <<addrReg, bufPos, remaining, first, table, ids, moved, req>> /\ pc = "address" /\ sel = "adma3"
        /\ eng' = [EngineOff EXCEPT !.st = "command", !.id = 1, !.at = ids[1]]
    BY <1>10 DEF StartAdma3, ThreadAt, prepVars, cpuVars
  <2>2. Len(ids) = Len(req)
    BY <2>1 DEF MoveInv, DescrInv, Chained, Preparing, HasBuffers
  <2>3. Len(req) \in Nat \ {0}
    BY <2>1, CommandFacts DEF Preparing
  <2>4. ids[1] \in Nat
    BY <1>0, <2>2, <2>3 DEF DataTypes
  <2>5. eng' = [st |-> "command", id |-> 1, at |-> ids[1], left |-> 0]
    BY <2>1 DEF EngineOff
  <2>6. eng' \in EngineTypes
    BY <2>4, <2>5 DEF EngineTypes, EngineStates
  <2> QED
    BY <1>0, <2>1, <2>6 DEF DataTypes, EngineTypes
<1>11. CASE Issue
  <2>1. UNCHANGED <<addrReg, bufPos, remaining, first, table, ids, moved, req>> /\ pc = "issue"
    BY <1>11 DEF Issue, ThreadAt, prepVars, cpuVars
  <2>2. Cmd.count \in Nat /\ Cmd.len \in Nat
    BY <2>1, CommandFacts DEF Preparing
  <2>3. BlockCount(Cmd) \in Nat
    BY <2>2, SizesAssumption DEF BlockCount
  <2>4. BlockCount(Cmd) * Cmd.len \in Nat
    BY <2>2, <2>3
  <2>5. sel \in {"none", "sdma", "adma2"}
    BY <1>0, <2>1 DEF ChosenInv
  <2>6. eng' \in EngineTypes
    <3>1. CASE sel = "none"
      BY <1>11, <2>3, <3>1 DEF Issue, EngineOff, EngineTypes, EngineStates
    <3>2. CASE sel = "sdma"
      BY <1>11, <2>4, <3>2 DEF Issue, EngineOff, EngineTypes, EngineStates
    <3>3. CASE sel = "adma2"
      BY <1>11, <3>3 DEF Issue, EngineOff, EngineTypes, EngineStates
    <3> QED
      BY <2>5, <3>1, <3>2, <3>3
  <2> QED
    BY <1>0, <2>1, <2>6 DEF DataTypes, EngineTypes
<1>12. CASE Poll
  BY <1>0, <1>12, TypesKept DEF Poll, vars, prepVars, cpuVars, hwVars
<1>13. CASE Engine
  <2>0. UNCHANGED <<bufPos, remaining, first, table, ids, req>>
    BY <1>13 DEF Engine, EngSdma, EngBlock, EngCommand, EngData, KeepCpu, prepVars, cpuVars
  <2>1. CASE EngSdma
    <3>1. PICK n \in Nat : /\ n <= eng.left /\ Move(1, addrReg, n) /\ addrReg' = addrReg + n
                           /\ \/ eng' = EngineOff
                              \/ eng' = [eng EXCEPT !.st = "boundary", !.left = eng.left - n]
      BY <2>1, SdmaStep, Zenon
    <3>2. Len(req) = 1
      BY <2>1 DEF EngSdma, MoveInv, EngineInv, BySdma
    <3>3. moved' \in [1 .. Len(req) -> Seq(Nat)]
      BY <1>0, <3>1, <3>2, MovedMore DEF DataTypes
    <3>4. eng' \in EngineTypes
      <4>1. eng.left - n \in Nat /\ eng.id \in Nat /\ eng.at \in Nat
        BY <1>0, <3>1 DEF EngineTypes
      <4>2. CASE eng' = EngineOff
        BY <4>2 DEF EngineTypes, EngineOff, EngineStates
      <4>3. CASE eng' = [eng EXCEPT !.st = "boundary", !.left = eng.left - n]
        <5>1. eng' = [st |-> "boundary", id |-> eng.id, at |-> eng.at, left |-> eng.left - n]
          BY <1>0, <4>3 DEF EngineTypes
        <5> QED
          BY <4>1, <5>1 DEF EngineTypes, EngineStates
      <4> QED
        BY <3>1, <4>2, <4>3
    <3> QED
      BY <1>0, <2>0, <3>1, <3>3, <3>4 DEF DataTypes, EngineTypes
  <2>2. CASE EngBlock
    <3>1. UNCHANGED <<addrReg, moved>>
      BY <2>2 DEF EngBlock
    <3>2. eng' = IF eng.left = 0 THEN EngineOff ELSE [eng EXCEPT !.st = "block", !.left = eng.left - 1]
      BY <2>2 DEF EngBlock
    <3>3. eng.left # 0 => eng.left - 1 \in Nat
      BY <1>0 DEF EngineTypes
    <3>4. eng' \in EngineTypes
      BY <1>0, <3>2, <3>3 DEF EngineTypes, EngineOff, EngineStates
    <3> QED
      BY <1>0, <2>0, <3>1, <3>4 DEF DataTypes, EngineTypes
  <2>3. CASE EngCommand
    <3>1. UNCHANGED <<addrReg, moved>>
      BY <2>3 DEF EngCommand
    <3>2. EngNext \/ eng' = [eng EXCEPT !.st = "data", !.at = eng.at + CommandLen]
      BY <2>3 DEF EngCommand
    <3>3. eng' \in EngineTypes
      <4>1. EngNext => eng' \in EngineTypes
        BY <1>0, NextPart DEF EngineTypes, DataTypes
      <4>2. eng.at + CommandLen \in Nat
        BY <1>0 DEF EngineTypes, CommandLen
      <4> QED
        BY <1>0, <3>2, <4>1, <4>2 DEF EngineTypes, EngineStates
    <3> QED
      BY <1>0, <2>0, <3>1, <3>3 DEF DataTypes, EngineTypes
  <2>4. CASE EngData
    <3>1. addrReg' = addrReg
      BY <2>4 DEF EngData
    <3>2. /\ Part \in 1 .. Len(req) /\ (EngNext \/ eng' = [eng EXCEPT !.at = eng.at + DescLen])
          /\ \E a, n \in Nat : Move(Part, a, n)
      BY <2>4, DataStep, Zenon
    <3>3. moved' \in [1 .. Len(req) -> Seq(Nat)]
      BY <1>0, <2>4, DataStep, MovedMore, Zenon DEF DataTypes
    <3>4. eng' \in EngineTypes
      <4>1. EngNext => eng' \in EngineTypes
        BY <1>0, NextPart DEF EngineTypes, DataTypes
      <4>2. eng.at + DescLen \in Nat
        BY <1>0, DescLenNat DEF EngineTypes
      <4>3. EngNext \/ eng' = [eng EXCEPT !.at = eng.at + DescLen]
        BY <2>4, DataStep, Zenon
      <4> QED
        BY <1>0, <4>1, <4>2, <4>3 DEF EngineTypes, EngineStates
    <3> QED
      BY <1>0, <2>0, <3>1, <3>3, <3>4 DEF DataTypes, EngineTypes
  <2> QED
    BY <1>13, <2>1, <2>2, <2>3, <2>4 DEF Engine
<1>14. CASE IsrEnter \/ IsrComplete \/ IsrDma
  BY <1>0, <1>14, TypesKept DEF IsrEnter, IsrComplete, IsrDma, prepVars, cpuVars
<1>15. CASE IsrBuffer
  <2>1. /\ Move(1, bufPos, DataToCopy(req[1])) /\ bufPos' = bufPos + DataToCopy(req[1]) /\ remaining' = remaining - DataToCopy(req[1])
        /\ eng' = [eng EXCEPT !.st = "pio"] /\ UNCHANGED <<first, table, ids, req, addrReg>> /\ isr = "buffer"
    BY <1>15 DEF IsrBuffer, prepVars
  <2>2. eng.st = "block" /\ ByCpu
    BY <2>1 DEF IInv, Handshake, Waiting, MoveInv, EngineInv
  <2>3. Len(req) = 1 /\ req[1] \in Command
    BY <1>0, <2>2, RequestFacts DEF ByCpu
  <2>4. DataToCopy(req[1]) \in Nat /\ remaining - DataToCopy(req[1]) \in Nat
    <3> DEFINE l == req[1].len
    <3>1. l \in Nat
      BY <2>3 DEF Command
    <3>2. remaining \in Nat
      BY <1>0 DEF DataTypes
    <3>3. DataToCopy(req[1]) = IF remaining < l THEN remaining ELSE l
      BY DEF DataToCopy
    <3> HIDE DEF l
    <3> QED
      BY <3>1, <3>2, <3>3
  <2>5. moved' \in [1 .. Len(req) -> Seq(Nat)]
    BY <1>0, <2>1, <2>3, <2>4, MovedMore DEF DataTypes
  <2>6. eng' \in EngineTypes
    BY <1>0, <2>1 DEF EngineTypes, EngineStates
  <2> QED
    BY <1>0, <2>1, <2>4, <2>5, <2>6 DEF DataTypes, EngineTypes
<1>16. CASE IsrResume
  <2>1. /\ UNCHANGED <<first, table, ids, req, addrReg, remaining, moved>> /\ bufPos' \in {bufPos, addrReg}
        /\ eng' = eng \/ eng' = [eng EXCEPT !.st = "sdma"]
    BY <1>16 DEF IsrResume, Do, prepVars
  <2>2. eng' \in EngineTypes
    BY <1>0, <2>1 DEF EngineTypes, EngineStates
  <2> QED
    BY <1>0, <2>1, <2>2 DEF DataTypes, EngineTypes
<1> QED
  BY <1>1, <1>2, <1>3, <1>4, <1>5, <1>6, <1>7, <1>8, <1>9, <1>10, <1>11, <1>12, <1>13, <1>14, <1>15, <1>16
     DEF Next, Client, Thread, Handler

---------------------------------------------------------------------------------------
(***************************************************************************)
(* Steps of the client and of the preparing thread.                        *)
(***************************************************************************)

MoveParts == StartInv /\ PiecesInv /\ DescrInv /\ EngineInv /\ Prefixes

LEMMA PartsKept ==
    ASSUME MoveParts, UNCHANGED <<env, sel, req, stat, pc, k, prepVars, cpuVars, hwVars>>
    PROVE  MoveParts'
<1>0. UNCHANGED <<env, sel, req, stat, pc, k, subs, split, next, first, ids, table, bufPos, remaining,
                  addrReg, irq, isr, eng, moved>>
  BY DEF prepVars, cpuVars, hwVars
<1>1. StartInv'
  BY <1>0 DEF MoveParts, StartInv, DataSize
<1>2. PiecesInv'
  BY <1>0 DEF MoveParts, PiecesInv, Within, Cmd, DataSize
<1>3. DescrInv'
  <2>1. Chained => Chained'
    BY <1>0 DEF Chained, Ready, Cmd
  <2> QED
    BY <1>0, <2>1 DEF MoveParts, DescrInv
<1>4. EngineInv'
  <2>1. (BySdma => BySdma') /\ (ByCpu => ByCpu')
    BY <1>0 DEF BySdma, ByCpu
  <2>2. Part' = Part /\ \A id \in 1 .. Len(req) : UpToCommand(id) => UpToCommand(id)'
    BY <1>0 DEF UpToCommand, Part
  <2>3. InCommand => InCommand'
    BY <1>0 DEF InCommand, UpToCommand
  <2>4. InData => InData'
    BY <1>0, <2>2 DEF InData, UpToCommand
  <2> QED
    BY <1>0, <2>1, <2>3, <2>4 DEF MoveParts, EngineInv
<1>5. Prefixes'
  BY <1>0 DEF MoveParts, Prefixes
<1> QED
  BY <1>1, <1>2, <1>3, <1>4, <1>5 DEF MoveParts

\* A step of the preparation that does not touch the engine.
LEMMA StartKept ==
    ASSUME IInv, MoveParts, pc \in Preparing, UNCHANGED <<sel, req, moved, bufPos, remaining, eng, irq, isr>>,
           stat' # "ok", pc' \in Preparing => pc' # "issue" \/ sel \notin {"sdma"}
    PROVE  StartInv' /\ EngineInv' /\ Prefixes'
<1>1. StartInv'
  BY DEF MoveParts, StartInv, DataSize, Preparing
<1>2. EngineInv'
  BY EngineAtRest
<1>3. Prefixes'
  BY DEF MoveParts, Prefixes
<1> QED
  BY <1>1, <1>2, <1>3

LEMMA ExecParts ==
    ASSUME RequestsSuit, IInv, MoveInv, NEW r \in env.requests, Exec(r)
    PROVE  MoveParts'
<1> DEFINE mode == SpecifyMode(r[1])
<1>1. /\ pc = "idle" /\ req' = r /\ stat' = "pending" /\ sel' = mode /\ k' = 1
      /\ bufPos' = r[1].buffer /\ remaining' = DataSize(r[1]) /\ next' = 0 /\ ids' = <<>>
      /\ moved' = [i \in 1 .. Len(r) |-> <<>>]
      /\ \/ mode = "none" /\ pc' = "issue"
         \/ mode = "sdma" /\ pc' = "address"
         \/ mode = "adma2" /\ pc' = "buffers"
         \/ mode = "adma3" /\ pc' = "command"
      /\ UNCHANGED <<env, addrReg, irq, isr, eng>>
  BY DEF Exec, ThreadAt
<1> HIDE DEF mode
<1>2. eng = EngineOff /\ irq = {} /\ isr = "idle"
  BY <1>1 DEF IInv, Handshake, Quiet
<1>3. StartInv'
  BY <1>1 DEF StartInv, Preparing, DataSize
<1>4. PiecesInv'
  BY <1>1 DEF PiecesInv
<1>5. DescrInv'
  <2>1. sel' = "adma3" => pc' = "command"
    BY <1>1
  <2>2. pc' = "command" => Chained'
    BY <1>1 DEF Chained, HasBuffers
  <2>3. sel' = "adma2" => pc' = "buffers" /\ next' = 0
    BY <1>1
  <2> QED
    BY <2>1, <2>2, <2>3 DEF DescrInv
<1>6. EngineInv'
  BY <1>1, <1>2 DEF EngineInv, EngineOff
<1>7. Prefixes'
  <2>1. r \in Seq(Command)
    BY EnvironmentAssumption DEF IInv, PrepTypes
  <2>2. ASSUME NEW c \in 1 .. Len(r) PROVE Begins(moved'[c], Memory(r[c]), Len(moved'[c]))
    <3>1. r[c] \in Command
      BY <2>1
    <3>2. Begins(<<>>, Memory(r[c]), 0)
      BY <3>1, MemoryIsSeq, BeginsNothing
    <3>3. moved'[c] = <<>> /\ Len(moved'[c]) = 0
      BY <1>1
    <3> QED
      BY <3>2, <3>3
  <2> QED
    BY <1>1, <2>2 DEF Prefixes
<1> QED
  BY <1>3, <1>4, <1>5, <1>6, <1>7 DEF MoveParts

LEMMA ClientParts ==
    ASSUME RequestsSuit, IInv, MoveInv, Client
    PROVE  MoveParts'
<1>0. MoveParts
  BY DEF MoveInv, MoveParts
<1>1. CASE \E m \in env.modes : SetDmaMode(m)
  BY <1>0, <1>1, PartsKept DEF SetDmaMode
<1>2. CASE \E r \in env.requests : Exec(r)
  BY <1>2, ExecParts
<1> QED
  BY <1>1, <1>2 DEF Client

LEMMA RefuseParts ==
    ASSUME IInv, MoveInv, pc \in Preparing, Refuse
    PROVE  MoveParts'
<1>0. MoveParts /\ stat' = "error" /\ pc' = "idle" /\ UNCHANGED <<sel, req, moved, bufPos, remaining, eng, irq, isr>>
  BY DEF MoveInv, MoveParts, Refuse, cpuVars, hwVars
<1>1. StartInv' /\ EngineInv' /\ Prefixes'
  BY <1>0, StartKept DEF Preparing
<1>2. PiecesInv' /\ DescrInv'
  BY <1>0 DEF PiecesInv, DescrInv, Preparing, HasBuffers
<1> QED
  BY <1>1, <1>2 DEF MoveParts

LEMMA PrepareSdmaParts ==
    ASSUME RequestsSuit, IInv, MoveInv, PrepareSdma
    PROVE  MoveParts'
<1>0. /\ MoveParts /\ pc = "address" /\ pc' = "issue" /\ sel = "sdma" /\ Cmd.subs = <<>> /\ addrReg' = Cmd.buffer
      /\ UNCHANGED <<sel, req, moved, stat, eng, irq, isr>>
  BY DEF MoveInv, MoveParts, PrepareSdma, ThreadAt
<1>1. pc \in Preparing /\ stat = "pending"
  BY <1>0, AtRest DEF Preparing
<1>2. Cmd = req[1]
  BY <1>0, <1>1, CommandFacts
<1>3. EngineInv'
  BY <1>0, <1>1, EngineAtRest
<1>4. StartInv'
  BY <1>0, <1>1, <1>2 DEF MoveParts, StartInv
<1>5. PiecesInv' /\ DescrInv' /\ Prefixes'
  BY <1>0 DEF MoveParts, PiecesInv, DescrInv, Prefixes
<1> QED
  BY <1>3, <1>4, <1>5 DEF MoveParts

LEMMA PositiveData ==
    ASSUME RequestsSuit, IInv, MoveInv, pc \in HasBuffers
    PROVE  Cmd.data /\ DataSize(Cmd) \in Nat \ {0} /\ DataSize(Cmd) = Cmd.count * Cmd.len
<1>0. pc \in Preparing
  BY DEF Preparing, HasBuffers
<1>1. /\ Cmd.count \in Nat /\ Cmd.len \in Nat /\ (Cmd.data => DataSize(Cmd) = Cmd.count * Cmd.len)
      /\ req[1].data /\ FirstSuits(env, req[1]) /\ (sel # "adma3" => Cmd = req[1])
  BY <1>0, CommandFacts, Zenon
<1>2. CASE sel = "adma3"
  <2>1. Cmd.data /\ Cmd.count # 0 /\ Cmd.len # 0
    BY <1>0, <1>2 DEF MoveInv, DescrInv, Chained
  <2>2. ASSUME NEW a \in Nat, NEW b \in Nat, a # 0, b # 0 PROVE a * b \in Nat \ {0}
    BY <2>2
  <2>3. Cmd.count * Cmd.len \in Nat \ {0}
    BY <1>1, <2>1, <2>2
  <2> QED
    BY <1>1, <2>1, <2>3
<1>3. CASE sel # "adma3"
  <2>1. Cmd.data /\ Cmd.count * Cmd.len > 0
    BY <1>1, <1>3 DEF FirstSuits
  <2>2. Cmd.count * Cmd.len \in Nat
    BY <1>1
  <2> QED
    BY <1>1, <2>1, <2>2
<1> QED
  BY <1>2, <1>3

LEMMA BuffersKept ==
    ASSUME IInv, MoveParts, pc \in HasBuffers, pc' \in HasBuffers, PiecesInv',
           UNCHANGED <<env, sel, req, stat, k, next, first, ids, table, cpuVars, hwVars>>
    PROVE  MoveParts'
<1>0. UNCHANGED <<bufPos, remaining, moved, eng, irq, isr>> /\ pc \in Preparing /\ pc' # "issue"
  BY DEF cpuVars, hwVars, Preparing, HasBuffers
<1>1. stat' # "ok"
  BY <1>0, AtRest
<1>2. StartInv' /\ EngineInv' /\ Prefixes'
  BY <1>0, <1>1, StartKept
<1>3. pc # "command" /\ pc' # "command" /\ pc' \notin {"address", "issue"}
  BY DEF HasBuffers
<1>4. Chained => Chained'
  BY <1>3 DEF Chained, Ready, Cmd
<1>5. DescrInv'
  BY <1>0, <1>3, <1>4 DEF MoveParts, DescrInv
<1> QED
  BY <1>2, <1>5 DEF MoveParts

LEMMA SplitPieces ==
    ASSUME RequestsSuit, IInv, MoveInv, SplitPiece
    PROVE  PiecesInv'
<1> DEFINE b == Cmd.buffer
           n == PieceSize(split.left)
           N == Len(subs)
<1>1. /\ pc = "split" /\ split.left > 0 /\ subs' = Append(subs, [address |-> split.pos, size |-> n])
      /\ split'.pos = split.pos + n /\ pc' = pc /\ UNCHANGED <<req, k>>
  BY DEF SplitPiece, ThreadAt, NextPos
<1>2. split.left \in Nat /\ split.pos \in Nat /\ subs \in Seq(SubBuffer)
  BY DEF IInv, PrepTypes
<1>3. Limit \in Nat \ {0}
  BY DescLenNat
<1>4. n \in Nat /\ n > 0
  BY <1>1, <1>2, <1>3 DEF PieceSize, Least
<1>5. b \in Nat
  BY <1>1, CommandFacts DEF Preparing
<1>6. \A i \in 1 .. N : Within(subs[i], b, split.pos)
  BY <1>1 DEF MoveInv, PiecesInv
<1>7. Covers(subs, b, split.pos) /\ N \in Nat /\ \A i \in 1 .. N : subs[i].size \in Nat /\ subs[i].address \in Nat
  <2>1. Covers(subs, b, split.pos)
    BY <1>1 DEF IInv, SplitInv, SplitCovers
  <2>2. N \in Nat /\ \A i \in 1 .. N : subs[i] \in SubBuffer
    BY <1>2
  <2> QED
    BY <2>1, <2>2 DEF SubBuffer
<1>8. b <= split.pos
  <2>1. CASE subs = <<>>
    BY <1>2, <1>7, <2>1 DEF Covers
  <2>2. CASE subs # <<>>
    <3>1. N \in 1 .. N
      BY <1>2, <2>2
    <3>2. b <= subs[N].address /\ subs[N].address + subs[N].size <= split.pos
      BY <1>6, <3>1 DEF Within
    <3> QED
      BY <1>2, <1>5, <1>7, <3>1, <3>2
  <2> QED
    BY <2>1, <2>2
<1>9. ASSUME NEW i \in 1 .. N + 1 PROVE Within(subs'[i], b, split.pos + n)
  <2>1. CASE i = N + 1
    <3>1. subs'[i] = [address |-> split.pos, size |-> n]
      BY <1>1, <1>2, <2>1
    <3>2. subs'[i].address = split.pos /\ subs'[i].size = n
      BY <3>1
    <3> HIDE DEF n, b, N
    <3> QED
      BY <1>2, <1>4, <1>8, <3>2 DEF Within
  <2>2. CASE i # N + 1
    <3>1. i \in 1 .. N
      BY <1>7, <2>2
    <3>2. subs'[i] = subs[i]
      BY <1>1, <1>2, <3>1
    <3>3. Within(subs[i], b, split.pos)
      BY <1>6, <3>1
    <3> HIDE DEF n, b, N
    <3> QED
      BY <1>2, <1>4, <1>7, <3>1, <3>2, <3>3 DEF Within
  <2> QED
    BY <2>1, <2>2
<1>10. Len(subs') = N + 1
  BY <1>1, <1>2
<1>11. \A i \in 1 .. Len(subs') : Within(subs'[i], b, split.pos + n)
  BY <1>9, <1>10
<1> QED
  BY <1>1, <1>11 DEF PiecesInv, Cmd

LEMMA BuffersParts ==
    ASSUME RequestsSuit, IInv, MoveInv, UserBuffers \/ WholeBuffer \/ SplitBegin \/ SplitPiece \/ SplitEnd
    PROVE  MoveParts'
<1>0. MoveParts
  BY DEF MoveInv, MoveParts
<1>1. /\ pc \in HasBuffers /\ pc' \in HasBuffers
      /\ UNCHANGED <<env, sel, req, stat, k, next, first, ids, table, cpuVars, hwVars>>
  <2>1. CASE UserBuffers \/ WholeBuffer \/ SplitEnd
    BY <2>1 DEF UserBuffers, WholeBuffer, SplitEnd, Buffers, ThreadAt, HasBuffers
  <2>2. CASE SplitBegin \/ SplitPiece
    BY <2>2 DEF SplitBegin, SplitPiece, ThreadAt, HasBuffers
  <2> QED
    BY <2>1, <2>2
<1>2. PiecesInv'
  <2>1. CASE UserBuffers
    BY <2>1 DEF UserBuffers, Buffers, PiecesInv, Cmd
  <2>2. CASE WholeBuffer
    <3>1. /\ Cmd.subs = <<>> /\ pc' = "fill" /\ UNCHANGED <<req, k>>
          /\ subs' = <<[address |-> Cmd.buffer, size |-> DataSize(Cmd)]>>
      BY <2>2 DEF WholeBuffer, Buffers
    <3>2. DataSize(Cmd) \in Nat \ {0} /\ Cmd.buffer \in Nat
      BY <1>1, PositiveData, CommandFacts DEF Preparing, HasBuffers
    <3>3. Cmd' = Cmd
      BY <3>1 DEF Cmd
    <3>4. \A i \in 1 .. Len(subs') : i = 1
      BY <3>1
    <3>5. subs'[1].address = Cmd.buffer /\ subs'[1].size = DataSize(Cmd)
      BY <3>1
    <3>6. Within(subs'[1], Cmd.buffer, Cmd.buffer + DataSize(Cmd))
      BY <3>2, <3>5 DEF Within
    <3>7. DataSize(Cmd)' = DataSize(Cmd)
      BY <3>3 DEF DataSize
    <3> QED
      BY <3>1, <3>3, <3>4, <3>6, <3>7 DEF PiecesInv
  <2>3. CASE SplitBegin
    BY <2>3 DEF SplitBegin, PiecesInv
  <2>4. CASE SplitPiece
    BY <2>4, SplitPieces
  <2>5. CASE SplitEnd
    <3>1. pc = "split" /\ split.left = 0 /\ subs' = subs /\ pc' = "fill" /\ UNCHANGED <<req, k>>
      BY <2>5 DEF SplitEnd, Buffers, ThreadAt
    <3>2. /\ \A i \in 1 .. Len(subs) : Within(subs[i], Cmd.buffer, split.pos)
          /\ split.pos + split.left = Cmd.buffer + DataSize(Cmd) /\ Cmd.subs = <<>>
      BY <3>1 DEF MoveInv, PiecesInv, IInv, SplitInv, SplitCovers
    <3>3. split.pos \in Nat
      BY DEF IInv, PrepTypes
    <3>4. split.pos = Cmd.buffer + DataSize(Cmd)
      BY <3>1, <3>2, <3>3
    <3>5. Cmd' = Cmd /\ DataSize(Cmd)' = DataSize(Cmd)
      BY <3>1 DEF Cmd, DataSize
    <3> QED
      BY <3>1, <3>2, <3>4, <3>5 DEF PiecesInv
  <2> QED
    BY <2>1, <2>2, <2>3, <2>4, <2>5
<1> QED
  BY <1>0, <1>1, <1>2, BuffersKept

---------------------------------------------------------------------------------------
(***************************************************************************)
(* The descriptors that are written.                                       *)
(***************************************************************************)

\* The descriptors s are those of the first commands of r; t and u agree below word b.
Chain(e, t, s, r, b) == \A i \in 1 .. Len(s) : Described(e, t, s[i], r[i], b)
Agree(t, u, b) == \A w \in Nat : w < b => u[w] = t[w]

\* A chain of descriptors grows by one.
LEMMA ChainGrows ==
    ASSUME NEW e \in Envs, NEW t, NEW u, NEW r \in Seq(Command), NEW s \in Seq(Nat), NEW a \in Nat, NEW b \in Nat, NEW b2 \in Nat,
           Len(s) + 1 <= Len(r), Chain(e, t, s, r, b), b <= b2, Agree(t, u, b), Described(e, u, a, r[Len(s) + 1], b2)
    PROVE  Len(Append(s, a)) = Len(s) + 1 /\ Chain(e, u, Append(s, a), r, b2)
<1>1. Len(Append(s, a)) = Len(s) + 1 /\ Len(s) \in Nat /\ Len(r) \in Nat
  OBVIOUS
<1>2. ASSUME NEW i \in 1 .. Len(s) + 1 PROVE Described(e, u, Append(s, a)[i], r[i], b2)
  <2>1. CASE i = Len(s) + 1
    <3>1. Append(s, a)[i] = a
      BY <2>1
    <3> QED
      BY <2>1, <3>1
  <2>2. CASE i # Len(s) + 1
    <3>1. i \in 1 .. Len(s) /\ i \in 1 .. Len(r)
      BY <1>1, <2>2
    <3>2. Append(s, a)[i] = s[i] /\ r[i] \in Command
      BY <3>1
    <3>3. Described(e, t, s[i], r[i], b)
      BY <3>1 DEF Chain
    <3>4. Described(e, u, s[i], r[i], b2)
      BY <3>2, <3>3, DescribedKept DEF Agree
    <3> QED
      BY <3>2, <3>4
  <2> QED
    BY <2>1, <2>2
<1> QED
  BY <1>1, <1>2 DEF Chain

\* The words of the table after a write of g from word a on.
LEMMA Written ==
    ASSUME NEW t, NEW u, NEW g, NEW a \in Nat, NEW n \in Nat, DOMAIN t = 0 .. TableWords - 1, a + n <= TableWords,
           TableWords \in Nat, u = [w \in DOMAIN t |-> IF w \in a .. a + n - 1 THEN g[w - a] ELSE t[w]]
    PROVE  /\ \A w \in Nat : w < a => u[w] = t[w]
           /\ \A i \in 0 .. n - 1 : u[a + i] = g[i]
<1>1. ASSUME NEW w \in Nat, w < a PROVE u[w] = t[w]
  <2>1. w \in DOMAIN t /\ w \notin a .. a + n - 1
    BY <1>1
  <2> QED
    BY <2>1
<1>2. ASSUME NEW i \in 0 .. n - 1 PROVE u[a + i] = g[i]
  <2>1. a + i \in DOMAIN t /\ a + i \in a .. a + n - 1
    OBVIOUS
  <2>2. (a + i) - a = i
    OBVIOUS
  <2>3. u[a + i] = g[(a + i) - a]
    BY <2>1, Zenon
  <2> QED
    BY <2>2, <2>3
<1> QED
  BY <1>1, <1>2

LEMMA CreateCommandParts ==
    ASSUME RequestsSuit, IInv, MoveInv, CreateCommandDescriptors
    PROVE  MoveParts'
<1>0. /\ MoveParts /\ DataTypes /\ pc = "command" /\ sel = "adma3" /\ ~CommandIsEmpty /\ Len(req) <= MaxCommands
      /\ WriteTable(next, CommandLen, CommandWord) /\ next' = next + CommandLen /\ first' = next
      /\ UNCHANGED <<env, sel, req, stat, bufPos, remaining, moved, eng, irq, isr>>
      /\ IF Cmd.data THEN pc' = "buffers" /\ UNCHANGED <<ids, k>> ELSE Integrate(next)
  BY DEF MoveInv, MoveParts, CreateCommandDescriptors, ThreadAt, IInv, TableInv, cpuVars, hwVars
<1>1. pc \in Preparing /\ stat' # "ok"
  BY <1>0, AtRest DEF Preparing
<1>2. /\ k \in 1 .. Len(req) /\ Cmd = req[k] /\ Cmd \in Command /\ Cmd.data \in BOOLEAN /\ Len(req) \in Nat
      /\ req \in Seq(Command) /\ env \in Envs /\ next \in Nat /\ used \in Nat /\ ids \in Seq(Nat)
  BY <1>0, <1>1, CommandFacts DEF IInv, PrepTypes, DataTypes
<1>3. next + CommandLen <= TableWords /\ CommandLen = 8 /\ TableWords \in Nat
  <2>1. used <= MaxBuf /\ next + CommandLen * (Len(req) - k + 1) <= used
    BY <1>0 DEF IInv, TableInv
  <2>2. MaxBuf \in Nat /\ TableWords \in Nat /\ MaxBuf <= TableWords
    BY <1>2, BufferSize
  <2> QED
    BY <1>2, <2>1, <2>2 DEF CommandLen
<1>4. /\ \A w \in Nat : w < next => table'[w] = table[w]
      /\ \A i \in 0 .. CommandLen - 1 : table'[next + i] = CommandWord(i)
  <2> DEFINE g == [i \in 0 .. CommandLen - 1 |-> CommandWord(i)]
  <2>1. table' = [w \in DOMAIN table |-> IF w \in next .. next + CommandLen - 1 THEN CommandWord(w - next) ELSE table[w]]
    BY <1>0 DEF WriteTable
  <2>2. ASSUME NEW w \in next .. next + CommandLen - 1 PROVE CommandWord(w - next) = g[w - next]
    <3>1. w - next \in 0 .. CommandLen - 1
      BY <1>2, <1>3
    <3> QED
      BY <3>1
  <2> HIDE DEF g
  <2>3. table' = [w \in DOMAIN table |-> IF w \in next .. next + CommandLen - 1 THEN g[w - next] ELSE table[w]]
    BY <2>1, <2>2
  <2>4. DOMAIN table = 0 .. TableWords - 1 /\ CommandLen \in Nat
    BY <1>0, <1>3 DEF DataTypes
  <2>5. /\ \A w \in Nat : w < next => table'[w] = table[w]
        /\ \A i \in 0 .. CommandLen - 1 : table'[next + i] = g[i]
    BY <1>2, <1>3, <2>3, <2>4, Written
  <2> QED
    BY <2>5 DEF g
<1>5. table'[next + 6].end = ~Cmd.data
  <2>1. table'[next + 6] = CommandWord(6)
    BY <1>3, <1>4
  <2> QED
    BY <1>2, <2>1 DEF CommandWord, Word
<1>6. Len(ids) = k - 1 /\ \A i \in 1 .. Len(ids) : Described(env, table, ids[i], req[i], next)
  BY <1>0, <1>1 DEF MoveParts, DescrInv, Chained, Ready
<1>7. Chained' /\ pc' \in {"buffers", "command", "address"}
  <2>1. CASE Cmd.data
    <3>1. pc' = "buffers" /\ ids' = ids /\ k' = k /\ Cmd' = Cmd
      BY <1>0, <2>1 DEF Cmd
    <3>2. ASSUME NEW i \in 1 .. Len(ids) PROVE Described(env, table', ids[i], req[i], next)
      <4>1. req[i] \in Command /\ Described(env, table, ids[i], req[i], next)
        BY <1>2, <1>6
      <4> QED
        BY <1>2, <1>4, <4>1, DescribedKept
    <3>3. Cmd.count # 0 /\ Cmd.len # 0
      BY <1>0, <2>1 DEF CommandIsEmpty
    <3>4. Ready' = next
      BY <1>0, <3>1 DEF Ready, HasBuffers
    <3>5. Len(ids') = k' - 1 /\ \A i \in 1 .. Len(ids') : Described(env', table', ids'[i], req'[i], next)
      BY <1>0, <1>6, <3>1, <3>2
    <3>6. Cmd'.data /\ first' + CommandLen = next' /\ table'[first' + 6].end = FALSE /\ Cmd'.count # 0 /\ Cmd'.len # 0
      BY <1>0, <1>2, <1>5, <2>1, <3>1, <3>3
    <3> QED
      BY <3>1, <3>4, <3>5, <3>6 DEF Chained, HasBuffers
  <2>2. CASE ~Cmd.data
    <3>1. /\ ids' = Append(ids, next)
          /\ IF k < Len(req) THEN k' = k + 1 /\ pc' = "command" ELSE k' = k /\ pc' = "address"
      BY <1>0, <2>2 DEF Integrate
    <3>2. next + CommandLen \in Nat /\ next <= next + CommandLen /\ next <= TableWords
      BY <1>2, <1>3
    <3>3. ASSUME NEW b \in Nat, next + CommandLen <= b
          PROVE  Len(ids') = k /\ \A i \in 1 .. Len(ids') : Described(env, table', ids'[i], req[i], b)
      <4>1. Described(env, table', next, req[Len(ids) + 1], b)
        <5>1. req[Len(ids) + 1] = Cmd
          BY <1>2, <1>6
        <5> QED
          BY <1>2, <1>5, <2>2, <3>3, <5>1 DEF Described
      <4>2. Len(ids) + 1 = k /\ Len(ids) + 1 <= Len(req) /\ next <= b
        BY <1>2, <1>6, <3>2, <3>3
      <4>3. /\ Len(Append(ids, next)) = Len(ids) + 1
            /\ Chain(env, table', Append(ids, next), req, b)
        <5>1. Agree(table, table', next)
          BY <1>4 DEF Agree
        <5>2. Chain(env, table, ids, req, next)
          BY <1>6 DEF Chain
        <5>3. env \in Envs /\ req \in Seq(Command) /\ ids \in Seq(Nat) /\ next \in Nat /\ b \in Nat
          BY <1>2
        <5> QED
          BY <5>1, <5>2, <5>3, <4>1, <4>2, ChainGrows
      <4> QED
        BY <3>1, <4>2, <4>3 DEF Chain
    <3>4. CASE k < Len(req)
      <4>1. Ready' = next + CommandLen /\ pc' = "command" /\ k' = k + 1
        BY <1>0, <3>1, <3>4 DEF Ready
      <4>2. Len(ids') = k' - 1 /\ \A i \in 1 .. Len(ids') : Described(env', table', ids'[i], req'[i], next + CommandLen)
        BY <1>0, <1>2, <3>2, <3>3, <4>1
      <4> QED
        BY <4>1, <4>2 DEF Chained, HasBuffers
    <3>5. CASE ~(k < Len(req))
      <4>1. Ready' = TableWords /\ pc' = "address" /\ k = Len(req)
        BY <1>2, <3>1, <3>5 DEF Ready, HasBuffers
      <4>2. Len(ids') = Len(req') /\ \A i \in 1 .. Len(ids') : Described(env', table', ids'[i], req'[i], TableWords)
        BY <1>0, <1>3, <3>3, <4>1
      <4> QED
        BY <4>1, <4>2 DEF Chained, HasBuffers
    <3> QED
      BY <3>1, <3>4, <3>5
  <2> QED
    BY <1>2, <2>1, <2>2
<1>8. StartInv' /\ EngineInv' /\ Prefixes'
  BY <1>0, <1>1, <1>7, StartKept
<1>9. PiecesInv' /\ DescrInv'
  BY <1>0, <1>7 DEF PiecesInv, DescrInv
<1> QED
  BY <1>8, <1>9 DEF MoveParts

\* A mode that moves by descriptors is one the host can do.
LEMMA AdmaInCaps ==
    ASSUME IInv, MoveInv, pc \in Preparing, sel \in {"adma2", "adma3"}
    PROVE  {"adma2", "adma3"} \cap env.caps # {}
<1>1. sel = SpecifyMode(req[1]) /\ (dmaMode \in {"none", "auto"} \/ dmaMode \in env.caps)
  BY DEF MoveInv, ChosenInv, Active
<1>2. CASE dmaMode = "auto"
  <2>1. sel = AutoMode(req[1])
    BY <1>1, <1>2 DEF SpecifyMode
  <2>2. "adma2" \in env.caps \/ "adma3" \in env.caps
    BY <2>1 DEF AutoMode
  <2> QED
    BY <2>2
<1>3. CASE dmaMode # "auto"
  <2>1. sel = dmaMode
    BY <1>1, <1>3 DEF SpecifyMode
  <2> QED
    BY <1>1, <2>1
<1> QED
  BY <1>2, <1>3

\* The list of a command makes the memory it is to move, in pieces a descriptor can say.
LEMMA ListFits ==
    ASSUME RequestsSuit, IInv, MoveInv, pc = "fill"
    PROVE  /\ \E cut : Cuts(subs, Memory(Cmd), cut)
           /\ \A i \in 1 .. Len(subs) : subs[i].size \in 1 .. LimitOf(env) /\ (~env.dma64 => subs[i].address < Wrap)
<1>0. pc \in Preparing /\ pc \in HasBuffers /\ sel \in {"adma2", "adma3"}
  BY DEF Preparing, HasBuffers, IInv, TableInv
<1>1. /\ Cmd \in Command /\ Cmd.buffer \in Nat /\ Cmd.count \in Nat /\ Cmd.len \in Nat /\ Cmd.subs \in Seq(SubBuffer)
      /\ Cmd.data => DataSuit(env, Cmd)
  BY <1>0, CommandFacts
<1>2. Cmd.data /\ DataSize(Cmd) \in Nat \ {0} /\ DataSize(Cmd) = Cmd.count * Cmd.len
  BY <1>0, PositiveData
<1>3. {"adma2", "adma3"} \cap env.caps # {}
  BY <1>0, AdmaInCaps
<1>4. subs \in Seq(SubBuffer) /\ Len(subs) >= 1 /\ env \in Envs
  BY DEF IInv, PrepTypes, SplitInv
<1>5. LimitOf(env) \in Nat \ {0} /\ Limit = LimitOf(env) /\ Wrap \in Nat
  BY <1>4, EnvFacts, OfEnv
<1>6. CASE Cmd.subs # <<>>
  <2>1. subs = Cmd.subs
    BY <1>6 DEF MoveInv, PiecesInv
  <2>2. Memory(Cmd) = UpTo(subs)[Len(subs)]
    BY <1>2, <1>6, <2>1, MemoryIs, Zenon
  <2>3. \E cut : Cuts(subs, Memory(Cmd), cut)
    BY <1>4, <2>2, ListIsCut
  <2>4. /\ \A i \in 1 .. Len(Cmd.subs) : Cmd.subs[i].size \in 1 .. LimitOf(env)
        /\ ~env.dma64 => \A i \in 1 .. Len(Cmd.subs) : Cmd.subs[i].address < Wrap
    BY <1>1, <1>2, <1>3 DEF DataSuit, LimitOf
  <2> QED
    BY <2>1, <2>3, <2>4
<1>7. CASE Cmd.subs = <<>>
  <2> DEFINE b == Cmd.buffer
             n == DataSize(Cmd)
  <2>1. Covers(subs, b, b + n) /\ \A i \in 1 .. Len(subs) : Within(subs[i], b, b + n)
    BY <1>7 DEF MoveInv, PiecesInv, IInv, SplitInv, SplitCovers
  <2>2. Memory(Cmd) = Run(b, n)
    BY <1>2, <1>7, MemoryIs, Zenon
  <2>3. b \in Nat /\ n \in Nat /\ (~env.dma64 => b + n <= Wrap)
    BY <1>1, <1>2, <1>3, <1>7 DEF DataSuit
  <2> HIDE DEF b, n
  <2>4. \A i \in 1 .. Len(subs) : b <= subs[i].address /\ subs[i].address + subs[i].size <= b + n
    BY <2>1 DEF Within
  <2>5. \E cut : Cuts(subs, Run(b, n), cut)
    BY <1>4, <2>1, <2>3, <2>4, CoverIsCut
  <2>6. ASSUME NEW i \in 1 .. Len(subs)
        PROVE  subs[i].size \in 1 .. LimitOf(env) /\ (~env.dma64 => subs[i].address < Wrap)
    <3>1. subs[i] \in SubBuffer
      BY <1>4
    <3>2. subs[i].size \in Nat /\ subs[i].address \in Nat
      BY <3>1 DEF SubBuffer
    <3>3. subs[i].size <= Limit /\ subs[i].size > 0 /\ subs[i].address + subs[i].size <= b + n
      BY <2>1 DEF Covers, Within
    <3> QED
      BY <1>5, <2>3, <3>2, <3>3
  <2> QED
    BY <2>2, <2>5, <2>6
<1> QED
  BY <1>6, <1>7

\* The words of the list.
LEMMA DescWordAt ==
    ASSUME NEW w, NEW i, w \div DescLen = i
    PROVE  /\ w % DescLen = 0 => DescWord(w) = Word("tran", subs[i + 1].size % Limit, i + 1 = Len(subs))
           /\ w % DescLen = 1 => DescWord(w) = Word("low", subs[i + 1].address % Wrap, FALSE)
           /\ w % DescLen = 2 => DescWord(w) = Word("high", subs[i + 1].address \div Wrap, FALSE)
<1> DEFINE r == w % DescLen
           tran == Word("tran", subs[i + 1].size % Limit, i + 1 = Len(subs))
           low == Word("low", subs[i + 1].address % Wrap, FALSE)
           high == Word("high", subs[i + 1].address \div Wrap, FALSE)
           zero == Word("zero", 0, FALSE)
<1>1. DescWord(w) = CASE r = 0 -> tran [] r = 1 -> low [] r = 2 -> high [] r = 3 -> zero
  BY DEF DescWord, LengthField, IsLast, HighHalf
<1> HIDE DEF r, tran, low, high, zero
<1>2. (r = 0 => DescWord(w) = tran) /\ (r = 1 => DescWord(w) = low) /\ (r = 2 => DescWord(w) = high)
  BY <1>1
<1> QED
  BY <1>2 DEF r, tran, low, high

LEMMA DescWords ==
    ASSUME IInv, NEW i \in 0 .. Len(subs) - 1
    PROVE  /\ DescWord(i * DescLen) = Word("tran", subs[i + 1].size % Limit, i + 1 = Len(subs))
           /\ DescWord(i * DescLen + 1) = Word("low", subs[i + 1].address % Wrap, FALSE)
           /\ DescLen = 4 => DescWord(i * DescLen + 2) = Word("high", subs[i + 1].address \div Wrap, FALSE)
           /\ i * DescLen \in Nat /\ i * DescLen + DescLen <= Len(subs) * DescLen
<1> DEFINE L == DescLen
           N == Len(subs)
<1>0. N \in Nat /\ i \in Nat /\ i + 1 <= N
  BY DEF IInv, PrepTypes
<1>1. L \in {2, 4}
  BY DescLenNat
<1> HIDE DEF L, N
<1>2. /\ (i * L) % L = 0 /\ (i * L + 1) % L = 1 /\ (L = 4 => (i * L + 2) % L = 2)
      /\ (i * L) \div L = i /\ (i * L + 1) \div L = i /\ (L = 4 => (i * L + 2) \div L = i)
      /\ i * L \in Nat /\ i * L + L <= N * L
  <2>1. CASE L = 2
    BY <1>0, <2>1
  <2>2. CASE L = 4
    BY <1>0, <2>2
  <2> QED
    BY <1>1, <2>1, <2>2
<1> USE DEF L, N
<1>3. DescWord(i * L) = Word("tran", subs[i + 1].size % Limit, i + 1 = Len(subs))
  BY <1>2, DescWordAt, Zenon
<1>4. DescWord(i * L + 1) = Word("low", subs[i + 1].address % Wrap, FALSE)
  BY <1>2, DescWordAt, Zenon
<1>5. ASSUME L = 4 PROVE DescWord(i * L + 2) = Word("high", subs[i + 1].address \div Wrap, FALSE)
  BY <1>2, <1>5, DescWordAt, Zenon
<1> QED
  BY <1>2, <1>3, <1>4, <1>5, Zenon

\* What CreateDescriptors writes lists the memory of the command.
LEMMA ListWritten ==
    ASSUME RequestsSuit, IInv, MoveInv, CreateDescriptors
    PROVE  /\ \A w \in Nat : w < next => table'[w] = table[w]
           /\ Listed(env, table', next, Memory(Cmd), 0, next + Len(subs) * DescLen)
           /\ Len(subs) * DescLen \in Nat /\ next + Len(subs) * DescLen <= TableWords
<1> DEFINE L == DescLen
           N == Len(subs)
           g == [i \in 0 .. N * L - 1 |-> DescWord(i)]
<1>1. pc = "fill" /\ Fits(used + N * L) /\ WriteTable(next, N * L, DescWord)
  BY DEF CreateDescriptors, ThreadAt
<1>2. /\ subs \in Seq(SubBuffer) /\ N \in Nat /\ N >= 1 /\ env \in Envs /\ next \in Nat /\ used \in Nat
      /\ Len(req) \in Nat /\ k \in 1 .. Len(req)
  BY <1>1, CommandFacts DEF IInv, PrepTypes, SplitInv, Preparing
<1>3. L \in {2, 4} /\ L = DescLenOf(env) /\ Limit = LimitOf(env) /\ (env.dma64 => L = 4)
  BY <1>2, DescLenNat, OfEnv, EnvFacts
<1>4. N * L \in Nat /\ next + N * L <= TableWords /\ TableWords \in Nat
  <2>1. used + N * L <= MaxBuf /\ next + CommandLen * (Len(req) - k) <= used
    BY <1>1 DEF Fits, IInv, TableInv, HasBuffers
  <2>2. MaxBuf \in Nat /\ TableWords \in Nat /\ MaxBuf <= TableWords
    BY <1>2, BufferSize
  <2>3. next <= used
    BY <1>2, <2>1 DEF CommandLen
  <2>4. N * L \in Nat
    BY <1>2, <1>3
  <2> HIDE DEF N, L
  <2> QED
    BY <1>2, <2>1, <2>2, <2>3, <2>4
<1>5. /\ \A w \in Nat : w < next => table'[w] = table[w]
      /\ \A i \in 0 .. N * L - 1 : table'[next + i] = g[i]
  <2> DEFINE z == N * L
  <2>1. table' = [w \in DOMAIN table |-> IF w \in next .. next + z - 1 THEN DescWord(w - next) ELSE table[w]]
    BY <1>1 DEF WriteTable
  <2>2. z \in Nat /\ next + z <= TableWords
    BY <1>4
  <2>3. g = [i \in 0 .. z - 1 |-> DescWord(i)]
    OBVIOUS
  <2> HIDE DEF z, g
  <2>4. ASSUME NEW w \in next .. next + z - 1 PROVE DescWord(w - next) = g[w - next]
    BY <1>2, <2>2, <2>3
  <2>5. table' = [w \in DOMAIN table |-> IF w \in next .. next + z - 1 THEN g[w - next] ELSE table[w]]
    BY <2>1, <2>4
  <2>6. DOMAIN table = 0 .. TableWords - 1
    BY DEF MoveInv, DataTypes
  <2>7. /\ \A w \in Nat : w < next => table'[w] = table[w]
        /\ \A i \in 0 .. z - 1 : table'[next + i] = g[i]
    BY <1>2, <1>4, <2>2, <2>5, <2>6, Written
  <2> QED
    BY <2>7 DEF z
<1>6. ASSUME NEW i \in 0 .. N - 1
      PROVE  LET w == next + i * DescLenOf(env)
             IN  /\ table'[w] = Word("tran", subs[i + 1].size % LimitOf(env), i + 1 = Len(subs))
                 /\ table'[w + 1] = Word("low", subs[i + 1].address % Wrap, FALSE)
                 /\ env.dma64 => table'[w + 2] = Word("high", subs[i + 1].address \div Wrap, FALSE)
  <2> DEFINE q == i * L
             w == next + q
  <2>1. /\ DescWord(q) = Word("tran", subs[i + 1].size % Limit, i + 1 = Len(subs))
        /\ DescWord(q + 1) = Word("low", subs[i + 1].address % Wrap, FALSE)
        /\ L = 4 => DescWord(q + 2) = Word("high", subs[i + 1].address \div Wrap, FALSE)
        /\ q \in Nat /\ q + L <= N * L
    BY DescWords
  <2>2. ASSUME NEW j \in 0 .. L - 1 PROVE table'[next + (q + j)] = DescWord(q + j)
    <3>1. q + j \in 0 .. N * L - 1
      <4> DEFINE z == N * L
      <4>1. z \in Nat /\ q \in Nat /\ q + L <= z
        BY <1>4, <2>1
      <4> HIDE DEF z, q
      <4>2. q + j \in 0 .. z - 1
        BY <1>3, <4>1
      <4> QED
        BY <4>2 DEF z
    <3> QED
      BY <1>5, <3>1
  <2> HIDE DEF q, L, N, g
  <2>3. 0 \in 0 .. L - 1 /\ 1 \in 0 .. L - 1 /\ (L = 4 => 2 \in 0 .. L - 1)
    BY <1>3
  <2>4. /\ table'[next + (q + 0)] = DescWord(q + 0) /\ table'[next + (q + 1)] = DescWord(q + 1)
        /\ L = 4 => table'[next + (q + 2)] = DescWord(q + 2)
    BY <2>2, <2>3
  <2>5. /\ next + (q + 0) = w /\ next + (q + 1) = w + 1 /\ next + (q + 2) = w + 2 /\ q + 0 = q
    BY <1>2, <2>1
  <2>6. /\ table'[w] = DescWord(q) /\ table'[w + 1] = DescWord(q + 1)
        /\ L = 4 => table'[w + 2] = DescWord(q + 2)
    BY <2>4, <2>5
  <2>7. w = next + i * DescLenOf(env)
    BY <1>3 DEF q
  <2>8. /\ table'[w] = Word("tran", subs[i + 1].size % LimitOf(env), i + 1 = Len(subs))
        /\ table'[w + 1] = Word("low", subs[i + 1].address % Wrap, FALSE)
        /\ env.dma64 => table'[w + 2] = Word("high", subs[i + 1].address \div Wrap, FALSE)
    BY <1>3, <2>1, <2>6, Zenon
  <2> HIDE DEF w
  <2> QED
    BY <2>7, <2>8, Zenon
<1>7. PICK cut : Cuts(subs, Memory(Cmd), cut)
  BY <1>1, ListFits
<1>8. \A i \in 1 .. Len(subs) : subs[i].size \in 1 .. LimitOf(env) /\ (~env.dma64 => subs[i].address < Wrap)
  BY <1>1, ListFits
<1>9. Listed(env, table', next, Memory(Cmd), 0, next + Len(subs) * DescLenOf(env))
  <2> HIDE DEF g
  <2> QED
    BY <1>2, <1>6, <1>7, <1>8, ListedMade
<1> QED
  BY <1>3, <1>4, <1>5, <1>9

LEMMA CreateDescriptorsParts ==
    ASSUME RequestsSuit, IInv, MoveInv, CreateDescriptors
    PROVE  MoveParts'
<1> DEFINE z == Len(subs) * DescLen
           m == Memory(Cmd)
<1>0. /\ MoveParts /\ DataTypes /\ pc = "fill" /\ sel \in {"adma2", "adma3"}
      /\ UNCHANGED <<env, sel, req, stat, bufPos, remaining, moved, eng, irq, isr, first>>
      /\ IF sel = "adma3" THEN next' = next + NextOffset(Len(subs)) /\ Integrate(first)
         ELSE pc' = "address" /\ UNCHANGED <<next, ids, k>>
  BY DEF MoveInv, MoveParts, CreateDescriptors, ThreadAt, cpuVars, hwVars, IInv, TableInv, HasBuffers
<1>1. pc \in Preparing /\ pc \in HasBuffers /\ stat' # "ok"
  BY <1>0, AtRest DEF Preparing, HasBuffers
<1>2. /\ k \in 1 .. Len(req) /\ Cmd = req[k] /\ Cmd \in Command /\ Len(req) \in Nat \ {0}
      /\ req \in Seq(Command) /\ env \in Envs /\ next \in Nat /\ ids \in Seq(Nat) /\ first \in Nat
      /\ (sel # "adma3" => Cmd = req[1])
  BY <1>0, <1>1, CommandFacts DEF IInv, PrepTypes, DataTypes
<1>3. /\ \A w \in Nat : w < next => table'[w] = table[w]
      /\ Listed(env, table', next, m, 0, next + z)
      /\ z \in Nat /\ next + z <= TableWords /\ TableWords \in Nat
  BY <1>2, ListWritten, BufferSize
<1>4. m \in Seq(Nat) /\ Cmd.data
  BY <1>1, <1>2, MemoryIsSeq, PositiveData
<1>5. CASE sel = "adma2"
  <2>1. next = 0 /\ pc' = "address" /\ m = Memory(req[1])
    BY <1>0, <1>1, <1>2, <1>5 DEF MoveParts, DescrInv
  <2>2. Listed(env, table', 0, m, 0, 0 + z) /\ 0 + z \in Nat /\ 0 + z <= TableWords
    <3> HIDE DEF m, z
    <3> QED
      BY <1>3, <2>1
  <2>3. Listed(env, table', 0, m, 0, TableWords)
    <3> HIDE DEF m, z
    <3> QED
      BY <1>2, <1>3, <1>4, <2>2, ListedKept
  <2> QED
    BY <1>0, <1>1, <1>5, <2>1, <2>3, StartKept DEF MoveParts, PiecesInv, DescrInv, HasBuffers
<1>6. CASE sel = "adma3"
  <2>1. /\ next' = next + NextOffset(Len(subs)) /\ ids' = Append(ids, first)
        /\ IF k < Len(req) THEN k' = k + 1 /\ pc' = "command" ELSE k' = k /\ pc' = "address"
    BY <1>0, <1>6 DEF Integrate
  <2>2. /\ Len(ids) = k - 1 /\ first + CommandLen = next /\ table[first + 6].end = FALSE
        /\ \A i \in 1 .. Len(ids) : Described(env, table, ids[i], req[i], first)
    BY <1>0, <1>1, <1>6 DEF MoveParts, DescrInv, Chained, Ready, HasBuffers
  <2>3. ASSUME NEW b \in Nat, next + z <= b
        PROVE  Len(ids') = k /\ \A i \in 1 .. Len(ids') : Described(env, table', ids'[i], req[i], b)
    <3>1. Listed(env, table', next, m, 0, b)
      <4>1. next + z \in Nat
        BY <1>2, <1>3
      <4> HIDE DEF m, z
      <4> QED
        BY <1>2, <1>3, <1>4, <2>3, <4>1, ListedKept
    <3>2. first + CommandLen <= b /\ table'[first + 6].end = FALSE
      <4>1. first + 6 \in Nat /\ first + 6 < next /\ next <= b
        <5> HIDE DEF z
        <5> QED
          BY <1>2, <1>3, <2>2, <2>3 DEF CommandLen
      <4>2. table'[first + 6] = table[first + 6]
        BY <1>3, <4>1
      <4> QED
        BY <2>2, <4>1, <4>2
    <3>3. Described(env, table', first, Cmd, b)
      BY <1>2, <1>4, <2>2, <3>1, <3>2 DEF Described
    <3>4. Len(ids) + 1 = k /\ Len(ids) + 1 <= Len(req) /\ req[Len(ids) + 1] = Cmd
      BY <1>2, <2>2
    <3>5. Chain(env, table, ids, req, first)
      BY <2>2 DEF Chain
    <3>6. first <= b /\ first <= next
      <4> HIDE DEF z
      <4> QED
        BY <1>2, <1>3, <2>2, <2>3 DEF CommandLen
    <3>7. Agree(table, table', first)
      BY <1>2, <1>3, <3>6 DEF Agree
    <3>8. Len(Append(ids, first)) = Len(ids) + 1 /\ Chain(env, table', Append(ids, first), req, b)
      <4>1. Described(env, table', first, req[Len(ids) + 1], b)
        BY <3>3, <3>4
      <4> QED
        BY <1>2, <3>4, <3>5, <3>6, <3>7, <4>1, ChainGrows
    <3> QED
      BY <2>1, <3>4, <3>8 DEF Chain
  <2>4. Chained' /\ pc' \in {"command", "address"}
    <3>1. CASE k < Len(req)
      <4>1. ~env.dma64
        <5>1. req # <<>> /\ Len(req) > 1
          BY <1>2, <3>1
        <5>2. env.dma64 => Len(req) <= 1
          BY <5>1, RequestFacts DEF MoveInv
        <5> QED
          BY <1>2, <5>1, <5>2
      <4>2. DescLen = 2 /\ next' = next + z
        <5>1. DescLen = 2
          BY <4>1 DEF DescLen
        <5>2. Len(subs) \in Nat
          BY DEF IInv, PrepTypes
        <5> QED
          BY <1>2, <2>1, <5>1, <5>2 DEF NextOffset
      <4>3. Ready' = next + z /\ pc' = "command" /\ k' = k + 1
        BY <2>1, <3>1, <4>2 DEF Ready
      <4>4. next + z \in Nat /\ next + z <= next + z
        BY <1>2, <1>3
      <4>5. Len(ids') = k' - 1 /\ \A i \in 1 .. Len(ids') : Described(env', table', ids'[i], req'[i], next + z)
        <5> HIDE DEF z
        <5> QED
          BY <1>0, <1>2, <2>3, <4>3, <4>4
      <4> HIDE DEF z
      <4> QED
        BY <4>3, <4>5 DEF Chained, HasBuffers
    <3>2. CASE ~(k < Len(req))
      <4>1. Ready' = TableWords /\ pc' = "address" /\ k = Len(req)
        BY <1>2, <2>1, <3>2 DEF Ready, HasBuffers
      <4>2. Len(ids') = Len(req') /\ \A i \in 1 .. Len(ids') : Described(env', table', ids'[i], req'[i], TableWords)
        <5> HIDE DEF z
        <5> QED
          BY <1>0, <1>3, <2>3, <4>1
      <4> QED
        BY <4>1, <4>2 DEF Chained, HasBuffers
    <3> QED
      BY <3>1, <3>2
  <2>5. StartInv' /\ EngineInv' /\ Prefixes'
    BY <1>0, <1>1, <2>4, StartKept
  <2>6. PiecesInv' /\ DescrInv'
    BY <1>0, <1>6, <2>4 DEF PiecesInv, DescrInv
  <2> QED
    BY <2>5, <2>6 DEF MoveParts
<1> QED
  BY <1>0, <1>5, <1>6

---------------------------------------------------------------------------------------
LEMMA NoChainNext ==
    ASSUME IInv, MoveInv, Next
    PROVE  NoChain'
<1>0. NoChain /\ ChosenInv
  BY DEF MoveInv
<1>1. ASSUME UNCHANGED <<sel, ids>>, pc \in Active PROVE NoChain'
  BY <1>0, <1>1 DEF NoChain
<1>2. CASE Client
  <2>1. CASE \E m \in env.modes : SetDmaMode(m)
    BY <2>1 DEF SetDmaMode, ThreadAt, NoChain, Active, Preparing
  <2>2. CASE \E r \in env.requests : Exec(r)
    BY <2>2 DEF Exec, NoChain
  <2> QED
    BY <1>2, <2>1, <2>2 DEF Client
<1>3. CASE CreateCommandDescriptors
  BY <1>3 DEF CreateCommandDescriptors, ThreadAt, IInv, TableInv, NoChain
<1>4. CASE CreateDescriptors
  <2>1. sel' = sel /\ pc \in Active /\ (sel # "adma3" => ids' = ids)
    BY <1>4 DEF CreateDescriptors, ThreadAt, Active, Preparing
  <2> QED
    BY <1>0, <2>1 DEF NoChain
<1>5. CASE PrepareSdma \/ UserBuffers \/ WholeBuffer \/ SplitBegin \/ SplitPiece \/ SplitEnd
  BY <1>1, <1>5 DEF PrepareSdma, UserBuffers, WholeBuffer, SplitBegin, SplitPiece, SplitEnd, Buffers, ThreadAt,
     Active, Preparing, prepVars
<1>6. CASE AdmaAddress \/ StartAdma3 \/ Issue \/ Return
  BY <1>1, <1>6 DEF AdmaAddress, StartAdma3, Issue, Return, ThreadAt, Active, Preparing, prepVars
<1>7. CASE RefuseSdma \/ RefuseCommands \/ SplitRefuse \/ RefuseDescriptors
  BY <1>7 DEF RefuseSdma, RefuseCommands, SplitRefuse, RefuseDescriptors, Refuse, NoChain, Active, Preparing
<1>8. CASE Poll
  BY <1>1, <1>8 DEF Poll, vars, prepVars, ThreadAt, Active
<1>9. CASE Engine
  <2>1. UNCHANGED <<sel, ids, pc>>
    BY <1>9 DEF Engine, EngSdma, EngBlock, EngCommand, EngData, KeepCpu, prepVars
  <2> QED
    BY <1>0, <2>1 DEF NoChain
<1>10. CASE Handler
  <2>1. UNCHANGED <<ids, pc>> /\ (sel' = sel \/ sel' = SpecifyMode(req[1]))
    BY <1>10 DEF Handler, IsrEnter, IsrBuffer, IsrComplete, IsrDma, IsrResume, prepVars
  <2>2. pc \in Active => sel' = sel
    BY <1>0, <2>1 DEF ChosenInv
  <2> QED
    BY <1>0, <2>1, <2>2 DEF NoChain
<1> QED
  BY <1>2, <1>3, <1>4, <1>5, <1>6, <1>7, <1>8, <1>9, <1>10 DEF Next, Thread

(***************************************************************************)
(* The start of the engine.                                                *)
(***************************************************************************)

LEMMA AddressParts ==
    ASSUME RequestsSuit, IInv, MoveInv, AdmaAddress
    PROVE  MoveParts'
<1>0. /\ MoveParts /\ pc = "address" /\ pc' = "issue" /\ sel = "adma2"
      /\ UNCHANGED <<env, sel, req, stat, bufPos, remaining, moved, eng, irq, isr, table>>
  BY DEF MoveInv, MoveParts, AdmaAddress, ThreadAt, cpuVars, hwVars, prepVars
<1>1. pc \in Preparing /\ stat' # "ok"
  BY <1>0, AtRest DEF Preparing
<1>2. StartInv' /\ EngineInv' /\ Prefixes'
  BY <1>0, <1>1, StartKept
<1> QED
  BY <1>0, <1>2 DEF MoveParts, PiecesInv, DescrInv, HasBuffers

LEMMA Adma3Parts ==
    ASSUME RequestsSuit, IInv, MoveInv, StartAdma3
    PROVE  MoveParts'
<1>0. /\ MoveParts /\ pc = "address" /\ pc' = "wait" /\ sel = "adma3"
      /\ UNCHANGED <<env, sel, req, stat, k, first, next, ids, table, moved, irq, isr>>
      /\ eng' = [EngineOff EXCEPT !.st = "command", !.id = 1, !.at = ids[1]]
  BY DEF MoveInv, MoveParts, StartAdma3, ThreadAt, prepVars
<1>1. pc \in Preparing /\ stat = "pending" /\ irq = {} /\ isr = "idle"
  BY <1>0, AtRest DEF Preparing
<1>2. Len(req) \in Nat \ {0} /\ \A c \in 1 .. Len(req) : moved[c] = <<>>
  BY <1>0, <1>1, CommandFacts DEF MoveParts, StartInv
<1>3. eng'.st = "command" /\ eng'.id = 1 /\ eng'.at = ids[1]
  BY <1>0 DEF EngineOff
<1>4. InCommand'
  BY <1>0, <1>2, <1>3 DEF InCommand, UpToCommand
<1>5. EngineInv'
  BY <1>0, <1>1, <1>3, <1>4 DEF EngineInv
<1>6. DescrInv'
  BY <1>0, <1>1 DEF MoveParts, DescrInv, Chained, Ready, Cmd, HasBuffers
<1>7. StartInv' /\ PiecesInv' /\ Prefixes'
  BY <1>0 DEF MoveParts, StartInv, PiecesInv, Prefixes, Preparing
<1> QED
  BY <1>5, <1>6, <1>7 DEF MoveParts

\* Without DMA, and for SDMA, the first command names one buffer.
LEMMA OneBuffer ==
    ASSUME RequestsSuit, IInv, MoveInv, pc = "issue", sel \in {"none", "sdma"}
    PROVE  req[1].subs = <<>>
<1>0. pc \in Preparing /\ ChosenInv /\ StartInv
  BY DEF Preparing, MoveInv
<1>1. /\ FirstSuits(env, req[1]) /\ env \in Envs
  BY <1>0, CommandFacts DEF IInv, PrepTypes
<1>2. CASE sel = "sdma"
  BY <1>0, <1>2 DEF StartInv
<1>3. CASE sel = "none"
  <2>1. SUFFICES ASSUME req[1].subs # <<>> PROVE FALSE
    OBVIOUS
  <2>2. /\ "none" \notin env.modes /\ req[1].count > 1 /\ Aligned(req[1].buffer)
        /\ "adma2" \in env.caps \/ (env.long /\ "adma3" \in env.caps)
    BY <1>1, <2>1 DEF FirstSuits, Aligned
  <2>3. AutoMode(req[1]) # "none"
    BY <2>2 DEF AutoMode
  <2>4. dmaMode # "none"
    BY <1>0, <2>2 DEF ChosenInv
  <2>5. SpecifyMode(req[1]) = "none"
    BY <1>0, <1>3 DEF ChosenInv, Active
  <2> QED
    BY <2>3, <2>4, <2>5 DEF SpecifyMode
<1> QED
  BY <1>2, <1>3

LEMMA IssueParts ==
    ASSUME RequestsSuit, IInv, MoveInv, Issue
    PROVE  MoveParts'
<1>0. /\ MoveParts /\ ChosenInv /\ pc = "issue" /\ pc' = "wait" /\ sel \in {"none", "sdma", "adma2"}
      /\ UNCHANGED <<env, sel, req, stat, k, first, next, ids, table, moved, irq, isr, bufPos, remaining, addrReg>>
  BY DEF MoveInv, MoveParts, ChosenInv, Issue, ThreadAt, prepVars, cpuVars
<1>1. pc \in Preparing /\ stat = "pending" /\ irq = {} /\ isr = "idle"
  BY <1>0, AtRest DEF Preparing
<1>2. /\ Len(req) = 1 /\ Cmd = req[1] /\ Cmd.data /\ DataSuit(env, Cmd) /\ DataSize(Cmd) = Cmd.count * Cmd.len
      /\ Cmd.count \in Nat /\ Cmd.len \in Nat /\ Cmd.buffer \in Nat
  BY <1>0, <1>1, CommandFacts
<1>3. moved[1] = <<>> /\ Len(moved[1]) = 0
  BY <1>1, <1>2 DEF MoveInv, StartInv
<1>4. BlockCount(Cmd) = Cmd.count
  <2>1. CountWrap \in Nat \ {0} /\ (env.long \/ Cmd.count < CountWrap)
    BY <1>2, SizesAssumption DEF DataSuit
  <2> QED
    BY <1>2, <2>1 DEF BlockCount
<1> DEFINE n == Cmd.count * Cmd.len
<1>5. n \in Nat
  BY <1>2
<1>6. EngineInv'
  <2>1. CASE sel = "none"
    <3>1. eng' = [EngineOff EXCEPT !.st = "pio", !.left = Cmd.count]
      BY <1>4, <2>1 DEF Issue
    <3>2. eng'.st = "pio" /\ eng'.left = Cmd.count
      BY <3>1 DEF EngineOff
    <3>3. bufPos = Cmd.buffer /\ remaining = n /\ req[1].subs = <<>>
      BY <1>0, <1>1, <1>2, <2>1, OneBuffer DEF MoveInv, StartInv
    <3>4. bufPos = Cmd.buffer + 0 /\ remaining + 0 = n
      <4> HIDE DEF n
      <4> QED
        BY <1>2, <1>5, <3>3
    <3>5. ByCpu'
      BY <1>0, <1>2, <1>3, <2>1, <3>2, <3>3, <3>4 DEF ByCpu
    <3> QED
      BY <1>0, <1>1, <3>2, <3>5 DEF EngineInv
  <2>2. CASE sel = "sdma"
    <3>1. eng' = [EngineOff EXCEPT !.st = "sdma", !.left = n]
      BY <1>4, <2>2 DEF Issue
    <3>2. eng'.st = "sdma" /\ eng'.left = n
      BY <3>1 DEF EngineOff
    <3>3. addrReg = Cmd.buffer /\ req[1].subs = <<>>
      BY <1>0, <1>1, <1>2, <2>2 DEF MoveInv, StartInv
    <3>4. addrReg = Cmd.buffer + 0 /\ n + 0 = n
      <4> HIDE DEF n
      <4> QED
        BY <1>2, <1>5, <3>3
    <3>5. BySdma'
      BY <1>0, <1>2, <1>3, <2>2, <3>2, <3>3, <3>4 DEF BySdma
    <3> QED
      BY <1>0, <1>1, <3>2, <3>5 DEF EngineInv
  <2>3. CASE sel = "adma2"
    <3>1. eng' = [EngineOff EXCEPT !.st = "data"]
      BY <2>3 DEF Issue
    <3>2. eng'.st = "data" /\ eng'.at = 0
      BY <3>1 DEF EngineOff
    <3>3. Listed(env, table, 0, Memory(req[1]), 0, TableWords)
      BY <1>0, <2>3 DEF MoveInv, DescrInv
    <3>4. Part' = 1
      BY <1>0, <2>3 DEF Part
    <3>5. UpToCommand(1)'
      BY <1>0, <1>2 DEF UpToCommand
    <3>6. InData'
      BY <1>0, <1>2, <1>3, <2>3, <3>2, <3>3, <3>4, <3>5 DEF InData, UpToCommand
    <3> QED
      BY <1>0, <1>1, <3>2, <3>6 DEF EngineInv
  <2> QED
    BY <1>0, <2>1, <2>2, <2>3
<1>7. StartInv' /\ PiecesInv' /\ Prefixes' /\ DescrInv'
  BY <1>0 DEF MoveParts, StartInv, PiecesInv, Prefixes, DescrInv, Preparing, HasBuffers
<1> QED
  BY <1>6, <1>7 DEF MoveParts

LEMMA ReturnParts ==
    ASSUME IInv, MoveInv, Return
    PROVE  MoveParts'
<1>0. /\ MoveParts /\ pc' = "idle" /\ stat # "pending" /\ UNCHANGED <<req, stat, moved, irq, isr, eng>>
  BY DEF MoveInv, MoveParts, Return, hwVars
<1>1. eng = EngineOff
  BY <1>0 DEF IInv, Handshake, Quiet
<1>2. EngineInv'
  BY <1>0, <1>1 DEF MoveParts, EngineInv, EngineOff
<1> QED
  BY <1>0, <1>2 DEF MoveParts, StartInv, PiecesInv, Prefixes, DescrInv, Preparing, HasBuffers

LEMMA ThreadParts ==
    ASSUME RequestsSuit, IInv, MoveInv, Thread
    PROVE  MoveParts'
<1>1. RefuseSdma \/ RefuseCommands \/ SplitRefuse \/ RefuseDescriptors => Refuse /\ pc \in Preparing
  BY DEF RefuseSdma, RefuseCommands, SplitRefuse, RefuseDescriptors, ThreadAt, Preparing
<1> QED
  BY <1>1, RefuseParts, PrepareSdmaParts, BuffersParts, CreateCommandParts, CreateDescriptorsParts, AddressParts, Adma3Parts, IssueParts,
     ReturnParts DEF Thread

---------------------------------------------------------------------------------------
(***************************************************************************)
(* The engine and the handler at work.                                     *)
(***************************************************************************)

\* What does not change while a transfer runs.
LEMMA RunningKept ==
    ASSUME MoveParts, pc = "wait", UNCHANGED <<env, req, pc, k, first, next, ids, table, sel>>,
           stat' = "pending" => stat = "pending"
    PROVE  StartInv' /\ PiecesInv' /\ DescrInv'
<1>1. Chained => Chained'
  BY DEF Chained, Ready, HasBuffers
<1> QED
  BY <1>1 DEF MoveParts, StartInv, PiecesInv, DescrInv, Preparing, HasBuffers

LEMMA Busy ==
    ASSUME IInv, MoveInv, eng.st # "off" \/ isr # "idle" \/ irq # {}
    PROVE  /\ pc = "wait" /\ stat = "pending" /\ req # <<>> /\ req[1].data /\ sel = SpecifyMode(req[1])
           /\ MoveParts /\ (sel = "adma3" => Chained) /\ (sel # "adma3" => ids = <<>>)
<1>1. pc = "wait" /\ stat = "pending"
  <2>1. Quiet => eng.st = "off" /\ isr = "idle" /\ irq = {}
    BY DEF Quiet, EngineOff
  <2>2. ~Quiet
    BY <2>1
  <2> QED
    BY <2>2 DEF IInv, Handshake
<1> QED
  BY <1>1 DEF MoveInv, MoveParts, ChosenInv, NoChain, DescrInv, Active

\* The piece that is moved comes next in the memory of its command.
LEMMA PieceMoved ==
    ASSUME RequestsSuit, IInv, MoveInv, NEW c \in 1 .. Len(req), NEW a \in Nat, NEW n \in Nat, Move(c, a, n), req' = req,
           Len(moved[c]) + n <= Len(Memory(req[c])), \A x \in 1 .. n : Memory(req[c])[Len(moved[c]) + x] = a + x - 1
    PROVE  /\ Prefixes' /\ Len(moved'[c]) = Len(moved[c]) + n /\ Len(moved[c]) \in Nat
           /\ (Len(moved[c]) + n = Len(Memory(req[c])) => Whole(moved'[c], Memory(req[c])))
           /\ \A x \in 1 .. Len(req) : x # c => moved'[x] = moved[x]
<1> DEFINE m == Memory(req[c])
           d == Len(moved[c])
<1>1. moved \in [1 .. Len(req) -> Seq(Nat)] /\ Prefixes /\ ChosenInv
  BY DEF MoveInv, DataTypes
<1>2. m \in Seq(Nat) /\ d \in Nat
  BY <1>1, RequestFacts
<1>3. /\ moved'[c] = moved[c] \o Run(a, n) /\ Len(moved'[c]) = d + n
      /\ \A x \in 1 .. Len(req) : x # c => moved'[x] = moved[x]
  BY <1>1, MovedMore
<1>4. Begins(moved[c], m, d)
  BY <1>1 DEF Prefixes
<1>5. Begins(moved'[c], m, d + n)
  <2> HIDE DEF m, d
  <2>1. d + n <= Len(m) /\ \A x \in 1 .. n : m[d + x] = a + x - 1
    BY DEF m, d
  <2> QED
    BY <1>2, <1>3, <1>4, <2>1, BeginsMore
<1>6. Prefixes'
  <2> HIDE DEF d
  <2>1. ASSUME NEW x \in 1 .. Len(req) PROVE Begins(moved'[x], Memory(req[x]), Len(moved'[x]))
    <3>1. CASE x = c
      BY <1>3, <1>5, <3>1
    <3>2. CASE x # c
      BY <1>1, <1>3, <3>2 DEF Prefixes
    <3> QED
      BY <3>1, <3>2
  <2> QED
    BY <2>1 DEF Prefixes
<1>7. d + n = Len(m) => Whole(moved'[c], m)
  BY <1>5 DEF Whole
<1> QED
  BY <1>2, <1>3, <1>6, <1>7

\* One buffer, of which some words have been moved.
LEMMA BufferPart ==
    ASSUME RequestsSuit, IInv, MoveInv, Len(req) = 1, req # <<>>, req[1].data, req[1].subs = <<>>
    PROVE  /\ req[1].buffer \in Nat /\ req[1].count \in Nat /\ req[1].len \in Nat
           /\ req[1].count * req[1].len \in Nat /\ Len(Memory(req[1])) = req[1].count * req[1].len
           /\ \A x \in 1 .. req[1].count * req[1].len : Memory(req[1])[x] = req[1].buffer + x - 1
           /\ Len(moved[1]) \in Nat /\ Whole(moved[1], Memory(req[1])) = (Len(moved[1]) = req[1].count * req[1].len)
<1> DEFINE n == req[1].count * req[1].len
           m == Memory(req[1])
           d == Len(moved[1])
<1>1. ChosenInv /\ Prefixes /\ 1 \in 1 .. Len(req) /\ moved \in [1 .. Len(req) -> Seq(Nat)]
  BY DEF MoveInv, DataTypes
<1>2. req[1] \in Command /\ DataSuit(env, req[1])
  BY <1>1, RequestFacts
<1>3. req[1].buffer \in Nat /\ req[1].count \in Nat /\ req[1].len \in Nat /\ n \in Nat
  BY <1>2, SizeFacts
<1>4. m = Run(req[1].buffer, n)
  BY MemoryIs, Zenon
<1>5. Len(m) = n /\ \A x \in 1 .. n : m[x] = req[1].buffer + x - 1
  <2> HIDE DEF m, n
  <2> QED
    BY <1>3, <1>4, RunFacts
<1>6. d \in Nat /\ Begins(moved[1], m, d)
  BY <1>1 DEF Prefixes
<1>7. Whole(moved[1], m) = (d = n)
  <2> HIDE DEF m, n
  <2> QED
    BY <1>5, <1>6 DEF Whole, Begins
<1> QED
  BY <1>3, <1>5, <1>6, <1>7

LEMMA EngSdmaParts ==
    ASSUME RequestsSuit, IInv, MoveInv, EngSdma
    PROVE  MoveParts'
<1>0. eng.st = "sdma" /\ UNCHANGED <<env, sel, req, stat, pc, k, first, next, ids, table, isr>>
  BY DEF EngSdma, KeepCpu, prepVars
<1>1. /\ pc = "wait" /\ stat = "pending" /\ req # <<>> /\ req[1].data /\ MoveParts /\ BySdma
  BY <1>0, Busy DEF MoveInv, EngineInv
<1>2. irq = {} /\ isr = "idle"
  BY <1>0 DEF IInv, Handshake, Waiting, EngineOff
<1>3. PICK n \in Nat : /\ n <= eng.left /\ Move(1, addrReg, n) /\ addrReg' = addrReg + n
                       /\ \/ eng' = EngineOff /\ n = eng.left /\ irq' = irq \cup {"complete"}
                          \/ eng' = [eng EXCEPT !.st = "boundary", !.left = eng.left - n] /\ irq' = irq \cup {"dma"}
  BY SdmaStep
<1> DEFINE s == req[1].count * req[1].len
           m == Memory(req[1])
           d == Len(moved[1])
<1>4. /\ req[1].buffer \in Nat /\ s \in Nat /\ Len(m) = s /\ d \in Nat
      /\ \A x \in 1 .. s : m[x] = req[1].buffer + x - 1
  BY <1>1, BufferPart DEF BySdma
<1>5. addrReg = req[1].buffer + d /\ eng.left + d = s /\ addrReg \in Nat /\ eng.left \in Nat
  BY <1>1 DEF BySdma, MoveInv, DataTypes
<1>6. d + n <= Len(m) /\ \A x \in 1 .. n : m[d + x] = addrReg + x - 1
  <2> HIDE DEF s, m, d
  <2>1. d + n <= s
    BY <1>3, <1>4, <1>5
  <2>2. ASSUME NEW x \in 1 .. n PROVE m[d + x] = addrReg + x - 1
    <3>1. d + x \in 1 .. s
      BY <1>4, <2>1
    <3>2. m[d + x] = req[1].buffer + (d + x) - 1
      BY <1>4, <3>1, Zenon
    <3> QED
      BY <1>4, <1>5, <3>2
  <2> QED
    BY <1>4, <2>1, <2>2
<1>7. 1 \in 1 .. Len(req)
  BY <1>1 DEF BySdma
<1>8. /\ Prefixes' /\ Len(moved'[1]) = d + n /\ (d + n = Len(m) => Whole(moved'[1], m))
  BY <1>0, <1>3, <1>5, <1>6, <1>7, PieceMoved
<1>9. StartInv' /\ PiecesInv' /\ DescrInv'
  BY <1>0, <1>1, RunningKept
<1>10. CASE eng' = EngineOff /\ n = eng.left /\ irq' = irq \cup {"complete"}
  <2>1. d + n = Len(m)
    <3> HIDE DEF s, m, d
    <3> QED
      BY <1>3, <1>4, <1>5, <1>10
  <2>2. \A c \in 1 .. Len(req) : Whole(moved'[c], Memory(req[c]))
    BY <1>1, <1>8, <2>1 DEF BySdma
  <2>3. EngineInv'
    BY <1>0, <1>10, <2>2 DEF EngineInv, EngineOff
  <2> QED
    BY <1>8, <1>9, <2>3 DEF MoveParts
<1>11. CASE eng' = [eng EXCEPT !.st = "boundary", !.left = eng.left - n] /\ irq' = irq \cup {"dma"}
  <2>1. eng \in EngineTypes
    BY DEF MoveInv, DataTypes, EngineTypes
  <2>2. eng'.st = "boundary" /\ eng'.left = eng.left - n
    BY <1>11, <2>1 DEF EngineTypes
  <2>3. addrReg' = req[1].buffer + Len(moved'[1]) /\ eng'.left + Len(moved'[1]) = s
    <3> HIDE DEF s, d, m
    <3> QED
      BY <1>3, <1>4, <1>5, <1>8, <2>2
  <2>4. BySdma'
    BY <1>0, <1>1, <2>3 DEF BySdma
  <2>5. EngineInv'
    BY <1>0, <1>1, <1>2, <1>11, <2>2, <2>4 DEF EngineInv
  <2> QED
    BY <1>8, <1>9, <2>5 DEF MoveParts
<1> QED
  BY <1>3, <1>10, <1>11

LEMMA EngBlockParts ==
    ASSUME RequestsSuit, IInv, MoveInv, EngBlock
    PROVE  MoveParts'
<1>0. /\ eng.st = "pio" /\ UNCHANGED <<env, sel, req, stat, pc, k, first, next, ids, table, isr, moved, bufPos, remaining>>
      /\ eng' = IF eng.left = 0 THEN EngineOff ELSE [eng EXCEPT !.st = "block", !.left = eng.left - 1]
      /\ irq' = irq \cup {IF eng.left = 0 THEN "complete" ELSE "buffer"}
  BY DEF EngBlock, KeepCpu, prepVars, cpuVars
<1>1. /\ pc = "wait" /\ stat = "pending" /\ req # <<>> /\ req[1].data /\ MoveParts /\ ByCpu
  BY <1>0, Busy DEF MoveInv, EngineInv
<1>2. irq = {} /\ isr = "idle"
  BY <1>0 DEF IInv, Handshake, Waiting, EngineOff
<1>3. eng \in EngineTypes /\ remaining \in Nat
  BY DEF MoveInv, DataTypes, EngineTypes
<1> DEFINE s == req[1].count * req[1].len
           d == Len(moved[1])
<1>4. /\ req[1].len \in Nat /\ s \in Nat /\ d \in Nat
      /\ Whole(moved[1], Memory(req[1])) = (d = s)
  BY <1>1, BufferPart DEF ByCpu
<1>5. remaining + d = s /\ remaining = eng.left * req[1].len
  BY <1>0, <1>1 DEF ByCpu
<1>6. StartInv' /\ PiecesInv' /\ DescrInv'
  BY <1>0, <1>1, RunningKept
<1>7. Prefixes'
  BY <1>0, <1>1 DEF MoveParts, Prefixes
<1>8. CASE eng.left = 0
  <2>1. eng'.st = "off"
    BY <1>0, <1>8 DEF EngineOff
  <2>2. remaining = 0
    BY <1>4, <1>5, <1>8
  <2>3. d = s
    <3> HIDE DEF d, s
    <3> QED
      BY <1>3, <1>4, <1>5, <2>2
  <2>4. \A c \in 1 .. Len(req) : Whole(moved[c], Memory(req[c]))
    <3>1. Len(req) = 1 /\ Whole(moved[1], Memory(req[1]))
      <4> HIDE DEF d, s
      <4> QED
        BY <1>1, <1>4, <2>3 DEF ByCpu
    <3> QED
      BY <3>1
  <2>5. EngineInv'
    BY <1>0, <2>1, <2>4 DEF EngineInv
  <2> QED
    BY <1>6, <1>7, <2>5 DEF MoveParts
<1>9. CASE eng.left # 0
  <2>1. eng'.st = "block" /\ eng'.left = eng.left - 1
    BY <1>0, <1>3, <1>9 DEF EngineTypes
  <2>2. eng'.left + 1 = eng.left
    BY <1>3, <1>9, <2>1 DEF EngineTypes
  <2>3. ByCpu'
    BY <1>0, <1>1, <1>5, <2>1, <2>2 DEF ByCpu
  <2>4. irq' = {"buffer"}
    BY <1>0, <1>2, <1>9
  <2>5. EngineInv'
    BY <1>0, <1>1, <1>2, <2>1, <2>3, <2>4 DEF EngineInv
  <2> QED
    BY <1>6, <1>7, <2>5 DEF MoveParts
<1> QED
  BY <1>8, <1>9

\* While the engine reads descriptors no interrupt is raised or served.
LEMMA AtWork ==
    ASSUME IInv, MoveInv, eng.st \in {"command", "data"}
    PROVE  irq = {} /\ isr = "idle" /\ eng \in EngineTypes
<1>1. eng # EngineOff
  BY DEF EngineOff
<1>2. irq = {} /\ isr = "idle"
  BY <1>1 DEF IInv, Handshake, Waiting
<1> QED
  BY <1>2 DEF MoveInv, DataTypes, EngineTypes

\* After a command whose data is all moved comes the next one, or the transfer is complete.
LEMMA CommandDone ==
    ASSUME RequestsSuit, IInv, MoveInv, eng.st \in {"command", "data"}, EngNext, Part \in 1 .. Len(req),
           sel = "adma3" \/ (Len(req) = 1 /\ ids = <<>>),
           UNCHANGED <<env, sel, req, stat, ids, isr>>, moved' \in [1 .. Len(req) -> Seq(Nat)],
           Whole(moved'[Part], Memory(req[Part])), UpToCommand(Part),
           \A x \in 1 .. Len(req) : x # Part => moved'[x] = moved[x]
    PROVE  EngineInv'
<1>0. pc = "wait" /\ stat = "pending" /\ (sel = "adma3" => Chained)
  BY Busy
<1>1. irq = {} /\ isr = "idle" /\ eng \in EngineTypes /\ Len(req) \in Nat /\ ids \in Seq(Nat)
  BY AtWork, RequestFacts DEF MoveInv, DataTypes
<1>2. sel = "adma3" => Len(ids) = Len(req) /\ Part = eng.id
  BY <1>0 DEF Chained, HasBuffers, Part
<1>3. \A c \in 1 .. Part : Whole(moved'[c], Memory(req[c]))
  <2>1. ASSUME NEW c \in 1 .. Part, c # Part PROVE Whole(moved'[c], Memory(req[c]))
    <3>1. c \in 1 .. Part - 1 /\ c \in 1 .. Len(req)
      BY <1>1, <2>1
    <3>2. Whole(moved[c], Memory(req[c]))
      BY <3>1 DEF UpToCommand
    <3> QED
      BY <2>1, <3>1, <3>2
  <2> QED
    BY <2>1
<1>4. \A c \in Part + 1 .. Len(req) : moved'[c] = <<>>
  <2>1. ASSUME NEW c \in Part + 1 .. Len(req) PROVE moved'[c] = <<>>
    <3>1. c \in 1 .. Len(req) /\ c # Part
      BY <1>1
    <3> QED
      BY <3>1 DEF UpToCommand
  <2> QED
    BY <2>1
<1>5. CASE eng.id < Len(ids)
  <2>0. sel = "adma3"
    BY <1>1, <1>5 DEF EngineTypes
  <2>1. eng' = [eng EXCEPT !.st = "command", !.id = eng.id + 1, !.at = ids[eng.id + 1]] /\ irq' = irq
    BY <1>5 DEF EngNext
  <2>2. eng'.st = "command" /\ eng'.id = eng.id + 1 /\ eng'.at = ids[eng.id + 1]
    BY <1>1, <2>1 DEF EngineTypes
  <2>3. /\ eng'.id \in 1 .. Len(req) /\ eng'.id = Part + 1
        /\ \A c \in 1 .. eng'.id - 1 : c \in 1 .. Part
        /\ \A c \in eng'.id + 1 .. Len(req) : c \in Part + 1 .. Len(req)
    BY <1>1, <1>2, <1>5, <2>0, <2>2
  <2>4. moved'[eng'.id] = <<>>
    <3>1. eng'.id \in Part + 1 .. Len(req)
      BY <1>1, <2>3
    <3> QED
      BY <1>4, <3>1
  <2>5. UpToCommand(eng.id)'
    BY <1>3, <1>4, <2>3 DEF UpToCommand
  <2>6. InCommand'
    BY <2>0, <2>2, <2>4, <2>5 DEF InCommand, UpToCommand
  <2> QED
    BY <1>0, <1>1, <2>1, <2>2, <2>6 DEF EngineInv
<1>6. CASE ~(eng.id < Len(ids))
  <2>1. eng'.st = "off"
    BY <1>6 DEF EngNext, EngineOff
  <2>2. Part = Len(req)
    <3>1. CASE sel = "adma3"
      BY <1>1, <1>2, <1>6, <3>1
    <3>2. CASE sel # "adma3"
      BY <3>2 DEF Part
    <3> QED
      BY <3>1, <3>2
  <2>3. \A c \in 1 .. Len(req) : Whole(moved'[c], Memory(req[c]))
    BY <1>3, <2>2
  <2> QED
    BY <2>1, <2>3 DEF EngineInv
<1> QED
  BY <1>5, <1>6

LEMMA EngCommandParts ==
    ASSUME RequestsSuit, IInv, MoveInv, EngCommand
    PROVE  MoveParts'
<1>0. /\ eng.st = "command" /\ UNCHANGED <<env, sel, req, stat, pc, k, first, next, ids, table, isr, moved>>
      /\ IF table[eng.at + 6].end THEN EngNext
         ELSE eng' = [eng EXCEPT !.st = "data", !.at = eng.at + CommandLen] /\ UNCHANGED irq
  BY DEF EngCommand, KeepCpu, prepVars, cpuVars
<1>1. /\ pc = "wait" /\ stat = "pending" /\ req # <<>> /\ req[1].data /\ MoveParts /\ InCommand /\ Chained
      /\ irq = {} /\ isr = "idle" /\ eng \in EngineTypes
  <2>1. InCommand
    BY <1>0 DEF MoveInv, EngineInv
  <2> QED
    BY <1>0, <2>1, Busy, AtWork DEF InCommand
<1>2. /\ sel = "adma3" /\ Part = eng.id /\ eng.id \in 1 .. Len(req) /\ UpToCommand(eng.id) /\ eng.at = ids[eng.id]
      /\ moved[eng.id] = <<>>
  BY <1>1 DEF InCommand, UpToCommand, Part
<1>3. Len(ids) = Len(req) /\ Described(env, table, eng.at, req[eng.id], TableWords) /\ TableWords \in Nat
  <2>1. Len(ids) = Len(req) /\ \A i \in 1 .. Len(ids) : Described(env, table, ids[i], req[i], TableWords)
    BY <1>1 DEF Chained, Ready, HasBuffers
  <2> QED
    BY <1>2, <2>1, BufferSize DEF IInv, PrepTypes
<1>4. StartInv' /\ PiecesInv' /\ DescrInv'
  BY <1>0, <1>1, RunningKept
<1>5. Prefixes'
  BY <1>0, <1>1 DEF MoveParts, Prefixes
<1>6. req[eng.id] \in Command /\ req[eng.id].data \in BOOLEAN
  BY <1>2, RequestFacts DEF MoveInv, Command
<1>7. CASE table[eng.at + 6].end
  <2>1. ~req[eng.id].data
    BY <1>3, <1>6, <1>7 DEF Described
  <2>2. Memory(req[eng.id]) = <<>>
    BY <2>1, MemoryIs
  <2>3. Whole(moved'[eng.id], Memory(req[eng.id]))
    <3>1. <<>> \in Seq(Nat) /\ Len(<<>>) = 0
      OBVIOUS
    <3>2. Whole(<<>>, <<>>)
      BY <3>1, BeginsNothing, Zenon DEF Whole
    <3> QED
      BY <1>0, <1>2, <2>2, <3>2
  <2>4. moved' \in [1 .. Len(req) -> Seq(Nat)]
    BY <1>0 DEF MoveInv, DataTypes
  <2>5. EngineInv'
    BY <1>0, <1>2, <1>7, <2>3, <2>4, CommandDone
  <2> QED
    BY <1>4, <1>5, <2>5 DEF MoveParts
<1>8. CASE ~table[eng.at + 6].end
  <2>1. eng' = [eng EXCEPT !.st = "data", !.at = eng.at + CommandLen] /\ irq' = irq
    BY <1>0, <1>8
  <2>2. eng'.st = "data" /\ eng'.at = eng.at + CommandLen /\ eng'.id = eng.id
    BY <1>1, <2>1 DEF EngineTypes
  <2>3. req[eng.id].data
    BY <1>3, <1>6, <1>8 DEF Described
  <2>4. Listed(env, table, eng.at + CommandLen, Memory(req[eng.id]), 0, TableWords)
    BY <1>3, <2>3 DEF Described
  <2>5. Part' = eng.id /\ Len(moved[eng.id]) = 0
    BY <1>0, <1>2, <2>2 DEF Part
  <2>6. UpToCommand(eng.id)' /\ eng'.id = eng.id
    BY <1>0, <1>2, <2>2 DEF UpToCommand
  <2>7. InData'
    BY <1>0, <1>2, <2>2, <2>4, <2>5, <2>6 DEF InData, UpToCommand
  <2>8. EngineInv'
    BY <1>0, <1>1, <2>1, <2>2, <2>7 DEF EngineInv
  <2> QED
    BY <1>4, <1>5, <2>8 DEF MoveParts
<1> QED
  BY <1>7, <1>8

LEMMA EngDataParts ==
    ASSUME RequestsSuit, IInv, MoveInv, EngData
    PROVE  MoveParts'
<1> DEFINE a == Named(env, table, eng.at)
           n == Taken(env, table, eng.at)
           m == Memory(req[Part])
           d == Len(moved[Part])
<1>0. eng.st = "data" /\ UNCHANGED <<env, sel, req, stat, pc, k, first, next, ids, table, isr>>
  BY DEF EngData, KeepCpu, prepVars
<1>1. /\ pc = "wait" /\ stat = "pending" /\ MoveParts /\ (sel # "adma3" => ids = <<>>)
      /\ irq = {} /\ isr = "idle" /\ eng \in EngineTypes
  BY <1>0, Busy, AtWork
<1>2. /\ InData /\ Part \in 1 .. Len(req) /\ Move(Part, a, n) /\ a \in Nat /\ n \in Nat /\ d \in Nat
      /\ NamesPiece(env, table, eng.at, m, d)
      /\ d + n <= Len(m) /\ m \in Seq(Nat)
      /\ \/ EngNext /\ d + n = Len(m)
         \/ /\ eng' = [eng EXCEPT !.at = eng.at + DescLen] /\ UNCHANGED irq
            /\ Listed(env, table, eng.at + DescLen, m, d + n, TableWords)
  BY DataStep, Zenon
<1>3. \A x \in 1 .. n : m[d + x] = a + x - 1
  BY <1>2, Zenon DEF NamesPiece
<1>4. /\ Prefixes' /\ Len(moved'[Part]) = d + n /\ (d + n = Len(m) => Whole(moved'[Part], m))
      /\ \A x \in 1 .. Len(req) : x # Part => moved'[x] = moved[x]
  BY <1>0, <1>2, <1>3, PieceMoved
<1>5. StartInv' /\ PiecesInv' /\ DescrInv'
  BY <1>0, <1>1, RunningKept
<1>6. UpToCommand(Part) /\ (sel = "adma3" \/ (sel = "adma2" /\ Len(req) = 1))
  BY <1>2 DEF InData
<1>7. CASE EngNext /\ d + n = Len(m)
  <2>1. Whole(moved'[Part], m)
    BY <1>4, <1>7
  <2>2. moved' \in [1 .. Len(req) -> Seq(Nat)]
    BY <1>2, MovedMore DEF MoveInv, DataTypes
  <2>3. sel = "adma3" \/ (Len(req) = 1 /\ ids = <<>>)
    BY <1>1, <1>6
  <2>4. EngineInv'
    <3> HIDE DEF a, n, d
    <3> QED
      BY <1>0, <1>2, <1>4, <1>6, <1>7, <2>1, <2>2, <2>3, CommandDone
  <2> QED
    BY <1>4, <1>5, <2>4 DEF MoveParts
<1>8. CASE /\ eng' = [eng EXCEPT !.at = eng.at + DescLen] /\ UNCHANGED irq
           /\ Listed(env, table, eng.at + DescLen, m, d + n, TableWords)
  <2>1. eng'.st = "data" /\ eng'.at = eng.at + DescLen /\ eng'.id = eng.id
    BY <1>0, <1>1, <1>8 DEF EngineTypes
  <2>2. Part' = Part
    BY <1>0, <2>1 DEF Part
  <2>3. \A c \in 1 .. Len(req) : c # Part => moved'[c] = moved[c]
    BY <1>4
  <2>4. /\ \A c \in 1 .. Part - 1 : Whole(moved'[c], Memory(req[c]))
        /\ \A c \in Part + 1 .. Len(req) : moved'[c] = <<>>
    <3> DEFINE p == Part
    <3>0. p \in 1 .. Len(req) /\ \A c \in 1 .. Len(req) : c # p => moved'[c] = moved[c]
      BY <1>2, <2>3
    <3>1. /\ \A c \in 1 .. p - 1 : Whole(moved[c], Memory(req[c]))
          /\ \A c \in p + 1 .. Len(req) : moved[c] = <<>>
      BY <1>6 DEF UpToCommand
    <3> HIDE DEF p
    <3>2. Len(req) \in Nat
      BY RequestFacts DEF MoveInv
    <3>3. ASSUME NEW c \in 1 .. p - 1 PROVE Whole(moved'[c], Memory(req[c]))
      <4>1. c \in 1 .. Len(req) /\ c # p
        BY <3>0, <3>2
      <4> QED
        BY <3>0, <3>1, <4>1
    <3>4. ASSUME NEW c \in p + 1 .. Len(req) PROVE moved'[c] = <<>>
      <4>1. c \in 1 .. Len(req) /\ c # p
        BY <3>0, <3>2
      <4> QED
        BY <3>0, <3>1, <4>1
    <3> QED
      BY <3>3, <3>4 DEF p
  <2>5. Listed(env', table', eng'.at, Memory(req'[Part]), Len(moved'[Part]), TableWords)
    BY <1>0, <1>4, <1>8, <2>1
  <2>6. InData'
    BY <1>0, <1>2, <1>6, <2>2, <2>4, <2>5 DEF InData, UpToCommand
  <2>7. EngineInv'
    BY <1>0, <1>1, <1>8, <2>1, <2>6 DEF EngineInv
  <2> QED
    BY <1>4, <1>5, <2>7 DEF MoveParts
<1> QED
  BY <1>2, <1>7, <1>8

LEMMA IsrEnterParts ==
    ASSUME RequestsSuit, IInv, MoveInv, IsrEnter
    PROVE  MoveParts'
<1>0. /\ irq # {} /\ irq' = {} /\ isr' \in {"buffer", "complete", "dma"} /\ (isr' = "complete" => "complete" \in irq)
      /\ UNCHANGED <<env, sel, req, stat, pc, k, first, next, ids, table, moved, eng, bufPos, remaining, addrReg>>
  BY DEF IsrEnter, prepVars, cpuVars
<1>1. pc = "wait" /\ stat = "pending" /\ MoveParts /\ EngineInv
  BY <1>0, Busy DEF MoveInv
<1>2. StartInv' /\ PiecesInv' /\ DescrInv' /\ Prefixes'
  BY <1>0, <1>1, RunningKept DEF MoveParts, Prefixes
<1>3. (BySdma => BySdma') /\ (ByCpu => ByCpu') /\ (InCommand => InCommand') /\ (InData => InData')
  BY <1>0 DEF BySdma, ByCpu, InCommand, InData, UpToCommand, Part
<1>4. EngineInv'
  BY <1>0, <1>1, <1>3 DEF EngineInv
<1> QED
  BY <1>2, <1>4 DEF MoveParts

LEMMA IsrBufferParts ==
    ASSUME RequestsSuit, IInv, MoveInv, IsrBuffer
    PROVE  MoveParts'
<1> DEFINE s == req[1].count * req[1].len
           l == req[1].len
           m == Memory(req[1])
           d == Len(moved[1])
           n == DataToCopy(req[1])
<1>0. /\ isr = "buffer" /\ isr' = "idle" /\ Move(1, bufPos, n) /\ bufPos' = bufPos + n /\ remaining' = remaining - n
      /\ eng' = [eng EXCEPT !.st = "pio"]
      /\ UNCHANGED <<env, sel, req, stat, pc, k, first, next, ids, table, irq>>
  BY DEF IsrBuffer, prepVars
<1>1. eng.st = "block" /\ irq = {}
  BY <1>0 DEF IInv, Handshake, Waiting
<1>2. /\ pc = "wait" /\ stat = "pending" /\ req # <<>> /\ req[1].data /\ MoveParts /\ ByCpu
  BY <1>1, Busy DEF MoveInv, EngineInv
<1>3. /\ req[1].buffer \in Nat /\ l \in Nat /\ s \in Nat /\ Len(m) = s /\ d \in Nat
      /\ \A x \in 1 .. s : m[x] = req[1].buffer + x - 1
  BY <1>2, BufferPart DEF ByCpu
<1>4. /\ bufPos = req[1].buffer + d /\ remaining + d = s /\ remaining = (eng.left + 1) * l /\ Len(req) = 1
      /\ bufPos \in Nat /\ remaining \in Nat /\ eng \in EngineTypes /\ eng.left \in Nat
  BY <1>1, <1>2 DEF ByCpu, MoveInv, DataTypes, EngineTypes
<1>5. n = l /\ remaining - l = eng.left * l /\ eng.left * l \in Nat
  <2>1. (eng.left + 1) * l = eng.left * l + l /\ eng.left * l \in Nat
    <3> HIDE DEF l
    <3> QED
      BY <1>3, <1>4
  <2> DEFINE r == eng.left * l
  <2>2. remaining = r + l /\ r \in Nat
    BY <1>4, <2>1
  <2> HIDE DEF r, l
  <2>3. ~(remaining < l) /\ remaining - l = r
    BY <1>3, <2>2
  <2>4. n = IF remaining < l THEN remaining ELSE l
    BY DEF DataToCopy, l
  <2> QED
    BY <2>2, <2>3, <2>4 DEF r
<1>6. n \in Nat /\ d + n <= s
  <2> HIDE DEF l, s, d, n
  <2>1. remaining - l \in Nat
    BY <1>5
  <2> QED
    BY <1>3, <1>4, <1>5, <2>1
<1>7. d + n <= Len(m) /\ \A x \in 1 .. n : m[d + x] = bufPos + x - 1
  <2> HIDE DEF s, m, d, n
  <2>2. ASSUME NEW x \in 1 .. n PROVE m[d + x] = bufPos + x - 1
    <3>1. d + x \in 1 .. s
      BY <1>3, <1>6
    <3>2. m[d + x] = req[1].buffer + (d + x) - 1
      BY <1>3, <3>1, Zenon
    <3>3. bufPos = req[1].buffer + d /\ req[1].buffer \in Nat /\ d \in Nat
      BY <1>3, <1>4
    <3> QED
      BY <3>2, <3>3
  <2>3. d + n <= Len(m)
    BY <1>3, <1>6
  <2> QED
    BY <2>2, <2>3
<1>8. Prefixes' /\ Len(moved'[1]) = d + n
  BY <1>0, <1>4, <1>6, <1>7, PieceMoved
<1>9. StartInv' /\ PiecesInv' /\ DescrInv'
  BY <1>0, <1>2, RunningKept
<1>10. eng'.st = "pio" /\ eng'.left = eng.left
  BY <1>0, <1>4 DEF EngineTypes
<1>11. /\ bufPos' = req[1].buffer + Len(moved'[1]) /\ remaining' + Len(moved'[1]) = s /\ remaining' = eng'.left * l
  <2> DEFINE y == eng.left * l
             b == req[1].buffer
  <2>1. b \in Nat /\ bufPos = b + d /\ remaining + d = s /\ remaining - l = y /\ n = l
    BY <1>3, <1>4, <1>5
  <2>2. bufPos' = bufPos + n /\ remaining' = remaining - n /\ Len(moved'[1]) = d + n /\ eng'.left * l = y
    BY <1>0, <1>8, <1>10
  <2>3. d \in Nat /\ n \in Nat /\ s \in Nat /\ bufPos \in Nat /\ remaining \in Nat
    BY <1>3, <1>4, <1>6
  <2> HIDE DEF s, m, d, n, l, y, b
  <2>4. bufPos' = b + Len(moved'[1])
    BY <2>1, <2>2, <2>3
  <2>5. remaining' + Len(moved'[1]) = s
    BY <2>1, <2>2, <2>3
  <2>6. remaining' = eng'.left * l
    BY <2>1, <2>2
  <2> QED
    BY <2>4, <2>5, <2>6 DEF b
<1>12. ByCpu'
  BY <1>0, <1>2, <1>10, <1>11 DEF ByCpu
<1>13. EngineInv'
  BY <1>0, <1>1, <1>2, <1>10, <1>12 DEF EngineInv
<1> QED
  BY <1>8, <1>9, <1>13 DEF MoveParts

LEMMA ServeParts ==
    ASSUME RequestsSuit, IInv, MoveInv, IsrComplete \/ IsrDma \/ IsrResume
    PROVE  MoveParts'
<1>0. /\ UNCHANGED <<env, req, pc, k, first, next, ids, table, moved, addrReg, remaining>> /\ isr # "idle"
      /\ sel' = sel \/ sel' = SpecifyMode(req[1])
  <2>1. CASE IsrComplete
    BY <2>1 DEF IsrComplete, prepVars, cpuVars
  <2>2. CASE IsrDma
    BY <2>2 DEF IsrDma, prepVars, cpuVars
  <2>3. CASE IsrResume
    BY <2>3 DEF IsrResume, prepVars
  <2> QED
    BY <2>1, <2>2, <2>3
<1>1. /\ pc = "wait" /\ stat = "pending" /\ MoveParts /\ EngineInv /\ irq = {} /\ sel' = sel
  BY <1>0, Busy DEF IInv, Handshake, MoveInv
<1>2. StartInv' /\ PiecesInv' /\ DescrInv' /\ Prefixes'
  BY <1>0, <1>1, RunningKept DEF MoveParts, Prefixes
<1>3. CASE IsrComplete
  <2>1. isr = "complete" /\ eng' = eng /\ eng.st = "off"
    BY <1>3 DEF IsrComplete, IInv, Handshake, EngineOff
  <2>2. EngineInv'
    BY <1>0, <1>1, <2>1 DEF EngineInv
  <2> QED
    BY <1>2, <2>2 DEF MoveParts
<1>4. CASE IsrDma \/ IsrResume
  <2>1. /\ eng.st = "boundary" /\ stat' = stat /\ irq' \subseteq irq /\ isr' \in {"idle", "first", "second"}
        /\ eng' = eng \/ eng' = [eng EXCEPT !.st = "sdma"]
    BY <1>4 DEF IsrDma, IsrResume, Do, HandlerOrder, IInv, Handshake, Waiting
  <2>2. eng \in EngineTypes
    BY DEF MoveInv, DataTypes, EngineTypes
  <2>3. eng'.st \in {"sdma", "boundary"} /\ eng'.left = eng.left
    BY <2>1, <2>2 DEF EngineTypes
  <2>4. BySdma'
    BY <1>0, <1>1, <2>1, <2>3 DEF EngineInv, BySdma
  <2>5. EngineInv'
    BY <1>1, <2>1, <2>3, <2>4 DEF EngineInv
  <2> QED
    BY <1>2, <2>5 DEF MoveParts
<1> QED
  BY <1>3, <1>4

---------------------------------------------------------------------------------------
LEMMA NextMoveInv == RequestsSuit /\ IInv /\ MoveInv /\ [Next]_vars => MoveInv'
<1> SUFFICES ASSUME RequestsSuit, IInv, MoveInv, [Next]_vars PROVE MoveInv'
  OBVIOUS
<1>1. CASE Next
  <2>1. DataTypes' /\ ChosenInv' /\ NoChain'
    BY <1>1, TypesNext, ChosenNext, NoChainNext
  <2>2. MoveParts'
    <3>1. CASE Poll
      BY <3>1, PartsKept DEF MoveInv, MoveParts, Poll, vars
    <3>2. CASE Engine
      BY <3>2, EngSdmaParts, EngBlockParts, EngCommandParts, EngDataParts DEF Engine
    <3>3. CASE Handler
      BY <3>3, IsrEnterParts, IsrBufferParts, ServeParts DEF Handler
    <3> QED
      BY <1>1, <3>1, <3>2, <3>3, ClientParts, ThreadParts DEF Next
  <2> QED
    BY <2>1, <2>2 DEF MoveInv, MoveParts
<1>2. CASE UNCHANGED vars
  <2>1. DataTypes'
    BY <1>2, TypesKept DEF MoveInv, vars, prepVars, cpuVars, hwVars
  <2>2. ChosenInv'
    <3>1. UNCHANGED <<env, dmaMode, sel, req, pc>>
      BY <1>2 DEF vars
    <3> QED
      BY <3>1, ChosenKept DEF MoveInv, ChosenInv
  <2>3. NoChain'
    BY <1>2 DEF MoveInv, NoChain, Active, vars, prepVars
  <2>4. MoveParts'
    BY <1>2, PartsKept DEF MoveInv, MoveParts, vars
  <2> QED
    BY <2>1, <2>2, <2>3, <2>4 DEF MoveInv, MoveParts
<1> QED
  BY <1>1, <1>2

\* The whole invariant is inductive.
LEMMA MovesInductive == RequestsSuit /\ Spec => [](IInv /\ MoveInv)
<1> SUFFICES ASSUME RequestsSuit PROVE Spec => [](IInv /\ MoveInv)
  OBVIOUS
<1>1. Init => IInv /\ MoveInv
  BY InitIInv, MoveInvStarts
<1>2. IInv /\ MoveInv /\ [Next]_vars => (IInv /\ MoveInv)'
  BY NextIInv, NextMoveInv
<1> QED
  BY <1>1, <1>2, PTL DEF Spec

\* Whatever has been moved for a command is the memory the client named, from its beginning and
\* in its order: the split of a buffer, the descriptors of ADMA2 and ADMA3, the boundaries at which
\* SDMA is resumed and the blocks the CPU copies never skip, repeat or swap a word
\* (sdio_dma.c, and the transfer interrupts of sdio_host.c).
THEOREM TransfersInOrder == RequestsSuit /\ Spec => []MovesInOrder
<1> SUFFICES ASSUME RequestsSuit PROVE Spec => []MovesInOrder
  OBVIOUS
<1>1. IInv /\ MoveInv => MovesInOrder
  <2> SUFFICES ASSUME IInv, MoveInv PROVE MovesInOrder
    OBVIOUS
  <2>1. ChosenInv /\ Prefixes /\ DOMAIN moved = 1 .. Len(req)
    BY DEF MoveInv, DataTypes
  <2>2. ASSUME NEW c \in 1 .. Len(req)
        PROVE  Len(moved[c]) <= Len(Memory(req[c])) /\ moved[c] = SubSeq(Memory(req[c]), 1, Len(moved[c]))
    <3>1. Memory(req[c]) \in Seq(Nat)
      BY <2>1, RequestFacts
    <3>2. Begins(moved[c], Memory(req[c]), Len(moved[c]))
      BY <2>1 DEF Prefixes
    <3> QED
      BY <3>1, <3>2, BeginsPart
  <2> QED
    BY <2>1, <2>2 DEF MovesInOrder
<1> QED
  BY <1>1, MovesInductive, PTL

\* A request that the driver answers with OK has had all the memory of all its commands moved
\* (SDIOHost_InterruptTransferComplete).
THEOREM TransfersComplete == RequestsSuit /\ Spec => []OkMovedAll
<1> SUFFICES ASSUME RequestsSuit PROVE Spec => []OkMovedAll
  OBVIOUS
<1>1. IInv /\ MoveInv => OkMovedAll
  <2> SUFFICES ASSUME IInv, MoveInv, stat = "ok", NEW c \in DOMAIN req PROVE moved[c] = Memory(req[c])
    BY DEF OkMovedAll
  <2>1. ChosenInv /\ EngineInv
    BY DEF MoveInv
  <2>2. c \in 1 .. Len(req)
    BY <2>1, RequestFacts
  <2>3. Memory(req[c]) \in Seq(Nat)
    BY <2>1, <2>2, RequestFacts
  <2>4. Whole(moved[c], Memory(req[c]))
    BY <2>1, <2>2 DEF EngineInv
  <2> QED
    BY <2>3, <2>4, WholeIsAll
<1> QED
  BY <1>1, MovesInductive, PTL
====
