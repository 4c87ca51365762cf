---------------------------------- MODULE PhyProofs ----------------------------------
(***************************************************************************)
(* Proofs about Phy for every table of operations that suits               *)
(* (TableAssumption) and every number of delay lines: the registers hold   *)
(* what the setters were told (FieldsAsAsked); answers are true, of the    *)
(* combo PHY and of the older one (AnswersAreTrue).                        *)
(***************************************************************************)
EXTENDS Phy, TLAPS, FiniteSetTheorems, SequenceTheorems

-----------------------------------------------------------------------------------
(***************************************************************************)
(* The fields of a register.                                               *)
(***************************************************************************)

Part(op, i) == Table[op].parts[i]

\* A value that is written through a part of an operation sets a bit.
Says(op, i, v, b) ==
    \E m \in DOMAIN Part(op, i).fields : /\ b \in Span(Part(op, i).fields[m])
                                         /\ b - Part(op, i).fields[m][1] \in v[m]

\* The setters that were told something about a bit, and the register they make.
Owners(a, r, b) ==
    {o \in (DOMAIN a) \X (1 .. 2) : /\ o[2] \in DOMAIN Table[o[1]].parts
                                    /\ Part(o[1], o[2]).reg = r
                                    /\ b \in Kept(o[1], o[2])}
Told(a, bits, r) ==
    {b \in 0 .. 31 : IF Owners(a, r, b) = {} THEN b \in bits
                     ELSE \A o \in Owners(a, r, b) : Says(o[1], o[2], a[o[1]], b)}

\* A setter's argument has a value for each of its members.
Sets(op, v) == v = [m \in Fields(op) |-> v[m]]

LEMMA KeptBits == ASSUME NEW op, NEW i, NEW b
                  PROVE  b \in Kept(op, i) <=> \E m \in DOMAIN Part(op, i).fields : b \in Span(Part(op, i).fields[m])
BY DEF Kept, Part

\* What a setter leaves of a register: its own fields, the rest as it was.
LEMMA Merged ==
    ASSUME NEW op, NEW i, NEW v, NEW bits, NEW b \in 0 .. 31
    PROVE  b \in Merge(bits, Part(op, i), v) <=> IF b \in Kept(op, i) THEN Says(op, i, v, b) ELSE b \in bits
<1>1. b \in Merge(bits, Part(op, i), v)
        <=> \/ \E m \in DOMAIN Part(op, i).fields : b \in FldWrite({}, Part(op, i).fields[m], v[m])
            \/ b \in bits /\ \A m \in DOMAIN Part(op, i).fields : b \notin Span(Part(op, i).fields[m])
  BY DEF Merge
<1>2. \A m \in DOMAIN Part(op, i).fields :
        b \in FldWrite({}, Part(op, i).fields[m], v[m])
        <=> b \in Span(Part(op, i).fields[m]) /\ b - Part(op, i).fields[m][1] \in v[m]
  BY DEF FldWrite
<1> QED
  BY <1>1, <1>2, KeptBits DEF Says

LEMMA MergedWord == ASSUME NEW op, NEW i, NEW v, NEW bits PROVE Merge(bits, Part(op, i), v) \subseteq 0 .. 31
BY DEF Merge

\* A register that is written unread has no bit outside the fields.
LEMMA MergedBlind ==
    ASSUME NEW op \in DOMAIN Table, Table[op].blind, NEW i \in DOMAIN Table[op].parts, NEW v, NEW bits
    PROVE  Merge({}, Part(op, i), v) = Merge(bits, Part(op, i), v)
<1>1. Kept(op, i) = 0 .. 31
  BY TableAssumption DEF PartsSuit
<1>2. \A b \in 0 .. 31 : b \in Merge({}, Part(op, i), v) <=> b \in Merge(bits, Part(op, i), v)
  BY <1>1, Merged
<1> QED
  BY <1>2, MergedWord

LEMMA ExpectedIsTold == ASSUME NEW r PROVE Expected(r) = Told(asked, base[r], r)
<1>1. \A b \in 0 .. 31 :
        Owners(asked, r, b) = {o \in (DOMAIN asked) \X (1 .. 2) :
                                 /\ o[2] \in DOMAIN Table[o[1]].parts
                                 /\ Table[o[1]].parts[o[2]].reg = r
                                 /\ \E m \in DOMAIN Table[o[1]].parts[o[2]].fields :
                                       b \in Span(Table[o[1]].parts[o[2]].fields[m])}
  BY KeptBits DEF Owners, Part
<1> QED
  BY <1>1 DEF Expected, Told, Says, Part

\* No two setters keep a bit of a register, and no two parts of one of them.
LEMMA OneOwner ==
    ASSUME NEW p \in Setters, NEW q \in Setters, NEW i \in DOMAIN Table[p].parts, NEW j \in DOMAIN Table[q].parts,
           Part(p, i).reg = Part(q, j).reg, NEW b, b \in Kept(p, i), b \in Kept(q, j)
    PROVE  p = q /\ i = j
BY TableAssumption DEF PartsSuit, Part, Setters

LEMMA ToldOwned ==
    ASSUME NEW a, DOMAIN a \subseteq Setters, NEW op \in DOMAIN a, NEW i \in DOMAIN Table[op].parts, NEW bits,
           NEW b \in 0 .. 31, b \in Kept(op, i)
    PROVE  b \in Told(a, bits, Part(op, i).reg) <=> Says(op, i, a[op], b)
<1> DEFINE r == Part(op, i).reg
<1>1. i \in 1 .. 2
  BY TableAssumption DEF PartsSuit, Setters
<1>2. <<op, i>> \in Owners(a, r, b)
  BY <1>1 DEF Owners
<1>3. ASSUME NEW o \in Owners(a, r, b) PROVE o[1] = op /\ o[2] = i
  <2>1. o \in (DOMAIN a) \X (1 .. 2) /\ o[2] \in DOMAIN Table[o[1]].parts /\ Part(o[1], o[2]).reg = r /\ b \in Kept(o[1], o[2])
    BY <1>3 DEF Owners
  <2> QED
    BY <2>1, OneOwner
<1>4. (\A o \in Owners(a, r, b) : Says(o[1], o[2], a[o[1]], b)) <=> Says(op, i, a[op], b)
  <2> HIDE DEF r
  <2>1. <<op, i>>[1] = op /\ <<op, i>>[2] = i
    OBVIOUS
  <2> QED
    BY <1>2, <1>3, <2>1
<1> QED
  BY <1>2, <1>4 DEF Told

\* Setters that are told the same about a bit make the same of it.
LEMMA ToldAlike ==
    ASSUME NEW a, NEW c, NEW bits, NEW r, NEW b \in 0 .. 31,
           \A p, i : (p \in DOMAIN a \cup DOMAIN c /\ i \in DOMAIN Table[p].parts /\ Part(p, i).reg = r /\ b \in Kept(p, i))
                     => p \in DOMAIN a /\ p \in DOMAIN c /\ a[p] = c[p]
    PROVE  b \in Told(a, bits, r) <=> b \in Told(c, bits, r)
<1>1. ASSUME NEW o PROVE o \in Owners(a, r, b) <=> o \in Owners(c, r, b)
  BY DEF Owners
<1>2. \A o \in Owners(a, r, b) : a[o[1]] = c[o[1]]
  BY DEF Owners
<1>3. Owners(a, r, b) = Owners(c, r, b)
  BY <1>1
<1> QED
  BY <1>2, <1>3 DEF Told

\* One setter is told something more.
Tell(a, op, v) == [p \in DOMAIN a \cup {op} |-> IF p = op THEN v ELSE a[p]]

LEMMA TellOthers ==
    ASSUME NEW a, NEW op, NEW v, NEW bits, NEW r, r \notin RegsOf(op)
    PROVE  Told(Tell(a, op, v), bits, r) = Told(a, bits, r)
<1>1. \A i \in DOMAIN Table[op].parts : Part(op, i).reg # r
  BY DEF RegsOf, Part
<1>2. \A b \in 0 .. 31 : b \in Told(a, bits, r) <=> b \in Told(Tell(a, op, v), bits, r)
  BY <1>1, ToldAlike DEF Tell
<1> QED
  BY <1>2 DEF Told

LEMMA TellOwn ==
    ASSUME NEW a, DOMAIN a \subseteq Setters, NEW op \in Setters, NEW i \in DOMAIN Table[op].parts, NEW v, NEW bits
    PROVE  Told(Tell(a, op, v), bits, Part(op, i).reg) = Merge(Told(a, bits, Part(op, i).reg), Part(op, i), v)
<1> DEFINE r == Part(op, i).reg
           c == Tell(a, op, v)
<1>1. DOMAIN c \subseteq Setters /\ op \in DOMAIN c /\ c[op] = v
  BY DEF Tell
<1>2. ASSUME NEW b \in 0 .. 31 PROVE b \in Told(c, bits, r) <=> b \in Merge(Told(a, bits, r), Part(op, i), v)
  <2>1. CASE b \in Kept(op, i)
    <3> HIDE DEF c
    <3>1. b \in Told(c, bits, r) <=> Says(op, i, v, b)
      BY <1>1, <2>1, ToldOwned
    <3> QED
      BY <2>1, <3>1, Merged
  <2>2. CASE b \notin Kept(op, i)
    <3>1. \A j \in DOMAIN Table[op].parts : Part(op, j).reg = r => j = i
      BY TableAssumption DEF PartsSuit, Setters, Part
    <3>2. b \in Told(a, bits, r) <=> b \in Told(c, bits, r)
      BY <2>2, <3>1, ToldAlike DEF Tell
    <3> QED
      BY <2>2, <3>2, Merged
  <2> QED
    BY <2>1, <2>2
<1> QED
  BY <1>2, MergedWord DEF Told

\* A getter reads back what the setter was told.
LEMMA ReadBack ==
    ASSUME NEW a, DOMAIN a \subseteq Setters, NEW op \in DOMAIN a, NEW i \in DOMAIN Table[op].parts, NEW bits,
           NEW m \in DOMAIN Part(op, i).fields, a[op][m] \subseteq Bits(Part(op, i).fields[m][2])
    PROVE  FldRead(Told(a, bits, Part(op, i).reg), Part(op, i).fields[m]) = a[op][m]
<1> DEFINE f == Part(op, i).fields[m]
           w == Told(a, bits, Part(op, i).reg)
<1>1. f[1] \in 0 .. 31 /\ f[2] \in Nat /\ f[1] + f[2] <= 32
  BY TableAssumption DEF PartsSuit, Setters, Part
<1>2. \A n \in DOMAIN Part(op, i).fields : n # m => Span(f) \cap Span(Part(op, i).fields[n]) = {}
  BY TableAssumption DEF PartsSuit, Setters, Part
<1>3. ASSUME NEW b \in 0 .. 31, b < f[2] PROVE b + f[1] \in w <=> b \in a[op][m]
  <2>1. b + f[1] \in Span(f) /\ b + f[1] \in 0 .. 31 /\ (b + f[1]) - f[1] = b
    BY <1>1, <1>3 DEF Span
  <2>2. b + f[1] \in Kept(op, i)
    BY <2>1, KeptBits
  <2>3. b + f[1] \in w <=> Says(op, i, a[op], b + f[1])
    BY <2>1, <2>2, ToldOwned
  <2>4. Says(op, i, a[op], b + f[1]) <=> b \in a[op][m]
    BY <1>2, <2>1 DEF Says
  <2> QED
    BY <2>3, <2>4
<1>4. \A b \in a[op][m] : b \in 0 .. 31 /\ b < f[2]
  BY DEF Bits
<1> HIDE DEF f, w
<1>5. FldRead(w, f) = a[op][m]
  BY <1>3, <1>4 DEF FldRead
<1> QED
  BY <1>5 DEF f, w

-----------------------------------------------------------------------------------
(***************************************************************************)
(* The combo PHY: what a thread knows of the registers it works on.        *)
(***************************************************************************)

Active(t) == thr[t].at # "idle"
Op1(t) == Table[thr[t].op]

\* A thread within a call: a getter or setter of its operations, or the wait for the lock.
ThreadFine(t) ==
    LET s == thr[t]
    IN  /\ DOMAIN s = DOMAIN Free
        /\ s.at \in {"idle", "point", "aim", "read", "write", "verify", "next", "poll", "await", "done"}
        /\ s.at = "idle" <=> s.kind = "none"
        /\ Active(t) => /\ s.op \in env.ops[t] /\ s.part \in DOMAIN Table[s.op].parts
                        /\ s.null \notin Follows(s.op, s.kind)
                        /\ s.kind \in Table[s.op].kinds \/ s.kind = "wait"
        /\ s.kind = "wait" => s.op = "DllObsReg0" /\ s.at \in {"point", "read", "poll", "done"}
        /\ s.kind = "set" => Sets(s.op, s.val)
        /\ s.at \in {"point", "aim", "verify"} => ~Table[s.op].direct
        /\ s.at \in {"aim", "write", "verify"} => s.kind = "set"
        /\ s.at = "poll" => s.kind = "wait"

ComboTypes ==
    /\ env \in Envs
    /\ DOMAIN regs = Registers /\ DOMAIN base = Registers
    /\ DOMAIN asked \subseteq Setters /\ \A op \in DOMAIN asked : Sets(op, asked[op])
    /\ DOMAIN thr = Threads /\ \A t \in Threads : ThreadFine(t)

\* Two calls at a time are of the host's own registers, and of different ones.
Apart ==
    \A t, u \in Threads : t # u /\ Active(t) /\ Active(u) =>
        Op1(t).direct /\ Op1(u).direct /\ RegsOf(thr[t].op) \cap RegsOf(thr[u].op) = {}

\* The address port names the register that is accessed next.
Aimed == \A t \in Threads : thr[t].at \in {"read", "write"} => Place(t) = Reg(t)

\* The parts of a setter's operation that it has written, and is not yet through with.
Written(t, i) ==
    /\ thr[t].kind = "set" /\ thr[t].at \notin {"await", "done"} /\ i \in DOMAIN Op1(t).parts
    /\ i < thr[t].part \/ (i = thr[t].part /\ thr[t].at \in {"verify", "next"})

Untouched(r) == \A t \in Threads, i \in 1 .. 2 : Written(t, i) => Part(thr[t].op, i).reg # r
RegsInv ==
    /\ \A t \in Threads, i \in 1 .. 2 : Written(t, i) =>
          LET r == Part(thr[t].op, i).reg
          IN  regs[r] = Merge(Told(asked, base[r], r), Part(thr[t].op, i), thr[t].val)
    /\ \A r \in Registers : Untouched(r) => regs[r] = Told(asked, base[r], r)

\* What a thread has read is still what the register holds.
Fresh ==
    \A t \in Threads :
        /\ thr[t].at \in {"aim", "write"} /\ ~Op1(t).blind =>
              thr[t].work = Merge(regs[Reg(t)], Part(thr[t].op, thr[t].part), thr[t].val)
        /\ thr[t].at = "next" /\ thr[t].kind = "get" => thr[t].work = regs[Reg(t)]

\* The members of the parts a getter is through with.
Through(t) == UNION {DOMAIN Part(thr[t].op, i).fields : i \in {j \in DOMAIN Op1(t).parts : j < thr[t].part}}
Collected ==
    \A t \in Threads :
        LET s == thr[t]
        IN  s.kind = "get" /\ s.op \in DOMAIN asked /\ Fits(s.op, asked[s.op]) =>
               IF s.at \in {"await", "done"} THEN s.got = asked[s.op]
               ELSE /\ DOMAIN s.got = Through(t)
                    /\ \A m \in DOMAIN s.got : s.got[m] = asked[s.op][m]

ResetOver ==
    \A t \in Threads :
        thr[t].at = "done" /\ thr[t].op = "DllReset" /\ thr[t].status = "ok" /\ Released(t) => ready

BusInv == Apart /\ Aimed /\ RegsInv /\ Fresh /\ Collected /\ ResetOver
ComboInv == ComboTypes /\ (Undisturbed => BusInv)

ThreadStep(t) == Call(t) \/ Point(t) \/ Read(t) \/ Write(t) \/ Step(t) \/ Return(t) \/ CallWait(t) \/ Poll(t) \/ Await(t)
OlderStep == CallWritePhySet \/ CallReadPhySet \/ CallPhySettings
             \/ UisWait \/ UisPut \/ UisRaise \/ UisTake \/ UisTimeout \/ UisServe \/ UisDrop

LEMMA Steps == Next <=> (\E t \in Threads : ThreadStep(t)) \/ Lock \/ Ready \/ OlderStep
BY DEF Next, ThreadStep, OlderStep

LEMMA OlderKeeps == ASSUME OlderStep PROVE UNCHANGED <<env, combo, base>>
<1> USE DEF Older, Begin, Uis
<1>1. CASE CallWritePhySet \/ CallReadPhySet \/ CallPhySettings
  BY <1>1 DEF CallWritePhySet, CallReadPhySet, CallPhySettings
<1>2. CASE UisWait \/ UisPut \/ UisRaise \/ UisTake
  BY <1>2 DEF UisWait, UisPut, UisRaise, UisTake
<1>3. CASE UisTimeout \/ UisServe \/ UisDrop
  BY <1>3 DEF UisTimeout, UisServe, UisDrop
<1> QED
  BY <1>1, <1>2, <1>3 DEF OlderStep

LEMMA SetKeeps ==
    ASSUME DOMAIN thr = Threads, NEW t \in Threads, NEW s, Set(t, s)
    PROVE  thr'[t] = s /\ DOMAIN thr' = Threads /\ \A u \in Threads : u # t => thr'[u] = thr[u]
BY DEF Set

\* A step of a thread is of its own record only.
LEMMA OthersKept ==
    ASSUME DOMAIN thr = Threads, NEW t \in Threads, ThreadStep(t)
    PROVE  /\ UNCHANGED <<env, base, older>> /\ DOMAIN thr' = Threads
           /\ \A u \in Threads : u # t => thr'[u] = thr[u]
<1>1. CASE Call(t)
  BY <1>1, SetKeeps DEF Call
<1>2. CASE Point(t)
  BY <1>2, SetKeeps DEF Point
<1>3. CASE Read(t) \/ Write(t) \/ Return(t)
  BY <1>3, SetKeeps DEF Read, Write, Return
<1>4. CASE Step(t)
  BY <1>4, SetKeeps DEF Step
<1>5. CASE CallWait(t) \/ Poll(t) \/ Await(t)
  BY <1>5, SetKeeps DEF CallWait, Poll, Await
<1> QED
  BY <1>1, <1>2, <1>3, <1>4, <1>5 DEF ThreadStep

LEMMA ValuesSet == ASSUME NEW op, NEW v \in Values(op) PROVE Sets(op, v)
<1>1. Sets(op, Zero(op))
  BY DEF Sets, Zero
<1>2. Sets(op, Full(op))
  BY DEF Sets, Full
<1>3. ASSUME NEW m, NEW x PROVE Sets(op, [Zero(op) EXCEPT ![m] = x])
  BY DEF Sets, Zero
<1> QED
  BY <1>1, <1>2, <1>3 DEF Values

LEMMA Ops == ASSUME ComboTypes, NEW t \in Threads PROVE env.ops[t] \subseteq DOMAIN Table
BY EnvsAssumption DEF ComboTypes

\* What TableAssumption says of the operation a thread is called for.
LEMMA Suits ==
    ASSUME ComboTypes, NEW t \in Threads, Active(t)
    PROVE  /\ thr[t].op \in DOMAIN Table /\ thr[t].part \in DOMAIN Op1(t).parts
           /\ PartsSuit(thr[t].op) /\ Op1(t).direct \in BOOLEAN /\ Op1(t).blind \in BOOLEAN
           /\ Reg(t) \in RegsOf(thr[t].op) /\ Reg(t) \in Registers
<1>1. thr[t].op \in DOMAIN Table /\ thr[t].part \in DOMAIN Op1(t).parts
  BY Ops DEF ComboTypes, ThreadFine, Op1
<1> QED
  BY <1>1, TableAssumption DEF Reg, Op1, RegsOf, Registers

\* The parts of that operation are its first, or its first and second.
LEMMA PartsOf ==
    ASSUME ComboTypes, NEW t \in Threads, Active(t)
    PROVE  /\ DOMAIN Op1(t).parts = 1 .. Len(Op1(t).parts) /\ Len(Op1(t).parts) \in 1 .. 2
           /\ ~Op1(t).direct => Len(Op1(t).parts) = 1
           /\ thr[t].part \in 1 .. Len(Op1(t).parts) /\ thr[t].part \in 1 .. 2
           /\ Reg(t) = Part(thr[t].op, thr[t].part).reg
<1>1. PartsSuit(thr[t].op) /\ thr[t].part \in DOMAIN Op1(t).parts
  BY Suits
<1>2. DOMAIN Op1(t).parts = 1 .. Len(Op1(t).parts) /\ Len(Op1(t).parts) \in 1 .. 2
  BY <1>1 DEF PartsSuit, Op1
<1>3. ~Op1(t).direct => Len(Op1(t).parts) = 1
  BY <1>1, Zenon DEF PartsSuit, Op1
<1>4. thr[t].part \in 1 .. Len(Op1(t).parts)
  BY <1>1, <1>2
<1>5. \A n \in 1 .. 2 : \A k \in 1 .. n : k \in 1 .. 2
  OBVIOUS
<1>6. Reg(t) = Part(thr[t].op, thr[t].part).reg
  BY DEF Reg, Part
<1>7. thr[t].part \in 1 .. 2
  BY <1>2, <1>4, <1>5, Zenon
<1> QED
  BY <1>2, <1>3, <1>4, <1>6, <1>7

LEMMA FirstPart == ASSUME NEW op \in DOMAIN Table PROVE 1 \in DOMAIN Table[op].parts
BY TableAssumption DEF PartsSuit

LEMMA NothingFollowed ==
    ASSUME NEW op \in DOMAIN Table, NEW kind \in Table[op].kinds, NEW val, NEW null, ~Rejects(op, kind, val, null)
    PROVE  null \notin Follows(op, kind)
BY TableAssumption DEF Rejects

\* What each step makes of the thread's record.
GoesOn(t) == /\ DOMAIN thr'[t] = DOMAIN Free
             /\ thr'[t].op = thr[t].op /\ thr'[t].kind = thr[t].kind /\ thr'[t].val = thr[t].val
             /\ thr'[t].null = thr[t].null

LEMMA CallMakes ==
    ASSUME ComboTypes, NEW t \in Threads, Call(t)
    PROVE  /\ DOMAIN thr'[t] = DOMAIN Free /\ thr'[t].part = 1 /\ thr'[t].got = <<>> /\ thr'[t].status = "ok"
           /\ thr'[t].op \in env.ops[t] /\ thr'[t].kind \in Op1(t)'.kinds \cap {"set", "get"}
           /\ thr'[t].kind = "set" => Sets(thr'[t].op, thr'[t].val)
           /\ thr'[t].null \notin Follows(thr'[t].op, thr'[t].kind)
           /\ thr'[t].at = IF Op1(t)'.direct THEN "read"
                           ELSE IF thr'[t].kind = "set" /\ Op1(t)'.blind THEN "aim" ELSE "point"
<1> DEFINE New(op, kind, val, null) ==
             [Free EXCEPT !.op = op, !.kind = kind, !.val = val, !.null = null,
                          !.at = IF Table[op].direct THEN "read"
                                 ELSE IF kind = "set" /\ Table[op].blind THEN "aim" ELSE "point"]
<1>1. PICK op \in env.ops[t], kind \in {"set", "get"} :
        /\ kind \in Table[op].kinds
        /\ \E val \in IF kind = "set" THEN Values(op) ELSE {Zero(op)}, null \in {"none", "pD", "value"} :
           /\ null # "none" => val = Zero(op)
           /\ ~Rejects(op, kind, val, null)
           /\ Set(t, New(op, kind, val, null))
  BY Zenon DEF Call
<1>2. PICK val \in (IF kind = "set" THEN Values(op) ELSE {Zero(op)}), null \in {"none", "pD", "value"} :
        /\ ~Rejects(op, kind, val, null)
        /\ Set(t, New(op, kind, val, null))
  BY <1>1
<1>3. thr'[t] = New(op, kind, val, null)
  <2> HIDE DEF New
  <2> QED
    BY <1>2, SetKeeps DEF ComboTypes
<1>4. op \in DOMAIN Table /\ null \notin Follows(op, kind)
  BY <1>1, <1>2, Ops, NothingFollowed
<1>5. kind = "set" => Sets(op, val)
  BY <1>2, ValuesSet
<1>6. DOMAIN thr'[t] = DOMAIN Free /\ thr'[t].op = op /\ thr'[t].kind = kind /\ thr'[t].val = val
      /\ thr'[t].null = null /\ thr'[t].part = 1 /\ thr'[t].got = <<>> /\ thr'[t].status = "ok"
      /\ thr'[t].at = IF Table[op].direct THEN "read" ELSE IF kind = "set" /\ Table[op].blind THEN "aim" ELSE "point"
  BY <1>3 DEF Free
<1> QED
  BY <1>1, <1>4, <1>5, <1>6 DEF Op1

LEMMA PointMakes ==
    ASSUME ComboTypes, NEW t \in Threads, Point(t)
    PROVE  /\ GoesOn(t) /\ thr'[t].part = thr[t].part /\ thr'[t].work = thr[t].work
           /\ thr'[t].got = thr[t].got /\ thr'[t].status = thr[t].status
           /\ thr'[t].at = IF thr[t].at = "point" THEN "read" ELSE IF thr[t].at = "aim" THEN "write" ELSE "next"
<1>1. DOMAIN thr = Threads /\ DOMAIN thr[t] = DOMAIN Free
  BY DEF ComboTypes, ThreadFine
<1>2. CASE thr[t].at # "verify"
  <2>1. thr'[t] = [thr[t] EXCEPT !.at = IF thr[t].at = "point" THEN "read" ELSE "write"]
    BY <1>1, <1>2, SetKeeps DEF Point
  <2> QED
    BY <1>1, <1>2, <2>1 DEF GoesOn, Free, Point
<1>3. CASE thr[t].at = "verify"
  <2>1. thr'[t] = [thr[t] EXCEPT !.at = "next"]
    BY <1>1, <1>3, SetKeeps DEF Point
  <2> QED
    BY <1>1, <1>3, <2>1 DEF GoesOn, Free
<1> QED
  BY <1>2, <1>3

LEMMA ReadMakes ==
    ASSUME ComboTypes, NEW t \in Threads, Read(t)
    PROVE  /\ GoesOn(t) /\ thr'[t].part = thr[t].part /\ thr'[t].got = thr[t].got /\ thr'[t].status = thr[t].status
           /\ thr'[t].work = IF thr[t].kind = "set"
                             THEN Merge(regs[Place(t)], Part(thr[t].op, thr[t].part), thr[t].val)
                             ELSE regs[Place(t)]
           /\ thr'[t].at = IF thr[t].kind = "get" THEN "next" ELSE IF thr[t].kind = "wait" THEN "poll"
                           ELSE IF Op1(t).direct THEN "write" ELSE "aim"
<1>1. DOMAIN thr = Threads /\ DOMAIN thr[t] = DOMAIN Free
  BY DEF ComboTypes, ThreadFine
<1> DEFINE w == IF thr[t].kind = "set" THEN Merge(regs[Place(t)], Part(thr[t].op, thr[t].part), thr[t].val)
                ELSE regs[Place(t)]
           at == IF thr[t].kind = "get" THEN "next" ELSE IF thr[t].kind = "wait" THEN "poll"
                 ELSE IF Op1(t).direct THEN "write" ELSE "aim"
<1>2. Set(t, [thr[t] EXCEPT !.work = w, !.at = at])
  BY DEF Read, Op1, Part
<1> HIDE DEF w, at
<1>3. thr'[t] = [thr[t] EXCEPT !.work = w, !.at = at]
  BY <1>1, <1>2, SetKeeps
<1>4. GoesOn(t) /\ thr'[t].part = thr[t].part /\ thr'[t].got = thr[t].got /\ thr'[t].status = thr[t].status
      /\ thr'[t].work = w /\ thr'[t].at = at
  BY <1>1, <1>3 DEF GoesOn, Free
<1> QED
  BY <1>4 DEF w, at

LEMMA WriteMakes ==
    ASSUME ComboTypes, NEW t \in Threads, Write(t)
    PROVE  /\ GoesOn(t) /\ thr'[t].part = thr[t].part /\ thr'[t].got = thr[t].got /\ thr'[t].status = thr[t].status
           /\ thr'[t].work = thr[t].work
           /\ thr'[t].at = IF Op1(t).direct THEN "next" ELSE "verify"
<1>1. DOMAIN thr = Threads /\ DOMAIN thr[t] = DOMAIN Free
  BY DEF ComboTypes, ThreadFine
<1>2. thr'[t] = [thr[t] EXCEPT !.at = IF Op1(t).direct THEN "next" ELSE "verify"]
  BY <1>1, SetKeeps DEF Write, Op1
<1> QED
  BY <1>1, <1>2 DEF GoesOn, Free

More(t) == thr[t].part < Len(Op1(t).parts)
Got(t) ==
    LET fields == Part(thr[t].op, thr[t].part).fields
    IN  [m \in DOMAIN thr[t].got \cup DOMAIN fields |->
            IF m \in DOMAIN fields THEN FldRead(thr[t].work, fields[m]) ELSE thr[t].got[m]]

LEMMA StepMakes ==
    ASSUME ComboTypes, NEW t \in Threads, Step(t)
    PROVE  /\ GoesOn(t) /\ thr'[t].part = (IF More(t) THEN thr[t].part + 1 ELSE thr[t].part)
           /\ thr'[t].got = (IF thr[t].kind = "get" THEN Got(t) ELSE thr[t].got) /\ thr'[t].status = thr[t].status
           /\ thr'[t].at = IF More(t) THEN "read" ELSE IF Released(t) THEN "await" ELSE "done"
           /\ asked' = IF thr[t].kind = "set" /\ ~More(t) THEN Tell(asked, thr[t].op, thr[t].val) ELSE asked
<1>1. DOMAIN thr = Threads /\ DOMAIN thr[t] = DOMAIN Free
  BY DEF ComboTypes, ThreadFine
<1> DEFINE got == IF thr[t].kind = "get" THEN Got(t) ELSE thr[t].got
           part == IF More(t) THEN thr[t].part + 1 ELSE thr[t].part
           at == IF More(t) THEN "read" ELSE IF Released(t) THEN "await" ELSE "done"
<1>2. Set(t, [thr[t] EXCEPT !.got = got, !.part = part, !.work = {}, !.at = at])
  BY DEF Step, Op1, Part, Got, More
<1> HIDE DEF got, part, at
<1>3. thr'[t] = [thr[t] EXCEPT !.got = got, !.part = part, !.work = {}, !.at = at]
  BY <1>1, <1>2, SetKeeps
<1>4. GoesOn(t) /\ thr'[t].got = got /\ thr'[t].part = part /\ thr'[t].at = at /\ thr'[t].status = thr[t].status
  BY <1>1, <1>3 DEF GoesOn, Free
<1>5. asked' = IF thr[t].kind = "set" /\ ~More(t) THEN Tell(asked, thr[t].op, thr[t].val) ELSE asked
  BY Zenon DEF Step, Op1, More, Tell
<1> QED
  BY <1>4, <1>5 DEF got, part, at

LEMMA WaitMakes ==
    ASSUME ComboTypes, NEW t \in Threads, CallWait(t)
    PROVE  /\ DOMAIN thr'[t] = DOMAIN Free /\ thr'[t].op = "DllObsReg0" /\ thr'[t].kind = "wait"
           /\ thr'[t].at = "point" /\ thr'[t].part = 1 /\ thr'[t].null = "none"
<1>1. thr'[t] = [Free EXCEPT !.op = "DllObsReg0", !.kind = "wait", !.at = "point"]
  BY SetKeeps DEF CallWait, ComboTypes
<1> QED
  BY <1>1 DEF Free

LEMMA EndMakes ==
    ASSUME ComboTypes, NEW t \in Threads, Poll(t) \/ Await(t)
    PROVE  /\ GoesOn(t) /\ thr'[t].part = thr[t].part
           /\ Poll(t) => thr'[t].at \in {"point", "done"}
           /\ Await(t) => thr'[t].at = "done" /\ thr'[t].got = thr[t].got /\ (ready \/ thr'[t].status = "timeout")
<1>1. DOMAIN thr = Threads /\ DOMAIN thr[t] = DOMAIN Free
  BY DEF ComboTypes, ThreadFine
<1>2. CASE Poll(t)
  <2>1. \/ thr'[t] = [thr[t] EXCEPT !.at = "point"]
        \/ thr'[t] = [thr[t] EXCEPT !.at = "done", !.got = FldRead(thr[t].work, <<0, 1>>)]
    BY <1>1, <1>2, SetKeeps DEF Poll
  <2>2. ~Await(t)
    BY <1>2 DEF Poll, Await
  <2>3. GoesOn(t) /\ thr'[t].part = thr[t].part /\ thr'[t].at \in {"point", "done"}
    <3> DEFINE got == FldRead(thr[t].work, <<0, 1>>)
    <3>1. thr'[t] = [thr[t] EXCEPT !.at = "point"] \/ thr'[t] = [thr[t] EXCEPT !.at = "done", !.got = got]
      BY <2>1
    <3> HIDE DEF got
    <3> QED
      BY <1>1, <3>1 DEF GoesOn, Free
  <2> QED
    BY <2>2, <2>3
<1>3. CASE Await(t)
  <2>1. \/ ready /\ thr'[t] = [thr[t] EXCEPT !.at = "done"]
        \/ thr'[t] = [thr[t] EXCEPT !.at = "done", !.status = "timeout"]
    BY <1>1, <1>3, SetKeeps DEF Await
  <2>2. ~Poll(t)
    BY <1>3 DEF Poll, Await
  <2> QED
    BY <1>1, <2>1, <2>2 DEF GoesOn, Free
<1> QED
  BY <1>2, <1>3

LEMMA ThreadTypes == ASSUME ComboTypes, NEW t \in Threads, ThreadStep(t) PROVE ComboTypes'
<1>0. DOMAIN thr = Threads /\ ThreadFine(t) /\ env \in Envs
  BY DEF ComboTypes
<1>k. UNCHANGED <<env, base>> /\ DOMAIN thr' = Threads /\ \A u \in Threads : u # t => thr'[u] = thr[u]
  BY <1>0, OthersKept DEF older
<1>u. \A u \in Threads : u # t => ThreadFine(u)'
  BY <1>k DEF ComboTypes, ThreadFine, Active
<1>a. ASSUME ThreadFine(t)', UNCHANGED <<regs, asked>> PROVE ComboTypes'
  BY <1>a, <1>k, <1>u DEF ComboTypes
<1> USE DEF ThreadFine, Active
<1>1. CASE Call(t)
  <2>1. thr'[t].op \in DOMAIN Table /\ 1 \in DOMAIN Table[thr'[t].op].parts
    BY <1>1, CallMakes, Ops, FirstPart
  <2>2. ThreadFine(t)'
    BY <1>1, <1>k, <2>1, CallMakes DEF Op1
  <2> QED
    BY <1>1, <1>a, <2>2 DEF Call
<1>2. CASE Point(t)
  <2>1. ThreadFine(t)'
    BY <1>0, <1>2, <1>k, PointMakes DEF Point, GoesOn
  <2> QED
    BY <1>2, <1>a, <2>1 DEF Point
<1>3. CASE Read(t)
  <2>1. thr[t].kind \in {"set", "get", "wait"}
    BY <1>0, <1>3, Suits, TableAssumption DEF Read, Op1
  <2>2. ThreadFine(t)'
    BY <1>0, <1>3, <1>k, <2>1, ReadMakes, Suits DEF Read, Op1, GoesOn
  <2> QED
    BY <1>3, <1>a, <2>2 DEF Read
<1>4. CASE Write(t)
  <2>1. ThreadFine(t)'
    BY <1>0, <1>4, <1>k, WriteMakes DEF Write, Op1, GoesOn
  <2> QED
    BY <1>4, <1>k, <1>u, <2>1 DEF ComboTypes, Write
<1>5. CASE Step(t)
  <2>0. thr[t].at = "next" /\ UNCHANGED regs
    BY <1>5 DEF Step
  <2>1. PartsSuit(thr[t].op) /\ thr[t].part \in DOMAIN Op1(t).parts /\ thr[t].op \in DOMAIN Table
    BY <2>0, Suits
  <2>2. More(t) => thr[t].part + 1 \in DOMAIN Op1(t).parts
    <3>1. DOMAIN Op1(t).parts = 1 .. Len(Op1(t).parts) /\ Len(Op1(t).parts) \in 1 .. 2
      BY <2>1 DEF PartsSuit, Op1
    <3> QED
      BY <2>1, <3>1 DEF More
  <2>3. ThreadFine(t)'
    <3>1. /\ GoesOn(t) /\ thr'[t].part \in DOMAIN Op1(t).parts
          /\ thr'[t].at \in {"read", "await", "done"}
      BY <1>5, <2>1, <2>2, StepMakes
    <3> QED
      BY <1>0, <1>k, <2>0, <3>1 DEF Op1, GoesOn
  <2>4. DOMAIN asked' \subseteq Setters /\ \A op \in DOMAIN asked' : Sets(op, asked'[op])
    <3>1. CASE thr[t].kind = "set" /\ ~More(t)
      <4>1. thr[t].op \in Setters /\ Sets(thr[t].op, thr[t].val)
        BY <1>0, <2>0, <2>1, <3>1 DEF Setters
      <4>2. asked' = Tell(asked, thr[t].op, thr[t].val)
        BY <1>5, <3>1, StepMakes
      <4>3. DOMAIN asked \subseteq Setters /\ \A op \in DOMAIN asked : Sets(op, asked[op])
        BY DEF ComboTypes
      <4> QED
        BY <4>1, <4>2, <4>3 DEF Tell
    <3>2. CASE ~(thr[t].kind = "set" /\ ~More(t))
      BY <1>5, <3>2, StepMakes DEF ComboTypes
    <3> QED
      BY <3>1, <3>2
  <2> QED
    BY <1>k, <1>u, <2>0, <2>3, <2>4 DEF ComboTypes
<1>6. CASE Return(t)
  BY <1>0, <1>6, <1>a, <1>k, SetKeeps DEF Return, Free
<1>7. CASE CallWait(t)
  <2>1. "DllObsReg0" \in env.ops[t] /\ "DllObsReg0" \in DOMAIN Table
    BY <1>7, Ops DEF CallWait
  <2>2. ThreadFine(t)'
    BY <1>7, <1>k, <2>1, WaitMakes, FirstPart, TableAssumption DEF Follows
  <2> QED
    BY <1>7, <1>a, <2>2 DEF CallWait
<1>8. CASE Poll(t) \/ Await(t)
  <2>1. thr[t].at = "poll" => thr[t].kind = "wait" /\ ~Table[thr[t].op].direct
    BY <1>0, Ops, TableAssumption
  <2>2. thr'[t].at \in {"point", "done"} /\ (thr'[t].at = "point" => thr[t].at = "poll") /\ thr[t].at \in {"poll", "await"}
    BY <1>8, EndMakes DEF Poll, Await
  <2>3. ThreadFine(t)'
    BY <1>0, <1>8, <1>k, <2>1, <2>2, EndMakes DEF GoesOn
  <2> QED
    BY <1>8, <1>a, <2>3 DEF Poll, Await
<1> QED
  BY <1>1, <1>2, <1>3, <1>4, <1>5, <1>6, <1>7, <1>8 DEF ThreadStep

\* Two threads within calls have no register in common.
LEMMA Mine ==
    ASSUME ComboTypes, Apart, NEW t \in Threads, NEW u \in Threads, t # u, Active(t), Active(u)
    PROVE  /\ Op1(t).direct /\ Op1(u).direct
           /\ \A i \in DOMAIN Op1(t).parts, j \in DOMAIN Op1(u).parts : Part(thr[t].op, i).reg # Part(thr[u].op, j).reg
           /\ Reg(t) \notin RegsOf(thr[u].op) /\ thr[t].op # thr[u].op
<1>1. Op1(t).direct /\ Op1(u).direct /\ RegsOf(thr[t].op) \cap RegsOf(thr[u].op) = {}
  BY DEF Apart
<1>2. Reg(t) \in RegsOf(thr[t].op)
  BY Suits
<1>3. \A i \in DOMAIN Op1(t).parts : Part(thr[t].op, i).reg \in RegsOf(thr[t].op)
  BY DEF RegsOf, Part, Op1
<1>4. \A j \in DOMAIN Op1(u).parts : Part(thr[u].op, j).reg \in RegsOf(thr[u].op)
  BY DEF RegsOf, Part, Op1
<1> QED
  BY <1>1, <1>2, <1>3, <1>4

LEMMA ThreadApart == ASSUME ComboTypes, Undisturbed, Apart, NEW t \in Threads, ThreadStep(t) PROVE Apart'
<1>0. DOMAIN thr = Threads
  BY DEF ComboTypes
<1>k. UNCHANGED env /\ \A u \in Threads : u # t => thr'[u] = thr[u]
  BY <1>0, OthersKept
<1> USE DEF Active, Op1
<1>a. ASSUME Active(t)', \A u \in Threads : u # t /\ Active(u) =>
                           /\ Table[thr'[t].op].direct /\ Op1(u).direct
                           /\ RegsOf(thr'[t].op) \cap RegsOf(thr[u].op) = {}
      PROVE  Apart'
  BY <1>k, <1>a DEF Apart
<1>b. ASSUME thr[t].at = "idle", thr'[t].op \in env.ops[t], Active(t)',
             env.serial => \A u \in Threads : thr[u].at = "idle"
      PROVE  Apart'
  <2>1. ASSUME NEW u \in Threads, u # t, Active(u)
        PROVE  /\ Table[thr'[t].op].direct /\ Op1(u).direct
               /\ RegsOf(thr'[t].op) \cap RegsOf(thr[u].op) = {}
    <3>1. ~env.serial
      BY <1>b, <2>1
    <3>2. thr[u].op \in env.ops[u]
      BY <2>1 DEF ComboTypes, ThreadFine
    <3>3. (t = 1 /\ u = 2) \/ (t = 2 /\ u = 1)
      BY <2>1 DEF Threads
    <3>4. \A p \in env.ops[1], q \in env.ops[2] :
            Table[p].direct /\ Table[q].direct /\ RegsOf(p) \cap RegsOf(q) = {}
      BY <3>1 DEF Undisturbed
    <3> QED
      BY <1>b, <3>2, <3>3, <3>4
  <2> QED
    BY <1>a, <1>b, <2>1
<1>1. CASE Call(t)
  <2>1. Active(t)'
    BY <1>1, CallMakes
  <2> QED
    BY <1>1, <1>b, <2>1, CallMakes DEF Call
<1>2. CASE CallWait(t)
  BY <1>2, <1>b, WaitMakes DEF CallWait
<1>3. CASE Return(t)
  <2>1. ~Active(t)'
    BY <1>0, <1>3, SetKeeps DEF Return, Free
  <2> QED
    BY <1>k, <2>1 DEF Apart
<1>4. CASE Point(t) \/ Read(t) \/ Write(t) \/ Step(t) \/ Poll(t) \/ Await(t)
  <2>1. GoesOn(t)
    BY <1>4, PointMakes, ReadMakes, WriteMakes, StepMakes, EndMakes
  <2>2. Active(t)
    BY <1>4 DEF Point, Read, Write, Step, Poll, Await
  <2> QED
    BY <1>k, <2>1, <2>2 DEF Apart, GoesOn
<1> QED
  BY <1>1, <1>2, <1>3, <1>4 DEF ThreadStep

\* The port is written by one thread at a time, and only on its way to its own register.
LEMMA ThreadAimed == ASSUME ComboTypes, Apart, Aimed, NEW t \in Threads, ThreadStep(t) PROVE Aimed'
<1>0. DOMAIN thr = Threads
  BY DEF ComboTypes
<1>k. \A u \in Threads : u # t => thr'[u] = thr[u]
  BY <1>0, OthersKept
<1>1. ASSUME NEW u \in Threads, u # t, thr[u].at \in {"read", "write"} PROVE Place(u)' = Reg(u)'
  <2>1. CASE UNCHANGED port
    BY <1>1, <1>k, <2>1 DEF Aimed, Place, Reg
  <2>2. CASE Point(t)
    <3>1. thr[t].at \in {"point", "aim", "verify"} /\ Active(t) /\ Active(u)
      BY <1>1, <2>2 DEF Point, Active
    <3>2. ~Op1(t).direct
      BY <3>1 DEF ComboTypes, ThreadFine, Op1
    <3> QED
      BY <1>1, <3>1, <3>2, Mine
  <2> QED
    BY <2>1, <2>2 DEF ThreadStep, Call, Read, Write, Step, Return, CallWait, Poll, Await
<1>2. ASSUME thr'[t].at \in {"read", "write"} PROVE Place(t)' = Reg(t)'
  <2> USE DEF Place, Op1
  <2>1. CASE Call(t)
    BY <1>2, <2>1, CallMakes
  <2>2. CASE Point(t)
    <3>1. port' = Reg(t) /\ GoesOn(t) /\ thr'[t].part = thr[t].part
      BY <2>2, PointMakes DEF Point
    <3> QED
      BY <3>1 DEF GoesOn, Reg
  <2>3. CASE Read(t)
    <3>1. thr'[t].at = "write" => Op1(t).direct
      BY <2>3, ReadMakes
    <3>2. thr'[t].at # "read" /\ GoesOn(t)
      BY <2>3, ReadMakes
    <3> QED
      BY <1>2, <3>1, <3>2 DEF GoesOn
  <2>4. CASE Step(t)
    <3>1. GoesOn(t) /\ More(t) /\ thr[t].at = "next"
      BY <1>2, <2>4, StepMakes DEF Step
    <3>2. thr[t].part \in 1 .. Len(Op1(t).parts) /\ Len(Op1(t).parts) \in 1 .. 2
          /\ (~Op1(t).direct => Len(Op1(t).parts) = 1)
      BY <3>1, PartsOf DEF Active
    <3>3. \A n : n \in 1 .. 2 => \A k \in 1 .. n : k < n => n # 1
      OBVIOUS
    <3>4. Len(Op1(t).parts) # 1
      BY <3>1, <3>2, <3>3, Zenon DEF More
    <3> QED
      BY <3>1, <3>2, <3>4 DEF GoesOn
  <2>5. thr'[t].at \notin {"read", "write"} \/ Call(t) \/ Point(t) \/ Read(t) \/ Step(t)
    BY <1>0, WriteMakes, WaitMakes, EndMakes, SetKeeps DEF ThreadStep, Return, Free
  <2> QED
    BY <1>2, <2>1, <2>2, <2>3, <2>4, <2>5
<1> QED
  BY <1>1, <1>2, <1>k DEF Aimed

\* Steps that write no register and tell nothing.
LEMMA RegsKept ==
    ASSUME ComboTypes, RegsInv, NEW t \in Threads, UNCHANGED <<regs, base, asked>>,
           \A u \in Threads : u # t => thr'[u] = thr[u],
           \A i \in 1 .. 2 : Written(t, i)' <=> Written(t, i),
           \A i \in 1 .. 2 : Written(t, i) => thr'[t].op = thr[t].op /\ thr'[t].val = thr[t].val
    PROVE  RegsInv'
<1>1. \A u \in Threads, i \in 1 .. 2 :
        /\ Written(u, i)' <=> Written(u, i)
        /\ Written(u, i) => thr'[u].op = thr[u].op /\ thr'[u].val = thr[u].val
  BY DEF Written, Op1
<1>2. \A r : Untouched(r)' <=> Untouched(r)
  BY <1>1 DEF Untouched
<1>3. \A r \in Registers : Untouched(r)' => regs'[r] = Told(asked', base'[r], r)
  BY <1>2 DEF RegsInv
<1>4. ASSUME NEW u \in Threads, NEW i \in 1 .. 2, Written(u, i)'
      PROVE  LET r == Part(thr'[u].op, i).reg
             IN  regs'[r] = Merge(Told(asked', base'[r], r), Part(thr'[u].op, i), thr'[u].val)
  BY <1>1, <1>4 DEF RegsInv
<1> QED
  BY <1>3, <1>4 DEF RegsInv

LEMMA Unwritten ==
    ASSUME ComboTypes, Apart, NEW t \in Threads, Active(t), NEW i \in DOMAIN Op1(t).parts, ~Written(t, i)
    PROVE  Untouched(Part(thr[t].op, i).reg)
<1>1. \A j \in DOMAIN Op1(t).parts : j # i => Part(thr[t].op, j).reg # Part(thr[t].op, i).reg
  BY Suits DEF PartsSuit, Op1, Part
<1>2. ASSUME NEW u \in Threads, u # t, NEW j \in 1 .. 2, Written(u, j) PROVE Part(thr[u].op, j).reg # Part(thr[t].op, i).reg
  <2>1. Active(u)
    BY <1>2 DEF Written, ComboTypes, ThreadFine, Active
  <2> QED
    BY <1>2, <2>1, Mine DEF Written
<1> QED
  BY <1>1, <1>2 DEF Untouched, Written

\* A register that is written: the fields that are set, the rest as it was told.
LEMMA WriteTells ==
    ASSUME ComboTypes, Apart, Aimed, RegsInv, Fresh, NEW t \in Threads, Write(t)
    PROVE  /\ RegsInv'
           /\ \A r : r # Reg(t) => regs'[r] = regs[r]
<1> DEFINE r == Reg(t)
           i == thr[t].part
           op == thr[t].op
<1>1. thr[t].at = "write" /\ Active(t) /\ Place(t) = r /\ thr[t].kind = "set"
  BY DEF Write, Active, Aimed, ComboTypes, ThreadFine
<1>2. op \in DOMAIN Table /\ i \in DOMAIN Op1(t).parts /\ r = Part(op, i).reg /\ r \in Registers /\ i \in 1 .. 2
  BY <1>1, Suits, PartsOf
<1>3. regs' = [regs EXCEPT ![r] = Merge(regs[r], Part(op, i), thr[t].val)]
  <2>1. regs' = [regs EXCEPT ![r] = IF Op1(t).blind THEN Merge({}, Part(op, i), thr[t].val) ELSE thr[t].work]
    BY <1>1 DEF Write, Blind, Part, Op1
  <2>2. CASE Op1(t).blind
    BY <1>2, <2>1, <2>2, MergedBlind DEF Op1
  <2>3. CASE ~Op1(t).blind
    BY <1>1, <2>1, <2>3 DEF Fresh
  <2> QED
    BY <2>2, <2>3
<1>4. ~Written(t, i) /\ regs[r] = Told(asked, base[r], r)
  <2>1. ~Written(t, i)
    BY <1>1, <1>2 DEF Written
  <2> QED
    BY <1>1, <1>2, <2>1, Unwritten DEF RegsInv
<1>k. UNCHANGED <<base, asked>> /\ \A u \in Threads : u # t => thr'[u] = thr[u]
  BY OthersKept DEF Write, ComboTypes, ThreadStep
<1>t. GoesOn(t) /\ thr'[t].part = i /\ thr'[t].at \in {"next", "verify"}
  BY WriteMakes
<1>5. \A j \in 1 .. 2 : Written(t, j)' <=> Written(t, j) \/ j = i
  BY <1>1, <1>2, <1>t DEF Written, GoesOn, Op1
<1>6. \A u \in Threads, j \in 1 .. 2 : u # t => (Written(u, j)' <=> Written(u, j))
  BY <1>k DEF Written, Op1
<1>7. DOMAIN regs = Registers
  BY DEF ComboTypes
<1>8. ASSUME NEW u \in Threads, NEW j \in 1 .. 2, Written(u, j)'
      PROVE  LET q == Part(thr'[u].op, j).reg
             IN  regs'[q] = Merge(Told(asked', base'[q], q), Part(thr'[u].op, j), thr'[u].val)
  <2>1. CASE u = t /\ j = i
    BY <1>2, <1>3, <1>4, <1>7, <1>k, <1>t, <2>1 DEF GoesOn
  <2>2. CASE ~(u = t /\ j = i)
    <3>1. Written(u, j) /\ thr'[u].op = thr[u].op /\ thr'[u].val = thr[u].val
      BY <1>5, <1>6, <1>8, <1>k, <1>t, <2>2 DEF GoesOn
    <3>2. Part(thr[u].op, j).reg # r
      <4>1. Untouched(r)
        BY <1>1, <1>2, <1>4, Unwritten
      <4> QED
        BY <3>1, <4>1 DEF Untouched
    <3> QED
      BY <1>3, <1>k, <3>1, <3>2 DEF RegsInv
  <2> QED
    BY <2>1, <2>2
<1>9. ASSUME NEW q \in Registers, Untouched(q)' PROVE regs'[q] = Told(asked', base'[q], q)
  <2>1. q # r
    BY <1>2, <1>5, <1>9, <1>t DEF Untouched, GoesOn
  <2>2. Untouched(q)
    BY <1>5, <1>6, <1>9, <1>k, <1>t DEF Untouched, GoesOn
  <2> QED
    BY <1>3, <1>k, <2>1, <2>2 DEF RegsInv
<1>10. RegsInv'
  BY <1>8, <1>9 DEF RegsInv
<1> QED
  BY <1>3, <1>10

\* The last part of a setter's operation: what it wrote is what it was told.
LEMMA StepTells == ASSUME ComboTypes, Apart, RegsInv, NEW t \in Threads, Step(t) PROVE RegsInv'
<1> DEFINE op == thr[t].op
<1>0. thr[t].at = "next" /\ Active(t) /\ UNCHANGED <<regs, base>>
  BY DEF Step, Active
<1>k. UNCHANGED base /\ \A u \in Threads : u # t => thr'[u] = thr[u]
  BY OthersKept DEF ComboTypes, ThreadStep
<1>p. thr[t].part \in 1 .. 2 /\ DOMAIN Op1(t).parts = 1 .. Len(Op1(t).parts) /\ Len(Op1(t).parts) \in 1 .. 2
      /\ thr[t].part \in 1 .. Len(Op1(t).parts) /\ thr[t].op \in DOMAIN Table
  BY <1>0, PartsOf, Suits
<1>t. GoesOn(t)
  BY StepMakes
<1>1. CASE More(t)
  <2>1. asked' = asked /\ thr'[t].part = thr[t].part + 1 /\ thr'[t].at = "read"
    BY <1>1, StepMakes
  <2>2. \A i \in 1 .. 2 : Written(t, i)' <=> Written(t, i)
    <3>1. \A n, i \in 1 .. 2 : i < n + 1 <=> i < n \/ i = n
      OBVIOUS
    <3>2. \A i \in 1 .. 2 : i < thr'[t].part <=> i < thr[t].part \/ i = thr[t].part
      BY <1>p, <2>1, <3>1
    <3> QED
      BY <1>0, <1>t, <2>1, <3>2 DEF Written, GoesOn, Op1
  <2> QED
    BY <1>0, <1>k, <1>t, <2>1, <2>2, RegsKept DEF GoesOn
<1>2. CASE ~More(t) /\ thr[t].kind # "set"
  <2>1. asked' = asked
    BY <1>2, StepMakes
  <2>2. \A i \in 1 .. 2 : ~Written(t, i)' /\ ~Written(t, i)
    BY <1>2, <1>t DEF Written, GoesOn
  <2> QED
    BY <1>0, <1>k, <2>1, <2>2, RegsKept
<1>3. CASE ~More(t) /\ thr[t].kind = "set"
  <2>1. asked' = Tell(asked, op, thr[t].val) /\ thr'[t].at \in {"await", "done"}
    BY <1>3, StepMakes
  <2>2. op \in Setters /\ DOMAIN asked \subseteq Setters
    BY <1>0, <1>3, <1>p DEF ComboTypes, ThreadFine, Setters, Active
  <2>3. ASSUME NEW i \in DOMAIN Op1(t).parts PROVE Written(t, i)
    <3>1. \A k \in 1 .. 2 : \A n \in 1 .. k : \A j \in 1 .. k : ~(n < k) => j < n \/ j = n
      OBVIOUS
    <3>2. i < thr[t].part \/ i = thr[t].part
      BY <1>3, <1>p, <2>3, <3>1, Zenon DEF More
    <3> QED
      BY <1>0, <1>3, <3>2 DEF Written
  <2>4. \A r : r \notin RegsOf(op) => Told(asked', base[r], r) = Told(asked, base[r], r)
    BY <2>1, TellOthers
  <2>5. ASSUME NEW r \in Registers, Untouched(r)' PROVE regs'[r] = Told(asked', base'[r], r)
    <3>1. CASE r \in RegsOf(op)
      <4>1. PICK i \in DOMAIN Op1(t).parts : Part(op, i).reg = r
        BY <3>1 DEF RegsOf, Part, Op1
      <4>2. i \in 1 .. 2 /\ Written(t, i)
        <5>1. \A n \in 1 .. 2 : \A k \in 1 .. n : k \in 1 .. 2
          OBVIOUS
        <5> QED
          BY <1>p, <2>3, <4>1, <5>1, Zenon
      <4>3. regs[r] = Merge(Told(asked, base[r], r), Part(op, i), thr[t].val)
        BY <4>1, <4>2 DEF RegsInv
      <4>4. Told(asked', base[r], r) = Merge(Told(asked, base[r], r), Part(op, i), thr[t].val)
        BY <2>1, <2>2, <4>1, TellOwn DEF Op1
      <4> QED
        BY <1>0, <4>3, <4>4
    <3>2. CASE r \notin RegsOf(op)
      <4>1. ASSUME NEW u \in Threads, NEW i \in 1 .. 2, Written(u, i) PROVE Part(thr[u].op, i).reg # r
        <5>1. CASE u = t
          BY <3>2, <4>1, <5>1 DEF Written, RegsOf, Part, Op1
        <5>2. CASE u # t
          BY <1>k, <2>5, <4>1, <5>2 DEF Written, Untouched, Op1
        <5> QED
          BY <5>1, <5>2
      <4> QED
        BY <1>0, <2>4, <3>2, <4>1 DEF RegsInv, Untouched
    <3> QED
      BY <3>1, <3>2
  <2>6. ASSUME NEW u \in Threads, NEW i \in 1 .. 2, Written(u, i)'
        PROVE  LET r == Part(thr'[u].op, i).reg
               IN  regs'[r] = Merge(Told(asked', base'[r], r), Part(thr'[u].op, i), thr'[u].val)
    <3>1. u # t
      BY <2>1, <2>6 DEF Written
    <3>2. Written(u, i) /\ thr'[u] = thr[u]
      BY <1>k, <2>6, <3>1 DEF Written, Op1
    <3>3. Active(u) /\ i \in DOMAIN Op1(u).parts
      BY <3>2 DEF Written, ComboTypes, ThreadFine, Active
    <3>4. Part(thr[u].op, i).reg \notin RegsOf(op)
      <4>1. \A j \in DOMAIN Op1(t).parts : Part(op, j).reg # Part(thr[u].op, i).reg
        BY <1>0, <3>1, <3>3, Mine
      <4> QED
        BY <4>1 DEF RegsOf, Part, Op1
    <3> QED
      BY <1>0, <2>4, <3>2, <3>4 DEF RegsInv
  <2> QED
    BY <2>5, <2>6 DEF RegsInv
<1> QED
  BY <1>1, <1>2, <1>3

LEMMA ThreadTells ==
    ASSUME ComboTypes, Apart, Aimed, RegsInv, Fresh, NEW t \in Threads, ThreadStep(t) PROVE RegsInv'
<1>0. DOMAIN thr = Threads /\ ThreadFine(t)
  BY DEF ComboTypes
<1>k. UNCHANGED base /\ \A u \in Threads : u # t => thr'[u] = thr[u]
  BY <1>0, OthersKept
<1>1. CASE Call(t) \/ CallWait(t) \/ Return(t)
  <2>1. UNCHANGED <<regs, asked>> /\ thr[t].at \in {"idle", "done"}
    BY <1>1 DEF Call, CallWait, Return
  <2>2. \A i \in 1 .. 2 : ~Written(t, i)
    BY <1>0, <2>1 DEF Written, ThreadFine
  <2>3. \A i \in 1 .. 2 : ~Written(t, i)'
    <3>1. CASE Call(t)
      <4>1. thr'[t].part = 1 /\ thr'[t].at \in {"read", "aim", "point"}
        BY <3>1, CallMakes
      <4> QED
        BY <4>1 DEF Written
    <3>2. CASE CallWait(t)
      BY <3>2, WaitMakes DEF Written
    <3>3. CASE Return(t)
      BY <1>0, <3>3, SetKeeps DEF Return, Free, Written
    <3> QED
      BY <1>1, <3>1, <3>2, <3>3
  <2> QED
    BY <1>k, <2>1, <2>2, <2>3, RegsKept
<1>2. CASE Point(t) \/ Read(t) \/ Poll(t) \/ Await(t)
  <2>1. UNCHANGED <<regs, asked>> /\ GoesOn(t) /\ thr'[t].part = thr[t].part
    BY <1>2, PointMakes, ReadMakes, EndMakes DEF Point, Read, Poll, Await
  <2>2. thr[t].kind = "set" =>
          /\ thr[t].at \in {"verify", "next"} <=> thr'[t].at \in {"verify", "next"}
          /\ thr[t].at \in {"await", "done"} <=> thr'[t].at \in {"await", "done"}
    <3>1. CASE Point(t)
      BY <3>1, PointMakes DEF Point
    <3>2. CASE Read(t)
      <4>1. thr[t].at = "read" /\ (thr[t].kind = "set" => thr'[t].at \in {"write", "aim"})
        BY <3>2, ReadMakes DEF Read
      <4> QED
        BY <4>1
    <3>3. CASE Poll(t)
      BY <1>0, <3>3 DEF Poll, ThreadFine
    <3>4. CASE Await(t)
      BY <3>4, EndMakes DEF Await
    <3> QED
      BY <1>2, <3>1, <3>2, <3>3, <3>4
  <2>3. \A i \in 1 .. 2 : Written(t, i)' <=> Written(t, i)
    BY <2>1, <2>2 DEF Written, GoesOn, Op1
  <2> QED
    BY <1>k, <2>1, <2>3, RegsKept DEF GoesOn
<1>3. CASE Write(t)
  BY <1>3, WriteTells
<1>4. CASE Step(t)
  BY <1>4, StepTells
<1> QED
  BY <1>1, <1>2, <1>3, <1>4 DEF ThreadStep

\* Only its own steps change the registers a thread works on.
LEMMA ThreadFresh ==
    ASSUME ComboTypes, Apart, Aimed, RegsInv, Fresh, NEW t \in Threads, ThreadStep(t) PROVE Fresh'
<1>0. DOMAIN thr = Threads /\ ThreadFine(t)
  BY DEF ComboTypes
<1>k. \A u \in Threads : u # t => thr'[u] = thr[u]
  BY <1>0, OthersKept
<1> DEFINE Good(u) ==
             /\ thr[u].at \in {"aim", "write"} /\ ~Op1(u).blind =>
                   thr[u].work = Merge(regs[Reg(u)], Part(thr[u].op, thr[u].part), thr[u].val)
             /\ thr[u].at = "next" /\ thr[u].kind = "get" => thr[u].work = regs[Reg(u)]
<1>1. ASSUME NEW u \in Threads, u # t PROVE Good(u)'
  <2>1. Good(u) /\ thr'[u] = thr[u] /\ Reg(u)' = Reg(u)
    BY <1>1, <1>k DEF Fresh, Reg
  <2>2. CASE UNCHANGED regs
    BY <2>1, <2>2 DEF Op1
  <2>3. CASE Write(t) /\ Active(u)
    <3>1. Reg(u) # Reg(t)
      <4>1. Active(t)
        BY <2>3 DEF Write, Active
      <4>2. Reg(t) \notin RegsOf(thr[u].op) /\ Reg(u) \in RegsOf(thr[u].op)
        BY <1>1, <2>3, <4>1, Mine, Suits
      <4> QED
        BY <4>2
    <3>2. regs'[Reg(u)] = regs[Reg(u)]
      BY <2>3, <3>1, WriteTells
    <3> QED
      BY <2>1, <3>2 DEF Op1
  <2>4. CASE ~Active(u)
    BY <2>1, <2>4 DEF Active
  <2> QED
    BY <2>2, <2>3, <2>4 DEF ThreadStep, Call, Point, Read, Step, Return, CallWait, Poll, Await
<1>2. Good(t)'
  <2>1. CASE Call(t)
    <3>1. thr'[t].at = "aim" => Op1(t)'.blind
      BY <2>1, CallMakes
    <3>2. thr'[t].at \in {"read", "aim", "point"}
      BY <2>1, CallMakes
    <3> QED
      BY <3>1, <3>2
  <2>2. CASE Point(t)
    <3>1. GoesOn(t) /\ thr'[t].part = thr[t].part /\ thr'[t].work = thr[t].work /\ UNCHANGED regs
      BY <2>2, PointMakes DEF Point
    <3>2. \/ thr'[t].at = "write" /\ thr[t].at = "aim"
          \/ thr'[t].at = "read"
          \/ thr'[t].at = "next" /\ thr[t].kind = "set"
      BY <1>0, <2>2, PointMakes DEF Point, ThreadFine
    <3>3. Good(t)
      BY DEF Fresh
    <3> QED
      BY <3>1, <3>2, <3>3 DEF GoesOn, Reg, Op1
  <2>3. CASE Read(t)
    <3>1. GoesOn(t) /\ thr'[t].part = thr[t].part /\ UNCHANGED regs /\ Place(t) = Reg(t)
      BY <2>3, ReadMakes DEF Read, Aimed
    <3>2. Reg(t)' = Reg(t)
      BY <3>1 DEF GoesOn, Reg
    <3>3. CASE thr[t].kind = "set"
      <4>1. thr'[t].work = Merge(regs[Reg(t)], Part(thr[t].op, thr[t].part), thr[t].val) /\ thr'[t].at # "next"
        BY <2>3, <3>1, <3>3, ReadMakes
      <4> QED
        BY <3>1, <3>2, <4>1 DEF GoesOn
    <3>4. CASE thr[t].kind # "set"
      <4>1. thr'[t].work = regs[Reg(t)]
        BY <2>3, <3>1, <3>4, ReadMakes
      <4>2. thr'[t].at \notin {"aim", "write"}
        <5>1. thr[t].kind \in {"get", "wait"}
          <6>1. Active(t)
            BY <2>3 DEF Read, Active
          <6>2. thr[t].op \in DOMAIN Table /\ (thr[t].kind \in Op1(t).kinds \/ thr[t].kind = "wait")
            BY <1>0, <6>1, Suits DEF ThreadFine, Op1
          <6> QED
            BY <3>4, <6>2, TableAssumption DEF Op1
        <5> QED
          BY <2>3, <5>1, ReadMakes
      <4> QED
        BY <3>1, <3>2, <4>1, <4>2 DEF GoesOn
    <3> QED
      BY <3>3, <3>4
  <2>4. CASE Write(t)
    <3>1. thr'[t].kind = "set" /\ thr'[t].at \in {"next", "verify"}
      BY <1>0, <2>4, WriteMakes DEF Write, ThreadFine, GoesOn
    <3> QED
      BY <3>1
  <2>5. CASE Step(t) \/ Return(t) \/ CallWait(t) \/ Poll(t) \/ Await(t)
    <3>1. thr'[t].at \notin {"aim", "write", "next"}
      BY <1>0, <2>5, StepMakes, WaitMakes, EndMakes, SetKeeps DEF Return, Free
    <3> QED
      BY <3>1
  <2> QED
    BY <2>1, <2>2, <2>3, <2>4, <2>5 DEF ThreadStep
<1> QED
  BY <1>1, <1>2 DEF Fresh

\* A member is in one part of an operation.
LEMMA OneField ==
    ASSUME NEW op \in DOMAIN Table, NEW i \in DOMAIN Table[op].parts, NEW m \in DOMAIN Part(op, i).fields
    PROVE  m \in Fields(op) /\ FieldOf(op, m) = Part(op, i).fields[m]
<1>1. m \in Fields(op)
  BY DEF Fields, Part
<1>2. \A j \in DOMAIN Table[op].parts : m \in DOMAIN Table[op].parts[j].fields => j = i
  BY TableAssumption DEF PartsSuit, Part
<1>3. (CHOOSE j \in DOMAIN Table[op].parts : m \in DOMAIN Table[op].parts[j].fields) = i
  BY <1>2 DEF Part
<1> QED
  BY <1>1, <1>3 DEF FieldOf, Part

\* What a getter has collected is what the setter was told.
LEMMA StepCollects ==
    ASSUME ComboTypes, Apart, RegsInv, Fresh, NEW t \in Threads, Step(t), thr[t].kind = "get",
           thr[t].op \in DOMAIN asked, Fits(thr[t].op, asked[thr[t].op]),
           DOMAIN thr[t].got = Through(t), \A m \in DOMAIN thr[t].got : thr[t].got[m] = asked[thr[t].op][m]
    PROVE  IF More(t) THEN /\ DOMAIN Got(t) = Through(t)'
                           /\ \A m \in DOMAIN Got(t) : Got(t)[m] = asked[thr[t].op][m]
           ELSE Got(t) = asked[thr[t].op]
<1> DEFINE op == thr[t].op
           i == thr[t].part
           fields == Part(op, i).fields
<1>0. thr[t].at = "next" /\ Active(t) /\ GoesOn(t)
  BY StepMakes DEF Step, Active
<1>p. op \in DOMAIN Table /\ i \in DOMAIN Op1(t).parts /\ i \in 1 .. 2 /\ DOMAIN Op1(t).parts = 1 .. Len(Op1(t).parts)
      /\ Len(Op1(t).parts) \in 1 .. 2 /\ Reg(t) = Part(op, i).reg /\ Reg(t) \in Registers /\ i \in 1 .. Len(Op1(t).parts)
  BY <1>0, PartsOf, Suits
<1>1. thr[t].work = Told(asked, base[Reg(t)], Reg(t))
  <2>1. ~Written(t, i)
    BY DEF Written
  <2>2. Untouched(Reg(t))
    BY <1>0, <1>p, <2>1, Unwritten
  <2> QED
    BY <1>0, <1>p, <2>2 DEF Fresh, RegsInv
<1>2. ASSUME NEW m \in DOMAIN fields PROVE FldRead(thr[t].work, fields[m]) = asked[op][m]
  <2>1. asked[op][m] \subseteq Bits(fields[m][2])
    BY <1>p, OneField DEF Fits, Op1
  <2>2. DOMAIN asked \subseteq Setters
    BY DEF ComboTypes
  <2> HIDE DEF op, i, fields
  <2>3. FldRead(Told(asked, base[Reg(t)], Part(op, i).reg), Part(op, i).fields[m]) = asked[op][m]
    BY <1>p, <2>1, <2>2, ReadBack DEF Op1, fields, op
  <2> QED
    BY <1>1, <1>p, <2>3 DEF fields
<1>3. DOMAIN Got(t) = Through(t) \cup DOMAIN fields
  BY DEF Got
<1>4. \A m \in DOMAIN Got(t) : Got(t)[m] = asked[op][m]
  BY <1>2, <1>3 DEF Got
<1>5. CASE More(t)
  <2>1. \A n \in 1 .. 2 : \A j : j \in 1 .. n => j \in 1 .. 2
    OBVIOUS
  <2>2. \A j \in 1 .. 2 : j < i + 1 <=> j < i \/ j = i
    BY <1>p
  <2>3. {j \in DOMAIN Op1(t).parts : j < i + 1} = {j \in DOMAIN Op1(t).parts : j < i} \cup {i}
    BY <1>p, <2>1, <2>2, Zenon
  <2>4. Through(t)' = UNION {DOMAIN Part(op, j).fields : j \in {k \in DOMAIN Op1(t).parts : k < i + 1}}
    BY <1>0, <1>5, StepMakes DEF GoesOn, Through, Op1
  <2>5. Through(t)' = Through(t) \cup DOMAIN fields
    BY <2>3, <2>4 DEF Through
  <2> QED
    BY <1>3, <1>4, <1>5, <2>5
<1>6. CASE ~More(t)
  <2>1. \A n \in 1 .. 2 : \A k \in 1 .. n : ~(k < n) => \A j \in 1 .. n : j < k \/ j = k
    OBVIOUS
  <2>2. \A j \in DOMAIN Op1(t).parts : j < i \/ j = i
    BY <1>6, <1>p, <2>1, Zenon DEF More
  <2>3. Through(t) \cup DOMAIN fields = Fields(op)
    BY <1>p, <2>2 DEF Through, Fields, Part, Op1
  <2>4. Sets(op, asked[op])
    BY DEF ComboTypes
  <2>5. Got(t) = [m \in Fields(op) |-> Got(t)[m]]
    BY <1>3, <2>3 DEF Got
  <2>6. Got(t) = asked[op]
    BY <1>3, <1>4, <2>3, <2>4, <2>5 DEF Sets
  <2> QED
    BY <1>6, <2>6
<1> QED
  BY <1>5, <1>6

LEMMA ThreadCollects == ASSUME ComboTypes, BusInv, NEW t \in Threads, ThreadStep(t) PROVE Collected'
<1>b. Apart /\ Aimed /\ RegsInv /\ Fresh /\ Collected
  BY DEF BusInv
<1>0. DOMAIN thr = Threads /\ ThreadFine(t)
  BY DEF ComboTypes
<1>k. \A u \in Threads : u # t => thr'[u] = thr[u]
  BY <1>0, OthersKept
<1> DEFINE Good(s, through) ==
             s.kind = "get" /\ s.op \in DOMAIN asked /\ Fits(s.op, asked[s.op]) =>
                IF s.at \in {"await", "done"} THEN s.got = asked[s.op]
                ELSE /\ DOMAIN s.got = through
                     /\ \A m \in DOMAIN s.got : s.got[m] = asked[s.op][m]
<1>g. Good(thr[t], Through(t))
  BY <1>b DEF Collected
<1>1. ASSUME NEW u \in Threads, u # t PROVE Good(thr[u], Through(u))'
  <2>1. Good(thr[u], Through(u)) /\ thr'[u] = thr[u] /\ Through(u)' = Through(u)
    BY <1>1, <1>b, <1>k DEF Collected, Through, Op1
  <2>2. CASE UNCHANGED asked
    BY <2>1, <2>2
  <2>3. CASE Step(t) /\ ~UNCHANGED asked
    <3>0. Active(t)
      BY <2>3 DEF Step, Active
    <3>1. asked' = Tell(asked, thr[t].op, thr[t].val)
      BY <2>3, StepMakes
    <3>2. CASE thr[u].kind = "get"
      <4>1. thr[u].op # thr[t].op
        <5>1. Active(u)
          BY <3>2 DEF ComboTypes, ThreadFine, Active
        <5> QED
          BY <1>1, <1>b, <3>0, <5>1, Mine
      <4>2. (thr[u].op \in DOMAIN asked' <=> thr[u].op \in DOMAIN asked)
            /\ (thr[u].op \in DOMAIN asked => asked'[thr[u].op] = asked[thr[u].op])
        BY <3>1, <4>1 DEF Tell
      <4> QED
        BY <2>1, <4>2
    <3>3. CASE thr[u].kind # "get"
      BY <2>1, <3>3
    <3> QED
      BY <3>2, <3>3
  <2> QED
    BY <2>2, <2>3 DEF ThreadStep, Call, Point, Read, Write, Return, CallWait, Poll, Await
<1>2. Good(thr[t], Through(t))'
  <2>1. CASE Call(t)
    <3>1. thr'[t].part = 1 /\ thr'[t].got = <<>> /\ thr'[t].at \in {"read", "aim", "point"} /\ thr'[t].op \in DOMAIN Table
      BY <2>1, CallMakes, Ops
    <3>2. DOMAIN Op1(t)'.parts = 1 .. Len(Op1(t)'.parts)
      BY <3>1, TableAssumption DEF PartsSuit, Op1
    <3>3. {j \in DOMAIN Op1(t)'.parts : j < 1} = {}
      BY <3>2
    <3>4. Through(t)' = {}
      BY <3>1, <3>3 DEF Through
    <3>5. DOMAIN thr'[t].got = {}
      BY <3>1
    <3> QED
      BY <3>1, <3>4, <3>5
  <2>2. CASE Point(t) \/ Read(t)
    <3>1. GoesOn(t) /\ thr'[t].part = thr[t].part /\ thr'[t].got = thr[t].got /\ UNCHANGED asked
      BY <2>2, PointMakes, ReadMakes DEF Point, Read
    <3>2. thr[t].at \notin {"await", "done"} /\ thr'[t].at \notin {"await", "done"}
      BY <2>2, PointMakes, ReadMakes DEF Point, Read
    <3>3. Through(t)' = Through(t)
      BY <3>1 DEF GoesOn, Through, Op1
    <3> QED
      BY <1>g, <3>1, <3>2, <3>3 DEF GoesOn
  <2>3. CASE Step(t)
    <3>1. CASE thr[t].kind = "get" /\ thr[t].op \in DOMAIN asked /\ Fits(thr[t].op, asked[thr[t].op])
      <4>1. GoesOn(t) /\ asked' = asked /\ thr'[t].got = Got(t) /\ thr[t].at = "next"
            /\ thr'[t].at = IF More(t) THEN "read" ELSE IF Released(t) THEN "await" ELSE "done"
        BY <2>3, <3>1, StepMakes DEF Step
      <4>2. IF More(t) THEN /\ DOMAIN Got(t) = Through(t)'
                            /\ \A m \in DOMAIN Got(t) : Got(t)[m] = asked[thr[t].op][m]
            ELSE Got(t) = asked[thr[t].op]
        BY <1>b, <1>g, <2>3, <3>1, <4>1, StepCollects
      <4> QED
        BY <4>1, <4>2 DEF GoesOn
    <3>2. CASE ~(thr[t].kind = "get" /\ thr[t].op \in DOMAIN asked /\ Fits(thr[t].op, asked[thr[t].op]))
      <4>1. CASE thr[t].kind # "get"
        BY <2>3, <4>1, StepMakes DEF GoesOn
      <4>2. CASE thr[t].kind = "get"
        <5>1. asked' = asked /\ GoesOn(t)
          BY <2>3, <4>2, StepMakes
        <5> QED
          BY <3>2, <5>1 DEF GoesOn
      <4> QED
        BY <4>1, <4>2
    <3> QED
      BY <3>1, <3>2
  <2>4. CASE Write(t) \/ CallWait(t) \/ Return(t) \/ Poll(t)
    <3>1. thr'[t].kind # "get"
      <4>1. CASE Write(t)
        BY <1>0, <4>1, WriteMakes DEF Write, ThreadFine, GoesOn
      <4>2. CASE CallWait(t)
        BY <4>2, WaitMakes
      <4>3. CASE Return(t)
        BY <1>0, <4>3, SetKeeps DEF Return, Free
      <4>4. CASE Poll(t)
        BY <1>0, <4>4, EndMakes DEF Poll, ThreadFine, GoesOn
      <4> QED
        BY <2>4, <4>1, <4>2, <4>3, <4>4
    <3> QED
      BY <3>1
  <2>5. CASE Await(t)
    <3>1. GoesOn(t) /\ thr'[t].got = thr[t].got /\ UNCHANGED asked /\ thr[t].at = "await" /\ thr'[t].at = "done"
      BY <2>5, EndMakes DEF Await
    <3> QED
      BY <1>g, <3>1 DEF GoesOn
  <2> QED
    BY <2>1, <2>2, <2>3, <2>4, <2>5 DEF ThreadStep
<1> QED
  BY <1>1, <1>2 DEF Collected

\* Nobody takes back the readiness that a reset waited for.
LEMMA ThreadResets == ASSUME ComboTypes, Apart, Aimed, ResetOver, NEW t \in Threads, ThreadStep(t) PROVE ResetOver'
<1>0. DOMAIN thr = Threads /\ ThreadFine(t)
  BY DEF ComboTypes
<1>k. \A u \in Threads : u # t => thr'[u] = thr[u]
  BY <1>0, OthersKept
<1> DEFINE Over(u) == thr[u].at = "done" /\ thr[u].op = "DllReset" /\ thr[u].status = "ok" /\ Released(u)
<1>1. ASSUME NEW u \in Threads, u # t, Over(u)' PROVE ready'
  <2>1. ready /\ thr'[u] = thr[u] /\ Active(u) /\ thr[u].op = "DllReset"
    BY <1>1, <1>k DEF ResetOver, Released, Active
  <2>2. CASE Write(t)
    <3>1. Active(t) /\ Place(t) = Reg(t)
      BY <2>2 DEF Write, Active, Aimed
    <3>2. Reg(t) \notin RegsOf(thr[u].op) /\ thr[u].op \in DOMAIN Table
      BY <1>1, <2>1, <3>1, Mine, Suits
    <3>3. Place(t) # "HRS09"
      BY <2>1, <3>1, <3>2, TableAssumption
    <3> QED
      BY <2>1, <2>2, <3>3 DEF Write
  <2> QED
    BY <2>1, <2>2 DEF ThreadStep, Call, Point, Read, Step, Return, CallWait, Poll, Await
<1>2. ASSUME Over(t)' PROVE ready'
  <2>1. CASE Call(t) \/ Point(t) \/ Read(t) \/ Write(t) \/ Return(t) \/ CallWait(t)
    <3>1. thr'[t].at # "done"
      BY <1>0, <2>1, CallMakes, PointMakes, ReadMakes, WriteMakes, WaitMakes, SetKeeps DEF Return, Free
    <3> QED
      BY <1>2, <3>1
  <2>2. CASE Step(t)
    <3>1. GoesOn(t) /\ ~Released(t)
      BY <1>2, <2>2, StepMakes
    <3> QED
      BY <1>2, <3>1 DEF Released, GoesOn
  <2>3. CASE Poll(t)
    BY <1>0, <1>2, <2>3, EndMakes DEF Poll, ThreadFine, GoesOn
  <2>4. CASE Await(t)
    BY <1>2, <2>4, EndMakes DEF Await
  <2> QED
    BY <2>1, <2>2, <2>3, <2>4 DEF ThreadStep
<1> QED
  BY <1>1, <1>2 DEF ResetOver

LEMMA ThreadKeeps == ASSUME ComboInv, NEW t \in Threads, ThreadStep(t) PROVE ComboInv'
<1>1. ComboTypes'
  BY ThreadTypes DEF ComboInv
<1>2. ASSUME Undisturbed' PROVE BusInv'
  <2>1. Undisturbed
    BY <1>2, OthersKept DEF ComboInv, ComboTypes, Undisturbed
  <2>2. BusInv
    BY <2>1 DEF ComboInv
  <2> QED
    BY <2>1, <2>2, ThreadApart, ThreadAimed, ThreadTells, ThreadFresh, ThreadCollects, ThreadResets DEF BusInv, ComboInv
<1> QED
  BY <1>1, <1>2 DEF ComboInv

\* The lock is set in a register that no setter writes, while only its waiter is at work.
LEMMA LockKeeps == ASSUME ComboInv, Lock PROVE ComboInv'
<1>0. UNCHANGED <<env, thr, asked, ready, port>> /\ DllReg \in Registers
  BY DEF Lock
<1>1. ComboTypes'
  BY <1>0 DEF ComboInv, ComboTypes, ThreadFine, Active, Lock
<1>2. ASSUME Undisturbed' PROVE BusInv'
  <2>0. BusInv /\ ComboTypes
    BY <1>0, <1>2 DEF ComboInv, Undisturbed
  <2>1. PICK w \in Threads : thr[w].kind = "wait"
    BY DEF Lock
  <2>2. Active(w) /\ ~Op1(w).direct
    BY <2>0, <2>1, Suits, TableAssumption DEF ComboTypes, ThreadFine, Active, Op1
  <2>3. \A t \in Threads : thr[t].kind \in {"none", "wait"} /\ (t # w => thr[t].at = "idle")
    BY <2>0, <2>1, <2>2, Mine DEF BusInv, ComboTypes, ThreadFine, Active
  <2>4. Apart' /\ Aimed' /\ ResetOver'
    BY <1>0, <2>0 DEF BusInv, Apart, Aimed, ResetOver, Active, Op1, Place, Reg, Released
  <2>5. Fresh'
    BY <1>0, <2>0, <2>3 DEF ComboTypes, ThreadFine, Fresh
  <2>6. Collected'
    BY <1>0, <2>3 DEF Collected
  <2>7. ASSUME NEW r \in Registers PROVE regs'[r] = Told(asked', base'[r], r)
    <3>1. regs[r] = Told(asked, base[r], r)
      BY <2>0, <2>3 DEF BusInv, RegsInv, Untouched, Written
    <3>2. CASE r = DllReg
      <4>1. regs'[r] = regs[r] \cup {0} /\ base'[r] = base[r] \cup {0}
        BY <2>0, <3>2 DEF Lock, ComboTypes
      <4>2. \A b : Owners(asked, r, b) = {}
        BY <2>0, <3>2, TableAssumption DEF ComboTypes, Owners, RegsOf, Part
      <4> QED
        BY <1>0, <3>1, <4>1, <4>2 DEF Told
    <3>3. CASE r # DllReg
      BY <1>0, <2>0, <3>1, <3>3 DEF Lock, ComboTypes
    <3> QED
      BY <3>2, <3>3
  <2>8. RegsInv'
    BY <1>0, <2>3, <2>7 DEF RegsInv, Written
  <2> QED
    BY <2>4, <2>5, <2>6, <2>8 DEF BusInv
<1> QED
  BY <1>1, <1>2 DEF ComboInv

LEMMA StaysCombo == ASSUME ComboInv, UNCHANGED <<env, regs, port, thr, asked, base>>, ready => ready' PROVE ComboInv'
<1>1. ComboTypes'
  BY DEF ComboInv, ComboTypes, ThreadFine, Active
<1>2. Undisturbed' <=> Undisturbed
  BY DEF Undisturbed
<1>3. ASSUME BusInv PROVE BusInv'
  <2>1. Apart' /\ Aimed' /\ ResetOver' /\ Fresh'
    BY <1>3 DEF BusInv, Apart, Aimed, ResetOver, Fresh, Active, Op1, Place, Reg, Released
  <2>2. RegsInv'
    BY <1>3 DEF BusInv, RegsInv, Untouched, Written, Op1
  <2>3. Collected'
    BY <1>3 DEF BusInv, Collected, Through, Op1
  <2> QED
    BY <2>1, <2>2, <2>3 DEF BusInv
<1> QED
  BY <1>1, <1>2, <1>3 DEF ComboInv

LEMMA ComboNext == ASSUME ComboInv, [Next]_vars PROVE ComboInv'
<1>1. CASE \E t \in Threads : ThreadStep(t)
  BY <1>1, ThreadKeeps
<1>2. CASE Lock
  BY <1>2, LockKeeps
<1>3. CASE Ready
  BY <1>3, StaysCombo DEF Ready
<1>4. CASE OlderStep
  BY <1>4, OlderKeeps, StaysCombo DEF combo
<1>5. CASE UNCHANGED vars
  BY <1>5, StaysCombo DEF vars, combo
<1> QED
  BY <1>1, <1>2, <1>3, <1>4, <1>5, Steps

LEMMA ComboInit == ASSUME Init PROVE ComboInv
<1>1. \A t \in Threads : thr[t] = Free
  BY DEF Init
<1>2. ComboTypes
  BY <1>1 DEF Init, ComboTypes, ThreadFine, Active, Free
<1>3. Apart /\ Aimed /\ Fresh /\ Collected /\ ResetOver
  BY <1>1 DEF Free, Apart, Aimed, Fresh, Collected, ResetOver, Active
<1>4. RegsInv
  <2>1. ASSUME NEW r \in Registers PROVE regs[r] = Told(asked, base[r], r)
    <3>1. base[r] \in {{}, 0 .. 31} /\ regs[r] = base[r]
      BY DEF Init
    <3>2. \A b : Owners(asked, r, b) = {}
      BY DEF Init, Owners
    <3> QED
      BY <3>1, <3>2 DEF Told
  <2> QED
    BY <1>1, <2>1 DEF RegsInv, Written, Free
<1> QED
  BY <1>2, <1>3, <1>4 DEF ComboInv, BusInv

LEMMA ComboCorrect == Spec => []ComboInv
<1>1. Init => ComboInv
  BY ComboInit
<1>2. ComboInv /\ [Next]_vars => ComboInv'
  BY ComboNext
<1> QED
  BY <1>1, <1>2, PTL DEF Spec

\* Setters of the combo PHY, as FieldsAsAsked says: while calls keep apart, a register holds
\* what each setter was told last in its own fields (the read-modify-writes of ccp.c and of
\* the SDIO_CPhy functions), and every other bit as it was.
THEOREM SettersKeepApart == Spec => []FieldsAsAsked
<1>1. ASSUME ComboInv, Undisturbed, \A t \in Threads : thr[t].at = "idle", NEW r \in Registers
      PROVE  regs[r] = Expected(r)
  <2>1. Untouched(r)
    BY <1>1 DEF ComboInv, ComboTypes, ThreadFine, Untouched, Written
  <2> QED
    BY <1>1, <2>1, ExpectedIsTold DEF ComboInv, BusInv, RegsInv
<1>2. ComboInv => FieldsAsAsked
  BY <1>1 DEF FieldsAsAsked
<1> QED
  BY <1>2, ComboCorrect, PTL

-----------------------------------------------------------------------------------
(***************************************************************************)
(* The older PHY: the handshake, and what a call has still to do.          *)
(***************************************************************************)

Wishes == {"write", "read"} \X Lines
UisTypes ==
    /\ DOMAIN uis = DOMAIN NoUis /\ DOMAIN delays = Lines
    /\ uis.at \in {"idle", "free", "put", "raise", "acked"}
    /\ uis.todo \in Seq(Wishes)
    /\ uis.at # "idle" => uis.todo # <<>>
    /\ uis.ack \in BOOLEAN /\ uis.late \in BOOLEAN

\* A line has what the call wants of it, as far as it can hold that, or is still to be written.
Held(l) == l \notin env.narrow => delays[l] = uis.want[l]
Queued(l) == \E j \in DOMAIN uis.todo : uis.todo[j] = <<"write", l>>

\* The request is raised for the head of the list, and acknowledged when it is served.
Handshake ==
    /\ uis.at # "acked" => uis.req = "none"
    /\ uis.at \in {"put", "raise"} => ~uis.ack
    /\ uis.at \in {"raise", "acked"} => uis.addr = What[2] /\ (What[1] = "write" => uis.wdata = uis.want[What[2]])
    /\ uis.at = "acked" => uis.req = What[1]
    /\ uis.at = "acked" /\ uis.ack => IF What[1] = "read" THEN uis.rdata = delays[What[2]] ELSE Held(What[2])

\* Lines are written before they are read, each call does what it is for.
Duties ==
    /\ uis.at # "idle" =>
          /\ uis.status = "none" /\ uis.call \in {"write", "read", "settings"}
          /\ \A i, j \in DOMAIN uis.todo : i < j /\ uis.todo[j][1] = "write" => uis.todo[i][1] = "write"
          /\ uis.call = "write" => \A j \in DOMAIN uis.todo : uis.todo[j][1] = "write"
          /\ uis.call = "read" => \A j \in DOMAIN uis.todo : uis.todo[j][1] = "read"
          /\ uis.call = "settings" => \A l \in Lines : Held(l) \/ Queued(l)
    /\ uis.status = "ok" =>
          CASE uis.call = "write" -> Held(uis.line)
            [] uis.call = "read" -> uis.got = delays[uis.line]
            [] OTHER -> \A l \in Lines : Held(l)

UisInv == UisTypes /\ (~uis.late => Handshake /\ Duties)

LEMMA Todo ==
    ASSUME UisTypes, uis.at # "idle"
    PROVE  /\ Len(uis.todo) \in Nat \ {0} /\ DOMAIN uis.todo = 1 .. Len(uis.todo) /\ What = uis.todo[1]
           /\ What[1] \in {"write", "read"} /\ What[2] \in Lines /\ What = <<What[1], What[2]>>
           /\ Tail(uis.todo) \in Seq(Wishes) /\ DOMAIN Tail(uis.todo) = 1 .. Len(uis.todo) - 1
           /\ \A j \in DOMAIN Tail(uis.todo) : Tail(uis.todo)[j] = uis.todo[j + 1] /\ j + 1 \in DOMAIN uis.todo
<1>1. uis.todo \in Seq(Wishes) /\ uis.todo # <<>>
  BY DEF UisTypes
<1>2. Len(uis.todo) \in Nat \ {0} /\ DOMAIN uis.todo = 1 .. Len(uis.todo)
  BY <1>1, EmptySeq, LenProperties
<1>3. What = uis.todo[1] /\ What \in Wishes
  BY <1>1, <1>2, ElementOfSeq DEF What
<1>4. Tail(uis.todo) \in Seq(Wishes) /\ Len(Tail(uis.todo)) = Len(uis.todo) - 1
      /\ \A j \in 1 .. Len(Tail(uis.todo)) : Tail(uis.todo)[j] = uis.todo[j + 1]
  BY <1>1, HeadTailProperties
<1>5. DOMAIN Tail(uis.todo) = 1 .. Len(Tail(uis.todo))
  BY <1>4, LenProperties
<1>6. \A n \in Nat \ {0} : \A j \in 1 .. n - 1 : j + 1 \in 1 .. n
  OBVIOUS
<1> QED
  BY <1>2, <1>3, <1>4, <1>5, <1>6 DEF Wishes

\* The list of the settings names every line.
LEMMA IdxCovers ==
    /\ Cardinality(Lines) \in Nat \ {0} /\ Idx \in [1 .. Cardinality(Lines) -> Lines]
    /\ \A l \in Lines : \E i \in 1 .. Cardinality(Lines) : Idx[i] = l
<1> DEFINE n == Cardinality(Lines)
<1>1. n \in Nat \ {0} /\ ExistsBijection(1 .. n, Lines)
  BY LinesAssumption, FS_CardinalityType, FS_EmptySet
<1>2. PICK f \in Bijection(1 .. n, Lines) : TRUE
  BY <1>1 DEF ExistsBijection
<1>3. f \in [1 .. n -> Lines] /\ \A i, j \in DOMAIN f : f[i] = f[j] => i = j
  BY <1>2 DEF Bijection, Injection, IsInjective
<1>4. Idx \in [1 .. n -> Lines] /\ \A i, j \in DOMAIN Idx : Idx[i] = Idx[j] => i = j
  BY <1>3 DEF Idx
<1>5. Idx \in Injection(1 .. n, Lines)
  BY <1>4 DEF Injection, IsInjective
<1>6. Cardinality(1 .. n) = n
  BY <1>1, FS_Interval
<1>7. Idx \in Surjection(1 .. n, Lines)
  BY <1>5, <1>6, LinesAssumption, FS_Injection
<1> QED
  BY <1>1, <1>4, <1>7 DEF Surjection

LEMMA BeginMakes ==
    ASSUME UisTypes, NEW call, NEW todo, NEW want, Begin(call, todo, want)
    PROVE  /\ DOMAIN uis' = DOMAIN NoUis /\ uis'.at = "free" /\ uis'.call = call /\ uis'.todo = todo /\ uis'.want = want
           /\ uis'.status = "none" /\ uis'.req = uis.req /\ uis'.ack = uis.ack /\ uis'.late = uis.late
           /\ UNCHANGED <<delays, env>>
<1>1. DOMAIN uis = DOMAIN NoUis
  BY DEF UisTypes
<1> QED
  BY <1>1 DEF Begin, Older, NoUis

LEMMA CallsBegin == ASSUME UisInv, CallWritePhySet \/ CallReadPhySet \/ CallPhySettings PROVE UisInv'
<1>0. UisTypes /\ uis.at = "idle"
  BY DEF UisInv, UisFree, CallWritePhySet, CallReadPhySet, CallPhySettings
<1>a. ASSUME NEW call, NEW todo \in Seq(Wishes), NEW want, Begin(call, todo, want), todo # <<>>,
             ~uis'.late => Duties'
      PROVE  UisInv'
  <2>1. UisTypes'
    BY <1>0, <1>a, BeginMakes DEF UisTypes
  <2>2. ~uis'.late => Handshake'
    BY <1>0, <1>a, BeginMakes DEF UisInv, Handshake
  <2> QED
    BY <1>a, <2>1, <2>2 DEF UisInv
<1>1. CASE CallWritePhySet
  <2>1. PICK l \in Lines, v \in 1 .. 3 : Begin("write", <<<<"write", l>>>>, [x \in {l} |-> v])
    BY <1>1 DEF CallWritePhySet
  <2>2. <<"write", l>> \in Wishes
    BY DEF Wishes
  <2>3. <<<<"write", l>>>> \in Seq(Wishes) /\ <<<<"write", l>>>> # <<>>
    BY <2>2
  <2>4. Duties'
    BY <1>0, <2>1, BeginMakes DEF Duties
  <2> QED
    BY <1>a, <2>1, <2>3, <2>4
<1>2. CASE CallReadPhySet
  <2>1. PICK l \in Lines : Begin("read", <<<<"read", l>>>>, <<>>)
    BY <1>2 DEF CallReadPhySet
  <2>2. <<"read", l>> \in Wishes
    BY DEF Wishes
  <2>3. <<<<"read", l>>>> \in Seq(Wishes) /\ <<<<"read", l>>>> # <<>>
    BY <2>2
  <2>4. Duties'
    BY <1>0, <2>1, BeginMakes DEF Duties
  <2> QED
    BY <1>a, <2>1, <2>3, <2>4
<1>3. CASE CallPhySettings
  <2> DEFINE n == Cardinality(Lines)
             w == [i \in DOMAIN Idx |-> <<"write", Idx[i]>>]
             r == [i \in DOMAIN Idx |-> <<"read", Idx[i]>>]
  <2>1. PICK want \in [Lines -> 1 .. 3] : Begin("settings", w \o r, want)
    BY <1>3 DEF CallPhySettings
  <2>2. n \in Nat \ {0} /\ DOMAIN Idx = 1 .. n /\ \A i \in 1 .. n : Idx[i] \in Lines
    BY IdxCovers
  <2>3. w \in [1 .. n -> Wishes] /\ r \in [1 .. n -> Wishes]
    BY <2>2 DEF Wishes
  <2> HIDE DEF w, r
  <2>4. w \in Seq(Wishes) /\ r \in Seq(Wishes)
    BY <2>2, <2>3
  <2>5. Len(w) = n /\ Len(r) = n
    BY <2>2, <2>3, <2>4, LenProperties
  <2>6. /\ w \o r \in Seq(Wishes) /\ Len(w \o r) = n + n /\ DOMAIN (w \o r) = 1 .. n + n
        /\ \A i \in 1 .. n + n : (w \o r)[i] = IF i <= n THEN w[i] ELSE r[i - n]
    <3>1. /\ w \o r \in Seq(Wishes) /\ Len(w \o r) = Len(w) + Len(r)
          /\ \A i \in 1 .. Len(w) + Len(r) : (w \o r)[i] = IF i <= Len(w) THEN w[i] ELSE r[i - Len(w)]
      BY <2>4, ConcatProperties
    <3>2. DOMAIN (w \o r) = 1 .. Len(w \o r)
      BY <3>1, LenProperties
    <3> QED
      BY <2>5, <3>1, <3>2
  <2>7. \A i \in 1 .. n + n : (w \o r)[i][1] = "write" <=> i <= n
    <3>1. ASSUME NEW i \in 1 .. n + n, i <= n PROVE (w \o r)[i][1] = "write"
      <4>1. i \in 1 .. n /\ (w \o r)[i] = w[i]
        BY <2>2, <2>6, <3>1
      <4>2. w[i] = <<"write", Idx[i]>>
        BY <2>2, <4>1 DEF w
      <4> QED
        BY <4>1, <4>2
    <3>2. ASSUME NEW i \in 1 .. n + n, ~(i <= n) PROVE (w \o r)[i][1] = "read"
      <4>1. i - n \in 1 .. n /\ (w \o r)[i] = r[i - n]
        BY <2>2, <2>6, <3>2
      <4>2. r[i - n] = <<"read", Idx[i - n]>>
        BY <2>2, <4>1 DEF r
      <4> QED
        BY <4>1, <4>2
    <3> QED
      BY <3>1, <3>2
  <2>8. \A l \in Lines : \E j \in DOMAIN (w \o r) : (w \o r)[j] = <<"write", l>>
    <3>1. TAKE l \in Lines
    <3>2. PICK i \in 1 .. n : Idx[i] = l
      BY IdxCovers
    <3>3. i \in 1 .. n + n /\ (w \o r)[i] = w[i]
      BY <2>2, <2>6
    <3>4. w[i] = <<"write", l>>
      BY <2>2, <3>2 DEF w
    <3> QED
      BY <2>6, <3>3, <3>4
  <2>9. w \o r # <<>>
    <3>1. Len(w \o r) # 0
      BY <2>2, <2>6
    <3> QED
      BY <3>1, EmptySeq
  <2>10. \A i, j \in DOMAIN (w \o r) : i < j /\ (w \o r)[j][1] = "write" => (w \o r)[i][1] = "write"
    BY <2>2, <2>6, <2>7
  <2>11. Duties'
    <3> DEFINE todo == w \o r
    <3>1. uis'.todo = todo /\ uis'.call = "settings" /\ uis'.status = "none"
      BY <1>0, <2>1, BeginMakes
    <3> HIDE DEF todo
    <3>2. \A l \in Lines : Queued(l)'
      BY <2>8, <3>1 DEF Queued, todo
    <3>3. \A i, j \in DOMAIN todo : i < j /\ todo[j][1] = "write" => todo[i][1] = "write"
      BY <2>10 DEF todo
    <3> QED
      BY <3>1, <3>2, <3>3 DEF Duties
  <2> QED
    BY <1>a, <2>1, <2>6, <2>9, <2>11
<1> QED
  BY <1>1, <1>2, <1>3

LEMMA UisWaits == ASSUME UisInv, UisWait \/ UisPut \/ UisRaise PROVE UisInv'
<1>0. UisTypes /\ UNCHANGED <<env, delays>> /\ uis.at \in {"free", "put", "raise"}
  BY DEF UisInv, UisWait, UisPut, UisRaise, Uis, Older
<1>1. /\ DOMAIN uis' = DOMAIN NoUis /\ uis'.todo = uis.todo /\ uis'.call = uis.call /\ uis'.want = uis.want
      /\ uis'.status = uis.status /\ uis'.ack = uis.ack /\ uis'.late = uis.late /\ uis'.got = uis.got
      /\ uis'.line = uis.line
  <2>1. DOMAIN uis = DOMAIN NoUis
    BY <1>0 DEF UisTypes
  <2> QED
    BY <2>1 DEF UisWait, UisPut, UisRaise, Uis, NoUis
<1>2. /\ UisWait => uis'.at = "put" /\ uis'.req = uis.req /\ uis.at = "free" /\ ~uis.ack
      /\ UisPut => /\ uis'.at = "raise" /\ uis'.req = "none" /\ uis'.addr = What[2] /\ uis.at = "put"
                   /\ (What[1] = "write" => uis'.wdata = uis.want[What[2]])
      /\ UisRaise => /\ uis'.at = "acked" /\ uis'.req = What[1] /\ uis'.addr = uis.addr
                     /\ uis'.wdata = uis.wdata /\ uis.at = "raise"
  <2>1. DOMAIN uis = DOMAIN NoUis
    BY <1>0 DEF UisTypes
  <2> QED
    BY <2>1 DEF UisWait, UisPut, UisRaise, Uis, NoUis
<1>3. UisTypes'
  BY <1>0, <1>1, <1>2 DEF UisTypes
<1>4. What' = What
  BY <1>1 DEF What
<1>5. ASSUME ~uis'.late PROVE Handshake' /\ Duties'
  <2>1. Handshake /\ Duties
    BY <1>1, <1>5 DEF UisInv
  <2>2. Handshake'
    BY <1>0, <1>1, <1>2, <1>4, <2>1 DEF Handshake
  <2>3. \A l : Held(l)' <=> Held(l)
    BY <1>0, <1>1 DEF Held
  <2>4. \A l : Queued(l)' <=> Queued(l)
    BY <1>1 DEF Queued
  <2>5. uis.status = "none"
    BY <1>0, <2>1 DEF Duties
  <2>6. Duties'
    BY <1>0, <1>1, <2>1, <2>3, <2>4, <2>5 DEF Duties
  <2> QED
    BY <2>2, <2>6
<1> QED
  BY <1>3, <1>5 DEF UisInv

LEMMA UisTakes == ASSUME UisInv, UisTake PROVE UisInv'
<1> DEFINE wrong == uis.call = "settings" /\ What[1] = "read" /\ uis.rdata # uis.want[What[2]]
           ends == wrong \/ Len(uis.todo) = 1
<1>0. UisTypes /\ UNCHANGED <<env, delays>> /\ uis.at = "acked" /\ uis.ack /\ DOMAIN uis = DOMAIN NoUis
  BY DEF UisInv, UisTypes, UisTake, Uis, Older
<1>1. /\ DOMAIN uis' = DOMAIN NoUis /\ uis'.call = uis.call /\ uis'.want = uis.want /\ uis'.req = "none"
      /\ uis'.ack = uis.ack /\ uis'.late = uis.late
      /\ uis'.got = IF What[1] = "read" THEN uis.rdata ELSE uis.got
      /\ IF ends THEN uis'.at = "idle" /\ uis'.todo = <<>> /\ uis'.line = What[2] /\ uis'.status = "ok"
         ELSE uis'.at = "free" /\ uis'.todo = Tail(uis.todo) /\ uis'.line = uis.line /\ uis'.status = uis.status
  BY <1>0 DEF UisTake, Uis, NoUis
<1>2. Len(uis.todo) # 1 => Tail(uis.todo) # <<>>
  <2>1. Len(uis.todo) # 1 => Len(Tail(uis.todo)) # 0
    BY <1>0, Todo, LenProperties
  <2> QED
    BY <2>1, EmptySeq
<1>3. UisTypes'
  BY <1>0, <1>1, <1>2, Todo, EmptySeq DEF UisTypes
<1>4. ASSUME ~uis'.late PROVE Handshake' /\ Duties'
  <2>1. Handshake /\ Duties
    BY <1>1, <1>4 DEF UisInv
  <2>2. Handshake'
    BY <1>1 DEF Handshake
  <2>3. \A l : Held(l)' <=> Held(l)
    BY <1>0, <1>1 DEF Held
  <2>4. What[1] = "write" => Held(What[2])
    BY <1>0, <2>1 DEF Handshake
  <2>5. What[1] = "read" => uis.rdata = delays[What[2]]
    BY <1>0, <2>1 DEF Handshake
  <2>6. CASE ends
    <3>1. uis'.at = "idle" /\ uis'.line = What[2]
      BY <1>1, <2>6
    <3>2. ASSUME uis.call = "write" PROVE Held(What[2])
      BY <1>0, <2>1, <2>4, <3>2, Todo DEF Duties
    <3>3. ASSUME uis.call = "read" PROVE uis'.got = delays[What[2]]
      BY <1>0, <1>1, <2>1, <2>5, <3>3, Todo DEF Duties
    <3>4. ASSUME uis.call = "settings", NEW l \in Lines PROVE Held(l)
      <4>1. Held(l) \/ Queued(l)
        BY <1>0, <2>1, <3>4 DEF Duties
      <4>2. ASSUME NEW j \in DOMAIN uis.todo, uis.todo[j] = <<"write", l>> PROVE Held(l)
        <5>1. CASE j = 1
          BY <1>0, <2>4, <4>2, <5>1, Todo
        <5>2. CASE j # 1
          <6>1. 1 < j /\ 1 \in DOMAIN uis.todo /\ Len(uis.todo) # 1
            BY <1>0, <4>2, <5>2, Todo
          <6>2. uis.todo[1][1] = "write"
            BY <1>0, <2>1, <4>2, <6>1 DEF Duties
          <6> QED
            BY <1>0, <2>6, <6>1, <6>2, Todo
        <5> QED
          BY <5>1, <5>2
      <4> QED
        BY <4>1, <4>2 DEF Queued
    <3>5. uis.call \in {"write", "read", "settings"}
      BY <1>0, <2>1 DEF Duties
    <3> QED
      BY <1>0, <1>1, <2>2, <2>3, <3>1, <3>2, <3>3, <3>4, <3>5 DEF Duties
  <2>7. CASE ~ends
    <3> DEFINE todo == Tail(uis.todo)
    <3>1. uis'.at = "free" /\ uis'.todo = todo /\ uis'.status = uis.status
      BY <1>1, <2>7
    <3>2. /\ uis.status = "none" /\ uis.call \in {"write", "read", "settings"}
          /\ \A i, j \in DOMAIN uis.todo : i < j /\ uis.todo[j][1] = "write" => uis.todo[i][1] = "write"
          /\ uis.call = "write" => \A j \in DOMAIN uis.todo : uis.todo[j][1] = "write"
          /\ uis.call = "read" => \A j \in DOMAIN uis.todo : uis.todo[j][1] = "read"
          /\ uis.call = "settings" => \A l \in Lines : Held(l) \/ Queued(l)
      BY <1>0, <2>1 DEF Duties
    <3>3. \A j \in DOMAIN todo : j \in Nat /\ j + 1 \in DOMAIN uis.todo /\ todo[j] = uis.todo[j + 1]
      BY <1>0, Todo
    <3>4. \A i, j \in DOMAIN todo : i < j /\ todo[j][1] = "write" => todo[i][1] = "write"
      BY <3>2, <3>3
    <3>5. ASSUME NEW l \in Lines, Queued(l), ~Held(l) PROVE \E j \in DOMAIN todo : todo[j] = <<"write", l>>
      <4>1. PICK j \in DOMAIN uis.todo : uis.todo[j] = <<"write", l>>
        BY <3>5 DEF Queued
      <4>2. j # 1
        BY <1>0, <2>4, <3>5, <4>1, Todo
      <4>3. j - 1 \in DOMAIN todo /\ todo[j - 1] = uis.todo[j]
        BY <1>0, <4>2, Todo
      <4> QED
        BY <4>1, <4>3
    <3> HIDE DEF todo
    <3>6. uis.call = "settings" => \A l \in Lines : Held(l)' \/ Queued(l)'
      BY <2>3, <3>1, <3>2, <3>5 DEF Queued
    <3>7. Duties'
      BY <1>1, <3>1, <3>2, <3>3, <3>4, <3>6 DEF Duties
    <3> QED
      BY <2>2, <3>7
  <2> QED
    BY <2>6, <2>7
<1> QED
  BY <1>3, <1>4 DEF UisInv

LEMMA UisServes == ASSUME UisInv, UisServe \/ UisDrop PROVE UisInv'
<1>0. UisTypes /\ UNCHANGED env /\ DOMAIN uis = DOMAIN NoUis /\ DOMAIN delays = Lines
  BY DEF UisInv, UisTypes, UisServe, UisDrop, Uis, Older
<1>1. /\ DOMAIN uis' = DOMAIN NoUis /\ uis'.at = uis.at /\ uis'.todo = uis.todo /\ uis'.call = uis.call
      /\ uis'.want = uis.want /\ uis'.req = uis.req /\ uis'.status = uis.status /\ uis'.late = uis.late
      /\ uis'.got = uis.got /\ uis'.line = uis.line /\ uis'.addr = uis.addr /\ uis'.wdata = uis.wdata
      /\ UisServe => uis'.ack = TRUE /\ uis'.rdata = IF uis.req = "read" THEN delays[uis.addr] ELSE uis.rdata
      /\ UisDrop => uis'.ack = FALSE /\ uis'.rdata = uis.rdata /\ UNCHANGED delays /\ uis.req = "none"
      /\ DOMAIN delays' = Lines
  <2>1. CASE UisServe
    BY <1>0, <2>1 DEF UisServe, UisDrop, NoUis
  <2>2. CASE UisDrop
    BY <1>0, <2>2 DEF UisServe, UisDrop, Uis, NoUis
  <2> QED
    BY <2>1, <2>2
<1>2. UisTypes'
  BY <1>0, <1>1 DEF UisTypes
<1>3. What' = What
  BY <1>1 DEF What
<1>4. ASSUME ~uis'.late PROVE Handshake' /\ Duties'
  <2>1. Handshake /\ Duties
    BY <1>1, <1>4 DEF UisInv
  <2>2. CASE UisServe
    <3>0. uis.at = "acked" /\ uis.req = What[1] /\ uis.addr = What[2] /\ What[2] \in Lines /\ What[1] \in {"write", "read"}
          /\ (What[1] = "write" => uis.wdata = uis.want[What[2]])
      BY <1>0, <2>1, <2>2, Todo DEF UisServe, Handshake
    <3>1. What[1] = "read" => UNCHANGED delays
      BY <2>2, <3>0 DEF UisServe
    <3>2. ASSUME What[1] = "write"
          PROVE  Held(What[2])' /\ \A l \in Lines : l # What[2] => delays'[l] = delays[l]
      <4>1. delays' = [delays EXCEPT ![What[2]] = IF What[2] \in env.narrow THEN uis.want[What[2]] % 2
                                                  ELSE uis.want[What[2]]]
        BY <2>2, <3>0, <3>2 DEF UisServe
      <4> QED
        BY <1>0, <1>1, <1>3, <3>0, <4>1 DEF Held
    <3>3. \A l \in Lines : Held(l) => Held(l)'
      <4>1. ASSUME NEW l \in Lines, Held(l) PROVE Held(l)'
        <5>1. CASE delays'[l] = delays[l]
          BY <1>0, <1>1, <4>1, <5>1 DEF Held
        <5>2. CASE What[1] = "write" /\ l = What[2]
          <6>1. Held(What[2])' /\ What[2]' = l
            BY <1>3, <3>2, <5>2
          <6> QED
            BY <6>1 DEF Held
        <5> QED
          BY <3>0, <3>1, <3>2, <5>1, <5>2
      <4> QED
        BY <4>1
    <3>4. \A l : Queued(l)' <=> Queued(l)
      BY <1>1 DEF Queued
    <3>5. uis.status = "none"
      BY <2>1, <3>0 DEF Duties
    <3>6. Handshake'
      BY <1>1, <1>3, <2>2, <3>0, <3>1, <3>2 DEF Handshake
    <3>7. Duties'
      BY <1>1, <2>1, <3>0, <3>3, <3>4, <3>5 DEF Duties
    <3> QED
      BY <3>6, <3>7
  <2>3. CASE UisDrop
    <3>0. uis.at # "acked"
      BY <1>0, <1>1, <2>1, <2>3, Todo DEF Handshake
    <3>1. Handshake'
      BY <1>1, <1>3, <2>1, <2>3, <3>0 DEF Handshake
    <3>2. \A l : Held(l)' <=> Held(l)
      BY <1>0, <1>1, <2>3 DEF Held
    <3>3. \A l : Queued(l)' <=> Queued(l)
      BY <1>1 DEF Queued
    <3>4. Duties'
      BY <1>1, <2>1, <2>3, <3>2, <3>3 DEF Duties
    <3> QED
      BY <3>1, <3>4
  <2> QED
    BY <2>2, <2>3
<1> QED
  BY <1>2, <1>4 DEF UisInv

\* After a handshake that timed out nothing is stated.
LEMMA UisGivesUp == ASSUME UisInv, UisTimeout PROVE UisInv'
<1>0. DOMAIN uis = DOMAIN NoUis /\ UisTypes
  BY DEF UisInv, UisTypes
<1>1. uis' = [Finish("timeout") EXCEPT !.late = TRUE] /\ UNCHANGED delays
  BY DEF UisTimeout, Uis
<1>2. DOMAIN uis' = DOMAIN NoUis /\ uis'.at = "idle" /\ uis'.todo = <<>> /\ uis'.ack = uis.ack /\ uis'.late = TRUE
  BY <1>0, <1>1 DEF Finish, NoUis
<1>3. UisTypes'
  BY <1>0, <1>1, <1>2, EmptySeq DEF UisTypes
<1> QED
  BY <1>2, <1>3 DEF UisInv

LEMMA ComboKeepsOlder == ASSUME UisInv, UNCHANGED <<env, uis, delays>> PROVE UisInv'
<1>1. UisTypes' <=> UisTypes
  BY DEF UisTypes
<1>2. \A l : (Held(l)' <=> Held(l)) /\ (Queued(l)' <=> Queued(l))
  BY DEF Held, Queued
<1>3. What' = What
  BY DEF What
<1>4. (Handshake' <=> Handshake) /\ (Duties' <=> Duties)
  BY <1>2, <1>3 DEF Handshake, Duties
<1> QED
  BY <1>1, <1>4 DEF UisInv

LEMMA UisNext == ASSUME UisInv, DOMAIN thr = Threads, [Next]_vars PROVE UisInv'
<1>1. CASE \E t \in Threads : ThreadStep(t)
  BY <1>1, OthersKept, ComboKeepsOlder DEF older
<1>2. CASE Lock \/ Ready \/ UNCHANGED vars
  BY <1>2, ComboKeepsOlder DEF Lock, Ready, older, vars
<1>3. CASE OlderStep
  BY <1>3, CallsBegin, UisWaits, UisTakes, UisServes, UisGivesUp DEF OlderStep
<1> QED
  BY <1>1, <1>2, <1>3, Steps

LEMMA UisInit == ASSUME Init PROVE UisInv
<1>1. uis = NoUis /\ DOMAIN delays = Lines
  BY DEF Init
<1>2. UisTypes
  BY <1>1, EmptySeq DEF UisTypes, NoUis
<1>3. Handshake /\ Duties
  BY <1>1 DEF Handshake, Duties, NoUis
<1> QED
  BY <1>2, <1>3 DEF UisInv

LEMMA UisCorrect == Spec => []UisInv
<1>1. Init => UisInv
  BY UisInit
<1>2. ComboInv /\ UisInv /\ [Next]_vars => UisInv'
  BY UisNext DEF ComboInv, ComboTypes
<1> QED
  BY <1>1, <1>2, ComboCorrect, PTL DEF Spec

\* Answers are true, as AnswersAreTrue says: no call that the argument checks let through
\* follows a NULL pointer, a getter returns what the setter was told, a reset that is released
\* with success is over, and what the handshake of the older PHY reports is in its delay lines.
THEOREM AnswersHold == Spec => []AnswersAreTrue
<1>1. ComboInv => NoNullUse
  BY DEF ComboInv, ComboTypes, ThreadFine, NoNullUse, Active
<1>2. ComboInv => GetReturnsSet
  BY DEF ComboInv, BusInv, Collected, GetReturnsSet
<1>3. ASSUME ComboInv, UisInv PROVE OkIsDone
  <2>1. \A t \in Threads :
          (thr[t].at = "done" /\ thr[t].op = "DllReset" /\ thr[t].status = "ok" /\ Undisturbed /\ Released(t)) => ready
    BY <1>3 DEF ComboInv, BusInv, ResetOver
  <2>2. ASSUME uis.status = "ok", ~uis.late
        PROVE  CASE uis.call = "write" -> uis.line \notin env.narrow => delays[uis.line] = uis.want[uis.line]
                 [] uis.call = "read" -> uis.got = delays[uis.line]
                 [] OTHER -> \A l \in Lines \ env.narrow : delays[l] = uis.want[l]
    BY <1>3, <2>2 DEF UisInv, Duties, Held
  <2> QED
    BY <2>1, <2>2 DEF OkIsDone
<1>4. ComboInv /\ UisInv => AnswersAreTrue
  BY <1>1, <1>2, <1>3 DEF AnswersAreTrue
<1> QED
  BY <1>4, ComboCorrect, UisCorrect, PTL

==================================================================================
