---------------------------------- MODULE ModeProofs ----------------------------------
(***************************************************************************)
(* Proofs about Mode: its types; the search of a delay finds the middle of *)
(* a longest run whatever the length of the chain; the clock is as asked;  *)
(* card, host and the slot's record agree between calls.                   *)
(***************************************************************************)
EXTENDS Mode, SequenceTheorems, WellFoundedInduction, TLAPS

\* A non-empty set of natural numbers has a least element.
LEMMA LeastElement ==
    ASSUME NEW S \in SUBSET Nat, S # {}
    PROVE  \E u \in S : \A v \in S : u <= v
<1> DEFINE Less == {p \in Nat \X Nat : p[1] < p[2]}
<1>1. IsWellFoundedOn(Less, Nat)
  BY NatLessThanWellFounded DEF OpToRel
<1>2. \A u, v \in Nat : v < u => <<v, u>> \in Less
  OBVIOUS
<1> HIDE DEF Less
<1>3. PICK u \in S : \A v \in S : <<v, u>> \notin Less
  BY <1>1, WFMin
<1>4. ASSUME NEW v \in S PROVE u <= v
  <2>1. u \in Nat /\ v \in Nat /\ ~(v < u)
    BY <1>2, <1>3
  <2> QED
    BY <2>1
<1> QED
  BY <1>4

\* A set of natural numbers with zero and every successor is all of them.
LEMMA AllReached ==
    ASSUME NEW S, 0 \in S, \A n \in Nat : n \in S => n + 1 \in S
    PROVE  Nat \subseteq S
<1> DEFINE missing == Nat \ S
<1>1. CASE missing = {}
  BY <1>1
<1>2. CASE missing # {}
  <2>1. PICK u \in missing : \A v \in missing : u <= v
    BY <1>2, LeastElement
  <2>2. u \in Nat /\ u # 0
    BY <2>1
  <2>3. u - 1 \in Nat /\ (u - 1) + 1 = u
    BY <2>2
  <2>4. u - 1 \in S
    BY <2>1, <2>3
  <2> QED
    BY <2>1, <2>3, <2>4
<1> QED
  BY <1>1, <1>2

---------------------------------------------------------------------------------------
(***************************************************************************)
(* The search of a delay.                                                  *)
(***************************************************************************)

\* One step of the search, after delay i - 1 was looked at, and the search as a function.
Pass(ok, f, i) ==
    IF i = 0 THEN [pos |-> 0, len |-> 0, run |-> 0]
    ELSE LET p == f[i - 1]
         IN IF i - 1 \notin ok THEN [p EXCEPT !.run = 0]
            ELSE IF p.run + 1 > p.len THEN [pos |-> i - 1 - p.len, len |-> p.len + 1, run |-> p.run + 1]
            ELSE [p EXCEPT !.run = @ + 1]
Scan(ok) == CHOOSE f : f = [i \in 0 .. Delays |-> Pass(ok, f, i)]

LEMMA LongestIsScanned ==
    ASSUME NEW ok
    PROVE  LongestValid(ok) = Scan(ok)[Delays].pos + Scan(ok)[Delays].len \div 2
  BY DEF LongestValid, Scan, Pass

\* The recursion has a solution: one for n steps is continued by the next.
LEMMA ScanExists ==
    ASSUME NEW ok, Delays \in Nat
    PROVE  Scan(ok) = [i \in 0 .. Delays |-> Pass(ok, Scan(ok), i)]
<1> DEFINE solvable == {n \in Nat : \E f : f = [i \in 0 .. n |-> Pass(ok, f, i)]}
<1>1. 0 \in solvable
  <2> DEFINE f == [i \in 0 .. 0 |-> [pos |-> 0, len |-> 0, run |-> 0]]
  <2>1. \A i \in 0 .. 0 : i = 0
    OBVIOUS
  <2>2. f = [i \in 0 .. 0 |-> Pass(ok, f, i)]
    BY <2>1 DEF Pass
  <2> QED
    BY <2>2
<1>2. ASSUME NEW n \in Nat, n \in solvable PROVE n + 1 \in solvable
  <2>1. PICK g : g = [i \in 0 .. n |-> Pass(ok, g, i)]
    BY <1>2
  <2> DEFINE h == [i \in 0 .. n + 1 |-> IF i <= n THEN g[i] ELSE Pass(ok, g, i)]
  <2>2. ASSUME NEW i \in 0 .. n + 1 PROVE h[i] = Pass(ok, h, i)
    <3>1. h[i] = Pass(ok, g, i)
      BY <2>1
    <3>2. i # 0 => i - 1 \in 0 .. n + 1 /\ i - 1 <= n
      OBVIOUS
    <3>3. i # 0 => h[i - 1] = g[i - 1]
      BY <3>2
    <3> HIDE DEF h
    <3>4. Pass(ok, h, i) = Pass(ok, g, i)
      BY <3>3 DEF Pass
    <3> QED
      BY <3>1, <3>4
  <2>3. h = [i \in 0 .. n + 1 |-> h[i]]
    OBVIOUS
  <2> HIDE DEF h
  <2>4. h = [i \in 0 .. n + 1 |-> Pass(ok, h, i)]
    BY <2>2, <2>3
  <2>5. n + 1 \in Nat
    OBVIOUS
  <2> QED
    BY <2>4, <2>5
<1>3. Delays \in solvable
  <2> HIDE DEF solvable
  <2> QED
    BY <1>1, <1>2, AllReached
<1>4. \E f : f = [i \in 0 .. Delays |-> Pass(ok, f, i)]
  BY <1>3
<1> QED
  BY <1>4 DEF Scan

\* What the search knows once it has looked at the delays below i: the run that ends there
\* cannot be continued to the left; the longest run so far, of which no other is longer.
Known(ok, p, i) ==
    /\ p \in [pos : Nat, len : Nat, run : Nat]
    /\ p.run <= p.len /\ p.run <= i /\ p.pos + p.len <= i
    /\ \A j \in Nat : i - p.run <= j /\ j < i => j \in ok
    /\ i - p.run - 1 \notin ok
    /\ \A j \in Nat : p.pos <= j /\ j < p.pos + p.len => j \in ok
    /\ \A a, b \in Nat : a <= b /\ b < i /\ (\A j \in Nat : a <= j /\ j <= b => j \in ok) => b - a < p.len

LEMMA PassKnows ==
    ASSUME NEW ok, NEW p, NEW i \in Nat, NEW f, ok \subseteq Nat, f[i] = p, Known(ok, p, i)
    PROVE  Known(ok, Pass(ok, f, i + 1), i + 1)
<1> DEFINE q == Pass(ok, f, i + 1)
<1>1. i + 1 # 0 /\ (i + 1) - 1 = i
  OBVIOUS
<1>2. q = IF i \notin ok THEN [p EXCEPT !.run = 0]
          ELSE IF p.run + 1 > p.len THEN [pos |-> i - p.len, len |-> p.len + 1, run |-> p.run + 1]
          ELSE [p EXCEPT !.run = @ + 1]
  BY <1>1 DEF Pass
<1> HIDE DEF q
<1>3. /\ p \in [pos : Nat, len : Nat, run : Nat] /\ p.pos \in Nat /\ p.len \in Nat /\ p.run \in Nat
      /\ p.run <= p.len /\ p.run <= i /\ p.pos + p.len <= i
  BY DEF Known
<1>4. CASE i \notin ok
  <2>1. q = [p EXCEPT !.run = 0] /\ q \in [pos : Nat, len : Nat, run : Nat]
        /\ q.run = 0 /\ q.len = p.len /\ q.pos = p.pos
    BY <1>2, <1>3, <1>4
  <2>2. ASSUME NEW a \in Nat, NEW b \in Nat, a <= b, b < i + 1, \A j \in Nat : a <= j /\ j <= b => j \in ok
        PROVE  b - a < p.len
    <3>1. b # i
      BY <1>4, <2>2
    <3> QED
      BY <2>2, <3>1 DEF Known
  <2>3. /\ \A j \in Nat : (i + 1) - q.run <= j /\ j < i + 1 => j \in ok
        /\ (i + 1) - q.run - 1 \notin ok
    BY <1>4, <2>1
  <2>4. \A j \in Nat : q.pos <= j /\ j < q.pos + q.len => j \in ok
    BY <2>1 DEF Known
  <2> QED
    BY <1>3, <2>1, <2>2, <2>3, <2>4 DEF Known, q
<1>5. CASE i \in ok
  <2>1. ASSUME NEW a \in Nat, NEW b \in Nat, a <= b, b < i + 1, \A j \in Nat : a <= j /\ j <= b => j \in ok
        PROVE  b - a < p.len \/ b - a < p.run + 1
    <3>1. CASE b < i
      BY <2>1, <3>1 DEF Known
    <3>2. CASE b = i
      <4>1. CASE a < i - p.run
        <5>1. i - p.run - 1 \in Nat /\ a <= i - p.run - 1 /\ i - p.run - 1 <= b
          BY <1>3, <2>1, <3>2, <4>1
        <5> QED
          BY <2>1, <5>1 DEF Known
      <4>2. CASE a >= i - p.run
        BY <1>3, <3>2, <4>2
      <4> QED
        BY <1>3, <4>1, <4>2
    <3> QED
      BY <2>1, <3>1, <3>2
  <2>2. \A j \in Nat : (i + 1) - (p.run + 1) <= j /\ j < i + 1 => j \in ok
    <3> SUFFICES ASSUME NEW j \in Nat, (i + 1) - (p.run + 1) <= j, j < i + 1 PROVE j \in ok
      OBVIOUS
    <3>1. i - p.run <= j /\ (j = i \/ j < i)
      BY <1>3
    <3> QED
      BY <1>5, <3>1 DEF Known
  <2>3. (i + 1) - (p.run + 1) - 1 \notin ok
    <3>1. (i + 1) - (p.run + 1) - 1 = i - p.run - 1
      BY <1>3
    <3> QED
      BY <3>1 DEF Known
  <2>4. CASE p.run + 1 > p.len
    <3>1. p.run = p.len
      BY <1>3, <2>4
    <3>2. q = [pos |-> i - p.len, len |-> p.len + 1, run |-> p.run + 1]
      BY <1>2, <1>5, <2>4
    <3>3. i - p.len \in Nat /\ p.len + 1 \in Nat /\ p.run + 1 \in Nat
      BY <1>3, <3>1
    <3>4. q \in [pos : Nat, len : Nat, run : Nat] /\ q.pos = i - p.len /\ q.len = p.len + 1 /\ q.run = p.run + 1
      BY <3>2, <3>3
    <3>5. \A j \in Nat : q.pos <= j /\ j < q.pos + q.len => j \in ok
      BY <1>3, <2>2, <3>1, <3>4
    <3>6. q.run <= q.len /\ q.run <= i + 1 /\ q.pos + q.len <= i + 1
      BY <1>3, <3>1, <3>4
    <3>7. \A a, b \in Nat : a <= b /\ b < i + 1 /\ (\A j \in Nat : a <= j /\ j <= b => j \in ok) => b - a < q.len
      BY <1>3, <2>1, <3>1, <3>4
    <3> QED
      BY <2>2, <2>3, <3>4, <3>5, <3>6, <3>7 DEF Known, q
  <2>5. CASE p.run + 1 <= p.len
    <3>1. q = [p EXCEPT !.run = p.run + 1]
      BY <1>2, <1>3, <1>5, <2>5
    <3>2. q \in [pos : Nat, len : Nat, run : Nat] /\ q.pos = p.pos /\ q.len = p.len /\ q.run = p.run + 1
      BY <1>3, <3>1
    <3>3. \A j \in Nat : q.pos <= j /\ j < q.pos + q.len => j \in ok
      BY <3>2 DEF Known
    <3>4. q.run <= q.len /\ q.run <= i + 1 /\ q.pos + q.len <= i + 1
      BY <1>3, <2>5, <3>2
    <3>5. \A a, b \in Nat : a <= b /\ b < i + 1 /\ (\A j \in Nat : a <= j /\ j <= b => j \in ok) => b - a < q.len
      BY <1>3, <2>1, <2>5, <3>2
    <3> QED
      BY <2>2, <2>3, <3>2, <3>3, <3>4, <3>5 DEF Known, q
  <2> QED
    BY <1>3, <2>4, <2>5
<1> QED
  BY <1>4, <1>5 DEF q

\* At the end of the search it knows all of the chain.
LEMMA ScanKnows ==
    ASSUME NEW ok, ok \subseteq Nat, Delays \in Nat
    PROVE  Known(ok, Scan(ok)[Delays], Delays)
<1> DEFINE f == Scan(ok)
           reached == {n \in Nat : n <= Delays => Known(ok, f[n], n)}
<1>1. \A n \in 0 .. Delays : f[n] = Pass(ok, f, n)
  BY ScanExists
<1> HIDE DEF f
<1>2. 0 \in reached
  <2>1. f[0] = [pos |-> 0, len |-> 0, run |-> 0]
    <3>1. 0 \in 0 .. Delays
      OBVIOUS
    <3> QED
      BY <1>1, <3>1 DEF Pass
  <2>2. -1 \notin ok
    OBVIOUS
  <2>3. Known(ok, [pos |-> 0, len |-> 0, run |-> 0], 0)
    BY <2>2 DEF Known
  <2> QED
    BY <2>1, <2>3
<1>3. ASSUME NEW n \in Nat, n \in reached PROVE n + 1 \in reached
  <2>1. CASE n + 1 <= Delays
    <3>1. n <= Delays /\ n + 1 \in 0 .. Delays
      BY <2>1
    <3>2. f[n + 1] = Pass(ok, f, n + 1) /\ Known(ok, f[n], n)
      BY <1>1, <1>3, <3>1
    <3>3. Known(ok, Pass(ok, f, n + 1), n + 1)
      BY <3>2, PassKnows, Zenon
    <3> QED
      BY <3>2, <3>3
  <2>2. CASE ~(n + 1 <= Delays)
    BY <2>2
  <2> QED
    BY <2>1, <2>2
<1>4. Delays \in reached
  <2> HIDE DEF reached
  <2> QED
    BY <1>2, <1>3, AllReached
<1> QED
  BY <1>4 DEF f

\* The delay that LongestValid chooses lies in the middle of a longest run.
LEMMA LongestIsMiddle ==
    ASSUME NEW ok, ok \subseteq Chain, ok # {}
    PROVE  \E r \in Longest(ok) : LongestValid(ok) - r[1] \in {r[2] - LongestValid(ok), r[2] - LongestValid(ok) + 1}
<1>1. Delays \in Nat /\ ok \subseteq Nat
  BY ModeAssumption DEF Chain
<1> DEFINE p == Scan(ok)[Delays]
<1>2. Known(ok, p, Delays) /\ LongestValid(ok) = p.pos + p.len \div 2
  BY <1>1, ScanKnows, LongestIsScanned
<1> HIDE DEF p
<1>3. p.pos \in Nat /\ p.len \in Nat /\ p.pos + p.len <= Delays
  BY <1>2 DEF Known
<1>4. p.len > 0
  <2>1. PICK x \in ok : TRUE
    OBVIOUS
  <2>2. x \in Nat /\ x < Delays
    BY <1>1 DEF Chain
  <2>3. \A j \in Nat : x <= j /\ j <= x => j \in ok
    BY <2>1, <2>2
  <2>4. x - x < p.len
    BY <1>2, <2>2, <2>3 DEF Known
  <2> QED
    BY <1>3, <2>2, <2>4
<1> DEFINE r == <<p.pos, p.pos + p.len - 1>>
<1>5. r[1] = p.pos /\ r[2] = p.pos + p.len - 1
  OBVIOUS
<1>6. r \in Runs(ok)
  <2>1. r \in Chain \X Chain /\ r[1] <= r[2]
    BY <1>1, <1>3, <1>4 DEF Chain
  <2>2. \A j \in r[1] .. r[2] : j \in ok
    BY <1>2, <1>3, <1>5 DEF Known
  <2> QED
    BY <2>1, <2>2 DEF Runs
<1>7. ASSUME NEW q \in Runs(ok) PROVE q[2] - q[1] <= r[2] - r[1]
  <2>1. q[1] \in Nat /\ q[2] \in Nat /\ q[1] <= q[2] /\ q[2] < Delays
    BY <1>1 DEF Runs, Chain
  <2>2. \A j \in Nat : q[1] <= j /\ j <= q[2] => j \in ok
    BY <2>1 DEF Runs
  <2>3. q[2] - q[1] < p.len
    BY <1>2, <2>1, <2>2 DEF Known
  <2> QED
    BY <1>3, <1>5, <2>1, <2>3
<1>8. r \in Longest(ok)
  BY <1>6, <1>7 DEF Longest
<1>9. LET d == LongestValid(ok) IN d - r[1] \in {r[2] - d, r[2] - d + 1}
  BY <1>2, <1>3, <1>4, <1>5
<1> QED
  BY <1>8, <1>9

\* The delay chosen is a number, whatever passed.
LEMMA DelayTyped ==
    ASSUME NEW ok \in SUBSET Chain
    PROVE  LongestValid(ok) \in Nat
<1>1. Delays \in Nat /\ ok \subseteq Nat
  BY ModeAssumption DEF Chain
<1> DEFINE p == Scan(ok)[Delays]
<1>2. Known(ok, p, Delays) /\ LongestValid(ok) = p.pos + p.len \div 2
  BY <1>1, ScanKnows, LongestIsScanned
<1> HIDE DEF p
<1>3. p.pos \in Nat /\ p.len \in Nat
  BY <1>2 DEF Known
<1> QED
  BY <1>2, <1>3

---------------------------------------------------------------------------------------
(***************************************************************************)
(* Types.                                                                  *)
(***************************************************************************)

FourKinds == {"high", "mode", "width", "strength"}
Kinds == FourKinds \cup {"attach", "tune", "generator", "clock"}
Timings == {"legacy", "high", "200", "400"}
CardType == [timing : SdModes \cup Timings, ddr : BOOLEAN, strobe : BOOLEAN, width : Widths, v18 : BOOLEAN,
             strength : Strengths]
HostType == [emmc : {"SD"} \cup MmcModes, hs : BOOLEAN, uhs : SdModes, v18 : BOOLEAN, width : Widths,
             strength : Strengths, power : BOOLEAN, delay : Nat, sampling : BOOLEAN]
ClkType == [field : Nat, prog : BOOLEAN, on : BOOLEAN, asked : Nat, told : Nat]
SlotType == [mode : SdModes \cup MmcModes, width : Widths, uhsi : BOOLEAN, prog : BOOLEAN, retuning : BOOLEAN,
             attached : BOOLEAN]

\* The steps that the list of a function may hold.
Some(kinds, args) == [does : kinds, arg : args]
Refusal == Step("refuse", 0)
BusArgs == {b \in [width : Widths, ddr : BOOLEAN, strobe : BOOLEAN] : b.strobe => b.ddr}
ModeSteps ==
    IF env.type = "sd"
      THEN Some({"check", "switch", "record", "hostUhs"}, SdModes) \cup Some({"hostHs"}, BOOLEAN)
      ELSE Some({"readExtCsd", "tuneMmc"}, {0}) \cup Some({"supports", "record", "hostEmmc"}, MmcModes)
           \cup Some({"timing"}, Timings) \cup Some({"busWidth"}, {b \in BusArgs : b.width = slot.width})
           \cup Some({"clock"}, {Fast})
HighSteps ==
    IF env.type = "sd" THEN ModeSteps ELSE Some({"timing"}, Timings) \cup Some({"hostEmmc", "record"}, {"HS_SDR"})
WidthSteps(width) ==
    (IF env.type = "sd" THEN Some({"acmd6"}, {width}) ELSE Some({"busWidth"}, {BusWidthIn(slot.mode, width)}))
    \cup Some({"hostWidth", "recordWidth"}, {width})
StrengthSteps == IF env.type = "sd" THEN Some({"check", "switch", "hostStrength"}, Strengths) ELSE {}
AttachSteps ==
    Some({"hostWidth"}, {1, 4}) \cup Some({"power"}, {TRUE}) \cup Some({"clock"}, {Slow})
    \cup Some({"identify", "cmd11", "v18", "attached"}, {0}) \cup Some({"acmd6", "recordWidth"}, {4})
OtherSteps == Some({"clock"}, env.asked) \cup Some({"recordProg"}, BOOLEAN) \cup Some({"tuneSd"}, {0})
Alphabet(o) ==
    {Refusal} \cup CASE o.name = "mode" -> ModeSteps
                     [] o.name = "high" -> HighSteps
                     [] o.name = "width" -> WidthSteps(o.arg)
                     [] o.name = "strength" -> StrengthSteps
                     [] o.name = "attach" -> AttachSteps
                     [] OTHER -> OtherSteps

TypeInv ==
    /\ env \in Envs /\ card \in CardType /\ host \in HostType /\ clk \in ClkType /\ slot \in SlotType
    /\ status \in {"idle", "run", "ok", "error"} /\ touched \in {"no", "sent", "forgot"} /\ doubt \subseteq Kinds
    /\ windows \subseteq Chain
    /\ status = "run" => op \in Ops /\ op.name \in env.ops /\ op.name # "detach" /\ todo \in Seq(Alphabet(op))
    /\ status # "run" => todo = <<>>

LEMMA InitTypes ==
  ASSUME Init
  PROVE /\ card \in CardType /\ host \in HostType /\ clk \in ClkType /\ slot \in SlotType
<1> DEFINE
      Card(f, a) == [timing |-> a, ddr |-> f, strobe |-> f, width |-> 1, v18 |-> f, strength |-> "B"]
      Host(f) == [emmc |-> "SD", hs |-> f, uhs |-> "SDR12", v18 |-> f, width |-> 1, strength |-> "B",
                           power |-> f, delay |-> 0, sampling |-> f]
      Clk(f) == [field |-> 0, prog |-> f, on |-> f, asked |-> 0, told |-> 0]
      Slot(f) == [mode |-> "SDR12", width |-> 1, uhsi |-> f, prog |-> f, retuning |-> f, attached |-> f]
<1>1. ASSUME NEW f \in BOOLEAN, NEW a \in SdModes \cup Timings
      PROVE  Card(f, a) \in CardType /\ Host(f) \in HostType /\ Clk(f) \in ClkType /\ Slot(f) \in SlotType
  BY DEF CardType, HostType, ClkType, SlotType, Widths, Strengths, MmcModes, SdModes, Timings
<1>2. FALSE \in BOOLEAN /\ "SDR12" \in SdModes \cup Timings /\ "legacy" \in SdModes \cup Timings
  BY DEF SdModes, Timings
<1>3. /\ card = Card(FALSE, "SDR12") \/ card = Card(FALSE, "legacy")
      /\ host = Host(FALSE) /\ clk = Clk(FALSE) /\ slot = Slot(FALSE)
  BY Zenon DEF Init, Fresh
<1> HIDE DEF Card, Host, Clk, Slot
<1> QED
  BY <1>1, <1>2, <1>3, Zenon

\* The step at the head of the list, and what is left behind it.
LEMMA HeadAndTail ==
    ASSUME NEW S, NEW t \in Seq(S), t # <<>>
    PROVE  /\ Head(t) = t[1] /\ Head(t) \in S /\ Tail(t) \in Seq(S) /\ Len(t) \in Nat \ {0}
           /\ Len(Tail(t)) = Len(t) - 1 /\ \A i \in 1 .. Len(Tail(t)) : Tail(t)[i] = t[i + 1]
  OBVIOUS

\* Which function takes which step, with which argument.
Expects(s) ==
    /\ s.does \in {"check", "switch", "hostUhs"} => op.name \in {"high", "mode", "strength"} /\ env.type = "sd"
    /\ s.does \in {"check", "switch"} => s.arg \in IF op.name = "strength" THEN Strengths ELSE SdModes
    /\ s.does = "hostUhs" => op.name \in {"high", "mode"} /\ s.arg \in SdModes
    /\ s.does = "hostHs" => op.name \in {"high", "mode"} /\ env.type = "sd" /\ s.arg \in BOOLEAN
    /\ s.does = "record" => op.name \in {"high", "mode"} /\ s.arg \in IF env.type = "sd" THEN SdModes ELSE MmcModes
    /\ s.does \in {"readExtCsd", "tuneMmc", "supports", "hostEmmc", "timing"} =>
          op.name \in {"high", "mode"} /\ env.type = "mmc"
    /\ s.does = "hostEmmc" => s.arg \in MmcModes
    /\ s.does = "timing" => s.arg \in Timings
    /\ s.does = "busWidth" => /\ op.name \in {"mode", "width"} /\ env.type = "mmc" /\ s.arg \in BusArgs
                              /\ op.name = "width" => s.arg = BusWidthIn(slot.mode, op.arg)
                              /\ op.name # "width" => s.arg.width = slot.width
    /\ s.does = "acmd6" => /\ (op.name = "width" /\ env.type = "sd" /\ s.arg = op.arg) \/ (op.name = "attach" /\ s.arg = 4)
                           /\ s.arg \in Widths
    /\ s.does \in {"hostWidth", "recordWidth"} => /\ op.name \in {"width", "attach"} /\ s.arg \in Widths
                                                  /\ op.name = "width" => s.arg = op.arg
    /\ s.does = "hostStrength" => op.name = "strength" /\ env.type = "sd" /\ s.arg \in Strengths
    /\ s.does = "clock" => op.name \notin {"width", "strength"} /\ s.arg \in env.asked \cup {Slow, Fast}
    /\ s.does \in {"power", "identify", "cmd11", "v18", "attached"} => op.name = "attach" /\ s.arg \in {0, TRUE}
    /\ s.does = "power" => s.arg = TRUE
    /\ s.does = "recordProg" => op.name \notin FourKinds \cup {"attach"} /\ s.arg \in BOOLEAN
    /\ s.does = "tuneSd" => op.name \notin FourKinds \cup {"attach"}
    /\ s.does = "refuse" => s = Refusal

LEMMA BusWidthTyped ==
    ASSUME NEW mode, NEW width \in Widths
    PROVE  BusWidthFor(mode, width) \in BusArgs /\ BusWidthIn(mode, width) \in BusArgs
<1>1. ASSUME NEW w \in Widths PROVE BusWidthFor(mode, w) \in BusArgs
  <2>1. BusWidthFor(mode, w) \in [width : Widths, ddr : BOOLEAN, strobe : BOOLEAN]
    BY DEF BusWidthFor
  <2>2. BusWidthFor(mode, w).strobe => BusWidthFor(mode, w).ddr
    BY DEF BusWidthFor
  <2> QED
    BY <2>1, <2>2 DEF BusArgs
<1>2. 8 \in Widths
  BY DEF Widths
<1> QED
  BY <1>1, <1>2 DEF BusWidthIn

LEMMA HeadExpected ==
    ASSUME TypeInv, status = "run", NEW s \in Alphabet(op)
    PROVE  Expects(s)
<1>1. op \in Ops /\ (op.name = "width" => op.arg \in Widths)
      /\ op.name \in Kinds
  BY DEF TypeInv, Ops, Kinds, FourKinds
<1>2. CASE s = Refusal
  BY <1>2 DEF Expects, Refusal, Step
<1>3. CASE (op.name = "mode" \/ (op.name = "high" /\ env.type = "sd")) /\ s # Refusal
  <2>1. s \in ModeSteps
    BY <1>3 DEF Alphabet, HighSteps
  <2>2. CASE env.type = "sd"
    BY <1>3, <2>1, <2>2 DEF Expects, ModeSteps, Some
  <2>3. CASE env.type = "mmc"
    BY <1>3, <2>1, <2>3 DEF Expects, ModeSteps, Some
  <2> QED
    BY <2>2, <2>3, ModeAssumption DEF TypeInv
<1>3a. CASE op.name = "high" /\ env.type # "sd" /\ s # Refusal
  <2>1. s \in HighSteps /\ env.type = "mmc"
    BY <1>3a, ModeAssumption DEF Alphabet, TypeInv
  <2> QED
    BY <1>3a, <2>1 DEF Expects, HighSteps, Some, MmcModes
<1>4. CASE op.name = "width" /\ s # Refusal
  <2>1. s \in WidthSteps(op.arg) /\ BusWidthIn(slot.mode, op.arg) \in BusArgs
    BY <1>1, <1>4, BusWidthTyped DEF Alphabet
  <2>2. env.type = "sd" \/ env.type = "mmc"
    BY ModeAssumption DEF TypeInv
  <2> QED
    BY <1>1, <1>4, <2>1, <2>2 DEF Expects, WidthSteps, Some, FourKinds
<1>5. CASE op.name = "strength" /\ s # Refusal
  BY <1>5 DEF Alphabet, Expects, StrengthSteps, Some, FourKinds
<1>6. CASE op.name = "attach" /\ s # Refusal
  BY <1>6 DEF Alphabet, Expects, AttachSteps, Some, Widths, FourKinds
<1>7. CASE op.name \notin {"high", "mode", "width", "strength", "attach"} /\ s # Refusal
  BY <1>1, <1>7 DEF Alphabet, Expects, OtherSteps, Some, Kinds, FourKinds
<1> QED
  BY <1>2, <1>3, <1>3a, <1>4, <1>5, <1>6, <1>7

---------------------------------------------------------------------------------------
(***************************************************************************)
(* A function's list is over its alphabet.                                 *)
(***************************************************************************)

LEMMA Joined ==
    ASSUME NEW S, NEW s \in Seq(S), NEW t \in Seq(S)
    PROVE  s \o t \in Seq(S)
  OBVIOUS

LEMMA Parts ==
    ASSUME NEW S, NEW a \in Seq(S), NEW b \in Seq(S)
    PROVE  /\ a \o b \in Seq(S) /\ Len(a \o b) = Len(a) + Len(b) /\ Len(a) \in Nat /\ Len(b) \in Nat
           /\ \A i \in 1 .. Len(a) : (a \o b)[i] = a[i]
           /\ \A i \in 1 .. Len(b) : (a \o b)[Len(a) + i] = b[i]
  BY ConcatProperties

LEMMA One ==
    ASSUME NEW S, NEW a \in S
    PROVE  <<a>> \in Seq(S)
  OBVIOUS

\* Members of the alphabets, by what they do.
LEMMA MmcModeSteps ==
    ASSUME TypeInv, env.type # "sd", NEW mode \in MmcModes
    PROVE  /\ Step("readExtCsd", 0) \in ModeSteps /\ Step("tuneMmc", 0) \in ModeSteps
           /\ Step("supports", mode) \in ModeSteps /\ Step("record", mode) \in ModeSteps
           /\ Step("hostEmmc", mode) \in ModeSteps /\ Step("clock", Fast) \in ModeSteps
           /\ Step("timing", TimingFor(mode)) \in ModeSteps
           /\ Step("busWidth", BusWidthFor(mode, slot.width)) \in ModeSteps
<1>1. TimingFor(mode) \in Timings
  BY DEF TimingFor, Timings, MmcModes
<1>2. slot.width \in Widths
  BY DEF TypeInv, SlotType
<1>3. BusWidthFor(mode, slot.width) \in BusArgs /\ BusWidthFor(mode, slot.width).width = slot.width
  BY <1>2, BusWidthTyped DEF BusWidthFor
<1> QED
  BY <1>1, <1>3 DEF ModeSteps, Some, Step

LEMMA SdModeSteps ==
    ASSUME env.type = "sd", NEW mode \in SdModes
    PROVE  /\ Step("check", mode) \in ModeSteps /\ Step("switch", mode) \in ModeSteps
           /\ Step("record", mode) \in ModeSteps /\ Step("hostUhs", mode) \in ModeSteps
  BY DEF ModeSteps, Some, Step

LEMMA SdChangeTyped ==
    ASSUME env.type = "sd", NEW mode \in SdModes
    PROVE  ChangeDeviceSd(mode) \in Seq({Refusal} \cup ModeSteps)
<1>1. Refusal \in {Refusal} \cup ModeSteps
  OBVIOUS
<1>2. SwitchFunction(mode) \in Seq({Refusal} \cup ModeSteps)
  BY SdModeSteps DEF SwitchFunction
<1>3. <<Refusal>> \in Seq({Refusal} \cup ModeSteps)
  BY <1>1, One
<1> QED
  BY <1>2, <1>3 DEF ChangeDeviceSd, Refusal

LEMMA MmcChangeTyped ==
    ASSUME TypeInv, env.type # "sd", NEW mode \in MmcModes
    PROVE  ChangeDeviceMmc(mode) \in Seq({Refusal} \cup ModeSteps)
<1> DEFINE S == {Refusal} \cup ModeSteps
<1>1. MmcSwitches(mode) \in Seq(S)
  <2> DEFINE width == Step("busWidth", BusWidthFor(mode, slot.width))
             timing == Step("timing", TimingFor(mode))
  <2>1. width \in S /\ timing \in S
    BY MmcModeSteps
  <2>2. CASE ~BusWidthFor(mode, slot.width).ddr \/ mode = "HS_400_ES"
    <3>1. MmcSwitches(mode) = <<width, timing>>
      BY <2>2, Zenon DEF MmcSwitches
    <3> HIDE DEF width, timing, S
    <3> QED
      BY <2>1, <3>1
  <2>3. CASE ~(~BusWidthFor(mode, slot.width).ddr \/ mode = "HS_400_ES")
    <3>1. MmcSwitches(mode) = <<timing, width>>
      BY <2>3, Zenon DEF MmcSwitches
    <3> HIDE DEF width, timing, S
    <3> QED
      BY <2>1, <3>1
  <2> QED
    BY <2>2, <2>3
<1>2. Step("readExtCsd", 0) \in S /\ Step("supports", mode) \in S
  BY MmcModeSteps
<1> HIDE DEF S
<1>3. /\ (IF WidthAllows(slot.width, mode) THEN <<Step("readExtCsd", 0)>> ELSE <<>>) \in Seq(S)
      /\ <<Step("supports", mode)>> \in Seq(S)
  <2>1. <<Step("readExtCsd", 0)>> \in Seq(S) /\ <<Step("supports", mode)>> \in Seq(S)
    BY <1>2, One
  <2>2. <<>> \in Seq(S)
    OBVIOUS
  <2> QED
    BY <2>1, <2>2
<1>4. ChangeDeviceMmc(mode) \in Seq(S)
  BY <1>1, <1>3 DEF ChangeDeviceMmc
<1> QED
  BY <1>4 DEF S

LEMMA HighTyped ==
    ASSUME TypeInv, NEW on \in BOOLEAN
    PROVE  HighSpeed(on) \in Seq({Refusal} \cup HighSteps)
<1> DEFINE S == {Refusal} \cup HighSteps
           mode == IF on THEN "SDR25" ELSE "SDR12"
<1>1. CASE env.type = "sd"
  <2>1. mode \in SdModes
    BY DEF SdModes
  <2> HIDE DEF mode
  <2>2. Step("hostHs", on) \in S /\ Step("record", mode) \in S
    BY <1>1, <2>1, SdModeSteps DEF HighSteps, ModeSteps, Some, Step
  <2>3. <<Step("hostHs", on), Step("record", mode)>> \in Seq(S)
    BY <2>2
  <2>4. ChangeDeviceSd(mode) \in Seq(S)
    BY <1>1, <2>1, SdChangeTyped DEF HighSteps
  <2> HIDE DEF S
  <2>5. ChangeDeviceSd(mode) \o <<Step("hostHs", on), Step("record", mode)>> \in Seq(S)
    BY <2>3, <2>4, Joined
  <2>6. HighSpeed(on) = ChangeDeviceSd(mode) \o <<Step("hostHs", on), Step("record", mode)>>
    BY <1>1 DEF HighSpeed, mode
  <2> QED
    BY <2>5, <2>6 DEF S
<1>2. CASE env.type # "sd"
  <2>2. Step("hostEmmc", "HS_SDR") \in S /\ Step("record", "HS_SDR") \in S
    BY <1>2 DEF HighSteps, Some, Step
  <2>3. \A x \in Timings : Step("timing", x) \in S
    BY <1>2 DEF HighSteps, Some, Step
  <2>4. (IF on THEN "high" ELSE "legacy") \in Timings
    BY DEF Timings
  <2> HIDE DEF S
  <2>5. <<Step("timing", IF on THEN "high" ELSE "legacy"), Step("hostEmmc", "HS_SDR"), Step("record", "HS_SDR")>> \in Seq(S)
    BY <2>2, <2>3, <2>4
  <2> QED
    BY <1>2, <2>5 DEF HighSpeed, S
<1> QED
  BY <1>1, <1>2

LEMMA SdModeTyped ==
    ASSUME TypeInv, env.type = "sd", NEW mode \in SdModes \cup MmcModes
    PROVE  AccessModeSd(mode) \in Seq({Refusal} \cup ModeSteps)
<1> DEFINE S == {Refusal} \cup ModeSteps
<1>1. <<Step("refuse", 0)>> \in Seq(S)
  BY DEF Refusal
<1>2. CASE host.v18 /\ HostSupports(mode)
  <2>1. mode \in SdModes
    BY <1>2 DEF HostSupports, SdModes
  <2>2. <<Step("hostUhs", mode), Step("record", mode)>> \in Seq(S)
    BY <2>1, SdModeSteps
  <2>3. ChangeDeviceSd(mode) \in Seq(S)
    BY <2>1, SdChangeTyped
  <2> HIDE DEF S
  <2>4. ChangeDeviceSd(mode) \o <<Step("hostUhs", mode), Step("record", mode)>> \in Seq(S)
    BY <2>2, <2>3, Joined
  <2> QED
    BY <1>2, <2>4 DEF AccessModeSd, S
<1>3. CASE ~(host.v18 /\ HostSupports(mode))
  BY <1>1, <1>3, HighTyped DEF AccessModeSd, HighSteps
<1> QED
  BY <1>2, <1>3

LEMMA MmcModeTyped ==
    ASSUME TypeInv, env.type # "sd", NEW mode
    PROVE  AccessModeMmc(mode) \in Seq({Refusal} \cup ModeSteps)
<1> DEFINE S == {Refusal} \cup ModeSteps
<1>1. <<Step("refuse", 0)>> \in Seq(S)
  BY DEF Refusal
<1>2. ASSUME mode \in MmcModes PROVE AccessModeMmc(mode) \in Seq(S)
  <2>1. "HS_200" \in MmcModes /\ "HS_400" \in MmcModes
    BY DEF MmcModes
  <2>2. Tune \in Seq(S)
    BY <2>1, MmcModeSteps DEF Tune
  <2>3. /\ <<Step("hostEmmc", "HS_200"), Step("record", "HS_400")>> \in Seq(S)
        /\ <<Step("hostEmmc", mode)>> \in Seq(S) /\ <<Step("record", mode)>> \in Seq(S)
    BY <1>2, <2>1, MmcModeSteps
  <2>4. ChangeDeviceMmc("HS_200") \in Seq(S) /\ ChangeDeviceMmc(mode) \in Seq(S)
    BY <1>2, <2>1, MmcChangeTyped
  <2>5. <<>> \in Seq(S)
    OBVIOUS
  <2> HIDE DEF S
  <2>6. ByHs200 \in Seq(S)
    BY <2>2, <2>3, <2>4 DEF ByHs200
  <2>7. (IF mode = "HS_400" THEN ByHs200 ELSE <<>>) \in Seq(S) /\ (IF mode = "HS_200" THEN Tune ELSE <<>>) \in Seq(S)
    BY <2>2, <2>5, <2>6
  <2>8. (IF mode = "HS_400" THEN ByHs200 ELSE <<>>) \o ChangeDeviceMmc(mode) \o <<Step("hostEmmc", mode)>>
         \o (IF mode = "HS_200" THEN Tune ELSE <<>>) \o <<Step("record", mode)>> \in Seq(S)
    BY <2>3, <2>4, <2>7
  <2> QED
    BY <1>2, <2>8 DEF AccessModeMmc
<1> QED
  BY <1>1, <1>2 DEF AccessModeMmc

LEMMA WidthTyped ==
    ASSUME NEW width \in Widths
    PROVE  SetBusWidth(width) \in Seq({Refusal} \cup WidthSteps(width))
<1> DEFINE S == {Refusal} \cup WidthSteps(width)
<1>1. <<Step("refuse", 0)>> \in Seq(S)
  BY DEF Refusal
<1>2. DeviceWidth(width) \in S /\ Step("hostWidth", width) \in S /\ Step("recordWidth", width) \in S
  BY DEF DeviceWidth, WidthSteps, Some, Step
<1>3. <<DeviceWidth(width), Step("hostWidth", width), Step("recordWidth", width)>> \in Seq(S)
  BY <1>2
<1>4. <<>> \in Seq(S)
  OBVIOUS
<1> HIDE DEF S
<1>5. SetBusWidth(width) \in Seq(S)
  BY <1>1, <1>3, <1>4 DEF SetBusWidth
<1> QED
  BY <1>5 DEF S

LEMMA StrengthTyped ==
    ASSUME NEW s \in Strengths
    PROVE  Strength(s) \in Seq({Refusal} \cup StrengthSteps)
<1> DEFINE S == {Refusal} \cup StrengthSteps
<1>1. <<Step("refuse", 0)>> \in Seq(S)
  BY DEF Refusal
<1>2. env.type = "sd" => Step("check", s) \in S /\ Step("switch", s) \in S /\ Step("hostStrength", s) \in S
  BY DEF StrengthSteps, Some, Step
<1> HIDE DEF S
<1>3. env.type = "sd" => SwitchFunction(s) \in Seq(S) /\ <<Step("hostStrength", s)>> \in Seq(S)
  BY <1>2 DEF SwitchFunction
<1>4. Strength(s) \in Seq(S)
  BY <1>1, <1>3 DEF Strength
<1> QED
  BY <1>4 DEF S

LEMMA AttachTyped == Attach \in Seq({Refusal} \cup AttachSteps)
<1> DEFINE S == {Refusal} \cup AttachSteps
<1>1. /\ Step("hostWidth", 1) \in S /\ Step("power", TRUE) \in S /\ Step("clock", Slow) \in S
      /\ Step("identify", 0) \in S /\ Step("cmd11", 0) \in S /\ Step("v18", 0) \in S
      /\ Step("acmd6", 4) \in S /\ Step("hostWidth", 4) \in S /\ Step("recordWidth", 4) \in S /\ Step("attached", 0) \in S
  BY DEF AttachSteps, Some, Step
<1> HIDE DEF S
<1>2. /\ \A a \in S : <<a>> \in Seq(S)
      /\ \A a, b \in S : <<a, b>> \in Seq(S)
      /\ \A a, b, c \in S : <<a, b, c>> \in Seq(S)
      /\ \A a, b, c, d \in S : <<a, b, c, d>> \in Seq(S)
  OBVIOUS
<1>2a. /\ <<Step("hostWidth", 1), Step("power", TRUE), Step("clock", Slow), Step("identify", 0)>> \in Seq(S)
      /\ <<Step("cmd11", 0), Step("v18", 0)>> \in Seq(S)
      /\ <<Step("acmd6", 4), Step("hostWidth", 4), Step("recordWidth", 4)>> \in Seq(S)
      /\ <<Step("attached", 0)>> \in Seq(S)
  BY <1>1, <1>2, Zenon
<1>2b. <<>> \in Seq(S)
  OBVIOUS
<1>3. Attach \in Seq(S)
  <2> DEFINE first == <<Step("hostWidth", 1), Step("power", TRUE), Step("clock", Slow), Step("identify", 0)>>
             v == IF env.s18 THEN <<Step("cmd11", 0), Step("v18", 0)>> ELSE <<>>
             w == IF env.s18 \/ slot.uhsi THEN <<Step("acmd6", 4), Step("hostWidth", 4), Step("recordWidth", 4)>> ELSE <<>>
             last == <<Step("attached", 0)>>
  <2>1. first \in Seq(S) /\ v \in Seq(S) /\ w \in Seq(S) /\ last \in Seq(S)
    BY <1>2a, <1>2b, Zenon
  <2>2. Attach = first \o v \o w \o last
    BY Zenon DEF Attach
  <2> HIDE DEF first, v, w, last
  <2> QED
    BY <2>1, <2>2, Joined
<1> QED
  BY <1>3 DEF S

LEMMA StepsTyped ==
    ASSUME TypeInv, NEW o \in Ops, o.name # "detach"
    PROVE  Steps(o) \in Seq(Alphabet(o))
<1>1. CASE o.name = "high"
  <2>1. o.arg \in BOOLEAN
    BY <1>1 DEF Ops
  <2> QED
    BY <1>1, <2>1, HighTyped DEF Steps, Alphabet
<1>2. CASE o.name = "mode"
  <2>1. o.arg \in SdModes \cup MmcModes
    BY <1>2 DEF Ops
  <2> QED
    BY <1>2, <2>1, SdModeTyped, MmcModeTyped DEF Steps, Alphabet
<1>3. CASE o.name = "width"
  <2>1. o.arg \in Widths
    BY <1>3 DEF Ops
  <2> QED
    BY <1>3, <2>1, WidthTyped DEF Steps, Alphabet
<1>4. CASE o.name = "strength"
  <2>1. o.arg \in Strengths
    BY <1>4 DEF Ops
  <2> QED
    BY <1>4, <2>1, StrengthTyped DEF Steps, Alphabet
<1>5. CASE o.name = "attach"
  BY <1>5, AttachTyped DEF Steps, Alphabet
<1>6. CASE o.name = "clock"
  <2>1. o.arg \in env.asked
    BY <1>6 DEF Ops
  <2>2. Step("clock", o.arg) \in Alphabet(o)
    BY <1>6, <2>1 DEF Alphabet, OtherSteps, Some, Step
  <2> QED
    BY <1>6, <2>2 DEF Steps
<1>7. CASE o.name = "generator"
  <2>1. o.arg \in BOOLEAN
    BY <1>7 DEF Ops
  <2>2. Step("recordProg", o.arg) \in Alphabet(o) /\ Step("refuse", 0) \in Alphabet(o)
    BY <1>7, <2>1 DEF Alphabet, OtherSteps, Some, Step, Refusal
  <2> QED
    BY <1>7, <2>2 DEF Steps
<1>8. CASE o.name = "tune"
  <2>1. Step("tuneSd", 0) \in Alphabet(o)
    BY <1>8 DEF Alphabet, OtherSteps, Some, Step
  <2> QED
    BY <1>8, <2>1 DEF Steps
<1> QED
  BY <1>1, <1>2, <1>3, <1>4, <1>5, <1>6, <1>7, <1>8 DEF Ops

---------------------------------------------------------------------------------------
(***************************************************************************)
(* The dividers.                                                           *)
(***************************************************************************)

\* What the search of a divider finds: the first that is slow enough, or where it stops.
LEMMA Divider8Found ==
    ASSUME NEW f
    PROVE  LET i == Divider8(f) IN
             \/ i \in PowersOfTwo(Top8) /\ IsMaxDivider(f, Base, i)
             \/ i = Top8 /\ \A j \in PowersOfTwo(Top8) : ~IsMaxDivider(f, Base, j)
<1> DEFINE steps == PowersOfTwo(Top8)
           found == {i \in steps : IsMaxDivider(f, Base, i)}
<1>1. CASE found # {}
  <2>1. PICK u \in found : \A v \in found : u <= v
    BY <1>1, LeastElement DEF PowersOfTwo
  <2>2. \A j \in found : j \in Nat
    BY DEF PowersOfTwo
  <2>3. u \in steps /\ IsMaxDivider(f, Base, u) /\ \A j \in steps : j < u => ~IsMaxDivider(f, Base, j)
    BY <2>1, <2>2
  <2> QED
    BY <2>3, Zenon DEF Divider8, First
<1>2. CASE found = {}
  BY <1>2, Zenon DEF Divider8, First
<1> QED
  BY <1>1, <1>2

LEMMA Divider10Found ==
    ASSUME NEW f
    PROVE  LET i == Divider10(f) IN
             \/ i \in 1 .. Top10 - 1 /\ IsMaxDivider(f, Base, i)
             \/ i = Top10 /\ \A j \in 1 .. Top10 - 1 : ~IsMaxDivider(f, Base, j)
<1> DEFINE steps == 1 .. Top10 - 1
           found == {i \in steps : IsMaxDivider(f, Base, i)}
<1>1. CASE found # {}
  <2>1. \A j \in found : j \in Nat
    OBVIOUS
  <2>2. PICK u \in found : \A v \in found : u <= v
    BY <1>1, <2>1, LeastElement
  <2>3. u \in steps /\ IsMaxDivider(f, Base, u) /\ \A j \in steps : j < u => ~IsMaxDivider(f, Base, j)
    BY <2>1, <2>2
  <2> QED
    BY <2>3, Zenon DEF Divider10, First
<1>2. CASE found = {}
  BY <1>2, Zenon DEF Divider10, First
<1> QED
  BY <1>1, <1>2

LEMMA DividerProgFound ==
    ASSUME NEW f
    PROVE  LET i == DividerProg(f) IN
             \/ i \in 1 .. TopProg - 1 /\ (Base * Multiplier) \div i <= f
                /\ \A j \in 1 .. TopProg - 1 : j < i => ~((Base * Multiplier) \div j <= f)
             \/ i = TopProg /\ \A j \in 1 .. TopProg - 1 : ~((Base * Multiplier) \div j <= f)
<1> DEFINE steps == 1 .. TopProg - 1
           found == {i \in steps : (Base * Multiplier) \div i <= f}
<1>1. CASE found # {}
  <2>1. \A j \in found : j \in Nat
    OBVIOUS
  <2>2. PICK u \in found : \A v \in found : u <= v
    BY <1>1, <2>1, LeastElement
  <2>3. u \in steps /\ (Base * Multiplier) \div u <= f /\ \A j \in steps : j < u => ~((Base * Multiplier) \div j <= f)
    BY <2>1, <2>2
  <2> QED
    BY <2>3, Zenon DEF DividerProg, First
<1>2. CASE found = {}
  BY <1>2, Zenon DEF DividerProg, First
<1> QED
  BY <1>1, <1>2

LEMMA DividersTyped ==
    ASSUME NEW f
    PROVE  Divider8(f) \in 1 .. Top8 /\ Divider10(f) \in 1 .. Top10 /\ DividerProg(f) \in 1 .. TopProg
<1>1. Top8 \in Nat \ {0} /\ Top10 \in Nat \ {0} /\ TopProg \in Nat \ {0}
  BY ModeAssumption
<1>2. Divider8(f) \in PowersOfTwo(Top8) \/ Divider8(f) = Top8
  BY Divider8Found
<1>3. Divider10(f) \in 1 .. Top10 - 1 \/ Divider10(f) = Top10
  BY Divider10Found
<1>4. DividerProg(f) \in 1 .. TopProg - 1 \/ DividerProg(f) = TopProg
  BY DividerProgFound
<1> QED
  BY <1>1, <1>2, <1>3, <1>4 DEF PowersOfTwo

LEMMA QuotientTyped ==
    ASSUME NEW a \in Nat, NEW b \in Nat \ {0}
    PROVE  a \div b \in Nat
  OBVIOUS

LEMMA ClockTyped ==
    ASSUME NEW f
    PROVE  ClockFor(f) \in [field : Nat, told : Nat]
<1>1. Base \in Nat /\ Multiplier \in Nat /\ TopProg \in Nat \ {0} /\ Top8 \in Nat /\ Top10 \in Nat
  BY ModeAssumption
<1>2. Base * Multiplier \in Nat
  BY <1>1
<1>3. CASE Programmable
  <2> DEFINE i == DividerProg(f)
             field == IF i > 1 THEN i % TopProg ELSE 0
             told == (Base * Multiplier) \div (IF i > 1 THEN i - 1 ELSE i)
  <2>1. i \in Nat \ {0}
    BY <1>1, DividersTyped
  <2>2. (IF i > 1 THEN i - 1 ELSE i) \in Nat \ {0}
    BY <2>1
  <2> HIDE DEF i
  <2>3. field \in Nat
    BY <1>1, <2>1
  <2>4. told \in Nat
    BY <1>2, <2>2, QuotientTyped
  <2>5. ClockFor(f) = [field |-> field, told |-> told]
    BY <1>3, Zenon DEF ClockFor, i
  <2> HIDE DEF field, told
  <2> QED
    BY <2>3, <2>4, <2>5
<1>4. CASE ~Programmable
  <2> DEFINE i == IF env.clock = "8" THEN Divider8(f) ELSE Divider10(f)
  <2>1. i \in Nat \ {0}
    BY <1>1, DividersTyped
  <2>2. ClockFor(f) = [field |-> i \div 2, told |-> Base \div i]
    BY <1>4, Zenon DEF ClockFor
  <2> HIDE DEF i
  <2>3. i \div 2 \in Nat /\ Base \div i \in Nat
    BY <1>1, <2>1, QuotientTyped
  <2> QED
    BY <2>2, <2>3
<1> QED
  BY <1>3, <1>4

---------------------------------------------------------------------------------------
(***************************************************************************)
(* The types are kept.                                                     *)
(***************************************************************************)

LEMMA AlphabetKept ==
    ASSUME env' = env, op' = op, op.name \in {"high", "mode"} => slot'.width = slot.width,
           op.name = "width" => slot'.mode = slot.mode
    PROVE  Alphabet(op)' = Alphabet(op)
<1>1. op.name \in {"high", "mode"} => ModeSteps' = ModeSteps /\ HighSteps' = HighSteps
  BY DEF ModeSteps, HighSteps, Some, BusArgs
<1>2. op.name = "width" => WidthSteps(op.arg)' = WidthSteps(op.arg)
  BY DEF WidthSteps, Some, BusWidthIn, BusWidthFor
<1>3. StrengthSteps' = StrengthSteps /\ AttachSteps' = AttachSteps /\ OtherSteps' = OtherSteps /\ Refusal' = Refusal
  BY DEF StrengthSteps, AttachSteps, OtherSteps, Some, Refusal, Step
<1> QED
  <2>1. op'.name = op.name /\ op'.arg = op.arg
    OBVIOUS
  <2>2. CASE op.name \in {"high", "mode"}
    BY <1>1, <1>3, <2>1, <2>2 DEF Alphabet
  <2>3. CASE op.name = "width"
    BY <1>2, <1>3, <2>1, <2>3 DEF Alphabet
  <2>4. CASE op.name \notin {"high", "mode", "width"}
    BY <1>3, <2>1, <2>4 DEF Alphabet
  <2> QED
    BY <2>2, <2>3, <2>4

ControlTypes ==
    /\ status \in {"idle", "run", "ok", "error"} /\ touched \in {"no", "sent", "forgot"} /\ doubt \subseteq Kinds
    /\ status = "run" => op \in Ops /\ op.name \in env.ops /\ op.name # "detach" /\ todo \in Seq(Alphabet(op))
    /\ status # "run" => todo = <<>>

LEMMA ControlKept ==
    ASSUME TypeInv, status = "run", todo # <<>>, env' = env, op' = op, Alphabet(op)' = Alphabet(op),
           touched' \in {"no", "sent", "forgot"}, Proceed \/ FailIf(TRUE) \/ Fail
    PROVE  ControlTypes'
<1>1. CASE Proceed
  <2>1. todo' \in Seq(Alphabet(op))
    BY <1>1 DEF TypeInv, Proceed
  <2>2. Ops' = Ops
    BY DEF Ops
  <2> QED
    BY <1>1, <2>1, <2>2 DEF TypeInv, ControlTypes, Proceed
<1>2. CASE FailIf(TRUE) \/ Fail
  <2>1. todo' = <<>> /\ status' = "error"
    BY <1>2 DEF Fail, FailIf
  <2>2. doubt' = doubt \cup {Subject} \/ doubt' = doubt
    BY <1>2 DEF Fail, FailIf
  <2>3. doubt' # doubt => Subject \in Kinds
    BY <1>2 DEF Fail, FailIf, Subject, FourKinds, Kinds
  <2>4. doubt' \subseteq Kinds
    BY <2>2, <2>3 DEF TypeInv
  <2> QED
    BY <2>1, <2>4 DEF ControlTypes
<1> QED
  BY <1>1, <1>2

\* The step at the head of a list.
LEMMA HeadKnown ==
    ASSUME TypeInv, status = "run", todo # <<>>
    PROVE  /\ Expects(Head(todo)) /\ Head(todo) \in Alphabet(op) /\ op \in Ops
           /\ Head(todo) = todo[1] /\ Tail(todo) \in Seq(Alphabet(op)) /\ Len(todo) \in Nat \ {0}
           /\ Len(Tail(todo)) = Len(todo) - 1 /\ \A i \in 1 .. Len(Tail(todo)) : Tail(todo)[i] = todo[i + 1]
<1>1. todo \in Seq(Alphabet(op)) /\ op \in Ops
  BY DEF TypeInv
<1> HIDE DEF Alphabet
<1>2. /\ Head(todo) = todo[1] /\ Head(todo) \in Alphabet(op) /\ Tail(todo) \in Seq(Alphabet(op)) /\ Len(todo) \in Nat \ {0}
      /\ Len(Tail(todo)) = Len(todo) - 1 /\ \A i \in 1 .. Len(Tail(todo)) : Tail(todo)[i] = todo[i + 1]
  BY <1>1, HeadAndTail
<1> QED
  BY <1>1, <1>2, HeadExpected

FieldTypes == card \in CardType /\ host \in HostType /\ clk \in ClkType /\ slot \in SlotType /\ windows \subseteq Chain

LEMMA TypesOf ==
    TypeInv => FieldTypes /\ ControlTypes
  BY DEF TypeInv, FieldTypes, ControlTypes

LEMMA TypesTogether ==
    ASSUME env' \in Envs, FieldTypes', ControlTypes'
    PROVE  TypeInv'
<1> HIDE DEF Alphabet, Ops
<1> QED
  BY DEF TypeInv, FieldTypes, ControlTypes

LEMMA FreshTyped == Fresh \in CardType
<1> DEFINE Card(f, a) == [timing |-> a, ddr |-> f, strobe |-> f, width |-> 1, v18 |-> f, strength |-> "B"]
<1>1. ASSUME NEW f \in BOOLEAN, NEW a \in SdModes \cup Timings
      PROVE  Card(f, a) \in CardType
  BY DEF CardType, Widths, Strengths
<1>2. FALSE \in BOOLEAN /\ "SDR12" \in SdModes \cup Timings /\ "legacy" \in SdModes \cup Timings
  BY DEF SdModes, Timings
<1>3. Fresh = Card(FALSE, "SDR12") \/ Fresh = Card(FALSE, "legacy")
  BY Zenon DEF Fresh
<1> HIDE DEF Card
<1> QED
  BY <1>1, <1>2, <1>3, Zenon

\* Every action is one that takes a step of the list, or one of Call, Detach and Return.
Takes ==
    Switch \/ ReadExtCsd \/ Supports \/ Check \/ SwitchFn \/ WriteHost \/ Record \/ Refuse
    \/ SetClock \/ TuneMmc \/ TuneSd \/ Identify \/ Cmd11 \/ Voltage

LEMMA TakesAStep ==
    ASSUME Takes
    PROVE  /\ status = "run" /\ todo # <<>> /\ env' = env /\ op' = op
           /\ Proceed \/ FailIf(TRUE) \/ Fail
<1>1. CASE Switch
  BY <1>1 DEF Switch, At
<1>2. CASE ReadExtCsd
  BY <1>2 DEF ReadExtCsd, At
<1>3. CASE Supports
  BY <1>3 DEF Supports, At
<1>4. CASE Check
  BY <1>4 DEF Check, At
<1>5. CASE SwitchFn
  BY <1>5 DEF SwitchFn, At
<1>6. CASE WriteHost
  BY <1>6 DEF WriteHost, At
<1>7. CASE Record
  BY <1>7 DEF Record, At
<1>8. CASE Refuse
  BY <1>8 DEF Refuse, At
<1>9. CASE SetClock
  BY <1>9 DEF SetClock, At
<1>10. CASE TuneMmc
  BY <1>10 DEF TuneMmc, At
<1>11. CASE TuneSd
  BY <1>11 DEF TuneSd, At
<1>12. CASE Identify
  BY <1>12 DEF Identify, At
<1>13. CASE Cmd11
  BY <1>13 DEF Cmd11, At
<1>14. CASE Voltage
  BY <1>14 DEF Voltage, At
<1> QED
  BY <1>1, <1>2, <1>3, <1>4, <1>5, <1>6, <1>7, <1>8, <1>9, <1>10, <1>11, <1>12, <1>13, <1>14 DEF Takes

LEMMA TakesTypes ==
    ASSUME TypeInv, Takes
    PROVE  FieldTypes' /\ Alphabet(op)' = Alphabet(op) /\ touched' \in {"no", "sent", "forgot"}
<1> DEFINE s == Head(todo)
<1>1. /\ status = "run" /\ todo # <<>> /\ env' = env /\ op' = op
      /\ Proceed \/ FailIf(TRUE) \/ Fail
  BY TakesAStep
<1>2. Expects(s)
  BY <1>1, HeadKnown
<1>3. FieldTypes /\ touched \in {"no", "sent", "forgot"}
  BY TypesOf DEF TypeInv
<1>4. slot' = slot => Alphabet(op)' = Alphabet(op)
  BY <1>1, AlphabetKept
<1> HIDE DEF Alphabet
<1>5. CASE Switch
  <2>1. UNCHANGED <<host, clk, slot, windows>> /\ s.does \in {"timing", "busWidth", "acmd6"}
    BY <1>5 DEF Switch, At
  <2>2. touched' \in {"forgot", "sent"}
    BY <1>5 DEF Switch
  <2>3. card' = DeviceAfter \/ card' = card
    BY <1>5 DEF Switch
  <2>4. DeviceAfter \in CardType
    <3>1. CASE s.does = "timing"
      BY <1>2, <1>3, <3>1 DEF Expects, DeviceAfter, Arg, CardType, FieldTypes
    <3>2. CASE s.does = "busWidth"
      <4>1. s.arg \in [width : Widths, ddr : BOOLEAN, strobe : BOOLEAN]
        BY <1>2, <3>2 DEF Expects, BusArgs
      <4>2. DeviceAfter = [card EXCEPT !.width = s.arg.width, !.ddr = s.arg.ddr, !.strobe = s.arg.strobe]
        BY <3>2, Zenon DEF DeviceAfter, Arg
      <4> HIDE DEF s
      <4> QED
        BY <1>3, <4>1, <4>2 DEF CardType, FieldTypes
    <3>3. CASE s.does = "acmd6"
      BY <1>2, <1>3, <3>3 DEF Expects, DeviceAfter, Arg, CardType, FieldTypes
    <3> QED
      BY <2>1, <3>1, <3>2, <3>3
  <2> QED
    BY <1>3, <1>4, <2>1, <2>2, <2>3, <2>4 DEF FieldTypes
<1>6. CASE ReadExtCsd
  <2>1. UNCHANGED <<card, host, clk, slot, windows, touched>>
    BY <1>6 DEF ReadExtCsd
  <2> QED
    BY <1>3, <1>4, <2>1 DEF FieldTypes
<1>7. CASE Supports
  <2>1. UNCHANGED <<card, host, clk, slot, windows, touched>>
    BY <1>7 DEF Supports
  <2> QED
    BY <1>3, <1>4, <2>1 DEF FieldTypes
<1>8. CASE Check
  <2>1. UNCHANGED <<card, host, clk, slot, windows, touched>>
    BY <1>8 DEF Check
  <2> QED
    BY <1>3, <1>4, <2>1 DEF FieldTypes
<1>9. CASE SwitchFn
  <2>1. UNCHANGED <<host, clk, slot, windows>> /\ s.does = "switch"
    BY <1>9 DEF SwitchFn, At
  <2>2. touched' \in {"forgot", "sent"}
    BY <1>9 DEF SwitchFn
  <2>3. card' = SwitchTo(Arg) \/ card' = card
    BY <1>9 DEF SwitchFn, Taken
  <2>4. Arg \in SdModes \cup Strengths
    BY <1>2, <2>1 DEF Expects, Arg
  <2>5. SwitchTo(Arg) \in CardType
    BY <1>3, <2>4 DEF SwitchTo, FieldTypes, CardType
  <2> QED
    BY <1>3, <1>4, <2>1, <2>2, <2>3, <2>5 DEF FieldTypes
<1>10. CASE WriteHost
  <2>1. /\ UNCHANGED <<clk, slot, windows, touched>> /\ host' = HostAfter /\ (card' = Fresh \/ card' = card)
        /\ s.does \in {"hostEmmc", "hostHs", "hostUhs", "hostWidth", "hostStrength", "power"}
    BY <1>10 DEF WriteHost, At
  <2>2. card' \in CardType
    BY <1>3, <2>1, FreshTyped DEF FieldTypes
  <2>3. HostAfter \in HostType
    <3>1. CASE s.does = "hostEmmc"
      BY <1>2, <1>3, <3>1 DEF Expects, HostAfter, Arg, HostType, FieldTypes
    <3>2. CASE s.does = "hostHs"
      BY <1>2, <1>3, <3>2 DEF Expects, HostAfter, Arg, HostType, FieldTypes
    <3>3. CASE s.does = "hostUhs"
      BY <1>2, <1>3, <3>3 DEF Expects, HostAfter, Arg, HostType, FieldTypes
    <3>4. CASE s.does = "hostWidth"
      BY <1>2, <1>3, <3>4 DEF Expects, HostAfter, Arg, HostType, FieldTypes
    <3>5. CASE s.does = "hostStrength"
      BY <1>2, <1>3, <3>5 DEF Expects, HostAfter, Arg, HostType, FieldTypes
    <3>6. CASE s.does = "power"
      BY <1>2, <1>3, <3>6 DEF Expects, HostAfter, Arg, HostType, FieldTypes
    <3> QED
      BY <2>1, <3>1, <3>2, <3>3, <3>4, <3>5, <3>6
  <2> QED
    BY <1>3, <1>4, <2>1, <2>2, <2>3 DEF FieldTypes
<1>11. CASE Record
  <2>1. UNCHANGED <<card, host, clk, windows, touched>> /\ s.does \in {"record", "recordWidth", "recordProg", "attached"}
        /\ slot' = SlotAfter
    BY <1>11 DEF Record, At
  <2>2. CASE s.does = "record"
    <3>1. slot' = [slot EXCEPT !.mode = Arg] /\ op.name \in {"high", "mode"} /\ Arg \in SdModes \cup MmcModes
      BY <1>2, <2>1, <2>2 DEF Expects, SlotAfter, Arg
    <3>2. slot' \in SlotType /\ slot'.width = slot.width
      BY <1>3, <3>1 DEF SlotType, FieldTypes
    <3> QED
      BY <1>1, <1>3, <2>1, <3>1, <3>2, AlphabetKept DEF FieldTypes
  <2>3. CASE s.does = "recordWidth"
    <3>1. slot' = [slot EXCEPT !.width = Arg] /\ op.name \in {"width", "attach"} /\ Arg \in Widths
      BY <1>2, <2>1, <2>3 DEF Expects, SlotAfter, Arg
    <3>2. slot' \in SlotType /\ slot'.mode = slot.mode
      BY <1>3, <3>1 DEF SlotType, FieldTypes
    <3> QED
      BY <1>1, <1>3, <2>1, <3>1, <3>2, AlphabetKept DEF FieldTypes
  <2>4. CASE s.does = "recordProg"
    <3>1. slot' = [slot EXCEPT !.prog = Arg] /\ Arg \in BOOLEAN
      BY <1>2, <2>1, <2>4 DEF Expects, SlotAfter, Arg
    <3>2. slot' \in SlotType /\ slot'.mode = slot.mode /\ slot'.width = slot.width
      BY <1>3, <3>1 DEF SlotType, FieldTypes
    <3> QED
      BY <1>1, <1>3, <2>1, <3>1, <3>2, AlphabetKept DEF FieldTypes
  <2>5. CASE s.does = "attached"
    <3>1. slot' = [slot EXCEPT !.attached = TRUE]
      BY <2>1, <2>5 DEF SlotAfter
    <3>2. slot' \in SlotType /\ slot'.mode = slot.mode /\ slot'.width = slot.width
      BY <1>3, <3>1 DEF SlotType, FieldTypes
    <3> QED
      BY <1>1, <1>3, <2>1, <3>2, AlphabetKept DEF FieldTypes
  <2> QED
    BY <2>1, <2>2, <2>3, <2>4, <2>5
<1>12. CASE Refuse
  <2>1. UNCHANGED <<card, host, clk, slot, windows, touched>>
    BY <1>12 DEF Refuse
  <2> QED
    BY <1>3, <1>4, <2>1 DEF FieldTypes
<1>13. CASE SetClock
  <2>1. UNCHANGED <<card, host, slot, windows, touched>> /\ s.does = "clock"
    BY <1>13 DEF SetClock, At
  <2>2. Arg \in Nat /\ ClockFor(Arg) \in [field : Nat, told : Nat]
    BY <1>2, <2>1, ClockTyped, ModeAssumption DEF Expects, Arg, TypeInv
  <2>3. PICK p \in BOOLEAN : \/ clk' = [clk EXCEPT !.field = ClockFor(Arg).field, !.prog = p, !.on = FALSE]
                             \/ clk' = [[clk EXCEPT !.field = ClockFor(Arg).field, !.prog = p, !.on = FALSE]
                                          EXCEPT !.on = TRUE, !.asked = Arg, !.told = ClockFor(Arg).told]
    <3>1. clk.prog \in BOOLEAN /\ slot.prog \in BOOLEAN
      BY <1>3 DEF FieldTypes, ClkType, SlotType
    <3> HIDE DEF s
    <3>2. env.clock = "8" \/ env.clock # "8"
      OBVIOUS
    <3> QED
      BY <1>13, <3>1, <3>2, Zenon DEF SetClock
  <2> HIDE DEF s
  <2>4. clk' \in ClkType
    BY <1>3, <2>2, <2>3 DEF FieldTypes, ClkType
  <2> QED
    BY <1>3, <1>4, <2>1, <2>4 DEF FieldTypes
<1>14. CASE TuneMmc
  <2>1. UNCHANGED <<card, clk, slot, touched>>
    BY <1>14 DEF TuneMmc
  <2>2. CASE UNCHANGED <<host, windows>>
    BY <1>3, <1>4, <2>1, <2>2 DEF FieldTypes
  <2>3. CASE \E ok \in SUBSET Chain : windows' = ok /\ host' = [host EXCEPT !.delay = LongestValid(ok)]
    <3>1. PICK ok \in SUBSET Chain : windows' = ok /\ host' = [host EXCEPT !.delay = LongestValid(ok)]
      BY <2>3
    <3>2. LongestValid(ok) \in Nat
      BY DelayTyped
    <3>3. host' \in HostType
      BY <1>3, <3>1, <3>2 DEF FieldTypes, HostType
    <3> QED
      BY <1>3, <1>4, <2>1, <3>1, <3>3 DEF FieldTypes
  <2> QED
    BY <1>14, <2>2, <2>3 DEF TuneMmc
<1>15. CASE TuneSd
  <2>1. UNCHANGED <<card, clk, windows, touched>>
    BY <1>15 DEF TuneSd
  <2>2. PICK b \in BOOLEAN : slot' = [slot EXCEPT !.retuning = b]
    BY <1>15, Zenon DEF TuneSd
  <2>3. slot' \in SlotType /\ slot'.mode = slot.mode /\ slot'.width = slot.width
    BY <1>3, <2>2 DEF SlotType, FieldTypes
  <2>4. host' = [host EXCEPT !.sampling = TRUE] \/ host' = [host EXCEPT !.sampling = FALSE] \/ host' = host
    BY <1>15, Zenon DEF TuneSd
  <2>5. host' \in HostType
    BY <1>3, <2>4 DEF HostType, FieldTypes
  <2> QED
    BY <1>1, <1>3, <2>1, <2>3, <2>5, AlphabetKept DEF FieldTypes
<1>16. CASE Identify
  <2>1. UNCHANGED <<card, host, clk, windows, touched>> /\ s.does = "identify"
    BY <1>16 DEF Identify, At
  <2>2. \/ slot' = [slot EXCEPT !.width = 1, !.mode = IF env.type = "mmc" THEN "MMC_LEGACY" ELSE slot.mode]
        \/ slot' = slot \/ slot' = [slot EXCEPT !.width = 1]
    BY <1>16 DEF Identify
  <2>3. slot' \in SlotType
    BY <1>3, <2>2 DEF SlotType, FieldTypes, Widths, MmcModes
  <2>4. op.name = "attach"
    BY <1>2, <2>1 DEF Expects
  <2> QED
    BY <1>1, <1>3, <2>1, <2>3, <2>4, AlphabetKept DEF FieldTypes
<1>17. CASE Cmd11
  <2>1. UNCHANGED <<slot, windows, touched>>
    BY <1>17 DEF Cmd11
  <2>2. \/ card' = [card EXCEPT !.v18 = TRUE] /\ clk' = [clk EXCEPT !.on = FALSE] /\ UNCHANGED host
        \/ card' = Fresh /\ host' = [host EXCEPT !.power = FALSE] /\ UNCHANGED clk
    BY <1>17, Zenon DEF Cmd11, PowerOff
  <2>3. card' \in CardType /\ clk' \in ClkType /\ host' \in HostType
    BY <1>3, <2>2, FreshTyped DEF CardType, ClkType, HostType, FieldTypes
  <2> QED
    BY <1>3, <1>4, <2>1, <2>3 DEF FieldTypes
<1>18. CASE Voltage
  <2>1. UNCHANGED <<windows, touched>> /\ s.does = "v18"
    BY <1>18 DEF Voltage, At
  <2>2. CASE /\ host' = [host EXCEPT !.v18 = TRUE] /\ clk' = [clk EXCEPT !.on = TRUE]
             /\ slot' = [slot EXCEPT !.uhsi = TRUE] /\ UNCHANGED card
    <3>1. card' \in CardType /\ clk' \in ClkType /\ host' \in HostType /\ slot' \in SlotType
          /\ slot'.mode = slot.mode /\ slot'.width = slot.width
      BY <1>3, <2>2 DEF CardType, ClkType, HostType, SlotType, FieldTypes
    <3> QED
      BY <1>1, <1>3, <2>1, <3>1, AlphabetKept DEF FieldTypes
  <2>3. CASE /\ card' = Fresh /\ UNCHANGED slot
             /\ \E v18 \in BOOLEAN, on \in BOOLEAN : /\ host' = [host EXCEPT !.v18 = v18, !.power = FALSE]
                                                     /\ clk' = [clk EXCEPT !.on = on]
    <3>1. PICK v18 \in BOOLEAN, on \in BOOLEAN : /\ host' = [host EXCEPT !.v18 = v18, !.power = FALSE]
                                                 /\ clk' = [clk EXCEPT !.on = on]
      BY <2>3
    <3>2. card' \in CardType /\ clk' \in ClkType /\ host' \in HostType /\ slot' = slot
      BY <1>3, <2>3, <3>1, FreshTyped DEF ClkType, HostType, FieldTypes
    <3> QED
      BY <1>3, <1>4, <2>1, <3>2 DEF FieldTypes
  <2> QED
    BY <1>18, <2>2, <2>3, Zenon DEF Voltage
<1> QED
  BY <1>5, <1>6, <1>7, <1>8, <1>9, <1>10, <1>11, <1>12, <1>13, <1>14, <1>15, <1>16, <1>17, <1>18 DEF Takes

LEMMA CallTypes ==
    ASSUME TypeInv, Call
    PROVE  TypeInv'
<1>1. PICK o \in Ops : MayCall(o) /\ o.name # "detach" /\ op' = o /\ todo' = Steps(o)
  BY DEF Call
<1>2. UNCHANGED <<env, card, host, clk, slot, doubt, windows>> /\ status' = "run" /\ touched' = "no"
  BY DEF Call
<1>3. o.name \in env.ops
  BY <1>1 DEF MayCall
<1>4. Steps(o) \in Seq(Alphabet(o))
  BY <1>1, StepsTyped
<1>5. Ops' = Ops
  BY <1>2 DEF Ops
<1>6. Alphabet(op)' = Alphabet(o)
  BY <1>1, <1>2 DEF Alphabet, ModeSteps, HighSteps, WidthSteps, StrengthSteps, AttachSteps, OtherSteps, Some, Refusal, Step,
                    BusArgs, BusWidthIn, BusWidthFor
<1>7. ControlTypes'
  <2>1. op' \in Ops' /\ op'.name \in env'.ops /\ op'.name # "detach"
    BY <1>1, <1>2, <1>3, <1>5
  <2>2. todo' \in Seq(Alphabet(op)')
    BY <1>1, <1>4, <1>6
  <2>3. status' = "run" /\ touched' = "no" /\ doubt' \subseteq Kinds
    BY <1>2 DEF TypeInv
  <2> HIDE DEF Alphabet, Ops
  <2> QED
    BY <2>1, <2>2, <2>3 DEF ControlTypes
<1>8. FieldTypes' /\ env' \in Envs
  BY <1>2 DEF TypeInv, FieldTypes
<1> QED
  BY <1>7, <1>8, TypesTogether

LEMMA DetachTypes ==
    ASSUME TypeInv, Detach
    PROVE  TypeInv'
<1>1. slot \in SlotType /\ slot' = [slot EXCEPT !.attached = FALSE, !.retuning = FALSE]
  BY DEF TypeInv, Detach
<1>2. slot' \in SlotType
  BY <1>1 DEF SlotType
<1>3. card' \in CardType
  BY FreshTyped DEF Detach
<1>4. UNCHANGED <<env, host, clk, windows, status, touched, todo>> /\ status = "idle" /\ doubt' = {}
  BY DEF Detach
<1> QED
  BY <1>2, <1>3, <1>4 DEF TypeInv

LEMMA ReturnTypes ==
    ASSUME TypeInv, Return
    PROVE  TypeInv'
<1>1. UNCHANGED <<env, card, host, clk, slot, todo>> /\ todo = <<>>
  BY DEF Return, TypeInv
<1>2. CASE status = "run" /\ todo = <<>> /\ status' = "ok" /\ doubt' = Repaired /\ UNCHANGED <<touched, windows>>
  <2>1. touched = "forgot" => Subject \in Kinds
    BY <1>2 DEF TypeInv, Ops, Subject, FourKinds, Kinds
  <2>2. Repaired \subseteq Kinds
    BY <2>1 DEF Repaired, TypeInv
  <2> QED
    BY <1>1, <1>2, <2>2 DEF TypeInv
<1>3. CASE status' = "idle" /\ touched' = "no" /\ windows' = {} /\ doubt' = doubt
  BY <1>1, <1>3 DEF TypeInv
<1> QED
  BY <1>2, <1>3 DEF Return

LEMMA TypesKept ==
    ASSUME TypeInv, [Next]_vars
    PROVE  TypeInv'
<1>1. CASE Takes
  <2>1. FieldTypes' /\ Alphabet(op)' = Alphabet(op) /\ touched' \in {"no", "sent", "forgot"}
    BY <1>1, TakesTypes
  <2>2. /\ status = "run" /\ todo # <<>> /\ env' = env /\ op' = op
        /\ Proceed \/ FailIf(TRUE) \/ Fail
    BY <1>1, TakesAStep
  <2>3. ControlTypes'
    BY <2>1, <2>2, ControlKept
  <2>4. env' \in Envs
    BY <2>2 DEF TypeInv
  <2> QED
    BY <2>1, <2>3, <2>4, TypesTogether
<1>2. CASE Call
  BY <1>2, CallTypes
<1>3. CASE Detach
  BY <1>3, DetachTypes
<1>4. CASE Return
  BY <1>4, ReturnTypes
<1>5. CASE UNCHANGED vars
  <2>1. UNCHANGED <<env, card, host, clk, slot, op, todo, status, touched, doubt, windows>>
    BY <1>5 DEF vars
  <2>2. Alphabet(op)' = Alphabet(op)
    BY <2>1, AlphabetKept
  <2>3. Ops' = Ops
    BY <2>1 DEF Ops
  <2> HIDE DEF Alphabet, Ops
  <2> QED
    BY <2>1, <2>2, <2>3 DEF TypeInv
<1> QED
  BY <1>1, <1>2, <1>3, <1>4, <1>5 DEF Next, Takes

\* In every state the fields are of their types, the divider and the delay numbers, and what is
\* left of a function's list holds steps of that function only (SDIOHost_ConfigureAccessMode,
\* SetBusWidth and the others).
THEOREM ModeTypes == Spec => []TypeInv
<1>1. Init => TypeInv
  <2> SUFFICES ASSUME Init PROVE TypeInv
    OBVIOUS
  <2>1. env \in Envs /\ windows = {} /\ doubt = {} /\ status = "idle" /\ todo = <<>> /\ touched = "no"
    BY DEF Init
  <2> QED
    BY <2>1, InitTypes DEF TypeInv
<1>2. TypeInv /\ [Next]_vars => TypeInv'
  BY TypesKept
<1> QED
  BY <1>1, <1>2, PTL DEF Spec

---------------------------------------------------------------------------------------
(***************************************************************************)
(* The tuning.                                                             *)
(***************************************************************************)

\* As long as a tuning is remembered, the host has the delay that it chose.
TunedInv == windows # {} => host.delay = LongestValid(windows)

LEMMA TunedKept ==
    ASSUME TypeInv, TunedInv, [Next]_vars
    PROVE  TunedInv'
<1>1. host \in HostType
  BY DEF TypeInv
<1>2. ASSUME windows' = windows, host'.delay = host.delay PROVE TunedInv'
  BY <1>2 DEF TunedInv
<1>3. CASE UNCHANGED <<host, windows>>
  BY <1>2, <1>3
<1>4. CASE WriteHost
  <2>1. windows' = windows /\ host' = HostAfter
        /\ Head(todo).does \in {"hostEmmc", "hostHs", "hostUhs", "hostWidth", "hostStrength", "power"}
    BY <1>4 DEF WriteHost, At
  <2>2. HostAfter.delay = host.delay
    BY <1>1, <2>1 DEF HostAfter, HostType
  <2> QED
    BY <1>2, <2>1, <2>2
<1>5. CASE TuneMmc
  <2>1. CASE \E ok \in SUBSET Chain : windows' = ok /\ host' = [host EXCEPT !.delay = LongestValid(ok)]
    <3>1. PICK ok \in SUBSET Chain : windows' = ok /\ host' = [host EXCEPT !.delay = LongestValid(ok)]
      BY <2>1
    <3>2. host'.delay = LongestValid(ok)
      BY <1>1, <3>1 DEF HostType
    <3> QED
      BY <3>1, <3>2 DEF TunedInv
  <2>2. CASE UNCHANGED <<host, windows>>
    BY <1>3, <2>2
  <2> QED
    BY <1>5, <2>1, <2>2 DEF TuneMmc
<1>6. CASE TuneSd
  <2>1. windows' = windows
    BY <1>6 DEF TuneSd
  <2>2. host' = [host EXCEPT !.sampling = TRUE] \/ host' = [host EXCEPT !.sampling = FALSE] \/ host' = host
    BY <1>6, Zenon DEF TuneSd
  <2> QED
    BY <1>1, <1>2, <2>1, <2>2 DEF HostType
<1>7. CASE Cmd11
  <2>1. windows' = windows /\ (host' = host \/ host' = [host EXCEPT !.power = FALSE])
    BY <1>7 DEF Cmd11, PowerOff
  <2> QED
    BY <1>1, <1>2, <2>1 DEF HostType
<1>8. CASE Voltage
  <2>1. windows' = windows
    BY <1>8 DEF Voltage
  <2>2. \/ host' = [host EXCEPT !.v18 = TRUE]
        \/ \E v18 \in BOOLEAN : host' = [host EXCEPT !.v18 = v18, !.power = FALSE]
    BY <1>8, Zenon DEF Voltage
  <2>3. host'.delay = host.delay
    BY <1>1, <2>2 DEF HostType
  <2> QED
    BY <1>2, <2>1, <2>3
<1>9. CASE Return
  <2>1. UNCHANGED <<host, windows>> \/ windows' = {}
    BY <1>9 DEF Return
  <2> QED
    BY <1>3, <2>1 DEF TunedInv
<1>10. CASE Call \/ Detach \/ Switch \/ ReadExtCsd \/ Supports \/ Check \/ SwitchFn \/ Record \/ Refuse \/ SetClock
            \/ Identify \/ UNCHANGED vars
  <2>1. UNCHANGED <<host, windows>>
    BY <1>10 DEF Call, Detach, Switch, ReadExtCsd, Supports, Check, SwitchFn, Record, Refuse, SetClock, Identify, vars
  <2> QED
    BY <1>3, <2>1
<1> QED
  BY <1>4, <1>5, <1>6, <1>7, <1>8, <1>9, <1>10 DEF Next

\* For every length of the chain and every set of delays that may pass: the delay that the
\* tuning of an MMC leaves in the host lies in the middle of a longest run of those that
\* passed (CalcLongestValidDelayChainVal, ExecuteTuningMmc).
THEOREM TunedIsBest == Spec => []TunedBest
<1>1. Init => TunedInv
  BY DEF Init, TunedInv
<1>2. TypeInv /\ TunedInv /\ [Next]_vars => TunedInv'
  BY TunedKept
<1>3. TypeInv /\ TunedInv => TunedBest
  <2> SUFFICES ASSUME windows \subseteq Chain, windows # {}, host.delay = LongestValid(windows)
               PROVE  \E r \in Longest(windows) : host.delay - r[1] \in {r[2] - host.delay, r[2] - host.delay + 1}
    BY DEF TypeInv, TunedInv, TunedBest
  <2> QED
    BY LongestIsMiddle
<1> QED
  BY <1>1, <1>2, <1>3, ModeTypes, PTL DEF Spec

---------------------------------------------------------------------------------------
(***************************************************************************)
(* The clock.                                                              *)
(***************************************************************************)

\* The clock is as asked once it is supplied.
Right ==
    clk.asked > 0 =>
        /\ RealClock <= clk.asked \/ TooSlow(clk.asked) \/ NeedsOdd(clk.asked)
        /\ env.clock = "8" => clk.told = RealClock

\* The clock is on only when it is right, and before a switch to 1.8 V turns it on it has been set.
SetBefore(t) == \A i \in 1 .. Len(t) : t[i].does = "v18" => \E j \in 1 .. i - 1 : t[j].does = "clock"
ClockInv ==
    /\ clk.on => Right
    /\ Right \/ SetBefore(todo)
    /\ env.clock = "8" => clk.prog = FALSE

LEMMA QuotientLeast ==
    ASSUME NEW a \in Nat, NEW b \in Nat, b > 0, NEW f \in Nat, a <= f * b
    PROVE  a \div b <= f
  OBVIOUS

LEMMA QuotientFalls ==
    ASSUME NEW a \in Nat, NEW b \in Nat, b > 0
    PROVE  a \div (b + 1) <= a \div b
  OBVIOUS

\* The clock that a divider makes is not faster than asked.
LEMMA SlowEnough ==
    ASSUME NEW f \in Nat, NEW i \in Nat, i > 0, IsMaxDivider(f, Base, i)
    PROVE  Base \div i <= f
<1>1. Base \in Nat
  BY ModeAssumption
<1>2. Base \div i \in Nat
  BY <1>1, QuotientTyped
<1> QED
  BY <1>2 DEF IsMaxDivider

LEMMA TopSlowEnough ==
    ASSUME NEW f \in Nat, NEW top \in {Top8, Top10}
    PROVE  Base \div top <= f \/ Base > f * top
<1>1. Base \in Nat /\ top \in Nat /\ top > 0
  BY ModeAssumption
<1>2. ASSUME Base <= f * top PROVE Base \div top <= f
  BY <1>1, <1>2, QuotientLeast
<1>3. f * top \in Nat
  BY <1>1
<1> QED
  BY <1>1, <1>2, <1>3

\* A divider that is slow enough, times the frequency, reaches the base clock.
LEMMA ReachesBase ==
    ASSUME NEW f \in Nat, NEW i \in Nat, i > 0, IsMaxDivider(f, Base, i)
    PROVE  Base <= f * i
<1>1. Base \in Nat
  BY ModeAssumption
<1> DEFINE q == Base \div i
           r == Base % i
<1>2. q \in Nat /\ r \in Nat /\ r < i /\ Base = i * q + r
  BY <1>1
<1>3. q < f \/ (q = f /\ r = 0)
  BY DEF IsMaxDivider
<1> HIDE DEF q, r
<1>4. CASE q < f
  <2>1. PICK d \in Nat : f = (q + 1) + d
    <3>1. f - (q + 1) \in Nat /\ f = (q + 1) + (f - (q + 1))
      BY <1>2, <1>4
    <3> QED
      BY <3>1
  <2>2. i * f = i * q + i + i * d /\ i * d \in Nat /\ i * q \in Nat
    BY <1>2, <2>1
  <2>3. i * f \in Nat /\ i * f = f * i
    BY <1>2
  <2> QED
    BY <1>1, <1>2, <2>2, <2>3
<1>5. CASE q = f /\ r = 0
  <2>1. i * f \in Nat /\ i * f = f * i
    BY <1>2
  <2> QED
    BY <1>1, <1>2, <1>5, <2>1
<1> QED
  BY <1>3, <1>4, <1>5

LEMMA HalvedField ==
    ASSUME NEW i \in Nat, i > 0, i = 1 \/ i % 2 = 0
    PROVE  (IF i \div 2 = 0 THEN 1 ELSE 2 * (i \div 2)) = i
  OBVIOUS

\* A clock that is set is right.
LEMMA SetIsRight ==
    ASSUME TypeInv, ClockInv, NEW f \in env.asked \cup {Slow, Fast}, NEW p \in BOOLEAN,
           p = IF env.clock = "8" THEN clk.prog ELSE slot.prog,
           clk' = [[clk EXCEPT !.field = ClockFor(f).field, !.prog = p, !.on = FALSE]
                     EXCEPT !.on = TRUE, !.asked = f, !.told = ClockFor(f).told],
           env' = env
    PROVE  Right'
<1>1. f \in Nat /\ Base \in Nat /\ Multiplier \in Nat /\ Top8 % 2 = 0 /\ Top10 % 2 = 0 /\ env.clock \in {"8", "10"}
      /\ TopProg \in Nat /\ TopProg > 1 /\ {Top8, Top10} \subseteq Nat \ {0}
  BY ModeAssumption DEF TypeInv
<1>2. clk'.asked = f /\ clk'.told = ClockFor(f).told /\ clk'.field = ClockFor(f).field /\ clk'.prog = p
  <2>1. clk \in ClkType
    BY DEF TypeInv
  <2> QED
    BY <2>1 DEF ClkType
<1>3. p = Programmable
  <2>1. clk.prog \in BOOLEAN /\ slot.prog \in BOOLEAN
    BY DEF TypeInv, ClkType, SlotType
  <2>2. CASE env.clock = "8"
    <3>1. p = FALSE
      BY <2>2 DEF ClockInv
    <3> QED
      BY <2>2, <3>1 DEF Programmable
  <2>3. CASE env.clock = "10"
    <3>1. p = slot.prog
      BY <2>3
    <3> QED
      BY <2>1, <2>3, <3>1 DEF Programmable
  <2> QED
    BY <1>1, <2>2, <2>3
<1>4. CASE Programmable
  <2> DEFINE i == DividerProg(f)
             m == Base * Multiplier
  <2>1. m \in Nat /\ i \in 1 .. TopProg
    BY <1>1, DividersTyped
  <2>2. ClockFor(f).field = (IF i > 1 THEN i % TopProg ELSE 0) /\ ClockFor(f).told = clk'.told
    BY <1>2, <1>4 DEF ClockFor
  <2>3. RealClock' = m \div (clk'.field + 1)
    BY <1>2, <1>3, <1>4 DEF RealClock
  <2>4. env'.clock = "10"
    BY <1>4 DEF Programmable
  <2>5. \/ i \in 1 .. TopProg - 1 /\ m \div i <= f
        \/ i = TopProg /\ \A j \in 1 .. TopProg - 1 : ~(m \div j <= f)
    BY DividerProgFound
  <2> HIDE DEF i, m
  <2>6. CASE i \in 1 .. TopProg - 1 /\ m \div i <= f
    <3>1. i \in Nat /\ i > 0 /\ i < TopProg /\ m \div i \in Nat
      BY <1>1, <2>1, <2>6, QuotientTyped
    <3>2. clk'.field = i \/ (clk'.field = 0 /\ i = 1)
      BY <1>1, <1>2, <2>2, <3>1
    <3>3. CASE clk'.field = i
      <4>1. m \div (i + 1) <= m \div i /\ m \div (i + 1) \in Nat
        BY <2>1, <3>1, QuotientFalls, QuotientTyped
      <4>2. RealClock' <= f
        BY <1>1, <2>3, <2>6, <3>1, <3>3, <4>1
      <4> QED
        BY <1>2, <2>4, <4>2 DEF Right
    <3>4. CASE clk'.field = 0 /\ i = 1
      <4>1. RealClock' <= f
        BY <2>3, <2>6, <3>4
      <4> QED
        BY <1>2, <2>4, <4>1 DEF Right
    <3> QED
      BY <3>2, <3>3, <3>4
  <2>7. CASE \A j \in 1 .. TopProg - 1 : ~(m \div j <= f)
    <3>1. TopProg - 1 \in 1 .. TopProg - 1 /\ TopProg - 1 \in Nat /\ TopProg - 1 > 0
      BY <1>1
    <3>2. ~(m \div (TopProg - 1) <= f) /\ m \div (TopProg - 1) \in Nat
      BY <2>1, <2>7, <3>1, QuotientTyped
    <3>3. m \div (TopProg - 1) > f
      BY <1>1, <3>2
    <3>4. TooSlow(f)'
      BY <1>2, <1>3, <1>4, <3>3 DEF TooSlow, m
    <3> QED
      BY <1>2, <2>4, <3>4 DEF Right, TooSlow
  <2> QED
    BY <2>5, <2>6, <2>7
<1>5. CASE ~Programmable
  <2> DEFINE i == IF env.clock = "8" THEN Divider8(f) ELSE Divider10(f)
             top == IF env.clock = "8" THEN Top8 ELSE Top10
             d == IF clk'.field = 0 THEN 1 ELSE 2 * clk'.field
  <2>1. i \in Nat /\ i > 0 /\ Base \in Nat
    BY <1>1, DividersTyped, ModeAssumption
  <2>2. clk'.field = i \div 2 /\ clk'.told = Base \div i
    BY <1>2, <1>5 DEF ClockFor
  <2>3. RealClock' = Base \div d
    BY <1>2, <1>3, <1>5 DEF RealClock
  <2>4. IsMaxDivider(f, Base, i) \/ i = top
    BY Divider8Found, Divider10Found
  <2>5. top \in {Top8, Top10} /\ top % 2 = 0 /\ top \in Nat /\ top > 0
    BY <1>1
  <2>6. TooSlow(f)' <=> Base > f * top
    BY <1>2, <1>3, <1>5 DEF TooSlow
  <2>7. env.clock = "8" => i = 1 \/ i % 2 = 0
    <3>1. ASSUME env.clock = "8" PROVE i \in PowersOfTwo(Top8) \/ i = Top8
      BY <3>1, Divider8Found
    <3>2. \A j \in {1, 2, 4, 8, 16, 32, 64, 128, 256, 512, 1024} : j = 1 \/ j % 2 = 0
      OBVIOUS
    <3> QED
      BY <1>1, <3>1, <3>2 DEF PowersOfTwo
  <2>8. NeedsOdd(f)' <=> env.clock = "10" /\ Base \in f * (2 * clk'.field) + 1 .. f * (2 * clk'.field + 1)
    BY <1>2, <1>3, <1>5 DEF NeedsOdd
  <2> HIDE DEF i, top
  <2>9. CASE i = 1 \/ i % 2 = 0
    <3>1. d = i
      BY <2>1, <2>2, <2>9, HalvedField
    <3>2. Base \div i <= f \/ Base > f * top
      BY <1>1, <2>1, <2>4, <2>5, SlowEnough, TopSlowEnough
    <3> QED
      BY <1>2, <2>2, <2>3, <2>6, <3>1, <3>2 DEF Right
  <2>10. CASE ~(i = 1 \/ i % 2 = 0)
    <3>1. clk'.field \in Nat /\ clk'.field > 0 /\ i = 2 * clk'.field + 1
      BY <2>1, <2>2, <2>10
    <3>2. IsMaxDivider(f, Base, i) /\ env.clock = "10"
      BY <1>1, <2>4, <2>5, <2>7, <2>10
    <3> DEFINE k == clk'.field
    <3>3. Base <= f * (2 * k + 1)
      BY <1>1, <2>1, <3>1, <3>2, ReachesBase
    <3>4. d = 2 * k /\ d \in Nat /\ d > 0
      BY <3>1
    <3> HIDE DEF k, d
    <3>5. f * (2 * k) \in Nat /\ f * (2 * k + 1) \in Nat
      BY <1>1, <3>1 DEF k
    <3>6. CASE Base <= f * (2 * k)
      <4>1. RealClock' <= f
        BY <1>1, <2>1, <2>3, <3>4, <3>6, QuotientLeast
      <4> QED
        BY <1>1, <1>2, <3>2, <4>1 DEF Right
    <3>7. CASE Base > f * (2 * k)
      <4>1. Base \in f * (2 * k) + 1 .. f * (2 * k + 1)
        BY <2>1, <3>3, <3>5, <3>7
      <4>2. NeedsOdd(f)'
        BY <2>8, <3>2, <4>1 DEF k
      <4> QED
        BY <1>1, <1>2, <3>2, <4>2 DEF Right
    <3> QED
      BY <2>1, <3>5, <3>6, <3>7
  <2> QED
    BY <2>9, <2>10
<1> QED
  BY <1>4, <1>5

\* Only an attach turns the clock on by itself, and it sets it first.
LEMMA StepsSetBefore ==
    ASSUME TypeInv, NEW o \in Ops, o.name # "detach"
    PROVE  SetBefore(Steps(o))
<1>1. CASE o.name = "attach"
  <2> DEFINE first == <<Step("hostWidth", 1), Step("power", TRUE), Step("clock", Slow), Step("identify", 0)>>
             v == IF env.s18 THEN <<Step("cmd11", 0), Step("v18", 0)>> ELSE <<>>
             w == IF env.s18 \/ slot.uhsi THEN <<Step("acmd6", 4), Step("hostWidth", 4), Step("recordWidth", 4)>> ELSE <<>>
             last == <<Step("attached", 0)>>
  <2>1. Steps(o) = first \o v \o w \o last
    BY <1>1, Zenon DEF Steps, Attach
  <2>2. /\ Len(first) = 4 /\ first[1].does = "hostWidth" /\ first[2].does = "power" /\ first[3].does = "clock"
        /\ first[4].does = "identify"
    BY DEF Step
  <2>3. PICK S : first \in Seq(S) /\ v \in Seq(S) /\ w \in Seq(S) /\ last \in Seq(S)
    <3> DEFINE S == {Step("hostWidth", 1), Step("power", TRUE), Step("clock", Slow), Step("identify", 0), Step("cmd11", 0),
                     Step("v18", 0), Step("acmd6", 4), Step("hostWidth", 4), Step("recordWidth", 4), Step("attached", 0)}
    <3>1. /\ Step("hostWidth", 1) \in S /\ Step("power", TRUE) \in S /\ Step("clock", Slow) \in S
          /\ Step("identify", 0) \in S /\ Step("cmd11", 0) \in S /\ Step("v18", 0) \in S
          /\ Step("acmd6", 4) \in S /\ Step("hostWidth", 4) \in S /\ Step("recordWidth", 4) \in S /\ Step("attached", 0) \in S
      BY Zenon
    <3> HIDE DEF S
    <3>2. /\ \A a \in S : <<a>> \in Seq(S)
          /\ \A a, b \in S : <<a, b>> \in Seq(S)
          /\ \A a, b, c \in S : <<a, b, c>> \in Seq(S)
          /\ \A a, b, c, d \in S : <<a, b, c, d>> \in Seq(S)
      OBVIOUS
    <3>3. <<>> \in Seq(S)
      OBVIOUS
    <3>4. first \in Seq(S) /\ v \in Seq(S) /\ w \in Seq(S) /\ last \in Seq(S)
      BY <3>1, <3>2, <3>3, Zenon
    <3> QED
      BY <3>4
  <2> HIDE DEF first, v, w, last
  <2> DEFINE a == first \o v
             b == a \o w
             t == b \o last
  <2>4. a \in Seq(S) /\ Len(a) >= 4 /\ \A i \in 1 .. 4 : a[i] = first[i]
    <3> HIDE DEF a, b, t
    <3>1. /\ first \o v \in Seq(S) /\ Len(first \o v) = Len(first) + Len(v) /\ Len(first) \in Nat /\ Len(v) \in Nat
          /\ \A i \in 1 .. Len(first) : (first \o v)[i] = first[i]
      BY <2>3, Parts, Zenon
    <3>2. a = first \o v
      BY DEF a
    <3> QED
      BY <2>2, <2>3, <3>1, <3>2
  <2> HIDE DEF a
  <2>5. b \in Seq(S) /\ Len(b) >= 4 /\ \A i \in 1 .. 4 : b[i] = first[i]
    <3> HIDE DEF a, b, t
    <3>1. /\ a \o w \in Seq(S) /\ Len(a \o w) = Len(a) + Len(w) /\ Len(a) \in Nat /\ Len(w) \in Nat
          /\ \A i \in 1 .. Len(a) : (a \o w)[i] = a[i]
      BY <2>3, <2>4, Parts, Zenon
    <3>2. b = a \o w
      BY DEF b
    <3> QED
      BY <2>3, <2>4, <3>1, <3>2
  <2> HIDE DEF b
  <2>6. t \in Seq(S) /\ Len(t) >= 4 /\ \A i \in 1 .. 4 : t[i] = first[i]
    <3> HIDE DEF a, b, t
    <3>1. /\ b \o last \in Seq(S) /\ Len(b \o last) = Len(b) + Len(last) /\ Len(b) \in Nat /\ Len(last) \in Nat
          /\ \A i \in 1 .. Len(b) : (b \o last)[i] = b[i]
      BY <2>3, <2>5, Parts, Zenon
    <3>2. t = b \o last
      BY DEF t
    <3> QED
      BY <2>3, <2>5, <3>1, <3>2
  <2>7. Steps(o) = t
    BY <2>1 DEF a, b
  <2> HIDE DEF t
  <2>8. t[1].does = "hostWidth" /\ t[2].does = "power" /\ t[3].does = "clock" /\ t[4].does = "identify"
    BY <2>2, <2>6
  <2>9. ASSUME NEW i \in 1 .. Len(t), t[i].does = "v18" PROVE \E j \in 1 .. i - 1 : t[j].does = "clock"
    <3>1. i \in Nat /\ i > 0
      BY <2>6
    <3>2. i # 1 /\ i # 2 /\ i # 3
      BY <2>8, <2>9
    <3>3. 3 \in 1 .. i - 1
      BY <3>1, <3>2
    <3> QED
      BY <2>8, <3>3
  <2>10. SetBefore(t)
    BY <2>9 DEF SetBefore
  <2> QED
    BY <2>7, <2>10
<1>2. CASE o.name # "attach"
  <2>1. Steps(o) \in Seq(Alphabet(o))
    BY StepsTyped
  <2>2. \A s \in Alphabet(o) : s.does # "v18"
    <3>1. o.name \in {"high", "mode", "width", "strength", "clock", "generator", "tune"}
      BY <1>2 DEF Ops
    <3>2. \A s \in ModeSteps \cup HighSteps \cup WidthSteps(o.arg) \cup StrengthSteps \cup OtherSteps \cup {Refusal} : s.does # "v18"
      BY DEF ModeSteps, HighSteps, WidthSteps, StrengthSteps, OtherSteps, Some, Refusal, Step
    <3>3. Alphabet(o) \subseteq ModeSteps \cup HighSteps \cup WidthSteps(o.arg) \cup StrengthSteps \cup OtherSteps \cup {Refusal}
      BY <3>1 DEF Alphabet
    <3> QED
      BY <3>2, <3>3
  <2> HIDE DEF Alphabet, Steps
  <2>3. \A i \in 1 .. Len(Steps(o)) : Steps(o)[i] \in Alphabet(o)
    BY <2>1
  <2> QED
    BY <2>2, <2>3 DEF SetBefore
<1> QED
  BY <1>1, <1>2

LEMMA TailSetBefore ==
    ASSUME TypeInv, status = "run", todo # <<>>, Head(todo).does # "clock", SetBefore(todo)
    PROVE  SetBefore(Tail(todo))
<1>1. /\ Head(todo) = todo[1] /\ Len(todo) \in Nat \ {0}
      /\ Len(Tail(todo)) = Len(todo) - 1 /\ \A i \in 1 .. Len(Tail(todo)) : Tail(todo)[i] = todo[i + 1]
  BY HeadKnown
<1> DEFINE t == Tail(todo)
<1> HIDE DEF t
<1>2. /\ todo[1].does # "clock" /\ Len(todo) \in Nat \ {0}
      /\ Len(t) = Len(todo) - 1 /\ \A i \in 1 .. Len(t) : t[i] = todo[i + 1]
  BY <1>1 DEF t
<1>3. ASSUME NEW i \in 1 .. Len(t), t[i].does = "v18" PROVE \E j \in 1 .. i - 1 : t[j].does = "clock"
  <2>1. i + 1 \in 1 .. Len(todo) /\ todo[i + 1].does = "v18"
    BY <1>2, <1>3
  <2>2. PICK k \in 1 .. (i + 1) - 1 : todo[k].does = "clock"
    BY <2>1 DEF SetBefore
  <2>3. k # 1 /\ k \in Nat /\ k <= i
    BY <1>2, <2>2
  <2>4. k - 1 \in 1 .. i - 1 /\ k - 1 \in 1 .. Len(t) /\ (k - 1) + 1 = k
    BY <1>2, <2>2, <2>3
  <2>5. t[k - 1] = todo[k]
    BY <1>2, <2>4
  <2> QED
    BY <2>2, <2>4, <2>5
<1>4. SetBefore(t)
  BY <1>3 DEF SetBefore
<1> QED
  BY <1>4 DEF t

LEMMA RightKept ==
    ASSUME env' = env, clk'.field = clk.field, clk'.prog = clk.prog, clk'.asked = clk.asked, clk'.told = clk.told
    PROVE  Right' = Right
  BY DEF Right, RealClock, TooSlow, NeedsOdd

LEMMA ClockKept ==
    ASSUME TypeInv, ClockInv, [Next]_vars
    PROVE  ClockInv'
<1>1. clk \in ClkType /\ SetBefore(<<>>)
  BY DEF TypeInv, SetBefore
<1>2. ASSUME Takes, clk' = clk, ~SetClock PROVE ClockInv'
  <2>1. status = "run" /\ todo # <<>> /\ env' = env /\ (todo' = Tail(todo) \/ todo' = <<>>)
    BY <1>2, TakesAStep DEF Proceed, Fail, FailIf
  <2>2. Head(todo).does # "clock"
    BY <1>2 DEF Takes, Switch, ReadExtCsd, Supports, Check, SwitchFn, WriteHost, Record, Refuse, TuneMmc, TuneSd, Identify,
                Cmd11, Voltage, At
  <2>3. Right' = Right
    BY <1>2, <2>1, RightKept
  <2>4. Right \/ SetBefore(todo')
    BY <1>1, <2>1, <2>2, TailSetBefore DEF ClockInv
  <2> QED
    BY <1>2, <2>1, <2>3, <2>4 DEF ClockInv, SetBefore
<1>3. CASE SetClock
  <2>1. Head(todo).does = "clock" /\ status = "run" /\ todo # <<>> /\ env' = env
    BY <1>3 DEF SetClock, At
  <2>2. Arg \in env.asked \cup {Slow, Fast}
    BY <2>1, HeadKnown DEF Expects, Arg
  <2>3. clk.prog \in BOOLEAN /\ slot.prog \in BOOLEAN
    BY DEF TypeInv, ClkType, SlotType
  <2> DEFINE p == IF env.clock = "8" THEN clk.prog ELSE slot.prog
             written == [clk EXCEPT !.field = ClockFor(Arg).field, !.prog = p, !.on = FALSE]
  <2>4. p \in BOOLEAN /\ (env.clock = "8" => p = FALSE)
    BY <2>3 DEF ClockInv
  <2>5. CASE /\ clk' = [written EXCEPT !.on = TRUE, !.asked = Arg, !.told = ClockFor(Arg).told]
             /\ Proceed \/ ("stuck" \in env.faults /\ Fail)
    <3>1. Right'
      BY <2>1, <2>2, <2>4, <2>5, SetIsRight
    <3>2. clk'.prog = p
      BY <1>1, <2>5 DEF ClkType
    <3> QED
      BY <2>1, <2>4, <3>1, <3>2 DEF ClockInv
  <2>6. CASE clk' = written /\ Fail
    <3>1. todo' = <<>>
      BY <2>6 DEF Fail, FailIf
    <3>2. clk'.on = FALSE /\ clk'.prog = p
      BY <1>1, <2>6 DEF ClkType
    <3>3. SetBefore(todo)'
      BY <3>1 DEF SetBefore
    <3> QED
      BY <2>1, <2>4, <3>2, <3>3 DEF ClockInv
  <2> QED
    BY <1>3, <2>5, <2>6, Zenon DEF SetClock
<1>4. CASE Cmd11 /\ clk' # clk
  <2>1. clk' = [clk EXCEPT !.on = FALSE] /\ Proceed /\ Head(todo).does = "cmd11" /\ status = "run" /\ todo # <<>> /\ env' = env
    BY <1>4 DEF Cmd11, At
  <2>2. clk'.on = FALSE /\ Right' = Right /\ clk'.prog = clk.prog
    BY <1>1, <2>1, RightKept DEF ClkType
  <2>3. todo' = Tail(todo) /\ (Right \/ SetBefore(todo'))
    BY <2>1, TailSetBefore DEF ClockInv, Proceed
  <2> QED
    BY <2>1, <2>2, <2>3 DEF ClockInv, SetBefore
<1>5. CASE Voltage
  <2>1. Head(todo).does = "v18" /\ status = "run" /\ todo # <<>> /\ env' = env
    BY <1>5 DEF Voltage, At
  <2>2. Right
    <3>1. Head(todo) = todo[1] /\ Len(todo) \in Nat \ {0}
      BY <2>1, HeadKnown
    <3>2. ~SetBefore(todo)
      BY <2>1, <3>1 DEF SetBefore
    <3> QED
      BY <3>2 DEF ClockInv
  <2>3. PICK on \in BOOLEAN : clk' = [clk EXCEPT !.on = on]
    BY <1>5, Zenon DEF Voltage
  <2>4. Right' = Right /\ clk'.prog = clk.prog
    BY <1>1, <2>1, <2>3, RightKept DEF ClkType
  <2> QED
    BY <2>1, <2>2, <2>4 DEF ClockInv
<1>6. CASE Call
  <2>1. PICK o \in Ops : o.name # "detach" /\ todo' = Steps(o)
    BY <1>6 DEF Call
  <2>2. SetBefore(Steps(o))
    BY <2>1, StepsSetBefore
  <2>3. SetBefore(todo)'
    BY <2>1, <2>2 DEF SetBefore
  <2>4. env' = env /\ clk' = clk
    BY <1>6 DEF Call
  <2>5. Right' = Right
    BY <2>4, RightKept
  <2> QED
    BY <2>3, <2>4, <2>5 DEF ClockInv
<1>7. CASE Detach \/ Return \/ UNCHANGED vars
  <2>1. UNCHANGED <<env, clk, todo>>
    BY <1>7 DEF Detach, Return, vars
  <2>2. Right' = Right
    BY <2>1, RightKept
  <2> QED
    BY <2>1, <2>2 DEF ClockInv, SetBefore
<1>8. CASE Switch \/ ReadExtCsd \/ Supports \/ Check \/ SwitchFn \/ WriteHost \/ Record \/ Refuse \/ TuneMmc \/ TuneSd \/ Identify
  <2>1. clk' = clk /\ Takes /\ ~SetClock
    <3>1. clk' = clk
      BY <1>8 DEF Switch, ReadExtCsd, Supports, Check, SwitchFn, WriteHost, Record, Refuse, TuneMmc, TuneSd, Identify
    <3>2. Head(todo).does # "clock"
      BY <1>8 DEF Switch, ReadExtCsd, Supports, Check, SwitchFn, WriteHost, Record, Refuse, TuneMmc, TuneSd, Identify, At
    <3> QED
      BY <1>8, <3>1, <3>2 DEF Takes, SetClock, At
  <2> QED
    BY <1>2, <2>1
<1>9. CASE Cmd11 /\ clk' = clk
  <2>1. ~SetClock /\ Takes
    BY <1>9 DEF Takes, Cmd11, SetClock, At
  <2> QED
    BY <1>2, <1>9, <2>1
<1> QED
  BY <1>3, <1>4, <1>5, <1>6, <1>7, <1>8, <1>9 DEF Next

\* In every state the clock that the host supplies is not faster than the last one that was
\* asked for, unless the last divider of the kind in use is too fast for it or a ten bit
\* divider would have to be odd, and with an eight bit divider the caller was told the real
\* one (CalcSrs11RegAndSetFreqKhz), whatever was asked.
THEOREM ClockIsAsked == Spec => []ClockAsAsked
<1>1. Init => ClockInv
  <2> SUFFICES ASSUME Init PROVE ClockInv
    OBVIOUS
  <2>1. clk.asked = 0 /\ clk.prog = FALSE /\ clk.on = FALSE
    BY DEF Init
  <2> QED
    BY <2>1 DEF ClockInv, Right
<1>2. TypeInv /\ ClockInv /\ [Next]_vars => ClockInv'
  BY ClockKept
<1>3. ClockInv => ClockAsAsked
  BY DEF ClockInv, Right, ClockAsAsked
<1> QED
  BY <1>1, <1>2, <1>3, ModeTypes, PTL DEF Spec

---------------------------------------------------------------------------------------
(***************************************************************************)
(* What a function comes to.                                               *)
(***************************************************************************)

\* The steps that decide what a function leaves behind, the last of their kind in its list.
SdFinals(mode, write) == {Step("switch", mode), write, Step("record", mode)}
HighFinals(on) ==
    IF env.type = "sd" THEN SdFinals(IF on THEN "SDR25" ELSE "SDR12", Step("hostHs", on))
    ELSE {Step("timing", "high"), Step("hostEmmc", "HS_SDR"), Step("record", "HS_SDR")}
ModeFinals(mode) ==
    IF env.type = "sd" THEN SdFinals(mode, IF host.v18 THEN Step("hostUhs", mode) ELSE Step("hostHs", mode # "SDR12"))
    ELSE {Step("timing", TimingFor(mode)), Step("busWidth", BusWidthFor(mode, slot.width)), Step("hostEmmc", mode),
          Step("record", mode)}
WidthFinals(width) == {DeviceWidth(width), Step("hostWidth", width), Step("recordWidth", width)}
StrengthFinals(s) == {Step("switch", s), Step("hostStrength", s)}
AttachFinals ==
    {Step("power", TRUE), Step("identify", 0)}
    \cup IF env.s18 THEN {Step("cmd11", 0), Step("v18", 0), Step("acmd6", 4), Step("hostWidth", 4), Step("recordWidth", 4)}
         ELSE {Step("hostWidth", 1)}
Finals(o) ==
    CASE o.name = "high" -> HighFinals(o.arg)
      [] o.name = "mode" -> ModeFinals(o.arg)
      [] o.name = "width" -> WidthFinals(o.arg)
      [] o.name = "strength" -> StrengthFinals(o.arg)
      [] o.name = "attach" -> AttachFinals
      [] OTHER -> {}

\* What such a step leaves behind, and which steps may undo it.
Left(s) ==
    CASE s.does = "timing" -> card.timing = s.arg
      [] s.does = "switch" -> IF op.name = "strength" THEN card.strength = s.arg ELSE card.timing = s.arg
      [] s.does = "busWidth" -> card.width = s.arg.width /\ card.ddr = s.arg.ddr /\ card.strobe = s.arg.strobe
      [] s.does = "acmd6" -> card.width = s.arg
      [] s.does = "hostEmmc" -> host.emmc = s.arg
      [] s.does = "hostHs" -> host.hs = s.arg
      [] s.does = "hostUhs" -> host.uhs = s.arg /\ host.hs = (s.arg # "SDR12")
      [] s.does = "hostWidth" -> host.width = s.arg
      [] s.does = "hostStrength" -> host.strength = s.arg
      [] s.does = "record" -> slot.mode = s.arg
      [] s.does = "recordWidth" -> slot.width = s.arg
      [] s.does = "power" -> /\ card.timing = Fresh.timing /\ card.ddr = FALSE /\ card.strobe = FALSE /\ card.strength = "B"
                             /\ env.s18 = FALSE => card.width = 1 /\ card.v18 = FALSE
      [] s.does = "identify" -> /\ env.type = "mmc" => slot.mode = "MMC_LEGACY"
                                /\ env.s18 = FALSE => slot.width = 1
      [] s.does = "cmd11" -> card.v18 = TRUE
      [] s.does = "v18" -> host.v18 = TRUE
      [] OTHER -> TRUE
Undoes(kind) ==
    CASE kind \in {"timing", "switch"} -> {"timing", "switch", "power"}
      [] kind \in {"busWidth", "acmd6"} -> {"busWidth", "acmd6", "power"}
      [] kind \in {"hostHs", "hostUhs"} -> {"hostHs", "hostUhs"}
      [] kind = "record" -> {"record", "identify"}
      [] kind = "identify" -> {"record", "identify"} \cup IF env.s18 THEN {} ELSE {"recordWidth"}
      [] kind = "recordWidth" -> {"recordWidth", "identify"}
      [] kind = "power" -> {"timing", "switch", "busWidth", "power"} \cup IF env.s18 THEN {} ELSE {"acmd6", "cmd11"}
      [] kind = "cmd11" -> {"cmd11", "power"}
      [] OTHER -> {kind}

\* A step is still to come, the last to touch what it does; or it was taken, and is in effect
\* unless an error was lost.
None(t, kinds) == \A i \in 1 .. Len(t) : t[i].does \notin kinds
ToCome(t, s) == \E k \in 1 .. Len(t) : t[k] = s /\ \A i \in k + 1 .. Len(t) : t[i].does \notin Undoes(s.does)
Done(t, s) ==
    /\ None(t, Undoes(s.does))
    /\ op.name # "attach" => touched # "no"
    /\ touched # "forgot" => Left(s)
Nothing == touched = "no" /\ IF todo = <<>> THEN op.name = "width" ELSE Head(todo) = Refusal
FinalInv == status = "run" /\ ~Nothing => \A s \in Finals(op) : ToCome(todo, s) \/ Done(todo, s)

\* How the list of a function looks from any step on: an attach ends with the mark and at
\* 3.3 V leaves out the voltage, a width is set in three steps, a function is switched once.
AttachShape(t) ==
    /\ \A i \in 1 .. Len(t) : t[i].does = "attached" <=> i = Len(t)
    /\ env.s18 = FALSE => None(t, {"cmd11", "v18", "acmd6", "recordWidth"})
WidthShape(t, width) ==
    \A i \in 1 .. Len(t) : /\ t[i].does = "hostWidth" => Len(t) = i + 1 /\ t[i + 1] = Step("recordWidth", width)
                           /\ t[i].does = "recordWidth" => Len(t) = i /\ (i > 1 => t[i - 1].does = "hostWidth")
OnceShape(t) == \A i, j \in 1 .. Len(t) : t[i].does = "switch" /\ t[j].does = "switch" => i = j
Shape(o, t) ==
    /\ o.name = "attach" => AttachShape(t)
    /\ o.name = "width" => WidthShape(t, o.arg)
    /\ OnceShape(t)

\* Until a function has sent the card a switch it writes nothing.
Writes == {"hostEmmc", "hostHs", "hostUhs", "hostWidth", "hostStrength", "record", "recordWidth"}
Switches == {"timing", "switch", "busWidth", "acmd6"}
Led(t) == \E k \in 1 .. Len(t) : t[k].does \in Switches \cup {"refuse"} /\ \A i \in 1 .. k : t[i].does \notin Writes
ListInv ==
    status = "run" =>
        /\ Shape(op, todo)
        /\ op.name \in FourKinds /\ touched = "no" /\ todo # <<>> => Led(todo)
        /\ touched # "no" => None(todo, {"switch"})
        /\ op.name = "attach" => (slot.attached <=> todo = <<>>) /\ touched # "forgot"
        /\ op.name # "attach" => slot.attached
        /\ op.name = "width" /\ ~Nothing => ~RefusesWidth(op.arg)
        /\ op.name = "high" => IF env.type = "sd" THEN host.v18 = FALSE ELSE op.arg = TRUE /\ card.ddr = FALSE

\* What holds between the functions, but for what is in doubt, holds within them as well, but
\* for what the function has begun to change.
AgreeBut(D) ==
    /\ card.v18 = host.v18
    /\ "mode" \notin D => AgreeOnMode
    /\ "width" \notin D => AgreeOnWidth
    /\ "strength" \notin D => card.strength = host.strength
Suspect == IF status = "run" /\ op.name \in FourKinds /\ touched # "no" THEN {Subject} ELSE {}
NowInv == slot.attached => AgreeBut(doubt \cup Suspect)

\* Where the two sides never part.
SideInv ==
    /\ card.strobe => card.ddr
    /\ env.s18 = FALSE => host.v18 = FALSE /\ slot.uhsi = FALSE
    /\ env.type = "mmc" => card.strength = "B" /\ host.strength = "B"
    /\ slot.attached =>
          host.width = IF status = "run" /\ op.name = "width" /\ todo # <<>> /\ todo[1].does = "recordWidth"
                         THEN op.arg ELSE slot.width
    /\ ~slot.attached \/ "detach" \in env.ops =>
          /\ host.hs = FALSE /\ host.uhs = "SDR12" /\ host.emmc = "SD" /\ host.strength = "B"
          /\ slot.mode = "SDR12" \/ (env.type = "mmc" /\ slot.mode = "MMC_LEGACY")

---------------------------------------------------------------------------------------
(***************************************************************************)
(* Lists, one after the other.                                             *)
(***************************************************************************)

\* Every step of two lists is one of the first, or of the second.
LEMMA InParts ==
    ASSUME NEW S, NEW a \in Seq(S), NEW b \in Seq(S), NEW i \in 1 .. Len(a \o b)
    PROVE  \/ i \in 1 .. Len(a) /\ (a \o b)[i] = a[i]
           \/ i > Len(a) /\ i - Len(a) \in 1 .. Len(b) /\ (a \o b)[i] = b[i - Len(a)]
<1> DEFINE t == a \o b
<1>1. /\ Len(t) = Len(a) + Len(b) /\ Len(a) \in Nat /\ Len(b) \in Nat
      /\ \A j \in 1 .. Len(a) : t[j] = a[j]
      /\ \A j \in 1 .. Len(b) : t[Len(a) + j] = b[j]
  BY Parts
<1> HIDE DEF t
<1>2. i \in 1 .. Len(t)
  BY DEF t
<1>3. CASE i <= Len(a)
  <2>1. i \in 1 .. Len(a) /\ t[i] = a[i]
    BY <1>1, <1>2, <1>3
  <2> QED
    BY <2>1 DEF t
<1>4. CASE i > Len(a)
  <2>1. i - Len(a) \in 1 .. Len(b) /\ i = Len(a) + (i - Len(a))
    BY <1>1, <1>2, <1>4
  <2>2. t[i] = b[i - Len(a)]
    BY <1>1, <2>1
  <2> QED
    BY <1>4, <2>1, <2>2 DEF t
<1> QED
  BY <1>1, <1>2, <1>3, <1>4

LEMMA Glued ==
    ASSUME NEW S, NEW s \in Seq(S), NEW t \in Seq(S), NEW u \in Seq(S), Len(u) = Len(s) + Len(t),
           \A i \in 1 .. Len(s) : u[i] = s[i], \A i \in 1 .. Len(t) : u[Len(s) + i] = t[i]
    PROVE  s \o t = u
<1> DEFINE w == s \o t
<1>1. w \in Seq(S) /\ Len(w) = Len(s) + Len(t) /\ Len(s) \in Nat /\ Len(t) \in Nat
  BY Parts
<1>2. ASSUME NEW i \in 1 .. Len(w) PROVE w[i] = u[i]
  <2>1. CASE i \in 1 .. Len(s) /\ w[i] = s[i]
    BY <2>1
  <2>2. CASE i > Len(s) /\ i - Len(s) \in 1 .. Len(t) /\ w[i] = t[i - Len(s)]
    <3>1. u[Len(s) + (i - Len(s))] = t[i - Len(s)]
      BY <2>2
    <3>2. Len(s) + (i - Len(s)) = i
      BY <1>1
    <3> QED
      BY <2>2, <3>1, <3>2
  <2> QED
    BY <2>1, <2>2, InParts
<1> HIDE DEF w
<1>3. w = u
  BY <1>1, <1>2, SeqEqual
<1> QED
  BY <1>3 DEF w

LEMMA OneTwo ==
    ASSUME NEW S, NEW a \in S, NEW b \in S, NEW c \in S
    PROVE  <<a>> \o <<b, c>> = <<a, b, c>>
<1>1. <<a>> \in Seq(S) /\ <<b, c>> \in Seq(S) /\ <<a, b, c>> \in Seq(S)
  OBVIOUS
<1>2. /\ Len(<<a, b, c>>) = Len(<<a>>) + Len(<<b, c>>)
      /\ \A i \in 1 .. Len(<<a>>) : <<a, b, c>>[i] = <<a>>[i]
      /\ \A i \in 1 .. Len(<<b, c>>) : <<a, b, c>>[Len(<<a>>) + i] = <<b, c>>[i]
  OBVIOUS
<1> QED
  BY <1>1, <1>2, Glued

LEMMA TwoOne ==
    ASSUME NEW S, NEW a \in S, NEW b \in S, NEW c \in S
    PROVE  <<a, b>> \o <<c>> = <<a, b, c>>
<1>1. <<a, b>> \in Seq(S) /\ <<c>> \in Seq(S) /\ <<a, b, c>> \in Seq(S)
  OBVIOUS
<1>2. /\ Len(<<a, b, c>>) = Len(<<a, b>>) + Len(<<c>>)
      /\ \A i \in 1 .. Len(<<a, b>>) : <<a, b, c>>[i] = <<a, b>>[i]
      /\ \A i \in 1 .. Len(<<c>>) : <<a, b, c>>[Len(<<a, b>>) + i] = <<c>>[i]
  OBVIOUS
<1> QED
  BY <1>1, <1>2, Glued

LEMMA TwoTwo ==
    ASSUME NEW S, NEW a \in S, NEW b \in S, NEW c \in S, NEW d \in S
    PROVE  <<a, b>> \o <<c, d>> = <<a, b, c, d>>
<1>1. <<a, b>> \in Seq(S) /\ <<c, d>> \in Seq(S) /\ <<a, b, c, d>> \in Seq(S)
  OBVIOUS
<1>2. /\ Len(<<a, b, c, d>>) = Len(<<a, b>>) + Len(<<c, d>>)
      /\ \A i \in 1 .. Len(<<a, b>>) : <<a, b, c, d>>[i] = <<a, b>>[i]
      /\ \A i \in 1 .. Len(<<c, d>>) : <<a, b, c, d>>[Len(<<a, b>>) + i] = <<c, d>>[i]
  OBVIOUS
<1> QED
  BY <1>1, <1>2, Glued

\* What holds of every step of both lists holds of every step of one after the other.
LEMMA NoneJoined ==
    ASSUME NEW S, NEW a \in Seq(S), NEW b \in Seq(S), NEW kinds, None(a, kinds), None(b, kinds)
    PROVE  None(a \o b, kinds)
<1> DEFINE t == a \o b
<1>1. ASSUME NEW i \in 1 .. Len(t) PROVE t[i].does \notin kinds
  BY InParts DEF None
<1> QED
  BY <1>1 DEF None

\* What is still to come of the second list, or of the first and not undone by the second.
LEMMA ToComeLater ==
    ASSUME NEW S, NEW a \in Seq(S), NEW b \in Seq(S), NEW s, ToCome(b, s)
    PROVE  ToCome(a \o b, s)
<1> DEFINE t == a \o b
<1>1. /\ Len(t) = Len(a) + Len(b) /\ Len(a) \in Nat /\ Len(b) \in Nat
      /\ \A i \in 1 .. Len(b) : t[Len(a) + i] = b[i]
  BY Parts
<1> DEFINE K == Undoes(s.does)
<1> HIDE DEF t, K
<1>2. PICK k \in 1 .. Len(b) : b[k] = s /\ \A i \in k + 1 .. Len(b) : b[i].does \notin K
  BY DEF ToCome, K
<1>3. Len(a) + k \in 1 .. Len(t) /\ t[Len(a) + k] = s
  BY <1>1, <1>2
<1>4. ASSUME NEW i \in Len(a) + k + 1 .. Len(t) PROVE t[i].does \notin K
  <2>1. i - Len(a) \in k + 1 .. Len(b) /\ i - Len(a) \in 1 .. Len(b) /\ i = Len(a) + (i - Len(a))
    BY <1>1
  <2>2. t[i] = b[i - Len(a)]
    BY <1>1, <2>1
  <2> QED
    BY <1>2, <2>1, <2>2
<1>5. ToCome(t, s)
  BY <1>3, <1>4 DEF ToCome, K
<1> QED
  BY <1>5 DEF t

LEMMA ToComeBefore ==
    ASSUME NEW S, NEW a \in Seq(S), NEW b \in Seq(S), NEW s, ToCome(a, s), None(b, Undoes(s.does))
    PROVE  ToCome(a \o b, s)
<1> DEFINE t == a \o b
           K == Undoes(s.does)
<1>1. /\ Len(t) = Len(a) + Len(b) /\ Len(a) \in Nat /\ Len(b) \in Nat
      /\ \A i \in 1 .. Len(a) : t[i] = a[i]
  BY Parts
<1>2. \A i \in 1 .. Len(t) : \/ i \in 1 .. Len(a) /\ t[i] = a[i]
                             \/ i > Len(a) /\ i - Len(a) \in 1 .. Len(b) /\ t[i] = b[i - Len(a)]
  BY InParts
<1> HIDE DEF t, K
<1>3. PICK k \in 1 .. Len(a) : a[k] = s /\ \A i \in k + 1 .. Len(a) : a[i].does \notin K
  BY DEF ToCome, K
<1>4. \A i \in 1 .. Len(b) : b[i].does \notin K
  BY DEF None, K
<1>5. k \in 1 .. Len(t) /\ t[k] = s
  BY <1>1, <1>3
<1>6. ASSUME NEW i \in k + 1 .. Len(t) PROVE t[i].does \notin K
  <2>1. i \in 1 .. Len(t)
    BY <1>1
  <2>2. CASE i \in 1 .. Len(a) /\ t[i] = a[i]
    BY <1>3, <2>2
  <2>3. CASE i > Len(a) /\ i - Len(a) \in 1 .. Len(b) /\ t[i] = b[i - Len(a)]
    BY <1>4, <2>3
  <2> QED
    BY <1>2, <2>1, <2>2, <2>3
<1>7. ToCome(t, s)
  BY <1>5, <1>6 DEF ToCome, K
<1> QED
  BY <1>7 DEF t

---------------------------------------------------------------------------------------
(***************************************************************************)
(* How the list of a function begins and ends.                             *)
(***************************************************************************)

LEMMA LedConcat ==
    ASSUME NEW S, NEW a \in Seq(S), NEW b \in Seq(S), Led(a)
    PROVE  Led(a \o b)
<1> DEFINE t == a \o b
<1>1. /\ Len(t) = Len(a) + Len(b) /\ Len(a) \in Nat /\ Len(b) \in Nat
      /\ \A i \in 1 .. Len(a) : t[i] = a[i]
  BY Parts
<1> HIDE DEF t
<1>2. PICK k \in 1 .. Len(a) : a[k].does \in Switches \cup {"refuse"} /\ \A i \in 1 .. k : a[i].does \notin Writes
  BY DEF Led
<1>3. k \in 1 .. Len(t) /\ t[k] = a[k] /\ \A i \in 1 .. k : t[i] = a[i]
  BY <1>1
<1>4. Led(t)
  BY <1>2, <1>3 DEF Led
<1> QED
  BY <1>4 DEF t

LEMMA LedAfter ==
    ASSUME NEW S, NEW a \in Seq(S), NEW b \in Seq(S), Led(b), \A i \in 1 .. Len(a) : a[i].does \notin Writes
    PROVE  Led(a \o b)
<1> DEFINE t == a \o b
<1>1. /\ Len(t) = Len(a) + Len(b) /\ Len(a) \in Nat /\ Len(b) \in Nat
      /\ \A i \in 1 .. Len(a) : t[i] = a[i]
      /\ \A i \in 1 .. Len(b) : t[Len(a) + i] = b[i]
  BY Parts
<1> HIDE DEF t
<1>2. PICK k \in 1 .. Len(b) : b[k].does \in Switches \cup {"refuse"} /\ \A i \in 1 .. k : b[i].does \notin Writes
  BY DEF Led
<1>3. Len(a) + k \in 1 .. Len(t) /\ t[Len(a) + k] = b[k]
  BY <1>1
<1>4. ASSUME NEW i \in 1 .. Len(a) + k PROVE t[i].does \notin Writes
  <2>1. CASE i <= Len(a)
    BY <1>1, <2>1
  <2>2. CASE i > Len(a)
    <3>1. i - Len(a) \in 1 .. k /\ i - Len(a) \in 1 .. Len(b) /\ i = Len(a) + (i - Len(a))
      BY <1>1, <2>2
    <3> QED
      BY <1>1, <1>2, <3>1
  <2> QED
    BY <1>1, <2>1, <2>2
<1>5. Led(t)
  BY <1>2, <1>3, <1>4 DEF Led
<1> QED
  BY <1>5 DEF t

\* What is asked of a list when it is drawn up.
Drawn(o, t) ==
    /\ Shape(o, t)
    /\ o.name \in FourKinds /\ t # <<>> => Led(t)
    /\ o.name = "attach" => t # <<>>
    /\ \/ o.name \in FourKinds /\ IF t = <<>> THEN o.name = "width" ELSE Head(t) = Refusal
       \/ (\A s \in Finals(o) : ToCome(t, s)) /\ (o.name = "width" => ~RefusesWidth(o.arg))

\* A list that begins with the refusal, and switches nothing behind it.
LEMMA RefusedDrawn ==
    ASSUME NEW o, o.name \in FourKinds, o.name # "width", NEW S, NEW t \in Seq(S), t # <<>>, t[1] = Refusal,
           None(t, {"switch"})
    PROVE  Drawn(o, t)
<1>1. Refusal.does = "refuse"
  BY DEF Refusal, Step
<1>2. Head(t) = Refusal /\ Len(t) \in Nat \ {0}
  OBVIOUS
<1>3. Led(t)
  BY <1>1, <1>2 DEF Led, Writes
<1>4. Shape(o, t)
  BY DEF Shape, OnceShape, None, FourKinds
<1> QED
  BY <1>2, <1>3, <1>4 DEF Drawn, FourKinds

LEMMA RefusedAlone ==
    ASSUME NEW o, o.name \in FourKinds
    PROVE  Drawn(o, <<Step("refuse", 0)>>)
<1> DEFINE t == <<Refusal>>
<1>1. t \in Seq({Refusal}) /\ t # <<>> /\ Len(t) = 1 /\ t[1] = Refusal /\ Head(t) = Refusal
  OBVIOUS
<1>2. Refusal.does = "refuse"
  BY DEF Refusal, Step
<1> HIDE DEF t
<1>3. Led(t)
  BY <1>1, <1>2 DEF Led, Writes
<1>4. Shape(o, t)
  BY <1>1, <1>2 DEF Shape, OnceShape, WidthShape, FourKinds
<1>5. Drawn(o, t)
  BY <1>1, <1>3, <1>4 DEF Drawn, FourKinds
<1> QED
  BY <1>5 DEF t, Refusal

\* The four steps of an SD card's mode, the three of its strength.
LEMMA FourDrawn ==
    ASSUME NEW o, o.name \in {"high", "mode"}, NEW S, NEW c \in S, NEW s \in S, NEW w \in S, NEW r \in S,
           c.does = "check", s.does = "switch", w.does \in {"hostHs", "hostUhs"}, r.does = "record",
           Finals(o) = {s, w, r}
    PROVE  Drawn(o, <<c, s, w, r>>)
<1> DEFINE t == <<c, s, w, r>>
<1>1. t \in Seq(S) /\ t # <<>> /\ Len(t) = 4 /\ t[1] = c /\ t[2] = s /\ t[3] = w /\ t[4] = r
  OBVIOUS
<1> HIDE DEF t
<1>2. \A i \in 1 .. Len(t) : i = 1 \/ i = 2 \/ i = 3 \/ i = 4
  BY <1>1
<1>3. Led(t)
  <2>1. 2 \in 1 .. Len(t) /\ t[2].does \in Switches \cup {"refuse"}
    BY <1>1 DEF Switches
  <2>2. \A i \in 1 .. 2 : t[i].does \notin Writes
    <3>1. \A i \in 1 .. 2 : i = 1 \/ i = 2
      OBVIOUS
    <3> QED
      BY <1>1, <3>1 DEF Writes
  <2> QED
    BY <2>1, <2>2 DEF Led
<1>4. OnceShape(t)
  <2>1. \A i \in 1 .. Len(t) : t[i].does = "switch" => i = 2
    BY <1>1, <1>2
  <2> QED
    BY <2>1 DEF OnceShape
<1>5. ToCome(t, s)
  <2>1. Undoes(s.does) = {"timing", "switch", "power"}
    BY DEF Undoes
  <2>2. 2 \in 1 .. Len(t) /\ \A i \in 2 + 1 .. Len(t) : t[i].does \notin Undoes(s.does)
    BY <1>1, <1>2, <2>1
  <2> QED
    BY <1>1, <2>2 DEF ToCome
<1>6. ToCome(t, w)
  <2>1. Undoes(w.does) = {"hostHs", "hostUhs"}
    BY DEF Undoes
  <2>2. 3 \in 1 .. Len(t) /\ \A i \in 3 + 1 .. Len(t) : t[i].does \notin Undoes(w.does)
    BY <1>1, <1>2, <2>1
  <2> QED
    BY <1>1, <2>2 DEF ToCome
<1>7. ToCome(t, r)
  <2>1. 4 \in 1 .. Len(t) /\ \A i \in 4 + 1 .. Len(t) : t[i].does \notin Undoes(r.does)
    BY <1>1
  <2> QED
    BY <1>1, <2>1 DEF ToCome
<1>8. Drawn(o, t)
  BY <1>1, <1>3, <1>4, <1>5, <1>6, <1>7 DEF Drawn, Shape
<1> QED
  BY <1>8 DEF t

LEMMA ThreeDrawn ==
    ASSUME NEW o, o.name = "strength", NEW S, NEW c \in S, NEW s \in S, NEW w \in S,
           c.does = "check", s.does = "switch", w.does = "hostStrength", Finals(o) = {s, w}
    PROVE  Drawn(o, <<c, s, w>>)
<1> DEFINE t == <<c, s, w>>
<1>1. t \in Seq(S) /\ t # <<>> /\ Len(t) = 3 /\ t[1] = c /\ t[2] = s /\ t[3] = w
  OBVIOUS
<1> HIDE DEF t
<1>2. \A i \in 1 .. Len(t) : i = 1 \/ i = 2 \/ i = 3
  BY <1>1
<1>3. Led(t)
  <2>1. 2 \in 1 .. Len(t) /\ t[2].does \in Switches \cup {"refuse"}
    BY <1>1 DEF Switches
  <2>2. \A i \in 1 .. 2 : t[i].does \notin Writes
    <3>1. \A i \in 1 .. 2 : i = 1 \/ i = 2
      OBVIOUS
    <3> QED
      BY <1>1, <3>1 DEF Writes
  <2> QED
    BY <2>1, <2>2 DEF Led
<1>4. OnceShape(t)
  <2>1. \A i \in 1 .. Len(t) : t[i].does = "switch" => i = 2
    BY <1>1, <1>2
  <2> QED
    BY <2>1 DEF OnceShape
<1>5. ToCome(t, s)
  <2>1. Undoes(s.does) = {"timing", "switch", "power"}
    BY DEF Undoes
  <2>2. 2 \in 1 .. Len(t) /\ \A i \in 2 + 1 .. Len(t) : t[i].does \notin Undoes(s.does)
    BY <1>1, <1>2, <2>1
  <2> QED
    BY <1>1, <2>2 DEF ToCome
<1>6. ToCome(t, w)
  <2>1. 3 \in 1 .. Len(t) /\ \A i \in 3 + 1 .. Len(t) : t[i].does \notin Undoes(w.does)
    BY <1>1
  <2> QED
    BY <1>1, <2>1 DEF ToCome
<1>7. Drawn(o, t)
  BY <1>1, <1>3, <1>4, <1>5, <1>6 DEF Drawn, Shape
<1> QED
  BY <1>7 DEF t

\* High speed: of an SD card a change of mode, of an MMC its timing.
LEMMA HighDrawn ==
    ASSUME TypeInv, NEW o, o.name = "high", o.arg \in BOOLEAN, env.type = "mmc" => o.arg = TRUE
    PROVE  Drawn(o, HighSpeed(o.arg))
<1>0. env.type = "sd" \/ env.type = "mmc"
  BY ModeAssumption DEF TypeInv
<1>1. CASE env.type = "sd"
  <2> DEFINE mode == IF o.arg THEN "SDR25" ELSE "SDR12"
             c == Step("check", mode)
             s == Step("switch", mode)
             w == Step("hostHs", o.arg)
             r == Step("record", mode)
             f == Refusal
             S == {c, s, w, r, f}
  <2>1. c.does = "check" /\ s.does = "switch" /\ w.does = "hostHs" /\ r.does = "record" /\ f.does = "refuse"
    BY DEF Step, Refusal
  <2>2. HighSpeed(o.arg) = (IF env.cmd6 THEN <<c, s>> ELSE <<f>>) \o <<w, r>>
    BY <1>1, Zenon DEF HighSpeed, ChangeDeviceSd, SwitchFunction, Refusal
  <2>3. Finals(o) = {s, w, r}
    BY <1>1, Zenon DEF Finals, HighFinals, SdFinals
  <2>4. c \in S /\ s \in S /\ w \in S /\ r \in S /\ f \in S
    BY Zenon
  <2>4a. f = Refusal
    OBVIOUS
  <2> HIDE DEF c, s, w, r, f, S
  <2>5. CASE env.cmd6
    <3>1. HighSpeed(o.arg) = <<c, s, w, r>>
      BY <2>2, <2>4, <2>5, TwoTwo
    <3>2. Drawn(o, <<c, s, w, r>>)
      BY <2>1, <2>3, <2>4, FourDrawn
    <3> QED
      BY <3>1, <3>2
  <2>6. CASE ~env.cmd6
    <3> DEFINE t == <<f, w, r>>
    <3>1. HighSpeed(o.arg) = t
      BY <2>2, <2>4, <2>6, OneTwo
    <3>2. t \in Seq(S) /\ t # <<>> /\ Len(t) = 3 /\ t[1] = f /\ t[2] = w /\ t[3] = r
      BY <2>4
    <3> HIDE DEF t
    <3>3. None(t, {"switch"})
      <4>1. \A i \in 1 .. Len(t) : i = 1 \/ i = 2 \/ i = 3
        BY <3>2
      <4> QED
        BY <2>1, <3>2, <4>1 DEF None
    <3>4. Drawn(o, t)
      BY <2>4a, <3>2, <3>3, RefusedDrawn DEF FourKinds
    <3> QED
      BY <3>1, <3>4
  <2> QED
    BY <2>5, <2>6
<1>2. CASE env.type = "mmc"
  <2> DEFINE w == Step("timing", "high")
             h == Step("hostEmmc", "HS_SDR")
             r == Step("record", "HS_SDR")
             S == {w, h, r}
             t == <<w, h, r>>
  <2>1. o.arg = TRUE
    BY <1>2
  <2>2. HighSpeed(o.arg) = t
    BY <1>2, <2>1 DEF HighSpeed
  <2>3. Finals(o) = {w, h, r}
    BY <1>2 DEF Finals, HighFinals
  <2>4. w.does = "timing" /\ h.does = "hostEmmc" /\ r.does = "record"
    BY DEF Step
  <2>5. w \in S /\ h \in S /\ r \in S
    OBVIOUS
  <2> HIDE DEF w, h, r, S
  <2>6. t \in Seq(S) /\ t # <<>> /\ Len(t) = 3 /\ t[1] = w /\ t[2] = h /\ t[3] = r
    BY <2>5
  <2> HIDE DEF t
  <2>7. \A i \in 1 .. Len(t) : i = 1 \/ i = 2 \/ i = 3
    BY <2>6
  <2>8. Led(t)
    BY <2>4, <2>6 DEF Led, Switches, Writes
  <2>9. None(t, {"switch"})
    BY <2>4, <2>6, <2>7 DEF None
  <2>10. ToCome(t, w) /\ ToCome(t, h) /\ ToCome(t, r)
    <3>1. /\ Undoes(w.does) = {"timing", "switch", "power"} /\ Undoes(h.does) = {"hostEmmc"}
          /\ Undoes(r.does) = {"record", "identify"}
      BY <2>4 DEF Undoes
    <3>2. 1 \in 1 .. Len(t) /\ \A i \in 1 + 1 .. Len(t) : t[i].does \notin Undoes(w.does)
      BY <2>4, <2>6, <2>7, <3>1
    <3>3. 2 \in 1 .. Len(t) /\ \A i \in 2 + 1 .. Len(t) : t[i].does \notin Undoes(h.does)
      BY <2>4, <2>6, <2>7, <3>1
    <3>4. 3 \in 1 .. Len(t) /\ \A i \in 3 + 1 .. Len(t) : t[i].does \notin Undoes(r.does)
      BY <2>6
    <3> QED
      BY <2>6, <3>2, <3>3, <3>4 DEF ToCome
  <2>11. Drawn(o, t)
    BY <2>3, <2>6, <2>8, <2>9, <2>10 DEF Drawn, Shape, OnceShape, None
  <2> QED
    BY <2>2, <2>11
<1> QED
  BY <1>0, <1>1, <1>2

LEMMA SdModeDrawn ==
    ASSUME TypeInv, env.type = "sd", NEW o, o.name = "mode", o.arg \in SdModes \cup MmcModes
    PROVE  Drawn(o, AccessModeSd(o.arg))
<1> DEFINE mode == o.arg
           c == Step("check", mode)
           s == Step("switch", mode)
           w == IF host.v18 THEN Step("hostUhs", mode) ELSE Step("hostHs", mode # "SDR12")
           r == Step("record", mode)
           f == Refusal
           S == {c, s, w, r, f}
<1>1. /\ c.does = "check" /\ s.does = "switch" /\ w.does \in {"hostHs", "hostUhs"} /\ r.does = "record" /\ f.does = "refuse"
      /\ f = Refusal
  BY DEF Step, Refusal
<1>2. Finals(o) = {s, w, r}
  BY Zenon DEF Finals, ModeFinals, SdFinals
<1>3. c \in S /\ s \in S /\ w \in S /\ r \in S /\ f \in S
  BY Zenon
<1>4. \/ AccessModeSd(mode) = <<Step("refuse", 0)>>
      \/ AccessModeSd(mode) = (IF env.cmd6 THEN <<c, s>> ELSE <<f>>) \o <<w, r>>
  <2>1. CASE host.v18
    BY <2>1, Zenon DEF AccessModeSd, ChangeDeviceSd, SwitchFunction, Refusal
  <2>2. CASE ~host.v18 /\ mode \in {"SDR12", "SDR25"}
    <3>1. AccessModeSd(mode) = HighSpeed(mode = "SDR25")
      BY <2>2 DEF AccessModeSd
    <3>2. mode = (IF mode = "SDR25" THEN "SDR25" ELSE "SDR12")
      BY <2>2
    <3>3. (mode = "SDR25") = (mode # "SDR12")
      BY <2>2
    <3>4. HighSpeed(mode = "SDR25") = ChangeDeviceSd(mode) \o <<Step("hostHs", mode # "SDR12"), Step("record", mode)>>
      BY <3>2, <3>3 DEF HighSpeed
    <3>5. ChangeDeviceSd(mode) = (IF env.cmd6 THEN <<c, s>> ELSE <<f>>)
      BY Zenon DEF ChangeDeviceSd, SwitchFunction, Refusal
    <3> QED
      BY <2>2, <3>1, <3>4, <3>5
  <2>3. CASE ~host.v18 /\ mode \notin {"SDR12", "SDR25"}
    BY <2>3 DEF AccessModeSd
  <2> QED
    BY <2>1, <2>2, <2>3
<1> HIDE DEF c, s, w, r, f, S
<1>5. CASE AccessModeSd(mode) = <<Step("refuse", 0)>>
  BY <1>5, RefusedAlone DEF FourKinds
<1>6. CASE AccessModeSd(mode) = (IF env.cmd6 THEN <<c, s>> ELSE <<f>>) \o <<w, r>> /\ env.cmd6
  <2>1. AccessModeSd(mode) = <<c, s, w, r>>
    BY <1>3, <1>6, TwoTwo
  <2>2. Drawn(o, <<c, s, w, r>>)
    BY <1>1, <1>2, <1>3, FourDrawn
  <2> QED
    BY <2>1, <2>2
<1>7. CASE AccessModeSd(mode) = (IF env.cmd6 THEN <<c, s>> ELSE <<f>>) \o <<w, r>> /\ ~env.cmd6
  <2> DEFINE t == <<f, w, r>>
  <2>1. AccessModeSd(mode) = t
    BY <1>3, <1>7, OneTwo
  <2>2. t \in Seq(S) /\ t # <<>> /\ Len(t) = 3 /\ t[1] = f /\ t[2] = w /\ t[3] = r
    BY <1>3
  <2> HIDE DEF t
  <2>3. None(t, {"switch"})
    <3>1. \A i \in 1 .. Len(t) : i = 1 \/ i = 2 \/ i = 3
      BY <2>2
    <3> QED
      BY <1>1, <2>2, <3>1 DEF None
  <2>4. Drawn(o, t)
    BY <1>1, <2>2, <2>3, RefusedDrawn DEF FourKinds
  <2> QED
    BY <2>1, <2>4
<1> QED
  BY <1>4, <1>5, <1>6, <1>7

\* The drive strength of an SD card.
LEMMA StrengthDrawn ==
    ASSUME NEW o, o.name = "strength"
    PROVE  Drawn(o, Strength(o.arg))
<1> DEFINE c == Step("check", o.arg)
           s == Step("switch", o.arg)
           w == Step("hostStrength", o.arg)
           S == {c, s, w}
<1>1. c.does = "check" /\ s.does = "switch" /\ w.does = "hostStrength"
  BY DEF Step
<1>2. Finals(o) = {s, w}
  BY Zenon DEF Finals, StrengthFinals
<1>3. c \in S /\ s \in S /\ w \in S
  BY Zenon
<1>4. Strength(o.arg) = IF env.type = "sd" THEN <<c, s>> \o <<w>> ELSE <<Step("refuse", 0)>>
  BY Zenon DEF Strength, SwitchFunction
<1> HIDE DEF c, s, w, S
<1>5. <<c, s>> \o <<w>> = <<c, s, w>>
  BY <1>3, TwoOne
<1>6. Drawn(o, <<c, s, w>>)
  BY <1>1, <1>2, <1>3, ThreeDrawn
<1>7. Drawn(o, <<Step("refuse", 0)>>)
  BY RefusedAlone DEF FourKinds
<1> QED
  BY <1>4, <1>5, <1>6, <1>7

\* A list of one or two steps.
LEMMA OneListed ==
    ASSUME NEW a
    PROVE  ToCome(<<a>>, a) /\ \A kinds : a.does \notin kinds => None(<<a>>, kinds)
<1> DEFINE t == <<a>>
<1>1. Len(t) = 1 /\ t[1] = a
  OBVIOUS
<1> HIDE DEF t
<1>2. ToCome(t, a) /\ \A kinds : a.does \notin kinds => None(t, kinds)
  BY <1>1 DEF ToCome, None
<1> QED
  BY <1>2 DEF t

LEMMA TwoListed ==
    ASSUME NEW a, NEW b
    PROVE  /\ ToCome(<<a, b>>, b) /\ (b.does \notin Undoes(a.does) => ToCome(<<a, b>>, a))
           /\ \A kinds : a.does \notin kinds /\ b.does \notin kinds => None(<<a, b>>, kinds)
           /\ a.does \in Switches => Led(<<a, b>>)
<1> DEFINE t == <<a, b>>
<1>1. Len(t) = 2 /\ t[1] = a /\ t[2] = b
  OBVIOUS
<1> HIDE DEF t
<1>2. \A i \in 1 .. Len(t) : i = 1 \/ i = 2
  BY <1>1
<1>3. ToCome(t, b)
  BY <1>1, <1>2 DEF ToCome
<1>4. ASSUME b.does \notin Undoes(a.does) PROVE ToCome(t, a)
  <2>1. 1 \in 1 .. Len(t) /\ \A i \in 1 + 1 .. Len(t) : t[i].does \notin Undoes(a.does)
    BY <1>1, <1>2, <1>4
  <2> QED
    BY <1>1, <2>1 DEF ToCome
<1>5. \A kinds : a.does \notin kinds /\ b.does \notin kinds => None(t, kinds)
  BY <1>1, <1>2 DEF None
<1>6. ASSUME a.does \in Switches PROVE Led(t)
  BY <1>1, <1>6 DEF Led, Switches, Writes
<1>7. /\ ToCome(t, b) /\ (b.does \notin Undoes(a.does) => ToCome(t, a))
      /\ \A kinds : a.does \notin kinds /\ b.does \notin kinds => None(t, kinds)
      /\ a.does \in Switches => Led(t)
  BY <1>3, <1>4, <1>5, <1>6
<1> QED
  BY <1>7 DEF t

\* The switches that set an MMC's mode.
LEMMA MmcChangeDrawn ==
    ASSUME TypeInv, env.type # "sd", NEW mode \in MmcModes
    PROVE  /\ ToCome(ChangeDeviceMmc(mode), Step("timing", TimingFor(mode)))
           /\ ToCome(ChangeDeviceMmc(mode), Step("busWidth", BusWidthFor(mode, slot.width)))
           /\ Led(ChangeDeviceMmc(mode))
<1> DEFINE b == Step("busWidth", BusWidthFor(mode, slot.width))
           w == Step("timing", TimingFor(mode))
           e == Step("readExtCsd", 0)
           p == Step("supports", mode)
           S == {Refusal} \cup ModeSteps
           x == IF WidthAllows(slot.width, mode) THEN <<e>> ELSE <<>>
           m == MmcSwitches(mode)
<1>1. b.does = "busWidth" /\ w.does = "timing" /\ e.does = "readExtCsd" /\ p.does = "supports"
  BY DEF Step
<1>2. b \in S /\ w \in S /\ e \in S /\ p \in S
  BY MmcModeSteps
<1>3. m = <<b, w>> \/ m = <<w, b>>
  BY Zenon DEF MmcSwitches
<1>4. ChangeDeviceMmc(mode) = x \o <<p>> \o m
  BY DEF ChangeDeviceMmc
<1> HIDE DEF b, w, e, p, S, m
<1>5. <<b, w>> \in Seq(S) /\ <<w, b>> \in Seq(S) /\ <<e>> \in Seq(S) /\ <<p>> \in Seq(S)
  BY <1>2
<1>6. <<>> \in Seq(S) /\ None(<<>>, Writes)
  BY DEF None
<1>7. x \in Seq(S) /\ m \in Seq(S)
  BY <1>3, <1>5, <1>6
<1>8. None(<<e>>, Writes) /\ None(<<p>>, Writes)
  BY <1>1, OneListed DEF Writes
<1>9. None(x, Writes)
  BY <1>6, <1>8
<1> HIDE DEF x
<1>10. x \o <<p>> \in Seq(S) /\ None(x \o <<p>>, Writes)
  BY <1>5, <1>7, <1>8, <1>9, NoneJoined, Joined
<1>11. ToCome(m, b) /\ ToCome(m, w) /\ Led(m)
  <2>1. Undoes(b.does) = {"busWidth", "acmd6", "power"} /\ Undoes(w.does) = {"timing", "switch", "power"}
    BY <1>1 DEF Undoes
  <2>2. b.does \in Switches /\ w.does \in Switches
    BY <1>1 DEF Switches
  <2>3. CASE m = <<b, w>>
    BY <1>1, <2>1, <2>2, <2>3, TwoListed
  <2>4. CASE m = <<w, b>>
    BY <1>1, <2>1, <2>2, <2>4, TwoListed
  <2> QED
    BY <1>3, <2>3, <2>4
<1> DEFINE a == x \o <<p>>
<1>12. a \in Seq(S) /\ \A i \in 1 .. Len(a) : a[i].does \notin Writes
  BY <1>10 DEF None
<1> HIDE DEF a
<1>13. ToCome(a \o m, b) /\ ToCome(a \o m, w) /\ Led(a \o m)
  BY <1>7, <1>11, <1>12, ToComeLater, LedAfter
<1>14. ChangeDeviceMmc(mode) = a \o m
  BY <1>4 DEF a
<1> QED
  BY <1>13, <1>14 DEF b, w

LEMMA MmcModeDrawn ==
    ASSUME TypeInv, env.type # "sd", NEW o, o.name = "mode"
    PROVE  Drawn(o, AccessModeMmc(o.arg))
<1> DEFINE mode == o.arg
<1>1. CASE mode \notin MmcModes
  BY <1>1, RefusedAlone DEF AccessModeMmc, FourKinds
<1>2. CASE mode \in MmcModes
  <2> DEFINE S == {Refusal} \cup ModeSteps
             b == Step("busWidth", BusWidthFor(mode, slot.width))
             w == Step("timing", TimingFor(mode))
             h == Step("hostEmmc", mode)
             r == Step("record", mode)
             c == Step("clock", Fast)
             z == Step("tuneMmc", 0)
             p == IF mode = "HS_400" THEN ByHs200 ELSE <<>>
             d == ChangeDeviceMmc(mode)
             u == IF mode = "HS_200" THEN Tune ELSE <<>>
             l1 == p \o d
             l2 == l1 \o <<h>>
             l3 == l2 \o u
             l4 == l3 \o <<r>>
  <2>1. "HS_200" \in MmcModes /\ "HS_400" \in MmcModes
    BY DEF MmcModes
  <2>2. /\ b.does = "busWidth" /\ w.does = "timing" /\ h.does = "hostEmmc" /\ r.does = "record" /\ c.does = "clock"
        /\ z.does = "tuneMmc"
    BY DEF Step
  <2>3. h \in S /\ r \in S /\ c \in S /\ z \in S /\ Step("hostEmmc", "HS_200") \in S /\ Step("record", "HS_400") \in S
    BY <1>2, <2>1, MmcModeSteps
  <2>4. ChangeDeviceMmc("HS_200") \in Seq(S) /\ d \in Seq(S)
    BY <1>2, <2>1, MmcChangeTyped
  <2>5. ToCome(d, b) /\ ToCome(d, w) /\ Led(d) /\ Led(ChangeDeviceMmc("HS_200"))
    BY <1>2, <2>1, MmcChangeDrawn
  <2>6. Tune = <<c, z>> /\ Finals(o) = {w, b, h, r} /\ AccessModeMmc(mode) = l4
    BY <1>2 DEF Tune, Finals, ModeFinals, AccessModeMmc
  <2>7. AccessModeMmc(mode) \in Seq(S) /\ \A s \in S : s.does # "switch"
    <3>1. \A s \in S : s.does # "switch"
      BY DEF ModeSteps, Some, Refusal, Step
    <3> QED
      BY <3>1, MmcModeTyped
  <2>8. ByHs200 = ChangeDeviceMmc("HS_200") \o <<Step("hostEmmc", "HS_200"), Step("record", "HS_400")>> \o Tune
    BY DEF ByHs200
  <2> HIDE DEF b, w, h, r, c, z, S, d
  <2>9. /\ <<Step("hostEmmc", "HS_200"), Step("record", "HS_400")>> \in Seq(S) /\ <<h>> \in Seq(S) /\ <<r>> \in Seq(S)
        /\ Tune \in Seq(S) /\ <<>> \in Seq(S)
    BY <2>3, <2>6
  <2>10. ByHs200 \in Seq(S) /\ Led(ByHs200)
    BY <2>4, <2>5, <2>8, <2>9, LedConcat, Joined
  <2>11. p \in Seq(S) /\ u \in Seq(S) /\ (p = ByHs200 \/ p = <<>>) /\ (u = <<c, z>> \/ u = <<>>)
    BY <2>6, <2>9, <2>10
  <2>12. \A kinds : "clock" \notin kinds /\ "tuneMmc" \notin kinds => None(u, kinds)
    <3>1. \A kinds : None(<<>>, kinds)
      BY DEF None
    <3> QED
      BY <2>2, <2>11, <3>1, TwoListed
  <2>13. /\ Undoes(b.does) = {"busWidth", "acmd6", "power"} /\ Undoes(w.does) = {"timing", "switch", "power"}
         /\ Undoes(h.does) = {"hostEmmc"} /\ Undoes(r.does) = {"record", "identify"}
    BY <2>2 DEF Undoes
  <2> HIDE DEF p, u, l1, l2, l3, l4
  <2>14. l1 \in Seq(S) /\ Led(l1) /\ ToCome(l1, b) /\ ToCome(l1, w)
    <3>1. l1 \in Seq(S)
      BY <2>4, <2>11, Joined DEF l1
    <3>2. ToCome(l1, b) /\ ToCome(l1, w)
      BY <2>4, <2>5, <2>11, ToComeLater DEF l1
    <3>3. ASSUME p = ByHs200 PROVE Led(l1)
      BY <2>4, <2>10, <2>11, <3>3, LedConcat DEF l1
    <3>4. ASSUME p = <<>> PROVE Led(l1)
      <4>1. \A i \in 1 .. Len(p) : p[i].does \notin Writes
        BY <3>4
      <4> QED
        BY <2>4, <2>5, <2>11, <4>1, LedAfter DEF l1
    <3> QED
      BY <2>11, <3>1, <3>2, <3>3, <3>4
  <2>15. l2 \in Seq(S) /\ Led(l2) /\ ToCome(l2, b) /\ ToCome(l2, w) /\ ToCome(l2, h)
    <3>1. None(<<h>>, Undoes(b.does)) /\ None(<<h>>, Undoes(w.does)) /\ ToCome(<<h>>, h)
      BY <2>2, <2>13, OneListed
    <3>2. l2 \in Seq(S) /\ Led(l2) /\ ToCome(l2, h)
      BY <2>9, <2>14, <3>1, LedConcat, Joined, ToComeLater DEF l2
    <3> QED
      BY <2>9, <2>14, <3>1, <3>2, ToComeBefore DEF l2
  <2>16. l3 \in Seq(S) /\ Led(l3) /\ ToCome(l3, b) /\ ToCome(l3, w) /\ ToCome(l3, h)
    <3>1. None(u, Undoes(b.does)) /\ None(u, Undoes(w.does)) /\ None(u, Undoes(h.does))
      BY <2>12, <2>13
    <3>2. l3 \in Seq(S) /\ Led(l3)
      BY <2>11, <2>15, LedConcat, Joined DEF l3
    <3> QED
      BY <2>11, <2>15, <3>1, <3>2, ToComeBefore DEF l3
  <2>17. l4 \in Seq(S) /\ Led(l4) /\ ToCome(l4, b) /\ ToCome(l4, w) /\ ToCome(l4, h) /\ ToCome(l4, r)
    <3>1. None(<<r>>, Undoes(b.does)) /\ None(<<r>>, Undoes(w.does)) /\ None(<<r>>, Undoes(h.does)) /\ ToCome(<<r>>, r)
      BY <2>2, <2>13, OneListed
    <3>2. l4 \in Seq(S) /\ Led(l4) /\ ToCome(l4, r)
      BY <2>9, <2>16, <3>1, LedConcat, Joined, ToComeLater DEF l4
    <3> QED
      BY <2>9, <2>16, <3>1, <3>2, ToComeBefore DEF l4
  <2>18. AccessModeMmc(mode) = l4
    BY <2>6 DEF l1, l2, l3, l4
  <2>19. OnceShape(l4)
    <3>1. \A i \in 1 .. Len(l4) : l4[i] \in S
      BY <2>17
    <3> QED
      BY <2>7, <3>1 DEF OnceShape
  <2>20. Drawn(o, l4)
    BY <2>6, <2>17, <2>19 DEF Drawn, Shape
  <2> QED
    BY <2>18, <2>20
<1> QED
  BY <1>1, <1>2

\* The width: the device, the host and the record, or nothing to do.
LEMMA WidthDrawn ==
    ASSUME NEW o, o.name = "width"
    PROVE  Drawn(o, SetBusWidth(o.arg))
<1> DEFINE width == o.arg
           d == DeviceWidth(width)
           h == Step("hostWidth", width)
           r == Step("recordWidth", width)
           S == {d, h, r}
           t == <<d, h, r>>
<1>1. CASE slot.width = width
  <2>1. SetBusWidth(width) = <<>>
    BY <1>1 DEF SetBusWidth
  <2>2. Drawn(o, <<>>)
    BY DEF Drawn, Shape, OnceShape, WidthShape, FourKinds
  <2> QED
    BY <2>1, <2>2
<1>2. CASE slot.width # width /\ RefusesWidth(width)
  BY <1>2, RefusedAlone DEF SetBusWidth, FourKinds
<1>3. CASE slot.width # width /\ ~RefusesWidth(width)
  <2>1. d.does \in {"acmd6", "busWidth"} /\ h.does = "hostWidth" /\ r = Step("recordWidth", width) /\ r.does = "recordWidth"
    BY DEF DeviceWidth, Step
  <2>2. SetBusWidth(width) = t
    BY <1>3, Zenon DEF SetBusWidth
  <2>3. Finals(o) = {d, h, r}
    BY Zenon DEF Finals, WidthFinals
  <2>4. d \in S /\ h \in S /\ r \in S
    BY Zenon
  <2> HIDE DEF d, h, r, S
  <2>5. t \in Seq(S) /\ t # <<>> /\ Len(t) = 3 /\ t[1] = d /\ t[2] = h /\ t[3] = r
    BY <2>4
  <2> HIDE DEF t
  <2>6. \A i \in 1 .. Len(t) : i = 1 \/ i = 2 \/ i = 3
    BY <2>5
  <2>7. Led(t)
    BY <2>1, <2>5 DEF Led, Switches, Writes
  <2>8. None(t, {"switch"})
    BY <2>1, <2>5, <2>6 DEF None
  <2>9. WidthShape(t, width)
    <3>1. ASSUME NEW i \in 1 .. Len(t), t[i].does = "hostWidth" PROVE Len(t) = i + 1 /\ t[i + 1] = Step("recordWidth", width)
      <4>1. i = 2
        BY <2>1, <2>5, <2>6, <3>1
      <4> QED
        BY <2>1, <2>5, <4>1
    <3>2. ASSUME NEW i \in 1 .. Len(t), t[i].does = "recordWidth"
                PROVE  Len(t) = i /\ t[i - 1].does = "hostWidth"
      <4>1. i = 3
        BY <2>1, <2>5, <2>6, <3>2
      <4> QED
        BY <2>1, <2>5, <4>1
    <3> QED
      BY <3>1, <3>2 DEF WidthShape
  <2>10. /\ Undoes(d.does) = {"busWidth", "acmd6", "power"} /\ Undoes(h.does) = {"hostWidth"}
         /\ Undoes(r.does) = {"recordWidth", "identify"}
    BY <2>1 DEF Undoes
  <2>11. ToCome(t, d) /\ ToCome(t, h) /\ ToCome(t, r)
    <3>1. 1 \in 1 .. Len(t) /\ \A i \in 1 + 1 .. Len(t) : t[i].does \notin Undoes(d.does)
      BY <2>1, <2>5, <2>6, <2>10
    <3>2. 2 \in 1 .. Len(t) /\ \A i \in 2 + 1 .. Len(t) : t[i].does \notin Undoes(h.does)
      BY <2>1, <2>5, <2>6, <2>10
    <3>3. 3 \in 1 .. Len(t) /\ \A i \in 3 + 1 .. Len(t) : t[i].does \notin Undoes(r.does)
      BY <2>5
    <3> QED
      BY <2>5, <3>1, <3>2, <3>3 DEF ToCome
  <2>12. Drawn(o, t)
    BY <1>3, <2>3, <2>5, <2>7, <2>8, <2>9, <2>11 DEF Drawn, Shape, OnceShape, None
  <2> QED
    BY <2>2, <2>12
<1> QED
  BY <1>1, <1>2, <1>3

\* The attach: what its steps at one bit and 3.3 V set up, then what 1.8 V adds.
LEMMA AttachDrawn ==
    ASSUME TypeInv, NEW o, o.name = "attach", env.s18 = FALSE => slot.uhsi = FALSE
    PROVE  Drawn(o, Attach)
<1> DEFINE h1 == Step("hostWidth", 1)
           p == Step("power", TRUE)
           c == Step("clock", Slow)
           e == Step("identify", 0)
           m == Step("cmd11", 0)
           g == Step("v18", 0)
           a == Step("acmd6", 4)
           h4 == Step("hostWidth", 4)
           r == Step("recordWidth", 4)
           d == Step("attached", 0)
           S == {h1, p, c, e, m, g, a, h4, r, d}
           first == <<h1, p, c, e>>
           v == IF env.s18 THEN <<m, g>> ELSE <<>>
           w == IF env.s18 THEN <<a, h4, r>> ELSE <<>>
           l1 == first \o v
           l2 == l1 \o w
           t == l2 \o <<d>>
<1>1. /\ h1.does = "hostWidth" /\ p.does = "power" /\ c.does = "clock" /\ e.does = "identify" /\ m.does = "cmd11"
      /\ g.does = "v18" /\ a.does = "acmd6" /\ h4.does = "hostWidth" /\ r.does = "recordWidth" /\ d.does = "attached"
  BY DEF Step
<1>2. /\ h1 \in S /\ p \in S /\ c \in S /\ e \in S /\ m \in S /\ g \in S /\ a \in S /\ h4 \in S /\ r \in S /\ d \in S
  BY Zenon
<1>3. env.s18 \in BOOLEAN
  BY ModeAssumption DEF TypeInv
<1>4. Attach = t
  <2>1. (env.s18 \/ slot.uhsi) = env.s18
    BY <1>3 DEF TypeInv, SlotType
  <2>2. CASE env.s18
    BY <2>1, <2>2, Zenon DEF Attach
  <2>3. CASE ~env.s18
    BY <2>1, <2>3, Zenon DEF Attach
  <2> QED
    BY <2>2, <2>3
<1>5. Finals(o) = {p, e} \cup IF env.s18 THEN {m, g, a, h4, r} ELSE {h1}
  BY Zenon DEF Finals, AttachFinals
<1> HIDE DEF h1, p, c, e, m, g, a, h4, r, d, S
<1>6. /\ Undoes(h1.does) = {"hostWidth"} /\ Undoes(h4.does) = {"hostWidth"} /\ Undoes(g.does) = {"v18"}
      /\ Undoes(m.does) = {"cmd11", "power"} /\ Undoes(a.does) = {"busWidth", "acmd6", "power"}
      /\ Undoes(r.does) = {"recordWidth", "identify"}
      /\ Undoes(p.does) = {"timing", "switch", "busWidth", "power"} \cup IF env.s18 THEN {} ELSE {"acmd6", "cmd11"}
      /\ Undoes(e.does) = {"record", "identify"} \cup IF env.s18 THEN {} ELSE {"recordWidth"}
  BY <1>1 DEF Undoes
<1>7. \A kinds : None(<<>>, kinds)
  BY DEF None
<1>8. /\ first \in Seq(S) /\ ToCome(first, h1) /\ ToCome(first, p) /\ ToCome(first, e)
      /\ None(first, {"attached", "switch", "cmd11", "v18", "acmd6", "recordWidth"})
  <2>1. first \in Seq(S) /\ Len(first) = 4 /\ first[1] = h1 /\ first[2] = p /\ first[3] = c /\ first[4] = e
    BY <1>2
  <2> HIDE DEF first
  <2>2. \A i \in 1 .. Len(first) : i = 1 \/ i = 2 \/ i = 3 \/ i = 4
    BY <2>1
  <2>3. ToCome(first, h1)
    <3>1. 1 \in 1 .. Len(first) /\ \A i \in 1 + 1 .. Len(first) : first[i].does \notin Undoes(h1.does)
      BY <1>1, <1>6, <2>1, <2>2
    <3> QED
      BY <2>1, <3>1 DEF ToCome
  <2>4. ToCome(first, p)
    <3>1. 2 \in 1 .. Len(first) /\ \A i \in 2 + 1 .. Len(first) : first[i].does \notin Undoes(p.does)
      BY <1>1, <1>6, <2>1, <2>2
    <3> QED
      BY <2>1, <3>1 DEF ToCome
  <2>5. ToCome(first, e)
    <3>1. 4 \in 1 .. Len(first) /\ \A i \in 4 + 1 .. Len(first) : first[i].does \notin Undoes(e.does)
      BY <2>1
    <3> QED
      BY <2>1, <3>1 DEF ToCome
  <2>6. None(first, {"attached", "switch", "cmd11", "v18", "acmd6", "recordWidth"})
    BY <1>1, <2>1, <2>2 DEF None
  <2> QED
    BY <2>1, <2>3, <2>4, <2>5, <2>6
<1>9. /\ v \in Seq(S) /\ None(v, {"attached"}) /\ None(v, {"switch"}) /\ None(v, Undoes(h1.does)) /\ None(v, Undoes(p.does))
      /\ None(v, Undoes(e.does))
      /\ env.s18 => ToCome(v, m) /\ ToCome(v, g)
  <2>1. CASE env.s18
    <3>1. v = <<m, g>>
      BY <2>1
    <3>2. <<m, g>> \in Seq(S)
      BY <1>2
    <3> HIDE DEF v
    <3> QED
      BY <1>1, <1>6, <2>1, <3>1, <3>2, TwoListed
  <2>2. CASE ~env.s18
    <3>1. v = <<>>
      BY <2>2
    <3> HIDE DEF v
    <3> QED
      BY <1>7, <2>2, <3>1
  <2> QED
    BY <2>1, <2>2
<1>10. /\ w \in Seq(S) /\ None(w, {"attached"}) /\ None(w, {"switch"}) /\ None(w, Undoes(p.does)) /\ None(w, Undoes(e.does))
       /\ IF env.s18 THEN /\ None(w, Undoes(m.does)) /\ None(w, Undoes(g.does))
                          /\ ToCome(w, a) /\ ToCome(w, h4) /\ ToCome(w, r)
          ELSE None(w, Undoes(h1.does))
  <2>1. CASE env.s18
    <3>1. w = <<a, h4, r>>
      BY <2>1
    <3>2. <<a, h4, r>> \in Seq(S)
      BY <1>2
    <3> HIDE DEF w
    <3>3. w \in Seq(S) /\ Len(w) = 3 /\ w[1] = a /\ w[2] = h4 /\ w[3] = r
      BY <3>1, <3>2
    <3>4. \A i \in 1 .. Len(w) : i = 1 \/ i = 2 \/ i = 3
      BY <3>3
    <3>5. \A i \in 1 .. Len(w) : w[i].does \in {"acmd6", "hostWidth", "recordWidth"}
      BY <1>1, <3>3, <3>4
    <3>6. /\ None(w, {"attached"}) /\ None(w, {"switch"}) /\ None(w, Undoes(p.does)) /\ None(w, Undoes(e.does))
          /\ None(w, Undoes(m.does)) /\ None(w, Undoes(g.does))
      BY <1>6, <2>1, <3>5 DEF None
    <3>7. ToCome(w, a)
      <4>1. 1 \in 1 .. Len(w) /\ \A i \in 1 + 1 .. Len(w) : w[i].does \notin Undoes(a.does)
        BY <1>1, <1>6, <3>3, <3>4
      <4> QED
        BY <3>3, <4>1 DEF ToCome
    <3>8. ToCome(w, h4)
      <4>1. 2 \in 1 .. Len(w) /\ \A i \in 2 + 1 .. Len(w) : w[i].does \notin Undoes(h4.does)
        BY <1>1, <1>6, <3>3, <3>4
      <4> QED
        BY <3>3, <4>1 DEF ToCome
    <3>9. ToCome(w, r)
      <4>1. 3 \in 1 .. Len(w) /\ \A i \in 3 + 1 .. Len(w) : w[i].does \notin Undoes(r.does)
        BY <3>3
      <4> QED
        BY <3>3, <4>1 DEF ToCome
    <3> QED
      BY <2>1, <3>3, <3>6, <3>7, <3>8, <3>9
  <2>2. CASE ~env.s18
    <3>1. w = <<>>
      BY <2>2
    <3> HIDE DEF w
    <3> QED
      BY <1>7, <2>2, <3>1
  <2> QED
    BY <2>1, <2>2
<1>11. <<d>> \in Seq(S)
  BY <1>2
<1> HIDE DEF first, v, w, l1, l2, t
<1>12. \A kinds : "attached" \notin kinds => None(<<d>>, kinds)
  BY <1>1, OneListed
<1>13. l1 \in Seq(S) /\ l2 \in Seq(S) /\ t \in Seq(S)
  BY <1>8, <1>9, <1>10, <1>11, Joined DEF l1, l2, t
<1>14. ToCome(l1, p) /\ ToCome(l1, e) /\ ToCome(l1, h1)
  BY <1>8, <1>9, ToComeBefore DEF l1
<1>15. ToCome(l2, p) /\ ToCome(l2, e)
  BY <1>10, <1>13, <1>14, ToComeBefore DEF l2
<1>16. "attached" \notin Undoes(p.does) /\ "attached" \notin Undoes(e.does)
  BY <1>6
<1>17. ToCome(t, p) /\ ToCome(t, e)
  <2>1. None(<<d>>, Undoes(p.does)) /\ None(<<d>>, Undoes(e.does))
    BY <1>12, <1>16
  <2> QED
    BY <1>11, <1>13, <1>15, <2>1, ToComeBefore DEF t
<1>18. \A s \in Finals(o) : ToCome(t, s)
  <2>1. ASSUME env.s18 PROVE ToCome(t, m) /\ ToCome(t, g) /\ ToCome(t, a) /\ ToCome(t, h4) /\ ToCome(t, r)
    <3>1. ToCome(l1, m) /\ ToCome(l1, g)
      BY <1>8, <1>9, <2>1, ToComeLater DEF l1
    <3>2. ToCome(l2, m) /\ ToCome(l2, g)
      BY <1>10, <1>13, <2>1, <3>1, ToComeBefore DEF l2
    <3>3. ToCome(l2, a) /\ ToCome(l2, h4) /\ ToCome(l2, r)
      BY <1>10, <1>13, <2>1, ToComeLater DEF l2
    <3>4. /\ None(<<d>>, Undoes(m.does)) /\ None(<<d>>, Undoes(g.does)) /\ None(<<d>>, Undoes(a.does))
          /\ None(<<d>>, Undoes(h4.does)) /\ None(<<d>>, Undoes(r.does))
      BY <1>6, <1>12
    <3>5. ToCome(t, m) /\ ToCome(t, g)
      BY <1>11, <1>13, <3>2, <3>4, ToComeBefore DEF t
    <3>6. ToCome(t, a) /\ ToCome(t, h4) /\ ToCome(t, r)
      BY <1>11, <1>13, <3>3, <3>4, ToComeBefore DEF t
    <3> QED
      BY <3>5, <3>6
  <2>2. ASSUME ~env.s18 PROVE ToCome(t, h1)
    <3>1. ToCome(l2, h1)
      BY <1>10, <1>13, <1>14, <2>2, ToComeBefore DEF l2
    <3>2. None(<<d>>, Undoes(h1.does))
      BY <1>6, <1>12
    <3> QED
      BY <1>11, <1>13, <3>1, <3>2, ToComeBefore DEF t
  <2> QED
    BY <1>3, <1>5, <1>17, <2>1, <2>2
<1>19. None(l2, {"attached"}) /\ None(t, {"switch"})
  <2>1. None(first, {"attached"}) /\ None(first, {"switch"})
    BY <1>8 DEF None
  <2>2. None(l1, {"attached"}) /\ None(l1, {"switch"})
    BY <1>8, <1>9, <2>1, NoneJoined DEF l1
  <2>3. None(l2, {"attached"}) /\ None(l2, {"switch"})
    BY <1>10, <1>13, <2>2, NoneJoined DEF l2
  <2>4. None(<<d>>, {"switch"})
    BY <1>12
  <2> QED
    BY <1>11, <1>13, <2>3, <2>4, NoneJoined DEF t
<1>20. ASSUME ~env.s18 PROVE None(t, {"cmd11", "v18", "acmd6", "recordWidth"})
  <2> DEFINE kinds == {"cmd11", "v18", "acmd6", "recordWidth"}
  <2>1. None(first, kinds)
    BY <1>8 DEF None
  <2>2. v = <<>> /\ w = <<>>
    BY <1>20 DEF v, w
  <2>3. None(v, kinds) /\ None(w, kinds) /\ None(<<d>>, kinds)
    BY <1>7, <1>12, <2>2
  <2> HIDE DEF kinds
  <2>4. None(l1, kinds)
    BY <1>8, <1>9, <2>1, <2>3, NoneJoined DEF l1
  <2>5. None(l2, kinds)
    BY <1>10, <1>13, <2>3, <2>4, NoneJoined DEF l2
  <2>6. None(t, kinds)
    BY <1>11, <1>13, <2>3, <2>5, NoneJoined DEF t
  <2> QED
    BY <2>6 DEF kinds
<1>21. \A i \in 1 .. Len(t) : t[i].does = "attached" <=> i = Len(t)
  <2>1. <<d>> \in Seq(S) /\ Len(<<d>>) = 1 /\ <<d>>[1] = d
    BY <1>11
  <2>2. Len(t) = Len(l2) + 1 /\ Len(l2) \in Nat /\ t[Len(l2) + 1] = d
    BY <1>13, <2>1, Parts DEF t
  <2>3. \A i \in 1 .. Len(l2) : t[i] = l2[i]
    BY <1>13, <2>1, Parts DEF t
  <2>4. \A i \in 1 .. Len(l2) : t[i].does # "attached"
    BY <1>19, <2>3 DEF None
  <2> QED
    BY <1>1, <2>2, <2>4
<1>22. t # <<>>
  <2>1. Len(l2) \in Nat /\ Len(t) = Len(l2) + 1
    BY <1>11, <1>13, Parts DEF t
  <2> QED
    BY <2>1
<1>23. Drawn(o, t)
  BY <1>3, <1>18, <1>19, <1>20, <1>21, <1>22 DEF Drawn, Shape, OnceShape, AttachShape, None, FourKinds
<1> QED
  BY <1>4, <1>23

\* Every function's list.
LEMMA StepsDrawn ==
    ASSUME TypeInv, SideInv, NEW o \in Ops, o.name # "detach", InOrder(o)
    PROVE  Drawn(o, Steps(o))
<1>0. env.type = "sd" \/ env.type = "mmc"
  BY ModeAssumption DEF TypeInv
<1>1. CASE o.name = "high"
  <2>1. o.arg \in BOOLEAN
    BY <1>1 DEF Ops
  <2>2. env.type = "mmc" => o.arg = TRUE
    BY <1>1, <2>1 DEF InOrder
  <2> QED
    BY <1>1, <2>1, <2>2, HighDrawn DEF Steps
<1>2. CASE o.name = "mode"
  <2>1. o.arg \in SdModes \cup MmcModes
    BY <1>2 DEF Ops
  <2> QED
    BY <1>2, <2>1, SdModeDrawn, MmcModeDrawn DEF Steps
<1>3. CASE o.name = "width"
  BY <1>3, WidthDrawn DEF Steps
<1>4. CASE o.name = "strength"
  BY <1>4, StrengthDrawn DEF Steps
<1>5. CASE o.name = "attach"
  BY <1>5, AttachDrawn DEF Steps, SideInv
<1>6. CASE o.name \in {"clock", "generator", "tune"}
  <2>1. Steps(o) \in Seq(Alphabet(o))
    BY StepsTyped
  <2>2. \A s \in Alphabet(o) : s.does # "switch"
    BY <1>6 DEF Alphabet, OtherSteps, Some, Refusal, Step
  <2> HIDE DEF Alphabet, Steps
  <2>3. \A i \in 1 .. Len(Steps(o)) : Steps(o)[i] \in Alphabet(o)
    BY <2>1
  <2>4. OnceShape(Steps(o))
    BY <2>2, <2>3 DEF OnceShape
  <2>5. Finals(o) = {}
    BY <1>6 DEF Finals
  <2> QED
    BY <1>6, <2>4, <2>5 DEF Drawn, Shape, FourKinds
<1> QED
  BY <1>1, <1>2, <1>3, <1>4, <1>5, <1>6 DEF Ops

---------------------------------------------------------------------------------------
(***************************************************************************)
(* What a step leaves of the list.                                         *)
(***************************************************************************)

\* Where a function's settings are not touched, what it comes to stays the same.
LEMMA FinalsKept ==
    ASSUME NEW o, op' = o, env' = env, o.name = "mode" => host'.v18 = host.v18 /\ slot'.width = slot.width,
           o.name = "width" => slot'.mode = slot.mode
    PROVE  Finals(op)' = Finals(o)
<1>1. CASE o.name = "mode"
  BY <1>1 DEF Finals, ModeFinals, SdFinals, BusWidthFor, TimingFor, Step
<1>2. CASE o.name = "width"
  BY <1>2 DEF Finals, WidthFinals, DeviceWidth, BusWidthIn, BusWidthFor, Step
<1>3. CASE o.name \notin {"mode", "width"}
  BY <1>3 DEF Finals, HighFinals, SdFinals, StrengthFinals, AttachFinals, Step
<1> QED
  BY <1>1, <1>2, <1>3

LEMMA UndoesKept ==
    ASSUME env' = env, NEW s
    PROVE  Undoes(s.does)' = Undoes(s.does)
  BY DEF Undoes

LEMMA ToComeKept ==
    ASSUME env' = env, NEW t, todo' = t, NEW s, ToCome(t, s)
    PROVE  ToCome(todo, s)'
  BY UndoesKept DEF ToCome

\* The head of the list is taken.
LEMMA TailOf ==
    ASSUME TypeInv, status = "run", todo # <<>>
    PROVE  /\ Len(todo) \in Nat \ {0} /\ Len(Tail(todo)) = Len(todo) - 1 /\ Head(todo) = todo[1]
           /\ \A i \in 1 .. Len(Tail(todo)) : i + 1 \in 2 .. Len(todo) /\ Tail(todo)[i] = todo[i + 1]
<1>1. /\ Head(todo) = todo[1] /\ Len(todo) \in Nat \ {0} /\ Len(Tail(todo)) = Len(todo) - 1
      /\ \A i \in 1 .. Len(Tail(todo)) : Tail(todo)[i] = todo[i + 1]
  BY HeadKnown
<1> QED
  BY <1>1

LEMMA TailComes ==
    ASSUME TypeInv, status = "run", todo # <<>>, NEW s, ToCome(todo, s)
    PROVE  \/ ToCome(Tail(todo), s)
           \/ Head(todo) = s /\ None(Tail(todo), Undoes(s.does))
<1> DEFINE t == Tail(todo)
           K == Undoes(s.does)
<1>1. /\ Len(todo) \in Nat \ {0} /\ Len(t) = Len(todo) - 1 /\ Head(todo) = todo[1]
      /\ \A i \in 1 .. Len(t) : i + 1 \in 2 .. Len(todo) /\ t[i] = todo[i + 1]
  BY TailOf
<1> HIDE DEF t, K
<1>2. PICK k \in 1 .. Len(todo) : todo[k] = s /\ \A i \in k + 1 .. Len(todo) : todo[i].does \notin K
  BY DEF ToCome, K
<1>3. ASSUME k = 1 PROVE Head(todo) = s /\ None(t, K)
  <2>1. \A i \in 1 .. Len(t) : t[i].does \notin K
    BY <1>1, <1>2, <1>3
  <2> QED
    BY <1>1, <1>2, <1>3, <2>1 DEF None
<1>4. ASSUME k # 1 PROVE ToCome(t, s)
  <2>1. k - 1 \in 1 .. Len(t) /\ t[k - 1] = s
    BY <1>1, <1>2, <1>4
  <2>2. ASSUME NEW i \in (k - 1) + 1 .. Len(t) PROVE t[i].does \notin K
    <3>1. i \in 1 .. Len(t) /\ i + 1 \in k + 1 .. Len(todo)
      BY <1>1, <1>2, <1>4
    <3> QED
      BY <1>1, <1>2, <3>1
  <2> QED
    BY <2>1, <2>2 DEF ToCome, K
<1> QED
  BY <1>3, <1>4 DEF t, K

LEMMA TailNone ==
    ASSUME TypeInv, status = "run", todo # <<>>, NEW kinds, None(todo, kinds)
    PROVE  Head(todo).does \notin kinds /\ None(Tail(todo), kinds)
<1> DEFINE t == Tail(todo)
<1>1. /\ Len(todo) \in Nat \ {0} /\ Len(t) = Len(todo) - 1 /\ Head(todo) = todo[1]
      /\ \A i \in 1 .. Len(t) : i + 1 \in 2 .. Len(todo) /\ t[i] = todo[i + 1]
  BY TailOf
<1> HIDE DEF t
<1>2. Head(todo).does \notin kinds /\ None(t, kinds)
  BY <1>1 DEF None
<1> QED
  BY <1>2 DEF t

LEMMA TailLed ==
    ASSUME TypeInv, status = "run", todo # <<>>, Led(todo)
    PROVE  /\ Head(todo).does \notin Writes
           /\ Head(todo).does \notin Switches \cup {"refuse"} => Led(Tail(todo))
<1> DEFINE t == Tail(todo)
<1>1. /\ Len(todo) \in Nat \ {0} /\ Len(t) = Len(todo) - 1 /\ Head(todo) = todo[1]
      /\ \A i \in 1 .. Len(t) : i + 1 \in 2 .. Len(todo) /\ t[i] = todo[i + 1]
  BY TailOf
<1> HIDE DEF t
<1>2. PICK k \in 1 .. Len(todo) : todo[k].does \in Switches \cup {"refuse"} /\ \A i \in 1 .. k : todo[i].does \notin Writes
  BY DEF Led
<1>3. Head(todo).does \notin Writes
  BY <1>1, <1>2
<1>4. ASSUME Head(todo).does \notin Switches \cup {"refuse"} PROVE Led(t)
  <2>1. k # 1
    BY <1>1, <1>2, <1>4
  <2>2. k - 1 \in 1 .. Len(t) /\ t[k - 1] = todo[k]
    BY <1>1, <1>2, <2>1
  <2>3. \A i \in 1 .. k - 1 : t[i] = todo[i + 1] /\ i + 1 \in 1 .. k
    BY <1>1, <1>2, <2>1
  <2> QED
    BY <1>2, <2>2, <2>3 DEF Led
<1> QED
  BY <1>3, <1>4 DEF t

LEMMA TailShape ==
    ASSUME TypeInv, status = "run", todo # <<>>, Shape(op, todo), NEW w, w = Tail(todo), todo' = w, env' = env, op' = op
    PROVE  Shape(op, todo)'
<1>1. /\ Len(todo) \in Nat \ {0} /\ Len(w) = Len(todo) - 1 /\ Head(todo) = todo[1]
      /\ \A i \in 1 .. Len(w) : i + 1 \in 2 .. Len(todo) /\ w[i] = todo[i + 1]
  BY TailOf
<1>2. ASSUME AttachShape(todo) PROVE AttachShape(w)
  <2>1. ASSUME NEW i \in 1 .. Len(w) PROVE w[i].does = "attached" <=> i = Len(w)
    <3>1. i + 1 \in 1 .. Len(todo) /\ w[i] = todo[i + 1]
      BY <1>1
    <3>2. todo[i + 1].does = "attached" <=> i + 1 = Len(todo)
      BY <1>2, <3>1 DEF AttachShape
    <3>3. i + 1 = Len(todo) <=> i = Len(w)
      BY <1>1
    <3> QED
      BY <3>1, <3>2, <3>3
  <2>2. env.s18 = FALSE => None(w, {"cmd11", "v18", "acmd6", "recordWidth"})
    BY <1>2, TailNone DEF AttachShape
  <2> QED
    BY <2>1, <2>2 DEF AttachShape
<1>3. ASSUME WidthShape(todo, op.arg) PROVE WidthShape(w, op.arg)
  <2>1. ASSUME NEW i \in 1 .. Len(w), w[i].does = "hostWidth" PROVE Len(w) = i + 1 /\ w[i + 1] = Step("recordWidth", op.arg)
    <3>1. i + 1 \in 1 .. Len(todo) /\ todo[i + 1].does = "hostWidth"
      BY <1>1, <2>1
    <3>2. Len(todo) = i + 2 /\ todo[i + 2] = Step("recordWidth", op.arg)
      BY <1>3, <3>1 DEF WidthShape
    <3>3. i + 1 \in 1 .. Len(w)
      BY <1>1, <3>2
    <3> QED
      BY <1>1, <3>2, <3>3
  <2>2. ASSUME NEW i \in 1 .. Len(w), w[i].does = "recordWidth"
        PROVE  Len(w) = i /\ (i > 1 => w[i - 1].does = "hostWidth")
    <3>1. i + 1 \in 1 .. Len(todo) /\ todo[i + 1].does = "recordWidth"
      BY <1>1, <2>2
    <3>2. Len(todo) = i + 1 /\ todo[i].does = "hostWidth"
      BY <1>3, <3>1 DEF WidthShape
    <3>3. i > 1 => i - 1 \in 1 .. Len(w) /\ w[i - 1] = todo[i]
      BY <1>1
    <3> QED
      BY <1>1, <3>2, <3>3
  <2> QED
    BY <2>1, <2>2 DEF WidthShape
<1>4. ASSUME OnceShape(todo) PROVE OnceShape(w)
  <2> SUFFICES ASSUME NEW i \in 1 .. Len(w), NEW j \in 1 .. Len(w), w[i].does = "switch", w[j].does = "switch"
               PROVE  i = j
    BY DEF OnceShape
  <2>1. i + 1 \in 1 .. Len(todo) /\ j + 1 \in 1 .. Len(todo) /\ todo[i + 1].does = "switch" /\ todo[j + 1].does = "switch"
    BY <1>1
  <2>2. i + 1 = j + 1
    BY <1>4, <2>1 DEF OnceShape
  <2> QED
    BY <1>1, <2>2
<1>5. Shape(op, w)
  BY <1>2, <1>3, <1>4 DEF Shape
<1> QED
  BY <1>5 DEF Shape, AttachShape, WidthShape, OnceShape, None, Step

\* The only switch of a list is not found behind it.
LEMMA TailOnce ==
    ASSUME TypeInv, status = "run", todo # <<>>, OnceShape(todo), Head(todo).does = "switch"
    PROVE  None(Tail(todo), {"switch"})
<1> DEFINE t == Tail(todo)
<1>1. /\ Len(todo) \in Nat \ {0} /\ Len(t) = Len(todo) - 1 /\ Head(todo) = todo[1]
      /\ \A i \in 1 .. Len(t) : i + 1 \in 2 .. Len(todo) /\ t[i] = todo[i + 1]
  BY TailOf
<1> HIDE DEF t
<1>2. ASSUME NEW i \in 1 .. Len(t), t[i].does = "switch" PROVE FALSE
  <2>1. i + 1 \in 1 .. Len(todo) /\ 1 \in 1 .. Len(todo) /\ todo[i + 1].does = "switch" /\ todo[1].does = "switch"
    BY <1>1, <1>2
  <2>2. i + 1 = 1
    BY <2>1 DEF OnceShape
  <2> QED
    BY <1>1, <2>2
<1>3. None(t, {"switch"})
  BY <1>2 DEF None
<1> QED
  BY <1>3 DEF t

\* What only one kind of function takes is not in the list of another.
LEMMA SwitchesApart ==
    ASSUME TypeInv, status = "run", todo # <<>>, Head(todo).does \in {"timing", "busWidth", "acmd6"}
    PROVE  None(Tail(todo), {"switch"})
<1>1. Expects(Head(todo)) /\ Tail(todo) \in Seq(Alphabet(op))
  BY HeadKnown
<1>2. env.type = "mmc" \/ op.name \in {"width", "attach"}
  BY <1>1 DEF Expects
<1>3. \A s \in Alphabet(op) : s.does # "switch"
  BY <1>2, HeadExpected DEF Expects
<1> HIDE DEF Alphabet
<1>4. \A i \in 1 .. Len(Tail(todo)) : Tail(todo)[i] \in Alphabet(op)
  BY <1>1
<1> QED
  BY <1>3, <1>4 DEF None

---------------------------------------------------------------------------------------
(***************************************************************************)
(* What a step changes of the settings.                                    *)
(***************************************************************************)

Does == Head(todo).does
CardFrame ==
    /\ op.name # "attach" \/ status' = "run" =>
          /\ card'.timing = card.timing \/ Does \in {"timing", "power"} \/ (Does = "switch" /\ op.name # "strength")
          /\ (card'.ddr = card.ddr /\ card'.strobe = card.strobe) \/ Does \in {"busWidth", "power"}
          /\ card'.width = card.width \/ Does \in {"busWidth", "acmd6", "power"}
          /\ card'.v18 = card.v18 \/ Does \in {"cmd11", "power"}
          /\ card'.strength = card.strength \/ Does = "power" \/ (Does = "switch" /\ op.name = "strength")
    /\ \/ card'.ddr = card.ddr /\ card'.strobe = card.strobe
       \/ Does = "busWidth" /\ (card'.strobe => card'.ddr)
       \/ card'.ddr = FALSE /\ card'.strobe = FALSE
    /\ card'.strength = card.strength \/ card'.strength = "B" \/ Does = "switch"
    \* What a width changes is as the slot's mode says, a mode leaves the width as the slot has it.
    /\ Does = "busWidth" =>
          /\ card'.width = card.width \/ op.name = "width" \/ card'.width = slot.width
          /\ op.name = "width" =>
                \/ card'.ddr = card.ddr /\ card'.strobe = card.strobe
                \/ card'.ddr = BusWidthFor(slot.mode, 1).ddr /\ card'.strobe = (slot.mode = "HS_400_ES")
HostFrame ==
    /\ host'.emmc = host.emmc \/ Does = "hostEmmc"
    /\ host'.hs = host.hs \/ Does \in {"hostHs", "hostUhs"}
    /\ host'.uhs = host.uhs \/ Does = "hostUhs"
    /\ host'.v18 = host.v18 \/ Does = "v18"
    /\ host'.width = host.width \/ Does = "hostWidth"
    /\ host'.strength = host.strength \/ Does = "hostStrength"
SlotFrame ==
    /\ slot'.mode = slot.mode \/ Does = "record"
       \/ (Does = "identify" /\ slot'.mode \in {slot.mode} \cup IF env.type = "mmc" THEN {"MMC_LEGACY"} ELSE {})
    /\ slot'.width = slot.width \/ Does \in {"recordWidth", "identify"}
    /\ slot'.uhsi = slot.uhsi \/ Does = "v18"
    /\ slot'.attached = slot.attached \/ (Does = "attached" /\ slot'.attached = TRUE)

\* The card after power up, field by field.
LEMMA FreshIs ==
    /\ Fresh.ddr = FALSE /\ Fresh.strobe = FALSE /\ Fresh.width = 1 /\ Fresh.v18 = FALSE /\ Fresh.strength = "B"
    /\ Fresh.timing = IF env.type = "sd" THEN "SDR12" ELSE "legacy"
  BY DEF Fresh

LEMMA DeviceFrame ==
    ASSUME TypeInv, Switch
    PROVE  CardFrame /\ UNCHANGED <<host, slot>>
<1> DEFINE s == Head(todo)
<1>1. status = "run" /\ todo # <<>> /\ s.does \in {"timing", "busWidth", "acmd6"} /\ UNCHANGED <<host, slot>>
  BY DEF Switch, At
<1>2. Expects(s) /\ card \in CardType /\ s.does = Does /\ slot.width \in Widths
  BY <1>1, HeadKnown DEF TypeInv, Does, SlotType
<1>3. card' = DeviceAfter \/ card' = card
  BY DEF Switch
<1>4. CASE card' = card
  BY <1>1, <1>2, <1>4 DEF CardFrame, CardType
<1>5. CASE s.does = "timing" /\ card' = DeviceAfter
  <2>1. card' = [card EXCEPT !.timing = s.arg]
    BY <1>5, Zenon DEF DeviceAfter, Arg
  <2> HIDE DEF s
  <2> QED
    BY <1>1, <1>2, <1>5, <2>1 DEF CardFrame, CardType
<1>6. CASE s.does = "busWidth" /\ card' = DeviceAfter
  <2>1. card' = [card EXCEPT !.width = s.arg.width, !.ddr = s.arg.ddr, !.strobe = s.arg.strobe]
    BY <1>6, Zenon DEF DeviceAfter, Arg
  <2>2. s.arg \in BusArgs /\ (op.name = "width" => s.arg = BusWidthIn(slot.mode, op.arg))
        /\ (op.name # "width" => s.arg.width = slot.width)
    BY <1>2, <1>6 DEF Expects
  <2>3. op.name = "width" => s.arg.ddr = BusWidthFor(slot.mode, 1).ddr /\ s.arg.strobe = (slot.mode = "HS_400_ES")
    BY <2>2 DEF BusWidthIn, BusWidthFor
  <2>4. s.arg \in [width : Widths, ddr : BOOLEAN, strobe : BOOLEAN] /\ (s.arg.strobe => s.arg.ddr)
    BY <2>2 DEF BusArgs
  <2> HIDE DEF s
  <2>5. /\ card'.width = s.arg.width /\ card'.ddr = s.arg.ddr /\ card'.strobe = s.arg.strobe
        /\ card'.timing = card.timing /\ card'.v18 = card.v18 /\ card'.strength = card.strength
    BY <1>2, <2>1, <2>4 DEF CardType
  <2> QED
    BY <1>1, <1>2, <1>6, <2>2, <2>3, <2>4, <2>5 DEF CardFrame
<1>7. CASE s.does = "acmd6" /\ card' = DeviceAfter
  <2>1. card' = [card EXCEPT !.width = s.arg]
    BY <1>7, Zenon DEF DeviceAfter, Arg
  <2> HIDE DEF s
  <2> QED
    BY <1>1, <1>2, <1>7, <2>1 DEF CardFrame, CardType
<1> QED
  BY <1>1, <1>3, <1>4, <1>5, <1>6, <1>7

LEMMA SwitchFrame ==
    ASSUME TypeInv, SwitchFn
    PROVE  CardFrame /\ UNCHANGED <<host, slot>>
<1>1. status = "run" /\ todo # <<>> /\ Does = "switch" /\ UNCHANGED <<host, slot>>
  BY DEF SwitchFn, At, Does
<1>2. Expects(Head(todo)) /\ card \in CardType
  BY <1>1, HeadKnown DEF TypeInv
<1>3. card' = SwitchTo(Arg) \/ card' = card
  BY DEF SwitchFn, Taken
<1>4. Arg \in IF op.name = "strength" THEN Strengths ELSE SdModes
  BY <1>1, <1>2 DEF Expects, Arg, Does
<1>5. CASE op.name = "strength" /\ card' = SwitchTo(Arg)
  <2>1. card' = [card EXCEPT !.strength = Arg]
    BY <1>4, <1>5 DEF SwitchTo, Strengths, SdModes
  <2> QED
    BY <1>1, <1>2, <1>5, <2>1 DEF CardFrame, CardType
<1>6. CASE op.name # "strength" /\ card' = SwitchTo(Arg)
  <2>1. card' = [card EXCEPT !.timing = Arg]
    BY <1>4, <1>6 DEF SwitchTo
  <2> QED
    BY <1>1, <1>2, <1>6, <2>1 DEF CardFrame, CardType
<1>7. CASE card' = card
  BY <1>1, <1>7 DEF CardFrame
<1> QED
  BY <1>1, <1>3, <1>5, <1>6, <1>7

LEMMA WriteFrame ==
    ASSUME TypeInv, WriteHost
    PROVE  CardFrame /\ HostFrame /\ UNCHANGED slot
<1>1. /\ Does \in {"hostEmmc", "hostHs", "hostUhs", "hostWidth", "hostStrength", "power"} /\ UNCHANGED slot
      /\ host' = HostAfter /\ card' = (IF Does = "power" THEN Fresh ELSE card)
  BY DEF WriteHost, At, Does
<1>2. host \in HostType
  BY DEF TypeInv
<1>3. CardFrame
  BY <1>1, FreshIs DEF CardFrame
<1>4. \/ Does = "hostEmmc" /\ host' = [host EXCEPT !.emmc = Arg]
      \/ Does = "hostHs" /\ host' = [host EXCEPT !.hs = Arg]
      \/ Does = "hostUhs" /\ host' = [host EXCEPT !.hs = Arg # "SDR12", !.uhs = Arg]
      \/ Does = "hostWidth" /\ host' = [host EXCEPT !.width = Arg]
      \/ Does = "hostStrength" /\ host' = [host EXCEPT !.strength = Arg]
      \/ Does = "power" /\ host' = [host EXCEPT !.power = Arg]
  BY <1>1, Zenon DEF HostAfter, Does
<1>5. HostFrame
  BY <1>2, <1>4 DEF HostFrame, HostType
<1> QED
  BY <1>1, <1>3, <1>5

LEMMA RecordFrame ==
    ASSUME TypeInv, Record
    PROVE  SlotFrame /\ UNCHANGED <<card, host>>
<1>1. Does \in {"record", "recordWidth", "recordProg", "attached"} /\ UNCHANGED <<card, host>> /\ slot' = SlotAfter
  BY DEF Record, At, Does
<1>2. slot \in SlotType
  BY DEF TypeInv
<1>3. \/ Does = "record" /\ slot' = [slot EXCEPT !.mode = Arg]
      \/ Does = "recordWidth" /\ slot' = [slot EXCEPT !.width = Arg]
      \/ Does = "recordProg" /\ slot' = [slot EXCEPT !.prog = Arg]
      \/ Does = "attached" /\ slot' = [slot EXCEPT !.attached = TRUE]
  BY <1>1, Zenon DEF SlotAfter, Does
<1> QED
  BY <1>1, <1>2, <1>3 DEF SlotFrame, SlotType

LEMMA AttachFrame ==
    ASSUME TypeInv, Identify \/ Cmd11 \/ Voltage
    PROVE  CardFrame /\ HostFrame /\ SlotFrame
<1>0. card \in CardType /\ host \in HostType /\ slot \in SlotType
  BY DEF TypeInv
<1>1. status = "run" /\ todo # <<>> /\ Does \in {"identify", "cmd11", "v18"}
  BY DEF Identify, Cmd11, Voltage, At, Does
<1>2. op.name = "attach"
  BY <1>1, HeadKnown DEF Expects, Does
<1>3. CASE Identify
  <2>1. UNCHANGED <<card, host>> /\ Does = "identify"
    BY <1>3 DEF Identify, At, Does
  <2>2. \/ slot' = [slot EXCEPT !.width = 1, !.mode = IF env.type = "mmc" THEN "MMC_LEGACY" ELSE slot.mode]
        \/ slot' = slot \/ slot' = [slot EXCEPT !.width = 1]
    BY <1>3 DEF Identify
  <2>3. SlotFrame
    BY <1>0, <2>1, <2>2 DEF SlotFrame, SlotType
  <2> QED
    BY <2>1, <2>3 DEF CardFrame, HostFrame
<1>4. CASE Cmd11
  <2>1. UNCHANGED slot /\ Does = "cmd11"
    BY <1>4 DEF Cmd11, At, Does
  <2>2. \/ card' = [card EXCEPT !.v18 = TRUE] /\ UNCHANGED host
        \/ card' = Fresh /\ host' = [host EXCEPT !.power = FALSE] /\ status' = "error"
    BY <1>4, Zenon DEF Cmd11, PowerOff, Fail, FailIf
  <2>3. HostFrame
    BY <1>0, <2>2 DEF HostFrame, HostType
  <2>4. CardFrame
    BY <1>0, <1>2, <2>1, <2>2, FreshIs DEF CardFrame, CardType
  <2> QED
    BY <2>1, <2>3, <2>4 DEF SlotFrame
<1>5. CASE Voltage
  <2>1. Does = "v18"
    BY <1>5 DEF Voltage, At, Does
  <2>2. \/ host' = [host EXCEPT !.v18 = TRUE] /\ slot' = [slot EXCEPT !.uhsi = TRUE] /\ UNCHANGED card
        \/ /\ card' = Fresh /\ status' = "error" /\ UNCHANGED slot
           /\ \E v18 \in BOOLEAN : host' = [host EXCEPT !.v18 = v18, !.power = FALSE]
    BY <1>5, Zenon DEF Voltage, Fail, FailIf
  <2>3. HostFrame
    BY <1>0, <2>1, <2>2 DEF HostFrame, HostType
  <2>4. SlotFrame
    BY <1>0, <2>1, <2>2 DEF SlotFrame, SlotType
  <2>5. CardFrame
    BY <1>0, <1>2, <2>1, <2>2, FreshIs DEF CardFrame, CardType
  <2> QED
    BY <2>3, <2>4, <2>5
<1> QED
  BY <1>3, <1>4, <1>5

LEMMA Framed ==
    ASSUME TypeInv, Takes
    PROVE  CardFrame /\ HostFrame /\ SlotFrame
<1>1. CASE Switch
  BY <1>1, DeviceFrame DEF HostFrame, SlotFrame
<1>2. CASE SwitchFn
  BY <1>2, SwitchFrame DEF HostFrame, SlotFrame
<1>3. CASE WriteHost
  BY <1>3, WriteFrame DEF SlotFrame
<1>4. CASE Record
  BY <1>4, RecordFrame DEF CardFrame, HostFrame
<1>5. CASE Identify \/ Cmd11 \/ Voltage
  BY <1>5, AttachFrame
<1>6. CASE ReadExtCsd \/ Supports \/ Check \/ Refuse \/ SetClock \/ TuneMmc \/ TuneSd
  <2>1. UNCHANGED card /\ host \in HostType /\ slot \in SlotType
    BY <1>6 DEF ReadExtCsd, Supports, Check, Refuse, SetClock, TuneMmc, TuneSd, TypeInv
  <2>2. \/ host' = host \/ \E d : host' = [host EXCEPT !.delay = d] \/ host' = [host EXCEPT !.sampling = d]
    BY <1>6, Zenon DEF ReadExtCsd, Supports, Check, Refuse, SetClock, TuneMmc, TuneSd
  <2>3. slot' = slot \/ \E d : slot' = [slot EXCEPT !.retuning = d]
    BY <1>6, Zenon DEF ReadExtCsd, Supports, Check, Refuse, SetClock, TuneMmc, TuneSd
  <2>4. HostFrame
    BY <2>1, <2>2 DEF HostFrame, HostType
  <2>5. SlotFrame
    BY <2>1, <2>3 DEF SlotFrame, SlotType
  <2>6. card' = card => CardFrame
    <3>1. Does = "busWidth" => Switch
      BY <1>6 DEF ReadExtCsd, Supports, Check, Refuse, SetClock, TuneMmc, TuneSd, At, Does
    <3> QED
      BY <3>1, DeviceFrame DEF CardFrame
  <2> QED
    BY <2>1, <2>4, <2>5, <2>6
<1> QED
  BY <1>1, <1>2, <1>3, <1>4, <1>5, <1>6 DEF Takes

---------------------------------------------------------------------------------------
(***************************************************************************)
(* How a step ends, and what it has the function remember.                 *)
(***************************************************************************)

LEMMA Ends ==
    ASSUME TypeInv, Takes
    PROVE  /\ Proceed \/ FailIf(TRUE) \/ (Fail /\ touched' = touched)
           /\ Does \notin Switches => touched' = touched
           /\ Does \in Switches => touched' # "no"
           /\ touched = "forgot" /\ Does # "switch" => touched' = "forgot"
           /\ Does = "refuse" => Fail
<1>0. touched \in {"no", "sent", "forgot"}
  BY DEF TypeInv
<1>1. CASE Switch
  <2>1. Does \in {"timing", "busWidth", "acmd6"}
    BY <1>1 DEF Switch, At, Does
  <2>2. Proceed \/ FailIf(TRUE)
    BY <1>1 DEF Switch
  <2>3. touched' \in {"forgot", "sent"} /\ (touched = "forgot" => touched' = "forgot")
    BY <1>1 DEF Switch
  <2> QED
    BY <2>1, <2>2, <2>3 DEF Switches
<1>2. CASE SwitchFn
  <2>1. Does = "switch"
    BY <1>2 DEF SwitchFn, At, Does
  <2>2. Proceed \/ FailIf(TRUE)
    BY <1>2, Zenon DEF SwitchFn
  <2>3. touched' \in {"forgot", "sent"}
    BY <1>2 DEF SwitchFn
  <2> QED
    BY <2>1, <2>2, <2>3 DEF Switches
<1>3. CASE ReadExtCsd \/ Supports \/ Check \/ Refuse \/ SetClock \/ TuneMmc \/ TuneSd
  <2>1. Does \in {"readExtCsd", "supports", "check", "refuse", "clock", "tuneMmc", "tuneSd"}
    BY <1>3 DEF ReadExtCsd, Supports, Check, Refuse, SetClock, TuneMmc, TuneSd, At, Does
  <2>2. touched' = touched
    BY <1>3 DEF ReadExtCsd, Supports, Check, Refuse, SetClock, TuneMmc, TuneSd
  <2>3. Proceed \/ Fail
    BY <1>3, Zenon DEF ReadExtCsd, Supports, Check, Refuse, SetClock, TuneMmc, TuneSd
  <2>4. Does = "refuse" => Refuse
    BY <1>3 DEF ReadExtCsd, Supports, Check, Refuse, SetClock, TuneMmc, TuneSd, At, Does
  <2>5. Does = "refuse" => Fail
    BY <2>4 DEF Refuse
  <2> QED
    BY <1>0, <2>1, <2>2, <2>3, <2>5 DEF Switches
<1>4. CASE WriteHost \/ Record \/ Identify \/ Cmd11 \/ Voltage
  <2>1. Does \in {"hostEmmc", "hostHs", "hostUhs", "hostWidth", "hostStrength", "power", "record", "recordWidth",
                  "recordProg", "attached", "identify", "cmd11", "v18"}
    BY <1>4 DEF WriteHost, Record, Identify, Cmd11, Voltage, At, Does
  <2>2. touched' = touched
    BY <1>4 DEF WriteHost, Record, Identify, Cmd11, Voltage
  <2>3. Proceed \/ Fail
    BY <1>4, Zenon DEF WriteHost, Record, Identify, Cmd11, Voltage
  <2> QED
    BY <1>0, <2>1, <2>2, <2>3 DEF Switches
<1> QED
  BY <1>1, <1>2, <1>3, <1>4 DEF Takes

\* The function goes on, or it ends in an error; what was in doubt stays so, and what a function
\* that has sent a switch was to set is in doubt from then on.
Doubts == doubt \cup Suspect
LEMMA DoubtsKept ==
    ASSUME TypeInv, Takes
    PROVE  /\ (status' = "run" /\ Proceed /\ doubt' = doubt) \/ (status' = "error" /\ todo' = <<>>)
           /\ Doubts \subseteq Doubts'
           /\ op.name \in FourKinds /\ touched' # "no" => Subject \in Doubts'
           /\ Subject' = Subject
<1>1. status = "run" /\ op' = op /\ Subject' = Subject
  BY TakesAStep DEF Subject
<1>2. /\ Proceed \/ FailIf(TRUE) \/ (Fail /\ touched' = touched)
      /\ Does \notin Switches => touched' = touched
      /\ Does \in Switches => touched' # "no"
  BY Ends
<1>3. Suspect = IF op.name \in FourKinds /\ touched # "no" THEN {Subject} ELSE {}
  BY <1>1 DEF Suspect
<1>4. touched # "no" => touched' # "no"
  BY <1>2
<1>5. CASE Proceed
  <2>1. status' = "run" /\ doubt' = doubt
    BY <1>1, <1>5 DEF Proceed
  <2>2. Suspect' = IF op.name \in FourKinds /\ touched' # "no" THEN {Subject} ELSE {}
    BY <1>1, <2>1 DEF Suspect
  <2> QED
    BY <1>1, <1>3, <1>4, <1>5, <2>1, <2>2 DEF Doubts
<1>6. CASE FailIf(TRUE)
  <2>1. status' = "error" /\ todo' = <<>>
    BY <1>6 DEF FailIf
  <2>2. doubt' = IF op.name \in FourKinds THEN doubt \cup {Subject} ELSE doubt
    BY <1>6, Zenon DEF FailIf, FourKinds
  <2> QED
    BY <1>1, <1>3, <2>1, <2>2 DEF Doubts
<1>7. CASE Fail /\ touched' = touched
  <2>1. status' = "error" /\ todo' = <<>>
    BY <1>7 DEF Fail, FailIf
  <2>2. doubt' = IF touched # "no" /\ op.name \in FourKinds THEN doubt \cup {Subject} ELSE doubt
    BY <1>7, Zenon DEF Fail, FailIf, FourKinds
  <2> QED
    BY <1>1, <1>3, <1>7, <2>1, <2>2 DEF Doubts
<1> QED
  BY <1>2, <1>5, <1>6, <1>7

\* An attach forgets no error: only an SD card's width is set in it.
LEMMA NoneForgotten ==
    ASSUME TypeInv, ListInv, op.name = "attach", touched # "forgot", Takes
    PROVE  touched' # "forgot"
<1>1. status = "run" /\ todo # <<>> /\ Expects(Head(todo)) /\ AttachShape(todo)
  BY TakesAStep, HeadKnown DEF ListInv, Shape
<1>2. CASE Does \notin Switches
  BY <1>2, Ends
<1>3. CASE Does \in Switches
  <2>1. Does = "acmd6"
    BY <1>1, <1>3 DEF Expects, Does, Switches
  <2>2. env.s18 # FALSE
    <3> SUFFICES ASSUME env.s18 = FALSE PROVE FALSE
      OBVIOUS
    <3>1. None(todo, {"cmd11", "v18", "acmd6", "recordWidth"})
      BY <1>1 DEF AttachShape
    <3>2. Does \notin {"cmd11", "v18", "acmd6", "recordWidth"}
      BY <1>1, <3>1, TailNone DEF Does
    <3> QED
      BY <2>1, <3>2
  <2>3. env.type # "mmc"
    BY <2>2, ModeAssumption DEF TypeInv
  <2>4. Switch
    BY <2>1 DEF Takes, Switch, ReadExtCsd, Supports, Check, SwitchFn, WriteHost, Record, Refuse, SetClock, TuneMmc, TuneSd,
                Identify, Cmd11, Voltage, At, Does
  <2>5. PICK outcome \in Outcomes("acmd6") : touched' = IF outcome = "refused" \/ touched = "forgot" THEN "forgot" ELSE "sent"
    BY <2>3, <2>4 DEF Switch
  <2>6. outcome # "refused"
    BY DEF Outcomes
  <2> QED
    BY <2>5, <2>6
<1> QED
  BY <1>2, <1>3

---------------------------------------------------------------------------------------
(***************************************************************************)
(* What a step leaves behind.                                              *)
(***************************************************************************)

\* The step at the head is in effect once it is taken, unless its error is lost.
LEMMA LeftBehind ==
    ASSUME TypeInv, Takes, Proceed, touched' # "forgot", NEW s, s = Head(todo)
    PROVE  Left(s)'
<1>0. /\ status = "run" /\ todo # <<>> /\ op' = op /\ env' = env /\ Expects(s) /\ s.does = Does /\ Arg = s.arg
      /\ card \in CardType /\ host \in HostType /\ slot \in SlotType
  BY TakesAStep, HeadKnown DEF Does, Arg, TypeInv
<1>1. CASE Switch
  <2>1. s.does \in {"timing", "busWidth", "acmd6"}
    BY <1>0, <1>1 DEF Switch, At, Does
  <2>2. ~FailIf(TRUE)
    BY <1>0 DEF FailIf, Proceed
  <2>3. card' = DeviceAfter
    BY <1>1, <2>2 DEF Switch
  <2>4. CASE s.does = "timing"
    <3>1. card' = [card EXCEPT !.timing = s.arg]
      BY <1>0, <2>3, <2>4, Zenon DEF DeviceAfter, Does
    <3>2. card'.timing = s.arg
      BY <1>0, <3>1 DEF CardType
    <3> QED
      BY <2>4, <3>2 DEF Left
  <2>5. CASE s.does = "busWidth"
    <3>1. card' = [card EXCEPT !.width = s.arg.width, !.ddr = s.arg.ddr, !.strobe = s.arg.strobe]
      BY <1>0, <2>3, <2>5, Zenon DEF DeviceAfter, Does
    <3>2. card'.width = s.arg.width /\ card'.ddr = s.arg.ddr /\ card'.strobe = s.arg.strobe
      BY <1>0, <3>1 DEF CardType
    <3> QED
      BY <2>5, <3>2 DEF Left
  <2>6. CASE s.does = "acmd6"
    <3>1. card' = [card EXCEPT !.width = s.arg]
      BY <1>0, <2>3, <2>6, Zenon DEF DeviceAfter, Does
    <3>2. card'.width = s.arg
      BY <1>0, <3>1 DEF CardType
    <3> QED
      BY <2>6, <3>2 DEF Left
  <2> QED
    BY <2>1, <2>4, <2>5, <2>6
<1>2. CASE SwitchFn
  <2>1. s.does = "switch" /\ s.arg \in IF op.name = "strength" THEN Strengths ELSE SdModes
    BY <1>0, <1>2 DEF SwitchFn, At, Does, Expects
  <2>2. ~FailIf(TRUE)
    BY <1>0 DEF FailIf, Proceed
  <2>3. card' = SwitchTo(s.arg)
    BY <1>0, <1>2, <2>2 DEF SwitchFn
  <2>4. IF op.name = "strength" THEN card'.strength = s.arg ELSE card'.timing = s.arg
    BY <1>0, <2>1, <2>3 DEF SwitchTo, Strengths, SdModes, CardType
  <2> QED
    BY <1>0, <2>1, <2>4 DEF Left
<1>3. CASE WriteHost
  <2>1. /\ s.does \in {"hostEmmc", "hostHs", "hostUhs", "hostWidth", "hostStrength", "power"}
        /\ host' = HostAfter /\ card' = (IF s.does = "power" THEN Fresh ELSE card)
    BY <1>0, <1>3 DEF WriteHost, At, Does
  <2>2. \/ s.does = "hostEmmc" /\ host' = [host EXCEPT !.emmc = s.arg]
        \/ s.does = "hostHs" /\ host' = [host EXCEPT !.hs = s.arg]
        \/ s.does = "hostUhs" /\ host' = [host EXCEPT !.hs = s.arg # "SDR12", !.uhs = s.arg]
        \/ s.does = "hostWidth" /\ host' = [host EXCEPT !.width = s.arg]
        \/ s.does = "hostStrength" /\ host' = [host EXCEPT !.strength = s.arg]
        \/ s.does = "power"
    BY <1>0, <2>1, Zenon DEF HostAfter, Does
  <2>3. CASE s.does = "hostUhs"
    <3>1. host'.uhs = s.arg /\ host'.hs = (s.arg # "SDR12")
      BY <1>0, <2>2, <2>3 DEF HostType
    <3> QED
      BY <2>3, <3>1 DEF Left
  <2>4. CASE s.does = "power"
    <3>1. card' = Fresh /\ Fresh' = Fresh
      BY <1>0, <2>1, <2>4 DEF Fresh
    <3> QED
      BY <2>4, <3>1, FreshIs DEF Left
  <2> QED
    BY <1>0, <2>1, <2>2, <2>3, <2>4 DEF Left, HostType
<1>4. CASE Record
  <2>1. s.does \in {"record", "recordWidth", "recordProg", "attached"} /\ slot' = SlotAfter
    BY <1>0, <1>4 DEF Record, At, Does
  <2>2. \/ s.does = "record" /\ slot' = [slot EXCEPT !.mode = s.arg]
        \/ s.does = "recordWidth" /\ slot' = [slot EXCEPT !.width = s.arg]
        \/ s.does \in {"recordProg", "attached"}
    BY <1>0, <2>1, Zenon DEF SlotAfter, Does
  <2> QED
    BY <1>0, <2>2 DEF Left, SlotType
<1>5. CASE Identify
  <2>1. s.does = "identify"
    BY <1>0, <1>5 DEF Identify, At, Does
  <2>2. ~Fail
    BY <1>0 DEF Fail, FailIf, Proceed
  <2>3. slot' = [slot EXCEPT !.width = 1, !.mode = IF env.type = "mmc" THEN "MMC_LEGACY" ELSE slot.mode]
    BY <1>5, <2>2 DEF Identify
  <2>4. slot'.width = 1 /\ (env.type = "mmc" => slot'.mode = "MMC_LEGACY")
    BY <1>0, <2>3 DEF SlotType
  <2> QED
    BY <1>0, <2>1, <2>4 DEF Left
<1>6. CASE Cmd11
  <2>1. s.does = "cmd11"
    BY <1>0, <1>6 DEF Cmd11, At, Does
  <2>2. ~Fail
    BY <1>0 DEF Fail, FailIf, Proceed
  <2>3. card' = [card EXCEPT !.v18 = TRUE]
    BY <1>6, <2>2, Zenon DEF Cmd11
  <2>4. card'.v18 = TRUE
    BY <1>0, <2>3 DEF CardType
  <2> QED
    BY <2>1, <2>4 DEF Left
<1>7. CASE Voltage
  <2>1. s.does = "v18"
    BY <1>0, <1>7 DEF Voltage, At, Does
  <2>2. ~Fail
    BY <1>0 DEF Fail, FailIf, Proceed
  <2>3. host' = [host EXCEPT !.v18 = TRUE]
    BY <1>7, <2>2, Zenon DEF Voltage
  <2>4. host'.v18 = TRUE
    BY <1>0, <2>3 DEF HostType
  <2> QED
    BY <2>1, <2>4 DEF Left
<1>8. CASE ReadExtCsd \/ Supports \/ Check \/ Refuse \/ SetClock \/ TuneMmc \/ TuneSd
  <2>1. s.does \in {"readExtCsd", "supports", "check", "refuse", "clock", "tuneMmc", "tuneSd"}
    BY <1>0, <1>8 DEF ReadExtCsd, Supports, Check, Refuse, SetClock, TuneMmc, TuneSd, At, Does
  <2> QED
    BY <2>1 DEF Left
<1> QED
  BY <1>1, <1>2, <1>3, <1>4, <1>5, <1>6, <1>7, <1>8 DEF Takes

\* What a step has left is undone by certain others only.
LEMMA LeftStays ==
    ASSUME TypeInv, Takes, Proceed, NEW s, Left(s), Does \notin Undoes(s.does)
    PROVE  Left(s)'
<1>1. op' = op /\ env' = env /\ status' = "run"
  BY TakesAStep DEF Proceed
<1>2. CardFrame /\ HostFrame /\ SlotFrame
  BY Framed
<1>3. CASE s.does \in {"timing", "switch"}
  <2>1. Does \notin {"timing", "switch", "power"}
    BY <1>3 DEF Undoes
  <2>2. card'.timing = card.timing /\ card'.strength = card.strength
    BY <1>1, <1>2, <2>1 DEF CardFrame
  <2> QED
    BY <1>1, <1>3, <2>2 DEF Left
<1>4. CASE s.does \in {"busWidth", "acmd6"}
  <2>1. Does \notin {"busWidth", "acmd6", "power"}
    BY <1>4 DEF Undoes
  <2>2. card'.width = card.width /\ card'.ddr = card.ddr /\ card'.strobe = card.strobe
    BY <1>1, <1>2, <2>1 DEF CardFrame
  <2> QED
    BY <1>4, <2>2 DEF Left
<1>5. CASE s.does \in {"hostHs", "hostUhs"}
  <2>1. Does \notin {"hostHs", "hostUhs"}
    BY <1>5 DEF Undoes
  <2>2. host'.hs = host.hs /\ host'.uhs = host.uhs
    BY <1>2, <2>1 DEF HostFrame
  <2> QED
    BY <1>5, <2>2 DEF Left
<1>6. CASE s.does \in {"hostEmmc", "hostWidth", "hostStrength", "v18"}
  <2>1. Does # s.does
    BY <1>6 DEF Undoes
  <2>2. /\ s.does = "hostEmmc" => host'.emmc = host.emmc
        /\ s.does = "hostWidth" => host'.width = host.width
        /\ s.does = "hostStrength" => host'.strength = host.strength
        /\ s.does = "v18" => host'.v18 = host.v18
    BY <1>2, <2>1 DEF HostFrame
  <2> QED
    BY <1>6, <2>2 DEF Left
<1>7. CASE s.does = "record"
  <2>1. Does \notin {"record", "identify"}
    BY <1>7 DEF Undoes
  <2>2. slot'.mode = slot.mode
    BY <1>2, <2>1 DEF SlotFrame
  <2> QED
    BY <1>7, <2>2 DEF Left
<1>8. CASE s.does = "recordWidth"
  <2>1. Does \notin {"recordWidth", "identify"}
    BY <1>8 DEF Undoes
  <2>2. slot'.width = slot.width
    BY <1>2, <2>1 DEF SlotFrame
  <2> QED
    BY <1>8, <2>2 DEF Left
<1>9. CASE s.does = "identify"
  <2>1. Does \notin {"record", "identify"} /\ (env.s18 = FALSE => Does # "recordWidth")
    BY <1>9 DEF Undoes
  <2>2. slot'.mode = slot.mode /\ (env.s18 = FALSE => slot'.width = slot.width)
    BY <1>2, <2>1 DEF SlotFrame
  <2> QED
    BY <1>1, <1>9, <2>2 DEF Left
<1>10. CASE s.does = "power"
  <2>1. Does \notin {"timing", "switch", "busWidth", "power"} /\ (env.s18 = FALSE => Does \notin {"acmd6", "cmd11"})
    BY <1>10 DEF Undoes
  <2>2. /\ card'.timing = card.timing /\ card'.ddr = card.ddr /\ card'.strobe = card.strobe /\ card'.strength = card.strength
        /\ env.s18 = FALSE => card'.width = card.width /\ card'.v18 = card.v18
    BY <1>1, <1>2, <2>1 DEF CardFrame
  <2>3. Fresh' = Fresh
    BY <1>1 DEF Fresh
  <2> QED
    BY <1>1, <1>10, <2>2, <2>3 DEF Left
<1>11. CASE s.does = "cmd11"
  <2>1. Does \notin {"cmd11", "power"}
    BY <1>11 DEF Undoes
  <2>2. card'.v18 = card.v18
    BY <1>1, <1>2, <2>1 DEF CardFrame
  <2> QED
    BY <1>11, <2>2 DEF Left
<1> QED
  BY <1>3, <1>4, <1>5, <1>6, <1>7, <1>8, <1>9, <1>10, <1>11 DEF Left

---------------------------------------------------------------------------------------
(***************************************************************************)
(* Every step that matters is to come, or was taken and is in effect.      *)
(***************************************************************************)

\* A function does not change what its list was drawn up from.
LEMMA DrawnFromKept ==
    ASSUME TypeInv, Takes
    PROVE  /\ Finals(op)' = Finals(op)
           /\ op.name = "width" => RefusesWidth(op.arg)' = RefusesWidth(op.arg)
           /\ op.name = "high" => host'.v18 = host.v18 /\ (status' = "run" => card'.ddr = card.ddr)
           /\ op.name # "attach" => slot'.attached = slot.attached
<1>1. status = "run" /\ todo # <<>> /\ op' = op /\ env' = env /\ Expects(Head(todo))
  BY TakesAStep, HeadKnown
<1>2. CardFrame /\ HostFrame /\ SlotFrame
  BY Framed
<1>3. /\ op.name \in {"mode", "high", "width"} => Does \notin {"v18", "identify", "power"}
      /\ op.name \in {"mode", "high"} => Does # "recordWidth"
      /\ op.name = "width" => Does # "record"
      /\ op.name = "high" => Does # "busWidth"
      /\ op.name # "attach" => Does # "attached"
  BY <1>1 DEF Expects, Does
<1>4. /\ op.name = "mode" => host'.v18 = host.v18 /\ slot'.width = slot.width
      /\ op.name = "width" => slot'.mode = slot.mode /\ slot'.uhsi = slot.uhsi
      /\ op.name = "high" => host'.v18 = host.v18
      /\ op.name # "attach" => slot'.attached = slot.attached
  BY <1>2, <1>3 DEF HostFrame, SlotFrame
<1>5. op.name = "high" /\ status' = "run" => card'.ddr = card.ddr
  BY <1>2, <1>3 DEF CardFrame
<1>6. Finals(op)' = Finals(op)
  BY <1>1, <1>4, FinalsKept
<1>7. op.name = "width" => RefusesWidth(op.arg)' = RefusesWidth(op.arg)
  BY <1>1, <1>4 DEF RefusesWidth, WidthAllows
<1> QED
  BY <1>4, <1>5, <1>6, <1>7

\* A function that goes on has something to do.
LEMMA GoesOn ==
    ASSUME TypeInv, Takes, status' = "run"
    PROVE  Proceed /\ todo' = Tail(todo) /\ ~Nothing /\ Does # "refuse"
<1>1. Proceed
  BY DoubtsKept
<1>2. Does # "refuse"
  BY Ends DEF Fail, FailIf
<1>3. todo # <<>>
  BY TakesAStep
<1>4. Head(todo) # Refusal
  BY <1>2 DEF Does, Refusal, Step
<1> QED
  BY <1>1, <1>2, <1>3, <1>4 DEF Proceed, Nothing

\* The kinds of the steps that decide.
LEMMA FinalKinds ==
    ASSUME TypeInv, status = "run", NEW s \in Finals(op)
    PROVE  /\ op.name \in FourKinds \cup {"attach"}
           /\ op.name # "attach" => s.does \in Switches \cup Writes
<1>1. CASE op.name = "high"
  BY <1>1 DEF Finals, HighFinals, SdFinals, Step, Switches, Writes, FourKinds
<1>2. CASE op.name = "mode"
  BY <1>2 DEF Finals, ModeFinals, SdFinals, Step, Switches, Writes, FourKinds
<1>3. CASE op.name = "width"
  BY <1>3 DEF Finals, WidthFinals, DeviceWidth, Step, Switches, Writes, FourKinds
<1>4. CASE op.name = "strength"
  BY <1>4 DEF Finals, StrengthFinals, Step, Switches, Writes, FourKinds
<1>5. CASE op.name = "attach"
  BY <1>5
<1>6. CASE op.name \notin FourKinds \cup {"attach"}
  BY <1>6 DEF Finals, FourKinds
<1> QED
  BY <1>1, <1>2, <1>3, <1>4, <1>5, <1>6 DEF FourKinds

\* Nothing is written before a switch was sent.
LEMMA WritesAfter ==
    ASSUME TypeInv, ListInv, Takes, op.name \in FourKinds, Does \in Writes
    PROVE  touched # "no"
<1>1. status = "run" /\ todo # <<>>
  BY TakesAStep
<1>2. touched = "no" => Led(todo)
  BY <1>1 DEF ListInv
<1> QED
  BY <1>1, <1>2, TailLed DEF Does

LEMMA FinalKept ==
    ASSUME TypeInv, FinalInv, ListInv, Takes
    PROVE  FinalInv'
<1> SUFFICES ASSUME status' = "run", NEW s \in Finals(op)
             PROVE  ToCome(todo, s)' \/ Done(todo, s)'
  BY DrawnFromKept DEF FinalInv
<1>1. status = "run" /\ todo # <<>> /\ op' = op /\ env' = env
  BY TakesAStep
<1>2. Proceed /\ todo' = Tail(todo) /\ ~Nothing
  BY GoesOn
<1>3. ToCome(todo, s) \/ Done(todo, s)
  BY <1>1, <1>2 DEF FinalInv
<1>4. touched \in {"no", "sent", "forgot"}
  BY DEF TypeInv
<1>5. /\ Does \notin Switches => touched' = touched
      /\ Does \in Switches => touched' # "no"
      /\ touched = "forgot" /\ Does # "switch" => touched' = "forgot"
  BY Ends
<1>6. ASSUME None(Tail(todo), Undoes(s.does)) PROVE None(todo, Undoes(s.does))'
  BY <1>1, <1>2, <1>6, UndoesKept DEF None
<1>7. CASE ToCome(todo, s)
  <2>1. CASE ToCome(Tail(todo), s)
    BY <1>1, <1>2, <2>1, ToComeKept
  <2>2. CASE Head(todo) = s /\ None(Tail(todo), Undoes(s.does))
    <3>1. op.name # "attach" => touched' # "no"
      <4>1. op.name # "attach" => op.name \in FourKinds /\ Does \in Switches \cup Writes
        BY <1>1, <2>2, FinalKinds DEF Does
      <4> QED
        BY <1>5, <4>1, WritesAfter
    <3>2. touched' # "forgot" => Left(s)'
      BY <1>2, <2>2, LeftBehind
    <3> QED
      BY <1>1, <1>6, <2>2, <3>1, <3>2 DEF Done
  <2> QED
    BY <1>1, <1>7, <2>1, <2>2, TailComes
<1>8. CASE Done(todo, s)
  <2>1. Does \notin Undoes(s.does) /\ None(Tail(todo), Undoes(s.does))
    BY <1>1, <1>8, TailNone DEF Done, Does
  <2>2. op.name # "attach" => touched' # "no"
    BY <1>5, <1>8 DEF Done
  <2>3. ASSUME touched' # "forgot" PROVE Left(s)'
    <3>1. touched # "forgot"
      <4>1. CASE Does = "switch"
        <5>1. touched # "no" => None(todo, {"switch"})
          BY <1>1 DEF ListInv
        <5> QED
          BY <1>1, <4>1, <5>1, TailNone DEF Does
      <4>2. CASE Does # "switch"
        BY <1>5, <2>3, <4>2
      <4> QED
        BY <4>1, <4>2
    <3>2. Left(s)
      BY <1>8, <3>1 DEF Done
    <3> QED
      BY <1>2, <2>1, <3>2, LeftStays
  <2> QED
    BY <1>1, <1>6, <2>1, <2>2, <2>3 DEF Done
<1> QED
  BY <1>3, <1>7, <1>8

LEMMA ListKept ==
    ASSUME TypeInv, ListInv, Takes
    PROVE  ListInv'
<1> SUFFICES ASSUME status' = "run" PROVE ListInv'
  BY DEF ListInv
<1>1. status = "run" /\ todo # <<>> /\ op' = op /\ env' = env /\ Expects(Head(todo))
  BY TakesAStep, HeadKnown
<1>2. Proceed /\ todo' = Tail(todo) /\ ~Nothing /\ Does # "refuse"
  BY GoesOn
<1>3. /\ Shape(op, todo)
      /\ op.name \in FourKinds /\ touched = "no" => Led(todo)
      /\ touched # "no" => None(todo, {"switch"})
      /\ op.name = "attach" => slot.attached = FALSE /\ touched # "forgot"
      /\ op.name # "attach" => slot.attached
      /\ op.name = "width" => ~RefusesWidth(op.arg)
      /\ op.name = "high" => IF env.type = "sd" THEN host.v18 = FALSE ELSE op.arg = TRUE /\ card.ddr = FALSE
  <2>1. slot.attached \in BOOLEAN
    BY DEF TypeInv, SlotType
  <2> QED
    BY <1>1, <1>2, <2>1 DEF ListInv
<1>4. /\ Does \notin Switches => touched' = touched
      /\ Does \in Switches => touched' # "no"
  BY Ends
<1>5. Shape(op, todo)'
  BY <1>1, <1>2, <1>3, TailShape
<1>6. ASSUME op.name \in FourKinds, touched' = "no" PROVE Led(todo)'
  <2>1. Led(todo) /\ Does \notin Switches
    BY <1>3, <1>4, <1>6
  <2>2. Led(Tail(todo))
    BY <1>1, <1>2, <2>1, TailLed DEF Does
  <2> QED
    BY <1>2, <2>2 DEF Led
<1>7. ASSUME touched' # "no" PROVE None(todo, {"switch"})'
  <2>1. None(Tail(todo), {"switch"})
    <3>1. CASE touched # "no"
      BY <1>1, <1>3, <3>1, TailNone
    <3>2. CASE touched = "no"
      <4>1. Does \in Switches
        BY <1>4, <1>7, <3>2
      <4>2. CASE Does = "switch"
        BY <1>1, <1>3, <4>2, TailOnce DEF Does, Shape
      <4>3. CASE Does # "switch"
        BY <1>1, <4>1, <4>3, SwitchesApart DEF Does, Switches
      <4> QED
        BY <4>2, <4>3
    <3> QED
      BY <3>1, <3>2
  <2> QED
    BY <1>2, <2>1 DEF None
<1>8. ASSUME op.name = "attach" PROVE (slot'.attached <=> todo' = <<>>) /\ touched' # "forgot"
  <2>1. touched' # "forgot"
    BY <1>3, <1>8, NoneForgotten
  <2>2. /\ Len(todo) \in Nat \ {0} /\ Len(todo') = Len(todo) - 1 /\ Does = todo[1].does
    BY <1>1, <1>2, TailOf DEF Does
  <2>3. todo' \in Seq(Alphabet(op))
    BY <1>1, <1>2, HeadKnown
  <2>4. todo' = <<>> <=> Len(todo) = 1
    <3> HIDE DEF Alphabet
    <3> QED
      BY <2>2, <2>3
  <2>5. Does = "attached" <=> 1 = Len(todo)
    BY <1>3, <1>8, <2>2 DEF Shape, AttachShape
  <2>6. slot'.attached <=> Does = "attached"
    <3>1. Does # "attached" => slot'.attached = FALSE
      BY <1>3, <1>8, Framed DEF SlotFrame
    <3>2. Does = "attached" => slot'.attached = TRUE
      <4>1. Does = "attached" => Record
        BY DEF Takes, Switch, ReadExtCsd, Supports, Check, SwitchFn, WriteHost, Record, Refuse, SetClock, TuneMmc, TuneSd,
               Identify, Cmd11, Voltage, At, Does
      <4>2. Does = "attached" => slot' = [slot EXCEPT !.attached = TRUE]
        BY <4>1, Zenon DEF Record, SlotAfter, Does
      <4> QED
        BY <4>2 DEF TypeInv, SlotType
    <3> QED
      BY <3>1, <3>2
  <2> QED
    BY <2>1, <2>4, <2>5, <2>6
<1>9. /\ op.name # "attach" => slot'.attached
      /\ op.name = "width" => ~RefusesWidth(op.arg)'
      /\ op.name = "high" => IF env.type = "sd" THEN host'.v18 = FALSE ELSE op.arg = TRUE /\ card'.ddr = FALSE
  BY <1>3, DrawnFromKept
<1> QED
  BY <1>1, <1>5, <1>6, <1>7, <1>8, <1>9 DEF ListInv

---------------------------------------------------------------------------------------
(***************************************************************************)
(* What a step leaves in agreement.                                        *)
(***************************************************************************)

\* At its last step an attach has left card, host and slot in agreement.
LEMMA AttachLeaves ==
    ASSUME TypeInv, FinalInv, ListInv, SideInv, Takes, op.name = "attach", Does = "attached"
    PROVE  AgreeBut({}) /\ host.width = slot.width
<1>1. status = "run" /\ todo # <<>> /\ (env.type = "sd" \/ (env.type = "mmc" /\ env.s18 = FALSE)) /\ env.s18 \in BOOLEAN
  BY TakesAStep, ModeAssumption DEF TypeInv
<1>2. ~Nothing
  BY <1>1 DEF Nothing, Refusal, Step, Does
<1>3. Len(todo) = 1 /\ todo[1].does = "attached" /\ touched # "forgot" /\ slot.attached = FALSE
  <2>1. Len(todo) \in Nat \ {0} /\ Does = todo[1].does
    BY <1>1, TailOf DEF Does
  <2>2. AttachShape(todo) /\ touched # "forgot" /\ ~slot.attached
    BY <1>1 DEF ListInv, Shape
  <2>3. slot.attached \in BOOLEAN
    BY DEF TypeInv, SlotType
  <2>4. todo[1].does = "attached" <=> 1 = Len(todo)
    BY <2>1, <2>2 DEF AttachShape
  <2> QED
    BY <2>1, <2>2, <2>3, <2>4
<1>4. ASSUME NEW s \in AttachFinals PROVE Left(s)
  <2>1. s.does # "attached"
    BY DEF AttachFinals, Step
  <2>2. s \in Finals(op)
    BY DEF Finals
  <2>3. ~ToCome(todo, s)
    <3> SUFFICES ASSUME NEW k \in 1 .. Len(todo), todo[k] = s PROVE FALSE
      BY DEF ToCome
    <3>1. k = 1
      BY <1>3
    <3> QED
      BY <1>3, <2>1, <3>1
  <2>4. Done(todo, s)
    BY <1>1, <1>2, <2>2, <2>3 DEF FinalInv
  <2> QED
    BY <1>3, <2>4 DEF Done
<1>5. Left(Step("power", TRUE)) /\ Left(Step("identify", 0))
  BY <1>4 DEF AttachFinals
<1>6. /\ card.timing = Fresh.timing /\ card.ddr = FALSE /\ card.strobe = FALSE /\ card.strength = "B"
      /\ env.s18 = FALSE => card.width = 1 /\ card.v18 = FALSE
  BY <1>5 DEF Left, Step
<1>7. /\ env.type = "mmc" => slot.mode = "MMC_LEGACY"
      /\ env.s18 = FALSE => slot.width = 1
  BY <1>5 DEF Left, Step
<1>8. card.v18 = host.v18 /\ card.width = host.width /\ host.width = slot.width
  <2>1. CASE env.s18 = TRUE
    <3>1. /\ Left(Step("cmd11", 0)) /\ Left(Step("v18", 0)) /\ Left(Step("acmd6", 4)) /\ Left(Step("hostWidth", 4))
          /\ Left(Step("recordWidth", 4))
      BY <1>4, <2>1 DEF AttachFinals
    <3> QED
      BY <3>1 DEF Left, Step
  <2>2. CASE env.s18 = FALSE
    <3>1. Left(Step("hostWidth", 1))
      BY <1>4, <2>2 DEF AttachFinals
    <3>2. host.width = 1
      BY <3>1 DEF Left, Step
    <3> QED
      BY <1>6, <1>7, <2>2, <3>2 DEF SideInv
  <2> QED
    BY <1>1, <2>1, <2>2
<1>9. /\ host.hs = FALSE /\ host.uhs = "SDR12" /\ host.emmc = "SD" /\ host.strength = "B"
      /\ slot.mode = "SDR12" \/ (env.type = "mmc" /\ slot.mode = "MMC_LEGACY")
  BY <1>3 DEF SideInv
<1>10. AgreeOnMode
  <2>1. CASE env.type = "sd"
    <3>1. slot.mode = "SDR12" /\ card.timing = "SDR12"
      BY <1>6, <1>9, <2>1, FreshIs
    <3> QED
      BY <1>9, <2>1, <3>1 DEF AgreeOnMode
  <2>2. CASE env.type = "mmc"
    <3>1. slot.mode = "MMC_LEGACY" /\ card.timing = "legacy"
      BY <1>6, <1>7, <2>2, FreshIs
    <3>2. TimingFor(slot.mode) = "legacy"
      BY <3>1 DEF TimingFor
    <3>3. BusWidthFor(slot.mode, 1).ddr = (slot.mode \in {"HS_DDR", "HS_400", "HS_400_ES"})
      BY DEF BusWidthFor
    <3>4. slot.mode \notin {"HS_DDR", "HS_400", "HS_400_ES"}
      BY <3>1
    <3>5. card.ddr = BusWidthFor(slot.mode, 1).ddr
      <4>1. card.ddr = FALSE
        BY <1>6
      <4>2. (slot.mode \in {"HS_DDR", "HS_400", "HS_400_ES"}) = FALSE
        BY <3>4
      <4> QED
        BY <3>3, <4>1, <4>2, Zenon
    <3>6. card.strobe = (slot.mode = "HS_400_ES")
      BY <1>6, <3>1
    <3>7. host.emmc = "SD" /\ env.type # "sd"
      BY <1>9, <2>2
    <3> QED
      BY <3>1, <3>2, <3>5, <3>6, <3>7, Zenon DEF AgreeOnMode
  <2> QED
    BY <1>1, <2>1, <2>2
<1> QED
  BY <1>6, <1>8, <1>9, <1>10 DEF AgreeBut, AgreeOnWidth

\* Fewer doubts, more agreement.
LEMMA AgreeMore ==
    ASSUME NEW D, NEW E, D \subseteq E, AgreeBut(D)
    PROVE  AgreeBut(E)
  BY DEF AgreeBut

LEMMA FourKeep ==
    ASSUME TypeInv, ListInv, NowInv, Takes, op.name \in FourKinds
    PROVE  AgreeBut(Doubts)'
<1>1. status = "run" /\ todo # <<>> /\ op' = op /\ env' = env /\ Expects(Head(todo))
  BY TakesAStep, HeadKnown
<1>2. op.name # "attach" /\ slot.attached
  BY <1>1 DEF FourKinds, ListInv
<1>3. AgreeBut(Doubts)
  BY <1>2 DEF NowInv, Doubts
<1>4. CardFrame /\ HostFrame /\ SlotFrame
  BY Framed
<1>5. /\ Doubts \subseteq Doubts'
      /\ touched' # "no" => Subject \in Doubts'
      /\ Subject' = Subject
  BY DoubtsKept
<1>6. Does \notin {"power", "identify", "cmd11", "v18", "attached"}
  BY <1>1, <1>2 DEF Expects, Does
<1>7. Subject \notin Doubts' => Does \notin Switches \cup Writes
  BY <1>5, Ends, WritesAfter
<1>8. card'.v18 = host'.v18
  BY <1>2, <1>3, <1>4, <1>6 DEF CardFrame, HostFrame, AgreeBut
<1>9. ASSUME "mode" \notin Doubts' PROVE AgreeOnMode'
  <2>1. AgreeOnMode
    BY <1>3, <1>5, <1>9 DEF AgreeBut
  <2>2. \/ Does \notin Switches \cup Writes
        \/ op.name = "width" /\ Does \notin {"timing", "switch", "hostEmmc", "hostHs", "hostUhs", "record"}
        \/ op.name = "strength" /\ Does \notin {"timing", "busWidth", "hostEmmc", "hostHs", "hostUhs", "record"}
    <3>1. CASE op.name \in {"mode", "high"}
      BY <1>7, <1>9, <3>1 DEF Subject
    <3>2. CASE op.name \in {"width", "strength"}
      BY <1>1, <3>2 DEF Expects, Does
    <3> QED
      BY <3>1, <3>2 DEF FourKinds
  <2>3. /\ card'.timing = card.timing /\ slot'.mode = slot.mode /\ host'.hs = host.hs /\ host'.uhs = host.uhs
        /\ host'.v18 = host.v18 /\ host'.emmc = host.emmc
    BY <1>2, <1>4, <1>6, <2>2 DEF CardFrame, HostFrame, SlotFrame, Switches, Writes
  <2>4. CASE env.type = "sd"
    BY <1>1, <2>1, <2>3, <2>4 DEF AgreeOnMode
  <2>5. CASE env.type # "sd"
    <3>1. \/ card'.ddr = card.ddr /\ card'.strobe = card.strobe
          \/ card'.ddr = BusWidthFor(slot.mode, 1).ddr /\ card'.strobe = (slot.mode = "HS_400_ES")
      BY <1>2, <1>4, <1>6, <2>2 DEF CardFrame, Switches, Writes
    <3>2. TimingFor(slot.mode)' = TimingFor(slot.mode) /\ BusWidthFor(slot.mode, 1)' = BusWidthFor(slot.mode, 1)
      BY <2>3 DEF TimingFor, BusWidthFor
    <3> QED
      BY <1>1, <2>1, <2>3, <2>5, <3>1, <3>2 DEF AgreeOnMode
  <2> QED
    BY <2>4, <2>5
<1>10. ASSUME "width" \notin Doubts' PROVE AgreeOnWidth'
  <2>1. AgreeOnWidth
    BY <1>3, <1>5, <1>10 DEF AgreeBut
  <2>2. \/ Does \notin Switches \cup Writes
        \/ op.name \in {"mode", "high", "strength"} /\ Does \notin {"acmd6", "hostWidth", "recordWidth"}
    <3>1. CASE op.name = "width"
      BY <1>7, <1>10, <3>1 DEF Subject
    <3>2. CASE op.name # "width"
      BY <1>1, <1>2, <3>2 DEF Expects, Does, FourKinds
    <3> QED
      BY <3>1, <3>2
  <2>3. slot'.width = slot.width /\ host'.width = host.width
    BY <1>4, <1>6, <2>2 DEF HostFrame, SlotFrame, Writes
  <2>4. card'.width = card.width \/ card'.width = slot.width
    BY <1>2, <1>4, <1>6, <2>2 DEF CardFrame, Switches
  <2> QED
    BY <2>1, <2>3, <2>4 DEF AgreeOnWidth
<1>11. ASSUME "strength" \notin Doubts' PROVE card'.strength = host'.strength
  <2>1. card.strength = host.strength
    BY <1>3, <1>5, <1>11 DEF AgreeBut
  <2>2. Does \notin Switches \cup Writes \/ (op.name # "strength" /\ Does # "hostStrength")
    <3>1. CASE op.name = "strength"
      BY <1>7, <1>11, <3>1 DEF Subject
    <3>2. CASE op.name # "strength"
      BY <1>1, <3>2 DEF Expects, Does
    <3> QED
      BY <3>1, <3>2
  <2> QED
    BY <1>2, <1>4, <1>6, <2>1, <2>2 DEF CardFrame, HostFrame, Switches, Writes
<1> QED
  BY <1>8, <1>9, <1>10, <1>11 DEF AgreeBut

\* The other functions, and the last step of an attach, leave all of it alone.
LEMMA OthersKeep ==
    ASSUME TypeInv, Takes, op.name \notin FourKinds, op.name # "attach" \/ Does = "attached", NEW D, AgreeBut(D)
    PROVE  AgreeBut(D)'
<1>1. status = "run" /\ todo # <<>> /\ op' = op /\ env' = env /\ Expects(Head(todo))
  BY TakesAStep, HeadKnown
<1>2. CardFrame /\ HostFrame /\ SlotFrame
  BY Framed
<1>3. Does \notin Switches \cup Writes \cup {"power", "identify", "cmd11", "v18"}
  BY <1>1 DEF Expects, Does, FourKinds, Switches, Writes
<1>4. op.name # "attach" \/ status' = "run"
  <2>1. ASSUME Does = "attached" PROVE status' = "run"
    <3>1. Record
      BY <2>1 DEF Takes, Switch, ReadExtCsd, Supports, Check, SwitchFn, WriteHost, Record, Refuse, SetClock, TuneMmc, TuneSd,
                  Identify, Cmd11, Voltage, At, Does
    <3> QED
      BY <1>1, <3>1 DEF Record, Proceed
  <2> QED
    BY <2>1
<1>5. /\ card'.timing = card.timing /\ card'.ddr = card.ddr /\ card'.strobe = card.strobe /\ card'.width = card.width
      /\ card'.v18 = card.v18 /\ card'.strength = card.strength
  BY <1>2, <1>3, <1>4 DEF CardFrame, Switches
<1>6. /\ host'.emmc = host.emmc /\ host'.hs = host.hs /\ host'.uhs = host.uhs /\ host'.v18 = host.v18
      /\ host'.width = host.width /\ host'.strength = host.strength
      /\ slot'.mode = slot.mode /\ slot'.width = slot.width
  BY <1>2, <1>3 DEF HostFrame, SlotFrame, Writes
<1>7. TimingFor(slot.mode)' = TimingFor(slot.mode) /\ BusWidthFor(slot.mode, 1)' = BusWidthFor(slot.mode, 1)
  BY <1>6 DEF TimingFor, BusWidthFor
<1>8. AgreeOnMode => AgreeOnMode'
  BY <1>1, <1>5, <1>6, <1>7 DEF AgreeOnMode
<1>9. AgreeOnWidth => AgreeOnWidth'
  BY <1>5, <1>6 DEF AgreeOnWidth
<1> QED
  BY <1>5, <1>6, <1>8, <1>9 DEF AgreeBut

LEMMA NowKept ==
    ASSUME TypeInv, FinalInv, ListInv, NowInv, SideInv, Takes
    PROVE  NowInv'
<1> SUFFICES ASSUME slot'.attached PROVE AgreeBut(Doubts)'
  BY DEF NowInv, Doubts
<1>1. status = "run" /\ todo # <<>>
  BY TakesAStep
<1>2. Doubts \subseteq Doubts'
  BY DoubtsKept
<1>3. CASE op.name \in FourKinds
  BY <1>3, FourKeep
<1>4. CASE op.name = "attach"
  <2>1. Does = "attached"
    <3>1. ~slot.attached
      BY <1>1, <1>4 DEF ListInv
    <3> QED
      BY <3>1, Framed DEF SlotFrame
  <2>2. AgreeBut({})
    BY <1>4, <2>1, AttachLeaves
  <2>3. AgreeBut({})'
    BY <1>4, <2>1, <2>2, OthersKeep DEF FourKinds
  <2> QED
    BY <2>3 DEF AgreeBut
<1>5. CASE op.name \notin FourKinds \cup {"attach"}
  <2>1. AgreeBut(Doubts)
    BY <1>1, <1>5 DEF ListInv, NowInv, Doubts
  <2>2. ASSUME NEW D, D = Doubts PROVE AgreeBut(D)'
    BY <1>5, <2>1, <2>2, OthersKeep
  <2>3. PICK D : D = Doubts
    OBVIOUS
  <2>4. AgreeBut(D)' /\ D \subseteq Doubts'
    BY <1>2, <2>2, <2>3
  <2> QED
    BY <2>4 DEF AgreeBut
<1> QED
  BY <1>3, <1>4, <1>5

LEMMA SideKept ==
    ASSUME KeepsCard, TypeInv, FinalInv, ListInv, SideInv, Takes
    PROVE  SideInv'
<1>1. status = "run" /\ todo # <<>> /\ op' = op /\ env' = env /\ Expects(Head(todo)) /\ op \in Ops /\ op.name \in env.ops
  BY TakesAStep, HeadKnown DEF TypeInv
<1>2. CardFrame /\ HostFrame /\ SlotFrame
  BY Framed
<1>3. env.type = "sd" \/ (env.type = "mmc" /\ env.s18 = FALSE)
  BY ModeAssumption DEF TypeInv
<1>4. card'.strobe => card'.ddr
  BY <1>2 DEF CardFrame, SideInv
<1>5. ASSUME env.s18 = FALSE PROVE host'.v18 = FALSE /\ slot'.uhsi = FALSE
  <2>1. Does # "v18"
    <3>1. CASE op.name = "attach"
      <4>1. None(todo, {"cmd11", "v18", "acmd6", "recordWidth"})
        BY <1>1, <1>5, <3>1 DEF ListInv, Shape, AttachShape
      <4> QED
        BY <1>1, <4>1, TailNone DEF Does
    <3>2. CASE op.name # "attach"
      BY <1>1, <3>2 DEF Expects, Does
    <3> QED
      BY <3>1, <3>2
  <2> QED
    BY <1>2, <1>5, <2>1 DEF HostFrame, SlotFrame, SideInv
<1>6. ASSUME env.type = "mmc" PROVE card'.strength = "B" /\ host'.strength = "B"
  <2>1. Does \notin {"switch", "hostStrength"}
    BY <1>1, <1>6 DEF Expects, Does
  <2> QED
    BY <1>2, <1>6, <2>1 DEF CardFrame, HostFrame, SideInv
<1>7. ASSUME slot'.attached
      PROVE  host'.width = IF status' = "run" /\ op.name = "width" /\ todo' # <<>> /\ todo'[1].does = "recordWidth"
                             THEN op.arg ELSE slot'.width
  <2>1. CASE op.name = "attach"
    <3>1. Does = "attached"
      <4>1. ~slot.attached
        BY <1>1, <2>1 DEF ListInv
      <4> QED
        BY <1>2, <1>7, <4>1 DEF SlotFrame
    <3>2. host.width = slot.width
      BY <2>1, <3>1, AttachLeaves
    <3> QED
      BY <1>2, <2>1, <3>1, <3>2 DEF HostFrame, SlotFrame
  <2>2. CASE op.name \notin {"attach", "width"}
    <3>1. slot.attached /\ Does \notin {"hostWidth", "recordWidth", "identify"}
      BY <1>1, <2>2 DEF ListInv, Expects, Does
    <3> QED
      BY <1>2, <2>2, <3>1 DEF HostFrame, SlotFrame, SideInv
  <2>3. CASE op.name = "width"
    <3>1. slot.attached /\ WidthShape(todo, op.arg) /\ Does # "identify"
      BY <1>1, <2>3 DEF ListInv, Shape, Expects, Does
    <3> DEFINE t == Tail(todo)
    <3>2. /\ Len(todo) \in Nat \ {0} /\ Does = todo[1].does
          /\ Len(t) = Len(todo) - 1
          /\ \A i \in 1 .. Len(t) : i + 1 \in 2 .. Len(todo) /\ t[i] = todo[i + 1]
          /\ t # <<>> <=> 1 \in 1 .. Len(t)
      <4>1. t \in Seq(Alphabet(op)) /\ Len(t) \in Nat
        BY <1>1, HeadKnown
      <4> HIDE DEF Alphabet
      <4>2. t = <<>> <=> Len(t) = 0
        BY <4>1, EmptySeq
      <4> QED
        BY <1>1, <4>1, <4>2, TailOf DEF Does
    <3> HIDE DEF t
    <3>3. /\ todo[1].does = "hostWidth" => Len(todo) = 2 /\ todo[2] = Step("recordWidth", op.arg)
          /\ todo[1].does = "recordWidth" => Len(todo) = 1
          /\ Len(todo) > 1 /\ todo[2].does = "recordWidth" => todo[1].does = "hostWidth"
      <4>1. 1 \in 1 .. Len(todo) /\ (Len(todo) > 1 => 2 \in 1 .. Len(todo))
        BY <3>2
      <4>2. \A i \in 1 .. Len(todo) :
               /\ todo[i].does = "hostWidth" => Len(todo) = i + 1 /\ todo[i + 1] = Step("recordWidth", op.arg)
               /\ todo[i].does = "recordWidth" => Len(todo) = i /\ (i > 1 => todo[i - 1].does = "hostWidth")
        BY <3>1 DEF WidthShape
      <4>3. /\ todo[1].does = "hostWidth" => Len(todo) = 1 + 1 /\ todo[1 + 1] = Step("recordWidth", op.arg)
            /\ todo[1].does = "recordWidth" => Len(todo) = 1
        BY <4>1, <4>2
      <4>4. Len(todo) > 1 /\ todo[2].does = "recordWidth" => todo[2 - 1].does = "hostWidth"
        BY <4>1, <4>2
      <4> QED
        BY <4>3, <4>4
    <3>4. host.width = IF todo[1].does = "recordWidth" THEN op.arg ELSE slot.width
      BY <1>1, <2>3, <3>1 DEF SideInv
    <3>5. status' = "run" => todo' = t
      BY GoesOn DEF t
    <3>6. CASE Does = "hostWidth"
      <4>1. WriteHost
        BY <3>6 DEF Takes, Switch, ReadExtCsd, Supports, Check, SwitchFn, WriteHost, Record, Refuse, SetClock, TuneMmc, TuneSd,
                    Identify, Cmd11, Voltage, At, Does
      <4>2. host' = [host EXCEPT !.width = Arg] /\ Arg = op.arg /\ Proceed
        <5>1. host' = [host EXCEPT !.width = Arg] /\ Proceed
          BY <3>6, <4>1, Zenon DEF WriteHost, HostAfter, Does
        <5> QED
          BY <1>1, <2>3, <3>6, <5>1 DEF Expects, Does, Arg
      <4>3. host'.width = op.arg
        BY <4>2 DEF TypeInv, HostType
      <4>4. status' = "run" /\ todo' = t
        BY <1>1, <4>2 DEF Proceed, t
      <4>5. todo' # <<>> /\ todo'[1].does = "recordWidth"
        <5>0. todo[1].does = "hostWidth"
          BY <3>2, <3>6
        <5>1. Len(todo) = 2 /\ todo[2] = Step("recordWidth", op.arg)
          BY <3>3, <5>0
        <5>2. 1 \in 1 .. Len(t)
          BY <3>2, <5>1
        <5>3. t # <<>> /\ t[1] = todo[1 + 1]
          BY <3>2, <5>2
        <5> QED
          BY <4>4, <5>1, <5>3 DEF Step
      <4> QED
        BY <2>3, <4>3, <4>4, <4>5
    <3>7. CASE Does = "recordWidth"
      <4>1. Record
        BY <3>7 DEF Takes, Switch, ReadExtCsd, Supports, Check, SwitchFn, WriteHost, Record, Refuse, SetClock, TuneMmc, TuneSd,
                    Identify, Cmd11, Voltage, At, Does
      <4>2. slot' = [slot EXCEPT !.width = Arg] /\ Arg = op.arg /\ Proceed /\ host' = host
        <5>1. slot' = [slot EXCEPT !.width = Arg] /\ Proceed /\ host' = host
          BY <3>7, <4>1, Zenon DEF Record, SlotAfter, Does
        <5> QED
          BY <1>1, <2>3, <3>7, <5>1 DEF Expects, Does, Arg
      <4>3. slot'.width = op.arg
        BY <4>2 DEF TypeInv, SlotType
      <4>4. host'.width = op.arg
        BY <3>2, <3>4, <3>7, <4>2
      <4> QED
        BY <4>3, <4>4
    <3>8. CASE Does \notin {"hostWidth", "recordWidth"}
      <4>1. host'.width = host.width /\ slot'.width = slot.width
        BY <1>2, <3>1, <3>8 DEF HostFrame, SlotFrame
      <4>2. host.width = slot.width
        BY <3>2, <3>4, <3>8
      <4>3. ~(status' = "run" /\ todo' # <<>> /\ todo'[1].does = "recordWidth")
        <5> SUFFICES ASSUME status' = "run", todo' # <<>>, todo'[1].does = "recordWidth" PROVE FALSE
          OBVIOUS
        <5>1. Len(todo) > 1 /\ t[1] = todo[2]
          BY <3>2, <3>5
        <5> QED
          BY <3>2, <3>3, <3>5, <3>8, <5>1
      <4> QED
        BY <4>1, <4>2, <4>3
    <3> QED
      BY <3>6, <3>7, <3>8
  <2> QED
    BY <2>1, <2>2, <2>3
<1>8. ASSUME ~slot'.attached \/ "detach" \in env.ops
      PROVE  /\ host'.hs = FALSE /\ host'.uhs = "SDR12" /\ host'.emmc = "SD" /\ host'.strength = "B"
             /\ slot'.mode = "SDR12" \/ (env.type = "mmc" /\ slot'.mode = "MMC_LEGACY")
  <2>1. ~slot.attached \/ "detach" \in env.ops
    BY <1>2, <1>8 DEF SlotFrame
  <2>2. op.name \notin {"mode", "high", "strength"}
    <3> SUFFICES ASSUME op.name \in {"mode", "high", "strength"} PROVE FALSE
      OBVIOUS
    <3>1. slot.attached
      BY <1>1 DEF ListInv
    <3>2. "detach" \notin env.ops
      BY <1>1 DEF KeepsCard, TypeInv
    <3> QED
      BY <2>1, <3>1, <3>2
  <2>3. Does \notin {"hostHs", "hostUhs", "hostEmmc", "hostStrength", "record"}
    BY <1>1, <2>2 DEF Expects, Does
  <2>4. /\ host'.hs = host.hs /\ host'.uhs = host.uhs /\ host'.emmc = host.emmc /\ host'.strength = host.strength
        /\ slot'.mode = slot.mode \/ (env.type = "mmc" /\ slot'.mode = "MMC_LEGACY")
    BY <1>2, <2>3 DEF HostFrame, SlotFrame
  <2> QED
    BY <2>1, <2>4 DEF SideInv
<1> QED
  BY <1>1, <1>4, <1>5, <1>6, <1>7, <1>8 DEF SideInv

---------------------------------------------------------------------------------------
(***************************************************************************)
(* What a function comes to when it returns, is called, or the card goes.  *)
(***************************************************************************)

ModeInv == TypeInv /\ FinalInv /\ ListInv /\ NowInv /\ SideInv

\* A function that returns with success, has switched and lost no error leaves what it was to set.
LEMMA SentSets ==
    ASSUME ModeInv, status = "run", todo = <<>>, touched = "sent", op.name \in FourKinds
    PROVE  /\ op.name \in {"mode", "high"} => AgreeOnMode
           /\ op.name = "width" \/ (op.name = "mode" /\ env.type = "mmc") => AgreeOnWidth
           /\ op.name = "strength" => card.strength = host.strength
<1>1. ~Nothing
  BY DEF Nothing
<1>2. ASSUME NEW s \in Finals(op) PROVE Left(s)
  <2>1. ToCome(todo, s) \/ Done(todo, s)
    BY <1>1 DEF ModeInv, FinalInv
  <2>2. ~ToCome(todo, s)
    BY DEF ToCome
  <2> QED
    BY <2>1, <2>2 DEF Done
<1>3. /\ op \in Ops /\ slot.attached /\ (env.type = "sd" \/ env.type = "mmc")
      /\ card \in CardType /\ host \in HostType /\ slot \in SlotType
      /\ op.name = "width" => ~RefusesWidth(op.arg)
      /\ op.name = "high" => IF env.type = "sd" THEN host.v18 = FALSE ELSE op.arg = TRUE /\ card.ddr = FALSE
  BY <1>1, ModeAssumption DEF ModeInv, TypeInv, ListInv, FourKinds
<1>4. host.width = slot.width /\ (card.strobe => card.ddr)
  BY <1>3 DEF ModeInv, SideInv
<1>5. ASSUME op.name = "high" PROVE AgreeOnMode
  <2>1. op.arg \in BOOLEAN
    BY <1>3, <1>5 DEF Ops
  <2>2. \A s \in HighFinals(op.arg) : Left(s)
    BY <1>2, <1>5 DEF Finals
  <2>3. CASE env.type = "sd"
    <3> DEFINE mode == IF op.arg THEN "SDR25" ELSE "SDR12"
    <3>1. Left(Step("switch", mode)) /\ Left(Step("hostHs", op.arg)) /\ Left(Step("record", mode))
      BY <2>2, <2>3 DEF HighFinals, SdFinals
    <3>2. card.timing = mode /\ host.hs = op.arg /\ slot.mode = mode
      BY <1>5, <3>1 DEF Left, Step
    <3>3. host.hs = (slot.mode # "SDR12")
      BY <2>1, <3>2
    <3> QED
      BY <1>3, <1>5, <2>3, <3>2, <3>3 DEF AgreeOnMode
  <2>4. CASE env.type = "mmc"
    <3>1. Left(Step("timing", "high")) /\ Left(Step("hostEmmc", "HS_SDR")) /\ Left(Step("record", "HS_SDR"))
      BY <2>2, <2>4 DEF HighFinals
    <3>2. card.timing = "high" /\ host.emmc = "HS_SDR" /\ slot.mode = "HS_SDR"
      BY <3>1 DEF Left, Step
    <3>3. TimingFor(slot.mode) = "high"
      BY <3>2 DEF TimingFor
    <3>4. card.ddr = BusWidthFor(slot.mode, 1).ddr
      <4>1. BusWidthFor(slot.mode, 1).ddr = (slot.mode \in {"HS_DDR", "HS_400", "HS_400_ES"})
        BY DEF BusWidthFor
      <4>2. (slot.mode \in {"HS_DDR", "HS_400", "HS_400_ES"}) = FALSE
        BY <3>2
      <4>3. card.ddr = FALSE
        BY <1>3, <1>5, <2>4
      <4> QED
        BY <4>1, <4>2, <4>3, Zenon
    <3>5. card.strobe = (slot.mode = "HS_400_ES")
      <4>1. ~card.ddr /\ card.strobe \in BOOLEAN
        BY <1>3, <1>5, <2>4 DEF CardType
      <4> QED
        BY <1>4, <3>2, <4>1
    <3>6. env.type # "sd"
      BY <2>4
    <3> QED
      BY <3>2, <3>3, <3>4, <3>5, <3>6, Zenon DEF AgreeOnMode
  <2> QED
    BY <1>3, <2>3, <2>4
<1>6. ASSUME op.name = "mode" PROVE AgreeOnMode /\ (env.type = "mmc" => AgreeOnWidth)
  <2> DEFINE mode == op.arg
  <2>1. \A s \in ModeFinals(mode) : Left(s)
    BY <1>2, <1>6 DEF Finals
  <2>2. CASE env.type = "sd"
    <3> DEFINE w == IF host.v18 THEN Step("hostUhs", mode) ELSE Step("hostHs", mode # "SDR12")
    <3>1. Left(Step("switch", mode)) /\ Left(w) /\ Left(Step("record", mode))
      BY <2>1, <2>2 DEF ModeFinals, SdFinals
    <3>2. card.timing = mode /\ slot.mode = mode
      BY <1>6, <3>1 DEF Left, Step
    <3>3. host.hs = (mode # "SDR12") /\ (host.v18 => host.uhs = mode)
      <4>1. CASE host.v18
        <5>1. Left(Step("hostUhs", mode))
          BY <3>1, <4>1
        <5> QED
          BY <5>1 DEF Left, Step
      <4>2. CASE ~host.v18
        <5>1. Left(Step("hostHs", mode # "SDR12"))
          BY <3>1, <4>2
        <5> QED
          BY <4>2, <5>1 DEF Left, Step
      <4> QED
        BY <4>1, <4>2
    <3> QED
      BY <2>2, <3>2, <3>3 DEF AgreeOnMode
  <2>3. CASE env.type = "mmc"
    <3>1. /\ Left(Step("timing", TimingFor(mode))) /\ Left(Step("busWidth", BusWidthFor(mode, slot.width)))
          /\ Left(Step("hostEmmc", mode)) /\ Left(Step("record", mode))
      BY <2>1, <2>3 DEF ModeFinals
    <3>2. card.timing = TimingFor(mode) /\ host.emmc = mode /\ slot.mode = mode
      BY <3>1 DEF Left, Step
    <3>3. /\ card.width = BusWidthFor(mode, slot.width).width /\ card.ddr = BusWidthFor(mode, slot.width).ddr
          /\ card.strobe = BusWidthFor(mode, slot.width).strobe
      BY <3>1 DEF Left, Step
    <3>4. /\ BusWidthFor(mode, slot.width).width = slot.width
          /\ BusWidthFor(mode, slot.width).ddr = BusWidthFor(mode, 1).ddr
          /\ BusWidthFor(mode, slot.width).strobe = (mode = "HS_400_ES")
      BY DEF BusWidthFor
    <3>5. env.type # "sd"
      BY <2>3
    <3>6. card.width = slot.width /\ card.ddr = BusWidthFor(mode, 1).ddr /\ card.strobe = (mode = "HS_400_ES")
      BY <3>3, <3>4, Zenon
    <3>7. AgreeOnMode
      BY <3>2, <3>5, <3>6, Zenon DEF AgreeOnMode
    <3>8. AgreeOnWidth
      BY <1>4, <3>6 DEF AgreeOnWidth
    <3> QED
      BY <3>7, <3>8
  <2> QED
    BY <1>3, <2>2, <2>3
<1>7. ASSUME op.name = "width" PROVE AgreeOnWidth
  <2>1. \A s \in WidthFinals(op.arg) : Left(s)
    BY <1>2, <1>7 DEF Finals
  <2>2. Left(DeviceWidth(op.arg)) /\ Left(Step("hostWidth", op.arg)) /\ Left(Step("recordWidth", op.arg))
    BY <2>1 DEF WidthFinals
  <2>3. host.width = op.arg /\ slot.width = op.arg
    BY <2>2 DEF Left, Step
  <2>4. card.width = op.arg
    <3>1. CASE env.type = "sd"
      <4>1. Left(Step("acmd6", op.arg))
        BY <2>2, <3>1 DEF DeviceWidth
      <4> QED
        BY <4>1 DEF Left, Step
    <3>2. CASE env.type = "mmc"
      <4>1. Left(Step("busWidth", BusWidthIn(slot.mode, op.arg)))
        BY <2>2, <3>2 DEF DeviceWidth
      <4>2. card.width = BusWidthIn(slot.mode, op.arg).width
        BY <4>1 DEF Left, Step
      <4>3. WidthAllows(op.arg, slot.mode) /\ op.arg \in Widths
        BY <1>3, <1>7, <3>2 DEF RefusesWidth, Ops
      <4>4. slot.mode \in {"HS_400", "HS_400_ES"} => op.arg = 8
        BY <4>3 DEF WidthAllows, Widths, SdModes
      <4> QED
        BY <4>2, <4>4 DEF BusWidthIn, BusWidthFor
    <3> QED
      BY <1>3, <3>1, <3>2
  <2> QED
    BY <2>3, <2>4 DEF AgreeOnWidth
<1>8. ASSUME op.name = "strength" PROVE card.strength = host.strength
  <2>1. \A s \in StrengthFinals(op.arg) : Left(s)
    BY <1>2, <1>8 DEF Finals
  <2>2. Left(Step("switch", op.arg)) /\ Left(Step("hostStrength", op.arg))
    BY <2>1 DEF StrengthFinals
  <2> QED
    BY <1>8, <2>2 DEF Left, Step
<1> QED
  BY <1>5, <1>6, <1>7, <1>8

\* One that sends no switch has nothing to set: only a width can be set already.
LEMMA UntouchedIsWidth ==
    ASSUME ModeInv, status = "run", todo = <<>>, touched = "no", op.name \in FourKinds
    PROVE  op.name = "width"
<1> SUFFICES ASSUME op.name # "width" PROVE FALSE
  OBVIOUS
<1>1. \A s \in Finals(op) : ToCome(todo, s) \/ Done(todo, s)
  BY DEF ModeInv, FinalInv, Nothing
<1>2. \A s \in Finals(op) : FALSE
  BY <1>1 DEF ToCome, Done, FourKinds
<1>3. Finals(op) # {}
  BY DEF Finals, FourKinds, HighFinals, ModeFinals, SdFinals, StrengthFinals
<1> QED
  BY <1>2, <1>3

LEMMA ReturnAgrees ==
    ASSUME ModeInv, status = "run", todo = <<>>, slot.attached
    PROVE  AgreeBut(Repaired)
<1>1. AgreeBut(Doubts) /\ touched \in {"no", "sent", "forgot"} /\ (env.type = "sd" \/ env.type = "mmc")
  BY ModeAssumption DEF ModeInv, NowInv, Doubts, TypeInv
<1>2. CASE op.name \notin FourKinds \/ touched = "forgot"
  <2>1. Doubts \subseteq Repaired
    <3>1. CASE touched = "forgot"
      <4>1. Repaired = doubt \cup {Subject}
        BY <3>1 DEF Repaired
      <4> QED
        BY <4>1 DEF Doubts, Suspect
    <3>2. CASE op.name \notin FourKinds /\ touched # "forgot"
      <4>1. Repaired = doubt
        BY <3>2 DEF Repaired, FourKinds
      <4> QED
        BY <3>2, <4>1 DEF Doubts, Suspect
    <3> QED
      BY <1>2, <3>1, <3>2
  <2> QED
    BY <1>1, <2>1, AgreeMore
<1>3. CASE op.name \in FourKinds /\ touched = "no"
  <2>1. op.name = "width"
    BY <1>3, UntouchedIsWidth
  <2>2. Repaired = doubt /\ Doubts = doubt
    BY <1>3, <2>1 DEF Repaired, Doubts, Suspect
  <2> QED
    BY <1>1, <2>2
<1>4. CASE op.name \in FourKinds /\ touched = "sent"
  <2>1. /\ op.name \in {"mode", "high"} => AgreeOnMode
        /\ op.name = "width" \/ (op.name = "mode" /\ env.type = "mmc") => AgreeOnWidth
        /\ op.name = "strength" => card.strength = host.strength
    BY <1>4, SentSets
  <2>2. Doubts = doubt \cup {Subject}
    BY <1>4 DEF Doubts, Suspect
  <2>3. CASE op.name = "mode" /\ env.type = "mmc"
    <3>1. card.strength = host.strength
      BY <2>3 DEF ModeInv, SideInv
    <3> QED
      BY <1>1, <2>1, <2>3, <3>1 DEF AgreeBut
  <2>4. CASE op.name \in {"mode", "high"} /\ ~(op.name = "mode" /\ env.type = "mmc")
    <3>1. Repaired = doubt \ {"mode"} /\ Subject = "mode"
      BY <1>1, <1>4, <2>4 DEF Repaired, Subject
    <3> QED
      BY <1>1, <2>1, <2>2, <2>4, <3>1 DEF AgreeBut
  <2>5. CASE op.name = "width"
    <3>1. Repaired = doubt \ {"width"} /\ Subject = "width"
      BY <1>4, <2>5 DEF Repaired, Subject
    <3> QED
      BY <1>1, <2>1, <2>2, <2>5, <3>1 DEF AgreeBut
  <2>6. CASE op.name = "strength"
    <3>1. Repaired = doubt \ {"strength"} /\ Subject = "strength"
      BY <1>4, <2>6 DEF Repaired, Subject
    <3> QED
      BY <1>1, <2>1, <2>2, <2>6, <3>1 DEF AgreeBut
  <2> QED
    BY <1>4, <2>3, <2>4, <2>5, <2>6 DEF FourKinds
<1> QED
  BY <1>1, <1>2, <1>3, <1>4

LEMMA ReturnKeeps ==
    ASSUME ModeInv, Return
    PROVE  ModeInv'
<1>1. TypeInv' /\ UNCHANGED <<env, card, host, clk, slot, todo>> /\ todo = <<>>
  BY ReturnTypes DEF ModeInv, Return, TypeInv
<1>2. SideInv'
  <2>1. SideInv
    BY DEF ModeInv
  <2> QED
    BY <1>1, <2>1 DEF SideInv
<1>3. status' # "run" /\ FinalInv' /\ ListInv'
  BY DEF Return, FinalInv, ListInv
<1>4. ASSUME slot.attached PROVE AgreeBut(doubt')
  <2>1. CASE status = "run" /\ doubt' = Repaired
    BY <1>1, <1>4, <2>1, ReturnAgrees
  <2>2. CASE status # "run" /\ doubt' = doubt
    <3>1. Suspect = {}
      BY <2>2 DEF Suspect
    <3>2. AgreeBut(doubt)
      BY <1>4, <3>1 DEF ModeInv, NowInv
    <3> QED
      BY <2>2, <3>2
  <2> QED
    BY <2>1, <2>2 DEF Return
<1>5. NowInv'
  <2>1. Suspect' = {}
    BY <1>3 DEF Suspect
  <2>2. ASSUME NEW D, D = doubt', AgreeBut(D) PROVE AgreeBut(D)'
    BY <1>1, <2>2 DEF AgreeBut, AgreeOnMode, AgreeOnWidth, TimingFor, BusWidthFor
  <2>3. slot.attached => AgreeBut(doubt)'
    <3>1. PICK D : D = doubt'
      OBVIOUS
    <3>2. ASSUME slot.attached PROVE AgreeBut(D)'
      BY <1>4, <2>2, <3>1, <3>2
    <3> QED
      BY <3>1, <3>2 DEF AgreeBut
  <2> QED
    BY <1>1, <2>1, <2>3 DEF NowInv, AgreeBut
<1> QED
  BY <1>1, <1>2, <1>3, <1>5 DEF ModeInv

\* A list is drawn up from the settings as they are.
LEMMA CallKeeps ==
    ASSUME ModeInv, Call
    PROVE  ModeInv'
<1>0. TypeInv'
  BY CallTypes DEF ModeInv
<1>1. PICK o \in Ops : MayCall(o) /\ o.name # "detach" /\ op' = o /\ todo' = Steps(o)
  BY DEF Call
<1>2. /\ UNCHANGED <<env, card, host, clk, slot, doubt, windows>> /\ status = "idle" /\ status' = "run" /\ touched' = "no"
  BY DEF Call
<1> DEFINE t == Steps(o)
<1>3. Drawn(o, t) /\ t \in Seq(Alphabet(o))
  BY <1>1, StepsDrawn, StepsTyped DEF ModeInv, MayCall
<1> HIDE DEF t
<1>4. todo' = t
  BY <1>1 DEF t
<1>5. Shape(op, todo)'
  BY <1>1, <1>2, <1>3, <1>4 DEF Drawn, Shape, AttachShape, WidthShape, OnceShape, None, Step
<1>6. o.name = "attach" <=> ~slot.attached
  BY <1>1 DEF MayCall
<1>7. Finals(op)' = Finals(o)
  BY <1>1, <1>2, FinalsKept
<1>8. \/ Nothing'
      \/ (\A s \in Finals(o) : ToCome(t, s)) /\ (o.name = "width" => ~RefusesWidth(o.arg))
  BY <1>1, <1>2, <1>3, <1>4 DEF Drawn, Nothing, Refusal, Step
<1>9. FinalInv'
  <2> SUFFICES ASSUME ~Nothing', NEW s \in Finals(o) PROVE ToCome(todo, s)'
    BY <1>7 DEF FinalInv
  <2> QED
    BY <1>2, <1>4, <1>8, ToComeKept
<1>10. o.name \in FourKinds /\ t # <<>> => Led(t)
  BY <1>3 DEF Drawn
<1>11. ListInv'
  <2>1. o.name \in FourKinds /\ t # <<>> => Led(todo)'
    BY <1>4, <1>10 DEF Led
  <2>2. o.name = "attach" => (slot'.attached <=> todo' = <<>>)
    BY <1>2, <1>3, <1>4, <1>6 DEF Drawn
  <2>3. o.name = "width" /\ ~Nothing' => ~RefusesWidth(o.arg)'
    <3>1. RefusesWidth(o.arg)' = RefusesWidth(o.arg)
      BY <1>2 DEF RefusesWidth, WidthAllows
    <3> QED
      BY <1>8, <3>1
  <2>4. o.name = "high" => IF env.type = "sd" THEN host.v18 = FALSE ELSE o.arg = TRUE /\ card.ddr = FALSE
    <3>1. o.name = "high" => o.arg \in BOOLEAN
      BY DEF Ops
    <3>2. card.ddr \in BOOLEAN /\ host.v18 \in BOOLEAN
      BY DEF ModeInv, TypeInv, CardType, HostType
    <3> QED
      BY <1>1, <3>1, <3>2 DEF MayCall, InOrder
  <2>5. o.name # "attach" => slot'.attached
    BY <1>2, <1>6
  <2> QED
    BY <1>1, <1>2, <1>4, <1>5, <2>1, <2>2, <2>3, <2>4, <2>5 DEF ListInv
<1>12. NowInv'
  <2>1. Suspect = {} /\ Suspect' = {}
    BY <1>2 DEF Suspect
  <2>2. slot.attached => AgreeBut(doubt)
    BY <2>1 DEF ModeInv, NowInv
  <2>3. slot.attached => AgreeBut(doubt)'
    BY <1>2, <2>2 DEF AgreeBut, AgreeOnMode, AgreeOnWidth, TimingFor, BusWidthFor
  <2> QED
    BY <1>2, <2>1, <2>3 DEF NowInv, AgreeBut
<1>13. SideInv'
  <2>1. SideInv
    BY DEF ModeInv
  <2>2. ~(op'.name = "width" /\ todo' # <<>> /\ todo'[1].does = "recordWidth")
    <3> SUFFICES ASSUME o.name = "width", t # <<>>, t[1].does = "recordWidth" PROVE FALSE
      BY <1>1, <1>4
    <3>1. PICK k \in 1 .. Len(t) : \A i \in 1 .. k : t[i].does \notin Writes
      BY <1>10 DEF Led, FourKinds
    <3>2. 1 \in 1 .. k
      BY <3>1
    <3> QED
      BY <3>1, <3>2 DEF Writes
  <2> QED
    BY <1>2, <2>1, <2>2 DEF SideInv
<1> QED
  BY <1>0, <1>9, <1>11, <1>12, <1>13 DEF ModeInv

LEMMA DetachKeeps ==
    ASSUME ModeInv, Detach
    PROVE  ModeInv'
<1>1. TypeInv'
  BY DetachTypes DEF ModeInv
<1>2. /\ UNCHANGED <<env, host, op, todo, status>> /\ status = "idle" /\ card' = Fresh /\ "detach" \in env.ops
      /\ slot' = [slot EXCEPT !.attached = FALSE, !.retuning = FALSE] /\ slot \in SlotType
  BY DEF Detach, ModeInv, TypeInv
<1>3. slot'.attached = FALSE /\ slot'.mode = slot.mode /\ slot'.uhsi = slot.uhsi
  BY <1>2 DEF SlotType
<1>4. SideInv
  BY DEF ModeInv
<1>5. card'.strobe = FALSE /\ card'.strength = "B"
  BY <1>2, FreshIs
<1>6. SideInv'
  BY <1>2, <1>3, <1>4, <1>5 DEF SideInv
<1>7. FinalInv' /\ ListInv' /\ NowInv'
  BY <1>2, <1>3 DEF FinalInv, ListInv, NowInv
<1> QED
  BY <1>1, <1>6, <1>7 DEF ModeInv

LEMMA ModeInvKept ==
    ASSUME KeepsCard, ModeInv, [Next]_vars
    PROVE  ModeInv'
<1>1. CASE Takes
  <2>1. TypeInv'
    BY TypesKept DEF ModeInv
  <2>2. FinalInv' /\ ListInv' /\ NowInv' /\ SideInv'
    BY <1>1, FinalKept, ListKept, NowKept, SideKept DEF ModeInv
  <2> QED
    BY <2>1, <2>2 DEF ModeInv
<1>2. CASE Call
  BY <1>2, CallKeeps
<1>3. CASE Detach
  BY <1>3, DetachKeeps
<1>4. CASE Return
  BY <1>4, ReturnKeeps
<1>5. CASE UNCHANGED vars
  <2>1. TypeInv' /\ UNCHANGED <<env, card, host, clk, slot, op, todo, status, touched, doubt, windows>>
    BY <1>5, TypesKept DEF ModeInv, vars
  <2>2. FinalInv'
    <3>1. Finals(op)' = Finals(op) /\ Nothing' = Nothing
      BY <2>1, FinalsKept DEF Nothing, Refusal, Step
    <3>2. ASSUME NEW s, ToCome(todo, s) \/ Done(todo, s) PROVE ToCome(todo, s)' \/ Done(todo, s)'
      <4>1. CASE ToCome(todo, s)
        BY <2>1, <4>1, ToComeKept
      <4>2. CASE Done(todo, s)
        <5>1. Left(s)' = Left(s)
          BY <2>1 DEF Left, Fresh
        <5>2. None(todo, Undoes(s.does)) => None(todo, Undoes(s.does))'
          BY <2>1, UndoesKept DEF None
        <5> QED
          BY <2>1, <4>2, <5>1, <5>2 DEF Done
      <4> QED
        BY <3>2, <4>1, <4>2
    <3>3. FinalInv
      BY DEF ModeInv
    <3> QED
      BY <2>1, <3>1, <3>2, <3>3 DEF FinalInv
  <2>3. ListInv'
    <3>1. ListInv
      BY DEF ModeInv
    <3>2. Nothing' = Nothing
      BY <2>1 DEF Nothing, Refusal, Step
    <3>3. Shape(op, todo) => Shape(op, todo)'
      BY <2>1 DEF Shape, AttachShape, WidthShape, OnceShape, None, Step
    <3>4. /\ Led(todo)' = Led(todo) /\ None(todo, {"switch"})' = None(todo, {"switch"})
          /\ RefusesWidth(op.arg)' = RefusesWidth(op.arg)
      BY <2>1 DEF Led, None, RefusesWidth, WidthAllows
    <3> QED
      BY <2>1, <3>1, <3>2, <3>3, <3>4 DEF ListInv
  <2>4. NowInv'
    <3>1. NowInv
      BY DEF ModeInv
    <3> QED
      BY <2>1, <3>1 DEF NowInv, Suspect, Subject, AgreeBut, AgreeOnMode, AgreeOnWidth, TimingFor, BusWidthFor
  <2>5. SideInv'
    <3>1. SideInv
      BY DEF ModeInv
    <3> QED
      BY <2>1, <3>1 DEF SideInv
  <2> QED
    BY <2>1, <2>2, <2>3, <2>4, <2>5 DEF ModeInv
<1> QED
  BY <1>1, <1>2, <1>3, <1>4, <1>5 DEF Next, Takes

LEMMA ModeInvStarts ==
    ASSUME Init
    PROVE  ModeInv
<1>1. TypeInv
  <2>1. env \in Envs /\ windows = {} /\ doubt = {} /\ status = "idle" /\ todo = <<>> /\ touched = "no"
    BY DEF Init
  <2> QED
    BY <2>1, InitTypes DEF TypeInv
<1>2. /\ host.v18 = FALSE /\ slot.uhsi = FALSE /\ slot.attached = FALSE /\ host.hs = FALSE
      /\ host.uhs = "SDR12" /\ host.emmc = "SD" /\ host.strength = "B" /\ slot.mode = "SDR12"
  BY DEF Init
<1>3. card.strobe = FALSE /\ card.strength = "B"
  BY FreshIs DEF Init
<1>4. SideInv
  BY <1>2, <1>3 DEF SideInv
<1>5. FinalInv /\ ListInv /\ NowInv
  BY <1>2 DEF Init, FinalInv, ListInv, NowInv
<1> QED
  BY <1>1, <1>4, <1>5 DEF ModeInv

\* Between calls card, host and the slot's record agree on mode, width, voltage and drive strength but
\* for what a function that failed after it had sent the card a switch, or one whose error was lost,
\* has left in doubt, whatever was called before and however it ended, as long as a card is not
\* replaced where modes or strengths are set (SDIOHost_ConfigureAccessMode, ConfigureHighSpeed,
\* SetBusWidth, ConfigureDrvStrength, DeviceAttach and DeviceDetach).
THEOREM CardAndHostAgree == KeepsCard /\ Spec => []ModesAgree
<1> SUFFICES ASSUME KeepsCard PROVE Spec => []ModesAgree
  OBVIOUS
<1>1. Init => ModeInv
  BY ModeInvStarts
<1>2. ModeInv /\ [Next]_vars => ModeInv'
  BY ModeInvKept
<1>3. ModeInv => ModesAgree
  <2> SUFFICES ASSUME ModeInv, status = "idle", slot.attached
               PROVE  /\ card.v18 = host.v18
                      /\ doubt \cap {"mode"} = {} => AgreeOnMode
                      /\ doubt \cap (IF env.type = "mmc" THEN {"mode", "width"} ELSE {"width"}) = {} => AgreeOnWidth
                      /\ "strength" \notin doubt => card.strength = host.strength
    BY DEF ModesAgree
  <2>1. Suspect = {}
    BY DEF Suspect
  <2>2. AgreeBut(doubt)
    BY <2>1 DEF ModeInv, NowInv
  <2> QED
    BY <2>2 DEF AgreeBut
<1> QED
  BY <1>1, <1>2, <1>3, PTL DEF Spec
====
