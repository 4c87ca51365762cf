------------------------------- MODULE MemCardProofs -------------------------------
(* Proofs about MemCard for every card and sector size: the driver and the card agree *)
(* on the block length, however commands fail (AgreeOnLength); every stream of blocks *)
(* is ended (StreamsAreStopped), from what the list of every call has in common; the   *)
(* memory changes only where a caller asked (TouchesOnlyAsked), and success means that *)
(* all of it is done (OkMeansDone), from where the list of a call in progress stands.  *)
EXTENDS MemCard, SequenceTheorems, TLAPS

\* The agreement also holds in the middle of a call.
Agree == ~doubt => env.high \/ blockSize = card.len

\* A request in the background transfers data.
LengthInv == /\ "len" \in DOMAIN card
             /\ g.state = "pending" => IsTransfer(g.step)
             /\ Agree

\* After the attach both have 512 bytes, and no request is in the background.
LEMMA InitLength == Init => LengthInv
  BY DEF Init, LengthInv, Agree, NoG, NoOp

\* Only a CMD16 that was taken changes the card's block length.
LEMMA CardKeepsLength ==
    ASSUME NEW s, NEW o, "len" \in DOMAIN card
    PROVE  /\ "len" \in DOMAIN CardAfter(s, o)
           /\ CardAfter(s, o).len = IF s.cmd = "length" /\ ~env.high THEN s.arg ELSE card.len
<1>1. CASE s.cmd \in {"select", "deselect", "stop", "length", "preset", "from", "to", "erase"}
  BY <1>1 DEF CardAfter, IsTransfer
<1>2. CASE s.cmd \in {"single", "multiple", "next"}
  BY <1>2 DEF CardAfter, IsTransfer
<1>3. CASE s.cmd \notin {"select", "deselect", "stop", "length", "preset", "from", "to", "erase",
                         "single", "multiple", "next"}
  BY <1>3 DEF CardAfter, IsTransfer
<1> QED
  BY <1>1, <1>2, <1>3

\* The recovery leaves it, and so does a command the card did not take.
LEMMA RecoveryKeepsLength ==
    ASSUME NEW c, "len" \in DOMAIN c, NEW d \in Recovered(c)
    PROVE  "len" \in DOMAIN d /\ d.len = c.len
  BY DEF Recovered

LEMMA CarryLength ==
    ASSUME NEW s, NEW o, NEW outcome, "len" \in DOMAIN card, Carry(s, o, outcome)
    PROVE  /\ "len" \in DOMAIN card'
           /\ card'.len = card.len \/ card'.len = CardAfter(s, o).len
           /\ outcome = "ok" => card'.len = CardAfter(s, o).len
  BY CardKeepsLength, RecoveryKeepsLength DEF Carry

\* A command carried out or lost.
LEMMA ExecLength == ASSUME LengthInv, Exec PROVE LengthInv'
<1> DEFINE s == Head(todo)
<1>1. PICK outcome \in Outcomes(s) :
        /\ Carry(s, op, outcome)
        /\ DriverAfter(s, outcome = "ok")
        /\ g' = GAfter(s, outcome = "ok")
  BY DEF Exec
<1>2. g.state # "pending" /\ env' = env
  BY DEF Exec
<1>3. g'.state # "pending"
  BY <1>1, <1>2 DEF GAfter, NoG
<1>4. /\ "len" \in DOMAIN card'
      /\ card'.len = card.len \/ card'.len = IF s.cmd = "length" /\ ~env.high THEN s.arg ELSE card.len
      /\ outcome = "ok" => card'.len = IF s.cmd = "length" /\ ~env.high THEN s.arg ELSE card.len
  BY <1>1, CarryLength, CardKeepsLength DEF LengthInv
<1>5. Agree'
  <2> HIDE DEF s
  <2>1. CASE s.cmd = "length"
    BY <1>1, <1>2, <1>4, <2>1 DEF DriverAfter, LengthInv, Agree
  <2>2. CASE s.cmd # "length"
    BY <1>1, <1>2, <1>4, <2>2 DEF DriverAfter, LengthInv, Agree
  <2> QED
    BY <2>1, <2>2
<1> QED
  BY <1>3, <1>4, <1>5 DEF LengthInv

\* The request in the background is a transfer: it sets no length.
LEMMA RequestLength == ASSUME LengthInv, RequestEnds PROVE LengthInv'
<1>1. g.state = "pending" /\ UNCHANGED <<env, driver, doubt>>
  BY DEF RequestEnds
<1>2. PICK outcome : Carry(g.step, g.op, outcome)
  BY DEF RequestEnds
<1>3. "len" \in DOMAIN card' /\ card'.len = card.len
  BY <1>1, <1>2, CarryLength, CardKeepsLength DEF LengthInv, IsTransfer
<1>4. g'.state # "pending"
  BY DEF RequestEnds, NoG
<1> QED
  BY <1>1, <1>3, <1>4 DEF LengthInv, Agree, driver

\* The steps of a call that send nothing, and the change of the access mode.
LEMMA CallLength ==
    ASSUME LengthInv, Call \/ ChangeMode \/ SkipSelect \/ SlotIsBusy \/ StartRequest \/ Return
    PROVE LengthInv'
<1> USE DEF LengthInv, Agree, driver
<1>1. CASE Call
  BY <1>1 DEF Call
<1>2. CASE ChangeMode
  BY <1>2 DEF ChangeMode, MayCall
<1>3. CASE SkipSelect \/ SlotIsBusy
  BY <1>3 DEF SkipSelect, SlotIsBusy
<1>4. CASE StartRequest
  BY <1>4 DEF StartRequest, LeftToG, NoG
<1>5. CASE Return
  BY <1>5 DEF Return, NoG
<1> QED
  BY <1>1, <1>2, <1>3, <1>4, <1>5

\* Every step keeps the agreement.
LEMMA NextLength == LengthInv /\ [Next]_vars => LengthInv'
<1> SUFFICES ASSUME LengthInv, [Next]_vars PROVE LengthInv'
  OBVIOUS
<1>1. CASE UNCHANGED vars
  BY <1>1 DEF vars, driver, LengthInv, Agree
<1>2. CASE Next
  BY <1>2, ExecLength, RequestLength, CallLength DEF Next
<1> QED
  BY <1>1, <1>2

\* Between calls the driver and the card agree on the block length unless the answer of a
\* CMD16 was lost (MemoryCard_SetBlockLength, whatever the calls refuse, however they fail).
THEOREM LengthsAgree == Spec => []AgreeOnLength
<1>1. LengthInv => AgreeOnLength
  BY DEF LengthInv, Agree, AgreeOnLength
<1> QED
  BY <1>1, InitLength, NextLength, PTL DEF Spec

----------------------------------------------------------------------------
(* Every stream of blocks is ended *)

\* A transfer that neither its command nor the host ends.
Unended(s) == IsTransfer(s) /\ s.cmd # "single" /\ s.stop = "none"
\* The command after the i-th is a stop.
Stopped(t, i) == i < Len(t) /\ t[i + 1].cmd = "stop"
IsList(t) == \E S : t \in Seq(S)
\* A block count sent ahead is followed by the transfer it counts.
PresetsCount(t) ==
    \A i \in 1 .. Len(t) : t[i].cmd = "preset" =>
        t[i].strict /\ i < Len(t) /\ IsTransfer(t[i + 1]) /\ t[i + 1].count = t[i].arg
\* From the first on, an unended transfer has a stop behind it or a count before it.
StreamsEnd(t, first) ==
    \A i \in first .. Len(t) : Unended(t[i]) => Stopped(t, i) \/ (i > 1 /\ t[i - 1].cmd = "preset")
OpenEnded(o) == o.name \in {"infStart", "infContinue"}
\* The finishing call sends nothing but stops, the transfer left to gRequest none, the wait
\* for it nothing at all.
Stops(o, t) ==
    /\ o.name = "infFinish" => \A i \in 1 .. Len(t) : t[i].cmd = "stop"
    /\ o.name = "nonBlock" => \A i \in 1 .. Len(t) : t[i].cmd # "stop"
    /\ o.name = "wait" => t = <<>>

\* From the first on, a stop follows a transfer that nothing else ends and whose failure ends
\* the call.
StopsBehind(t, first) ==
    \A i \in first .. Len(t) : t[i].cmd = "stop" =>
        /\ i > 1 /\ Unended(t[i - 1]) /\ t[i - 1].strict /\ t[i - 1].count # 0
        /\ i > 2 => t[i - 2].cmd # "preset"
\* An infinite transfer is the last command of its call, and no count or stop is before it; to
\* go on with one takes nothing else, to finish it one command.
EndlessList(o, t) ==
    /\ OpenEnded(o) => \A i \in 1 .. Len(t) :
          /\ t[i].cmd \notin {"preset", "stop"}
          /\ IsTransfer(t[i]) => i = Len(t) /\ Unended(t[i]) /\ t[i].count # 0
    /\ o.name = "infContinue" => \A i \in 1 .. Len(t) : IsTransfer(t[i])
    /\ o.name = "infFinish" => Len(t) <= 1

\* No transfer, no count of one and no end of one.
Plain(t) == \A i \in 1 .. Len(t) : t[i].cmd \notin {"single", "multiple", "next", "preset", "stop"}

\* Two lists, one after the other.
LEMMA Joined ==
    ASSUME NEW S, NEW a \in Seq(S), NEW b \in Seq(S)
    PROVE  /\ a \o b \in Seq(S) /\ Len(a \o b) = Len(a) + Len(b)
           /\ \A i \in 1 .. Len(a) : (a \o b)[i] = a[i]
           /\ \A i \in 1 .. Len(b) : (a \o b)[Len(a) + i] = b[i]
  BY ConcatProperties

\* Commands that move nothing may precede any good list, and follow none.
LEMMA PlainFirst ==
    ASSUME NEW S, NEW a \in Seq(S), NEW b \in Seq(S), Plain(a)
    PROVE  /\ PresetsCount(b) => PresetsCount(a \o b)
           /\ StreamsEnd(b, 1) => StreamsEnd(a \o b, 1)
           /\ StopsBehind(b, 1) => StopsBehind(a \o b, 1)
<1> DEFINE t == a \o b
<1>1. /\ Len(t) = Len(a) + Len(b) /\ Len(a) \in Nat /\ Len(b) \in Nat
      /\ \A i \in 1 .. Len(a) : t[i] = a[i]
      /\ \A i \in 1 .. Len(b) : t[Len(a) + i] = b[i]
  BY Joined
<1> HIDE DEF t
<1>2. ASSUME NEW i \in 1 .. Len(t), i > Len(a)
      PROVE  /\ i - Len(a) \in 1 .. Len(b) /\ t[i] = b[i - Len(a)]
             /\ i < Len(t) => t[i + 1] = b[i - Len(a) + 1] /\ i - Len(a) < Len(b)
             /\ i - Len(a) > 1 => t[i - 1] = b[i - Len(a) - 1]
  <2>1. PICK j \in 1 .. Len(b) : i = Len(a) + j
    <3>1. i - Len(a) \in 1 .. Len(b) /\ i = Len(a) + (i - Len(a))
      BY <1>1, <1>2
    <3> QED
      BY <3>1
  <2>2. i - Len(a) = j /\ t[i] = b[j]
    BY <1>1, <2>1
  <2>3. i < Len(t) => j < Len(b) /\ t[i + 1] = b[j + 1]
    <3>1. i < Len(t) => j + 1 \in 1 .. Len(b) /\ i + 1 = Len(a) + (j + 1)
      BY <1>1, <2>1
    <3> QED
      BY <1>1, <2>1, <3>1
  <2>4. j > 1 => t[i - 1] = b[j - 1]
    <3>1. j > 1 => j - 1 \in 1 .. Len(b) /\ i - 1 = Len(a) + (j - 1)
      BY <1>1, <2>1
    <3> QED
      BY <1>1, <3>1
  <2> QED
    BY <2>1, <2>2, <2>3, <2>4
<1>3. ASSUME PresetsCount(b) PROVE PresetsCount(t)
  <2> SUFFICES ASSUME NEW i \in 1 .. Len(t), t[i].cmd = "preset"
               PROVE  t[i].strict /\ i < Len(t) /\ IsTransfer(t[i + 1]) /\ t[i + 1].count = t[i].arg
    BY DEF PresetsCount
  <2>1. i > Len(a)
    BY <1>1 DEF Plain
  <2>2. LET j == i - Len(a)
        IN  b[j].strict /\ j < Len(b) /\ IsTransfer(b[j + 1]) /\ b[j + 1].count = b[j].arg
    BY <1>2, <1>3, <2>1 DEF PresetsCount
  <2>3. i < Len(t)
    BY <1>1, <2>2
  <2> QED
    BY <1>2, <2>1, <2>2, <2>3
<1>4. ASSUME StreamsEnd(b, 1) PROVE StreamsEnd(t, 1)
  <2> SUFFICES ASSUME NEW i \in 1 .. Len(t), Unended(t[i])
               PROVE  Stopped(t, i) \/ (i > 1 /\ t[i - 1].cmd = "preset")
    BY DEF StreamsEnd
  <2>1. i > Len(a)
    BY <1>1 DEF Plain, Unended, IsTransfer
  <2>2. LET j == i - Len(a)
        IN  Stopped(b, j) \/ (j > 1 /\ b[j - 1].cmd = "preset")
    BY <1>2, <1>4, <2>1 DEF StreamsEnd
  <2> QED
    BY <1>1, <1>2, <2>1, <2>2 DEF Stopped
<1>5. ASSUME StopsBehind(b, 1) PROVE StopsBehind(t, 1)
  <2> SUFFICES ASSUME NEW i \in 1 .. Len(t), t[i].cmd = "stop"
               PROVE  /\ i > 1 /\ Unended(t[i - 1]) /\ t[i - 1].strict /\ t[i - 1].count # 0
                      /\ i > 2 => t[i - 2].cmd # "preset"
    BY DEF StopsBehind
  <2>1. i > Len(a)
    BY <1>1 DEF Plain
  <2>2. LET j == i - Len(a)
        IN  /\ j > 1 /\ Unended(b[j - 1]) /\ b[j - 1].strict /\ b[j - 1].count # 0
            /\ j > 2 => b[j - 2].cmd # "preset"
    BY <1>2, <1>5, <2>1 DEF StopsBehind
  <2>3. i > 1 /\ t[i - 1] = b[i - Len(a) - 1] /\ i - 1 \in 1 .. Len(t)
    BY <1>1, <1>2, <2>1, <2>2
  <2>4. ASSUME i > 2 PROVE t[i - 2].cmd # "preset"
    <3>1. CASE i - 2 <= Len(a)
      <4>1. i - 2 \in 1 .. Len(a)
        BY <1>1, <2>4, <3>1
      <4> QED
        BY <1>1, <4>1 DEF Plain
    <3>2. CASE i - 2 > Len(a)
      <4>1. /\ i - 2 - Len(a) \in 1 .. Len(b) /\ i - 2 = Len(a) + (i - 2 - Len(a))
            /\ i - 2 - Len(a) = i - Len(a) - 2 /\ i - Len(a) > 2
        BY <1>1, <3>2
      <4> QED
        BY <1>1, <2>2, <4>1
    <3> QED
      BY <1>1, <3>1, <3>2
  <2> QED
    BY <2>2, <2>3, <2>4
<1> QED
  BY <1>3, <1>4, <1>5 DEF t

LEMMA ListOf == ASSUME NEW S, NEW t \in Seq(S) PROVE IsList(t)
  BY DEF IsList

\* The lists of one and of two commands.
LEMMA ShortLists ==
    ASSUME NEW s, NEW u
    PROVE  /\ IsList(<<s>>) /\ Len(<<s>>) = 1 /\ <<s>>[1] = s
           /\ IsList(<<s, u>>) /\ Len(<<s, u>>) = 2 /\ <<s, u>>[1] = s /\ <<s, u>>[2] = u
<1>1. <<s>> \in Seq({s, u}) /\ <<s, u>> \in Seq({s, u})
  OBVIOUS
<1>2. IsList(<<s>>) /\ IsList(<<s, u>>)
  BY <1>1, ListOf
<1> QED
  BY <1>2


LEMMA PlainJoined ==
    ASSUME NEW S, NEW a \in Seq(S), NEW b \in Seq(S), Plain(a), Plain(b)
    PROVE  Plain(a \o b)
<1> DEFINE t == a \o b
<1>1. /\ Len(t) = Len(a) + Len(b) /\ Len(a) \in Nat /\ Len(b) \in Nat
      /\ \A i \in 1 .. Len(a) : t[i] = a[i]
      /\ \A i \in 1 .. Len(b) : t[Len(a) + i] = b[i]
  BY Joined
<1> HIDE DEF t
<1>2. ASSUME NEW i \in 1 .. Len(t)
      PROVE  (i \in 1 .. Len(a) /\ t[i] = a[i]) \/ \E j \in 1 .. Len(b) : t[i] = b[j]
  <2>1. CASE i <= Len(a)
    BY <1>1, <2>1
  <2>2. CASE i > Len(a)
    <3>1. i - Len(a) \in 1 .. Len(b) /\ i = Len(a) + (i - Len(a))
      BY <1>1, <2>2
    <3> QED
      BY <1>1, <3>1
  <2> QED
    BY <1>1, <2>1, <2>2
<1>3. Plain(t)
  BY <1>2 DEF Plain
<1> QED
  BY <1>3 DEF t

\* What precedes a transfer of whole sectors: the block length, and the selection.
LEMMA LengthFirst ==
    ASSUME ddr => blockSize = Sector
    PROVE  IsList(SetBlockLengthTo512 \o <<Select>>) /\ Plain(SetBlockLengthTo512 \o <<Select>>)
<1> DEFINE l == Command("length", Sector)
<1>1. SetBlockLengthTo512 \in {<<>>, <<Select, l>>}
  BY DEF SetBlockLengthTo512, SetBlockLength
<1>2. Select.cmd = "select" /\ l.cmd = "length"
  BY DEF Select, Command
<1> HIDE DEF l
<1>3. <<>> \in Seq({Select, l}) /\ <<Select, l>> \in Seq({Select, l}) /\ <<Select>> \in Seq({Select, l})
  OBVIOUS
<1>4. Plain(<<Select>>) /\ Plain(<<Select, l>>) /\ Plain(<<>>)
  BY <1>2, ShortLists DEF Plain
<1> QED
  BY <1>1, <1>3, <1>4, Joined, PlainJoined, ListOf

\* A list that leaves no stream of blocks without its end, and ends none twice.
EndedList(t) == IsList(t) /\ PresetsCount(t) /\ StreamsEnd(t, 1) /\ StopsBehind(t, 1)

\* A transfer of several blocks has a count before it, ends by itself or has a stop behind it.
LEMMA TransferEnds ==
    ASSUME NEW s, IsTransfer(s),
           NEW p, p.cmd = "preset", p.strict, p.arg = s.count,
           NEW e, e.cmd = "stop"
    PROVE  /\ EndedList(<<p, s>>)
           /\ Unended(s) /\ s.strict /\ s.count # 0 => EndedList(<<s, e>>)
           /\ ~Unended(s) => EndedList(<<s>>)
<1>1. ASSUME NEW t, Len(t) = 2, t[1] = p, t[2] = s PROVE PresetsCount(t) /\ StreamsEnd(t, 1) /\ StopsBehind(t, 1)
  <2>1. 1 .. 2 = {1, 2} /\ 1 + 1 = 2 /\ 2 - 1 = 1
    OBVIOUS
  <2>2. PresetsCount(t)
    BY <1>1, <2>1 DEF PresetsCount, IsTransfer
  <2>3. StreamsEnd(t, 1)
    BY <1>1, <2>1 DEF StreamsEnd, Unended, IsTransfer
  <2>4. StopsBehind(t, 1)
    BY <1>1, <2>1 DEF StopsBehind, IsTransfer
  <2> QED
    BY <2>2, <2>3, <2>4
<1>2. ASSUME NEW t, Len(t) = 2, t[1] = s, t[2] = e, Unended(s), s.strict, s.count # 0
      PROVE  PresetsCount(t) /\ StreamsEnd(t, 1) /\ StopsBehind(t, 1)
  <2>1. 1 .. 2 = {1, 2} /\ 1 + 1 = 2 /\ 2 - 1 = 1
    OBVIOUS
  <2>2. StopsBehind(t, 1)
    BY <1>2, <2>1 DEF StopsBehind, IsTransfer
  <2> QED
    BY <1>2, <2>2 DEF PresetsCount, StreamsEnd, Unended, IsTransfer, Stopped
<1>3. ASSUME NEW t, Len(t) = 1, t[1] = s, ~Unended(s) PROVE PresetsCount(t) /\ StreamsEnd(t, 1) /\ StopsBehind(t, 1)
  BY <1>3 DEF PresetsCount, StreamsEnd, StopsBehind, IsTransfer
<1>4. EndedList(<<p, s>>)
  BY <1>1, ShortLists DEF EndedList
<1>5. Unended(s) /\ s.strict /\ s.count # 0 => EndedList(<<s, e>>)
  BY <1>2, ShortLists DEF EndedList
<1>6. ~Unended(s) => EndedList(<<s>>)
  BY <1>3, ShortLists DEF EndedList
<1> QED
  BY <1>4, <1>5, <1>6

\* Nothing is left to be ended where nothing moves.
LEMMA PlainEnds == ASSUME NEW t, IsList(t), Plain(t) PROVE EndedList(t)
<1>1. Len(t) \in Nat
  BY LenProperties DEF IsList
<1> QED
  BY <1>1 DEF EndedList, Plain, PresetsCount, StreamsEnd, StopsBehind, Unended, IsTransfer

\* The lists of one command after another, and the empty ones in a list.
LEMMA Sides ==
    ASSUME NEW S, NEW x \in Seq(S), NEW p \in S, NEW d \in S, NEW e \in S
    PROVE  /\ ((x \o <<p>>) \o <<d>>) \o <<>> = x \o <<p, d>> /\ (x \o <<p>>) \o <<d>> = x \o <<p, d>>
           /\ ((x \o <<>>) \o <<d>>) \o <<e>> = x \o <<d, e>>
           /\ ((x \o <<>>) \o <<d>>) \o <<>> = x \o <<d>> /\ (x \o <<>>) \o <<d>> = x \o <<d>>
<1>1. /\ <<p>> \in Seq(S) /\ <<d>> \in Seq(S) /\ <<e>> \in Seq(S) /\ <<>> \in Seq(S)
      /\ <<p, d>> \in Seq(S) /\ <<d, e>> \in Seq(S)
  OBVIOUS
<1>2. \A y, z \in S : <<y, z>> = <<y>> \o <<z>>
  <2> TAKE y, z \in S
  <2> DEFINE v == <<y, z>>
             w == <<y>> \o <<z>>
  <2>1. v \in Seq(S) /\ Len(v) = 2 /\ v[1] = y /\ v[2] = z
    OBVIOUS
  <2>2. /\ <<y>> \in Seq(S) /\ <<z>> \in Seq(S) /\ Len(<<y>>) = 1 /\ Len(<<z>>) = 1
        /\ <<y>>[1] = y /\ <<z>>[1] = z
    OBVIOUS
  <2>3. w \in Seq(S) /\ Len(w) = 2 /\ w[1] = y /\ w[2] = z
    BY <2>2, ConcatProperties
  <2> HIDE DEF v, w
  <2>4. \A i \in 1 .. Len(v) : v[i] = w[i]
    <3>1. 1 .. 2 = {1, 2}
      OBVIOUS
    <3> QED
      BY <2>1, <2>3, <3>1
  <2>5. v = w
    BY <2>1, <2>3, <2>4, SeqEqual
  <2> QED
    BY <2>5 DEF v, w
<1>3. /\ x \o <<>> = x /\ x \o <<p>> \in Seq(S) /\ x \o <<p, d>> \in Seq(S) /\ x \o <<d>> \in Seq(S)
  BY <1>1, ConcatEmptySeq, ConcatProperties
<1>4. /\ (x \o <<p>>) \o <<d>> = x \o <<p, d>>
      /\ (x \o <<d>>) \o <<e>> = x \o <<d, e>>
  BY <1>1, <1>2, ConcatAssociative
<1>5. (x \o <<p, d>>) \o <<>> = x \o <<p, d>> /\ (x \o <<d>>) \o <<>> = x \o <<d>>
  BY <1>3, ConcatEmptySeq
<1> QED
  BY <1>3, <1>4, <1>5

\* After commands that move nothing.
LEMMA AfterPlain ==
    ASSUME NEW x, NEW t, IsList(x), IsList(t), Plain(x), EndedList(t)
    PROVE  EndedList(x \o t)
<1>1. PICK X : x \in Seq(X)
  BY DEF IsList
<1>2. PICK T : t \in Seq(T)
  BY DEF IsList
<1>3. x \in Seq(X \cup T) /\ t \in Seq(X \cup T)
  BY <1>1, <1>2, SeqMonotonic
<1> QED
  BY <1>3, PlainFirst, Joined, ListOf DEF EndedList

\* The blocks of a transfer are at least one.
LEMMA CountPositive ==
    ASSUME ddr => blockSize = Sector, NEW n \in Nat \ {0}
    PROVE  FullSize = Sector /\ BlockCount(n) \in Nat \ {0}
<1>1. FullSize = Sector
  BY DEF FullSize
<1>2. Sector \in Nat \ {0}
  BY MemCardAssumption
<1>3. (n - 1) \div Sector \in Nat
  BY <1>2
<1> QED
  BY <1>1, <1>3 DEF BlockCount

\* Whole sectors: a count ahead, the host's own stop, a stop behind, or a single block.
LEMMA WholeEnds ==
    ASSUME ddr => blockSize = Sector, NEW o, o.size \in Nat \ {0}
    PROVE  EndedList(Transfer2(o))
<1> DEFINE count == BlockCount(o.size)
           asked == env.autoCmd /\ (env.cmd23 => env.dma # "sdma")
           stop == IF count > 1 /\ (asked \/ env.dma = "adma3") THEN AutoStop ELSE "none"
           x == SetBlockLengthTo512 \o <<Select>>
           p == Command("preset", count)
           d == Data(CalcCommand(count), Argument(o.addr \div Sector), BlockLen, count, stop)
           e == StopIt
           P == IF count > 1 /\ env.cmd23 /\ ~asked THEN <<p>> ELSE <<>>
           E == StopAfter(count)
<1>1. Transfer2(o) = ((x \o P) \o <<d>>) \o E
  BY DEF Transfer2
<1>2. count \in Nat \ {0}
  BY CountPositive
<1>3. IsList(x) /\ Plain(x)
  BY LengthFirst
<1>4. /\ IsTransfer(d) /\ d.count = count /\ d.stop = stop /\ d.strict
      /\ d.cmd = IF count = 1 THEN "single" ELSE "multiple"
      /\ p.cmd = "preset" /\ p.strict /\ p.arg = count /\ e.cmd = "stop"
  BY DEF Data, CalcCommand, IsTransfer, Command, StopIt
<1>5. E = IF count > 1 /\ ~env.cmd23 /\ ~env.autoCmd /\ env.dma # "adma3" THEN <<e>> ELSE <<>>
  BY DEF StopAfter
<1>6. PICK X : x \in Seq(X)
  BY <1>3 DEF IsList
<1> DEFINE S == X \cup {p, d, e}
<1>7. x \in Seq(S) /\ p \in S /\ d \in S /\ e \in S
  BY <1>6, SeqMonotonic
<1> HIDE DEF S, x, p, d, e, count, E
<1>13. /\ ((x \o <<p>>) \o <<d>>) \o <<>> = x \o <<p, d>>
       /\ ((x \o <<>>) \o <<d>>) \o <<e>> = x \o <<d, e>>
       /\ ((x \o <<>>) \o <<d>>) \o <<>> = x \o <<d>>
  BY <1>7, Sides, SMTT(20)
<1>8. /\ EndedList(<<p, d>>)
      /\ Unended(d) /\ d.strict /\ d.count # 0 => EndedList(<<d, e>>)
      /\ ~Unended(d) => EndedList(<<d>>)
  BY <1>4, TransferEnds
<1>9. CASE count = 1
  <2>1. P = <<>> /\ E = <<>> /\ ~Unended(d)
    BY <1>4, <1>5, <1>9 DEF Unended
  <2> HIDE DEF P
  <2>2. Transfer2(o) = x \o <<d>>
    BY <1>1, <1>13, <2>1, Zenon
  <2> QED
    BY <1>3, <1>8, <2>1, <2>2, AfterPlain DEF EndedList
<1>10. CASE count > 1 /\ ~(env.cmd23 /\ ~asked) /\ (env.cmd23 \/ env.autoCmd \/ env.dma = "adma3")
  <2>1. P = <<>> /\ E = <<>> /\ ~Unended(d)
    BY <1>4, <1>5, <1>10 DEF Unended, AutoStop
  <2> HIDE DEF P
  <2>2. Transfer2(o) = x \o <<d>>
    BY <1>1, <1>13, <2>1, Zenon
  <2> QED
    BY <1>3, <1>8, <2>1, <2>2, AfterPlain DEF EndedList
<1>11. CASE count > 1 /\ env.cmd23 /\ ~asked
  <2>1. P = <<p>> /\ E = <<>>
    BY <1>5, <1>11
  <2> HIDE DEF P
  <2>2. Transfer2(o) = x \o <<p, d>>
    BY <1>1, <1>13, <2>1, Zenon
  <2>3. EndedList(<<p, d>>) /\ IsList(<<p, d>>)
    BY <1>8 DEF EndedList
  <2>4. EndedList(x \o <<p, d>>)
    BY <1>3, <2>3, AfterPlain
  <2> QED
    BY <2>2, <2>4
<1>12. CASE count > 1 /\ ~env.cmd23 /\ ~env.autoCmd /\ env.dma # "adma3"
  <2>1. P = <<>> /\ E = <<e>>
    BY <1>5, <1>12
  <2> HIDE DEF P
  <2>2. Transfer2(o) = x \o <<d, e>>
    BY <1>1, <1>13, <2>1, Zenon
  <2>3. EndedList(<<d, e>>) /\ IsList(<<d, e>>)
    <3>1. Unended(d) /\ d.strict /\ d.count # 0
      BY <1>2, <1>4, <1>12 DEF Unended
    <3> QED
      BY <1>8, <3>1 DEF EndedList
  <2>4. EndedList(x \o <<d, e>>)
    BY <1>3, <2>3, AfterPlain
  <2> QED
    BY <2>2, <2>4
<1> QED
  BY <1>2, <1>9, <1>10, <1>11, <1>12

\* No stop in either list, none in both.
LEMMA NoStopsJoined ==
    ASSUME NEW S, NEW a \in Seq(S), NEW b \in Seq(S), Plain(a),
           \A i \in 1 .. Len(b) : b[i].cmd # "stop"
    PROVE  \A i \in 1 .. Len(a \o b) : (a \o b)[i].cmd # "stop"
<1> DEFINE t == a \o b
<1>1. /\ Len(t) = Len(a) + Len(b) /\ Len(a) \in Nat /\ Len(b) \in Nat
      /\ \A i \in 1 .. Len(a) : t[i] = a[i]
      /\ \A i \in 1 .. Len(b) : t[Len(a) + i] = b[i]
  BY Joined
<1> HIDE DEF t
<1> SUFFICES ASSUME NEW i \in 1 .. Len(t) PROVE t[i].cmd # "stop"
  BY DEF t
<1>2. CASE i <= Len(a)
  <2>1. i \in 1 .. Len(a) /\ t[i] = a[i]
    BY <1>1, <1>2
  <2> QED
    BY <2>1 DEF Plain
<1>3. CASE i > Len(a)
  <2>1. i - Len(a) \in 1 .. Len(b) /\ i = Len(a) + (i - Len(a))
    BY <1>1, <1>3
  <2> QED
    BY <1>1, <2>1
<1> QED
  BY <1>1, <1>2, <1>3

\* A transfer left to gRequest: a count ahead, the host's own stop, or a single block.
LEMMA BackgroundEnds ==
    ASSUME ddr => blockSize = Sector, NEW o, o.size \in Nat \ {0}
    PROVE  EndedList(NonBlock(o)) /\ \A i \in 1 .. Len(NonBlock(o)) : NonBlock(o)[i].cmd # "stop"
<1> DEFINE count == BlockCount(o.size)
           ahead == env.cmd23 /\ env.dma = "sdma"
           stop == IF count = 1 \/ ahead THEN "none" ELSE AutoStop
           x == SetBlockLengthTo512 \o <<Select>>
           p == Command("preset", count)
           d == Data(CalcCommand(count), Argument(o.addr \div Sector), BlockLen, count, stop)
           e == Command("stop", 0)
           P == IF count > 1 /\ ahead THEN <<p>> ELSE <<>>
           t == NonBlock(o)
<1>1. t = (x \o P) \o <<d>>
  BY DEF NonBlock
<1>2. count \in Nat \ {0}
  BY CountPositive
<1>3. IsList(x) /\ Plain(x)
  BY LengthFirst
<1>4. /\ IsTransfer(d) /\ d.count = count /\ d.stop = stop
      /\ d.cmd = IF count = 1 THEN "single" ELSE "multiple"
      /\ p.cmd = "preset" /\ p.strict /\ p.arg = count /\ e.cmd = "stop"
  BY DEF Data, CalcCommand, IsTransfer, Command
<1>6. PICK X : x \in Seq(X)
  BY <1>3 DEF IsList
<1> DEFINE S == X \cup {p, d}
<1>7. x \in Seq(S) /\ p \in S /\ d \in S
  BY <1>6, SeqMonotonic
<1> HIDE DEF S, x, p, d, e, count, t
<1>13. (x \o <<p>>) \o <<d>> = x \o <<p, d>> /\ (x \o <<>>) \o <<d>> = x \o <<d>>
  BY <1>7, Sides, SMTT(20)
<1>8. /\ EndedList(<<p, d>>)
      /\ ~Unended(d) => EndedList(<<d>>)
  BY <1>4, TransferEnds
<1>9. ASSUME ~Unended(d), P = <<>>
      PROVE  EndedList(t) /\ \A i \in 1 .. Len(t) : t[i].cmd # "stop"
  <2>1. t = x \o <<d>>
    BY <1>1, <1>9, <1>13, Zenon
  <2>2. EndedList(<<d>>) /\ IsList(<<d>>)
    BY <1>8, <1>9 DEF EndedList
  <2>3. EndedList(x \o <<d>>)
    BY <1>3, <2>2, AfterPlain
  <2>4. \A i \in 1 .. Len(<<d>>) : <<d>>[i].cmd # "stop"
    BY <1>4, ShortLists
  <2>5. <<d>> \in Seq(S)
    BY <1>7
  <2>6. \A i \in 1 .. Len(x \o <<d>>) : (x \o <<d>>)[i].cmd # "stop"
    BY <1>3, <1>7, <2>4, <2>5, NoStopsJoined
  <2> QED
    BY <2>1, <2>3, <2>6
<1>10. ASSUME P = <<p>>
       PROVE  EndedList(t) /\ \A i \in 1 .. Len(t) : t[i].cmd # "stop"
  <2>1. t = x \o <<p, d>>
    BY <1>1, <1>10, <1>13, Zenon
  <2>2. EndedList(<<p, d>>) /\ IsList(<<p, d>>)
    BY <1>8 DEF EndedList
  <2>3. EndedList(x \o <<p, d>>)
    BY <1>3, <2>2, AfterPlain
  <2>4. \A i \in 1 .. Len(<<p, d>>) : <<p, d>>[i].cmd # "stop"
    <3>1. 1 .. 2 = {1, 2} /\ d.cmd # "stop" /\ p.cmd # "stop"
      BY <1>4
    <3> QED
      BY <3>1, ShortLists
  <2>5. <<p, d>> \in Seq(S)
    BY <1>7
  <2>6. \A i \in 1 .. Len(x \o <<p, d>>) : (x \o <<p, d>>)[i].cmd # "stop"
    BY <1>3, <1>7, <2>4, <2>5, NoStopsJoined
  <2> QED
    BY <2>1, <2>3, <2>6
<1>11. CASE count > 1 /\ ahead
  BY <1>10, <1>11 DEF t
<1>12. CASE ~(count > 1 /\ ahead)
  <2>1. ~Unended(d)
    BY <1>2, <1>4, <1>12 DEF Unended, AutoStop
  <2> QED
    BY <1>9, <1>12, <2>1 DEF t
<1> QED
  BY <1>11, <1>12

\* Lists of commands that move nothing.
LEMMA PlainBoth ==
    ASSUME NEW a, NEW b, IsList(a), IsList(b), Plain(a), Plain(b)
    PROVE  IsList(a \o b) /\ Plain(a \o b)
<1>1. PICK A : a \in Seq(A)
  BY DEF IsList
<1>2. PICK B : b \in Seq(B)
  BY DEF IsList
<1>3. a \in Seq(A \cup B) /\ b \in Seq(A \cup B)
  BY <1>1, <1>2, SeqMonotonic
<1> QED
  BY <1>3, PlainJoined, Joined, ListOf

LEMMA PlainShort ==
    ASSUME NEW s, NEW u, s.cmd \notin {"single", "multiple", "next", "preset", "stop"},
           u.cmd \notin {"single", "multiple", "next", "preset", "stop"}
    PROVE  /\ IsList(<<>>) /\ Plain(<<>>)
           /\ IsList(<<s>>) /\ Plain(<<s>>)
           /\ IsList(<<s, u>>) /\ Plain(<<s, u>>)
<1>1. ASSUME NEW t, Len(t) = 0 PROVE Plain(t)
  BY <1>1 DEF Plain
<1>2. ASSUME NEW t, Len(t) = 1, t[1] = s PROVE Plain(t)
  BY <1>2 DEF Plain
<1>3. ASSUME NEW t, Len(t) = 2, t[1] = s, t[2] = u PROVE Plain(t)
  <2>1. 1 .. 2 = {1, 2}
    OBVIOUS
  <2> QED
    BY <1>3, <2>1 DEF Plain
<1>4. <<>> \in Seq({1}) /\ Len(<<>>) = 0
  BY EmptySeq
<1>5. IsList(<<>>) /\ Plain(<<>>)
  BY <1>1, <1>4, ListOf
<1>6. IsList(<<s>>) /\ Plain(<<s>>)
  BY <1>2, ShortLists
<1>7. IsList(<<s, u>>) /\ Plain(<<s, u>>)
  BY <1>3, ShortLists
<1> QED
  BY <1>5, <1>6, <1>7

LEMMA SetLengthPlain ==
    ASSUME NEW n PROVE IsList(SetBlockLength(n)) /\ Plain(SetBlockLength(n))
<1> DEFINE l == Command("length", n)
<1>1. SetBlockLength(n) \in {<<>>, <<Refuse>>, <<Select, l>>}
  BY DEF SetBlockLength
<1>2. Select.cmd = "select" /\ l.cmd = "length" /\ Refuse.cmd = "refuse"
  BY DEF Select, Refuse, Command
<1> HIDE DEF l
<1>3. IsList(<<Refuse>>) /\ Plain(<<Refuse>>) /\ IsList(<<>>) /\ Plain(<<>>)
  BY <1>2, PlainShort
<1>4. IsList(<<Select, l>>) /\ Plain(<<Select, l>>)
  BY <1>2, PlainShort
<1> QED
  BY <1>1, <1>3, <1>4

\* A partial transfer is a single block.
LEMMA PartialEnds == ASSUME NEW o PROVE EndedList(Partial(o))
<1> DEFINE x == IF o.size # blockSize THEN SetBlockLength(o.size) ELSE <<>>
           d == Data("single", o.addr, o.size, 1, "none")
           t == <<Select, d>>
<1>1. Partial(o) = x \o t
  BY DEF Partial
<1>2. IsList(<<>>) /\ Plain(<<>>)
  <2>1. Refuse.cmd = "refuse"
    BY DEF Refuse, Command
  <2> QED
    BY <2>1, PlainShort
<1>3. IsList(x) /\ Plain(x)
  BY <1>2, SetLengthPlain
<1>4. Select.cmd = "select" /\ d.cmd = "single"
  BY DEF Select, Command, Data
<1>5. IsList(t) /\ Len(t) = 2 /\ t[1] = Select /\ t[2] = d
  BY ShortLists
<1> HIDE DEF x, d, t
<1>6. EndedList(t)
  <2>1. 1 .. 2 = {1, 2}
    OBVIOUS
  <2> QED
    BY <1>4, <1>5, <2>1 DEF EndedList, PresetsCount, StreamsEnd, StopsBehind, Unended, IsTransfer
<1> QED
  BY <1>1, <1>3, <1>5, <1>6, AfterPlain

\* An infinite transfer is the last command of its call.
LEMMA InfiniteList ==
    ASSUME ddr => blockSize = Sector, NEW o
    PROVE  /\ IsList(InfStart(o)) /\ PresetsCount(InfStart(o))
           /\ IsList(InfContinue(o)) /\ PresetsCount(InfContinue(o))
<1> DEFINE x == SetBlockLengthTo512 \o <<Select>>
           d == Data("multiple", Argument(o.addr \div Sector), BlockLen, BlockCount(o.size), "none")
           n == Data("next", 0, BlockLen, BlockCount(o.size), "none")
<1>1. InfStart(o) = x \o <<d>> /\ InfContinue(o) = <<n>>
  BY DEF InfStart, InfContinue
<1>2. IsList(x) /\ Plain(x)
  BY LengthFirst
<1>3. d.cmd = "multiple" /\ n.cmd = "next"
  BY DEF Data
<1>4. PICK X : x \in Seq(X)
  BY <1>2 DEF IsList
<1> DEFINE S == X \cup {d}
<1>5. x \in Seq(S) /\ <<d>> \in Seq(S)
  BY <1>4, SeqMonotonic
<1> HIDE DEF x, d, n, S
<1>6. PresetsCount(<<d>>) /\ PresetsCount(<<n>>) /\ IsList(<<n>>)
  <2>1. ASSUME NEW t, Len(t) = 1, t[1].cmd # "preset" PROVE PresetsCount(t)
    BY <2>1 DEF PresetsCount
  <2> QED
    BY <1>3, <2>1, ShortLists
<1>7. PresetsCount(x \o <<d>>) /\ IsList(x \o <<d>>)
  BY <1>2, <1>5, <1>6, PlainFirst, Joined, ListOf
<1> QED
  BY <1>1, <1>6, <1>7

\* Erasing and configuring move no stream of blocks.
LEMMA OthersPlain == ASSUME NEW o PROVE /\ IsList(Erase(o)) /\ Plain(Erase(o))
                                       /\ IsList(Configure(o)) /\ Plain(Configure(o))
<1>1. IsList(Erase(o)) /\ Plain(Erase(o))
  <2> DEFINE f == Command("from", Argument(o.addr \div Sector))
             l == Command("to", Argument(o.addr \div Sector + o.size \div Sector - 1))
             e == Command("erase", 0)
  <2>1. Erase(o) = <<Select, f, l, e>>
    BY DEF Erase
  <2>2. Select.cmd = "select" /\ f.cmd = "from" /\ l.cmd = "to" /\ e.cmd = "erase"
    BY DEF Select, Command
  <2> HIDE DEF f, l, e
  <2>3. ASSUME NEW t, Len(t) = 4, t[1] = Select, t[2] = f, t[3] = l, t[4] = e PROVE Plain(t)
    <3>1. 1 .. 4 = {1, 2, 3, 4}
      OBVIOUS
    <3> QED
      BY <2>2, <2>3, <3>1 DEF Plain
  <2>4. <<Select, f, l, e>> \in Seq({Select, f, l, e})
    OBVIOUS
  <2>5. Plain(<<Select, f, l, e>>)
    BY <2>3
  <2> QED
    BY <2>1, <2>4, <2>5, ListOf
<1>2. IsList(Configure(o)) /\ Plain(Configure(o))
  <2> DEFINE c == Data("config", 0, FullSize, 1, "none")
             y == IF o.size \in 1 .. 16 THEN <<c>> ELSE <<Refuse>>
  <2>1. Configure(o) = (<<Select>> \o SetBlockLengthTo512) \o y
    BY DEF Configure
  <2>2. Select.cmd = "select" /\ c.cmd = "config" /\ Refuse.cmd = "refuse"
    BY DEF Select, Command, Data, Refuse
  <2> HIDE DEF c
  <2>3. IsList(<<Select>>) /\ Plain(<<Select>>) /\ IsList(<<>>) /\ Plain(<<>>) /\ IsList(y) /\ Plain(y)
    BY <2>2, PlainShort
  <2>4. IsList(SetBlockLengthTo512) /\ Plain(SetBlockLengthTo512)
    BY <2>3, SetLengthPlain DEF SetBlockLengthTo512
  <2> HIDE DEF y
  <2>5. IsList(<<Select>> \o SetBlockLengthTo512) /\ Plain(<<Select>> \o SetBlockLengthTo512)
    BY <2>3, <2>4, PlainBoth
  <2> QED
    BY <2>1, <2>3, <2>5, PlainBoth
<1> QED
  BY <1>1, <1>2

\* What the list of a call has: the counts and ends of its transfers.
GoodList(o, t) == IsList(t) /\ PresetsCount(t) /\ Stops(o, t) /\ (OpenEnded(o) \/ StreamsEnd(t, 1))

\* What a call may ask for.
LEMMA CallSizes ==
    ASSUME NEW o \in Calls, o.name # "ddr", ~Nothing(o)
    PROVE  /\ o.name \in {"partial", "whole", "nonBlock", "infStart", "infContinue", "infFinish",
                           "erase", "config", "deselect", "wait"}
           /\ o.name \in {"whole", "nonBlock"} => o.size \in Nat \ {0}
<1>1. Sector \in Nat \ {0}
  BY MemCardAssumption
<1>2. CASE o \in Operations
  BY <1>1, <1>2 DEF Operations, Nothing
<1>3. CASE o = Continuation
  BY <1>1, <1>3 DEF Continuation
<1> QED
  BY <1>2, <1>3 DEF Calls

\* Every call prepares a good list: the count or the stop is in the list of the transfer.
LEMMA CommandsGood ==
    ASSUME ddr => blockSize = Sector, NEW o \in Calls, o.name # "ddr", ~Nothing(o)
    PROVE  GoodList(o, Commands(o))
<1>1. ASSUME NEW t, EndedList(t), o.name \notin {"infFinish", "nonBlock", "wait"} PROVE GoodList(o, t)
  BY <1>1 DEF GoodList, EndedList, Stops
<1>2. CASE o.name = "partial"
  BY <1>1, <1>2, PartialEnds DEF Commands
<1>3. CASE o.name = "whole"
  BY <1>1, <1>3, WholeEnds, CallSizes DEF Commands
<1>4. CASE o.name = "nonBlock"
  BY <1>4, BackgroundEnds, CallSizes DEF Commands, GoodList, EndedList, Stops
<1>5. CASE o.name \in {"infStart", "infContinue"}
  BY <1>5, InfiniteList DEF Commands, GoodList, Stops, OpenEnded
<1>6. CASE o.name = "infFinish"
  <2> DEFINE s == Command("stop", 0)
             t == <<s>>
  <2>1. s.cmd = "stop" /\ Commands(o) = t
    BY <1>6 DEF Command, Commands, InfFinish
  <2>2. Len(t) = 1 /\ t[1] = s /\ IsList(t)
    BY ShortLists
  <2> HIDE DEF s, t
  <2>3. PresetsCount(t) /\ StreamsEnd(t, 1) /\ Stops(o, t)
    BY <1>6, <2>1, <2>2 DEF PresetsCount, StreamsEnd, Unended, IsTransfer, Stops
  <2> QED
    BY <2>1, <2>2, <2>3 DEF GoodList
<1>7. CASE o.name \in {"erase", "config"}
  BY <1>1, <1>7, OthersPlain, PlainEnds DEF Commands
<1>8. CASE o.name \in {"deselect", "wait"}
  <2>1. Command("deselect", 0).cmd = "deselect"
    BY DEF Command
  <2>2. Commands(o) \in {<<>>, <<Command("deselect", 0)>>} /\ (o.name = "wait" => Commands(o) = <<>>)
    BY <1>8 DEF Commands
  <2>3. IsList(Commands(o)) /\ Plain(Commands(o))
    BY <2>1, <2>2, PlainShort
  <2> QED
    BY <1>8, <2>2, <2>3, PlainEnds DEF GoodList, EndedList, Stops
<1> QED
  BY <1>2, <1>3, <1>4, <1>5, <1>6, <1>7, <1>8, CallSizes

\* A list whose first command is done with.
LEMMA TailGood ==
    ASSUME NEW o, NEW t, IsList(t), PresetsCount(t), Stops(o, t), t # <<>>
    PROVE  LET u == Tail(t)
           IN  /\ IsList(u) /\ PresetsCount(u) /\ Stops(o, u)
               /\ StreamsEnd(t, 2) =>
                    /\ StreamsEnd(u, 2)
                    /\ u # <<>> /\ Unended(Head(u)) => Stopped(u, 1) \/ Head(t).cmd = "preset"
               /\ Head(t).cmd = "preset" =>
                    /\ Head(t).strict /\ u # <<>> /\ IsTransfer(Head(u)) /\ Head(u).count = Head(t).arg
               /\ Stopped(t, 1) => u # <<>> /\ Head(u).cmd = "stop"
               /\ o.name = "infFinish" => Head(t).cmd = "stop"
               /\ o.name = "nonBlock" => ~Stopped(t, 1)
<1> DEFINE u == Tail(t)
<1>1. PICK S : t \in Seq(S)
  BY DEF IsList
<1>2. /\ u \in Seq(S) /\ Len(u) = Len(t) - 1 /\ Len(t) \in Nat /\ Len(t) > 0 /\ Len(u) \in Nat
      /\ \A i \in 1 .. Len(u) : u[i] = t[i + 1]
  BY <1>1, HeadTailProperties, EmptySeq, LenProperties
<1>4. IsList(u)
  BY <1>2, ListOf
<1>14. Head(t) = t[1]
  BY <1>1
<1> HIDE DEF u
<1>3. Head(t) = t[1] /\ (u # <<>> => Head(u) = u[1] /\ Len(u) > 0) /\ (Len(u) > 0 => u # <<>>)
  <2>1. u # <<>> => Head(u) = u[1] /\ Len(u) \in Nat \ {0}
    BY <1>2, EmptySeq
  <2>2. Len(<<>>) = 0
    BY EmptySeq
  <2>3. Len(u) > 0 => u # <<>>
    <3>1. SUFFICES ASSUME u = <<>> PROVE Len(u) = 0
      OBVIOUS
    <3> QED
      BY <2>2, <3>1, Zenon
  <2> QED
    BY <1>14, <2>1, <2>3
<1>6. PresetsCount(u)
  <2> SUFFICES ASSUME NEW i \in 1 .. Len(u), u[i].cmd = "preset"
               PROVE  u[i].strict /\ i < Len(u) /\ IsTransfer(u[i + 1]) /\ u[i + 1].count = u[i].arg
    BY DEF PresetsCount
  <2>1. i + 1 \in 1 .. Len(t) /\ t[i + 1] = u[i]
    BY <1>2
  <2>2. t[i + 1].strict /\ i + 1 < Len(t) /\ IsTransfer(t[i + 1 + 1]) /\ t[i + 1 + 1].count = t[i + 1].arg
    BY <2>1 DEF PresetsCount
  <2>3. i < Len(u) /\ u[i + 1] = t[i + 1 + 1]
    BY <1>2, <2>1, <2>2
  <2> QED
    BY <2>1, <2>2, <2>3
<1>7. Stops(o, u)
  <2>1. o.name = "wait" => u = <<>>
    BY DEF Stops
  <2> QED
    BY <1>2, <2>1 DEF Stops
<1>8. ASSUME StreamsEnd(t, 2) PROVE StreamsEnd(u, 2)
  <2> SUFFICES ASSUME NEW i \in 2 .. Len(u), Unended(u[i])
               PROVE  Stopped(u, i) \/ (i > 1 /\ u[i - 1].cmd = "preset")
    BY DEF StreamsEnd
  <2>1. i \in 1 .. Len(u) /\ i > 1 /\ i + 1 \in 2 .. Len(t) /\ t[i + 1] = u[i]
    BY <1>2
  <2>2. Stopped(t, i + 1) \/ t[i + 1 - 1].cmd = "preset"
    BY <1>8, <2>1 DEF StreamsEnd
  <2>3. u[i - 1] = t[i + 1 - 1] /\ (i + 1 < Len(t) => i < Len(u) /\ u[i + 1] = t[i + 1 + 1])
    BY <1>2, <2>1
  <2> QED
    BY <2>1, <2>2, <2>3 DEF Stopped
<1>9. ASSUME StreamsEnd(t, 2), u # <<>>, Unended(Head(u)) PROVE Stopped(u, 1) \/ Head(t).cmd = "preset"
  <2>1. 1 \in 1 .. Len(u) /\ 2 \in 2 .. Len(t) /\ t[2] = u[1] /\ 2 - 1 = 1 /\ 1 + 1 = 2
    BY <1>2, <1>3, <1>9
  <2>2. Stopped(t, 2) \/ t[1].cmd = "preset"
    BY <1>3, <1>9, <2>1 DEF StreamsEnd
  <2>3. 2 < Len(t) => 1 < Len(u) /\ u[1 + 1] = t[2 + 1]
    BY <1>2
  <2> QED
    BY <1>3, <2>1, <2>2, <2>3 DEF Stopped
<1>10. ASSUME Head(t).cmd = "preset"
       PROVE  Head(t).strict /\ u # <<>> /\ IsTransfer(Head(u)) /\ Head(u).count = Head(t).arg
  <2>1. t[1].strict /\ 1 < Len(t) /\ IsTransfer(t[2]) /\ t[2].count = t[1].arg
    BY <1>2, <1>3, <1>10 DEF PresetsCount
  <2> QED
    BY <1>2, <1>3, <2>1
<1>11. ASSUME Stopped(t, 1) PROVE u # <<>> /\ Head(u).cmd = "stop"
  <2>1. 1 < Len(t) /\ t[2].cmd = "stop"
    BY <1>11 DEF Stopped
  <2> QED
    BY <1>2, <1>3, <2>1
<1>12. o.name = "infFinish" => Head(t).cmd = "stop"
  BY <1>2, <1>3 DEF Stops
<1>13. o.name = "nonBlock" => ~Stopped(t, 1)
  <2>1. 1 < Len(t) => 2 \in 1 .. Len(t) /\ 1 + 1 = 2
    BY <1>2
  <2> QED
    BY <2>1 DEF Stops, Stopped
<1> QED
  BY <1>4, <1>6, <1>7, <1>8, <1>9, <1>10, <1>11, <1>12, <1>13 DEF u

\* The command to be sent next has its stop behind it, or the card holds its count.
HeadEnds == Unended(Head(todo)) => Stopped(todo, 1) \/ (g.state # "pending" /\ card.preset = Head(todo).count)
\* What is left of the call's list.
CallInv == /\ IsList(todo) /\ PresetsCount(todo) /\ Stops(op, todo)
           /\ OpenEnded(op) \/ (StreamsEnd(todo, 2) /\ (todo # <<>> => HeadEnds))
           /\ status # "run" => todo = <<>>
           /\ "name" \in DOMAIN op
\* The request in the background: the card holds its count, and only a wait frees it.
RequestInv == /\ g.state = "pending" => IsTransfer(g.step) /\ (Unended(g.step) => card.preset = g.step.count)
              /\ op.name = "nonBlock" /\ status = "run" => g.state = "free"
              /\ op.name = "wait" => g.op.name = "nonBlock" /\ (status # "run" => g.state # "pending")
\* The card moves data in an infinite transfer, or with the stop about to be sent; it holds a
\* count for the request in the background, or for the transfer about to be sent.
CardInv == /\ "state" \in DOMAIN card /\ "preset" \in DOMAIN card
           /\ card.state \in {"tran", "data"}
           /\ card.state = "data" =>
                Infinite \/ (status = "run" /\ todo # <<>> /\ Head(todo).cmd = "stop" /\ g.state # "pending")
           /\ card.preset # 0 =>
                g.state = "pending" \/ (status = "run" /\ todo # <<>> /\ IsTransfer(Head(todo)))
StreamInv == env.faults = {} => /\ ddr => blockSize = Sector
                                /\ CallInv /\ RequestInv /\ CardInv

LEMMA NothingLeft == ASSUME NEW o PROVE /\ IsList(<<>>) /\ PresetsCount(<<>>) /\ StreamsEnd(<<>>, 2)
                                        /\ o.name # "wait" => Stops(o, <<>>)
<1>1. ASSUME NEW t, Len(t) = 0 PROVE PresetsCount(t) /\ StreamsEnd(t, 2) /\ (o.name # "wait" => Stops(o, t))
  BY <1>1 DEF PresetsCount, StreamsEnd, Stops
<1>2. <<>> \in Seq({1}) /\ Len(<<>>) = 0
  BY EmptySeq
<1> QED
  BY <1>1, <1>2, ListOf

LEMMA InitStream == Init => StreamInv
<1> SUFFICES ASSUME Init PROVE StreamInv
  OBVIOUS
<1>1. NoOp.name = "none" /\ "name" \in DOMAIN NoOp /\ NoG.state = "free"
  BY DEF NoOp, NoG
<1>2. CallInv
  BY <1>1, NothingLeft DEF Init, CallInv
<1>3. RequestInv
  BY <1>1 DEF Init, RequestInv
<1>4. CardInv
  BY DEF Init, CardInv
<1> QED
  BY <1>2, <1>3, <1>4 DEF StreamInv, Init

\* A call prepares its list while no other list is open.
LEMMA CallStream == ASSUME StreamInv, Call, env.faults = {} PROVE StreamInv'
<1>1. PICK o \in Calls :
        /\ MayCall(o) /\ o.name # "ddr" /\ op' = o
        /\ \/ status' = "refused" /\ todo' = <<>> /\ Refuses(o)
           \/ status' = "run" /\ todo' = (IF Nothing(o) THEN <<>> ELSE Commands(o))
  BY DEF Call
<1>2. status = "idle" /\ UNCHANGED <<env, driver, card, g>>
  BY DEF Call
<1>3. "name" \in DOMAIN o
  BY DEF Calls, Operations, Continuation
<1>4. /\ o.name = "nonBlock" => g.state = "free"
      /\ o.name = "wait" => g.op.name = "nonBlock" /\ ~Refuses(o) /\ ~Nothing(o)
  BY <1>1 DEF MayCall, Refuses, Nothing
<1>5. GoodList(o, todo') \/ (todo' = <<>> /\ o.name # "wait")
  BY <1>1, <1>4, CommandsGood DEF StreamInv
<1>6. CallInv'
  <2>1. CASE todo' = <<>> /\ o.name # "wait"
    BY <1>1, <1>3, <2>1, NothingLeft DEF CallInv
  <2>2. CASE GoodList(o, todo')
    <3>1. IsList(todo)' /\ PresetsCount(todo)' /\ Stops(op, todo)'
      BY <1>1, <2>2 DEF GoodList
    <3>2. ASSUME StreamsEnd(todo', 1) PROVE StreamsEnd(todo', 2) /\ (todo' # <<>> => HeadEnds')
      <4>1. PICK S : todo' \in Seq(S)
        BY <3>1 DEF IsList
      <4>2. Len(todo') \in Nat /\ (todo' # <<>> => Len(todo') > 0 /\ Head(todo') = todo'[1])
        BY <4>1, EmptySeq, LenProperties
      <4> QED
        BY <3>2, <4>2 DEF StreamsEnd, HeadEnds
    <3> QED
      BY <1>1, <1>3, <2>2, <3>1, <3>2 DEF CallInv, GoodList, OpenEnded
  <2> QED
    BY <1>5, <2>1, <2>2
<1>7. RequestInv'
  BY <1>1, <1>2, <1>4 DEF StreamInv, RequestInv
<1>8. CardInv'
  BY <1>1, <1>2 DEF StreamInv, CardInv, Infinite
<1> QED
  BY <1>2, <1>6, <1>7, <1>8 DEF StreamInv, driver

LEMMA ModeStream == ASSUME StreamInv, ChangeMode, env.faults = {} PROVE StreamInv'
<1>1. /\ status = "idle" /\ blockSize = Sector /\ card' = [card EXCEPT !.len = Sector]
      /\ UNCHANGED <<env, blockSize, op, todo, status, g>>
  BY DEF ChangeMode, MayCall
<1>2. CallInv /\ RequestInv /\ CardInv
  BY DEF StreamInv
<1>3. card'.state = card.state /\ card'.preset = card.preset /\ DOMAIN card' = DOMAIN card
  BY <1>1, <1>2 DEF CardInv
<1>4. CallInv' /\ RequestInv' /\ CardInv'
  BY <1>1, <1>2, <1>3 DEF CallInv, HeadEnds, RequestInv, CardInv, Infinite
<1> QED
  BY <1>1, <1>4 DEF StreamInv

\* The card of a command that was carried out, and of one that was not.
LEMMA CarryStream ==
    ASSUME NEW s, NEW o, NEW outcome \in Outcomes(s), Carry(s, o, outcome), env.faults = {},
           "state" \in DOMAIN card, "preset" \in DOMAIN card
    PROVE  /\ outcome \in {"ok", "mute"}
           /\ "state" \in DOMAIN card' /\ "preset" \in DOMAIN card'
           /\ outcome = "ok" =>
                /\ Takes(s)
                /\ card'.state = IF s.cmd = "stop" THEN "tran"
                                 ELSE IF IsTransfer(s) THEN (IF Ends(s) THEN "tran" ELSE "data") ELSE card.state
                /\ card'.preset = IF s.cmd = "preset" THEN s.arg ELSE IF IsTransfer(s) THEN 0 ELSE card.preset
           /\ outcome # "ok" => card'.state = "tran" /\ card'.preset = 0
<1>1. outcome \in {"ok", "mute"} /\ (outcome = "ok" => Takes(s))
  BY DEF Outcomes
<1>2. CASE outcome = "mute"
  BY <1>2 DEF Carry, Recovered
<1>3. CASE outcome = "ok"
  <2>1. card' = CardAfter(s, o)
    BY <1>3 DEF Carry
  <2>2. CASE s.cmd \in {"select", "deselect", "stop", "length", "preset", "from", "to", "erase"}
    BY <1>1, <1>3, <2>1, <2>2 DEF CardAfter, IsTransfer
  <2>3. CASE s.cmd \in {"single", "multiple", "next"}
    BY <1>1, <1>3, <2>1, <2>3 DEF CardAfter, IsTransfer
  <2>4. CASE s.cmd \notin {"select", "deselect", "stop", "length", "preset", "from", "to", "erase",
                           "single", "multiple", "next"}
    BY <1>1, <1>3, <2>1, <2>4 DEF CardAfter, IsTransfer
  <2> QED
    BY <2>2, <2>3, <2>4
<1> QED
  BY <1>1, <1>2, <1>3

\* A command that is passed over: no count and no transfer is.
LEMMA PassedStream ==
    ASSUME StreamInv, AtCommand, Proceed, env.faults = {}, UNCHANGED <<env, driver, card, op, g>>,
           ~Head(todo).strict, Head(todo).cmd # "stop" \/ g.state = "pending",
           g.state = "pending" \/ ~IsTransfer(Head(todo))
    PROVE  StreamInv'
<1> DEFINE s == Head(todo)
<1>1. CallInv /\ RequestInv /\ CardInv /\ status = "run" /\ todo # <<>> /\ todo' = Tail(todo) /\ status' = "run"
  BY DEF StreamInv, AtCommand, Proceed
<1>2. /\ IsList(todo') /\ PresetsCount(todo') /\ Stops(op, todo')
      /\ StreamsEnd(todo, 2) =>
            StreamsEnd(todo', 2) /\ (todo' # <<>> /\ Unended(Head(todo')) => Stopped(todo', 1))
  <2>1. s.cmd # "preset"
    BY <1>1, TailGood DEF CallInv
  <2> QED
    BY <1>1, <2>1, TailGood DEF CallInv
<1>3. CallInv'
  BY <1>1, <1>2 DEF CallInv, HeadEnds, OpenEnded
<1>4. RequestInv'
  BY <1>1 DEF RequestInv
<1>5. CardInv'
  BY <1>1 DEF CardInv, Infinite
<1> QED
  BY <1>3, <1>4, <1>5 DEF StreamInv, driver

\* The list that ends with an error.
LEMMA FailedStream ==
    ASSUME StreamInv, AtCommand, env.faults = {}, UNCHANGED <<env, driver, card, op, g>>,
           todo' = <<>>, status' = "error", g.state = "pending"
    PROVE  StreamInv'
<1>1. CallInv /\ RequestInv /\ CardInv /\ status = "run" /\ todo # <<>>
  BY DEF StreamInv, AtCommand
<1>2. op.name # "wait"
  BY <1>1 DEF CallInv, Stops
<1>3. CallInv'
  BY <1>1, <1>2, NothingLeft DEF CallInv, OpenEnded
<1>4. RequestInv'
  BY <1>1, <1>2 DEF RequestInv
<1>5. CardInv'
  BY <1>1 DEF CardInv, Infinite
<1> QED
  BY <1>3, <1>4, <1>5 DEF StreamInv, driver

LEMMA SkipStream == ASSUME StreamInv, SkipSelect, env.faults = {} PROVE StreamInv'
<1>1. Head(todo).cmd = "select" /\ ~Head(todo).strict
  BY DEF SkipSelect, NoNeed, Select, Command
<1> QED
  BY <1>1, PassedStream DEF SkipSelect, IsTransfer

LEMMA BusyStream == ASSUME StreamInv, SlotIsBusy, env.faults = {} PROVE StreamInv'
<1>1. AtCommand /\ g.state = "pending" /\ UNCHANGED <<env, driver, card, op, g>>
  BY DEF SlotIsBusy
<1>2. CASE Head(todo).strict
  BY <1>1, <1>2, FailedStream DEF SlotIsBusy, Fail
<1>3. CASE ~Head(todo).strict
  BY <1>1, <1>3, PassedStream DEF SlotIsBusy, Fail
<1> QED
  BY <1>2, <1>3

\* The transfer of a non-blocking call is left to gRequest: its count is in the card.
LEMMA StartStream == ASSUME StreamInv, StartRequest, env.faults = {} PROVE StreamInv'
<1> DEFINE s == Head(todo)
<1>1. /\ CallInv /\ RequestInv /\ CardInv /\ status = "run" /\ todo # <<>>
      /\ op.name = "nonBlock" /\ IsTransfer(s)
      /\ g' = [NoG EXCEPT !.state = "pending", !.op = op, !.step = s]
      /\ todo' = <<>> /\ status' = "started" /\ UNCHANGED <<env, driver, card, op>>
  BY DEF StreamInv, StartRequest, AtCommand, LeftToG
<1>2. g'.state = "pending" /\ g'.step = s
  BY <1>1 DEF NoG
<1>3. g.state = "free" /\ ~Infinite
  BY <1>1 DEF RequestInv, Infinite
<1>4. ~Stopped(todo, 1)
  BY <1>1, TailGood DEF CallInv
<1>5. Unended(s) => card.preset = s.count
  BY <1>1, <1>4 DEF CallInv, OpenEnded, HeadEnds
<1>6. CallInv'
  BY <1>1, NothingLeft DEF CallInv, OpenEnded
<1>7. RequestInv'
  BY <1>1, <1>2, <1>5 DEF RequestInv
<1>8. CardInv'
  BY <1>1, <1>2, <1>3 DEF CardInv, IsTransfer
<1> QED
  BY <1>1, <1>6, <1>7, <1>8 DEF StreamInv, driver

\* It ends with the count, with the host's own stop or with the recovery.
LEMMA RequestStream == ASSUME StreamInv, RequestEnds, env.faults = {} PROVE StreamInv'
<1>1. /\ CallInv /\ RequestInv /\ CardInv /\ g.state = "pending"
      /\ UNCHANGED <<env, driver, op, todo, status>>
  BY DEF StreamInv, RequestEnds
<1>2. PICK outcome \in Outcomes(g.step) :
        /\ Carry(g.step, g.op, outcome)
        /\ g' = IF outcome = "ok" THEN [NoG EXCEPT !.state = "ok", !.op = g.op, !.got = Read(g.step, g.op)]
                ELSE [NoG EXCEPT !.state = "error", !.op = g.op]
  BY DEF RequestEnds
<1>3. g'.state \in {"ok", "error"} /\ g'.op = g.op
  BY <1>2 DEF NoG
<1>4. IsTransfer(g.step) /\ Ends(g.step)
  BY <1>1 DEF RequestInv, Ends, Unended
<1>5. "state" \in DOMAIN card' /\ "preset" \in DOMAIN card' /\ card'.state = "tran" /\ card'.preset = 0
  BY <1>1, <1>2, <1>4, CarryStream DEF CardInv, IsTransfer
<1>6. CallInv'
  BY <1>1 DEF CallInv, HeadEnds
<1>7. RequestInv'
  BY <1>1, <1>3 DEF RequestInv
<1>8. CardInv'
  BY <1>5 DEF CardInv
<1> QED
  BY <1>1, <1>6, <1>7, <1>8 DEF StreamInv, driver

LEMMA ReturnStream == ASSUME StreamInv, Return, env.faults = {} PROVE StreamInv'
<1>1. CallInv /\ RequestInv /\ CardInv /\ UNCHANGED <<env, driver, card, todo>>
  BY DEF StreamInv, Return
<1>2. CASE status = "run"
  <2>1. /\ todo = <<>> /\ (op.name = "wait" => g.state # "pending") /\ UNCHANGED <<op, g>>
        /\ status' = IF op.name = "wait" THEN g.state ELSE "ok"
    BY <1>2 DEF Return
  <2>2. CallInv'
    BY <1>1, <2>1 DEF CallInv
  <2>3. RequestInv'
    BY <1>1, <2>1 DEF RequestInv
  <2>4. CardInv'
    BY <1>1, <2>1 DEF CardInv, Infinite
  <2> QED
    BY <1>1, <2>2, <2>3, <2>4 DEF StreamInv, driver
<1>3. CASE status # "run"
  <2>1. status' = "idle" /\ op' = NoOp /\ g' = IF op.name = "wait" THEN NoG ELSE g
    BY <1>3 DEF Return
  <2>2. NoOp.name = "none" /\ "name" \in DOMAIN NoOp /\ NoG.state = "free"
    BY DEF NoOp, NoG
  <2>3. todo = <<>>
    BY <1>1, <1>3 DEF CallInv
  <2>4. CallInv'
    BY <1>1, <2>1, <2>2, <2>3, NothingLeft DEF CallInv
  <2>5. RequestInv'
    BY <1>1, <2>1, <2>2 DEF RequestInv
  <2>6. CardInv'
    BY <1>1, <1>3, <2>1, <2>2 DEF CardInv, RequestInv, Infinite
  <2> QED
    BY <1>1, <2>4, <2>5, <2>6 DEF StreamInv, driver
<1> QED
  BY <1>2, <1>3

\* gRequest after a command that is waited for.
LEMMA EndlessKept ==
    ASSUME NEW s, NEW ok \in BOOLEAN, "name" \in DOMAIN op, g.state # "pending", g' = GAfter(s, ok)
    PROVE  /\ g'.state # "pending"
           /\ OpenEnded(op) /\ IsTransfer(s) => (Infinite' <=> ok)
           /\ op.name = "infFinish" => ~Infinite'
           /\ op.name # "infFinish" /\ ~(OpenEnded(op) /\ IsTransfer(s)) => g' = g
<1>1. CASE OpenEnded(op) /\ IsTransfer(s)
  <2>1. op.name # "infFinish"
    BY <1>1 DEF OpenEnded
  <2>2. g' = IF ok THEN [NoG EXCEPT !.state = "ok", !.op = [op EXCEPT !.name = "infStart"]] ELSE NoG
    BY <1>1 DEF GAfter, OpenEnded
  <2>3. CASE ok
    <3>1. g'.state = "ok" /\ g'.op = [op EXCEPT !.name = "infStart"]
      BY <2>2, <2>3 DEF NoG
    <3>2. g'.op.name = "infStart"
      BY <3>1
    <3> QED
      BY <1>1, <2>1, <2>3, <3>1, <3>2 DEF Infinite
  <2>4. CASE ~ok
    BY <1>1, <2>1, <2>2, <2>4 DEF NoG, Infinite
  <2> QED
    BY <2>3, <2>4
<1>2. CASE ~(OpenEnded(op) /\ IsTransfer(s))
  <2>1. g' = IF op.name = "infFinish" THEN NoG ELSE g
    BY <1>2 DEF GAfter, OpenEnded
  <2> QED
    BY <1>2, <2>1 DEF NoG, Infinite
<1> QED
  BY <1>1, <1>2

\* A command carried out, or the recovery after one that was not.
LEMMA ExecStream == ASSUME StreamInv, Exec, env.faults = {} PROVE StreamInv'
<1> DEFINE s == Head(todo)
           u == Tail(todo)
<1>1. /\ CallInv /\ RequestInv /\ CardInv /\ status = "run" /\ todo # <<>>
      /\ g.state # "pending" /\ ~(op.name = "nonBlock" /\ IsTransfer(s)) /\ UNCHANGED <<env, op>>
      /\ ddr => blockSize = Sector
  BY DEF StreamInv, Exec, AtCommand, LeftToG
<1>2. PICK outcome \in Outcomes(s) :
        /\ Carry(s, op, outcome)
        /\ IF outcome = "ok" THEN Proceed ELSE Fail(s)
        /\ DriverAfter(s, outcome = "ok")
        /\ g' = GAfter(s, outcome = "ok")
  BY DEF Exec
<1>3. "name" \in DOMAIN op
  BY <1>1 DEF CallInv
<1>4. /\ g'.state # "pending"
      /\ OpenEnded(op) /\ IsTransfer(s) /\ outcome = "ok" => Infinite'
      /\ op.name # "infFinish" /\ ~(OpenEnded(op) /\ IsTransfer(s)) => g' = g
  BY <1>1, <1>2, <1>3, EndlessKept
<1>5. /\ outcome \in {"ok", "mute"}
      /\ "state" \in DOMAIN card' /\ "preset" \in DOMAIN card'
      /\ outcome = "ok" =>
           /\ Takes(s)
           /\ card'.state = IF s.cmd = "stop" THEN "tran"
                            ELSE IF IsTransfer(s) THEN (IF Ends(s) THEN "tran" ELSE "data") ELSE card.state
           /\ card'.preset = IF s.cmd = "preset" THEN s.arg ELSE IF IsTransfer(s) THEN 0 ELSE card.preset
      /\ outcome # "ok" => card'.state = "tran" /\ card'.preset = 0
  BY <1>1, <1>2, CarryStream DEF CardInv
<1>6. /\ IsList(u) /\ PresetsCount(u) /\ Stops(op, u)
      /\ StreamsEnd(todo, 2) =>
           /\ StreamsEnd(u, 2)
           /\ u # <<>> /\ Unended(Head(u)) => Stopped(u, 1) \/ s.cmd = "preset"
      /\ s.cmd = "preset" => s.strict /\ u # <<>> /\ IsTransfer(Head(u)) /\ Head(u).count = s.arg
      /\ Stopped(todo, 1) => u # <<>> /\ Head(u).cmd = "stop"
      /\ op.name = "infFinish" => s.cmd = "stop"
  BY <1>1, TailGood DEF CallInv
<1>7. op.name # "wait"
  BY <1>1 DEF CallInv, Stops
<1>8. RequestInv'
  <2>1. op.name = "nonBlock" => g' = g
    BY <1>1, <1>4 DEF OpenEnded
  <2>2. op.name = "nonBlock" => g'.state = "free"
    BY <1>1, <2>1 DEF RequestInv
  <2> QED
    BY <1>1, <1>4, <1>7, <2>2 DEF RequestInv
<1>9. ddr' => blockSize' = Sector
  <2>1. ddr' = ddr /\ blockSize' = IF outcome = "ok" /\ s.cmd = "length" THEN s.arg ELSE blockSize
    BY <1>2 DEF DriverAfter
  <2>2. ddr /\ s.cmd = "length" => ~Takes(s)
    BY DEF Takes
  <2> QED
    BY <1>1, <1>5, <2>1, <2>2
<1>10. ASSUME outcome = "ok" PROVE CallInv' /\ CardInv'
  <2>1. todo' = u /\ status' = "run"
    BY <1>2, <1>10 DEF Proceed
  <2>2. u # <<>> /\ Unended(Head(u)) /\ StreamsEnd(todo, 2) =>
          Stopped(u, 1) \/ (g'.state # "pending" /\ card'.preset = Head(u).count)
    BY <1>4, <1>5, <1>6, <1>10
  <2>3. CallInv'
    BY <1>1, <1>3, <1>6, <2>1, <2>2 DEF CallInv, HeadEnds, OpenEnded
  <2>4. card'.state \in {"tran", "data"}
    BY <1>1, <1>5, <1>10 DEF CardInv
  <2>5. ASSUME card'.state = "data" PROVE Infinite' \/ (u # <<>> /\ Head(u).cmd = "stop")
    <3>1. CASE IsTransfer(s)
      <4>1. Unended(s) /\ card.preset # s.count
        BY <1>5, <1>10, <2>5, <3>1 DEF Ends, Unended, IsTransfer
      <4>2. OpenEnded(op) \/ Stopped(todo, 1)
        BY <1>1, <4>1 DEF CallInv, HeadEnds
      <4> QED
        BY <1>4, <1>6, <1>10, <3>1, <4>2
    <3>2. CASE ~IsTransfer(s)
      <4>1. s.cmd # "stop" /\ card.state = "data"
        BY <1>5, <1>10, <2>5, <3>2
      <4>2. g' = g /\ Infinite
        BY <1>1, <1>4, <1>6, <3>2, <4>1 DEF CardInv
      <4> QED
        BY <4>2 DEF Infinite
    <3> QED
      BY <3>1, <3>2
  <2>6. ASSUME card'.preset # 0 PROVE u # <<>> /\ IsTransfer(Head(u))
    <3>1. ~IsTransfer(s)
      BY <1>5, <1>10, <2>6 DEF IsTransfer
    <3>2. card.preset = 0
      BY <1>1, <3>1 DEF CardInv
    <3> QED
      BY <1>5, <1>6, <1>10, <2>6, <3>1, <3>2
  <2>7. CardInv'
    BY <1>4, <1>5, <2>1, <2>4, <2>5, <2>6 DEF CardInv
  <2> QED
    BY <2>3, <2>7
<1>11. ASSUME outcome # "ok" PROVE CallInv' /\ CardInv'
  <2>1. CardInv'
    BY <1>5, <1>11 DEF CardInv
  <2>2. CASE s.strict
    <3>1. todo' = <<>> /\ status' = "error"
      BY <1>2, <1>11, <2>2 DEF Fail
    <3> QED
      BY <1>1, <1>3, <1>7, <2>1, <3>1, NothingLeft DEF CallInv, OpenEnded
  <2>3. CASE ~s.strict
    <3>1. todo' = u /\ status' = "run" /\ s.cmd # "preset"
      BY <1>2, <1>6, <1>11, <2>3 DEF Fail, Proceed
    <3> QED
      BY <1>1, <1>3, <1>6, <2>1, <3>1 DEF CallInv, HeadEnds, OpenEnded
  <2> QED
    BY <2>2, <2>3
<1> QED
  BY <1>8, <1>9, <1>10, <1>11 DEF StreamInv

LEMMA NextStream == StreamInv /\ [Next]_vars => StreamInv'
<1> SUFFICES ASSUME StreamInv, [Next]_vars PROVE StreamInv'
  OBVIOUS
<1>1. env' = env
  BY DEF vars, Next, Call, ChangeMode, SkipSelect, SlotIsBusy, Exec, StartRequest, RequestEnds, Return
<1>2. CASE env.faults # {}
  BY <1>1, <1>2 DEF StreamInv
<1>3. CASE env.faults = {} /\ UNCHANGED vars
  BY <1>3 DEF vars, driver, StreamInv, CallInv, HeadEnds, RequestInv, CardInv, Infinite
<1>4. CASE env.faults = {} /\ Next
  BY <1>4, CallStream, ModeStream, SkipStream, BusyStream, ExecStream, StartStream, RequestStream,
     ReturnStream DEF Next
<1> QED
  BY <1>2, <1>3, <1>4

\* The command to be sent next is a stop only if the card moves data; the card holds no count
\* that would end a transfer which a stop follows, or an infinite one.
OnceNext ==
    /\ Head(todo).cmd = "stop" => card.state = "data"
    /\ Stopped(todo, 1) /\ g.state # "pending" => card.preset = 0
    /\ op.name = "infFinish" => Infinite
    /\ Infinite => op.name \in {"infContinue", "infFinish"}
    /\ OpenEnded(op) => g.state # "pending" /\ card.preset = 0
\* No transfer is ended twice; an infinite one goes on until it is finished.
OnceInv == env.faults = {} =>
    /\ StopsBehind(todo, 2) /\ EndlessList(op, todo)
    /\ status = "run" /\ todo # <<>> => OnceNext
    /\ Infinite => card.state = "data"
    /\ g.state = "pending" => g.op.name = "nonBlock"

LEMMA NothingOnce == ASSUME NEW o PROVE StopsBehind(<<>>, 2) /\ EndlessList(o, <<>>)
<1>1. ASSUME NEW t, Len(t) = 0 PROVE StopsBehind(t, 2) /\ EndlessList(o, t)
  BY <1>1 DEF StopsBehind, EndlessList
<1> QED
  BY <1>1, EmptySeq

\* The transfer that starts an infinite one is the last of its list.
LEMMA EndlessLast ==
    ASSUME NEW o, o.name = "infStart", NEW S, NEW x \in Seq(S), Plain(x), NEW d \in S,
           Unended(d), d.count # 0
    PROVE  EndlessList(o, x \o <<d>>) /\ StopsBehind(x \o <<d>>, 1)
<1> DEFINE t == x \o <<d>>
<1>1. <<d>> \in Seq(S) /\ Len(<<d>>) = 1 /\ <<d>>[1] = d
  OBVIOUS
<1>2. /\ Len(t) = Len(x) + 1 /\ Len(x) \in Nat
      /\ \A i \in 1 .. Len(x) : t[i] = x[i]
      /\ t[Len(x) + 1] = d
  BY <1>1, Joined
<1>3. d.cmd \notin {"preset", "stop"}
  BY DEF Unended, IsTransfer
<1> HIDE DEF t
<1>4. ASSUME NEW i \in 1 .. Len(t)
      PROVE  /\ t[i].cmd \notin {"preset", "stop"}
             /\ IsTransfer(t[i]) => i = Len(t) /\ Unended(t[i]) /\ t[i].count # 0
  <2>1. CASE i \in 1 .. Len(x)
    BY <1>2, <2>1 DEF Plain, IsTransfer
  <2>2. CASE i = Len(x) + 1
    BY <1>2, <1>3, <2>2
  <2> QED
    BY <1>2, <2>1, <2>2
<1>5. EndlessList(o, t) /\ StopsBehind(t, 1)
  BY <1>4 DEF EndlessList, StopsBehind
<1> QED
  BY <1>5 DEF t

\* Every call prepares such a list.
LEMMA CommandsOnce ==
    ASSUME ddr => blockSize = Sector, NEW o \in Calls, o.name # "ddr", ~Nothing(o)
    PROVE  LET t == Commands(o)
           IN  /\ StopsBehind(t, 2) /\ EndlessList(o, t)
               /\ t # <<>> /\ Head(t).cmd = "stop" => o.name = "infFinish"
<1> DEFINE t == Commands(o)
<1>1. ASSUME IsList(t), StopsBehind(t, 1)
      PROVE  StopsBehind(t, 2) /\ (t # <<>> => Head(t).cmd # "stop")
  <2>1. PICK S : t \in Seq(S)
    BY <1>1 DEF IsList
  <2> HIDE DEF t
  <2>2. Len(t) \in Nat /\ (t # <<>> => Len(t) > 0 /\ Head(t) = t[1])
    BY <2>1, EmptySeq, LenProperties
  <2> QED
    BY <1>1, <2>2 DEF StopsBehind
<1>2. CASE o.name \in {"partial", "whole", "nonBlock", "erase", "config", "deselect", "wait"}
  <2>1. EndedList(t)
    <3>1. CASE o.name = "partial"
      BY <3>1, PartialEnds DEF Commands
    <3>2. CASE o.name \in {"whole", "nonBlock"}
      BY <3>2, WholeEnds, BackgroundEnds, CallSizes DEF Commands
    <3>3. CASE o.name \in {"erase", "config"}
      BY <3>3, OthersPlain, PlainEnds DEF Commands
    <3>4. CASE o.name \in {"deselect", "wait"}
      <4>1. Command("deselect", 0).cmd = "deselect"
        BY DEF Command
      <4>2. t \in {<<>>, <<Command("deselect", 0)>>}
        BY <3>4 DEF Commands
      <4> HIDE DEF t
      <4> QED
        BY <4>1, <4>2, PlainShort, PlainEnds
    <3> QED
      BY <1>2, <3>1, <3>2, <3>3, <3>4
  <2>2. EndlessList(o, t)
    BY <1>2 DEF EndlessList, OpenEnded
  <2> QED
    BY <1>1, <2>1, <2>2 DEF EndedList
<1>3. CASE o.name = "infStart"
  <2> DEFINE x == SetBlockLengthTo512 \o <<Select>>
             d == Data("multiple", Argument(o.addr \div Sector), BlockLen, BlockCount(o.size), "none")
  <2>1. t = x \o <<d>> /\ IsList(x) /\ Plain(x)
    BY <1>3, LengthFirst DEF Commands, InfStart
  <2>2. o.size \in Nat \ {0}
    BY <1>3, MemCardAssumption DEF Calls, Operations, Continuation
  <2>3. Unended(d) /\ d.count # 0
    BY <2>2, CountPositive DEF Unended, IsTransfer, Data
  <2>4. PICK X : x \in Seq(X)
    BY <2>1 DEF IsList
  <2> DEFINE S == X \cup {d}
  <2>5. x \in Seq(S) /\ d \in S
    BY <2>4, SeqMonotonic
  <2> HIDE DEF S, x, d
  <2>6. EndlessList(o, x \o <<d>>) /\ StopsBehind(x \o <<d>>, 1)
    BY <1>3, <2>1, <2>3, <2>5, EndlessLast
  <2>7. IsList(t)
    BY <1>3, InfiniteList DEF Commands
  <2>8. StopsBehind(t, 1) /\ EndlessList(o, t)
    BY <2>1, <2>6
  <2> QED
    BY <1>1, <2>7, <2>8
<1>4. CASE o.name = "infContinue"
  <2> DEFINE d == Data("next", 0, BlockLen, BlockCount(o.size), "none")
  <2>1. t = <<d>>
    BY <1>4 DEF Commands, InfContinue
  <2>2. o.size \in Nat \ {0}
    BY <1>4, MemCardAssumption DEF Calls, Operations, Continuation
  <2>3. Unended(d) /\ IsTransfer(d) /\ d.count # 0 /\ d.cmd = "next"
    BY <2>2, CountPositive DEF Unended, IsTransfer, Data
  <2> HIDE DEF d, t
  <2>4. Len(t) = 1 /\ t[1] = d /\ Head(t) = d
    BY <2>1
  <2>5. StopsBehind(t, 2) /\ EndlessList(o, t) /\ Head(t).cmd # "stop"
    BY <1>4, <2>3, <2>4 DEF StopsBehind, EndlessList
  <2> QED
    BY <2>5 DEF t
<1>5. CASE o.name = "infFinish"
  <2>1. t = <<Command("stop", 0)>>
    BY <1>5 DEF Commands, InfFinish
  <2> HIDE DEF t
  <2>2. Len(t) = 1
    BY <2>1
  <2>3. StopsBehind(t, 2) /\ EndlessList(o, t)
    BY <1>5, <2>2 DEF StopsBehind, EndlessList, OpenEnded
  <2> QED
    BY <1>5, <2>3 DEF t
<1> QED
  BY <1>2, <1>3, <1>4, <1>5, CallSizes

\* What is known of the command to be sent next, and of the list without it.
LEMMA TailOnce ==
    ASSUME NEW o, NEW t, IsList(t), t # <<>>, StopsBehind(t, 2), EndlessList(o, t)
    PROVE  LET s == Head(t)
               u == Tail(t)
           IN  /\ StopsBehind(u, 2) /\ EndlessList(o, u)
               /\ u # <<>> /\ Head(u).cmd = "stop" => Stopped(t, 1) /\ Unended(s) /\ s.strict /\ s.count # 0
               /\ Stopped(u, 1) => s.cmd # "preset"
               /\ OpenEnded(o) => s.cmd \notin {"preset", "stop"} /\ (IsTransfer(s) => u = <<>> /\ Unended(s) /\ s.count # 0)
               /\ o.name = "infContinue" => IsTransfer(s)
               /\ o.name = "infFinish" => u = <<>>
<1> DEFINE s == Head(t)
           u == Tail(t)
<1>1. PICK S : t \in Seq(S)
  BY DEF IsList
<1>2. /\ u \in Seq(S) /\ Len(u) = Len(t) - 1 /\ Len(t) \in Nat /\ Len(t) > 0 /\ Len(u) \in Nat
      /\ \A i \in 1 .. Len(u) : u[i] = t[i + 1]
  BY <1>1, HeadTailProperties, EmptySeq, LenProperties
<1>3. s = t[1] /\ 1 \in 1 .. Len(t)
  BY <1>1, <1>2
<1> HIDE DEF s, u
<1>4. /\ u # <<>> => Head(u) = u[1] /\ Len(u) > 0
      /\ Len(u) = 0 => u = <<>>
  BY <1>2, EmptySeq
<1>5. StopsBehind(u, 2)
  <2> SUFFICES ASSUME NEW i \in 2 .. Len(u), u[i].cmd = "stop"
               PROVE  /\ i > 1 /\ Unended(u[i - 1]) /\ u[i - 1].strict /\ u[i - 1].count # 0
                      /\ i > 2 => u[i - 2].cmd # "preset"
    BY DEF StopsBehind
  <2>1. i + 1 \in 2 .. Len(t) /\ t[i + 1] = u[i] /\ u[i - 1] = t[i + 1 - 1] /\ (i > 2 => u[i - 2] = t[i + 1 - 2])
    BY <1>2
  <2>2. Unended(t[i + 1 - 1]) /\ t[i + 1 - 1].strict /\ t[i + 1 - 1].count # 0 /\ t[i + 1 - 2].cmd # "preset"
    BY <2>1 DEF StopsBehind
  <2> QED
    BY <2>1, <2>2
<1>6. EndlessList(o, u)
  <2>1. ASSUME NEW i \in 1 .. Len(u)
        PROVE  i + 1 \in 1 .. Len(t) /\ t[i + 1] = u[i] /\ (i + 1 = Len(t) => i = Len(u))
    BY <1>2
  <2>2. ASSUME OpenEnded(o), NEW i \in 1 .. Len(u)
        PROVE  /\ u[i].cmd \notin {"preset", "stop"}
               /\ IsTransfer(u[i]) => i = Len(u) /\ Unended(u[i]) /\ u[i].count # 0
    BY <2>1, <2>2 DEF EndlessList
  <2>3. ASSUME o.name = "infContinue", NEW i \in 1 .. Len(u) PROVE IsTransfer(u[i])
    BY <2>1, <2>3 DEF EndlessList
  <2>4. o.name = "infFinish" => Len(u) <= 1
    BY <1>2 DEF EndlessList
  <2> QED
    BY <2>2, <2>3, <2>4 DEF EndlessList
<1>7. ASSUME u # <<>>, Head(u).cmd = "stop" PROVE Stopped(t, 1) /\ Unended(s) /\ s.strict /\ s.count # 0
  <2>1. 2 \in 2 .. Len(t) /\ t[2].cmd = "stop" /\ 2 - 1 = 1 /\ 1 + 1 = 2
    BY <1>2, <1>4, <1>7
  <2> QED
    BY <1>3, <2>1 DEF StopsBehind, Stopped
<1>8. ASSUME Stopped(u, 1) PROVE s.cmd # "preset"
  <2>1. 3 \in 2 .. Len(t) /\ t[3].cmd = "stop" /\ 3 - 2 = 1 /\ 3 > 2
    BY <1>2, <1>8 DEF Stopped
  <2> QED
    BY <1>3, <2>1 DEF StopsBehind
<1>9. ASSUME OpenEnded(o)
      PROVE  s.cmd \notin {"preset", "stop"} /\ (IsTransfer(s) => u = <<>> /\ Unended(s) /\ s.count # 0)
  BY <1>2, <1>3, <1>4, <1>9 DEF EndlessList
<1>10. o.name = "infContinue" => IsTransfer(s)
  BY <1>3 DEF EndlessList
<1>11. o.name = "infFinish" => u = <<>>
  BY <1>2, <1>4 DEF EndlessList
<1> QED
  BY <1>5, <1>6, <1>7, <1>8, <1>9, <1>10, <1>11 DEF s, u

LEMMA InitOnce == Init => OnceInv
<1> SUFFICES ASSUME Init PROVE OnceInv
  OBVIOUS
<1>1. NoG.state = "free"
  BY DEF NoG
<1> QED
  BY <1>1, NothingOnce DEF Init, OnceInv, Infinite

\* The call is made while the card waits for commands, or of an infinite transfer.
LEMMA CallOnce == ASSUME StreamInv, OnceInv, Call, env.faults = {} PROVE OnceInv'
<1>1. PICK o \in Calls :
        /\ MayCall(o) /\ o.name # "ddr" /\ op' = o
        /\ \/ status' = "refused" /\ todo' = <<>>
           \/ status' = "run" /\ todo' = (IF Nothing(o) THEN <<>> ELSE Commands(o))
  BY DEF Call
<1>2. status = "idle" /\ UNCHANGED <<env, driver, card, g>> /\ (ddr => blockSize = Sector) /\ CardInv
  BY DEF Call, StreamInv
<1>3. /\ StopsBehind(todo', 2) /\ EndlessList(o, todo')
      /\ todo' # <<>> /\ Head(todo').cmd = "stop" => o.name = "infFinish"
  <2>1. CASE todo' = <<>>
    BY <2>1, NothingOnce
  <2>2. CASE todo' = Commands(o) /\ ~Nothing(o)
    BY <1>1, <1>2, <2>2, CommandsOnce
  <2> QED
    BY <1>1, <2>1, <2>2
<1>4. StopsBehind(todo, 2)' /\ EndlessList(op, todo)'
  BY <1>1, <1>3 DEF StopsBehind, EndlessList, OpenEnded, Unended, IsTransfer
<1>5. /\ o.name \in {"infContinue", "infFinish"} <=> Infinite
      /\ o.name = "infStart" => g.state = "free"
      /\ Infinite => g.state = "ok" /\ card.state = "data"
      /\ g.state # "pending" => card.preset = 0
      /\ Infinite' <=> Infinite
  BY <1>1, <1>2 DEF MayCall, OnceInv, CardInv, Infinite
<1>6. OnceNext' \/ status' # "run" \/ todo' = <<>>
  BY <1>1, <1>2, <1>3, <1>5 DEF OnceNext, OpenEnded, Stopped
<1> QED
  BY <1>2, <1>4, <1>5, <1>6 DEF OnceInv

LEMMA ModeOnce == ASSUME StreamInv, OnceInv, ChangeMode, env.faults = {} PROVE OnceInv'
<1>1. /\ status = "idle" /\ card' = [card EXCEPT !.len = Sector]
      /\ UNCHANGED <<env, op, todo, status, g>>
  BY DEF ChangeMode
<1>2. card'.state = card.state
  BY <1>1 DEF StreamInv, CardInv
<1> QED
  BY <1>1, <1>2 DEF OnceInv, Infinite, StopsBehind, EndlessList, OpenEnded, Unended, IsTransfer

\* A command that is passed over is none a stop waits for.
LEMMA PassedOnce ==
    ASSUME StreamInv, OnceInv, AtCommand, Proceed, env.faults = {}, UNCHANGED <<env, driver, card, op, g>>,
           ~Head(todo).strict, g.state = "pending" \/ ~IsTransfer(Head(todo))
    PROVE  OnceInv'
<1> DEFINE s == Head(todo)
           u == Tail(todo)
<1>1. CallInv /\ CardInv /\ status = "run" /\ todo # <<>> /\ todo' = u /\ status' = "run"
  BY DEF StreamInv, AtCommand, Proceed
<1>2. /\ StopsBehind(todo, 2) /\ EndlessList(op, todo) /\ OnceNext
      /\ Infinite => card.state = "data"
      /\ g.state = "pending" => g.op.name = "nonBlock"
  BY <1>1 DEF OnceInv
<1>3. /\ StopsBehind(u, 2) /\ EndlessList(op, u)
      /\ u # <<>> => Head(u).cmd # "stop" /\ op.name # "infFinish"
  BY <1>1, <1>2, TailOnce DEF CallInv
<1>4. Infinite' <=> Infinite
  BY DEF Infinite
<1>5. g.state # "pending" => card.preset = 0
  BY <1>1 DEF CardInv
<1>6. OnceNext' \/ u = <<>>
  BY <1>1, <1>2, <1>3, <1>4, <1>5 DEF OnceNext
<1> QED
  BY <1>1, <1>2, <1>3, <1>4, <1>6 DEF OnceInv

\* The list that ends with an error.
LEMMA FailedOnce ==
    ASSUME OnceInv, env.faults = {}, UNCHANGED <<env, card, op, g>>, todo' = <<>>
    PROVE  OnceInv'
<1>1. Infinite' <=> Infinite
  BY DEF Infinite
<1> QED
  BY <1>1, NothingOnce DEF OnceInv

LEMMA SkipOnce == ASSUME StreamInv, OnceInv, SkipSelect, env.faults = {} PROVE OnceInv'
<1>1. Head(todo).cmd = "select" /\ ~Head(todo).strict
  BY DEF SkipSelect, NoNeed, Select, Command
<1> QED
  BY <1>1, PassedOnce DEF SkipSelect, IsTransfer

LEMMA BusyOnce == ASSUME StreamInv, OnceInv, SlotIsBusy, env.faults = {} PROVE OnceInv'
<1>1. AtCommand /\ g.state = "pending" /\ UNCHANGED <<env, driver, card, op, g>>
  BY DEF SlotIsBusy
<1>2. CASE Head(todo).strict
  BY <1>1, <1>2, FailedOnce DEF SlotIsBusy, Fail
<1>3. CASE ~Head(todo).strict
  BY <1>1, <1>3, PassedOnce DEF SlotIsBusy, Fail
<1> QED
  BY <1>2, <1>3

LEMMA StartOnce == ASSUME OnceInv, StartRequest, env.faults = {} PROVE OnceInv'
<1>1. /\ op.name = "nonBlock" /\ g' = [NoG EXCEPT !.state = "pending", !.op = op, !.step = Head(todo)]
      /\ todo' = <<>> /\ UNCHANGED <<env, card, op>>
  BY DEF StartRequest, LeftToG
<1>2. g'.state = "pending" /\ g'.op.name = "nonBlock"
  BY <1>1 DEF NoG
<1> QED
  BY <1>1, <1>2, NothingOnce DEF OnceInv, Infinite

\* While the request goes on no stop is about to be sent.
LEMMA RequestOnce == ASSUME StreamInv, OnceInv, RequestEnds, env.faults = {} PROVE OnceInv'
<1>1. /\ CallInv /\ RequestInv /\ CardInv /\ g.state = "pending" /\ g.op.name = "nonBlock"
      /\ UNCHANGED <<env, op, todo, status>>
  BY DEF StreamInv, OnceInv, RequestEnds
<1>2. PICK outcome \in Outcomes(g.step) :
        /\ Carry(g.step, g.op, outcome)
        /\ g' = IF outcome = "ok" THEN [NoG EXCEPT !.state = "ok", !.op = g.op, !.got = Read(g.step, g.op)]
                ELSE [NoG EXCEPT !.state = "error", !.op = g.op]
  BY DEF RequestEnds
<1>3. g'.state \in {"ok", "error"} /\ g'.op = g.op /\ ~Infinite'
  BY <1>1, <1>2 DEF NoG, Infinite
<1>4. IsTransfer(g.step) /\ Ends(g.step)
  BY <1>1 DEF RequestInv, Ends, Unended
<1>5. card'.preset = 0
  BY <1>1, <1>2, <1>4, CarryStream DEF CardInv, IsTransfer
<1>6. status = "run" /\ todo # <<>> => OnceNext'
  <2>1. SUFFICES ASSUME status = "run", todo # <<>> PROVE OnceNext'
    OBVIOUS
  <2>2. OnceNext /\ ~Infinite
    BY <1>1, <2>1 DEF OnceInv, Infinite
  <2>3. Head(todo).cmd # "stop" /\ op.name # "infFinish" /\ ~OpenEnded(op)
    BY <1>1, <2>2 DEF OnceNext, CardInv
  <2> QED
    BY <1>1, <1>3, <1>5, <2>3 DEF OnceNext, OpenEnded
<1> QED
  BY <1>1, <1>3, <1>6 DEF OnceInv

LEMMA ReturnOnce == ASSUME StreamInv, OnceInv, Return, env.faults = {} PROVE OnceInv'
<1>1. CallInv /\ UNCHANGED <<env, card, todo>>
  BY DEF StreamInv, Return
<1>2. CASE status = "run"
  <2>1. todo = <<>> /\ UNCHANGED <<op, g>>
    BY <1>2 DEF Return
  <2> QED
    BY <1>1, <2>1, FailedOnce
<1>3. CASE status # "run"
  <2>1. op' = NoOp /\ g' = IF op.name = "wait" THEN NoG ELSE g
    BY <1>3 DEF Return
  <2>2. todo' = <<>>
    BY <1>1, <1>3 DEF CallInv
  <2>3. NoG.state = "free"
    BY DEF NoG
  <2> QED
    BY <1>1, <2>1, <2>2, <2>3, NothingOnce DEF OnceInv, Infinite
<1> QED
  BY <1>2, <1>3

\* A stop is sent to the card that the transfer before it has left moving data.
LEMMA ExecOnce == ASSUME StreamInv, OnceInv, Exec, env.faults = {} PROVE OnceInv'
<1> DEFINE s == Head(todo)
           u == Tail(todo)
<1>1. /\ CallInv /\ CardInv /\ status = "run" /\ todo # <<>> /\ g.state # "pending" /\ UNCHANGED <<env, op>>
      /\ StopsBehind(todo, 2) /\ EndlessList(op, todo) /\ OnceNext
      /\ Infinite => card.state = "data"
  BY DEF StreamInv, OnceInv, Exec, AtCommand
<1>2. PICK outcome \in Outcomes(s) :
        /\ Carry(s, op, outcome)
        /\ IF outcome = "ok" THEN Proceed ELSE Fail(s)
        /\ g' = GAfter(s, outcome = "ok")
  BY DEF Exec
<1>3. /\ g'.state # "pending"
      /\ OpenEnded(op) /\ IsTransfer(s) /\ outcome # "ok" => ~Infinite'
      /\ op.name = "infFinish" => ~Infinite'
      /\ op.name # "infFinish" /\ ~(OpenEnded(op) /\ IsTransfer(s)) => g' = g
  BY <1>1, <1>2, EndlessKept DEF CallInv
<1>4. /\ outcome = "ok" =>
           /\ card'.state = IF s.cmd = "stop" THEN "tran"
                            ELSE IF IsTransfer(s) THEN (IF Ends(s) THEN "tran" ELSE "data") ELSE card.state
           /\ card'.preset = IF s.cmd = "preset" THEN s.arg ELSE IF IsTransfer(s) THEN 0 ELSE card.preset
      /\ outcome # "ok" => card'.preset = 0
  BY <1>1, <1>2, CarryStream DEF CardInv
<1>5. /\ StopsBehind(u, 2) /\ EndlessList(op, u)
      /\ u # <<>> /\ Head(u).cmd = "stop" => Stopped(todo, 1) /\ Unended(s) /\ s.strict /\ s.count # 0
      /\ Stopped(u, 1) => s.cmd # "preset"
      /\ OpenEnded(op) => s.cmd \notin {"preset", "stop"} /\ (IsTransfer(s) => u = <<>> /\ Unended(s) /\ s.count # 0)
      /\ op.name = "infContinue" => IsTransfer(s)
      /\ op.name = "infFinish" => u = <<>>
  BY <1>1, TailOnce DEF CallInv
<1>6. todo' \in {u, <<>>} /\ (outcome # "ok" /\ s.strict => todo' = <<>>)
  BY <1>2 DEF Proceed, Fail
<1>7. ASSUME outcome = "ok", Unended(s), s.count # 0, card.preset = 0 PROVE card'.state = "data"
  BY <1>4, <1>7 DEF Unended, Ends, IsTransfer
<1>8. ~(OpenEnded(op) /\ IsTransfer(s)) /\ Infinite' => Infinite /\ op.name = "infContinue"
  BY <1>1, <1>3 DEF Infinite, OnceNext
<1>9. Infinite' => card'.state = "data"
  <2>1. CASE OpenEnded(op) /\ IsTransfer(s)
    BY <1>1, <1>3, <1>5, <1>7, <2>1 DEF OnceNext
  <2>2. CASE ~(OpenEnded(op) /\ IsTransfer(s))
    BY <1>5, <1>8, <2>2 DEF OpenEnded
  <2> QED
    BY <2>1, <2>2
<1>10. ASSUME todo' = u, u # <<>> PROVE OnceNext'
  <2>1. op.name # "infFinish" /\ ~(OpenEnded(op) /\ IsTransfer(s)) /\ g' = g
    BY <1>3, <1>5, <1>10
  <2>2. Head(u).cmd = "stop" => card'.state = "data"
    <3>1. SUFFICES ASSUME Head(u).cmd = "stop" PROVE card'.state = "data"
      OBVIOUS
    <3>2. outcome = "ok" /\ card.preset = 0
      BY <1>1, <1>5, <1>6, <1>10, <3>1 DEF OnceNext
    <3> QED
      BY <1>5, <1>7, <1>10, <3>1, <3>2
  <2>3. Stopped(u, 1) => card'.preset = 0
    <3>1. ~IsTransfer(s) => card.preset = 0
      BY <1>1 DEF CardInv
    <3> QED
      BY <1>4, <1>5, <3>1
  <2>4. Infinite' => op.name \in {"infContinue", "infFinish"}
    BY <1>8, <2>1
  <2>5. OpenEnded(op) => card'.preset = 0
    BY <1>1, <1>4, <1>5 DEF OnceNext
  <2> QED
    BY <1>1, <1>3, <1>10, <2>1, <2>2, <2>3, <2>4, <2>5 DEF OnceNext, OpenEnded
<1>11. StopsBehind(todo, 2)' /\ EndlessList(op, todo)'
  BY <1>1, <1>5, <1>6, NothingOnce
<1> QED
  BY <1>1, <1>3, <1>6, <1>9, <1>10, <1>11 DEF OnceInv

LEMMA NextOnce == StreamInv /\ OnceInv /\ [Next]_vars => OnceInv'
<1> SUFFICES ASSUME StreamInv, OnceInv, [Next]_vars PROVE OnceInv'
  OBVIOUS
<1>1. env' = env
  BY DEF vars, Next, Call, ChangeMode, SkipSelect, SlotIsBusy, Exec, StartRequest, RequestEnds, Return
<1>2. CASE env.faults # {}
  BY <1>1, <1>2 DEF OnceInv
<1>3. CASE env.faults = {} /\ UNCHANGED vars
  BY <1>3 DEF vars, driver, OnceInv, OnceNext, Infinite
<1>4. CASE env.faults = {} /\ Next
  BY <1>4, CallOnce, ModeOnce, SkipOnce, BusyOnce, ExecOnce, StartOnce, RequestOnce, ReturnOnce DEF Next
<1> QED
  BY <1>2, <1>3, <1>4

\* When a call has returned and gRequest is free, the card waits for commands and holds no
\* count, and a stop is sent to a card that moves data only: every transfer of several blocks
\* is ended, and once, by a count sent ahead, by the host's automatic command, which ADMA3
\* asks for by itself, by a stop or by the call that finishes an infinite one
\* (MemoryCard_ProcessDataTransfer2, MemoryCard_ProcessDataTransferNonBlock,
\* CSDD_MemCardInfXferFinish).
THEOREM StreamsStop == Spec => []StreamsAreStopped
<1>1. StreamInv /\ OnceInv => StreamsAreStopped
  BY DEF StreamInv, CallInv, CardInv, Infinite, OnceInv, OnceNext, AtCommand, StreamsAreStopped
<1>2. Init => StreamInv /\ OnceInv
  BY InitStream, InitOnce
<1>3. StreamInv /\ OnceInv /\ [Next]_vars => StreamInv' /\ OnceInv'
  BY NextStream, NextOnce
<1> QED
  BY <1>1, <1>2, <1>3, PTL DEF Spec

----------------------------------------------------------------------------
(* What a call moves, and where *)

\* The command of a call that does what it is for; what may precede it, and what follows it.
Blocks(o) == (o.size - 1) \div Sector + 1
First(o) == Argument(o.addr \div Sector)
Last(o) == Argument(o.addr \div Sector + o.size \div Sector - 1)
WholeSectors == {"whole", "nonBlock", "infStart"}
Work(o) ==
    CASE o.name = "partial" -> {Data("single", o.addr, o.size, 1, "none")}
      [] o.name \in WholeSectors ->
           {Data(cmd, First(o), Sector, Blocks(o), stop) : cmd \in {"single", "multiple"}, stop \in {"none", "auto12", "auto23"}}
      [] o.name = "infContinue" -> {Data("next", 0, Sector, Blocks(o), "none")}
      [] o.name = "erase" -> {Command("erase", 0)}
      [] o.name = "config" -> {Data("config", 0, Sector, 1, "none")}
      [] OTHER -> {}
Before(o) ==
    CASE o.name \in {"infContinue", "wait"} -> {}
      [] o.name = "infFinish" -> {Command("stop", 0)}
      [] o.name = "deselect" -> {Command("deselect", 0)}
      [] o.name = "erase" -> {Select, Command("from", First(o)), Command("to", Last(o))}
      [] OTHER -> {Select, Refuse, Command("length", o.size), Command("length", Sector), Command("preset", Blocks(o))}
After(o) == IF o.name = "whole" THEN {StopIt} ELSE {}

\* The list with that command still in it.
Erasing(o) == LET f == Command("from", First(o))
                  t == Command("to", Last(o))
                  e == Command("erase", 0)
              IN  {<<Select, f, t, e>>, <<f, t, e>>, <<t, e>>, <<e>>}
Ahead(o, list) ==
    IF o.name = "erase" THEN list \in Erasing(o)
    ELSE /\ list \in Seq(Before(o) \cup Work(o) \cup After(o))
         /\ \E n \in 1 .. Len(list) : /\ \A i \in 1 .. n - 1 : list[i] \in Before(o)
                                      /\ list[n] \in Work(o)
                                      /\ \A i \in n + 1 .. Len(list) : list[i] \in After(o)

\* A transfer is of all the bytes asked for, from the first of them on.
Aimed(s, o) == /\ s.len \in Nat /\ s.count \in Nat /\ s.len * s.count = o.size
               /\ s.cmd # "next" => (IF env.high THEN s.arg * Sector ELSE s.arg) = o.addr
Workers == {"partial", "whole", "nonBlock", "infStart", "infContinue", "erase", "config"}
\* A call that was let through.
OpFine(o) ==
    /\ DOMAIN o = {"name", "addr", "size", "dir"} /\ o.name \in Workers \cup {"infFinish", "deselect", "wait"}
    /\ o.addr \in Nat /\ o.size \in Nat /\ (o.name # "infContinue" => o.addr + o.size <= Sectors * Sector)
    /\ o.name # "config" => o.dir \in {"read", "write"}
    /\ o.name \in Workers \ {"config"} /\ o.dir = "write" /\ o.size # 0 => env.mmc \/ ~env.protected
    /\ o.size # 0 => \A s \in Work(o) : IsTransfer(s) => Aimed(s, o)
    /\ (o.name = "erase" => o.dir = "write") /\ (o.name = "config" => o.size # 0)
    /\ o.name = "erase" /\ o.size # 0 =>
         \A b \in Bytes : b \in Covers(o) <=> b \div Sector \in (First(o) * Scale) \div Sector .. (Last(o) * Scale) \div Sector

\* All that was asked for is done.
Finished == IF op.size = 0 THEN todo = <<>> /\ got = <<>>
            ELSE /\ todo \in Seq(After(op)) /\ g.state # "pending" /\ op.name # "nonBlock"
                 /\ IF op.name = "config" THEN card.locked = (op.dir = "lock") ELSE Done(op, got)
ListInv == status = "run" =>
    /\ OpFine(op)
    /\ IF op.name \in Workers THEN (op.size # 0 /\ got = <<>> /\ Ahead(op, todo)) \/ Finished
       ELSE todo \in Seq(Before(op))

\* The range to be erased is what the call named.
EraseInv == status = "run" /\ op.name = "erase" /\ todo # <<>> =>
    /\ Head(todo).cmd \in {"to", "erase"} => g.state # "pending" /\ card.from = First(op)
    /\ Head(todo).cmd = "erase" => card.to = Last(op)

\* An infinite transfer goes on where the last call left it.
EndlessInv ==
    /\ Infinite => /\ g.op.addr \in Nat /\ g.op.size \in Nat /\ g.op.dir \in {"read", "write"}
                   /\ card.state = "data" => card.at = g.op.addr + g.op.size
                   /\ status = "run" /\ todo # <<>> => op.name \in {"infContinue", "infFinish"}
    /\ status = "run" /\ todo # <<>> /\ op.name = "infContinue" => Infinite /\ op.addr = g.op.addr + g.op.size

\* The request in the background is of a call that was let through.
BehindInv ==
    /\ g.state \in {"free", "pending", "ok", "error"}
    /\ g.state = "pending" => OpFine(g.op) /\ g.op.size # 0 /\ g.op.name = "nonBlock" /\ g.step \in Work(g.op)

CardFields == {"selected", "state", "locked", "len", "preset", "from", "to", "at"}
MoveInv == /\ DOMAIN card = CardFields /\ (ddr => blockSize = Sector)
           /\ ListInv /\ EraseInv /\ EndlessInv /\ BehindInv

----------------------------------------------------------------------------
\* Division by its defining property.
LEMMA Quotient ==
    ASSUME NEW n \in Nat \ {0}, NEW q \in Int, NEW r \in 0 .. n - 1, NEW a \in Int, a = n * q + r
    PROVE  a \div n = q /\ a % n = r
<1>1. (a \div n) \in Int /\ (a % n) \in 0 .. n - 1 /\ a = n * (a \div n) + (a % n)
  OBVIOUS
<1> DEFINE d == a \div n
           m == a % n
<1>2. d \in Int /\ m \in 0 .. n - 1 /\ n * d + m = n * q + r
  BY <1>1
<1> HIDE DEF d, m
<1>3. n * (d - q) = r - m
  BY <1>2
<1>4. CASE d - q >= 1
  <2>1. n * (d - q) >= n * 1
    BY <1>2, <1>4
  <2> QED
    BY <1>2, <1>3, <2>1
<1>5. CASE d - q <= -1
  <2>1. n * (q - d) >= n * 1
    BY <1>2, <1>5
  <2>2. n * (d - q) = -(n * (q - d))
    BY <1>2
  <2> QED
    BY <1>2, <1>3, <2>1, <2>2
<1>6. CASE d - q = 0
  <2>1. n * (d - q) = 0 /\ d = q
    BY <1>2, <1>6
  <2> QED
    BY <1>2, <1>3, <2>1 DEF d, m
<1> QED
  BY <1>2, <1>4, <1>5, <1>6

LEMMA Below ==
    ASSUME NEW n \in Nat \ {0}, NEW q \in Nat \ {0}, NEW z \in Nat \ {0}, z = n * q
    PROVE  (z - 1) \div n = q - 1
<1>1. PICK r \in 0 .. n - 1, p \in Int, y \in Int : r = n - 1 /\ p = q - 1 /\ y = z - 1
  OBVIOUS
<1>2. y = n * p + r
  BY <1>1
<1>3. y \div n = p
  BY <1>2, Quotient
<1> QED
  BY <1>1, <1>3

\* What is a multiple, and the bytes of its sectors.
LEMMA Multiple ==
    ASSUME NEW z \in Nat, NEW k \in Nat, z = Sector * k
    PROVE  z \div Sector = k /\ z % Sector = 0 /\ k * Sector = z
<1>1. Sector \in Nat \ {0} /\ 0 \in 0 .. Sector - 1
  BY MemCardAssumption
<1>2. z = Sector * k + 0
  OBVIOUS
<1> QED
  BY <1>1, <1>2, Quotient

LEMMA WholeCount ==
    ASSUME NEW o, o.size \in Nat \ {0}, o.size % Sector = 0
    PROVE  Blocks(o) \in Nat \ {0} /\ Sector * Blocks(o) = o.size /\ Blocks(o) = o.size \div Sector
<1>1. Sector \in Nat \ {0}
  BY MemCardAssumption
<1> DEFINE q == o.size \div Sector
           z == o.size
<1>2. q \in Int /\ z = Sector * q
  BY <1>1
<1>3. z \in Nat \ {0}
  OBVIOUS
<1> HIDE DEF q, z
<1>4. q >= 1
  <2>1. CASE q <= 0
    <3>1. Sector * q <= 0
      BY <1>1, <1>2, <2>1
    <3> QED
      BY <1>2, <1>3, <3>1
  <2> QED
    BY <1>2, <2>1
<1>5. (z - 1) \div Sector = q - 1
  BY <1>1, <1>2, <1>3, <1>4, Below
<1>7. Blocks(o) = q
  BY <1>2, <1>5 DEF Blocks, z
<1> QED
  BY <1>2, <1>4, <1>7 DEF q, z

\* Half of the products that occur: more factors, more bytes.
LEMMA Grows == ASSUME NEW n \in Nat, NEW a \in Nat, NEW b \in Nat, a <= b PROVE n * a <= n * b /\ n * a \in Nat
<1>1. b = a + (b - a) /\ b - a \in Nat
  OBVIOUS
<1>2. n * b = n * a + n * (b - a) /\ n * (b - a) >= 0
  BY <1>1
<1> QED
  BY <1>2

\* An argument the card understands: sectors, or bytes that fit in it.
LEMMA ArgumentIs ==
    ASSUME NEW k \in Nat, k < Sectors
    PROVE  /\ Argument(k) = IF env.high THEN k ELSE Sector * k
           /\ (Argument(k) * Scale) \div Sector = k
           /\ (IF env.high THEN Argument(k) * Sector ELSE Argument(k)) = Sector * k
<1>1. Sector \in Nat \ {0} /\ Sectors \in Nat \ {0} /\ Wrap \in Nat /\ Wrap >= Sectors * Sector
  BY MemCardAssumption
<1>2. Sector * k \in Nat /\ k * Sector = Sector * k
  BY <1>1
<1>3. Sector * k < Wrap
  <2>1. Sector * (k + 1) <= Sector * Sectors
    BY <1>1, Grows
  <2>2. Sector * (k + 1) = Sector * k + Sector /\ Sector * Sectors = Sectors * Sector
    BY <1>1
  <2> QED
    BY <1>1, <1>2, <2>1, <2>2
<1>4. (Sector * k) % Wrap = Sector * k
  <2>1. Wrap \in Nat \ {0} /\ Sector * k = Wrap * 0 + Sector * k /\ Sector * k \in 0 .. Wrap - 1
    BY <1>1, <1>2, <1>3
  <2> QED
    BY <1>2, <2>1, Quotient
<1>5. (Sector * k) \div Sector = k
  BY <1>2, Multiple
<1>6. Argument(k) = IF env.high THEN k ELSE Sector * k
  BY <1>2, <1>4 DEF Argument
<1>7. CASE env.high
  BY <1>2, <1>5, <1>6, <1>7 DEF Scale
<1>8. CASE ~env.high
  <2>1. (Sector * k) * 1 = Sector * k
    BY <1>2
  <2> QED
    BY <1>5, <1>6, <1>8, <2>1 DEF Scale
<1> QED
  BY <1>6, <1>7, <1>8

\* Whole sectors are named by the first of them, or by its first byte.
LEMMA WholeAimed ==
    ASSUME NEW o, o.name \in WholeSectors, NEW k \in 0 .. Sectors - 1, o.addr = Sector * k,
           o.size \in Nat \ {0}, o.size % Sector = 0, NEW s \in Work(o)
    PROVE  Aimed(s, o)
<1>1. Sector \in Nat \ {0} /\ Sectors \in Nat \ {0} /\ k \in Nat /\ k < Sectors
  BY MemCardAssumption
<1>2. PICK cmd \in {"single", "multiple"}, stop \in {"none", "auto12", "auto23"} :
        s = Data(cmd, First(o), Sector, Blocks(o), stop)
  BY DEF Work, WholeSectors
<1>3. s.cmd = cmd /\ s.arg = First(o) /\ s.len = Sector /\ s.count = Blocks(o)
  BY <1>2 DEF Data
<1>4. First(o) = Argument(k)
  <2>1. o.addr \in Nat
    BY <1>1
  <2>2. o.addr \div Sector = k
    BY <1>1, <2>1, Multiple
  <2> QED
    BY <2>2 DEF First
<1> QED
  BY <1>1, <1>3, <1>4, WholeCount, ArgumentIs DEF Aimed

\* The sectors between the first and the last named are the bytes to be erased.
LEMMA EraseAimed ==
    ASSUME NEW o, NEW k \in 0 .. Sectors - 1, o.addr = Sector * k, o.size \in Nat \ {0}, o.size % Sector = 0,
           o.addr + o.size <= Sectors * Sector, NEW b \in Bytes
    PROVE  b \in Covers(o) <=> b \div Sector \in (First(o) * Scale) \div Sector .. (Last(o) * Scale) \div Sector
<1> DEFINE q == o.size \div Sector
           d == b \div Sector
<1>1. Sector \in Nat \ {0} /\ Sectors \in Nat \ {0} /\ k \in Nat /\ k < Sectors
  BY MemCardAssumption
<1>2. q \in Nat \ {0} /\ o.size = Sector * q
  BY WholeCount
<1>3. b \in Nat /\ d \in Nat /\ Sector * d <= b /\ b < Sector * d + Sector
  BY <1>1 DEF Bytes
<1>4. o.addr \div Sector = k
  BY <1>1, Multiple
<1>5. First(o) = Argument(k) /\ Last(o) = Argument(k + q - 1)
  BY <1>4 DEF First, Last
<1> HIDE DEF q, d
<1>6. Sector * (k + q) = Sector * k + Sector * q /\ Sector * k \in Nat /\ Sector * q \in Nat
  BY <1>1, <1>2
<1>7. k + q - 1 \in Nat /\ k + q - 1 < Sectors
  <2>1. Sector * (k + q) <= Sector * Sectors
    BY <1>1, <1>2, <1>6
  <2>2. CASE k + q > Sectors
    <3>1. Sector * (Sectors + 1) <= Sector * (k + q)
      BY <1>1, <1>2, <2>2, Grows
    <3>2. Sector * (Sectors + 1) = Sector * Sectors + Sector
      BY <1>1
    <3>3. Sector * Sectors \in Nat
      BY <1>1
    <3> QED
      BY <1>1, <1>6, <2>1, <3>1, <3>2, <3>3
  <2> QED
    BY <1>1, <1>2, <2>2
<1>8. (First(o) * Scale) \div Sector = k /\ (Last(o) * Scale) \div Sector = k + q - 1
  BY <1>1, <1>5, <1>7, ArgumentIs
<1>9. b \in Covers(o) <=> Sector * k <= b /\ b < Sector * (k + q)
  BY <1>2, <1>3, <1>6 DEF Covers
<1>10. Sector * k <= b <=> k <= d
  <2>1. CASE k <= d
    BY <1>1, <1>3, <2>1, Grows
  <2>2. CASE d + 1 <= k
    <3>1. Sector * (d + 1) <= Sector * k /\ Sector * (d + 1) = Sector * d + Sector
      BY <1>1, <1>3, <2>2, Grows
    <3> QED
      BY <1>1, <1>3, <1>6, <2>2, <3>1
  <2> QED
    BY <1>1, <1>3, <2>1, <2>2
<1>11. b < Sector * (k + q) <=> d <= k + q - 1
  <2>1. CASE k + q <= d
    <3>1. Sector * (k + q) <= Sector * d /\ Sector * d \in Nat /\ Sector * (k + q) \in Nat
      BY <1>1, <1>2, <1>3, <2>1, Grows
    <3> QED
      BY <1>1, <1>2, <1>3, <2>1, <3>1
  <2>2. CASE d + 1 <= k + q
    <3>1. Sector * (d + 1) <= Sector * (k + q) /\ Sector * (d + 1) = Sector * d + Sector
      BY <1>1, <1>2, <1>3, <2>2, Grows
    <3>2. Sector * d \in Nat /\ Sector * (k + q) \in Nat
      BY <1>1, <1>2, <1>3
    <3> QED
      BY <1>1, <1>2, <1>3, <2>2, <3>1, <3>2
  <2> QED
    BY <1>1, <1>2, <1>3, <2>1, <2>2
<1> QED
  BY <1>1, <1>2, <1>3, <1>8, <1>9, <1>10, <1>11 DEF d

\* Multiples of the sector among the sizes that are asked for.
LEMMA Sizes ==
    ASSUME NEW o \in Operations, o.name \in {"whole", "nonBlock", "erase", "infStart"}, ~Refuses(o)
    PROVE  /\ o.size \in Nat /\ o.size % Sector = 0 /\ o.addr \in Nat /\ o.dir \in {"read", "write"}
           /\ \E k \in 0 .. Sectors - 1 : o.addr = Sector * k
           /\ o.addr + o.size <= Sectors * Sector
           /\ o.name = "erase" => o.dir = "write"
<1>1. Sector \in Nat \ {0} /\ Sectors \in Nat \ {0}
  BY MemCardAssumption
<1>2. /\ o.size \in {0, 1, Sector, 2 * Sector} /\ o.addr \in {Sector * s : s \in 0 .. Sectors - 1}
      /\ o.dir \in {"read", "write"} /\ o.addr + o.size <= Sectors * Sector
      /\ o.name = "erase" => o.dir = "write" /\ o.size # 1
      /\ o.name = "infStart" => o.size = 2 * Sector
  BY DEF Operations
<1>3. \E k \in 0 .. Sectors - 1 : o.addr = Sector * k
  BY <1>2
<1>4. o.addr \in Nat /\ o.size \in Nat
  BY <1>1, <1>2, <1>3, Grows
<1>5. 0 % Sector = 0 /\ Sector % Sector = 0 /\ (2 * Sector) % Sector = 0
  <2>1. 0 = Sector * 0 /\ Sector = Sector * 1 /\ 2 * Sector = Sector * 2
    BY <1>1
  <2> QED
    BY <1>1, <2>1, Multiple
<1>6. o.size % Sector = 0
  <2>1. CASE o.name \in {"whole", "nonBlock"}
    BY <1>5, <2>1 DEF Refuses, RefusesWhole, RefusesNonBlock, Nothing
  <2>2. CASE o.name \in {"erase", "infStart"}
    BY <1>2, <1>5, <2>2
  <2> QED
    BY <2>1, <2>2
<1> QED
  BY <1>2, <1>3, <1>4, <1>6

\* A call that is let through is fine.
LEMMA CallFine ==
    ASSUME NEW o \in Calls, MayCall(o), o.name # "ddr", ~Refuses(o), EndlessInv
    PROVE  OpFine(o)
<1>1. Sector \in Nat \ {0} /\ Sectors \in Nat \ {0} /\ Sectors * Sector \in Nat \ {0}
  <2>1. Sector \in Nat \ {0} /\ Sectors \in Nat \ {0}
    BY MemCardAssumption
  <2>2. Sector * 1 <= Sector * Sectors /\ Sector * Sectors = Sectors * Sector
    BY <2>1, Grows
  <2> QED
    BY <2>1, <2>2
<1>8. DOMAIN o = {"name", "addr", "size", "dir"}
  BY DEF Calls, Operations, Continuation
<1>2. o.name \in Workers \ {"config"} /\ o.dir = "write" /\ o.size # 0 => env.mmc \/ ~env.protected
  BY DEF Workers, Refuses, Nothing, RefusesPartial, RefusesWhole, RefusesNonBlock, RefusesErase, IsWriteToWriteProtectedSd
<1>3. CASE o \in Operations /\ o.name \in {"whole", "nonBlock", "erase", "infStart"}
  <2>1. PICK k \in 0 .. Sectors - 1 : o.addr = Sector * k
    BY <1>3, Sizes
  <2>2. /\ o.size \in Nat /\ o.size % Sector = 0 /\ o.addr \in Nat /\ o.dir \in {"read", "write"}
        /\ o.addr + o.size <= Sectors * Sector /\ (o.name = "erase" => o.dir = "write")
    BY <1>3, Sizes
  <2>3. o.size # 0 => \A s \in Work(o) : IsTransfer(s) => Aimed(s, o)
    <3>1. CASE o.name = "erase"
      BY <3>1 DEF Work, WholeSectors, Command, IsTransfer
    <3>2. CASE o.name \in WholeSectors
      BY <2>1, <2>2, <3>2, WholeAimed
    <3> QED
      BY <1>3, <3>1, <3>2 DEF WholeSectors
  <2>4. o.size # 0 => \A b \in Bytes :
          b \in Covers(o) <=> b \div Sector \in (First(o) * Scale) \div Sector .. (Last(o) * Scale) \div Sector
    BY <2>1, <2>2, EraseAimed
  <2> QED
    BY <1>2, <1>3, <1>8, <2>2, <2>3, <2>4 DEF OpFine, Workers
<1>4. CASE o \in Operations /\ o.name = "partial"
  <2>1. o.addr \in Nat /\ o.size \in Nat \ {0} /\ o.dir \in {"read", "write"} /\ o.addr + o.size <= Sectors * Sector
    BY <1>1, <1>4 DEF Operations, Bytes
  <2>2. ~env.high
    BY <1>4, <2>1 DEF Refuses, RefusesPartial, Nothing
  <2>3. ASSUME NEW s \in Work(o) PROVE Aimed(s, o)
    <3>1. s.cmd = "single" /\ s.arg = o.addr /\ s.len = o.size /\ s.count = 1
      BY <1>4 DEF Work, WholeSectors, Data
    <3>2. o.size * 1 = o.size
      BY <2>1
    <3> QED
      BY <2>1, <2>2, <3>1, <3>2 DEF Aimed
  <2> QED
    BY <1>2, <1>4, <1>8, <2>1, <2>3 DEF OpFine, Workers
<1>5. CASE o \in Operations /\ o.name \in {"config", "infFinish", "deselect", "wait"}
  <2>1. o.addr = 0 /\ o.size = 1 /\ (o.name # "config" => o.dir = "read")
    BY <1>5 DEF Operations
  <2>2. \A s \in Work(o) : ~IsTransfer(s)
    BY <1>5 DEF Work, WholeSectors, Data, IsTransfer
  <2> QED
    BY <1>1, <1>2, <1>5, <1>8, <2>1, <2>2 DEF OpFine, Workers
<1>6. CASE o = Continuation /\ Infinite /\ g.op.addr + g.op.size < Sectors * Sector
  <2>1. /\ o.name = "infContinue" /\ o.addr = g.op.addr + g.op.size /\ o.size = Sector /\ o.dir = g.op.dir
        /\ g.op.addr \in Nat /\ g.op.size \in Nat /\ g.op.dir \in {"read", "write"}
    BY <1>6 DEF Continuation, EndlessInv
  <2>2. Blocks(o) = 1
    <3>1. Sector \in Nat \ {0} /\ Sector % Sector = 0 /\ Sector \div Sector = 1
      BY <1>1, Multiple
    <3> QED
      BY <2>1, <3>1, WholeCount
  <2>3. ASSUME NEW s \in Work(o) PROVE Aimed(s, o)
    <3>1. s.cmd = "next" /\ s.len = Sector /\ s.count = 1
      BY <2>1, <2>2 DEF Work, WholeSectors, Data
    <3> QED
      BY <1>1, <2>1, <3>1 DEF Aimed
  <2> QED
    BY <1>1, <1>2, <1>8, <2>1, <2>3 DEF OpFine, Workers
<1>7. \/ o \in Operations
      \/ o = Continuation /\ Infinite /\ g.op.addr + g.op.size < Sectors * Sector
  BY DEF Calls
<1> QED
  BY <1>3, <1>4, <1>5, <1>6, <1>7 DEF Operations

\* Commands that go before, the one that does the work, and those that go after.
LEMMA AheadJoined ==
    ASSUME NEW o, o.name # "erase", NEW a \in Seq(Before(o)), NEW w \in Work(o), NEW b \in Seq(After(o))
    PROVE  Ahead(o, (a \o <<w>>) \o b)
<1> DEFINE S == Before(o) \cup Work(o) \cup After(o)
           x == a \o <<w>>
           t == x \o b
<1>1. a \in Seq(S) /\ <<w>> \in Seq(S) /\ b \in Seq(S) /\ Len(<<w>>) = 1 /\ <<w>>[1] = w
  <2>1. a \in Seq(S) /\ b \in Seq(S) /\ w \in S
    BY SeqMonotonic
  <2> HIDE DEF S
  <2> QED
    BY <2>1
<1>2. /\ Len(a) \in Nat /\ Len(b) \in Nat
      /\ \A i \in 1 .. Len(a) : a[i] \in Before(o)
      /\ \A i \in 1 .. Len(b) : b[i] \in After(o)
  BY LenProperties, ElementOfSeq
<1> HIDE DEF S
<1>3. /\ x \in Seq(S) /\ Len(x) = Len(a) + 1
      /\ \A i \in 1 .. Len(a) : x[i] = a[i]
      /\ x[Len(a) + 1] = w
  <2>1. /\ x \in Seq(S) /\ Len(x) = Len(a) + 1
        /\ \A i \in 1 .. Len(a) + 1 : x[i] = IF i <= Len(a) THEN a[i] ELSE <<w>>[i - Len(a)]
    BY <1>1, <1>2, ConcatProperties
  <2>2. Len(a) + 1 \in 1 .. Len(a) + 1 /\ ~(Len(a) + 1 <= Len(a)) /\ Len(a) + 1 - Len(a) = 1
    BY <1>2
  <2>3. x[Len(a) + 1] = w
    BY <1>1, <2>1, <2>2
  <2> HIDE DEF x
  <2> QED
    BY <1>2, <2>1, <2>3
<1> HIDE DEF x
<1>7. /\ t \in Seq(S) /\ Len(t) = Len(x) + Len(b)
      /\ \A i \in 1 .. Len(x) + Len(b) : t[i] = IF i <= Len(x) THEN x[i] ELSE b[i - Len(x)]
  <2>1. x \in Seq(S) /\ b \in Seq(S)
    BY <1>1, <1>3
  <2>2. \A y, z \in Seq(S) :
          /\ y \o z \in Seq(S) /\ Len(y \o z) = Len(y) + Len(z)
          /\ \A i \in 1 .. Len(y) + Len(z) : (y \o z)[i] = IF i <= Len(y) THEN y[i] ELSE z[i - Len(y)]
    BY ConcatProperties
  <2> QED
    BY <2>1, <2>2
<1> HIDE DEF t
<1>4. /\ t \in Seq(S) /\ Len(t) = Len(a) + 1 + Len(b)
      /\ \A i \in 1 .. Len(t) : t[i] = IF i <= Len(a) + 1 THEN x[i] ELSE b[i - (Len(a) + 1)]
  BY <1>2, <1>3, <1>7
<1> DEFINE n == Len(a) + 1
<1>5. /\ n \in 1 .. Len(t) /\ t[n] = w
      /\ \A i \in 1 .. n - 1 : t[i] \in Before(o)
      /\ \A i \in n + 1 .. Len(t) : t[i] \in After(o)
  <2>1. n \in 1 .. Len(t)
    BY <1>2, <1>4
  <2>2. t[n] = w
    BY <1>2, <1>3, <1>4, <2>1
  <2>3. ASSUME NEW i \in 1 .. n - 1 PROVE t[i] \in Before(o)
    <3>1. i \in 1 .. Len(a) /\ i \in 1 .. Len(t) /\ i <= Len(a) + 1
      BY <1>2, <1>4
    <3> QED
      BY <1>2, <1>3, <1>4, <3>1
  <2>4. ASSUME NEW i \in n + 1 .. Len(t) PROVE t[i] \in After(o)
    <3>1. i - (Len(a) + 1) \in 1 .. Len(b) /\ i \in 1 .. Len(t) /\ ~(i <= Len(a) + 1)
      BY <1>2, <1>4
    <3> QED
      BY <1>2, <1>4, <3>1
  <2> QED
    BY <2>1, <2>2, <2>3, <2>4
<1>6. Ahead(o, t)
  BY <1>4, <1>5 DEF Ahead, S
<1> QED
  BY <1>6 DEF t, x

LEMMA AheadLast ==
    ASSUME NEW o, o.name # "erase", NEW a \in Seq(Before(o)), NEW w \in Work(o)
    PROVE  Ahead(o, a \o <<w>>)
<1>1. <<>> \in Seq(After(o))
  BY EmptySeq
<1>2. Ahead(o, (a \o <<w>>) \o <<>>)
  BY <1>1, AheadJoined
<1>3. a \o <<w>> \in Seq(Before(o) \cup Work(o))
  <2> DEFINE S == Before(o) \cup Work(o)
  <2>1. a \in Seq(S) /\ w \in S
    BY SeqMonotonic
  <2> HIDE DEF S
  <2>2. <<w>> \in Seq(S)
    BY <2>1
  <2>3. a \o <<w>> \in Seq(S)
    BY <2>1, <2>2, ConcatProperties
  <2> QED
    BY <2>3 DEF S
<1>4. (a \o <<w>>) \o <<>> = a \o <<w>>
  BY <1>3, ConcatEmptySeq
<1> QED
  BY <1>2, <1>4

\* The block length and the selection come before.
LEMMA LengthBefore ==
    ASSUME NEW o, o.name \in WholeSectors \cup {"partial", "config"}, NEW n \in {o.size, Sector}
    PROVE  /\ Before(o) = {Select, Refuse, Command("length", o.size), Command("length", Sector), Command("preset", Blocks(o))}
           /\ SetBlockLength(n) \in Seq(Before(o)) /\ <<Select>> \in Seq(Before(o)) /\ <<>> \in Seq(Before(o))
<1>1. Before(o) = {Select, Refuse, Command("length", o.size), Command("length", Sector), Command("preset", Blocks(o))}
  BY DEF Before, WholeSectors
<1> DEFINE B == Before(o)
           l == Command("length", n)
<1>2. Select \in B /\ Refuse \in B /\ l \in B
  BY <1>1
<1>3. SetBlockLength(n) \in {<<>>, <<Refuse>>, <<Select, l>>}
  BY DEF SetBlockLength
<1> HIDE DEF B, l
<1>4. <<>> \in Seq(B) /\ <<Refuse>> \in Seq(B) /\ <<Select, l>> \in Seq(B) /\ <<Select>> \in Seq(B)
  BY <1>2, EmptySeq
<1> QED
  BY <1>1, <1>3, <1>4 DEF B

LEMMA SelectedBefore ==
    ASSUME NEW o, o.name \in WholeSectors \cup {"partial", "config"}
    PROVE  /\ SetBlockLengthTo512 \in Seq(Before(o))
           /\ SetBlockLengthTo512 \o <<Select>> \in Seq(Before(o))
           /\ <<Select>> \o SetBlockLengthTo512 \in Seq(Before(o))
<1> DEFINE B == Before(o)
<1>1. SetBlockLengthTo512 \in Seq(B) /\ <<Select>> \in Seq(B)
  BY LengthBefore DEF SetBlockLengthTo512
<1> HIDE DEF B
<1>2. SetBlockLengthTo512 \o <<Select>> \in Seq(B) /\ <<Select>> \o SetBlockLengthTo512 \in Seq(B)
  BY <1>1, ConcatProperties
<1> QED
  BY <1>1, <1>2 DEF B

\* The list of every call has its work ahead.
LEMMA WholeAhead ==
    ASSUME ddr => blockSize = Sector, NEW o, o.name = "whole" PROVE Ahead(o, Transfer2(o))
<1> DEFINE count == BlockCount(o.size)
           asked == env.autoCmd /\ (env.cmd23 => env.dma # "sdma")
           stop == IF count > 1 /\ (asked \/ env.dma = "adma3") THEN AutoStop ELSE "none"
           x == SetBlockLengthTo512 \o <<Select>>
           P == IF count > 1 /\ env.cmd23 /\ ~asked THEN <<Command("preset", count)>> ELSE <<>>
           d == Data(CalcCommand(count), Argument(o.addr \div Sector), BlockLen, count, stop)
           E == StopAfter(count)
<1>1. Transfer2(o) = ((x \o P) \o <<d>>) \o E
  BY DEF Transfer2
<1>2. count = Blocks(o) /\ BlockLen = Sector
  BY DEF BlockCount, FullSize, Blocks, BlockLen
<1>3. d \in Work(o)
  BY <1>2 DEF Work, WholeSectors, CalcCommand, First, AutoStop
<1>4. x \in Seq(Before(o))
  BY SelectedBefore DEF WholeSectors
<1>5. P \in Seq(Before(o))
  <2>1. Command("preset", count) \in Before(o) /\ <<>> \in Seq(Before(o))
    BY <1>2, LengthBefore DEF WholeSectors
  <2> QED
    BY <2>1
<1>6. E \in Seq(After(o))
  <2>1. After(o) = {StopIt} /\ E \in {<<>>, <<StopIt>>}
    BY DEF After, StopAfter, StopIt
  <2>2. <<>> \in Seq({StopIt}) /\ <<StopIt>> \in Seq({StopIt})
    OBVIOUS
  <2> QED
    BY <2>1, <2>2
<1> HIDE DEF x, P, d, E
<1>7. x \o P \in Seq(Before(o))
  BY <1>4, <1>5, ConcatProperties
<1> QED
  BY <1>1, <1>3, <1>6, <1>7, AheadJoined

LEMMA BackgroundAhead ==
    ASSUME ddr => blockSize = Sector, NEW o, o.name = "nonBlock" PROVE Ahead(o, NonBlock(o))
<1> DEFINE count == BlockCount(o.size)
           ahead == env.cmd23 /\ env.dma = "sdma"
           stop == IF count = 1 \/ ahead THEN "none" ELSE AutoStop
           x == SetBlockLengthTo512 \o <<Select>>
           P == IF count > 1 /\ ahead THEN <<Command("preset", count)>> ELSE <<>>
           d == Data(CalcCommand(count), Argument(o.addr \div Sector), BlockLen, count, stop)
<1>1. NonBlock(o) = (x \o P) \o <<d>>
  BY DEF NonBlock
<1>2. count = Blocks(o) /\ BlockLen = Sector
  BY DEF BlockCount, FullSize, Blocks, BlockLen
<1>3. d \in Work(o)
  BY <1>2 DEF Work, WholeSectors, CalcCommand, First, AutoStop
<1>4. x \in Seq(Before(o))
  BY SelectedBefore DEF WholeSectors
<1>5. P \in Seq(Before(o))
  <2>1. Command("preset", count) \in Before(o) /\ <<>> \in Seq(Before(o))
    BY <1>2, LengthBefore DEF WholeSectors
  <2> QED
    BY <2>1
<1> HIDE DEF x, P, d
<1>7. x \o P \in Seq(Before(o))
  BY <1>4, <1>5, ConcatProperties
<1> QED
  BY <1>1, <1>3, <1>7, AheadLast

LEMMA EndlessAhead ==
    ASSUME ddr => blockSize = Sector, NEW o
    PROVE  /\ o.name = "infStart" => Ahead(o, InfStart(o))
           /\ o.name = "infContinue" => Ahead(o, InfContinue(o))
<1> DEFINE count == BlockCount(o.size)
<1>1. count = Blocks(o) /\ BlockLen = Sector
  BY DEF BlockCount, FullSize, Blocks, BlockLen
<1>2. ASSUME o.name = "infStart" PROVE Ahead(o, InfStart(o))
  <2> DEFINE x == SetBlockLengthTo512 \o <<Select>>
             d == Data("multiple", Argument(o.addr \div Sector), BlockLen, count, "none")
  <2>1. InfStart(o) = x \o <<d>>
    BY DEF InfStart
  <2>2. d \in Work(o) /\ x \in Seq(Before(o))
    BY <1>1, <1>2, SelectedBefore DEF Work, WholeSectors, First
  <2> QED
    BY <1>2, <2>1, <2>2, AheadLast
<1>3. ASSUME o.name = "infContinue" PROVE Ahead(o, InfContinue(o))
  <2> DEFINE d == Data("next", 0, BlockLen, count, "none")
  <2>1. InfContinue(o) = <<d>>
    BY DEF InfContinue
  <2>2. d \in Work(o) /\ <<>> \in Seq(Before(o))
    BY <1>1, <1>3, EmptySeq DEF Work, WholeSectors
  <2> HIDE DEF d
  <2>3. <<d>> \in Seq({d})
    OBVIOUS
  <2>4. <<>> \o <<d>> = <<d>>
    BY <2>3, ConcatEmptySeq
  <2> QED
    BY <1>3, <2>1, <2>2, <2>4, AheadLast
<1> QED
  BY <1>2, <1>3

LEMMA PartialAhead == ASSUME NEW o, o.name = "partial" PROVE Ahead(o, Partial(o))
<1> DEFINE x == IF o.size # blockSize THEN SetBlockLength(o.size) ELSE <<>>
           d == Data("single", o.addr, o.size, 1, "none")
<1>1. Partial(o) = x \o <<Select, d>>
  BY DEF Partial
<1>2. d \in Work(o)
  BY DEF Work, WholeSectors
<1>3. x \in Seq(Before(o)) /\ <<Select>> \in Seq(Before(o)) /\ Select \in Before(o)
  BY LengthBefore
<1> HIDE DEF x, d
<1>4. x \o <<Select>> \in Seq(Before(o))
  BY <1>3, ConcatProperties
<1>5. (x \o <<Select>>) \o <<d>> = x \o <<Select, d>>
  <2> DEFINE S == Before(o) \cup {d}
  <2>1. x \in Seq(S) /\ Select \in S /\ d \in S
    BY <1>3, SeqMonotonic
  <2> HIDE DEF S
  <2> QED
    BY <2>1, Sides
<1> QED
  BY <1>1, <1>2, <1>4, <1>5, AheadLast

LEMMA ConfigAhead ==
    ASSUME ddr => blockSize = Sector, NEW o, o.name = "config", o.size \in 1 .. 16 PROVE Ahead(o, Configure(o))
<1> DEFINE x == <<Select>> \o SetBlockLengthTo512
           c == Data("config", 0, FullSize, 1, "none")
<1>1. Configure(o) = x \o <<c>>
  BY DEF Configure
<1>2. c \in Work(o)
  BY DEF Work, WholeSectors, FullSize
<1>3. x \in Seq(Before(o))
  BY SelectedBefore
<1> HIDE DEF x, c
<1> QED
  BY <1>1, <1>2, <1>3, AheadLast

LEMMA EraseAhead == ASSUME NEW o, o.name = "erase" PROVE Ahead(o, Erase(o))
  BY DEF Ahead, Erasing, Erase, First, Last

LEMMA CommandsAhead ==
    ASSUME ddr => blockSize = Sector, NEW o \in Calls, o.name \in Workers PROVE Ahead(o, Commands(o))
<1>1. CASE o.name = "config"
  <2>1. o.size \in 1 .. 16
    BY <1>1 DEF Calls, Operations, Continuation
  <2> QED
    BY <1>1, <2>1, ConfigAhead DEF Commands
<1>2. CASE o.name = "partial"
  BY <1>2, PartialAhead DEF Commands
<1>3. CASE o.name = "whole"
  BY <1>3, WholeAhead DEF Commands
<1>4. CASE o.name = "nonBlock"
  BY <1>4, BackgroundAhead DEF Commands
<1>5. CASE o.name \in {"infStart", "infContinue"}
  BY <1>5, EndlessAhead DEF Commands
<1>6. CASE o.name = "erase"
  BY <1>6, EraseAhead DEF Commands
<1> QED
  BY <1>1, <1>2, <1>3, <1>4, <1>5, <1>6 DEF Workers

\* The other calls send one command or none.
LEMMA OthersBefore ==
    ASSUME NEW o, o.name \in {"infFinish", "deselect", "wait"} PROVE Commands(o) \in Seq(Before(o))
<1>1. CASE o.name = "infFinish"
  <2>1. Commands(o) = <<Command("stop", 0)>> /\ Before(o) = {Command("stop", 0)}
    BY <1>1 DEF Commands, InfFinish, Before
  <2> QED
    BY <2>1
<1>2. CASE o.name = "deselect"
  <2> DEFINE d == Command("deselect", 0)
  <2>1. Commands(o) \in {<<>>, <<d>>} /\ Before(o) = {d}
    BY <1>2 DEF Commands, Before
  <2> HIDE DEF d
  <2>2. <<>> \in Seq({d}) /\ <<d>> \in Seq({d})
    OBVIOUS
  <2> QED
    BY <2>1, <2>2
<1>3. CASE o.name = "wait"
  BY <1>3, EmptySeq DEF Commands
<1> QED
  BY <1>1, <1>2, <1>3

\* The command to be sent next is before the work, or does it.
LEMMA AheadTail ==
    ASSUME NEW o, NEW t, Ahead(o, t)
    PROVE  /\ t # <<>>
           /\ \/ Head(t) \in Work(o) /\ Tail(t) \in Seq(After(o))
              \/ Head(t) \in Before(o) /\ Ahead(o, Tail(t))
<1>1. CASE o.name = "erase"
  <2> DEFINE f == Command("from", First(o))
             l == Command("to", Last(o))
             e == Command("erase", 0)
  <2>1. t \in {<<Select, f, l, e>>, <<f, l, e>>, <<l, e>>, <<e>>}
    BY <1>1 DEF Ahead, Erasing
  <2>2. Before(o) = {Select, f, l} /\ Work(o) = {e} /\ <<>> \in Seq(After(o))
    BY <1>1, EmptySeq DEF Before, Work, WholeSectors
  <2>3. Ahead(o, <<f, l, e>>) /\ Ahead(o, <<l, e>>) /\ Ahead(o, <<e>>)
    BY <1>1 DEF Ahead, Erasing
  <2> HIDE DEF f, l, e
  <2>4. CASE t = <<Select, f, l, e>>
    <3>1. t # <<>> /\ Head(t) = Select /\ Tail(t) = <<f, l, e>>
      BY <2>4
    <3> QED
      BY <2>2, <2>3, <3>1
  <2>5. CASE t = <<f, l, e>>
    <3>1. t # <<>> /\ Head(t) = f /\ Tail(t) = <<l, e>>
      BY <2>5
    <3> QED
      BY <2>2, <2>3, <3>1
  <2>6. CASE t = <<l, e>>
    <3>1. t # <<>> /\ Head(t) = l /\ Tail(t) = <<e>>
      BY <2>6
    <3> QED
      BY <2>2, <2>3, <3>1
  <2>7. CASE t = <<e>>
    <3>1. t # <<>> /\ Head(t) = e /\ Tail(t) = <<>>
      BY <2>7
    <3> QED
      BY <2>2, <3>1
  <2> QED
    BY <2>1, <2>4, <2>5, <2>6, <2>7
<1>2. CASE o.name # "erase"
  <2> DEFINE S == Before(o) \cup Work(o) \cup After(o)
             u == Tail(t)
  <2>1. t \in Seq(S)
    BY <1>2 DEF Ahead
  <2>2. PICK n \in 1 .. Len(t) : /\ \A i \in 1 .. n - 1 : t[i] \in Before(o)
                                 /\ t[n] \in Work(o)
                                 /\ \A i \in n + 1 .. Len(t) : t[i] \in After(o)
    BY <1>2 DEF Ahead
  <2>3. Len(t) \in Nat /\ Len(t) > 0
    BY <2>1, <2>2, LenProperties
  <2> HIDE DEF S
  <2>4. t # <<>>
    BY <2>3
  <2>5. /\ u \in Seq(S) /\ Len(u) = Len(t) - 1 /\ Head(t) = t[1]
        /\ \A i \in 1 .. Len(u) : u[i] = t[i + 1]
    BY <2>1, <2>4, HeadTailProperties
  <2> HIDE DEF u
  <2>6. CASE n = 1
    <3>1. \A i \in 1 .. Len(u) : u[i] \in After(o)
      BY <2>2, <2>3, <2>5, <2>6
    <3>2. u \in Seq(After(o))
      <4>1. DOMAIN u = 1 .. Len(u) /\ Len(u) \in Nat /\ u = [i \in 1 .. Len(u) |-> u[i]]
        BY <2>5, LenProperties
      <4> QED
        BY <3>1, <4>1, SeqDef
    <3> QED
      BY <2>2, <2>4, <2>5, <2>6, <3>2 DEF u
  <2>7. CASE n > 1
    <3>1. n - 1 \in 1 .. Len(u) /\ u[n - 1] \in Work(o)
      <4>1. n - 1 \in 1 .. Len(u) /\ n - 1 + 1 = n
        BY <2>2, <2>3, <2>5, <2>7
      <4> QED
        BY <2>2, <2>5, <4>1
    <3>2. \A i \in 1 .. n - 1 - 1 : u[i] \in Before(o)
      BY <2>2, <2>3, <2>5, <2>7
    <3>3. \A i \in n - 1 + 1 .. Len(u) : u[i] \in After(o)
      <4> TAKE i \in n - 1 + 1 .. Len(u)
      <4>1. i \in 1 .. Len(u) /\ i + 1 \in n + 1 .. Len(t)
        BY <2>2, <2>3, <2>5, <2>7
      <4> QED
        BY <2>2, <2>5, <4>1
    <3>4. Ahead(o, u)
      BY <1>2, <2>5, <3>1, <3>2, <3>3 DEF Ahead, S
    <3>5. 1 \in 1 .. n - 1
      BY <2>7
    <3> QED
      BY <2>2, <2>4, <2>5, <3>4, <3>5 DEF u
  <2> QED
    BY <2>6, <2>7
<1> QED
  BY <1>1, <1>2

----------------------------------------------------------------------------
\* What the commands do.
LEMMA BeforeQuiet ==
    ASSUME NEW o, NEW s \in Before(o)
    PROVE  /\ s.cmd \in {"select", "refuse", "length", "preset", "stop", "deselect", "from", "to"} /\ ~IsTransfer(s)
           /\ o.name \notin {"infContinue", "wait"}
  BY DEF Before, Select, Refuse, Command, IsTransfer

LEMMA WorkIs ==
    ASSUME NEW o, o.name \in Workers, NEW s \in Work(o)
    PROVE  /\ s.strict /\ (IsTransfer(s) <=> o.name \notin {"erase", "config"})
           /\ s.cmd = "next" <=> o.name = "infContinue"
           /\ s.cmd = "erase" <=> o.name = "erase"
           /\ s.cmd = "config" <=> o.name = "config"
  BY DEF Work, Workers, WholeSectors, Data, Command, IsTransfer

LEMMA AfterIs ==
    ASSUME NEW o, NEW t \in Seq(After(o)), t # <<>>
    PROVE  /\ o.name = "whole" /\ Head(t).cmd = "stop" /\ ~Head(t).strict
           /\ Tail(t) \in Seq(After(o))
<1>1. Head(t) \in After(o) /\ Tail(t) \in Seq(After(o))
  BY HeadTailProperties
<1> QED
  BY <1>1 DEF After, StopIt, Command

\* What is asked depends on the call, and not on how far it is.
LEMMA OpKept ==
    ASSUME UNCHANGED <<env, op>>
    PROVE  /\ (OpFine(op)' <=> OpFine(op)) /\ Work(op)' = Work(op) /\ Before(op)' = Before(op)
           /\ After(op)' = After(op) /\ First(op)' = First(op) /\ Last(op)' = Last(op) /\ Covers(op)' = Covers(op)
  BY DEF OpFine, Work, Before, After, First, Last, Argument, Covers, Aimed, Blocks, Scale, IsTransfer

LEMMA AheadKept == ASSUME UNCHANGED <<env, op>>, Ahead(op, todo') PROVE Ahead(op, todo)'
<1>1. Erasing(op)' = Erasing(op)
  BY DEF Erasing, First, Last, Argument
<1>2. /\ Before(op)' = Before(op) /\ Work(op)' = Work(op) /\ After(op)' = After(op) /\ op' = op
  BY DEF Work, Before, After, First, Last, Argument, Blocks
<1>3. CASE op.name = "erase"
  BY <1>1, <1>2, <1>3 DEF Ahead
<1>4. CASE op.name # "erase"
  BY <1>2, <1>4 DEF Ahead
<1> QED
  BY <1>3, <1>4

LEMMA BehindKept ==
    ASSUME env' = env, g'.op = g.op
    PROVE  (OpFine(g.op)' <=> OpFine(g.op)) /\ Work(g.op)' = Work(g.op)
  BY DEF OpFine, Work, First, Last, Argument, Covers, Aimed, Blocks, Scale, IsTransfer

LEMMA BehindLeft ==
    ASSUME env' = env, g'.op = op
    PROVE  (OpFine(g.op)' <=> OpFine(op)) /\ Work(g.op)' = Work(op)
  BY DEF OpFine, Work, First, Last, Argument, Covers, Aimed, Blocks, Scale, IsTransfer

LEMMA QuietKeeps ==
    ASSUME NEW s, NEW o, NEW outcome, Carry(s, o, outcome), ~IsTransfer(s), s.cmd # "erase"
    PROVE  mem' = mem /\ Read(s, o) = <<>>
<1>1. Read(s, o) = <<>> /\ \A n : MemAfter(s, o, n) = mem
  BY DEF Read, MemAfter
<1> QED
  BY <1>1 DEF Carry

LEMMA CarryCard ==
    ASSUME NEW s, NEW o, NEW outcome, Carry(s, o, outcome), DOMAIN card = CardFields
    PROVE  /\ DOMAIN card' = CardFields
           /\ outcome = "ok" =>
                /\ s.cmd = "config" => card'.locked = (o.dir = "lock")
                /\ s.cmd \in {"select", "from", "to"} =>
                     /\ card'.from = IF s.cmd = "from" THEN s.arg ELSE card.from
                     /\ card'.to = IF s.cmd = "to" THEN s.arg ELSE card.to
                /\ IsTransfer(s) /\ card'.state = "data" => card'.at = Start(s) + s.len * s.count
<1>1. \A c : DOMAIN c = CardFields => \A d \in Recovered(c) : DOMAIN d = CardFields
  BY DEF Recovered, CardFields
<1>2. /\ DOMAIN CardAfter(s, o) = CardFields
      /\ s.cmd = "config" => CardAfter(s, o).locked = (o.dir = "lock")
      /\ s.cmd \in {"select", "from", "to"} =>
           /\ CardAfter(s, o).from = IF s.cmd = "from" THEN s.arg ELSE card.from
           /\ CardAfter(s, o).to = IF s.cmd = "to" THEN s.arg ELSE card.to
      /\ IsTransfer(s) /\ CardAfter(s, o).state = "data" => CardAfter(s, o).at = Start(s) + s.len * s.count
  <2>1. CASE s.cmd \in {"select", "deselect", "stop", "length", "preset", "from", "to", "erase"}
    BY <2>1 DEF CardAfter, IsTransfer, CardFields
  <2>2. CASE s.cmd \in {"single", "multiple", "next"}
    BY <2>2 DEF CardAfter, IsTransfer, CardFields
  <2>3. CASE s.cmd \notin {"select", "deselect", "stop", "length", "preset", "from", "to", "erase",
                           "single", "multiple", "next"}
    BY <2>3 DEF CardAfter, IsTransfer, CardFields
  <2> QED
    BY <2>1, <2>2, <2>3
<1> QED
  BY <1>1, <1>2 DEF Carry

\* A transfer moves the bytes that were asked for, from the first on, and touches no other.
LEMMA TransferMoves ==
    ASSUME NEW o, OpFine(o), o.size # 0, o.name \in Workers \ {"erase", "config"}, NEW s \in Work(o),
           o.name = "infContinue" /\ card.state = "data" => card.at = o.addr,
           NEW outcome \in Outcomes(s), Carry(s, o, outcome)
    PROVE  /\ \A b \in Bytes : mem'[b] # mem[b] => o.dir = "write" /\ b \in Covers(o)
           /\ outcome = "ok" =>
                /\ Start(s) + s.len * s.count = o.addr + o.size
                /\ o.dir = "write" => \A b \in Covers(o) : mem'[b] = 100 + b - o.addr
                /\ o.dir = "read" => mem' = mem /\ Read(s, o) = [i \in 1 .. o.size |-> mem[o.addr + i - 1]]
<1>1. CASE outcome = "mute"
  BY <1>1 DEF Carry
<1>2. CASE outcome # "mute"
  <2>1. Takes(s) /\ IsTransfer(s) /\ Aimed(s, o) /\ o.addr \in Nat /\ o.size \in Nat
    BY <1>2, WorkIs DEF Outcomes, OpFine
  <2>2. Fits(s) /\ (s.cmd = "next" => card.state = "data")
    BY <2>1 DEF Takes, IsTransfer
  <2>3. Start(s) = o.addr
    BY <2>1, <2>2, WorkIs DEF Start, Aimed
  <2>4. s.len * s.count = o.size /\ s.len \in Nat /\ s.count \in Nat /\ o.addr + o.size <= Sectors * Sector
    BY <2>1, <2>2, <2>3 DEF Aimed, Fits
  <2>5. \A n \in 0 .. s.count : Moved(s, n) \subseteq Covers(o)
    <3> TAKE n \in 0 .. s.count
    <3>1. s.len * n <= s.len * s.count /\ s.len * n \in Nat
      BY <2>4, Grows
    <3> QED
      BY <2>1, <2>3, <2>4, <3>1 DEF Moved, Covers
  <2>6. Moved(s, s.count) = Covers(o) /\ Covers(o) \subseteq Bytes
    <3>1. Sectors * Sector \in Nat
      BY MemCardAssumption
    <3> QED
      BY <2>1, <2>3, <2>4, <3>1 DEF Moved, Covers, Bytes
  <2>7. \A n : MemAfter(s, o, n) = IF o.dir = "write"
                 THEN [b \in Bytes |-> IF b \in Moved(s, n) THEN 100 + b - o.addr ELSE mem[b]] ELSE mem
    <3>1. s.cmd # "erase"
      BY <2>1 DEF IsTransfer
    <3> QED
      BY <2>1, <2>3, <3>1 DEF MemAfter
  <2>8. PICK n \in 0 .. s.count : mem' = MemAfter(s, o, n) /\ (outcome = "ok" => n = s.count)
    BY <1>2, <2>4 DEF Carry
  <2>9. \A b \in Bytes : mem'[b] # mem[b] => o.dir = "write" /\ b \in Covers(o)
    BY <2>5, <2>7, <2>8
  <2>10. ASSUME outcome = "ok", o.dir = "write", NEW b \in Covers(o) PROVE mem'[b] = 100 + b - o.addr
    BY <2>6, <2>7, <2>8, <2>10
  <2>11. ASSUME outcome = "ok", o.dir = "read"
         PROVE  mem' = mem /\ Read(s, o) = [i \in 1 .. o.size |-> mem[o.addr + i - 1]]
    BY <2>1, <2>3, <2>4, <2>7, <2>8, <2>11 DEF Read
  <2> QED
    BY <2>3, <2>4, <2>9, <2>10, <2>11
<1> QED
  BY <1>1, <1>2

\* Erasing reaches the sectors that were named, and no other.
LEMMA EraseMoves ==
    ASSUME NEW o, OpFine(o), o.size # 0, o.name = "erase", NEW s, s.cmd = "erase",
           card.from = First(o), card.to = Last(o), NEW outcome, outcome \in Outcomes(s), Carry(s, o, outcome)
    PROVE  /\ \A b \in Bytes : mem'[b] # mem[b] => o.dir = "write" /\ b \in Covers(o)
           /\ outcome = "ok" => \A b \in Covers(o) : mem'[b] = Erased
<1>1. ~IsTransfer(s)
  BY DEF IsTransfer
<1>2. \A n, b : b \in Bytes => MemAfter(s, o, n)[b] = IF b \in Covers(o) THEN Erased ELSE mem[b]
  BY <1>1 DEF MemAfter, OpFine
<1>3. mem' = mem \/ \E n : mem' = MemAfter(s, o, n)
  BY DEF Carry
<1>4. outcome = "ok" => mem' = MemAfter(s, o, s.count)
  BY DEF Carry
<1>5. Covers(o) \subseteq Bytes
  <2>1. o.addr \in Nat /\ o.size \in Nat /\ o.addr + o.size <= Sectors * Sector /\ Sectors * Sector \in Nat
    BY MemCardAssumption DEF OpFine
  <2> QED
    BY <2>1 DEF Covers, Bytes
<1> QED
  BY <1>2, <1>3, <1>4, <1>5 DEF OpFine

\* The order of an erasing's commands.
LEMMA EraseOrder ==
    ASSUME NEW o, o.name = "erase", NEW t, Ahead(o, t)
    PROVE  LET s == Head(t)
               u == Tail(t)
           IN  \/ s.cmd = "select" /\ ~s.strict /\ u # <<>> /\ Head(u).cmd = "from"
               \/ s.cmd = "from" /\ s.arg = First(o) /\ s.strict /\ u # <<>> /\ Head(u).cmd = "to"
               \/ s.cmd = "to" /\ s.arg = Last(o) /\ s.strict /\ u # <<>> /\ Head(u).cmd = "erase"
               \/ s.cmd = "erase" /\ s.strict /\ u = <<>>
<1> DEFINE f == Command("from", First(o))
           l == Command("to", Last(o))
           e == Command("erase", 0)
<1>1. t \in {<<Select, f, l, e>>, <<f, l, e>>, <<l, e>>, <<e>>}
  BY DEF Ahead, Erasing
<1>2. /\ Select.cmd = "select" /\ ~Select.strict
      /\ f.cmd = "from" /\ f.arg = First(o) /\ f.strict
      /\ l.cmd = "to" /\ l.arg = Last(o) /\ l.strict
      /\ e.cmd = "erase" /\ e.strict
  BY DEF Select, Command
<1> HIDE DEF f, l, e
<1>3. CASE t = <<Select, f, l, e>>
  <2>1. Head(t) = Select /\ Tail(t) = <<f, l, e>> /\ <<f, l, e>> # <<>> /\ Head(<<f, l, e>>) = f
    BY <1>3
  <2> QED
    BY <1>2, <2>1
<1>4. CASE t = <<f, l, e>>
  <2>1. Head(t) = f /\ Tail(t) = <<l, e>> /\ <<l, e>> # <<>> /\ Head(<<l, e>>) = l
    BY <1>4
  <2> QED
    BY <1>2, <2>1
<1>5. CASE t = <<l, e>>
  <2>1. Head(t) = l /\ Tail(t) = <<e>> /\ <<e>> # <<>> /\ Head(<<e>>) = e
    BY <1>5
  <2> QED
    BY <1>2, <2>1
<1>6. CASE t = <<e>>
  <2>1. Head(t) = e /\ Tail(t) = <<>>
    BY <1>6
  <2> QED
    BY <1>2, <2>1
<1> QED
  BY <1>1, <1>3, <1>4, <1>5, <1>6

\* Where the list of a call in progress stands.
LEMMA Standing ==
    ASSUME ListInv, status = "run", todo # <<>>
    PROVE  LET s == Head(todo)
               u == Tail(todo)
           IN  /\ OpFine(op)
               /\ \/ op.name \notin Workers /\ s \in Before(op) /\ u \in Seq(Before(op))
                  \/ op.name \in Workers /\ op.size # 0 /\ got = <<>> /\ s \in Before(op) /\ Ahead(op, todo) /\ Ahead(op, u)
                  \/ op.name \in Workers /\ op.size # 0 /\ got = <<>> /\ s \in Work(op) /\ Ahead(op, todo) /\ u \in Seq(After(op))
                  \/ /\ op.name = "whole" /\ op.size # 0 /\ Finished /\ s.cmd = "stop" /\ ~s.strict
                     /\ u \in Seq(After(op)) /\ g.state # "pending"
<1>1. CASE op.name \notin Workers
  <2>1. todo \in Seq(Before(op))
    BY <1>1 DEF ListInv
  <2>2. Head(todo) \in Before(op) /\ Tail(todo) \in Seq(Before(op))
    BY <2>1, HeadTailProperties
  <2> QED
    BY <1>1, <2>2 DEF ListInv
<1>2. CASE op.name \in Workers /\ op.size # 0 /\ got = <<>> /\ Ahead(op, todo)
  BY <1>2, AheadTail DEF ListInv
<1>3. CASE op.name \in Workers /\ Finished
  <2>1. op.size # 0 /\ todo \in Seq(After(op)) /\ g.state # "pending"
    BY <1>3 DEF Finished
  <2> QED
    BY <1>3, <2>1, AfterIs DEF ListInv
<1> QED
  BY <1>1, <1>2, <1>3 DEF ListInv

LEMMA JoinedToNone ==
    ASSUME NEW n \in Nat, NEW S, NEW f \in [1 .. n -> S]
    PROVE  f \o <<>> = f /\ <<>> \o f = f
<1>1. f \in Seq(S)
  BY SeqDef
<1> QED
  BY <1>1, ConcatEmptySeq

\* What is finished stays so, whatever becomes of a stop that follows.
LEMMA StaysFinished ==
    ASSUME Finished, OpFine(op), op.size # 0, UNCHANGED <<env, mem, op>>, todo' \in Seq(After(op)), g'.state # "pending",
           op.name # "config", got' = got \/ got' = got \o <<>>
    PROVE  Finished'
<1>1. Done(op, got) /\ op.name # "nonBlock"
  BY DEF Finished
<1>2. Covers(op)' = Covers(op) /\ After(op)' = After(op)
  BY OpKept
<1>3. op.dir \in {"read", "write"}
  BY DEF OpFine
<1>4. CASE op.dir = "write"
  BY <1>1, <1>2, <1>4 DEF Finished, Done
<1>5. CASE op.dir = "read"
  <2>1. op.name # "erase"
    BY <1>5 DEF OpFine
  <2>2. got = [i \in 1 .. op.size |-> mem[op.addr + i - 1]]
    BY <1>1, <1>5, <2>1 DEF Done
  <2>3. got' = got
    <3> DEFINE S == {mem[op.addr + i - 1] : i \in 1 .. op.size}
    <3>1. op.size \in Nat /\ got \in [1 .. op.size -> S]
      BY <2>2 DEF OpFine
    <3> HIDE DEF S
    <3> QED
      BY <3>1, JoinedToNone
  <2> QED
    BY <1>1, <1>2, <1>5, <2>1, <2>2, <2>3 DEF Finished, Done
<1> QED
  BY <1>3, <1>4, <1>5

\* The work itself, answered: all is done as it was asked.
LEMMA WorkDone ==
    ASSUME MoveInv, Exec, Head(todo) \in Work(op), op.name \in Workers, op.size # 0, got = <<>>, Ahead(op, todo),
           Tail(todo) \in Seq(After(op)), NEW outcome \in Outcomes(Head(todo)), Carry(Head(todo), op, outcome),
           g'.state # "pending"
    PROVE  /\ \A b \in Bytes : mem'[b] # mem[b] => op.dir = "write" /\ b \in Covers(op) /\ op.name # "config"
           /\ outcome = "ok" /\ todo' = Tail(todo) /\ got' = got \o Read(Head(todo), op) => Finished'
<1> DEFINE s == Head(todo)
<1>1. /\ OpFine(op) /\ status = "run" /\ todo # <<>> /\ UNCHANGED <<env, op>> /\ DOMAIN card = CardFields
      /\ g.state # "pending" /\ ~(op.name = "nonBlock" /\ IsTransfer(s))
  BY DEF MoveInv, ListInv, Exec, AtCommand, LeftToG
<1>2. op.name # "nonBlock"
  BY <1>1, WorkIs
<1>3. After(op)' = After(op) /\ Covers(op)' = Covers(op)
  BY <1>1, OpKept
<1>4. CASE op.name \notin {"erase", "config"}
  <2>1. op.name = "infContinue" /\ card.state = "data" => card.at = op.addr
    BY <1>1 DEF MoveInv, EndlessInv
  <2>2. /\ \A b \in Bytes : mem'[b] # mem[b] => op.dir = "write" /\ b \in Covers(op)
        /\ outcome = "ok" =>
             /\ op.dir = "write" => \A b \in Covers(op) : mem'[b] = 100 + b - op.addr
             /\ op.dir = "read" => mem' = mem /\ Read(s, op) = [i \in 1 .. op.size |-> mem[op.addr + i - 1]]
    BY <1>1, <1>4, <2>1, TransferMoves
  <2>3. ASSUME outcome = "ok", todo' = Tail(todo), got' = got \o Read(s, op) PROVE Finished'
    <3>1. op.dir \in {"read", "write"}
      BY <1>1, <1>4 DEF OpFine
    <3>2. CASE op.dir = "write"
      BY <1>1, <1>2, <1>3, <1>4, <2>2, <2>3, <3>2 DEF Finished, Done
    <3>3. CASE op.dir = "read"
      <4> DEFINE r == [i \in 1 .. op.size |-> mem[op.addr + i - 1]]
      <4> DEFINE S == {mem[op.addr + i - 1] : i \in 1 .. op.size}
      <4>1. op.size \in Nat /\ r \in [1 .. op.size -> S]
        BY <1>1 DEF OpFine
      <4>2. got' = r
        <5> HIDE DEF S
        <5>1. <<>> \o r = r
          <6> HIDE DEF r
          <6> QED
            BY <4>1, JoinedToNone
        <5> QED
          BY <2>2, <2>3, <3>3, <5>1
      <4>3. r = [i \in 1 .. op.size |-> mem'[op.addr + i - 1]]
        BY <2>2, <2>3, <3>3
      <4> QED
        BY <1>1, <1>2, <1>3, <1>4, <2>3, <3>3, <4>2, <4>3 DEF Finished, Done
    <3> QED
      BY <3>1, <3>2, <3>3
  <2> QED
    BY <1>4, <2>2, <2>3
<1>5. CASE op.name = "erase"
  <2>1. s.cmd = "erase"
    BY <1>5, WorkIs
  <2>2. card.from = First(op) /\ card.to = Last(op)
    BY <1>1, <1>5, <2>1 DEF MoveInv, EraseInv
  <2>3. /\ \A b \in Bytes : mem'[b] # mem[b] => op.dir = "write" /\ b \in Covers(op)
        /\ outcome = "ok" => \A b \in Covers(op) : mem'[b] = Erased
    BY <1>1, <1>5, <2>1, <2>2, EraseMoves
  <2>4. ASSUME outcome = "ok", todo' = Tail(todo) PROVE Finished'
    <3>1. todo' \in Seq(After(op)') /\ op'.size # 0 /\ op'.name = "erase"
      BY <1>1, <1>3, <1>5, <2>4
    <3>2. \A b \in Covers(op)' : mem'[b] = Erased
      BY <1>3, <2>3, <2>4
    <3>3. Done(op, got)'
      BY <1>1, <1>5, <3>2 DEF Done, OpFine
    <3> QED
      BY <1>1, <3>1, <3>3 DEF Finished
  <2> QED
    BY <1>5, <2>3, <2>4
<1>6. CASE op.name = "config"
  <2>1. s.cmd = "config" /\ ~IsTransfer(s)
    BY <1>6, WorkIs
  <2>2. mem' = mem /\ (outcome = "ok" => card'.locked = (op.dir = "lock"))
    BY <1>1, <2>1, QuietKeeps, CarryCard
  <2> QED
    BY <1>1, <1>2, <1>3, <1>6, <2>2 DEF Finished
<1> QED
  BY <1>4, <1>5, <1>6

----------------------------------------------------------------------------
\* A command that is passed over: none of them does the work.
LEMMA PassedOver ==
    ASSUME MoveInv, status = "run", todo # <<>>, UNCHANGED <<env, driver, card, mem, op, got, g>>,
           \/ Head(todo) = Select /\ todo' = Tail(todo)
           \/ ~Head(todo).strict /\ todo' = Tail(todo)
           \/ status' # "run"
    PROVE  MoveInv'
<1> DEFINE u == Tail(todo)
<1>4. UNCHANGED <<env, op>> /\ env' = env /\ g' = g /\ g'.op = g.op /\ blockSize' = blockSize /\ ddr' = ddr /\ card' = card
  BY DEF driver
<1>1. BehindInv' /\ DOMAIN card' = CardFields /\ (ddr' => blockSize' = Sector)
  <2>1. (OpFine(g.op)' <=> OpFine(g.op)) /\ Work(g.op)' = Work(g.op)
    BY <1>4, BehindKept
  <2>2. BehindInv'
    BY <1>4, <2>1 DEF MoveInv, BehindInv
  <2> QED
    BY <1>4, <2>2 DEF MoveInv
<1>2. CASE status' # "run"
  <2>1. ListInv' /\ EraseInv'
    BY <1>2 DEF ListInv, EraseInv
  <2>2. EndlessInv'
    BY <1>2 DEF MoveInv, EndlessInv, Infinite
  <2> QED
    BY <1>1, <2>1, <2>2 DEF MoveInv
<1>3. CASE (Head(todo) = Select \/ ~Head(todo).strict) /\ todo' = u
  <2>1. EndlessInv'
    BY <1>3 DEF MoveInv, EndlessInv, Infinite
  <2>2. OpFine(op) /\ OpFine(op)'
    BY <1>4, OpKept DEF MoveInv, ListInv
  <2>3. Before(op)' = Before(op) /\ After(op)' = After(op) /\ Covers(op)' = Covers(op)
    BY <1>4, OpKept
  <2>4. ASSUME op.name \in Workers PROVE Head(todo) \notin Work(op)
    <3>1. Select.cmd = "select" /\ ~Select.strict
      BY DEF Select, Command
    <3> QED
      BY <1>3, <2>4, <3>1, WorkIs
  <2>5. ListInv /\ status = "run" /\ todo # <<>>
    BY DEF MoveInv
  <2>6. CASE op.name \notin Workers /\ u \in Seq(Before(op))
    <3>1. ListInv'
      BY <1>3, <2>2, <2>3, <2>6 DEF ListInv
    <3>2. EraseInv'
      BY <2>6 DEF EraseInv, Workers
    <3> QED
      BY <1>1, <2>1, <3>1, <3>2 DEF MoveInv
  <2>7. CASE op.name \in Workers /\ op.size # 0 /\ got = <<>> /\ Ahead(op, todo) /\ Ahead(op, u)
    <3>1. Ahead(op, todo)'
      BY <1>3, <2>7, AheadKept
    <3>2. ListInv'
      BY <2>2, <2>7, <3>1 DEF ListInv
    <3>3. EraseInv'
      <4>1. CASE op.name = "erase"
        <5>1. u # <<>> /\ Head(u).cmd = "from"
          BY <1>3, <2>7, <4>1, EraseOrder DEF Select, Command
        <5> QED
          BY <1>3, <5>1 DEF EraseInv
      <4> QED
        BY <4>1 DEF EraseInv
    <3> QED
      BY <1>1, <2>1, <3>2, <3>3 DEF MoveInv
  <2>8. CASE op.name = "whole" /\ op.size # 0 /\ Finished /\ u \in Seq(After(op)) /\ g.state # "pending"
    <3>1. Finished'
      BY <1>3, <2>3, <2>8 DEF Finished, Done
    <3>2. ListInv'
      BY <2>2, <2>8, <3>1 DEF ListInv, Workers
    <3>3. EraseInv'
      BY <2>8 DEF EraseInv
    <3> QED
      BY <1>1, <2>1, <3>2, <3>3 DEF MoveInv
  <2> QED
    BY <2>4, <2>5, <2>6, <2>7, <2>8, Standing
<1> QED
  BY <1>2, <1>3

LEMMA SkipMoves == ASSUME MoveInv, SkipSelect PROVE MoveInv'
<1>1. /\ status = "run" /\ todo # <<>> /\ UNCHANGED <<env, driver, card, mem, op, got, g>>
      /\ Head(todo) = Select /\ todo' = Tail(todo)
  BY DEF SkipSelect, AtCommand, NoNeed, Proceed
<1> QED
  BY <1>1, PassedOver

LEMMA BusyMoves == ASSUME MoveInv, SlotIsBusy PROVE MoveInv'
<1>1. /\ status = "run" /\ todo # <<>> /\ UNCHANGED <<env, driver, card, mem, op, got, g>>
      /\ (~Head(todo).strict /\ todo' = Tail(todo)) \/ status' # "run"
  BY DEF SlotIsBusy, AtCommand, Fail, Proceed
<1> QED
  BY <1>1, PassedOver

\* A request is left to gRequest with all its data still to be moved.
LEMMA StartMoves == ASSUME MoveInv, StartRequest PROVE MoveInv'
<1>1. /\ status = "run" /\ todo # <<>> /\ op.name = "nonBlock" /\ IsTransfer(Head(todo)) /\ status' = "started"
      /\ UNCHANGED <<env, driver, card, mem, op, got>>
  BY DEF StartRequest, AtCommand, LeftToG
<1>2. g'.state = "pending" /\ g'.op = op /\ g'.step = Head(todo)
  BY DEF StartRequest, NoG
<1>3. ListInv' /\ EraseInv'
  BY <1>1 DEF ListInv, EraseInv
<1>4. EndlessInv'
  BY <1>1, <1>2 DEF EndlessInv, Infinite
<1>5. OpFine(op) /\ op.size # 0 /\ Head(todo) \in Work(op)
  <2>1. \A s \in Before(op) : ~IsTransfer(s)
    BY BeforeQuiet
  <2> QED
    BY <1>1, <2>1, Standing DEF MoveInv, Workers
<1>6. (OpFine(g.op)' <=> OpFine(op)) /\ Work(g.op)' = Work(op)
  BY <1>1, <1>2, BehindLeft
<1>7. BehindInv'
  BY <1>1, <1>2, <1>5, <1>6 DEF BehindInv
<1> QED
  BY <1>1, <1>3, <1>4, <1>7 DEF MoveInv, driver

\* The request in the background ends, and the list of a call in progress waits.
LEMMA RequestMoves ==
    ASSUME MoveInv, RequestEnds
    PROVE  /\ MoveInv'
           /\ \A b \in Bytes : mem'[b] # mem[b] => Writes(g.op) /\ b \in Covers(g.op) /\ (env.mmc \/ ~env.protected)
           /\ g'.state = "ok" => Done(g.op, g.got)'
<1>1. /\ g.state = "pending" /\ OpFine(g.op) /\ g.op.size # 0 /\ g.op.name = "nonBlock" /\ g.step \in Work(g.op)
      /\ UNCHANGED <<env, driver, op, todo, status, got, doubt>> /\ DOMAIN card = CardFields
  BY DEF RequestEnds, MoveInv, BehindInv
<1>2. PICK outcome \in Outcomes(g.step) :
        /\ Carry(g.step, g.op, outcome)
        /\ g' = IF outcome = "ok" THEN [NoG EXCEPT !.state = "ok", !.op = g.op, !.got = Read(g.step, g.op)]
                ELSE [NoG EXCEPT !.state = "error", !.op = g.op]
  BY DEF RequestEnds
<1>3. /\ g'.state = IF outcome = "ok" THEN "ok" ELSE "error"
      /\ g'.op = g.op /\ (outcome = "ok" => g'.got = Read(g.step, g.op))
  BY <1>2 DEF NoG
<1>4. /\ \A b \in Bytes : mem'[b] # mem[b] => g.op.dir = "write" /\ b \in Covers(g.op)
      /\ outcome = "ok" =>
           /\ g.op.dir = "write" => \A b \in Covers(g.op) : mem'[b] = 100 + b - g.op.addr
           /\ g.op.dir = "read" => mem' = mem /\ Read(g.step, g.op) = [i \in 1 .. g.op.size |-> mem[g.op.addr + i - 1]]
  <2>1. g.op.name \in Workers \ {"erase", "config"}
    BY <1>1 DEF Workers
  <2> QED
    BY <1>1, <1>2, <2>1, TransferMoves
<1>5. DOMAIN card' = CardFields
  BY <1>1, <1>2, CarryCard
<1>6. ListInv'
  <2> SUFFICES ASSUME status' = "run" PROVE ListInv'
    BY DEF ListInv
  <2>6. UNCHANGED <<env, op>>
    BY <1>1
  <2>7. OpFine(op)
    BY <1>1 DEF MoveInv, ListInv
  <2>1. OpFine(op)' /\ Before(op)' = Before(op) /\ After(op)' = After(op)
    BY <2>6, <2>7, OpKept
  <2>2. ASSUME op.name \in Workers
        PROVE  (op.size # 0 /\ got = <<>> /\ Ahead(op, todo)) \/ (op.size = 0 /\ todo = <<>> /\ got = <<>>)
    BY <1>1, <2>2 DEF MoveInv, ListInv, Finished
  <2>3. CASE op.name \in Workers /\ op.size # 0 /\ got = <<>> /\ Ahead(op, todo)
    <3>1. Ahead(op, todo)'
      BY <1>1, <2>3, AheadKept
    <3> QED
      BY <1>1, <2>1, <2>3, <3>1 DEF ListInv
  <2>4. CASE op.name \in Workers /\ op.size = 0 /\ todo = <<>> /\ got = <<>>
    <3>1. Finished'
      BY <1>1, <2>4 DEF Finished
    <3> QED
      BY <1>1, <2>1, <2>4, <3>1 DEF ListInv
  <2>5. CASE op.name \notin Workers
    <3>1. todo \in Seq(Before(op))
      BY <1>1, <2>5 DEF MoveInv, ListInv
    <3> QED
      BY <1>1, <2>1, <2>5, <3>1 DEF ListInv
  <2> QED
    BY <2>2, <2>3, <2>4, <2>5
<1>7. EraseInv'
  BY <1>1 DEF MoveInv, EraseInv
<1>8. EndlessInv'
  BY <1>1, <1>3 DEF MoveInv, EndlessInv, Infinite
<1>9. BehindInv'
  BY <1>3 DEF BehindInv
<1>10. ASSUME outcome = "ok" PROVE Done(g.op, g.got)'
  <2>1. Covers(g.op)' = Covers(g.op)
    BY <1>3 DEF Covers
  <2>2. g.op.dir \in {"read", "write"}
    BY <1>1 DEF OpFine
  <2>3. CASE g.op.dir = "write"
    BY <1>1, <1>3, <1>4, <1>10, <2>1, <2>3 DEF Done
  <2>4. CASE g.op.dir = "read"
    BY <1>1, <1>3, <1>4, <1>10, <2>4 DEF Done
  <2> QED
    BY <2>2, <2>3, <2>4
<1>11. MoveInv'
  BY <1>1, <1>5, <1>6, <1>7, <1>8, <1>9 DEF MoveInv, driver
<1>12. \A b \in Bytes : mem'[b] # mem[b] => Writes(g.op) /\ b \in Covers(g.op) /\ (env.mmc \/ ~env.protected)
  BY <1>1, <1>4 DEF OpFine, Writes, Workers
<1> QED
  BY <1>3, <1>10, <1>11, <1>12

----------------------------------------------------------------------------
\* What gRequest keeps of an infinite transfer, and where the card goes on.
LEMMA ExecEndless ==
    ASSUME MoveInv, Exec, NEW outcome \in Outcomes(Head(todo)), Carry(Head(todo), op, outcome),
           g' = GAfter(Head(todo), outcome = "ok")
    PROVE  EndlessInv' /\ g'.state \in {"free", "ok", "error"}
<1> DEFINE s == Head(todo)
<1>1. /\ status = "run" /\ todo # <<>> /\ UNCHANGED <<env, op>> /\ DOMAIN card = CardFields
      /\ g.state \in {"free", "ok", "error"} /\ OpFine(op)
  BY DEF MoveInv, BehindInv, ListInv, Exec, AtCommand
<1>2. status' # "run" \/ todo' = Tail(todo)
  BY DEF Exec, Fail, Proceed
<1>3. CASE op.name \in {"infStart", "infContinue"} /\ IsTransfer(s)
  <2>1. s \in Work(op) /\ op.size # 0 /\ Tail(todo) \in Seq(After(op))
    <3>1. \A b \in Before(op) : ~IsTransfer(b)
      BY BeforeQuiet
    <3> QED
      BY <1>1, <1>3, <3>1, Standing DEF MoveInv, Workers
  <2>2. Tail(todo) = <<>>
    BY <1>3, <2>1, AfterIs
  <2>3. op.addr \in Nat /\ op.size \in Nat /\ op.dir \in {"read", "write"}
    BY <1>1, <1>3 DEF OpFine
  <2>4. g' = IF outcome = "ok" THEN [NoG EXCEPT !.state = "ok", !.op = [op EXCEPT !.name = "infStart"]] ELSE NoG
    BY <1>3 DEF GAfter
  <2>5. CASE outcome = "ok"
    <3>1. g'.state = "ok" /\ g'.op = [op EXCEPT !.name = "infStart"]
      BY <2>4, <2>5 DEF NoG
    <3>2. g'.op.addr = op.addr /\ g'.op.size = op.size /\ g'.op.dir = op.dir
      BY <1>1, <3>1 DEF OpFine
    <3>3. Start(s) + s.len * s.count = op.addr + op.size
      <4>1. op.name \in Workers \ {"erase", "config"}
        BY <1>3 DEF Workers
      <4>2. op.name = "infContinue" /\ card.state = "data" => card.at = op.addr
        BY <1>1 DEF MoveInv, EndlessInv
      <4> QED
        BY <1>1, <2>1, <2>5, <4>1, <4>2, TransferMoves
    <3>4. card'.state = "data" => card'.at = op.addr + op.size
      BY <1>1, <1>3, <2>5, <3>3, CarryCard
    <3>5. status' # "run" \/ todo' = <<>>
      BY <1>2, <2>2
    <3> QED
      BY <2>3, <3>1, <3>2, <3>4, <3>5 DEF EndlessInv
  <2>6. CASE outcome # "ok"
    <3>1. g'.state = "free"
      BY <2>4, <2>6 DEF NoG
    <3>2. status' # "run" \/ todo' = <<>>
      BY <1>2, <2>2
    <3> QED
      BY <3>1, <3>2 DEF EndlessInv, Infinite
  <2> QED
    BY <2>5, <2>6
<1>4. CASE op.name = "infFinish"
  <2>1. g'.state = "free"
    BY <1>4 DEF GAfter, NoG
  <2> QED
    BY <1>1, <1>4, <2>1 DEF EndlessInv, Infinite
<1>5. CASE op.name = "infContinue" /\ ~IsTransfer(s)
  <2>1. s \in Work(op) \/ s \in Before(op)
    BY <1>1, <1>5, Standing DEF MoveInv, Workers
  <2> QED
    BY <1>5, <2>1, WorkIs, BeforeQuiet DEF Workers
<1>6. CASE op.name \notin {"infFinish", "infContinue"} /\ ~(op.name = "infStart" /\ IsTransfer(s))
  <2>1. g' = g
    BY <1>6 DEF GAfter
  <2>2. ~Infinite
    BY <1>1, <1>6 DEF MoveInv, EndlessInv
  <2> QED
    BY <1>1, <1>6, <2>1, <2>2 DEF EndlessInv, Infinite
<1> QED
  BY <1>3, <1>4, <1>5, <1>6

\* A command carried out or lost: only the one that does the work touches the memory.
LEMMA ExecMoves ==
    ASSUME MoveInv, Exec
    PROVE  /\ MoveInv'
           /\ \A b \in Bytes : mem'[b] # mem[b] => Writes(op) /\ b \in Covers(op) /\ (env.mmc \/ ~env.protected)
<1> DEFINE s == Head(todo)
           u == Tail(todo)
<1>1. PICK outcome \in Outcomes(s) :
        /\ Carry(s, op, outcome)
        /\ IF outcome = "ok" THEN Proceed /\ got' = got \o Read(s, op) ELSE Fail(s) /\ UNCHANGED got
        /\ DriverAfter(s, outcome = "ok")
        /\ g' = GAfter(s, outcome = "ok")
  BY DEF Exec
<1>2. /\ status = "run" /\ todo # <<>> /\ UNCHANGED <<env, op>> /\ g.state # "pending"
      /\ DOMAIN card = CardFields /\ (ddr => blockSize = Sector) /\ ListInv /\ EraseInv /\ OpFine(op)
  BY DEF Exec, AtCommand, MoveInv, ListInv
<1>3. /\ status' = "run" => todo' = u /\ (outcome = "ok" \/ (~s.strict /\ got' = got))
      /\ outcome = "ok" => todo' = u /\ got' = got \o Read(s, op)
  BY <1>1 DEF Fail, Proceed
<1>4. EndlessInv' /\ g'.state \in {"free", "ok", "error"}
  BY <1>1, ExecEndless
<1>5. BehindInv'
  BY <1>4 DEF BehindInv
<1>6. DOMAIN card' = CardFields
  BY <1>1, <1>2, CarryCard
<1>7. ddr' => blockSize' = Sector
  <2>1. ddr' = ddr /\ (blockSize' = blockSize \/ (outcome = "ok" /\ s.cmd = "length"))
    BY <1>1 DEF DriverAfter
  <2>2. ddr /\ s.cmd = "length" => outcome = "mute"
    BY <1>1 DEF Outcomes, Takes
  <2> QED
    BY <1>2, <2>1, <2>2
<1>8. OpFine(op)' /\ Before(op)' = Before(op) /\ After(op)' = After(op) /\ First(op)' = First(op) /\ Last(op)' = Last(op)
  BY <1>2, OpKept
<1>9. SUFFICES /\ ListInv' /\ EraseInv'
               /\ \A b \in Bytes : mem'[b] # mem[b] => Writes(op) /\ b \in Covers(op) /\ (env.mmc \/ ~env.protected)
  BY <1>4, <1>5, <1>6, <1>7 DEF MoveInv
<1>10. CASE op.name \notin Workers /\ s \in Before(op) /\ u \in Seq(Before(op))
  <2>1. mem' = mem
    BY <1>1, <1>10, BeforeQuiet, QuietKeeps
  <2>2. ListInv'
    BY <1>2, <1>3, <1>8, <1>10 DEF ListInv
  <2>3. EraseInv'
    BY <1>2, <1>10 DEF EraseInv, Workers
  <2> QED
    BY <2>1, <2>2, <2>3
<1>11. CASE op.name \in Workers /\ op.size # 0 /\ got = <<>> /\ s \in Before(op) /\ Ahead(op, todo) /\ Ahead(op, u)
  <2>1. mem' = mem /\ Read(s, op) = <<>>
    BY <1>1, <1>11, BeforeQuiet, QuietKeeps
  <2>2. status' = "run" => got' = <<>>
    <3>1. <<>> \o <<>> = <<>>
      OBVIOUS
    <3> QED
      BY <1>3, <1>11, <2>1, <3>1
  <2>3. ListInv'
    <3>1. status' = "run" => Ahead(op, todo)'
      BY <1>2, <1>3, <1>11, AheadKept
    <3> QED
      BY <1>2, <1>8, <1>11, <2>2, <3>1 DEF ListInv
  <2>4. EraseInv'
    <3> SUFFICES ASSUME status' = "run", op.name = "erase" PROVE EraseInv'
      BY <1>2 DEF EraseInv
    <3>1. s.cmd # "erase"
      BY <1>11, BeforeQuiet
    <3>2. todo' = u /\ (s.cmd \in {"from", "to"} => outcome = "ok")
      BY <1>3, <1>11, EraseOrder
    <3>3. /\ s.cmd = "select" => Head(u).cmd = "from"
          /\ s.cmd = "from" => s.arg = First(op) /\ Head(u).cmd = "to"
          /\ s.cmd = "to" => s.arg = Last(op) /\ Head(u).cmd = "erase"
          /\ s.cmd \in {"select", "from", "to"}
      BY <1>11, <3>1, EraseOrder
    <3>4. s.cmd = "to" => card.from = First(op)
      BY <1>2 DEF EraseInv
    <3>5. outcome = "ok" => /\ card'.from = IF s.cmd = "from" THEN s.arg ELSE card.from
                            /\ card'.to = IF s.cmd = "to" THEN s.arg ELSE card.to
      BY <1>1, <1>2, <3>3, CarryCard
    <3> QED
      BY <1>2, <1>4, <1>8, <3>2, <3>3, <3>4, <3>5 DEF EraseInv
  <2> QED
    BY <2>1, <2>3, <2>4
<1>12. CASE op.name \in Workers /\ op.size # 0 /\ got = <<>> /\ s \in Work(op) /\ Ahead(op, todo) /\ u \in Seq(After(op))
  <2>1. /\ \A b \in Bytes : mem'[b] # mem[b] => op.dir = "write" /\ b \in Covers(op) /\ op.name # "config"
        /\ outcome = "ok" /\ todo' = u /\ got' = got \o Read(s, op) => Finished'
    BY <1>1, <1>4, <1>12, WorkDone
  <2>2. s.strict
    BY <1>12, WorkIs
  <2>3. ListInv'
    BY <1>2, <1>3, <1>8, <1>12, <2>1, <2>2 DEF ListInv
  <2>4. EraseInv'
    <3>1. op.name = "erase" => u = <<>>
      BY <1>12, AfterIs
    <3> QED
      BY <1>2, <1>3, <3>1 DEF EraseInv
  <2>5. \A b \in Bytes : mem'[b] # mem[b] => Writes(op) /\ b \in Covers(op) /\ (env.mmc \/ ~env.protected)
    BY <1>2, <1>12, <2>1 DEF OpFine, Writes, Workers
  <2> QED
    BY <2>3, <2>4, <2>5
<1>13. CASE op.name = "whole" /\ op.size # 0 /\ Finished /\ s.cmd = "stop" /\ u \in Seq(After(op))
  <2>1. mem' = mem /\ Read(s, op) = <<>>
    <3>1. ~IsTransfer(s) /\ s.cmd # "erase"
      BY <1>13 DEF IsTransfer
    <3> QED
      BY <1>1, <3>1, QuietKeeps
  <2>2. ListInv'
    <3>1. ASSUME status' = "run" PROVE Finished'
      <4>1. todo' \in Seq(After(op)) /\ (got' = got \/ got' = got \o <<>>)
        BY <1>3, <1>13, <2>1, <3>1
      <4> QED
        BY <1>2, <1>4, <1>13, <2>1, <4>1, StaysFinished
    <3> QED
      BY <1>2, <1>8, <1>13, <3>1 DEF ListInv, Workers
  <2>3. EraseInv'
    BY <1>2, <1>13 DEF EraseInv
  <2> QED
    BY <2>1, <2>2, <2>3
<1> QED
  BY <1>2, <1>10, <1>11, <1>12, <1>13, Standing

----------------------------------------------------------------------------
\* After the attach nothing is in progress.
LEMMA InitMoves == Init => MoveInv
  BY DEF Init, MoveInv, CardFields, ListInv, EraseInv, EndlessInv, BehindInv, Infinite, NoG

\* A call begins with all of its work ahead, or with nothing to do.
LEMMA CallMoves == ASSUME MoveInv, Call PROVE MoveInv'
<1>1. PICK o \in Calls :
        /\ MayCall(o) /\ o.name # "ddr" /\ op' = o /\ got' = <<>>
        /\ IF Refuses(o) THEN todo' = <<>> /\ status' = "refused"
           ELSE todo' = (IF Nothing(o) THEN <<>> ELSE Commands(o)) /\ status' = "run"
  BY DEF Call
<1>2. status = "idle" /\ UNCHANGED <<env, driver, card, mem, g, doubt>>
  BY DEF Call
<1>3. env' = env /\ g' = g /\ card' = card /\ blockSize' = blockSize /\ ddr' = ddr /\ mem' = mem /\ g'.op = g.op
  BY <1>2 DEF driver
<1>4. BehindInv'
  <2>1. (OpFine(g.op)' <=> OpFine(g.op)) /\ Work(g.op)' = Work(g.op)
    BY <1>3, BehindKept
  <2> QED
    BY <1>3, <2>1 DEF MoveInv, BehindInv
<1>5. EndlessInv'
  <2>1. o.name = "infContinue" => o.addr = g.op.addr + g.op.size
    BY DEF Calls, Operations, Continuation
  <2>2. o.name \in {"infContinue", "infFinish"} <=> Infinite
    BY <1>1 DEF MayCall
  <2>3. Infinite' <=> Infinite
    BY <1>3 DEF Infinite
  <2> QED
    BY <1>1, <1>3, <2>1, <2>2, <2>3 DEF MoveInv, EndlessInv
<1>6. ASSUME status' = "run" PROVE ListInv' /\ EraseInv'
  <2>1. ~Refuses(o)
    BY <1>1, <1>6
  <2>2. OpFine(o)
    BY <1>1, <2>1, CallFine DEF MoveInv
  <2>3. /\ OpFine(op)' /\ (\A t : Ahead(o, t) <=> Ahead(op, t)') /\ Before(op)' = Before(o) /\ op' = o
    <3>1. OpFine(op)' <=> OpFine(o)
      BY <1>1, <1>3 DEF OpFine, Work, First, Last, Argument, Covers, Aimed, Blocks, Scale, IsTransfer
    <3>2. /\ Before(op)' = Before(o) /\ Work(op)' = Work(o) /\ After(op)' = After(o) /\ Erasing(op)' = Erasing(o)
      BY <1>1, <1>3 DEF Work, Before, After, First, Last, Argument, Blocks, Erasing
    <3> QED
      BY <1>1, <2>2, <3>1, <3>2 DEF Ahead
  <2>4. CASE Nothing(o)
    <3>1. o.size = 0 /\ todo' = <<>> /\ o.name \in Workers
      BY <1>1, <2>1, <2>4 DEF Nothing, Workers
    <3>2. Finished'
      BY <1>1, <3>1 DEF Finished
    <3> QED
      BY <1>1, <2>3, <3>1, <3>2 DEF ListInv, EraseInv
  <2>5. CASE ~Nothing(o)
    <3>1. todo' = Commands(o)
      BY <1>1, <2>1, <2>5
    <3>2. CASE o.name \in Workers
      <4>1. Ahead(o, Commands(o))
        BY <3>2, CommandsAhead DEF MoveInv
      <4>2. o.size # 0
        <5>1. Sector \in Nat \ {0}
          BY MemCardAssumption
        <5> QED
          BY <2>5, <3>2, <5>1 DEF Nothing, Workers, Calls, Operations, Continuation
      <4>3. ListInv'
        BY <1>1, <2>3, <3>1, <3>2, <4>1, <4>2 DEF ListInv
      <4>4. EraseInv'
        <5>1. o.name = "erase" => Head(Commands(o)) = Select
          BY DEF Commands, Erase
        <5>2. Select.cmd = "select"
          BY DEF Select, Command
        <5> QED
          BY <1>1, <3>1, <5>1, <5>2 DEF EraseInv
      <4> QED
        BY <4>3, <4>4
    <3>3. CASE o.name \notin Workers
      <4>1. o.name \in {"infFinish", "deselect", "wait"}
        BY <2>2, <3>3 DEF OpFine
      <4>2. Commands(o) \in Seq(Before(o))
        BY <4>1, OthersBefore
      <4> QED
        BY <2>3, <3>1, <3>3, <4>1, <4>2 DEF ListInv, EraseInv
    <3> QED
      BY <3>2, <3>3
  <2> QED
    BY <2>4, <2>5
<1>7. ASSUME status' # "run" PROVE ListInv' /\ EraseInv'
  BY <1>7 DEF ListInv, EraseInv
<1> QED
  BY <1>3, <1>4, <1>5, <1>6, <1>7 DEF MoveInv

LEMMA ModeMoves == ASSUME MoveInv, ChangeMode PROVE MoveInv'
<1>1. /\ status = "idle" /\ blockSize = Sector /\ card' = [card EXCEPT !.len = Sector]
      /\ UNCHANGED <<env, blockSize, isSelected, mem, op, todo, status, got, g, doubt>>
  BY DEF ChangeMode, MayCall
<1>2. (OpFine(g.op)' <=> OpFine(g.op)) /\ Work(g.op)' = Work(g.op)
  BY <1>1, BehindKept
<1>3. BehindInv'
  BY <1>1, <1>2 DEF MoveInv, BehindInv
<1>4. DOMAIN card' = CardFields /\ card'.state = card.state /\ card'.at = card.at
  BY <1>1 DEF MoveInv, CardFields
<1>5. EndlessInv'
  BY <1>1, <1>4 DEF MoveInv, EndlessInv, Infinite
<1>6. ListInv' /\ EraseInv'
  BY <1>1 DEF ListInv, EraseInv
<1> QED
  BY <1>1, <1>3, <1>4, <1>5, <1>6 DEF MoveInv

\* A call that returns is over; the memory is named afresh between calls.
LEMMA ReturnMoves ==
    ASSUME MoveInv, Return
    PROVE  MoveInv' /\ (\A b \in Bytes : mem'[b] \in {mem[b], b}) /\ ~(g.state = "pending" /\ g'.state = "ok")
<1>1. /\ UNCHANGED <<env, driver, card, todo>> /\ (g' = g \/ g' = NoG) /\ (mem' = mem \/ mem' = Named) /\ status' # "run"
  BY DEF Return, MoveInv, BehindInv
<1>2. BehindInv'
  <2>1. CASE g' = g
    <3>1. (OpFine(g.op)' <=> OpFine(g.op)) /\ Work(g.op)' = Work(g.op)
      BY <1>1, <2>1, BehindKept
    <3> QED
      BY <2>1, <3>1 DEF MoveInv, BehindInv
  <2>2. CASE g' = NoG
    BY <2>2 DEF BehindInv, NoG
  <2> QED
    BY <1>1, <2>1, <2>2
<1>3. ListInv' /\ EraseInv'
  BY <1>1 DEF ListInv, EraseInv
<1>4. EndlessInv'
  BY <1>1 DEF MoveInv, EndlessInv, Infinite, NoG
<1>5. \A b \in Bytes : mem'[b] \in {mem[b], b}
  BY <1>1 DEF Named
<1>6. ~(g.state = "pending" /\ g'.state = "ok")
  BY <1>1 DEF NoG
<1>7. DOMAIN card' = CardFields /\ (ddr' => blockSize' = Sector)
  BY <1>1 DEF MoveInv, driver
<1> QED
  BY <1>2, <1>3, <1>4, <1>5, <1>6, <1>7 DEF MoveInv

LEMMA NextMoves == MoveInv /\ [Next]_vars => MoveInv'
<1> SUFFICES ASSUME MoveInv, [Next]_vars PROVE MoveInv'
  OBVIOUS
<1>1. CASE UNCHANGED vars
  <2>1. /\ UNCHANGED <<env, op>> /\ env' = env /\ g' = g /\ card' = card /\ blockSize' = blockSize /\ ddr' = ddr
        /\ mem' = mem /\ op' = op /\ todo' = todo /\ status' = status /\ got' = got
    BY <1>1 DEF vars, driver
  <2>2. /\ (OpFine(g.op)' <=> OpFine(g.op)) /\ Work(g.op)' = Work(g.op)
    BY <2>1, BehindKept
  <2>3. BehindInv'
    BY <2>1, <2>2 DEF MoveInv, BehindInv
  <2>4. /\ (OpFine(op)' <=> OpFine(op)) /\ Before(op)' = Before(op) /\ After(op)' = After(op)
        /\ First(op)' = First(op) /\ Last(op)' = Last(op) /\ Covers(op)' = Covers(op)
    BY <2>1, OpKept
  <2>5. EndlessInv' /\ EraseInv'
    BY <2>1, <2>4 DEF MoveInv, EndlessInv, EraseInv, Infinite
  <2>6. Ahead(op, todo) => Ahead(op, todo)'
    BY <2>1, AheadKept
  <2>7. Finished => Finished'
    BY <2>1, <2>4 DEF Finished, Done
  <2>8. ListInv'
    BY <2>1, <2>4, <2>6, <2>7 DEF MoveInv, ListInv
  <2> QED
    BY <2>1, <2>3, <2>5, <2>8 DEF MoveInv
<1> QED
  BY <1>1, CallMoves, ModeMoves, SkipMoves, BusyMoves, ExecMoves, StartMoves, RequestMoves, ReturnMoves DEF Next

\* What a call transfers or erases lies in the range its caller named, and a card behind the
\* slot's write protection is never written (sdio_memory_card.c's addresses and counts, for
\* either capacity, every block length and every failure).
THEOREM MovesStayInside == Spec => TouchesOnlyAsked
<1>1. MoveInv /\ [Next]_vars =>
        [\A b \in Bytes : mem'[b] \notin {mem[b], b} =>
            /\ env.mmc \/ ~env.protected
            /\ \/ status = "run" /\ Writes(op) /\ b \in Covers(op)
               \/ g.state = "pending" /\ Writes(g.op) /\ b \in Covers(g.op)]_vars
  <2> SUFFICES ASSUME MoveInv, Next, NEW b \in Bytes, mem'[b] \notin {mem[b], b}
               PROVE  /\ env.mmc \/ ~env.protected
                      /\ \/ status = "run" /\ Writes(op) /\ b \in Covers(op)
                         \/ g.state = "pending" /\ Writes(g.op) /\ b \in Covers(g.op)
    OBVIOUS
  <2>1. CASE Exec
    BY <2>1, ExecMoves DEF Exec, AtCommand
  <2>2. CASE RequestEnds
    BY <2>2, RequestMoves DEF RequestEnds
  <2>3. CASE Return
    BY <2>3, ReturnMoves
  <2>4. CASE Call \/ ChangeMode \/ SkipSelect \/ SlotIsBusy \/ StartRequest
    BY <2>4 DEF Call, ChangeMode, SkipSelect, SlotIsBusy, StartRequest
  <2> QED
    BY <2>1, <2>2, <2>3, <2>4 DEF Next
<1> QED
  BY <1>1, InitMoves, NextMoves, PTL DEF Spec, TouchesOnlyAsked

\* A call that returns with all its commands sent has done what it was for.
LEMMA ReturnIsDone ==
    ASSUME MoveInv, status = "run", todo = <<>>
    PROVE  /\ op.name \in {"partial", "whole", "infStart", "infContinue", "erase"} => Done(op, got)
           /\ op.name = "config" => card.locked = (op.dir = "lock")
<1>1. OpFine(op) /\ (op.name \in Workers => Finished)
  BY AheadTail DEF MoveInv, ListInv
<1>2. CASE op.name \in Workers /\ op.size = 0
  <2>1. got = <<>> /\ op.addr \in Nat
    BY <1>1, <1>2 DEF Finished, OpFine
  <2>2. Covers(op) = {}
    BY <1>2, <2>1 DEF Covers
  <2>3. [i \in 1 .. op.size |-> mem[op.addr + i - 1]] = <<>>
    BY <1>2
  <2>4. op.name # "config" /\ op.dir \in {"read", "write"}
    BY <1>1, <1>2 DEF OpFine
  <2>5. CASE op.dir = "write"
    BY <2>2, <2>4, <2>5 DEF Done
  <2>6. CASE op.dir = "read"
    BY <1>1, <2>1, <2>3, <2>4, <2>6 DEF Done, OpFine
  <2> QED
    BY <2>4, <2>5, <2>6
<1>3. CASE op.name \in Workers /\ op.size # 0
  BY <1>1, <1>3 DEF Finished
<1> QED
  BY <1>2, <1>3 DEF Workers

\* Success is reported only of what was done in full, also of a request in the background.
THEOREM SuccessIsDone == Spec => OkMeansDone
<1>1. MoveInv /\ [Next]_vars =>
        [/\ status = "run" /\ status' = "ok" =>
              CASE op.name \in {"partial", "whole", "infStart", "infContinue", "erase"} -> Done(op, got)
                [] op.name = "config" -> card.locked = (op.dir = "lock")
                [] OTHER -> TRUE
         /\ g.state = "pending" /\ g'.state = "ok" => Done(g.op, g.got)']_vars
  <2> SUFFICES ASSUME MoveInv, Next
               PROVE  /\ status = "run" /\ status' = "ok" =>
                            CASE op.name \in {"partial", "whole", "infStart", "infContinue", "erase"} -> Done(op, got)
                              [] op.name = "config" -> card.locked = (op.dir = "lock")
                              [] OTHER -> TRUE
                      /\ g.state = "pending" /\ g'.state = "ok" => Done(g.op, g.got)'
    OBVIOUS
  <2>1. ASSUME status = "run", status' = "ok" PROVE todo = <<>>
    BY <2>1 DEF Next, Call, ChangeMode, SkipSelect, SlotIsBusy, Exec, StartRequest, RequestEnds, Return, Fail, Proceed
  <2>2. ASSUME status = "run", status' = "ok"
        PROVE  CASE op.name \in {"partial", "whole", "infStart", "infContinue", "erase"} -> Done(op, got)
                 [] op.name = "config" -> card.locked = (op.dir = "lock")
                 [] OTHER -> TRUE
    BY <2>1, <2>2, ReturnIsDone
  <2>3. ASSUME g.state = "pending", g'.state = "ok" PROVE Done(g.op, g.got)'
    <3>1. RequestEnds \/ Return
      BY <2>3 DEF Next, Call, ChangeMode, SkipSelect, SlotIsBusy, Exec, StartRequest
    <3> QED
      BY <2>3, <3>1, RequestMoves, ReturnMoves
  <2> QED
    BY <2>2, <2>3
<1> QED
  BY <1>1, InitMoves, NextMoves, PTL DEF Spec, OkMeansDone
====
