----------------------------------- MODULE Phy -----------------------------------
(* Access to the PHY.  The combo PHY of hosts from version 6 on: getters and       *)
(* setters of ccp.c, each a read-modify-write of a register reached through an     *)
(* address and a data port, and those of sdio_phy.c, which go to the host's own    *)
(* registers.  The older PHY: a request and acknowledge handshake in HRS04, one    *)
(* delay line at a time.  A register is the set of its bits that are 1.            *)
EXTENDS Naturals, Sequences, FiniteSets

CONSTANTS Table,     \* the operations and the fields they write: PhyTable
          Envs,      \* surroundings a behaviour picks one of
          Lines      \* delay lines of the older PHY

(* env.ops: the operations each thread calls; env.serial: the client lets one call   *)
(* run at a time; env.uis: the host has the older PHY; env.slow: a handshake may     *)
(* time out; env.narrow: lines that keep one bit only; env.calls: bound on calls.    *)
Threads == {1, 2}
ASSUME EnvsAssumption ==
    \A e \in Envs : /\ e.ops \in [Threads -> SUBSET DOMAIN Table]
                    /\ e.serial \in BOOLEAN /\ e.uis \in BOOLEAN /\ e.slow \in BOOLEAN
                    /\ e.narrow \subseteq Lines /\ e.calls \in Nat

DllReg == "dll_obs_0"
Registers == UNION {{Table[op].parts[i].reg : i \in DOMAIN Table[op].parts} : op \in DOMAIN Table}

VARIABLES env, calls,
          regs,       \* the registers
          ready,      \* PHY_INIT_COMPLETE, which the hardware keeps
          port,       \* HRS04 as the address port of the combo PHY
          thr,        \* what each thread is doing
          asked,      \* ghost: what each setter was last told, while it lasts
          base,       \* ghost: the registers' initial bits
          uis,        \* HRS04 of the older PHY and the call that uses it
          delays      \* the older PHY's delay lines

combo == <<regs, ready, port, thr, asked>>
older == <<uis, delays>>
vars == <<env, calls, combo, base, older>>

----------------------------------------------------------------------------
(* Fields *)

Bits(n) == {b \in 0 .. 31 : b < n}
Span(f) == {b \in 0 .. 31 : f[1] <= b /\ b < f[1] + f[2]}

\* mutant: a value that is too wide runs into the next field.
FldWriteSpills(reg, f, v) == (reg \ Span(f)) \cup {b \in 0 .. 31 : b >= f[1] /\ b - f[1] \in v}

\* CPS_FldWrite masks what does not fit.
FldWrite(reg, f, v) == (reg \ Span(f)) \cup {b \in Span(f) : b - f[1] \in v}
\* mutant: the mask is one bit short.
FldReadShort(reg, f) == {b \in 0 .. 31 : b + 1 < f[2] /\ b + f[1] \in reg}
FldRead(reg, f) == {b \in 0 .. 31 : b < f[2] /\ b + f[1] \in reg}

Fields(op) == UNION {DOMAIN Table[op].parts[i].fields : i \in DOMAIN Table[op].parts}
Limit(op, m) == IF m \in DOMAIN Table[op].limits THEN Table[op].limits[m] ELSE Table[op].bits
Accepted(op, v) == \A m \in Fields(op) : v[m] \subseteq Bits(Limit(op, m))
FieldOf(op, m) ==
    LET i == CHOOSE j \in DOMAIN Table[op].parts : m \in DOMAIN Table[op].parts[j].fields
    IN  Table[op].parts[i].fields[m]
\* The value is no wider than the field that keeps it.
Fits(op, v) == \A m \in Fields(op) : v[m] \subseteq Bits(FieldOf(op, m)[2])

\* The registers an operation works on, the bits of one of them that a part of it keeps, and
\* the pointers its handler follows.
RegsOf(op) == {Table[op].parts[i].reg : i \in DOMAIN Table[op].parts}
Kept(op, i) == UNION {Span(Table[op].parts[i].fields[m]) : m \in DOMAIN Table[op].parts[i].fields}
Follows(op, kind) ==
    IF kind = "set" /\ op \in {"Gpio0", "Gpio1", "DllReset", "ExtMode", "SdclkAdj"} THEN {"pD"} ELSE {"pD", "value"}

\* What the tables of the driver have in common, and all that the properties need of them: an
\* operation works on one register, or on two of the host's own; its members have fields within
\* the word that do not overlap, and neither do those of two setters; what is written unread
\* keeps the whole register; the pointers that are followed are checked.
PartsSuit(op) ==
    LET parts == Table[op].parts
    IN  /\ DOMAIN parts = 1 .. Len(parts) /\ Len(parts) \in 1 .. 2
        /\ ~Table[op].direct => Len(parts) = 1
        /\ \A i, j \in DOMAIN parts :
              i # j => /\ parts[i].reg # parts[j].reg
                       /\ DOMAIN parts[i].fields \cap DOMAIN parts[j].fields = {}
        /\ \A i \in DOMAIN parts :
              /\ Table[op].blind => Kept(op, i) = 0 .. 31
              /\ \A m, n \in DOMAIN parts[i].fields :
                    LET f == parts[i].fields[m]
                    IN  /\ f[1] \in 0 .. 31 /\ f[2] \in Nat /\ f[1] + f[2] <= 32
                        /\ m # n => Span(f) \cap Span(parts[i].fields[n]) = {}
Setters == {op \in DOMAIN Table : "set" \in Table[op].kinds}
ASSUME TableAssumption ==
    /\ \A op \in DOMAIN Table :
          /\ PartsSuit(op) /\ Table[op].direct \in BOOLEAN /\ Table[op].blind \in BOOLEAN
          /\ \A kind \in Table[op].kinds : kind \in {"set", "get"} /\ Follows(op, kind) \subseteq Table[op].checked[kind]
    /\ \A p, q \in Setters : p # q =>
          \A i \in DOMAIN Table[p].parts, j \in DOMAIN Table[q].parts :
             Table[p].parts[i].reg = Table[q].parts[j].reg => Kept(p, i) \cap Kept(q, j) = {}
    /\ \A op \in Setters : DllReg \notin RegsOf(op)
    /\ "DllObsReg0" \in DOMAIN Table => ~Table["DllObsReg0"].direct
    /\ "DllReset" \in DOMAIN Table => "HRS09" \in RegsOf("DllReset")
ASSUME LinesAssumption == IsFiniteSet(Lines) /\ Lines # {}

\* The register after the fields of one part are written.
Merge(reg, part, v) ==
    {b \in 0 .. 31 :
        \/ \E m \in DOMAIN part.fields : b \in FldWrite({}, part.fields[m], v[m])
        \/ b \in reg /\ \A m \in DOMAIN part.fields : b \notin Span(part.fields[m])}

Zero(op) == [m \in Fields(op) |-> {}]
Full(op) == [m \in Fields(op) |-> Bits(Limit(op, m))]
\* What callers pass: nothing, all that is accepted, one member of it, one bit too many.
Values(op) ==
    {Zero(op), Full(op)}
    \cup {[Zero(op) EXCEPT ![m] = Bits(Limit(op, m))] : m \in Fields(op)}
    \cup {[Zero(op) EXCEPT ![m] = {Limit(op, m)}] : m \in DOMAIN Table[op].limits}

----------------------------------------------------------------------------
(* The combo PHY *)

Free == [at |-> "idle", op |-> "none", kind |-> "none", val |-> <<>>, null |-> "none",
         part |-> 1, work |-> {}, got |-> <<>>, status |-> "ok"]
NoUis == [at |-> "idle", todo |-> <<>>, want |-> <<>>, call |-> "none", line |-> "none",
          req |-> "none", ack |-> FALSE, addr |-> "none", wdata |-> 0, rdata |-> 0,
          got |-> 0, status |-> "none", late |-> FALSE]

Init ==
    /\ env \in Envs /\ calls = 0
    /\ \E b \in {{}, 0 .. 31} : base = [r \in Registers |-> b]
    /\ regs = base /\ ready = FALSE /\ port = "none"
    /\ thr = [t \in Threads |-> Free] /\ asked = <<>>
    /\ uis = NoUis /\ delays = [l \in Lines |-> 0]

Reg(t) == Table[thr[t].op].parts[thr[t].part].reg
\* The register an access reaches: the one the address port names.
Place(t) == IF Table[thr[t].op].direct THEN Reg(t) ELSE port
Set(t, r) == thr' = [thr EXCEPT ![t] = r]

Rejects(op, kind, val, null) ==
    \/ null \in Table[op].checked[kind]
    \/ kind = "set" /\ ~Accepted(op, val)

\* A call of a getter or of a setter; the checks come first.
Call(t) ==
    /\ ~env.uis /\ calls < env.calls /\ thr[t].at = "idle"
    /\ env.serial => \A u \in Threads : thr[u].at = "idle"
    /\ \E op \in env.ops[t], kind \in {"set", "get"} :
       /\ kind \in Table[op].kinds
       /\ \E val \in IF kind = "set" THEN Values(op) ELSE {Zero(op)}, null \in {"none", "pD", "value"} :
          /\ null # "none" => val = Zero(op)
          /\ ~Rejects(op, kind, val, null)
          /\ Set(t, [Free EXCEPT !.op = op, !.kind = kind, !.val = val, !.null = null,
                                 !.at = IF Table[op].direct THEN "read"
                                        ELSE IF kind = "set" /\ Table[op].blind THEN "aim" ELSE "point"])
    /\ calls' = calls + 1
    /\ UNCHANGED <<env, regs, ready, port, asked, base, older>>

\* readPhyReg writes the address first, writePhyReg does so again.
Point(t) ==
    /\ thr[t].at \in {"point", "aim", "verify"}
    /\ port' = Reg(t)
    /\ thr[t].at # "verify" =>
          Set(t, [thr[t] EXCEPT !.at = IF @ = "point" THEN "read" ELSE "write"])
    /\ thr[t].at = "verify" => Set(t, [thr[t] EXCEPT !.at = "next"])
    /\ UNCHANGED <<env, calls, regs, ready, asked, base, older>>

Read(t) ==
    /\ thr[t].at = "read"
    /\ Set(t, [thr[t] EXCEPT
                 !.work = IF thr[t].kind = "set"
                          THEN Merge(regs[Place(t)], Table[thr[t].op].parts[thr[t].part], thr[t].val)
                          ELSE regs[Place(t)],
                 !.at = IF thr[t].kind = "get" THEN "next" ELSE IF thr[t].kind = "wait" THEN "poll"
                        ELSE IF Table[thr[t].op].direct THEN "write" ELSE "aim"])
    /\ UNCHANGED <<env, calls, regs, ready, port, asked, base, older>>

Blind(t) == Merge({}, Table[thr[t].op].parts[thr[t].part], thr[t].val)

Write(t) ==
    /\ thr[t].at = "write"
    /\ regs' = [regs EXCEPT ![Place(t)] = IF Table[thr[t].op].blind THEN Blind(t) ELSE thr[t].work]
    /\ ready' = (ready /\ (Place(t) = "HRS09" => 0 \in thr[t].work))
    /\ Set(t, [thr[t] EXCEPT !.at = IF Table[thr[t].op].direct THEN "next" ELSE "verify"])
    /\ UNCHANGED <<env, calls, port, asked, base, older>>

\* DLLReset(false): the reset is released.
Released(t) == thr[t].op = "DllReset" /\ thr[t].val["release"] # {}

\* The next register of the operation, or its end.
Step(t) ==
    /\ thr[t].at = "next"
    /\ LET part == Table[thr[t].op].parts[thr[t].part]
           got == [m \in DOMAIN thr[t].got \cup DOMAIN part.fields |->
                     IF m \in DOMAIN part.fields THEN FldRead(thr[t].work, part.fields[m]) ELSE thr[t].got[m]]
           more == thr[t].part < Len(Table[thr[t].op].parts)
       IN  /\ Set(t, [thr[t] EXCEPT !.got = IF thr[t].kind = "get" THEN got ELSE @,
                                    !.part = IF more THEN @ + 1 ELSE @,
                                    !.work = {},
                                    !.at = IF more THEN "read"
                                           ELSE IF Released(t) THEN "await" ELSE "done"])
           /\ asked' = IF thr[t].kind = "set" /\ ~more
                       THEN [op \in DOMAIN asked \cup {thr[t].op} |->
                               IF op = thr[t].op THEN thr[t].val ELSE asked[op]]
                       ELSE asked
    /\ UNCHANGED <<env, calls, regs, ready, port, base, older>>

Return(t) ==
    /\ thr[t].at = "done"
    /\ Set(t, Free)
    /\ UNCHANGED <<env, calls, regs, ready, port, asked, base, older>>

\* CCP_WaitForDllLock polls the lock bit until it is set or the time is over.
CallWait(t) ==
    /\ ~env.uis /\ calls < env.calls /\ thr[t].at = "idle" /\ "DllObsReg0" \in env.ops[t]
    /\ env.serial => \A u \in Threads : thr[u].at = "idle"
    /\ Set(t, [Free EXCEPT !.op = "DllObsReg0", !.kind = "wait", !.at = "point"])
    /\ calls' = calls + 1
    /\ UNCHANGED <<env, regs, ready, port, asked, base, older>>

Lock == DllReg \in Registers /\ 0 \notin regs[DllReg]
        /\ \E t \in Threads : thr[t].kind = "wait"
        /\ regs' = [regs EXCEPT ![DllReg] = @ \cup {0}]
        /\ base' = [base EXCEPT ![DllReg] = @ \cup {0}]
        /\ UNCHANGED <<env, calls, ready, port, thr, asked, older>>

Poll(t) ==
    /\ thr[t].at = "poll"
    /\ \/ 0 \notin thr[t].work /\ Set(t, [thr[t] EXCEPT !.at = "point"])
       \/ Set(t, [thr[t] EXCEPT !.at = "done", !.got = FldRead(thr[t].work, <<0, 1>>)])
    /\ UNCHANGED <<env, calls, regs, ready, port, asked, base, older>>

\* SDIO_CPhy_DLLReset waits for the end of the initialisation, which the hardware starts.
Await(t) ==
    /\ thr[t].at = "await"
    /\ \/ ready /\ Set(t, [thr[t] EXCEPT !.at = "done"])
       \/ env.slow /\ ~ready /\ Set(t, [thr[t] EXCEPT !.at = "done", !.status = "timeout"])
    /\ UNCHANGED <<env, calls, regs, ready, port, asked, base, older>>

Ready ==
    /\ "HRS09" \in Registers /\ 0 \in regs["HRS09"] /\ ~ready
    /\ \E t \in Threads : thr[t].at = "await"
    /\ ready' = TRUE
    /\ UNCHANGED <<env, calls, regs, port, thr, asked, base, older>>

----------------------------------------------------------------------------
(* The older PHY *)

UisFree == uis.at = "idle" /\ calls < env.calls /\ env.uis
Older == UNCHANGED <<env, combo, base>>
Idx == CHOOSE s \in [1 .. Cardinality(Lines) -> Lines] : \A i, j \in DOMAIN s : s[i] = s[j] => i = j
Begin(call, todo, want) ==
    /\ uis' = [uis EXCEPT !.at = "free", !.call = call, !.todo = todo, !.want = want, !.status = "none"]
    /\ calls' = calls + 1 /\ UNCHANGED delays /\ Older

\* CSDD_WritePhySet, CSDD_ReadPhySet and CSDD_PhySettingsSd4: what is to be written and read.
CallWritePhySet == UisFree /\ \E l \in Lines, v \in 1 .. 3 : Begin("write", <<<<"write", l>>>>, [x \in {l} |-> v])
CallReadPhySet == UisFree /\ \E l \in Lines : Begin("read", <<<<"read", l>>>>, <<>>)
CallPhySettings ==
    UisFree /\ \E want \in [Lines -> 1 .. 3] :
        Begin("settings", [i \in DOMAIN Idx |-> <<"write", Idx[i]>>]
                          \o [i \in DOMAIN Idx |-> <<"read", Idx[i]>>], want)

Finish(status) == [uis EXCEPT !.at = "idle", !.todo = <<>>, !.status = status]
What == Head(uis.todo)
Uis(r) == uis' = r /\ UNCHANGED <<calls, delays>> /\ Older

\* Wait until the last acknowledge is gone, set address and data, raise the request.
UisWait == uis.at = "free" /\ ~uis.ack /\ Uis([uis EXCEPT !.at = "put"])
UisPut ==
    /\ uis.at = "put"
    /\ Uis([uis EXCEPT !.at = "raise", !.req = "none", !.addr = What[2],
                       !.wdata = IF What[1] = "write" THEN uis.want[What[2]] ELSE 0])
UisRaise == uis.at = "raise" /\ Uis([uis EXCEPT !.at = "acked", !.req = What[1]])

\* Acknowledged: take the data, clear the request, go on; a line that reads back wrong ends the settings.
UisTake ==
    /\ uis.at = "acked" /\ uis.ack
    /\ LET wrong == uis.call = "settings" /\ What[1] = "read" /\ uis.rdata # uis.want[What[2]]
           done == [uis EXCEPT !.req = "none", !.addr = "none", !.wdata = 0,
                               !.got = IF What[1] = "read" THEN uis.rdata ELSE @]
       IN  Uis(IF wrong \/ Len(uis.todo) = 1
               THEN [done EXCEPT !.at = "idle", !.todo = <<>>, !.line = What[2], !.status = "ok"]
               ELSE [done EXCEPT !.at = "free", !.todo = Tail(uis.todo)])

\* Neither wait is longer than COMMANDS_TIMEOUT; the request stays as it is.
UisTimeout ==
    /\ env.slow
    /\ (uis.at = "free" /\ uis.ack) \/ (uis.at = "acked" /\ ~uis.ack)
    /\ Uis([Finish("timeout") EXCEPT !.late = TRUE])

\* The PHY serves a raised request and drops the acknowledge with it.
UisServe ==
    /\ uis.req # "none" /\ ~uis.ack
    /\ uis' = [uis EXCEPT !.ack = TRUE, !.rdata = IF uis.req = "read" THEN delays[uis.addr] ELSE @]
    /\ delays' = IF uis.req = "write"
                 THEN [delays EXCEPT ![uis.addr] = IF uis.addr \in env.narrow THEN uis.wdata % 2 ELSE uis.wdata]
                 ELSE delays
    /\ UNCHANGED calls /\ Older
UisDrop == uis.req = "none" /\ uis.ack /\ Uis([uis EXCEPT !.ack = FALSE])

----------------------------------------------------------------------------

Next ==
    \/ \E t \in Threads : Call(t) \/ Point(t) \/ Read(t) \/ Write(t) \/ Step(t) \/ Return(t)
                          \/ CallWait(t) \/ Poll(t) \/ Await(t)
    \/ Lock \/ Ready
    \/ CallWritePhySet \/ CallReadPhySet \/ CallPhySettings
    \/ UisWait \/ UisPut \/ UisRaise \/ UisTake \/ UisTimeout \/ UisServe \/ UisDrop

Spec == Init /\ [][Next]_vars

----------------------------------------------------------------------------
(* Properties *)

\* Nobody else changes the registers an operation works on.
Undisturbed ==
    \/ env.serial
    \/ \A p \in env.ops[1], q \in env.ops[2] :
          Table[p].direct /\ Table[q].direct /\ RegsOf(p) \cap RegsOf(q) = {}

\* What the setters were told, in the fields they own, and the initial bits elsewhere.
Expected(r) ==
    {b \in 0 .. 31 :
       LET owners == {o \in (DOMAIN asked) \X (1 .. 2) :
                        /\ o[2] \in DOMAIN Table[o[1]].parts
                        /\ Table[o[1]].parts[o[2]].reg = r
                        /\ \E m \in DOMAIN Table[o[1]].parts[o[2]].fields :
                              b \in Span(Table[o[1]].parts[o[2]].fields[m])}
       IN  IF owners = {} THEN b \in base[r]
           ELSE \A o \in owners : \E m \in DOMAIN Table[o[1]].parts[o[2]].fields :
                  LET f == Table[o[1]].parts[o[2]].fields[m]
                  IN  b \in Span(f) /\ b - f[1] \in asked[o[1]][m]}

\* After any calls the registers hold what each setter was told last, in its own fields,
\* and every other bit as it was: two setters of one register (the deskew and control
\* registers of ccp.c, HRS09 and HRS10 of sdio_phy.c) do not undo each other, a value that
\* is wider than its field does not spill over, and no access goes to another register.
FieldsAsAsked ==
    Undisturbed /\ (\A t \in Threads : thr[t].at = "idle") => \A r \in Registers : regs[r] = Expected(r)

\* A getter returns what the setter of the same structure was told, if the value fits its
\* fields.
GetReturnsSet ==
    \A t \in Threads :
        LET op == thr[t].op
        IN  (Undisturbed /\ thr[t].at = "done" /\ thr[t].kind = "get" /\ op \in DOMAIN asked
             /\ Fits(op, asked[op])) => thr[t].got = asked[op]

\* The structures' pointers are checked before they are used: none of the calls that get
\* through has a NULL among the pointers its handler follows.
NoNullUse ==
    \A t \in Threads : thr[t].at # "idle" => thr[t].null \notin Follows(thr[t].op, thr[t].kind)

\* The older PHY: while no call has timed out, a write that succeeded is in the delay line,
\* a read that succeeded returned it, and settings that succeeded are in every line that can
\* hold them; a reset of the combo PHY that was released with success is over.
OkIsDone ==
    /\ uis.status = "ok" /\ ~uis.late =>
         CASE uis.call = "write" -> uis.line \notin env.narrow => delays[uis.line] = uis.want[uis.line]
           [] uis.call = "read" -> uis.got = delays[uis.line]
           [] OTHER -> \A l \in Lines \ env.narrow : delays[l] = uis.want[l]
    /\ \A t \in Threads :
         (thr[t].at = "done" /\ thr[t].op = "DllReset" /\ thr[t].status = "ok" /\ Undisturbed /\ Released(t)) => ready

\* No call follows a NULL pointer; a getter returns what was set; success is true.
AnswersAreTrue == NoNullUse /\ GetReturnsSet /\ OkIsDone

==================================================================================
