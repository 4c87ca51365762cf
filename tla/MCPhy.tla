---------------------------------- MODULE MCPhy ----------------------------------
(* TLC instances of Phy: the registers of the driver, and surroundings for them.   *)
EXTENDS Phy, PhyTables

CONSTANTS l1, l2

MCTable == PhyTable
MCLines == {l1, l2}

Base == [ops |-> [t \in Threads |-> {}], serial |-> TRUE, uis |-> FALSE, slow |-> FALSE,
         narrow |-> {}, calls |-> 2]
Alone(ops) == [Base EXCEPT !.ops[1] = ops]

\* Every operation by itself and with those that share a register with it.
SharedEnvs == {Alone({p}) : p \in DOMAIN MCTable}
   \cup {Alone({"WrRdDeskewCmd", "WrRdDeskewCmdExt"}), Alone({"CtrlMain", "CtrlLowFreqSel"}),
         Alone({"WrDeskewPdCtrl0Dq0", "WrDeskewPdCtrl0Dqx"})}
\* Calls of two threads, one at a time or on registers of their own.
Pair(p, q) == [Base EXCEPT !.ops = <<p, q>>]
ThreadEnvs ==
   {[Pair({"Lvsi", "DfiRd"}, {"ExtMode", "SdclkAdj", "DllReset"}) EXCEPT !.slow = TRUE, !.calls = 3],
    [Pair({"Lvsi"}, {"SdclkAdj", "IoDelay"}) EXCEPT !.serial = FALSE, !.calls = 3],
    [Pair({"DllReset"}, {"OutputDelay"}) EXCEPT !.serial = FALSE],
    Pair({"CtrlMain", "CtrlLowFreqSel"}, {"Tsel", "Gpio0"})}
UisEnvs ==
   {[Base EXCEPT !.uis = TRUE, !.slow = s, !.narrow = n, !.calls = 3] : s \in BOOLEAN, n \in {{}, {l1}}}
AllEnvs == SharedEnvs \cup ThreadEnvs \cup UisEnvs
==================================================================================
