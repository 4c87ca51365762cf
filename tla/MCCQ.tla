----------------------------------- MODULE MCCQ -----------------------------------
(* Small instances of CQ for TLC: model values for the request objects and the   *)
(* surroundings of each run.                                                      *)
EXTENDS CQ, TLC

CONSTANTS r1, r2, d1

OneRequest == {r1}
TwoRequests == {r1, r2}
OneDcmd == {d1}
Symmetry == Permutations({r1, r2})

\* a careful client, interrupts that are taken at once, a halt that is in time
Env(ops, errors) == [ops |-> ops, errors |-> errors, careful |-> TRUE, promptIrq |-> TRUE,
                     promptClear |-> TRUE, haltTimeouts |-> FALSE]

Basic == {"enable", "attach", "start"}

Discards == Env(Basic \cup {"discard", "discardAll", "halt"}, {"data"})
Switches == Env(Basic \cup {"disable", "dcmd", "dcmdcfg", "coal", "coalReset"}, {"data"})

\* halts that take too long; interrupts that are taken late
SlowHalts == [Env(Basic \cup {"discard"}, {"data", "cmd"}) EXCEPT !.haltTimeouts = TRUE]
LateIrqs == [Env(Basic \cup {"discard"}, {"data"}) EXCEPT !.promptIrq = FALSE]
SafetyEnvs == {Discards, Switches, SlowHalts, LateIrqs}

Coalesced == Env(Basic \cup {"dcmd", "dcmdcfg", "coal"}, {})
Responses == Env(Basic \cup {"discard"}, {"resp"})
LivenessEnvs == {Coalesced, Responses}
====
