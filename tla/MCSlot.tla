---------------------------------- MODULE MCSlot ----------------------------------
(* Small instances of Slot for TLC: model values for the request objects and the *)
(* surroundings of each run.                                                      *)
EXTENDS Slot

CONSTANTS c1, c2, b1, d1, d2, d3, w1

PlainReqs == {c1, c2}
BusyReqs == {b1}
ReadReqs == {d1, d2, d3}
WriteReqs == {w1}
HwCheckedReqs == {d2, d3}
Adma3Reqs == {d3}

\* an interrupt-driven client that issues one request at a time and waits for it
Base == [reqs |-> {c1, d1}, ops |-> {"exec", "wait"}, errors |-> {},
         intEn |-> TRUE, careful |-> TRUE, subCommands |-> FALSE,
         timeouts |-> FALSE, resetFails |-> FALSE, removal |-> FALSE]

Interrupts == [Base EXCEPT !.reqs = {c1, b1, d1}, !.errors = {"ECMD", "EDAT", "RESP"}]
Polled == [Base EXCEPT !.reqs = {c1, b1, d2, w1}, !.intEn = FALSE, !.errors = {"ECMD", "EDAT"}]
AutoCmd12 == [Base EXCEPT !.reqs = {c1, d3}, !.errors = {"ECMD", "EDAT", "EAUTO"}]
Removals == [Base EXCEPT !.ops = {"exec", "wait", "detach", "attach"}, !.errors = {"ECMD", "EDAT"},
                         !.removal = TRUE]
Aborts == [Base EXCEPT !.ops = {"exec", "wait", "abort"}, !.timeouts = TRUE]
BesideAdma3 == [Base EXCEPT !.reqs = {c1, d3}, !.subCommands = TRUE]

\* what goes wrong in these leaves requests without an answer (README), but
\* never a stale pointer nor, where resets succeed, a command on a busy line
Subs == [Base EXCEPT !.subCommands = TRUE, !.errors = {"ECMD", "EDAT"}]
GapAborts == [Base EXCEPT !.ops = {"exec", "wait", "sync"}]
FailedResets == [Base EXCEPT !.reqs = {c1}, !.ops = {"exec", "detach", "attach"},
                             !.errors = {"RESP"}, !.resetFails = TRUE, !.removal = TRUE]
FailedAborts == [Base EXCEPT !.ops = {"exec", "wait", "abort"}, !.resetFails = TRUE]
SafetyEnvs == {Interrupts, Polled, AutoCmd12, Removals, Aborts, BesideAdma3,
               Subs, GapAborts, FailedResets, FailedAborts}

Recovering == [Base EXCEPT !.errors = {"ECMD", "EDAT"}]
SlowCard == [Base EXCEPT !.reqs = {c1}, !.timeouts = TRUE, !.intEn = FALSE]
AutoAlone == [AutoCmd12 EXCEPT !.errors = {"EAUTO"}]
LivenessEnvs == {Recovering, SlowCard, AutoAlone}
====
