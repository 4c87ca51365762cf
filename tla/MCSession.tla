--------------------------------- MODULE MCSession ---------------------------------
(* Instances of Session for TLC: one slot, one socket. *)
EXTENDS Session

Base == [orderly |-> TRUE, signals |-> TRUE, wake |-> {{"out"}, {"in", "out"}}]
\* A client that keeps the order, with and without CSDD_Start; and one that does not.
AllEnvs == {Base, [Base EXCEPT !.signals = FALSE], [Base EXCEPT !.orderly = FALSE, !.wake = {{"out"}}]}
SignalledEnvs == {Base}
====
