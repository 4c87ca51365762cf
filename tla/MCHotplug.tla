--------------------------------- MODULE MCHotplug ---------------------------------
(* Instances of Hotplug for TLC: one slot, one socket. *)
EXTENDS Hotplug

Base == [signals |-> TRUE, calm |-> TRUE, bounce |-> FALSE, faults |-> FALSE,
         ops |-> {"attach"}, moves |-> 4]

\* Cards move at rest; commands may fail; the client attaches after the callback,
\* polls, or detaches by hand as well.
Calm == {[Base EXCEPT !.faults = TRUE],
         Base,
         [Base EXCEPT !.faults = TRUE, !.ops = {"attach", "detach"}],
         [Base EXCEPT !.signals = FALSE, !.ops = {"check"}],
         [Base EXCEPT !.signals = FALSE, !.ops = {"check"}, !.faults = TRUE]}
\* Cards come and go in the middle of an attach and their contacts shake.
Wild == {[Base EXCEPT !.calm = FALSE, !.bounce = TRUE, !.faults = TRUE, !.ops = {"attach", "check"}, !.moves = 3],
         [Base EXCEPT !.calm = FALSE, !.bounce = TRUE, !.ops = {"check"}, !.signals = FALSE]}
AllEnvs == Calm \cup Wild
====
