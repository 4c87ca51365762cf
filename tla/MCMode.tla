----------------------------------- MODULE MCMode -----------------------------------
(* Instances of Mode for TLC: a base clock of 54 units, which is the last divider of either *)
(* search for a frequency asked, and one more is asked that no divider reaches; five delays. *)
EXTENDS Mode

Sd == [type |-> "sd", caps |-> {"SDR12", "SDR25", "SDR50", "SDR104"}, uhs |-> {"SDR50", "SDR104", "DDR50"},
       tune50 |-> TRUE, s18 |-> TRUE, cmd6 |-> TRUE, clock |-> "8", asked |-> {2, 4, 7, 54}, faults |-> {},
       ops |-> {"attach", "high", "mode", "width", "strength", "tune"}]
Mmc == [Sd EXCEPT !.type = "mmc", !.caps = MmcModes, !.s18 = FALSE]
Sd33 == [Sd EXCEPT !.s18 = FALSE, !.faults = {"lost", "mute", "refused"}]
SdOld == [Sd33 EXCEPT !.cmd6 = FALSE, !.ops = {"attach", "high", "mode", "clock"}]
SdFailing == [Sd EXCEPT !.tune50 = FALSE, !.faults = {"mute", "lost", "stuck"},
                        !.ops = {"attach", "high", "mode", "width", "tune"}]
MmcFailing == [Mmc EXCEPT !.faults = {"mute", "lost", "stuck", "refused"}, !.ops = {"attach", "high", "mode", "width"}]
\* One card after another, where the first has left no mode or strength behind (README).
Swapped == [Sd EXCEPT !.ops = {"attach", "detach", "width", "clock"}]
\* A clock that may be multiplied: the last divider of ten bits makes 3 units, that of the
\* programmable clock 6; 18 needs an odd divider, which has no field.
Multiplied == [Sd33 EXCEPT !.clock = "10", !.asked = {2, 3, 5, 6, 18, 54}, !.ops = {"attach", "generator", "clock"}]
AllEnvs == {Sd, Mmc, Sd33, SdOld, SdFailing, MmcFailing, Swapped, Multiplied}

ASSUME InstanceSuits == KeepsCard
====
