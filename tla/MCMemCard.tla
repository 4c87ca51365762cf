--------------------------------- MODULE MCMemCard ---------------------------------
(* Instances of MemCard for TLC: three sectors of four bytes, words of two, addresses   *)
(* that just reach.                                                                     *)
EXTENDS MemCard

Base == [high |-> FALSE, mmc |-> FALSE, cmd23 |-> FALSE, protected |-> FALSE, partial |-> TRUE, misalign |-> TRUE,
         autoCmd |-> FALSE, dma |-> "other", ops |-> {"whole", "partial", "erase", "deselect"}, faults |-> {}]
Sd == Base
HighSd == [Base EXCEPT !.high = TRUE, !.cmd23 = TRUE]
Protected == [Base EXCEPT !.protected = TRUE]
Mmc == [Base EXCEPT !.mmc = TRUE, !.misalign = FALSE, !.cmd23 = TRUE, !.protected = TRUE,
                    !.ops = {"whole", "partial", "config", "ddr"}]
Endless == [Base EXCEPT !.ops = {"infStart", "infContinue", "infFinish", "partial"}]
Background == [Base EXCEPT !.autoCmd = TRUE, !.ops = {"nonBlock", "wait", "partial", "whole"}]
Counted == [Background EXCEPT !.high = TRUE, !.cmd23 = TRUE, !.dma = "sdma", !.ops = {"nonBlock", "wait", "whole"}]
\* ADMA3, the automatic choice of a version 6 host: the host stops, or counts a second time.
Adma3 == [Base EXCEPT !.dma = "adma3", !.ops = {"whole", "partial", "erase"}]
Adma3Counted == [Adma3 EXCEPT !.cmd23 = TRUE, !.high = TRUE]
Adma3Background == [Background EXCEPT !.dma = "adma3", !.cmd23 = TRUE]
Failing == [Base EXCEPT !.faults = {"mute", "lost", "cut"}, !.ops = {"whole", "partial", "erase"}]
FailingInBackground == [Background EXCEPT !.faults = {"mute", "cut"}, !.ops = {"nonBlock", "wait", "whole"}]
EndlessFailing == [Endless EXCEPT !.high = TRUE, !.faults = {"mute", "cut"}]
AllEnvs == {EndlessFailing, Sd, HighSd, Protected, Mmc, Endless, Background, Counted, Adma3, Adma3Counted,
            Adma3Background, Failing, FailingInBackground}
====
