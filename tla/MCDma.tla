---------------------------------- MODULE MCDma ----------------------------------
(* Small instances of Dma for TLC: a descriptor moves 4 or 6 words, SDMA stops    *)
(* every 4 words, 16 words are the "4 GiB" an address word can say, and a list of *)
(* 4 pieces is too long.                                                          *)
EXTENDS Dma

Data(count, len, buffer) ==
    [data |-> TRUE, count |-> count, len |-> len, buffer |-> buffer, subs |-> <<>>]
List(count, len, subBuffers) == [Data(count, len, 30) EXCEPT !.subs = subBuffers]
Piece(a, n) == [address |-> a, size |-> n]
NoData == [Data(0, 0, 0) EXCEPT !.data = FALSE]

\* version 4 hosts: a word, a short block, a block across boundaries, data that is
\* exactly two pieces, three, and more than the sub-buffers can take
Narrow == [dma64 |-> FALSE, long |-> FALSE, caps |-> {"sdma", "adma2"},
           modes |-> {"auto", "none", "sdma", "adma2"},
           requests |-> {<<Data(1, 1, 1)>>, <<Data(1, 3, 2)>>, <<Data(1, 7, 3)>>,
                         <<Data(2, 4, 5)>>, <<Data(3, 3, 1)>>, <<Data(2, 7, 1)>>}]
\* buffers beyond the reach of a 32-bit register
Beyond == [Narrow EXCEPT !.caps = {"sdma"}, !.modes = {"auto", "none", "sdma"},
                         !.requests = {<<Data(1, 3, 17)>>, <<Data(1, 3, 2)>>}]
\* lists of sub-buffers, where a mode for them can be chosen
Lists == [Narrow EXCEPT !.modes = {"auto", "sdma", "adma2"},
                        !.requests = {<<List(2, 3, <<Piece(9, 4), Piece(1, 2)>>)>>,
                                      <<List(2, 1, <<Piece(3, 2)>>)>>}]
\* 64-bit addresses: a buffer across the 4 GiB line, unaligned ones, a list that
\* does not fit
Wide == [Narrow EXCEPT !.dma64 = TRUE,
                       !.requests = {<<Data(2, 4, 14)>>, <<Data(1, 3, 15)>>, <<Data(3, 3, 2)>>}]
\* version 6 hosts: ADMA3 with several commands
Chains == [Narrow EXCEPT !.long = TRUE, !.caps = {"sdma", "adma2", "adma3"},
                         !.modes = {"auto", "adma3"},
                         !.requests = {<<Data(2, 3, 2)>>, <<Data(2, 3, 2), NoData>>,
                                       <<Data(2, 1, 2), NoData, Data(2, 4, 5)>>,
                                       <<Data(2, 7, 1), Data(2, 7, 1), NoData>>,
                                       <<Data(2, 1, 2), Data(2, 0, 4)>>,
                                       <<Data(2, 1, 2), NoData, NoData, NoData>>}]
WideAlone == [Chains EXCEPT !.dma64 = TRUE,
                            !.requests = {<<Data(2, 4, 14)>>, <<Data(2, 1, 2)>>}]
TransferEnvs == {Narrow, Beyond, Lists, Wide, Chains, WideAlone}
\* none of them asks for what the theorems about the data moved leave out
ASSUME InstanceSuits == \A e \in TransferEnvs : Suits(e)

\* ADMA3 with 64-bit addresses: a write, a command without data and a read
WideChain == {[WideAlone EXCEPT !.requests = {<<Data(2, 1, 2), NoData, Data(2, 1, 4)>>}]}
====
