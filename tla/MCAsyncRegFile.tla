--------------------------- MODULE MCAsyncRegFile ---------------------------
(* A small register file: a two-bit generator and one seed; the            *)
(* synchronisers have the code's four stages.                              *)
EXTENDS AsyncRegFile

MCTaps      == {0, 1}
MCSeeds     == {[i \in Bits |-> i = 1]}
MCNoisy     == {"as", "ws_n"}
MCResetWord == [i \in Bits |-> TRUE]
=============================================================================
