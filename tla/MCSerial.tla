------------------------------ MODULE MCSerial ------------------------------
(* A small instance of Serial: a ring of three bytes of two kinds, two writers,
   three buffers, texts of two characters. *)
EXTENDS Serial, TLC

CONSTANTS w1, w2, d1, d2, d3

MCWriters == {w1, w2}
MCBuffers == {d1, d2, d3}
MCTexts == {<<"x", "nl">>, <<"nl", "x">>, <<"nl", "nl">>}

\* Both sides by interrupts or both by DMA: they do not know each other's mode.
MCInit == SerialInit /\ dmaRx = dmaTx
MCSpec == MCInit /\ [][SerialNext]_serialVars

\* Writers and buffers play equal parts.
MCSymmetry == Permutations(MCWriters) \cup Permutations(MCBuffers)
=============================================================================
