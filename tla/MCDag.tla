-------------------------------- MODULE MCDag ---------------------------------
(* Small instances of BlockDag and DagOrder for TLC.                          *)
EXTENDS DagOrder

\* Works that tell the blocks apart.
SomeWork == [h \in Hash |-> h]

Unused == Hash \ DOMAIN m_block_index

\* New blocks take the lowest or the highest free hash: a block can still get
\* a hash on either side of any other, in far fewer labellings.
NextExtremeHash ==
    \E h \in {Min(Unused), Max(Unused)}, prev \in DOMAIN m_block_index :
        \E extra \in SUBSET (DOMAIN m_block_index \ {prev}) :
            AcceptBlock(h, prev, extra) \/ RejectBlock(h, prev, extra)

SpecExtremeHash == Init /\ [][Unused # {} /\ NextExtremeHash]_vars
=============================================================================
