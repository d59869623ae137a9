------------------------------- MODULE DagClaims ------------------------------
(***************************************************************************)
(* What comments of src/dag and doc/ghostdag.md say of GHOSTDAG without    *)
(* qualification.  TLC refutes each of them on a small DAG; DagOrder states *)
(* the conditions under which the same statements hold.                    *)
(***************************************************************************)
EXTENDS MCDag

\* ghostdag.h on K: "Maximum anti-cone size for a blue block".  Even where
\* heights grow along every edge and no block
\* has redundant parents, a blue block can have more than K blues in its
\* anticone.  ClassifyMergeset inherits the selected-parent chain but not the
\* blues that chain merged, and never recounts the blues already taken.
BlueAntiConeAtMostK ==
    HeightsMonotone /\ (\A b \in Accepted : ~HasRedundantParent(b)) =>
        \A b \in Accepted : \A x \in BluePast(b) :
            AntiConeBlueCount(m_block_index, x, BluePast(b)) <= K

\* ghostdag.h on blue_work: "accumulated PoW work of blue blocks".  The work
\* of the selected parent itself is never added, genesis left aside.
BlueWorkIsAccumulated ==
    \A b \in Accepted :
        Data(b).blue_work =
            MapThenSumSet(LAMBDA x : BlockWork[x], BluePast(b) \ {Genesis})
=============================================================================
