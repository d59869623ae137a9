------------------------------- MODULE DagOrder -------------------------------
(***************************************************************************)
(* What GHOSTDAG computes, compared with reference definitions over every  *)
(* small DAG that BlockDag reaches, and the two orders the library derives *)
(* from it: TopologicalOrder and ComputeVirtualSelectedParentChain         *)
(* (src/dag/ghostdag.cpp).                                                 *)
(***************************************************************************)
EXTENDS BlockDag, Sequences

\* Mutant: the queue is a max-heap.
TopologicalOrderMaxHeap(bi, blocks) ==
    LET order[n \in 0..Cardinality(blocks)] ==
            IF n = 0 THEN <<>>
            ELSE LET placed == {order[n-1][i] : i \in 1..n-1}
                     ready  == {b \in blocks \ placed :
                                  Parents(bi, b) \cap blocks \subseteq placed}
                     best   == CHOOSE b \in ready :
                                  \A c \in ready \ {b} : SortsBefore(bi, c, b)
                 IN  Append(order[n-1], best)
    IN  order[Cardinality(blocks)]

\* Kahn's algorithm with a priority queue: of the blocks whose parents in
\* blocks are all placed, the one that sorts first is placed next.
TopologicalOrder(bi, blocks) ==
    LET order[n \in 0..Cardinality(blocks)] ==
            IF n = 0 THEN <<>>
            ELSE LET placed == {order[n-1][i] : i \in 1..n-1}
                     ready  == {b \in blocks \ placed :
                                  Parents(bi, b) \cap blocks \subseteq placed}
                     best   == CHOOSE b \in ready :
                                  \A c \in ready \ {b} : SortsBefore(bi, b, c)
                 IN  Append(order[n-1], best)
    IN  order[Cardinality(blocks)]

\* From the virtual block's selected parent back toward genesis; max_depth 0
\* is no limit.
VirtualSelectedParentChain(bi, tips, max_depth) ==
    IF tips = {} \/ GhostdagFails(bi, tips) THEN {}
    ELSE SelectedParentChain(bi, ComputeGhostdag(bi, tips).selected_parent,
            IF max_depth = 0 THEN Cardinality(DOMAIN bi) ELSE max_depth)

Tips == DOMAIN m_dag_tips.m_hash_to_score

---------------------------------------------------------------------------
(* Reference definitions hold where the DAG has the shape they presume.    *)


\* Of a block without redundant parents the mergeset is what its past adds
\* to the past of the selected parent.
MergesetExact ==
    HeightsMonotone =>
        \A b \in Accepted \ {Genesis} : ~HasRedundantParent(b) =>
            LET sp == Data(b).selected_parent
            IN  Mergeset(b) = Past(m_block_index)[b] \ (Past(m_block_index)[sp] \cup {sp})


\* Cutting the inherited chain at 2K+1 blocks changes no classification of a
\* block without redundant parents.
TruncationExact ==
    HeightsMonotone =>
        \A b \in Accepted \ {Genesis} : ~HasRedundantParent(b) =>
            Data(b).mergeset_blues =
                ClassifyMergeset(m_block_index, Mergeset(b), FullChain(Data(b).selected_parent))

\* The topological order places every block once and after its parents, and
\* equals the plain sort by (blue score, hash): no block ever waits for a
\* parent with a higher score.
TopologicalOrderExact ==
    LET order == TopologicalOrder(m_block_index, Accepted) IN
    /\ {order[i] : i \in 1..Len(order)} = Accepted
    /\ \A i, j \in 1..Len(order) : i < j =>
          /\ order[j] \notin Parents(m_block_index, order[i])
          /\ SortsBefore(m_block_index, order[i], order[j])

\* The virtual chain starts at the accepted block with the best score and
\* ends at genesis or at a block that was never scored.
VirtualChainFromBest ==
    Tips # {} /\ ~GhostdagFails(m_block_index, Tips) =>
        LET chain == VirtualSelectedParentChain(m_block_index, Tips, 0) IN
        /\ \E b \in chain : \A c \in Accepted : Score(c) <= Score(b)
        /\ \E b \in chain : Data(b).selected_parent = NullHash

=============================================================================
