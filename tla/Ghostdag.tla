------------------------------- MODULE Ghostdag -------------------------------
(***************************************************************************)
(* The GHOSTDAG algorithm of src/dag/ghostdag.cpp over the block index     *)
(* provider of src/dag/ghostdag_blockindex.h, as operators.                *)
(*                                                                         *)
(* Every operator takes the block index bi, a function from the hashes of  *)
(* the indexed blocks to their CBlockIndex fields:                         *)
(*   pprev        hash of pprev, NullHash for genesis                      *)
(*   vDagParents  hashes of the extra parents                              *)
(*   nHeight      height along pprev                                       *)
(*   dagData      GhostdagData, DefaultData for a header without a body    *)
(* A block hash is a number, because the code breaks ties by hash order.   *)
(* Vectors of hashes are sets: the code sorts every one of them by (blue   *)
(* score, hash) before it depends on their order.                          *)
(***************************************************************************)
EXTENDS Naturals, FiniteSets, FiniteSetsExt

CONSTANTS
    K,                  \* ghostdag_k: largest blue anticone of a blue block
    MAX_MERGESET_SIZE,  \* ComputeMergeset gives up at this size
    BlockWork           \* GetBlockProof of a header, by hash

NullHash == 0

ASSUME KAssumption == K \in Nat
ASSUME MergesetCapAssumption == MAX_MERGESET_SIZE \in Nat \ {0}

DefaultData == [blue_score |-> 0, selected_parent |-> NullHash,
                mergeset_blues |-> {}, mergeset_reds |-> {}, blue_work |-> 0]

---------------------------------------------------------------------------
(* The provider: BlockIndexGhostdagProvider.                               *)

\* A hash the index does not hold has no data and counts as score 0.
BlueScore(bi, h) == IF h \in DOMAIN bi THEN bi[h].dagData.blue_score ELSE 0

Parents(bi, h) == ({bi[h].pprev} \ {NullHash}) \cup bi[h].vDagParents


\* The walk only goes on through blocks above the height of the block it
\* looks for, so IsAncestorOf can be FALSE of a block that is reachable.
IsAncestorOf(bi, anc, blk) ==
    LET found[b \in DOMAIN bi] ==
            \/ b = anc
            \/ /\ bi[anc].nHeight <= bi[b].nHeight
               /\ \E p \in Parents(bi, b) :
                     p = anc \/ (bi[p].nHeight > bi[anc].nHeight /\ found[p])
    IN  anc \in DOMAIN bi /\ blk \in DOMAIN bi /\ found[blk]

---------------------------------------------------------------------------
(* GhostdagManager.                                                        *)

\* Mutant: the scores are not compared.
SelectLowestHash(bi, candidates) == CHOOSE b \in candidates : \A c \in candidates : b <= c

\* Highest blue score, ties to the lower hash.
SelectBestParent(bi, candidates) ==
    CHOOSE b \in candidates : \A c \in candidates :
        \/ BlueScore(bi, c) < BlueScore(bi, b)
        \/ BlueScore(bi, c) = BlueScore(bi, b) /\ b <= c

\* Mutant: a window of K blocks.
ShortInheritedDepth == IF K = 0 THEN 1 ELSE K

\* How much of the selected-parent chain is inherited as blue.
InheritedDepth == 2*K + 1

\* The first depth blocks of the selected-parent chain that starts at b.
SelectedParentChain(bi, b, depth) ==
    LET chain[i \in 1..depth] ==
            IF i = 1 THEN b
            ELSE IF chain[i-1] \in DOMAIN bi
                 THEN bi[chain[i-1]].dagData.selected_parent
                 ELSE NullHash
    IN  {chain[i] : i \in 1..depth} \ {NullHash}

\* The blocks the search of ComputeMergeset visits: it starts from the
\* non-selected parents and goes on from every block that is not an ancestor
\* of the selected parent sp.
Visited(bi, parents, sp) ==
    LET visited[n \in 0..Cardinality(DOMAIN bi)] ==
            IF n = 0 THEN parents \ {sp}
            ELSE LET seen == visited[n-1]
                     open == {c \in seen : ~IsAncestorOf(bi, c, sp)}
                 IN  seen \cup UNION {Parents(bi, c) : c \in open}
    IN  visited[Cardinality(DOMAIN bi)]

\* Mutant: the search does not go below the parents.
MergesetOfParents(bi, parents, sp) == parents \ {sp}

\* A parent enters the mergeset unconditionally, a deeper block only when it
\* is not an ancestor of the selected parent.
ComputeMergeset(bi, parents, sp) ==
    {b \in DOMAIN bi \ {sp} :
        \/ b \in parents
        \/ b \in Visited(bi, parents, sp) /\ ~IsAncestorOf(bi, b, sp)}

\* The size is looked at only after a block has been expanded.
MergesetOverflow(bi, parents, sp) ==
    LET mergeset == ComputeMergeset(bi, parents, sp)
    IN  /\ Cardinality(mergeset) >= MAX_MERGESET_SIZE
        /\ \E b \in mergeset : ~IsAncestorOf(bi, b, sp)

\* The order in which the mergeset is sorted.
SortsBefore(bi, a, b) ==
    \/ BlueScore(bi, a) < BlueScore(bi, b)
    \/ BlueScore(bi, a) = BlueScore(bi, b) /\ a < b

InAntiCone(bi, a, b) ==
    a # b /\ ~IsAncestorOf(bi, a, b) /\ ~IsAncestorOf(bi, b, a)

AntiConeBlueCount(bi, block, blues) ==
    Cardinality({b \in blues : InAntiCone(bi, b, block)})

\* The blues of a mergeset: the candidates are tried in sort order, each
\* against the inherited blues and the candidates already taken.  The code
\* keeps both in one vector, so a block that is in both counts twice.
ClassifyMergeset(bi, mergeset, inherited) ==
    LET isBlue[c \in mergeset] ==
            LET taken == {b \in mergeset : SortsBefore(bi, b, c) /\ isBlue[b]}
            IN  AntiConeBlueCount(bi, c, inherited)
                + AntiConeBlueCount(bi, c, taken) <= K
    IN  {c \in mergeset : isBlue[c]}


ChildBlueScore(bi, sp, blues) == BlueScore(bi, sp) + Cardinality(blues) + 1

\* ComputeGhostdag returns std::nullopt.
GhostdagFails(bi, parents) ==
    /\ parents # {}
    /\ LET sp == SelectBestParent(bi, parents)
       IN  \/ ~(SelectedParentChain(bi, sp, InheritedDepth) \subseteq DOMAIN bi)
           \/ MergesetOverflow(bi, parents, sp)

ComputeGhostdag(bi, parents) ==
    IF parents = {} THEN DefaultData
    ELSE LET sp       == SelectBestParent(bi, parents)
             mergeset == ComputeMergeset(bi, parents, sp)
             blues    == ClassifyMergeset(bi, mergeset,
                                          SelectedParentChain(bi, sp, InheritedDepth))
         IN  [blue_score      |-> ChildBlueScore(bi, sp, blues),
              selected_parent |-> sp,
              mergeset_blues  |-> blues,
              mergeset_reds   |-> mergeset \ blues,
              blue_work       |-> bi[sp].dagData.blue_work
                                  + MapThenSumSet(LAMBDA b : BlockWork[b], blues)]
=============================================================================
