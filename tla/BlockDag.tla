------------------------------- MODULE BlockDag -------------------------------
(***************************************************************************)
(* The block DAG of a node that receives every block once, whole, and      *)
(* after its parents: the DAG part of AcceptBlockHeader, AddToBlockIndex   *)
(* and AcceptBlock (src/validation.cpp, src/node/blockstorage.cpp).        *)
(* The blocks are arbitrary: any hash, any parents the header rules allow. *)
(***************************************************************************)
EXTENDS Ghostdag, DagTipSet

CONSTANTS
    Hash,           \* the block hashes, positive numbers
    Genesis,        \* hashGenesisBlock
    MaxDagParents   \* nMaxDagParents: bound on the extra parents of a block

ASSUME HashAssumption == Hash \subseteq Nat \ {NullHash} /\ Genesis \in Hash
ASSUME WorkAssumption == BlockWork \in [Hash -> Nat \ {0}]
ASSUME MaxParentsAssumption == MaxDagParents \in Nat

VARIABLES
    m_block_index,  \* hash -> CBlockIndex fields, for the indexed blocks
    m_dag_tips      \* the DagTipSet

vars == <<m_block_index, m_dag_tips>>

\* Mutant: the height goes the wrong way.
NewIndexBelow(bi, prev, extra) ==
    [pprev |-> prev, vDagParents |-> extra, nHeight |-> bi[prev].nHeight - 1,
     dagData |-> DefaultData, haveData |-> FALSE]

\* CBlockIndex fields of a header that has just been indexed.
NewIndex(bi, prev, extra) ==
    [pprev |-> prev, vDagParents |-> extra, nHeight |-> bi[prev].nHeight + 1,
     dagData |-> DefaultData, haveData |-> FALSE]

\* CBlockIndex::GetAncestor finds a on the pprev chain of b.
OnPrevChain(bi, a, b) ==
    LET on[x \in DOMAIN bi] ==
            x = a \/ (bi[x].nHeight > bi[a].nHeight /\ on[bi[x].pprev])
    IN  on[b]

\* AcceptBlockHeader's rules on the parents of a new block.
HeaderParentsOk(bi, prev, extra) ==
    /\ prev \in DOMAIN bi
    /\ extra \subseteq DOMAIN bi
    /\ Cardinality(extra) <= MaxDagParents
    /\ prev \notin extra
    /\ \A p \in extra : ~(bi[p].nHeight > bi[prev].nHeight /\ OnPrevChain(bi, prev, p))

\* LoadGenesisBlock indexes and stores genesis without AcceptBlock: it is
\* not scored and does not enter the tip set.
Init ==
    /\ m_block_index = [h \in {Genesis} |->
          [pprev |-> NullHash, vDagParents |-> {}, nHeight |-> 0,
           dagData |-> DefaultData, haveData |-> TRUE]]
    /\ m_dag_tips = EmptyTipSet

\* A block is indexed, scored, stored, and replaces its parents as a tip.
AcceptBlock(h, prev, extra) ==
    /\ h \notin DOMAIN m_block_index
    /\ HeaderParentsOk(m_block_index, prev, extra)
    /\ LET bi      == Assign(m_block_index, h, NewIndex(m_block_index, prev, extra))
           parents == Parents(bi, h)
           data    == ComputeGhostdag(bi, parents)
       IN  /\ ~GhostdagFails(bi, parents)
           /\ m_block_index' = Assign(bi, h, [bi[h] EXCEPT !.dagData = data, !.haveData = TRUE])
           /\ m_dag_tips' = BlockConnected(m_dag_tips, h, data.blue_score, parents)

\* GHOSTDAG refuses the block, after its header has been indexed: the header
\* stays, with default data and no body.
RejectBlock(h, prev, extra) ==
    /\ h \notin DOMAIN m_block_index
    /\ HeaderParentsOk(m_block_index, prev, extra)
    /\ LET bi == Assign(m_block_index, h, NewIndex(m_block_index, prev, extra))
       IN  /\ GhostdagFails(bi, Parents(bi, h))
           /\ m_block_index' = bi
    /\ UNCHANGED m_dag_tips

Next ==
    \E h \in Hash, prev \in DOMAIN m_block_index :
        \E extra \in SUBSET (DOMAIN m_block_index \ {prev}) :
            AcceptBlock(h, prev, extra) \/ RejectBlock(h, prev, extra)

Spec == Init /\ [][Next]_vars

---------------------------------------------------------------------------
(* Derived notions.                                                        *)

Accepted == {h \in DOMAIN m_block_index : m_block_index[h].haveData}

\* Reachability through parents, whatever the heights.
Past(bi) ==
    LET past[b \in DOMAIN bi] ==
            UNION {{p} \cup past[p] : p \in Parents(bi, b)}
    IN  past

Data(b) == m_block_index[b].dagData
Score(b) == Data(b).blue_score
Mergeset(b) == Data(b).mergeset_blues \cup Data(b).mergeset_reds

\* The selected-parent chain from b to genesis.
FullChain(b) == SelectedParentChain(m_block_index, b, Cardinality(DOMAIN m_block_index))

\* The blues of b's past: every block of its selected-parent chain above, and
\* the blues each of them and b itself merged.
BluePast(b) ==
    (FullChain(b) \ {b}) \cup UNION {Data(c).mergeset_blues : c \in FullChain(b)}

\* A parent of b is already in the past of b's selected parent.
HasRedundantParent(b) ==
    /\ Data(b).selected_parent # NullHash
    /\ Parents(m_block_index, b) \cap Past(m_block_index)[Data(b).selected_parent] # {}

\* Heights grow along every parent edge, as the pruning in IsBlockAncestor
\* presumes; the header rules do not enforce it.
HeightsMonotone ==
    \A b \in DOMAIN m_block_index : \A p \in Parents(m_block_index, b) :
        m_block_index[p].nHeight < m_block_index[b].nHeight

---------------------------------------------------------------------------
(* Properties.                                                             *)

\* The index holds well-formed entries whose parents are indexed, and the
\* tip set holds scores of indexed hashes.
TypeOK ==
    /\ Genesis \in DOMAIN m_block_index
    /\ DOMAIN m_block_index \subseteq Hash
    /\ IsFiniteSet(DOMAIN m_block_index)
    /\ \A b \in DOMAIN m_block_index :
          /\ m_block_index[b].pprev \in DOMAIN m_block_index \cup {NullHash}
          /\ m_block_index[b].vDagParents \subseteq DOMAIN m_block_index
          /\ m_block_index[b].nHeight \in Nat
          /\ m_block_index[b].haveData \in BOOLEAN
          /\ Score(b) \in Nat
          /\ Data(b).selected_parent \in DOMAIN m_block_index \cup {NullHash}
          /\ Mergeset(b) \subseteq DOMAIN m_block_index
    /\ m_dag_tips.m_score_to_hash \subseteq Nat \X Hash
    /\ DOMAIN m_dag_tips.m_hash_to_score \subseteq DOMAIN m_block_index
    /\ DOMAIN m_dag_tips.m_known_scores \subseteq DOMAIN m_block_index

\* The blue score of an accepted block exceeds that of each of its parents,
\* selected or not, whatever of its mergeset is red.  The sort of a mergeset
\* by blue score is a topological sort only because of this.
ScoreAboveParents ==
    \A b \in Accepted : \A p \in Parents(m_block_index, b) : Score(p) < Score(b)

\* The tip set holds exactly the accepted blocks without an accepted child
\* (genesis, which does not go through AcceptBlock, excepted), though
\* BlockConnected only ever looks at one block and its parents.
TipsAreLeaves ==
    DOMAIN m_dag_tips.m_hash_to_score =
        {b \in Accepted \ {Genesis} :
            ~\E c \in Accepted : b \in Parents(m_block_index, c)}

\* The ordered set and the map of the tip set describe the same tips, with
\* the scores of the block index, and every tip's score is known: the erase
\* in RemoveTip would otherwise miss its pair and leave a removed tip among
\* the mining parents.
TipIndexesAgree ==
    LET map == m_dag_tips.m_hash_to_score IN
    /\ m_dag_tips.m_score_to_hash = {<<map[h], h>> : h \in DOMAIN map}
    /\ \A h \in DOMAIN map : map[h] = Score(h) /\ h \in DOMAIN m_dag_tips.m_known_scores
    /\ \A h \in DOMAIN m_dag_tips.m_known_scores : m_dag_tips.m_known_scores[h] = Score(h)

\* A miner that asks for any number of parents gets a tip whose score no
\* accepted block exceeds: the best block of the DAG is never buried in the
\* tip set or lost from it.
BestBlockIsMinedOn ==
    \A n \in 1..MaxDagParents + 1 : \A b \in Accepted \ {Genesis} :
        \E t \in GetMiningParents(m_dag_tips, n) : Score(b) <= Score(t)
=============================================================================
