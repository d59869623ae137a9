------------------------------ MODULE NodeClaims ------------------------------
(* What comments, assertions and help texts say of the node, where the code   *)
(* does something else.                                                       *)
EXTENDS MCNode

Stored == {b \in DOMAIN m_block_index : m_block_index[b].haveData}

\* chain.h says of the GHOSTDAG fields "memory only, rebuilt on load": a
\* stored block other than genesis has a selected parent.
DagDataRebuilt ==
    \A b \in Stored \ {Genesis} : m_block_index[b].dagData.selected_parent # NullHash

\* The extra parents of a block template made now.
TemplateParents == GetMiningParents(m_dag_tips, Cardinality(Hash)) \ {tip}

\* miner.cpp: the selected parent is the chain tip, "additional parents come
\* from concurrent tips in the DAG tipset".
TemplateParentsConcurrent ==
    pc \in Unlocked => \A p \in TemplateParents : InAntiCone(m_block_index, p, tip)

\* AcceptBlock refuses a block when a "Parent exists but is missing GHOSTDAG
\* context (header/body may be incomplete)".
ParentsHaveContext ==
    \A b \in Stored : Parents(m_block_index, b) \subseteq Stored

\* AcceptBlock refuses a block when a "DAG parent is invalid".
NoInvalidDagParent ==
    [][\A b \in DOMAIN m_block_index' :
          m_block_index'[b].haveData /\ b \notin Stored /\ crashes' = crashes =>
              \A p \in m_block_index'[b].vDagParents : ~Failed(m_block_index, p)]_vars
=============================================================================
