------------------------------- MODULE DagTipSet ------------------------------
(***************************************************************************)
(* dag::DagTipSet (src/dag/dagtipset.h, .cpp), the leaves of the block DAG *)
(* a miner refers to, as operators on the value ts of its three members:   *)
(*   m_score_to_hash  set of pairs <<blue score, hash>>                    *)
(*   m_hash_to_score  function from the hashes of the tips to blue scores  *)
(*   m_known_scores   function from hashes to blue scores, tips or not     *)
(***************************************************************************)
EXTENDS Naturals, FiniteSets

CONSTANT KNOWN_SCORES_PRUNE_DEPTH

ASSUME PruneDepthAssumption == KNOWN_SCORES_PRUNE_DEPTH \in Nat

EmptyFcn == [x \in {} |-> 0]

EmptyTipSet == [m_score_to_hash |-> {},
                m_hash_to_score |-> EmptyFcn,
                m_known_scores  |-> EmptyFcn]

\* std::map: assign through operator[], erase by key.
Assign(f, k, v) == [x \in DOMAIN f \cup {k} |-> IF x = k THEN v ELSE f[x]]
Erase(f, S) == [x \in DOMAIN f \ S |-> f[x]]

IsTip(ts, h) == h \in DOMAIN ts.m_hash_to_score

InsertTip(ts, h, score) ==
    [m_score_to_hash |-> ts.m_score_to_hash \cup {<<score, h>>},
     m_hash_to_score |-> Assign(ts.m_hash_to_score, h, score),
     m_known_scores  |-> Assign(ts.m_known_scores, h, score)]

\* Mutant: the pair stays in the ordered set.
RemoveTipsFromMapOnly(ts, S) == [ts EXCEPT !.m_hash_to_score = Erase(@, S)]

\* RemoveTip of every hash in S.
RemoveTips(ts, S) ==
    [m_score_to_hash |-> ts.m_score_to_hash
                         \ {<<ts.m_hash_to_score[h], h>> : h \in {x \in S : IsTip(ts, x)}},
     m_hash_to_score |-> Erase(ts.m_hash_to_score, S),
     m_known_scores  |-> ts.m_known_scores]

\* Known scores far below the best one are dropped unless they are of tips.
PruneKnownScores(ts, best) ==
    IF best <= KNOWN_SCORES_PRUNE_DEPTH THEN ts
    ELSE LET old == {h \in DOMAIN ts.m_known_scores :
                       /\ ts.m_known_scores[h] < best - KNOWN_SCORES_PRUNE_DEPTH
                       /\ ~IsTip(ts, h)}
         IN  [ts EXCEPT !.m_known_scores = Erase(ts.m_known_scores, old)]

\* Mutant: the parents stay tips.
BlockConnectedKeepsParents(ts, h, score, parents) ==
    PruneKnownScores(InsertTip(ts, h, score), score)

\* A block with a child is no longer a tip.
BlockConnected(ts, h, score, parents) ==
    PruneKnownScores(InsertTip(RemoveTips(ts, parents), h, score), score)

\* Mutant: the lower score first.
TipBeforeAscending(p, q) == p[1] < q[1] \/ (p[1] = q[1] /\ p[2] < q[2])

\* TipOrder: higher score first, then lower hash.
TipBefore(p, q) == p[1] > q[1] \/ (p[1] = q[1] /\ p[2] < q[2])

\* The hashes of the first max_parents pairs.
GetMiningParents(ts, max_parents) ==
    {p[2] : p \in {q \in ts.m_score_to_hash :
        Cardinality({r \in ts.m_score_to_hash : TipBefore(r, q)}) < max_parents}}
=============================================================================
