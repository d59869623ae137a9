---------------------------- MODULE BlockDag_proofs ----------------------------
(***************************************************************************)
(* Proofs about BlockDag for every K, every cap, every set of hashes and   *)
(* every DAG: typing, growth of the blue score along parent edges, and     *)
(* exactness of the tip set.                                               *)
(***************************************************************************)
EXTENDS BlockDag, FiniteSetTheorems, WellFoundedInduction, TLAPS

\* A non-empty set of naturals has a least element.
LEMMA NatMin ==
    ASSUME NEW S \in SUBSET Nat, S # {}
    PROVE  \E m \in S : \A x \in S : m <= x
<1> DEFINE Less == {ss \in Nat \X Nat : ss[1] < ss[2]}
<1>1. IsWellFoundedOn(Less, Nat)
  BY NatLessThanWellFounded, Zenon DEF OpToRel
<1>2. PICK m \in S : \A y \in S : ~(<<y, m>> \in Less)
  <2> HIDE DEF Less
  <2> QED BY <1>1, WFMin
<1>3. ASSUME NEW x \in S PROVE m <= x
  <2>1. m \in Nat /\ x \in Nat /\ <<x, m>> \notin Less
    BY <1>2
  <2>2. ~(<<x, m>>[1] < <<x, m>>[2])
    BY <2>1
  <2> QED BY <2>1, <2>2
<1> QED BY <1>3

\* A non-empty finite set of naturals has a greatest element: a smallest
\* set without one would lose nothing by losing an element.
LEMMA FiniteMax ==
    ASSUME NEW S \in SUBSET Nat, IsFiniteSet(S), S # {}
    PROVE  \E m \in S : \A x \in S : x <= m
<1> DEFINE HasMax(U) == \E m \in U : \A x \in U : x <= m
           Bad == {U \in SUBSET S : U # {} /\ ~HasMax(U)}
           Sizes == {Cardinality(U) : U \in Bad}
<1>1. \A U \in SUBSET S : IsFiniteSet(U) /\ Cardinality(U) \in Nat
  BY FS_Subset, FS_CardinalityType
<1>2. SUFFICES ASSUME Bad # {} PROVE FALSE
  OBVIOUS
<1>3. Sizes \subseteq Nat /\ Sizes # {}
  BY <1>1, <1>2
<1>4. PICK n \in Sizes : \A k \in Sizes : n <= k
  <2> HIDE DEF Sizes
  <2> QED BY <1>3, NatMin
<1>5. PICK U \in Bad : Cardinality(U) = n
  BY <1>4
<1>6. PICK u \in U : TRUE
  BY <1>5
<1> DEFINE V == U \ {u}
<1>7. Cardinality(V) = Cardinality(U) - 1 /\ V \subseteq S
  BY <1>1, <1>5, <1>6, FS_RemoveElement
<1>8. V \notin Bad
  <2>1. SUFFICES ASSUME V \in Bad PROVE FALSE
    OBVIOUS
  <2>2. Cardinality(V) \in Sizes
    BY <2>1
  <2>3. n <= Cardinality(U) - 1 /\ n = Cardinality(U) /\ n \in Nat
    BY <1>3, <1>4, <1>5, <1>7, <2>2
  <2> QED BY <2>3
<1>9. CASE V = {}
  <2>1. u \in Nat /\ \A x \in U : x = u
    BY <1>5, <1>6, <1>9
  <2> QED BY <1>5, <1>6, <2>1
<1>10. CASE V # {}
  <2>1. PICK m \in V : \A x \in V : x <= m
    BY <1>7, <1>8, <1>10
  <2>2. m \in Nat /\ u \in Nat /\ m \in U /\ U \subseteq Nat
    BY <1>5, <1>6, <2>1
  <2>3. CASE u <= m
    <3>1. \A x \in U : x <= m
      BY <2>1, <2>3
    <3> QED BY <1>5, <2>2, <3>1
  <2>4. CASE ~(u <= m)
    <3>1. \A x \in U : x <= u
      BY <2>1, <2>2, <2>4
    <3> QED BY <1>5, <1>6, <3>1
  <2> QED BY <2>3, <2>4
<1> QED BY <1>9, <1>10

---------------------------------------------------------------------------
(* GHOSTDAG.                                                               *)

\* SelectBestParent returns one of the candidates, and none has a higher
\* blue score.
LEMMA BestParent ==
    ASSUME NEW bi, NEW P \in SUBSET Nat, IsFiniteSet(P), P # {},
           \A p \in P : BlueScore(bi, p) \in Nat
    PROVE  /\ SelectBestParent(bi, P) \in P
           /\ \A p \in P : BlueScore(bi, p) <= BlueScore(bi, SelectBestParent(bi, P))
<1> DEFINE score == [p \in P |-> BlueScore(bi, p)]
           Scores == {score[p] : p \in P}
           Best(b) == \A c \in P : \/ BlueScore(bi, c) < BlueScore(bi, b)
                                   \/ BlueScore(bi, c) = BlueScore(bi, b) /\ b <= c
<1>1. IsFiniteSet(Scores) /\ Scores \in SUBSET Nat /\ Scores # {}
  <2>1. score \in Surjection(P, Scores)
    BY DEF Surjection
  <2>2. IsFiniteSet(Scores)
    <3> HIDE DEF Scores, score
    <3> QED BY <2>1, FS_Surjection
  <2> QED BY <2>2
<1>2. PICK m \in Scores : \A x \in Scores : x <= m
  <2> HIDE DEF Scores
  <2> QED BY <1>1, FiniteMax
<1> DEFINE Top == {p \in P : BlueScore(bi, p) = m}
<1>3. Top \in SUBSET Nat /\ Top # {}
  BY <1>2
<1>4. PICK b \in Top : \A c \in Top : b <= c
  <2> HIDE DEF Top
  <2> QED BY <1>3, NatMin
<1>5. \A c \in P : BlueScore(bi, c) <= m /\ m \in Nat
  BY <1>1, <1>2
<1>6. Best(b) /\ b \in P
  BY <1>4, <1>5
<1>7. SelectBestParent(bi, P) \in P /\ Best(SelectBestParent(bi, P))
  <2>1. SelectBestParent(bi, P) = CHOOSE x \in P : Best(x)
    BY DEF SelectBestParent
  <2> HIDE DEF Best
  <2> QED BY <1>6, <2>1
<1> QED BY <1>7

\* The blues of a mergeset are blocks of the mergeset.
LEMMA BluesInMergeset ==
    ASSUME NEW bi, NEW M, NEW inherited
    PROVE  ClassifyMergeset(bi, M, inherited) \subseteq M
BY DEF ClassifyMergeset

\* What ComputeGhostdag returns for parents of known score.
LEMMA GhostdagResult ==
    ASSUME NEW bi, IsFiniteSet(DOMAIN bi), DOMAIN bi \subseteq Nat,
           NEW P \in SUBSET DOMAIN bi, P # {},
           \A p \in P : BlueScore(bi, p) \in Nat
    PROVE  LET d == ComputeGhostdag(bi, P) IN
           /\ d.blue_score \in Nat
           /\ \A p \in P : BlueScore(bi, p) < d.blue_score
           /\ d.selected_parent \in P
           /\ d.mergeset_blues \cup d.mergeset_reds \subseteq DOMAIN bi
<1> DEFINE sp == SelectBestParent(bi, P)
           M == ComputeMergeset(bi, P, sp)
           blues == ClassifyMergeset(bi, M, SelectedParentChain(bi, sp, InheritedDepth))
           d == ComputeGhostdag(bi, P)
<1>1. IsFiniteSet(P) /\ P \in SUBSET Nat
  BY FS_Subset
<1>2. sp \in P /\ \A p \in P : BlueScore(bi, p) <= BlueScore(bi, sp)
  BY <1>1, BestParent
<1>3. M \subseteq DOMAIN bi
  BY DEF ComputeMergeset
<1>4. blues \subseteq M
  BY BluesInMergeset
<1>5. Cardinality(blues) \in Nat
  BY <1>3, <1>4, FS_Subset, FS_CardinalityType
<1>6. /\ d.blue_score = BlueScore(bi, sp) + Cardinality(blues) + 1
      /\ d.selected_parent = sp
      /\ d.mergeset_blues = blues
      /\ d.mergeset_reds = M \ blues
  BY DEF ComputeGhostdag, ChildBlueScore
<1> HIDE DEF sp, M, blues, d
<1>7. /\ d.blue_score \in Nat
      /\ \A p \in P : BlueScore(bi, p) < d.blue_score
  BY <1>2, <1>5, <1>6
<1>8. d.mergeset_blues \cup d.mergeset_reds \subseteq DOMAIN bi
  BY <1>3, <1>4, <1>6
<1> QED BY <1>2, <1>6, <1>7, <1>8 DEF d

---------------------------------------------------------------------------
(* The steps of BlockDag.                                                  *)

\* The fields of the index entry that AddToBlockIndex makes.
LEMMA NewEntry ==
    ASSUME NEW bi, NEW h, NEW prev, NEW extra, h \notin DOMAIN bi
    PROVE  LET new == Assign(bi, h, NewIndex(bi, prev, extra)) IN
           /\ DOMAIN new = DOMAIN bi \cup {h}
           /\ \A b \in DOMAIN bi : new[b] = bi[b]
           /\ new[h] = NewIndex(bi, prev, extra)
           /\ Parents(new, h) = ({prev} \ {NullHash}) \cup extra
           /\ \A b \in DOMAIN bi : Parents(new, b) = Parents(bi, b)
           /\ \A b \in DOMAIN bi : BlueScore(new, b) = BlueScore(bi, b)
BY DEF Assign, NewIndex, Parents, BlueScore

\* The parents a header rule lets through are non-empty and indexed.
LEMMA ParentsIndexed ==
    ASSUME TypeOK, NEW prev, NEW extra, HeaderParentsOk(m_block_index, prev, extra)
    PROVE  /\ prev \in DOMAIN m_block_index /\ extra \subseteq DOMAIN m_block_index
           /\ prev # NullHash
           /\ ({prev} \ {NullHash}) \cup extra = {prev} \cup extra
           /\ {prev} \cup extra \subseteq DOMAIN m_block_index
BY HashAssumption DEF HeaderParentsOk, TypeOK

\* The four invariants are inductive only together: a score is compared with
\* the parents' only when the parents are indexed (TypeOK), the tips are the
\* leaves only when RemoveTip finds them (TipIndexesAgree).
GenesisIsRoot == Parents(m_block_index, Genesis) = {}

IInv == TypeOK /\ ScoreAboveParents /\ TipsAreLeaves /\ TipIndexesAgree /\ GenesisIsRoot

\* What AcceptBlock does to the index.
LEMMA AcceptBlockIndex ==
    ASSUME TypeOK, NEW h \in Hash, NEW prev, NEW extra, AcceptBlock(h, prev, extra)
    PROVE  /\ h \notin DOMAIN m_block_index
           /\ prev \in DOMAIN m_block_index /\ prev # NullHash
           /\ extra \subseteq DOMAIN m_block_index
           /\ DOMAIN m_block_index' = DOMAIN m_block_index \cup {h}
           /\ \A b \in DOMAIN m_block_index : m_block_index'[b] = m_block_index[b]
           /\ m_block_index'[h].pprev = prev
           /\ m_block_index'[h].vDagParents = extra
           /\ m_block_index'[h].nHeight = m_block_index[prev].nHeight + 1
           /\ m_block_index'[h].haveData = TRUE
           /\ Score(h)' \in Nat
           /\ \A p \in {prev} \cup extra : Score(p) < Score(h)'
           /\ Data(h)'.selected_parent \in {prev} \cup extra
           /\ Mergeset(h)' \subseteq DOMAIN m_block_index'
           /\ m_dag_tips' = BlockConnected(m_dag_tips, h, Score(h)', {prev} \cup extra)
<1> DEFINE bi == Assign(m_block_index, h, NewIndex(m_block_index, prev, extra))
           P == Parents(bi, h)
           data == ComputeGhostdag(bi, P)
<1>1. /\ h \notin DOMAIN m_block_index
      /\ HeaderParentsOk(m_block_index, prev, extra)
      /\ m_block_index' = Assign(bi, h, [bi[h] EXCEPT !.dagData = data, !.haveData = TRUE])
      /\ m_dag_tips' = BlockConnected(m_dag_tips, h, data.blue_score, P)
  BY DEF AcceptBlock
<1>2. /\ prev \in DOMAIN m_block_index /\ extra \subseteq DOMAIN m_block_index
      /\ prev # NullHash
      /\ {prev} \cup extra \subseteq DOMAIN m_block_index
  BY <1>1, ParentsIndexed
<1>3. /\ DOMAIN bi = DOMAIN m_block_index \cup {h}
      /\ \A b \in DOMAIN m_block_index : bi[b] = m_block_index[b]
      /\ bi[h] = NewIndex(m_block_index, prev, extra)
      /\ P = {prev} \cup extra
      /\ \A b \in DOMAIN m_block_index : BlueScore(bi, b) = BlueScore(m_block_index, b)
  <2>1. /\ DOMAIN bi = DOMAIN m_block_index \cup {h}
        /\ \A b \in DOMAIN m_block_index : bi[b] = m_block_index[b]
        /\ bi[h] = NewIndex(m_block_index, prev, extra)
        /\ P = ({prev} \ {NullHash}) \cup extra
        /\ \A b \in DOMAIN m_block_index : BlueScore(bi, b) = BlueScore(m_block_index, b)
    BY <1>1, NewEntry
  <2> QED BY <2>1, <1>1, ParentsIndexed
<1>4. /\ data.blue_score \in Nat
      /\ \A p \in P : BlueScore(bi, p) < data.blue_score
      /\ data.selected_parent \in P
      /\ data.mergeset_blues \cup data.mergeset_reds \subseteq DOMAIN bi
  <2>1. IsFiniteSet(DOMAIN bi) /\ DOMAIN bi \subseteq Nat
    BY <1>3, FS_AddElement, HashAssumption DEF TypeOK
  <2>2. P \in SUBSET DOMAIN bi /\ P # {}
    BY <1>2, <1>3
  <2>3. \A p \in P : BlueScore(bi, p) \in Nat
    BY <1>2, <1>3 DEF TypeOK, BlueScore, Score, Data
  <2> HIDE DEF bi, P
  <2> QED BY <2>1, <2>2, <2>3, GhostdagResult
<1>5. \A p \in P : BlueScore(bi, p) = Score(p)
  BY <1>2, <1>3 DEF BlueScore, Score, Data
<1> HIDE DEF bi, P, data
<1>6. /\ DOMAIN m_block_index' = DOMAIN m_block_index \cup {h}
      /\ \A b \in DOMAIN m_block_index : m_block_index'[b] = m_block_index[b]
      /\ m_block_index'[h] = [bi[h] EXCEPT !.dagData = data, !.haveData = TRUE]
  BY <1>1, <1>3 DEF Assign
<1>7. /\ m_block_index'[h].pprev = prev
      /\ m_block_index'[h].vDagParents = extra
      /\ m_block_index'[h].nHeight = m_block_index[prev].nHeight + 1
      /\ m_block_index'[h].haveData = TRUE
      /\ m_block_index'[h].dagData = data
  BY <1>3, <1>6 DEF NewIndex
<1>8. Score(h)' = data.blue_score /\ Data(h)' = data
  BY <1>7 DEF Score, Data
<1>9. Mergeset(h)' \subseteq DOMAIN m_block_index'
  BY <1>3, <1>4, <1>6, <1>8 DEF Mergeset
<1> QED BY <1>1, <1>2, <1>3, <1>4, <1>5, <1>6, <1>7, <1>8, <1>9

\* What BlockConnected does to the three members of a tip set: the parents P
\* leave it, h enters it with its score, and no tip loses its known score.
ConnectedTips(ts, new, h, score, P) ==
    /\ DOMAIN new.m_hash_to_score = (DOMAIN ts.m_hash_to_score \ P) \cup {h}
    /\ new.m_hash_to_score[h] = score
    /\ \A x \in DOMAIN ts.m_hash_to_score \ P :
          x # h => new.m_hash_to_score[x] = ts.m_hash_to_score[x]
    /\ \A e : e \in new.m_score_to_hash <=>
          \/ e = <<score, h>>
          \/ /\ e \in ts.m_score_to_hash
             /\ ~\E x \in P \cap DOMAIN ts.m_hash_to_score :
                   e = <<ts.m_hash_to_score[x], x>>
    /\ DOMAIN new.m_known_scores \subseteq DOMAIN ts.m_known_scores \cup {h}
    /\ \A x \in DOMAIN new.m_known_scores :
          new.m_known_scores[x] = IF x = h THEN score ELSE ts.m_known_scores[x]
    /\ \A x \in DOMAIN ts.m_known_scores \cup {h} :
          x \in DOMAIN new.m_hash_to_score => x \in DOMAIN new.m_known_scores

LEMMA BlockConnectedMembers ==
    ASSUME NEW ts, NEW h, NEW score \in Nat, NEW P, h \notin P,
           NEW new, new = BlockConnected(ts, h, score, P)
    PROVE  ConnectedTips(ts, new, h, score, P)
<1> DEFINE ins == InsertTip(RemoveTips(ts, P), h, score)
<1>1. /\ DOMAIN ins.m_hash_to_score = (DOMAIN ts.m_hash_to_score \ P) \cup {h}
      /\ ins.m_hash_to_score[h] = score
      /\ \A x \in DOMAIN ts.m_hash_to_score \ P :
            x # h => ins.m_hash_to_score[x] = ts.m_hash_to_score[x]
  BY DEF InsertTip, RemoveTips, Assign, Erase
<1>2. \A e : e \in ins.m_score_to_hash <=>
          \/ e = <<score, h>>
          \/ /\ e \in ts.m_score_to_hash
             /\ ~\E x \in P \cap DOMAIN ts.m_hash_to_score :
                   e = <<ts.m_hash_to_score[x], x>>
  BY DEF InsertTip, RemoveTips, IsTip
<1>3. /\ DOMAIN ins.m_known_scores = DOMAIN ts.m_known_scores \cup {h}
      /\ \A x \in DOMAIN ins.m_known_scores :
            ins.m_known_scores[x] = IF x = h THEN score ELSE ts.m_known_scores[x]
  BY DEF InsertTip, RemoveTips, Assign
<1>4. new = PruneKnownScores(ins, score)
  BY DEF BlockConnected
<1>5. ins = [m_score_to_hash |-> ins.m_score_to_hash,
             m_hash_to_score |-> ins.m_hash_to_score,
             m_known_scores  |-> ins.m_known_scores]
  BY DEF InsertTip
<1> HIDE DEF ins
<1>6. PICK old : /\ old \subseteq DOMAIN ins.m_known_scores
                 /\ \A x \in old : ~IsTip(ins, x)
                 /\ new.m_known_scores = Erase(ins.m_known_scores, old) \/
                    (old = {} /\ new.m_known_scores = ins.m_known_scores)
                 /\ new.m_hash_to_score = ins.m_hash_to_score
                 /\ new.m_score_to_hash = ins.m_score_to_hash
  <2>1. CASE score <= KNOWN_SCORES_PRUNE_DEPTH
    <3>1. new = ins
      BY <1>4, <2>1 DEF PruneKnownScores
    <3> WITNESS {}
    <3> QED BY <3>1
  <2>2. CASE ~(score <= KNOWN_SCORES_PRUNE_DEPTH)
    <3> DEFINE o == {x \in DOMAIN ins.m_known_scores :
                       /\ ins.m_known_scores[x] < score - KNOWN_SCORES_PRUNE_DEPTH
                       /\ ~IsTip(ins, x)}
    <3>1. new = [ins EXCEPT !.m_known_scores = Erase(ins.m_known_scores, o)]
      BY <1>4, <2>2 DEF PruneKnownScores
    <3>2. /\ new.m_known_scores = Erase(ins.m_known_scores, o)
          /\ new.m_hash_to_score = ins.m_hash_to_score
          /\ new.m_score_to_hash = ins.m_score_to_hash
      <4> HIDE DEF o
      <4> QED BY <3>1, <1>5
    <3> WITNESS o
    <3> QED BY <3>2
  <2> QED BY <2>1, <2>2
<1>7. /\ DOMAIN new.m_known_scores = DOMAIN ins.m_known_scores \ old
      /\ \A x \in DOMAIN new.m_known_scores : new.m_known_scores[x] = ins.m_known_scores[x]
  BY <1>6 DEF Erase
<1>8. \A x \in DOMAIN ts.m_known_scores \cup {h} :
          x \in DOMAIN new.m_hash_to_score => x \in DOMAIN new.m_known_scores
  BY <1>3, <1>6, <1>7 DEF IsTip
<1>9. /\ DOMAIN new.m_known_scores \subseteq DOMAIN ts.m_known_scores \cup {h}
      /\ \A x \in DOMAIN new.m_known_scores :
            new.m_known_scores[x] = IF x = h THEN score ELSE ts.m_known_scores[x]
  BY <1>3, <1>7
<1> QED BY <1>1, <1>2, <1>6, <1>8, <1>9 DEF ConnectedTips

LEMMA InitIInv == Init => IInv
<1> SUFFICES ASSUME Init PROVE IInv
  OBVIOUS
<1>1. /\ DOMAIN m_block_index = {Genesis}
      /\ m_block_index[Genesis] = [pprev |-> NullHash, vDagParents |-> {}, nHeight |-> 0,
                                   dagData |-> DefaultData, haveData |-> TRUE]
  BY DEF Init
<1>2. /\ m_dag_tips.m_score_to_hash = {}
      /\ DOMAIN m_dag_tips.m_hash_to_score = {}
      /\ DOMAIN m_dag_tips.m_known_scores = {}
  BY DEF Init, EmptyTipSet, EmptyFcn
<1>3. TypeOK
  <2>1. IsFiniteSet({Genesis}) /\ Genesis \in Hash
    BY FS_Singleton, HashAssumption
  <2>2. /\ Score(Genesis) = 0 /\ Data(Genesis).selected_parent = NullHash
        /\ Mergeset(Genesis) = {}
    BY <1>1 DEF Score, Data, Mergeset, DefaultData
  <2>3. /\ m_block_index[Genesis].pprev = NullHash
        /\ m_block_index[Genesis].vDagParents = {}
        /\ m_block_index[Genesis].nHeight = 0
        /\ m_block_index[Genesis].haveData = TRUE
    BY <1>1
  <2>4. /\ m_dag_tips.m_score_to_hash \subseteq Nat \X Hash
        /\ DOMAIN m_dag_tips.m_hash_to_score \subseteq DOMAIN m_block_index
        /\ DOMAIN m_dag_tips.m_known_scores \subseteq DOMAIN m_block_index
    BY <1>2
  <2>5. m_block_index[Genesis].haveData \in BOOLEAN
    BY <2>3, Zenon
  <2>6. ASSUME NEW b \in DOMAIN m_block_index
        PROVE  /\ m_block_index[b].pprev \in DOMAIN m_block_index \cup {NullHash}
               /\ m_block_index[b].vDagParents \subseteq DOMAIN m_block_index
               /\ m_block_index[b].nHeight \in Nat
               /\ Score(b) \in Nat
               /\ Data(b).selected_parent \in DOMAIN m_block_index \cup {NullHash}
               /\ Mergeset(b) \subseteq DOMAIN m_block_index
    <3>1. b = Genesis
      BY <1>1
    <3> QED BY <2>2, <2>3, <3>1
  <2> QED BY <1>1, <2>1, <2>4, <2>5, <2>6 DEF TypeOK
<1>4. ScoreAboveParents
  BY <1>1 DEF ScoreAboveParents, Accepted, Parents
<1>5. TipsAreLeaves
  BY <1>1, <1>2 DEF TipsAreLeaves, Accepted
<1>6. TipIndexesAgree
  BY <1>2 DEF TipIndexesAgree
<1>7. GenesisIsRoot
  BY <1>1 DEF GenesisIsRoot, Parents
<1> QED BY <1>3, <1>4, <1>5, <1>6, <1>7 DEF IInv

LEMMA AcceptBlockIInv ==
    ASSUME IInv, NEW h \in Hash, NEW prev, NEW extra, AcceptBlock(h, prev, extra)
    PROVE  IInv'
<1> DEFINE P == {prev} \cup extra
           score == Score(h)'
           old == m_dag_tips
           new == m_dag_tips'
<1> USE DEF IInv
<1>1. /\ h \notin DOMAIN m_block_index
      /\ prev \in DOMAIN m_block_index /\ prev # NullHash
      /\ extra \subseteq DOMAIN m_block_index
      /\ DOMAIN m_block_index' = DOMAIN m_block_index \cup {h}
      /\ \A b \in DOMAIN m_block_index : m_block_index'[b] = m_block_index[b]
      /\ m_block_index'[h].pprev = prev
      /\ m_block_index'[h].vDagParents = extra
      /\ m_block_index'[h].nHeight = m_block_index[prev].nHeight + 1
      /\ m_block_index'[h].haveData = TRUE
      /\ score \in Nat
      /\ \A p \in P : Score(p) < score
      /\ Data(h)'.selected_parent \in P
      /\ Mergeset(h)' \subseteq DOMAIN m_block_index'
      /\ new = BlockConnected(old, h, score, P)
  BY AcceptBlockIndex
<1>2. P \subseteq DOMAIN m_block_index /\ h \notin P
  BY <1>1
<1>3. /\ DOMAIN new.m_hash_to_score = (DOMAIN old.m_hash_to_score \ P) \cup {h}
      /\ new.m_hash_to_score[h] = score
      /\ \A x \in DOMAIN old.m_hash_to_score \ P :
            x # h => new.m_hash_to_score[x] = old.m_hash_to_score[x]
      /\ \A e : e \in new.m_score_to_hash <=>
            \/ e = <<score, h>>
            \/ /\ e \in old.m_score_to_hash
               /\ ~\E x \in P \cap DOMAIN old.m_hash_to_score :
                     e = <<old.m_hash_to_score[x], x>>
      /\ DOMAIN new.m_known_scores \subseteq DOMAIN old.m_known_scores \cup {h}
      /\ \A x \in DOMAIN new.m_known_scores :
            new.m_known_scores[x] = IF x = h THEN score ELSE old.m_known_scores[x]
      /\ \A x \in DOMAIN old.m_known_scores \cup {h} :
            x \in DOMAIN new.m_hash_to_score => x \in DOMAIN new.m_known_scores
  <2> HIDE DEF score, P, old, new
  <2>1. score \in Nat /\ h \notin P /\ new = BlockConnected(old, h, score, P)
    BY <1>1, <1>2
  <2>2. ConnectedTips(old, new, h, score, P)
    BY <2>1, BlockConnectedMembers
  <2> QED BY <2>2 DEF ConnectedTips
<1>4. \A b \in DOMAIN m_block_index :
          /\ Score(b)' = Score(b) /\ Data(b)' = Data(b) /\ Mergeset(b)' = Mergeset(b)
          /\ Parents(m_block_index, b)' = Parents(m_block_index, b)
  BY <1>1 DEF Score, Data, Mergeset, Parents
<1>5. /\ Parents(m_block_index, h)' = P
      /\ Accepted' = Accepted \cup {h}
      /\ Accepted \subseteq DOMAIN m_block_index
  BY <1>1 DEF Parents, Accepted
<1>6. \A b \in DOMAIN m_block_index : h \notin Parents(m_block_index, b)
  <2>1. h # NullHash
    BY HashAssumption
  <2> QED BY <1>1, <2>1 DEF TypeOK, Parents
<1> HIDE DEF P, score
<1>7. TypeOK'
  <2>1. IsFiniteSet(DOMAIN m_block_index')
    BY <1>1, FS_AddElement DEF TypeOK
  <2>2. ASSUME NEW b \in DOMAIN m_block_index
        PROVE  /\ m_block_index'[b].pprev \in DOMAIN m_block_index' \cup {NullHash}
               /\ m_block_index'[b].vDagParents \subseteq DOMAIN m_block_index'
               /\ m_block_index'[b].nHeight \in Nat
               /\ m_block_index'[b].haveData \in BOOLEAN
               /\ Score(b)' \in Nat
               /\ Data(b)'.selected_parent \in DOMAIN m_block_index' \cup {NullHash}
               /\ Mergeset(b)' \subseteq DOMAIN m_block_index'
    BY <1>1, <1>4 DEF TypeOK
  <2>3. /\ m_block_index'[h].pprev \in DOMAIN m_block_index' \cup {NullHash}
        /\ m_block_index'[h].vDagParents \subseteq DOMAIN m_block_index'
        /\ m_block_index'[h].nHeight \in Nat
        /\ m_block_index'[h].haveData \in BOOLEAN
        /\ Score(h)' \in Nat
        /\ Data(h)'.selected_parent \in DOMAIN m_block_index' \cup {NullHash}
        /\ Mergeset(h)' \subseteq DOMAIN m_block_index'
    <3>1. m_block_index'[h].nHeight \in Nat
      BY <1>1 DEF TypeOK
    <3>2. Score(h)' \in Nat
      BY <1>1 DEF score
    <3>3. P \subseteq DOMAIN m_block_index'
      BY <1>1, <1>2
    <3> QED BY <1>1, <3>1, <3>2, <3>3
  <2>4. new.m_score_to_hash \subseteq Nat \X Hash
    BY <1>1, <1>3 DEF TypeOK
  <2>5. /\ DOMAIN new.m_hash_to_score \subseteq DOMAIN m_block_index'
        /\ DOMAIN new.m_known_scores \subseteq DOMAIN m_block_index'
    BY <1>1, <1>3 DEF TypeOK
  <2>6. Genesis \in DOMAIN m_block_index' /\ DOMAIN m_block_index' \subseteq Hash
    BY <1>1 DEF TypeOK
  <2> QED BY <1>1, <2>1, <2>2, <2>3, <2>4, <2>5, <2>6 DEF TypeOK
<1>8. ScoreAboveParents'
  <2>1. ASSUME NEW b \in Accepted, NEW p \in Parents(m_block_index, b)
        PROVE  Score(p)' < Score(b)'
    <3>1. b \in DOMAIN m_block_index /\ p \in DOMAIN m_block_index
      BY <1>5 DEF TypeOK, Parents
    <3> QED BY <1>4, <3>1 DEF ScoreAboveParents
  <2>2. \A p \in P : Score(p)' < Score(h)'
    BY <1>1, <1>2, <1>4 DEF score
  <2> QED BY <1>4, <1>5, <2>1, <2>2 DEF ScoreAboveParents
<1>9. TipsAreLeaves'
  <2> DEFINE Child(b) == \E c \in Accepted : b \in Parents(m_block_index, c)
  <2>1. \A b \in DOMAIN m_block_index : Child(b)' <=> (Child(b) \/ b \in P)
    BY <1>4, <1>5
  <2>2. ~Child(h)'
    BY <1>2, <1>4, <1>5, <1>6
  <2>3. h # Genesis
    BY <1>1 DEF TypeOK
  <2>4. DOMAIN old.m_hash_to_score = {b \in Accepted \ {Genesis} : ~Child(b)}
    BY DEF TipsAreLeaves
  <2>5. DOMAIN new.m_hash_to_score = {b \in Accepted' \ {Genesis} : ~Child(b)'}
    <3> HIDE DEF Child
    <3> QED BY <1>3, <1>5, <2>1, <2>2, <2>3, <2>4
  <2> QED BY <2>5 DEF TipsAreLeaves
<1>10. TipIndexesAgree'
  <2> DEFINE map == old.m_hash_to_score
             mapN == new.m_hash_to_score
  <2>1. /\ old.m_score_to_hash = {<<map[x], x>> : x \in DOMAIN map}
        /\ \A x \in DOMAIN map : map[x] = Score(x) /\ x \in DOMAIN old.m_known_scores
        /\ \A x \in DOMAIN old.m_known_scores : old.m_known_scores[x] = Score(x)
    BY DEF TipIndexesAgree
  <2>2. /\ DOMAIN map \subseteq DOMAIN m_block_index
        /\ DOMAIN old.m_known_scores \subseteq DOMAIN m_block_index
        /\ h \notin DOMAIN map
    BY <1>1 DEF TypeOK
  <2>3. \A x \in DOMAIN mapN :
            mapN[x] = Score(x)' /\ x \in DOMAIN new.m_known_scores
    BY <1>3, <1>4, <2>1, <2>2 DEF score
  <2>4. \A x \in DOMAIN new.m_known_scores : new.m_known_scores[x] = Score(x)'
    BY <1>3, <1>4, <2>1, <2>2 DEF score
  <2>5. new.m_score_to_hash = {<<mapN[x], x>> : x \in DOMAIN mapN}
    <3>1. ASSUME NEW e PROVE
             e \in new.m_score_to_hash <=> \E x \in DOMAIN mapN : e = <<mapN[x], x>>
      <4>1. e \in old.m_score_to_hash <=> \E x \in DOMAIN map : e = <<map[x], x>>
        BY <2>1
      <4>2. (/\ e \in old.m_score_to_hash
             /\ ~\E x \in P \cap DOMAIN map : e = <<map[x], x>>)
            <=> \E x \in DOMAIN map \ P : e = <<map[x], x>>
        BY <4>1
      <4>3. \A x \in DOMAIN map \ P : mapN[x] = map[x]
        BY <1>3, <2>2
      <4> QED BY <1>3, <4>2, <4>3
    <3> QED BY <3>1
  <2> QED BY <2>3, <2>4, <2>5 DEF TipIndexesAgree
<1>11. GenesisIsRoot'
  BY <1>4 DEF GenesisIsRoot, TypeOK
<1> QED BY <1>7, <1>8, <1>9, <1>10, <1>11

LEMMA RejectBlockIInv ==
    ASSUME IInv, NEW h \in Hash, NEW prev, NEW extra, RejectBlock(h, prev, extra)
    PROVE  IInv'
<1> USE DEF IInv
<1>1. /\ h \notin DOMAIN m_block_index
      /\ HeaderParentsOk(m_block_index, prev, extra)
      /\ m_block_index' = Assign(m_block_index, h, NewIndex(m_block_index, prev, extra))
      /\ m_dag_tips' = m_dag_tips
  BY DEF RejectBlock
<1>2. /\ prev \in DOMAIN m_block_index /\ extra \subseteq DOMAIN m_block_index
  BY <1>1, ParentsIndexed
<1>3. /\ DOMAIN m_block_index' = DOMAIN m_block_index \cup {h}
      /\ \A b \in DOMAIN m_block_index : m_block_index'[b] = m_block_index[b]
      /\ m_block_index'[h] = NewIndex(m_block_index, prev, extra)
  BY <1>1 DEF Assign
<1>4. /\ m_block_index'[h].pprev = prev
      /\ m_block_index'[h].vDagParents = extra
      /\ m_block_index'[h].nHeight = m_block_index[prev].nHeight + 1
      /\ m_block_index'[h].haveData = FALSE
      /\ Score(h)' = 0 /\ Data(h)'.selected_parent = NullHash /\ Mergeset(h)' = {}
  BY <1>3 DEF NewIndex, Score, Data, Mergeset, DefaultData
<1>5. \A b \in DOMAIN m_block_index :
          /\ Score(b)' = Score(b) /\ Data(b)' = Data(b) /\ Mergeset(b)' = Mergeset(b)
          /\ Parents(m_block_index, b)' = Parents(m_block_index, b)
  BY <1>3 DEF Score, Data, Mergeset, Parents
<1>6. Accepted' = Accepted /\ Accepted \subseteq DOMAIN m_block_index
  BY <1>1, <1>3, <1>4 DEF Accepted
<1>7. TypeOK'
  <2>1. IsFiniteSet(DOMAIN m_block_index')
    BY <1>3, FS_AddElement DEF TypeOK
  <2>2. ASSUME NEW b \in DOMAIN m_block_index
        PROVE  /\ m_block_index'[b].pprev \in DOMAIN m_block_index' \cup {NullHash}
               /\ m_block_index'[b].vDagParents \subseteq DOMAIN m_block_index'
               /\ m_block_index'[b].nHeight \in Nat
               /\ m_block_index'[b].haveData \in BOOLEAN
               /\ Score(b)' \in Nat
               /\ Data(b)'.selected_parent \in DOMAIN m_block_index' \cup {NullHash}
               /\ Mergeset(b)' \subseteq DOMAIN m_block_index'
    BY <1>3, <1>5 DEF TypeOK
  <2>3. /\ m_block_index'[h].pprev \in DOMAIN m_block_index' \cup {NullHash}
        /\ m_block_index'[h].vDagParents \subseteq DOMAIN m_block_index'
        /\ m_block_index'[h].nHeight \in Nat
        /\ Score(h)' \in Nat
        /\ Data(h)'.selected_parent \in DOMAIN m_block_index' \cup {NullHash}
        /\ Mergeset(h)' \subseteq DOMAIN m_block_index'
    BY <1>2, <1>3, <1>4 DEF TypeOK
  <2>4. m_block_index'[h].haveData \in BOOLEAN
    BY <1>4, Zenon
  <2>5. /\ m_dag_tips'.m_score_to_hash \subseteq Nat \X Hash
        /\ DOMAIN m_dag_tips'.m_hash_to_score \subseteq DOMAIN m_block_index'
        /\ DOMAIN m_dag_tips'.m_known_scores \subseteq DOMAIN m_block_index'
    BY <1>1, <1>3 DEF TypeOK
  <2>6. Genesis \in DOMAIN m_block_index' /\ DOMAIN m_block_index' \subseteq Hash
    BY <1>3 DEF TypeOK
  <2> QED BY <1>3, <2>1, <2>2, <2>3, <2>4, <2>5, <2>6 DEF TypeOK
<1>8. ScoreAboveParents'
  <2>1. ASSUME NEW b \in Accepted, NEW p \in Parents(m_block_index, b)
        PROVE  Score(p)' < Score(b)'
    <3>1. b \in DOMAIN m_block_index /\ p \in DOMAIN m_block_index
      BY <1>6 DEF TypeOK, Parents
    <3> QED BY <1>5, <3>1 DEF ScoreAboveParents
  <2> QED BY <1>5, <1>6, <2>1 DEF ScoreAboveParents
<1>9. TipsAreLeaves'
  BY <1>1, <1>5, <1>6 DEF TipsAreLeaves
<1>10. TipIndexesAgree'
  <2>1. /\ \A x \in DOMAIN m_dag_tips.m_hash_to_score : Score(x)' = Score(x)
        /\ \A x \in DOMAIN m_dag_tips.m_known_scores : Score(x)' = Score(x)
    BY <1>5 DEF TypeOK
  <2> QED BY <1>1, <2>1 DEF TipIndexesAgree
<1>11. GenesisIsRoot'
  BY <1>5 DEF GenesisIsRoot, TypeOK
<1> QED BY <1>7, <1>8, <1>9, <1>10, <1>11

LEMMA StutterIInv == IInv /\ UNCHANGED vars => IInv'
BY DEF IInv, vars, TypeOK, ScoreAboveParents, TipsAreLeaves, TipIndexesAgree,
       GenesisIsRoot, Score, Data, Mergeset, Accepted, Parents

\* The conjunction is an invariant of every behaviour, for every K, every
\* mergeset cap, every prune depth and every set of hashes.
THEOREM Invariance == Spec => []IInv
<1>1. Init => IInv
  BY InitIInv
<1>2. IInv /\ [Next]_vars => IInv'
  <2>1. ASSUME IInv, Next PROVE IInv'
    BY <2>1, AcceptBlockIInv, RejectBlockIInv DEF Next
  <2> QED BY <2>1, StutterIInv
<1> QED BY <1>1, <1>2, PTL DEF Spec

\* Every indexed block has indexed parents and every tip is an indexed block.
THEOREM TypeCorrect == Spec => []TypeOK
<1>1. IInv => TypeOK
  BY DEF IInv
<1> QED BY <1>1, Invariance, PTL

\* The blue score grows along every parent edge of an accepted block.
THEOREM ScoresGrow == Spec => []ScoreAboveParents
<1>1. IInv => ScoreAboveParents
  BY DEF IInv
<1> QED BY <1>1, Invariance, PTL

\* DagTipSet holds exactly the accepted blocks without an accepted child.
THEOREM TipsExact == Spec => []TipsAreLeaves
<1>1. IInv => TipsAreLeaves
  BY DEF IInv
<1> QED BY <1>1, Invariance, PTL

\* The three members of DagTipSet agree with each other and with the index.
THEOREM TipIndexesCoherent == Spec => []TipIndexesAgree
<1>1. IInv => TipIndexesAgree
  BY DEF IInv
<1> QED BY <1>1, Invariance, PTL

\* A block of the highest score has no child, so it is a tip, and the tip of
\* that score with the lowest hash comes first in TipOrder.
LEMMA BestTipFirst ==
    ASSUME IInv, NEW b \in Accepted \ {Genesis}, NEW n \in Nat \ {0}
    PROVE  \E t \in GetMiningParents(m_dag_tips, n) : Score(b) <= Score(t)
<1> DEFINE A == Accepted \ {Genesis}
           score == [x \in A |-> Score(x)]
           Scores == {score[x] : x \in A}
           map == m_dag_tips.m_hash_to_score
           pairs == m_dag_tips.m_score_to_hash
<1> USE DEF IInv
<1>1. /\ A \subseteq DOMAIN m_block_index /\ IsFiniteSet(A) /\ A \subseteq Nat
      /\ \A x \in DOMAIN m_block_index : Score(x) \in Nat
  BY FS_Subset, HashAssumption DEF Accepted, TypeOK
<1>2. IsFiniteSet(Scores) /\ Scores \in SUBSET Nat /\ Scores # {}
  <2>1. score \in Surjection(A, Scores)
    BY DEF Surjection
  <2>2. IsFiniteSet(Scores)
    <3> HIDE DEF Scores, score, A
    <3> QED BY <1>1, <2>1, FS_Surjection
  <2> QED BY <1>1, <2>2
<1>3. PICK m \in Scores : \A x \in Scores : x <= m
  <2> HIDE DEF Scores
  <2> QED BY <1>2, FiniteMax
<1>4. /\ m \in Nat /\ \A x \in A : Score(x) <= m
      /\ \E x \in A : Score(x) = m
  BY <1>2, <1>3
<1>5. PICK c \in A : Score(c) = m
  BY <1>4
<1>6. c \in DOMAIN map
  <2>1. ASSUME NEW d \in Accepted, c \in Parents(m_block_index, d) PROVE FALSE
    <3>1. d \in A
      BY <2>1 DEF GenesisIsRoot
    <3>2. Score(c) < Score(d) /\ Score(d) \in Nat
      BY <1>1, <2>1, <3>1 DEF ScoreAboveParents
    <3> QED BY <1>4, <1>5, <3>1, <3>2
  <2> QED BY <1>5, <2>1 DEF TipsAreLeaves
<1> DEFINE Top == {x \in DOMAIN map : Score(x) = m}
<1>7. DOMAIN map \subseteq A
  BY DEF TipsAreLeaves
<1>8. PICK t \in Top : \A x \in Top : t <= x
  <2>1. Top \in SUBSET Nat /\ Top # {}
    BY <1>1, <1>5, <1>6, <1>7
  <2> HIDE DEF Top
  <2> QED BY <2>1, NatMin
<1> DEFINE q == <<Score(t), t>>
<1>9. /\ q \in pairs
      /\ \A r \in pairs : \E x \in DOMAIN map : r = <<Score(x), x>>
  <2>1. /\ pairs = {<<map[x], x>> : x \in DOMAIN map}
        /\ \A x \in DOMAIN map : map[x] = Score(x)
    BY DEF TipIndexesAgree
  <2> HIDE DEF map, pairs
  <2> QED BY <1>8, <2>1
<1>10. ASSUME NEW r \in pairs PROVE ~TipBefore(r, q)
  <2>1. PICK x \in DOMAIN map : r = <<Score(x), x>>
    BY <1>9
  <2>2. x \in Nat /\ t \in Nat /\ Score(x) \in Nat /\ Score(x) <= m /\ Score(t) = m
    BY <1>1, <1>4, <1>7, <1>8
  <2>3. Score(x) = m => t <= x
    BY <1>8
  <2>4. r[1] = Score(x) /\ r[2] = x /\ q[1] = m /\ q[2] = t
    BY <2>1, <2>2
  <2> QED BY <1>4, <2>2, <2>3, <2>4 DEF TipBefore
<1>11. Cardinality({r \in pairs : TipBefore(r, q)}) < n
  <2>1. {r \in pairs : TipBefore(r, q)} = {}
    BY <1>10
  <2>2. Cardinality({r \in pairs : TipBefore(r, q)}) = 0
    BY <2>1, FS_EmptySet
  <2> QED BY <2>2
<1>12. t \in GetMiningParents(m_dag_tips, n)
  <2>1. q[2] = t
    OBVIOUS
  <2> HIDE DEF q
  <2> QED BY <1>9, <1>11, <2>1 DEF GetMiningParents
<1>13. Score(b) <= Score(t)
  BY <1>4, <1>8
<1> QED BY <1>12, <1>13

\* Whatever number of parents a miner asks for, one of them has a score that
\* no accepted block exceeds.
THEOREM BestBlockMined == Spec => []BestBlockIsMinedOn
<1>1. IInv => BestBlockIsMinedOn
  <2>1. 1..MaxDagParents + 1 \subseteq Nat \ {0}
    BY MaxParentsAssumption
  <2> QED BY <2>1, BestTipFirst DEF BestBlockIsMinedOn
<1> QED BY <1>1, Invariance, PTL

=============================================================================
