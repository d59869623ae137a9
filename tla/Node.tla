--------------------------------- MODULE Node ---------------------------------
(***************************************************************************)
(* One node: block index, candidate set, active chain, DAG tip set and     *)
(* database, under blocks that arrive in any order (src/validation.cpp,    *)
(* src/node/blockstorage.cpp).                                             *)
(*                                                                         *)
(* An action is one critical section of cs_main, or one step inside the    *)
(* long section of ActivateBestChain; pc says where the holder of          *)
(* m_chainstate_mutex is, and cs_main is free when pc is in Unlocked.      *)
(* Pruning, snapshots, the mempool and m_best_header are left out.         *)
(***************************************************************************)
EXTENDS Ghostdag, DagTipSet, Integers, Sequences, SequencesExt

CONSTANTS
    Hash,               \* the block hashes, positive numbers
    Genesis,            \* hashGenesisBlock
    Networks,           \* the block sets that the network may hold
    DAG_MERGESET_PRUNE_DEPTH,
    MaxCrashes,         \* bound on Crash
    OperatorCalls,      \* the RPCs the operator uses
    MaxOperatorCalls    \* bound on their number

ASSUME HashAssumption == Hash \subseteq Nat \ {NullHash} /\ Genesis \in Hash
ASSUME WorkAssumption == BlockWork \in [Hash -> Nat \ {0}]

VARIABLES
    block,              \* the blocks of the network: hash -> header and validity
    m_block_index,      \* hash -> CBlockIndex fields
    candidates,         \* setBlockIndexCandidates
    m_blocks_unlinked,  \* the multimap, as a sequence of <<pprev, block>>
    m_failed_blocks,
    nextSequenceId,     \* nBlockSequenceId
    precious,           \* nBlockReverseSequenceId and nLastPreciousChainwork
    tip,                \* m_chain.Tip()
    m_dag_tips,
    pc,                 \* position of the holder of m_chainstate_mutex
    abc,                \* locals of ActivateBestChain
    inv,                \* locals of InvalidateBlock; since is a history of when it began
    pending,            \* a caller is about to call ActivateBestChain
    m_dirty_blockindex,
    disk,               \* block tree database and best block of the coins database
    crashes,
    operatorCalls       \* their number, and a history of which they were

memory == <<m_block_index, candidates, m_blocks_unlinked, m_failed_blocks,
            nextSequenceId, precious, tip, m_dag_tips>>
threads == <<pc, abc, inv, pending>>
vars == <<block, memory, threads, m_dirty_blockindex, disk, crashes, operatorCalls>>

Unlocked == {"idle", "outer", "invalidate"}

---------------------------------------------------------------------------
(* The block index.                                                        *)

\* The pprev chain from b to genesis, b included.
PrevChain(bi, b) ==
    LET up[n \in 1..Cardinality(DOMAIN bi)] ==
            IF n = 1 THEN b
            ELSE IF up[n-1] = NullHash THEN NullHash ELSE bi[up[n-1]].pprev
    IN  {up[n] : n \in 1..Cardinality(DOMAIN bi)} \ {NullHash}

InChain(b) == b \in PrevChain(m_block_index, tip)

\* CBlockIndexWorkComparator: a sorts below b.  An entry's address is taken
\* to be in the order of its hash.
Worse(bi, a, b) ==
    LET A == bi[a] B == bi[b] IN
    \/ A.nChainWork < B.nChainWork
    \/ /\ A.nChainWork = B.nChainWork
       /\ \/ A.dagData.blue_work < B.dagData.blue_work
          \/ /\ A.dagData.blue_work = B.dagData.blue_work
             /\ A.nSequenceId > B.nSequenceId \/ (A.nSequenceId = B.nSequenceId /\ a > b)

Failed(bi, b) == bi[b].failed # {}

\* IsValid(BLOCK_VALID_TRANSACTIONS) and HaveNumChainTxs.
Eligible(bi, b) == ~Failed(bi, b) /\ bi[b].haveData /\ bi[b].haveChainTx

Mark(bi, S, flag) == [b \in DOMAIN bi |-> IF b \in S THEN [bi[b] EXCEPT !.failed = @ \cup {flag}]
                                                     ELSE bi[b]]

\* AddToBlockIndex: only the parents that are known are linked.
NewIndex(bi, h) ==
    LET prev == block[h].hashPrevBlock IN
    [pprev |-> prev, vDagParents |-> block[h].hashParents \cap DOMAIN bi,
     nHeight |-> bi[prev].nHeight + 1, nChainWork |-> bi[prev].nChainWork + BlockWork[h],
     dagData |-> DefaultData, haveData |-> FALSE, haveChainTx |-> FALSE,
     failed |-> {}, scripts |-> FALSE, nSequenceId |-> 0]

GenesisIndex ==
    [pprev |-> NullHash, vDagParents |-> {}, nHeight |-> 0, nChainWork |-> BlockWork[Genesis],
     dagData |-> DefaultData, haveData |-> TRUE, haveChainTx |-> TRUE,
     failed |-> {}, scripts |-> FALSE, nSequenceId |-> 1]

\* CDiskBlockIndex: what the block tree database keeps of an entry.
OnDisk(e) == [pprev |-> e.pprev, vDagParents |-> e.vDagParents, nHeight |-> e.nHeight,
              haveData |-> e.haveData, failed |-> e.failed, scripts |-> e.scripts]

\* The locals of ActivateBestChain and of InvalidateBlock outside a call.
NoActivate == [mostWork |-> NullHash, starting |-> NullHash, old |-> NullHash, connected |-> FALSE]
NoInvalidate == [pindex |-> NullHash, toMark |-> NullHash, byWork |-> {}, since |-> 0]

\* LoadGenesisBlock has stored genesis and ActivateBestChain has connected
\* it; both databases have been written once.
Init ==
    /\ block \in Networks
    /\ m_block_index = [h \in {Genesis} |-> GenesisIndex]
    /\ candidates = {Genesis}
    /\ m_blocks_unlinked = <<>>
    /\ m_failed_blocks = {}
    /\ nextSequenceId = 2
    /\ precious = [next |-> -1, lastWork |-> 0]
    /\ tip = Genesis
    /\ m_dag_tips = EmptyTipSet
    /\ pc = "idle"
    /\ abc = NoActivate
    /\ inv = NoInvalidate
    /\ pending = FALSE
    /\ m_dirty_blockindex = {}
    /\ disk = [index |-> [h \in {Genesis} |-> OnDisk(GenesisIndex)], best |-> Genesis]
    /\ crashes = 0
    /\ operatorCalls = [count |-> 0, names |-> {}]

---------------------------------------------------------------------------
(* AcceptBlockHeader and AcceptBlock.                                      *)

\* An extra parent is known and failed, or descends from the previous block.
BadDagParent(bi, h) ==
    LET prev == block[h].hashPrevBlock IN
    \E p \in block[h].hashParents \cap DOMAIN bi :
        \/ Failed(bi, p)
        \/ bi[p].nHeight > bi[prev].nHeight /\ prev \in PrevChain(bi, p)

\* The known-invalid blocks a new header would descend from; they are not
\* looked for when the previous block has been connected before.
InvalidAncestors(bi, prev) ==
    IF bi[prev].scripts THEN {} ELSE m_failed_blocks \cap PrevChain(bi, prev)

\* A header that passes every check of AcceptBlockHeader.
HeaderOk(bi, h) ==
    /\ h \notin DOMAIN bi
    /\ block[h].hashPrevBlock \in DOMAIN bi
    /\ ~Failed(bi, block[h].hashPrevBlock)
    /\ ~BadDagParent(bi, h)
    /\ InvalidAncestors(bi, block[h].hashPrevBlock) = {}

\* A header message.
ReceiveHeader(h) ==
    /\ pc \in Unlocked
    /\ HeaderOk(m_block_index, h)
    /\ m_block_index' = Assign(m_block_index, h, NewIndex(m_block_index, h))
    /\ m_dirty_blockindex' = m_dirty_blockindex \cup {h}
    /\ UNCHANGED <<block, candidates, m_blocks_unlinked, m_failed_blocks, nextSequenceId,
                   precious, tip, m_dag_tips, threads, disk, crashes, operatorCalls>>

\* A header on a chain with a known-invalid block: the blocks between are
\* marked, the header is refused.
RefuseHeader(h) ==
    /\ pc \in Unlocked
    /\ h \notin DOMAIN m_block_index
    /\ LET prev == block[h].hashPrevBlock IN
       /\ prev \in DOMAIN m_block_index
       /\ ~Failed(m_block_index, prev)
       /\ ~BadDagParent(m_block_index, h)
       /\ \E f \in InvalidAncestors(m_block_index, prev) :
             LET walk == PrevChain(m_block_index, prev) \ PrevChain(m_block_index, f) IN
             /\ m_block_index' = Mark(m_block_index, walk, "CHILD")
             /\ m_dirty_blockindex' = m_dirty_blockindex \cup walk
    /\ UNCHANGED <<block, candidates, m_blocks_unlinked, m_failed_blocks, nextSequenceId,
                   precious, tip, m_dag_tips, threads, disk, crashes, operatorCalls>>

\* What AcceptBlock has of h after AcceptBlockHeader accepted it.
WithHeader(h) ==
    IF h \in DOMAIN m_block_index THEN m_block_index
    ELSE Assign(m_block_index, h, NewIndex(m_block_index, h))

\* AcceptBlock gets past AcceptBlockHeader, for a block with or without data.
BlockArrives(h) ==
    /\ pc \in Unlocked
    /\ HeaderOk(m_block_index, h) \/ (h \in DOMAIN m_block_index /\ ~Failed(m_block_index, h))

\* A block that is there already, or that nobody asked for and has less work
\* than the tip: nothing more than its header is kept.  ProcessNewBlock goes
\* on to ActivateBestChain.
IgnoreBlock(h) ==
    /\ BlockArrives(h)
    /\ LET bi == WithHeader(h) IN
       /\ bi[h].haveData \/ bi[h].nChainWork < bi[tip].nChainWork
       /\ m_block_index' = bi
    /\ m_dirty_blockindex' = m_dirty_blockindex \cup ({h} \ DOMAIN m_block_index)
    /\ pending' = TRUE
    /\ UNCHANGED <<block, candidates, m_blocks_unlinked, m_failed_blocks, nextSequenceId,
                   precious, tip, m_dag_tips, pc, abc, inv, disk, crashes, operatorCalls>>

\* ContextualCheckBlock refuses the body.  A block that fails CheckBlock is
\* dropped by ProcessNewBlock before anything is kept of it.
RejectBody(h) ==
    /\ BlockArrives(h)
    /\ ~WithHeader(h)[h].haveData
    /\ block[h].validity = "badBody"
    /\ m_block_index' = Mark(WithHeader(h), {h}, "VALID")
    /\ m_dirty_blockindex' = m_dirty_blockindex \cup {h}
    /\ UNCHANGED <<block, candidates, m_blocks_unlinked, m_failed_blocks, nextSequenceId,
                   precious, tip, m_dag_tips, threads, disk, crashes, operatorCalls>>

\* The header lists more parents than were known when it was indexed.
ParentsIncomplete(bi, h) ==
    Cardinality(bi[h].vDagParents) < Cardinality(block[h].hashParents)

GoodParents(bi, h) == {p \in block[h].hashParents \cap DOMAIN bi : ~Failed(bi, p)}

\* Some parent is still unknown, or is invalid: the entry keeps the parents
\* that come before it in the header, whatever their order there is.
DeferBlock(h) ==
    /\ BlockArrives(h)
    /\ block[h].validity # "badBody"
    /\ LET bi == WithHeader(h) IN
       /\ ~bi[h].haveData
       /\ ParentsIncomplete(bi, h)
       /\ GoodParents(bi, h) # block[h].hashParents
       /\ \E S \in SUBSET GoodParents(bi, h) :
             m_block_index' = [bi EXCEPT ![h].vDagParents = S]
    /\ m_dirty_blockindex' = m_dirty_blockindex \cup ({h} \ DOMAIN m_block_index)
    /\ UNCHANGED <<block, candidates, m_blocks_unlinked, m_failed_blocks, nextSequenceId,
                   precious, tip, m_dag_tips, threads, disk, crashes, operatorCalls>>

\* Mutant: parents that arrived after the header are not looked up again.
ResolveNothing(bi, h) == bi

\* vDagParents is complete before the block is scored.
ResolveParents(bi, h) ==
    IF ParentsIncomplete(bi, h) THEN [bi EXCEPT ![h].vDagParents = block[h].hashParents]
                                ELSE bi

\* Mutant: the blocks above h are scored again, now that h has its data.
ScoreAgain(bi, h) ==
    [b \in DOMAIN bi |-> IF b = h \/ (bi[b].haveData /\ h \in Parents(bi, b))
                         THEN [bi[b] EXCEPT !.dagData = ComputeGhostdag(bi, Parents(bi, b))]
                         ELSE bi[b]]

\* The sort keys of h are final from here on.
Score(bi, h) == [bi EXCEPT ![h].dagData = ComputeGhostdag(bi, Parents(bi, h))]

\* Mutant: only the block itself is linked.
LinkOrderAlone(bi, h) == IF bi[bi[h].pprev].haveChainTx THEN <<h>> ELSE <<>>

\* The blocks that get a complete chain when h arrives, in the order of the
\* queue in ReceivedBlockTransactions.
LinkOrder(bi, h) ==
    LET waiting(b) == LET pairs == SelectSeq(m_blocks_unlinked, LAMBDA u : u[1] = b)
                      IN  [i \in DOMAIN pairs |-> pairs[i][2]]
        queue[n \in 0..Cardinality(DOMAIN bi)] ==
            IF n = 0 THEN <<h>>
            ELSE IF n > Len(queue[n-1]) THEN queue[n-1]
            ELSE queue[n-1] \o waiting(queue[n-1][n])
    IN  IF bi[bi[h].pprev].haveChainTx THEN queue[Cardinality(DOMAIN bi)] ELSE <<>>

\* Sequence ids are given in the order in which chains become complete.
Link(bi, order) ==
    [b \in DOMAIN bi |->
        IF \E i \in DOMAIN order : order[i] = b
        THEN [bi[b] EXCEPT !.haveChainTx = TRUE,
                           !.nSequenceId = nextSequenceId - 1
                                           + CHOOSE i \in DOMAIN order : order[i] = b]
        ELSE bi[b]]

\* A block that waits for an ancestor's data, unless its parent has failed.
Unlinked(bi, h, order) ==
    IF order # <<>> THEN SelectSeq(m_blocks_unlinked, LAMBDA u : u[1] \notin Range(order))
    ELSE IF Failed(bi, bi[h].pprev) THEN m_blocks_unlinked
    ELSE Append(m_blocks_unlinked, <<bi[h].pprev, h>>)

\* The GHOSTDAG computation fails: the block stays a header.
RejectDag(h) ==
    /\ BlockArrives(h)
    /\ block[h].validity # "badBody"
    /\ LET bi == ResolveParents(WithHeader(h), h) IN
       /\ ~bi[h].haveData
       /\ ParentsIncomplete(WithHeader(h), h) => GoodParents(bi, h) = block[h].hashParents
       /\ GhostdagFails(bi, Parents(bi, h))
       /\ m_block_index' = bi
    /\ m_dirty_blockindex' = m_dirty_blockindex \cup ({h} \ DOMAIN m_block_index)
    /\ UNCHANGED <<block, candidates, m_blocks_unlinked, m_failed_blocks, nextSequenceId,
                   precious, tip, m_dag_tips, threads, disk, crashes, operatorCalls>>

\* The block is scored, stored, linked, and becomes a DAG tip; every block
\* linked by it becomes a candidate unless it sorts below the tip.
AcceptBlock(h) ==
    /\ BlockArrives(h)
    /\ block[h].validity # "badBody"
    /\ LET known == WithHeader(h)
           full  == ResolveParents(known, h)
           score == Score(full, h)
           order == LinkOrder(score, h)
           bi    == Link([score EXCEPT ![h].haveData = TRUE], order)
       IN  /\ ~known[h].haveData
           /\ ParentsIncomplete(known, h) => GoodParents(known, h) = block[h].hashParents
           /\ ~GhostdagFails(full, Parents(full, h))
           /\ m_block_index' = bi
           /\ nextSequenceId' = nextSequenceId + Len(order)
           /\ candidates' = candidates \cup {b \in Range(order) : ~Worse(bi, b, tip)}
           /\ m_blocks_unlinked' = Unlinked(bi, h, order)
           /\ m_dag_tips' = BlockConnected(m_dag_tips, h, bi[h].dagData.blue_score, Parents(bi, h))
    /\ m_dirty_blockindex' = m_dirty_blockindex \cup {h}
    /\ pending' = TRUE
    /\ UNCHANGED <<block, m_failed_blocks, precious, tip, pc, abc, inv, disk, crashes, operatorCalls>>

---------------------------------------------------------------------------
(* ActivateBestChain.                                                      *)

index == <<m_blocks_unlinked, nextSequenceId, precious, m_dag_tips>>
rest == <<block, disk, crashes, operatorCalls>>

\* A caller takes m_chainstate_mutex.
StartActivate ==
    /\ pc = "idle" /\ pending
    /\ pc' = "outer"
    /\ pending' = FALSE
    /\ UNCHANGED <<memory, abc, inv, m_dirty_blockindex, rest>>

\* An iteration of the outer loop takes cs_main.
LockMain ==
    /\ pc = "outer"
    /\ pc' = "find"
    /\ abc' = [abc EXCEPT !.starting = tip, !.connected = FALSE]
    /\ UNCHANGED <<memory, inv, pending, m_dirty_blockindex, rest>>

Best(bi, S) == CHOOSE b \in S : \A c \in S \ {b} : Worse(bi, c, b)

\* The failed block that FindMostWorkChain meets first on its way from b
\* down to the active chain, as a set.
FirstFailed(b) ==
    LET failed == {a \in PrevChain(m_block_index, b) \ PrevChain(m_block_index, tip) :
                     Failed(m_block_index, a)}
    IN  {a \in failed : failed \subseteq PrevChain(m_block_index, a)}

\* FindMostWorkChain settles on the best candidate.
ChooseMostWork ==
    /\ pc = "find" /\ abc.mostWork = NullHash /\ candidates # {}
    /\ LET best == Best(m_block_index, candidates) IN
       /\ FirstFailed(best) = {}
       /\ abc' = [abc EXCEPT !.mostWork = best]
    /\ UNCHANGED <<memory, pc, inv, pending, m_dirty_blockindex, rest>>

\* Mutant: the whole branch is given up, what lies below the failed block too.
GivenUpWholeBranch(best, f) == PrevChain(m_block_index, best) \ PrevChain(m_block_index, tip)

\* The part of a failed chain that leaves the candidates.
GivenUp(best, f) ==
    (PrevChain(m_block_index, best) \ PrevChain(m_block_index, f)) \cup {f}

\* It meets a failed block: the whole chain above it is given up.
DropFailedChain ==
    /\ pc = "find" /\ abc.mostWork = NullHash /\ candidates # {}
    /\ LET best == Best(m_block_index, candidates) IN
       \E f \in FirstFailed(best) :
          LET gone == GivenUp(best, f) IN
          /\ m_block_index' = Mark(m_block_index, gone \ {f}, "CHILD")
          /\ candidates' = candidates \ gone
          /\ m_dirty_blockindex' = m_dirty_blockindex \cup (gone \ {f})
    /\ UNCHANGED <<m_failed_blocks, tip, index, threads, rest>>

\* The call returns.
Return == pc' = "idle" /\ abc' = NoActivate

\* Mutant: the outer loop runs once.
ReleaseOnce == Return

\* cs_main is released; the call ends when the tip is what it aimed at.
Release ==
    IF tip = abc.mostWork THEN Return
    ELSE pc' = "outer" /\ abc' = [NoActivate EXCEPT !.mostWork = abc.mostWork]

NothingToDo ==
    /\ pc = "find"
    /\ (abc.mostWork = NullHash /\ candidates = {}) \/ abc.mostWork = tip
    /\ IF abc.connected THEN Release ELSE Return
    /\ UNCHANGED <<memory, inv, pending, m_dirty_blockindex, rest>>

\* ActivateBestChainStep begins.
BeginStep ==
    /\ pc = "find" /\ abc.mostWork \notin {NullHash, tip}
    /\ pc' = "step"
    /\ abc' = [abc EXCEPT !.old = tip]
    /\ UNCHANGED <<memory, inv, pending, m_dirty_blockindex, rest>>

DisconnectTip ==
    /\ pc = "step" /\ tip \notin PrevChain(m_block_index, abc.mostWork)
    /\ tip' = m_block_index[tip].pprev
    /\ UNCHANGED <<m_block_index, candidates, m_failed_blocks, index, threads,
                   m_dirty_blockindex, rest>>

\* The next block on the way to abc.mostWork.
NextToConnect(n) ==
    /\ pc = "step" /\ tip # abc.mostWork
    /\ n \in PrevChain(m_block_index, abc.mostWork) /\ m_block_index[n].pprev = tip

\* The mergeset of the block buried DAG_MERGESET_PRUNE_DEPTH below n is freed.
PruneMergeset(bi, n) ==
    [b \in DOMAIN bi |->
        IF /\ bi[n].nHeight > DAG_MERGESET_PRUNE_DEPTH
           /\ b \in PrevChain(bi, n)
           /\ bi[b].nHeight = bi[n].nHeight - DAG_MERGESET_PRUNE_DEPTH
           /\ bi[b].dagData.mergeset_blues # {}
        THEN [bi[b] EXCEPT !.dagData.mergeset_blues = {}, !.dagData.mergeset_reds = {}]
        ELSE bi[b]]

\* Mutant: the tip itself goes, too.
PruneCandidatesAndTip(bi, S, t) == {b \in S : Worse(bi, t, b)}

\* PruneBlockIndexCandidates.
PruneCandidates(bi, S, t) == {b \in S : ~Worse(bi, b, t)}

\* ActivateBestChainStep returns after the first block that improves on the
\* tip it started from.
StepDone(bi, n) == n = abc.mostWork \/ bi[n].nChainWork > bi[abc.old].nChainWork

ConnectTip(n) ==
    /\ NextToConnect(n)
    /\ block[n].validity = "ok"
    /\ LET bi == PruneMergeset([m_block_index EXCEPT ![n].scripts = TRUE], n) IN
       /\ m_block_index' = bi
       /\ candidates' = PruneCandidates(bi, candidates, n)
       /\ pc' = IF StepDone(bi, n) THEN "after" ELSE "step"
    /\ tip' = n
    /\ m_dirty_blockindex' = m_dirty_blockindex \cup {n}
    /\ UNCHANGED <<m_failed_blocks, index, abc, inv, pending, rest>>

\* ConnectBlock refuses n: InvalidBlockFound, and another branch is looked for.
InvalidBlockFound(n) ==
    /\ NextToConnect(n)
    /\ block[n].validity # "ok"
    /\ m_block_index' = Mark(m_block_index, {n}, "VALID")
    /\ m_failed_blocks' = m_failed_blocks \cup {n}
    /\ candidates' = candidates \ {n}
    /\ m_dirty_blockindex' = m_dirty_blockindex \cup {n}
    /\ pc' = "after"
    /\ abc' = [abc EXCEPT !.mostWork = NullHash]
    /\ UNCHANGED <<tip, index, inv, pending, rest>>

\* Mutant: cs_main is released after every step.
MustGoOnNever == FALSE

\* The inner loop goes on while the tip is worse than the one it began with.
MustGoOn == Worse(m_block_index, tip, abc.starting)

\* ActivateBestChainStep has returned.
AfterStep ==
    /\ pc = "after"
    /\ IF MustGoOn THEN pc' = "find" /\ abc' = [abc EXCEPT !.connected = TRUE] ELSE Release
    /\ UNCHANGED <<memory, inv, pending, m_dirty_blockindex, rest>>

Activate ==
    \/ StartActivate \/ LockMain \/ ChooseMostWork \/ DropFailedChain \/ NothingToDo
    \/ BeginStep \/ DisconnectTip \/ AfterStep
    \/ \E n \in DOMAIN m_block_index : ConnectTip(n) \/ InvalidBlockFound(n)

---------------------------------------------------------------------------
(* InvalidateBlock, ResetBlockFailureFlags, PreciousBlock.                 *)

\* The bound on operator calls, and the history of which were made.
OperatorCall(name) ==
    /\ name \in OperatorCalls /\ operatorCalls.count < MaxOperatorCalls
    /\ operatorCalls' = [count |-> operatorCalls.count + 1,
                         names |-> operatorCalls.names \cup {name}]

\* The blocks off the active chain that are eligible and not worse than the
\* new tip to be are looked up once.
StartInvalidate(p) ==
    /\ pc = "idle" /\ p # Genesis
    /\ OperatorCall("invalidateblock")
    /\ pc' = "invalidate"
    /\ inv' = [pindex |-> p, toMark |-> p,
               byWork |-> {b \in DOMAIN m_block_index :
                   /\ ~InChain(b) /\ Eligible(m_block_index, b)
                   /\ ~Worse(m_block_index, b, m_block_index[p].pprev)},
               since |-> nextSequenceId]
    /\ UNCHANGED <<block, memory, abc, pending, m_dirty_blockindex, disk, crashes>>

\* Mutant: equal-work blocks are not added as the chain goes down.
CandidatesWithPrevOnly(prev) == (candidates \ {tip}) \cup {prev}

\* The disconnected tip leaves the candidates; its parent and the blocks that
\* are not worse than that parent enter them.
CandidatesBelow(prev) ==
    (candidates \ {tip}) \cup {prev}
        \cup {b \in inv.byWork : ~Worse(m_block_index, b, prev)}

\* One disconnected block: it is marked failed at once.  The mark of the
\* block in inv.toMark is changed only when that block is the new tip.
InvalidateTip ==
    /\ pc = "invalidate" /\ InChain(inv.pindex)
    /\ LET prev   == m_block_index[tip].pprev
           marked == Mark(m_block_index, {tip}, "VALID")
           child  == IF /\ prev = inv.toMark /\ "VALID" \in marked[prev].failed
                     THEN {prev} ELSE {}
       IN  /\ m_block_index' = [b \in DOMAIN marked |->
                  IF b \in child THEN [marked[b] EXCEPT !.failed = {"CHILD"}] ELSE marked[b]]
           /\ m_dirty_blockindex' = m_dirty_blockindex \cup {tip} \cup child
           /\ candidates' = CandidatesBelow(prev)
           /\ inv' = [inv EXCEPT !.toMark = tip,
                                 !.byWork = {b \in @ : Worse(m_block_index, b, prev)}]
           /\ tip' = prev
    /\ UNCHANGED <<m_failed_blocks, index, pc, abc, pending, rest>>

\* Mutant: blocks that arrived in between are not looked for.
EligibleNowNone(bi) == {}

\* The final scan over the whole index.
EligibleNow(bi) == {b \in DOMAIN bi : Eligible(bi, b) /\ ~Worse(bi, b, tip)}

\* The last disconnected block, or one that never was in the chain, is marked.
FinishInvalidate ==
    /\ pc = "invalidate" /\ ~InChain(inv.pindex)
    /\ LET bi == Mark(m_block_index, {inv.toMark}, "VALID") IN
       /\ m_block_index' = bi
       /\ candidates' = (candidates \ {inv.toMark}) \cup EligibleNow(bi)
    /\ m_failed_blocks' = m_failed_blocks \cup {inv.toMark}
    /\ m_dirty_blockindex' = m_dirty_blockindex \cup {inv.toMark}
    /\ pc' = "idle" /\ inv' = NoInvalidate /\ pending' = TRUE
    /\ UNCHANGED <<tip, index, abc, rest>>

Invalidate == InvalidateTip \/ FinishInvalidate

\* Mutant: only the blocks above are forgotten, not the cleared ancestors.
StillFailedAbove(above, cleared) == m_failed_blocks \ (above \cap cleared)

\* A cleared block leaves m_failed_blocks.
StillFailed(above, cleared) == m_failed_blocks \ cleared

\* reconsiderblock: p, its descendants and its ancestors are cleared.
ResetBlockFailureFlags(p) ==
    /\ pc \in Unlocked
    /\ OperatorCall("reconsiderblock")
    /\ LET above   == {b \in DOMAIN m_block_index : p \in PrevChain(m_block_index, b)}
           cleared == {b \in above \cup PrevChain(m_block_index, p) : Failed(m_block_index, b)}
           bi      == [b \in DOMAIN m_block_index |->
                          IF b \in cleared THEN [m_block_index[b] EXCEPT !.failed = {}]
                          ELSE m_block_index[b]]
       IN  /\ m_block_index' = bi
           /\ candidates' = candidates \cup
                 {b \in above \cap cleared : Eligible(bi, b) /\ Worse(bi, tip, b)}
           /\ m_failed_blocks' = StillFailed(above, cleared)
           /\ m_dirty_blockindex' = m_dirty_blockindex \cup cleared
                 \cup {b \in above : ~m_block_index[b].haveData}
    /\ pending' = TRUE
    /\ UNCHANGED <<block, tip, index, pc, abc, inv, disk, crashes>>

\* preciousblock: p gets the lowest sequence id so far.
PreciousBlock(p) ==
    /\ pc \in Unlocked
    /\ OperatorCall("preciousblock")
    /\ m_block_index[p].nChainWork >= m_block_index[tip].nChainWork
    /\ LET work == m_block_index[tip].nChainWork
           id   == IF work > precious.lastWork THEN -1 ELSE precious.next
           bi   == [m_block_index EXCEPT ![p].nSequenceId = id]
       IN  /\ precious' = [next |-> id - 1, lastWork |-> work]
           /\ m_block_index' = bi
           /\ candidates' = IF Eligible(bi, p) THEN PruneCandidates(bi, candidates \cup {p}, tip)
                                               ELSE candidates \ {p}
    /\ pending' = TRUE
    /\ UNCHANGED <<block, m_blocks_unlinked, nextSequenceId, m_dag_tips, m_failed_blocks, tip,
                   pc, abc, inv, m_dirty_blockindex, disk, crashes>>

---------------------------------------------------------------------------
(* The databases.                                                          *)

\* Mutant: the coins may be written without the block index.
WrittenCoinsOnly(d) == [index |-> d.index, best |-> tip]

\* A full flush: the dirty entries, then the coins.
Written(d) == [index |-> [b \in DOMAIN d.index \cup m_dirty_blockindex |->
                             IF b \in m_dirty_blockindex THEN OnDisk(m_block_index[b]) ELSE d.index[b]],
               best |-> tip]

\* FlushStateToDisk: the index alone (periodic write, or a crash before the
\* coins are written), or both.  Left out when no crash can follow.
FlushStateToDisk ==
    /\ crashes < MaxCrashes
    /\ pc \in Unlocked \cup {"step"}
    /\ disk' \in {Written(disk), [Written(disk) EXCEPT !.best = disk.best]}
    /\ m_dirty_blockindex' = {}
    /\ UNCHANGED <<block, memory, threads, crashes, operatorCalls>>

\* Mutant: a block with data counts as linked, whatever its ancestors have.
LoadEntryLinked(index_, b) ==
    LET chain == PrevChain(index_, b) IN
    [pprev |-> index_[b].pprev, vDagParents |-> index_[b].vDagParents,
     nHeight |-> index_[b].nHeight, nChainWork |-> MapThenSumSet(LAMBDA a : BlockWork[a], chain),
     dagData |-> DefaultData, haveData |-> index_[b].haveData,
     haveChainTx |-> index_[b].haveData,
     failed |-> index_[b].failed, scripts |-> index_[b].scripts, nSequenceId |-> 0]


\* LoadBlockIndex: work, complete chains and failed ancestors are worked out
\* again; dagData keeps its default and sequence ids are zero.
LoadEntry(index_, b) ==
    LET chain == PrevChain(index_, b) IN
    [pprev |-> index_[b].pprev, vDagParents |-> index_[b].vDagParents,
     nHeight |-> index_[b].nHeight, nChainWork |-> MapThenSumSet(LAMBDA a : BlockWork[a], chain),
     dagData |-> DefaultData, haveData |-> index_[b].haveData,
     haveChainTx |-> \A a \in chain : index_[a].haveData,
     failed |-> IF index_[b].failed = {} /\ \E a \in chain : index_[a].failed # {}
                THEN {"CHILD"} ELSE index_[b].failed,
     scripts |-> index_[b].scripts, nSequenceId |-> 0]

\* The process dies and starts again from the databases: LoadBlockIndex, then
\* LoadChainTip, whose PruneBlockIndexCandidates asserts that a candidate is
\* left.  The DAG tip set is not loaded.
Crash ==
    /\ crashes < MaxCrashes
    /\ crashes' = crashes + 1
    /\ LET bi    == [b \in DOMAIN disk.index |-> LoadEntry(disk.index, b)]
           cands == PruneCandidates(bi, {b \in DOMAIN bi : Eligible(bi, b)}, disk.best)
           unl   == {b \in DOMAIN bi : /\ bi[b].haveData /\ b # Genesis
                                       /\ ~bi[bi[b].pprev].haveChainTx}
       IN  /\ m_block_index' = bi
           /\ candidates' = cands
           /\ m_blocks_unlinked' = LET s == SetToSortSeq(unl, LAMBDA a, b :
                                               bi[a].nHeight < bi[b].nHeight
                                               \/ (bi[a].nHeight = bi[b].nHeight /\ a < b))
                                   IN  [i \in DOMAIN s |-> <<bi[s[i]].pprev, s[i]>>]
           /\ m_dirty_blockindex' = {b \in DOMAIN bi : bi[b].failed # disk.index[b].failed}
           /\ pc' = IF cands = {} THEN "aborted" ELSE "idle"
    /\ tip' = disk.best
    /\ m_failed_blocks' = {}
    /\ nextSequenceId' = 1
    /\ precious' = [next |-> -1, lastWork |-> 0]
    /\ m_dag_tips' = EmptyTipSet
    /\ abc' = NoActivate /\ inv' = NoInvalidate /\ pending' = TRUE
    /\ UNCHANGED <<block, disk, operatorCalls>>

Receive ==
    \E h \in Hash \ {Genesis} :
        \/ ReceiveHeader(h) \/ RefuseHeader(h)
        \/ IgnoreBlock(h) \/ RejectBody(h) \/ DeferBlock(h) \/ RejectDag(h) \/ AcceptBlock(h)

Operator ==
    \E p \in DOMAIN m_block_index :
        StartInvalidate(p) \/ ResetBlockFailureFlags(p) \/ PreciousBlock(p)

Next == Receive \/ Activate \/ Operator \/ Invalidate \/ FlushStateToDisk \/ Crash

\* The threads that hold m_chainstate_mutex or wait for it are scheduled.
Spec == Init /\ [][Next]_vars /\ WF_vars(Activate) /\ WF_vars(Invalidate)

---------------------------------------------------------------------------
(* Properties.  What CheckBlockIndex asserts is stated for the states in    *)
(* which cs_main is free and InvalidateBlock is not half way.  The first   *)
(* reconsiderblock ends some of them: it leaves cleared ancestors out of    *)
(* the candidates, and their other descendants failed.                      *)

Regular == "reconsiderblock" \notin operatorCalls.names

Checked == pc \in {"idle", "outer"} /\ Regular

FirstInvalid(b) == \E a \in PrevChain(m_block_index, b) : "VALID" \in m_block_index[a].failed

NeverProcessed(b) == \E a \in PrevChain(m_block_index, b) : ~m_block_index[a].haveData

\* Every entry is well formed and refers to indexed blocks, in memory and in
\* the database.
TypeOK ==
    /\ Genesis \in DOMAIN disk.index /\ disk.best \in DOMAIN disk.index
    /\ \A b \in DOMAIN disk.index :
          disk.index[b].vDagParents \cup ({disk.index[b].pprev} \ {NullHash}) \subseteq DOMAIN disk.index
    /\ DOMAIN m_block_index \subseteq Hash /\ tip \in DOMAIN m_block_index
    /\ \A b \in DOMAIN m_block_index :
          /\ Parents(m_block_index, b) \subseteq DOMAIN m_block_index
          /\ m_block_index[b].failed \subseteq {"VALID", "CHILD"}
    /\ candidates \cup m_failed_blocks \cup DOMAIN m_dag_tips.m_hash_to_score \subseteq DOMAIN m_block_index

\* setBlockIndexCandidates holds every block with a complete chain, without
\* an invalid ancestor, that does not sort below the tip, and none that
\* sorts below the tip or has an incomplete chain.
CandidatesExact ==
    Checked => \A b \in DOMAIN m_block_index :
        IF Worse(m_block_index, b, tip) \/ NeverProcessed(b)
        THEN b \notin candidates
        ELSE FirstInvalid(b) \/ b \in candidates

\* A block with data whose chain is incomplete waits in m_blocks_unlinked,
\* unless it descends from an invalid block; no other block does.  The chain
\* is known to be complete exactly when it is.
UnlinkedExact ==
    Checked => \A b \in DOMAIN m_block_index \ {Genesis} :
        LET waits == <<m_block_index[b].pprev, b>> \in Range(m_blocks_unlinked) IN
        /\ m_block_index[b].haveData /\ NeverProcessed(b) /\ ~FirstInvalid(b) => waits
        /\ waits => m_block_index[b].haveData /\ NeverProcessed(b)
        /\ m_block_index[b].haveChainTx <=> ~NeverProcessed(b)

\* A block marked as failed is invalid or descends from an invalid block.
FailedHasCause ==
    Checked => \A b \in DOMAIN m_block_index : Failed(m_block_index, b) => FirstInvalid(b)

\* AcceptBlockHeader asserts of every block of m_failed_blocks that it is
\* marked as invalid itself, whatever the operator marked and cleared.
FailedBlocksAreInvalid == \A b \in m_failed_blocks : "VALID" \in m_block_index[b].failed

\* The keys by which the set of candidates is sorted do not change while a
\* block is in the set (preciousblock takes it out first).
SortKeysFixed ==
    [][crashes' = crashes => \A b \in candidates \cap candidates' :
          /\ m_block_index'[b].nChainWork = m_block_index[b].nChainWork
          /\ m_block_index'[b].dagData.blue_work = m_block_index[b].dagData.blue_work
          /\ \/ m_block_index'[b].nSequenceId = m_block_index[b].nSequenceId
             \/ precious' # precious]_vars

\* cs_main is never released by ActivateBestChain with a tip that is worse
\* than the one it took over.
NeverReleasedWorse ==
    [][pc \notin Unlocked /\ pc' \in Unlocked /\ crashes' = crashes =>
          ~Worse(m_block_index, tip, abc.starting)]_vars

\* When nobody is about to call ActivateBestChain the tip is a block that no
\* block with a complete and valid chain beats.
QuiescentTipIsBest ==
    pc = "idle" /\ ~pending /\ Regular =>
        \A b \in DOMAIN m_block_index :
            \/ NeverProcessed(b)
            \/ \E a \in PrevChain(m_block_index, b) : Failed(m_block_index, a)
            \/ ~Worse(m_block_index, tip, b)

\* A stored block is linked to all parents its header names, however late
\* their headers came and whatever was lost in a crash.
StoredParentsComplete ==
    \A b \in DOMAIN m_block_index \ {Genesis} :
        m_block_index[b].haveData => m_block_index[b].vDagParents = block[b].hashParents

\* PruneBlockIndexCandidates' assertion holds when the node starts again.
StartsAgain == pc # "aborted"


\* While InvalidateBlock takes the chain down, other threads find every block
\* that was there when it began and does not sort below the current tip among
\* the candidates.  A preciousblock in between prunes equal-work blocks that
\* are found again only by the final scan.
InvalidateKeepsCandidates ==
    pc = "invalidate" /\ operatorCalls.names = {"invalidateblock"} => \A b \in DOMAIN m_block_index :
        Eligible(m_block_index, b) /\ m_block_index[b].nSequenceId < inv.since
            /\ ~Worse(m_block_index, b, tip) => b \in candidates

\* A candidate that beats the tip does not do so forever: it is connected,
\* overtaken or dropped.
CandidateResolved ==
    \A b \in Hash : (b \in candidates /\ Worse(m_block_index, tip, b))
                       ~> ~(b \in candidates /\ Worse(m_block_index, tip, b))
=============================================================================
