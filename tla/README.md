# A TLA+ verification of QuantumBTC

QuantumBTC is a fork of Bitcoin Core whose blocks form a DAG: a block names a
previous block and, in `hashParents`, further parents, and GHOSTDAG colours
and scores what it merges.  Around the node the repository keeps a lock
contract for swaps against USDC, a mining pool, and wallets.  This directory
models the parts where state, order and concurrency matter, checks the models
with TLC, and proves the central facts with TLAPS.

## The system and what is modelled

| Part | Code | Modules | Status |
|---|---|---|---|
| GHOSTDAG algorithm | `src/dag/ghostdag.*`, `ghostdag_blockindex.h` | `Ghostdag`, `DagOrder` | modelled |
| DAG tip set | `src/dag/dagtipset.*` | `DagTipSet` | all but `BlockDisconnected` |
| DAG part of block acceptance | `src/validation.cpp`, `src/node/blockstorage.cpp` | `BlockDag` | modelled, proved |
| Block index, chain selection, operator calls, databases | same | `Node` | most |
| Parents of a block template | `src/node/miner.cpp` | `NodeClaims` | parents only |
| EVM lock contract | `contrib/evm-htlc` | `Htlc`, `Escrow` | modelled, proved |
| Early protection | `src/earlyprotection.h` | - | planned |
| DAG difficulty | `src/pow.cpp` | - | planned |
| Mining pool | `contrib/qbtc-pool` | - | planned |
| Hybrid signatures, PQC primitives, signature cache | `src/crypto/pqc`, `src/consensus/pqc_*`, `src/script` | - | no |
| Wallet, RPC, P2P, mempool, scripts | upstream code and clients | - | no |

How they interact: P2P code hands headers and blocks to validation in whatever
order they come.  `AcceptBlockHeader` indexes a header; `AcceptBlock` scores
the block with GHOSTDAG against its parents, stores it, links waiting blocks,
and makes it a DAG tip.  `ActivateBestChain` then moves the active chain to the
best candidate, one block per step, and lets go of `cs_main` between rounds.
A template takes the chain tip as previous block and the DAG tips as further
parents.  The index and the coins are written to two databases now and then;
scores and tips live in memory only.

Not modelled, and why: cryptography and its caches (numerical code, hash
contents); wallets and scripts (clients of RPCs); the mempool, block files,
undo data, pruning and assumed-valid snapshots (upstream code that the DAG
does not touch); P2P scheduling (its effect, arbitrary arrival, is the
environment of `Node`).

## Modules

`Ghostdag` has no variables.  Its operators are the functions of
`GhostdagManager` over a block index: `SelectBestParent`, `ComputeMergeset`,
`AntiConeBlueCount`, `ClassifyMergeset`, `ComputeGhostdag`, and the ancestry
search `IsAncestorOf` of `BlockIndexGhostdagProvider` with its height bound.
Hashes are numbers, so that ties broken by hash are broken in every way.

`DagTipSet` has the three members of `DagTipSet` (the sorted set, the map of
scores and the map of known scores) as a record.

`BlockDag` is a node that receives every block once, whole and after its
parents.  State: `m_block_index` and `m_dag_tips`.  `AcceptBlock` is the whole
path of a good block (header rules, indexing, scoring, storing, tip set),
`RejectBlock` that of a block whose mergeset is too large: its header stays
indexed.  `DagOrder` adds the two derived orders (`TopologicalOrder`, virtual
selected parent chain) and the reference definitions they are compared with.

`Node` drops those restrictions.  Each action is one critical section of
`cs_main`, or one step inside the long section of `ActivateBestChain`.

| Action | Code |
|---|---|
| `ReceiveHeader`, `RefuseHeader` | `AcceptBlockHeader` |
| `IgnoreBlock`, `RejectBody`, `DeferBlock`, `RejectDag`, `AcceptBlock` | exits of `AcceptBlock`; the last includes `ReceivedBlockTransactions` |
| `Activate` (`StartActivate`, `LockMain`, `ChooseMostWork`, `DropFailedChain`, ..., `ConnectTip`, `InvalidBlockFound`, `AfterStep`) | `ActivateBestChain`, `ActivateBestChainStep`, `FindMostWorkChain` |
| `StartInvalidate`, `InvalidateTip`, `FinishInvalidate` | `InvalidateBlock`, which releases `cs_main` after every block |
| `ResetBlockFailureFlags`, `PreciousBlock` | `reconsiderblock`, `preciousblock` |
| `FlushStateToDisk` | both databases, or the index alone |
| `Crash` | end of the process, `LoadBlockIndex`, `LoadChainTip` |

`pc` is where the holder of `m_chainstate_mutex` stands; headers and blocks may
arrive whenever `cs_main` is free.  The blocks that exist are chosen at the
start from `Networks`: previous block, further parents, validity of the body.
In the instances of `MCNode` a parent has a lower hash than its child.

`Htlc` is the contract `QBTCUSDCHTLC` with the token it escrows.  A call is a
transaction: it runs alone (`nonReentrant`) and leaves nothing behind when it
reverts, so an action is a call that succeeds, and its guard collects all the
reverts, the token's included.  Ids are the tuples that the code hashes, and
hash functions are free of collisions.  Anybody makes any call with any
argument; anybody may send tokens to the contract besides.  A lock for the
contract itself is possible, as in the code, and pays nobody.  Reasons of the
token to refuse a transfer other than balance and allowance are left out.

`Escrow` is what the contract promises: a deal is paid for by its owner and its
money leaves it once, to the payee before the deadline or to the owner from
then on.  It knows no hashes, nonces, allowances or escrow account.

`MCDag`, `MCNode` and `MCHtlc` give constants their values.  `DagClaims` and
`NodeClaims` state what comments of the code say and the code does not do.
`BlockDag_proofs` and `Htlc_proofs` hold the proofs.  An operator commented
"Mutant" is a deliberately wrong variant of the definition that follows it,
there to show that a property notices the difference.

## Runs

| Run | Question | Bounds |
|---|---|---|
| `dag_small` | Do scores grow along every edge, are the tips exactly the leaves, do the three members of the tip set agree, is the best block always mined on, are both derived orders right? | 5 blocks, up to 3 extra parents, K = 1, all labellings by hash, a mergeset cap of 3 so that blocks are refused |
| `dag_six` | Do ancestry, mergeset, blue score and the cut at 2K+1 equal their textbook definitions? | 6 blocks, 1 extra parent; a new block's hash is the lowest or the highest left |
| `node` | Are candidates and waiting blocks exact, is the tip best when all is quiet, is a better candidate always dealt with? | trees and DAGs of 4 blocks, any order of headers and bodies, invalid bodies, mergeset cap 2 |
| `node_crash` | Does it survive one crash at any point, with the databases apart? | a bad block and its descendants, diamonds; 4 blocks |
| `node_operator` | And two operator calls at any point? | branchings of 4 blocks |
| `htlc` | Is the contract solvent, has every open lock exactly one way out, does it implement `Escrow`? | 2 accounts, 2 locks, amounts 0 to 2, 4 instants |
| `claim_kcluster` | *violated:* a blue block has at most K blues in its anticone | 6 blocks at most |
| `claim_blue_work` | *violated:* `blue_work` accumulates the work of the blue blocks | |
| `claim_rebuilt` | *violated:* DAG data are rebuilt on load | one crash |
| `claim_template` | *violated:* the further parents of a template are concurrent with its previous block | |
| `claim_context` | *violated:* a block is scored only on parents that have their own score | |
| `claim_dag_parent` | *violated:* an extra parent is not invalid | |

Why the bounds are enough.  K = 1 is the least value with both colours; a
mergeset that has a blue and a red block needs five blocks, a chain that is
longer than 2K+1 needs six.  With four blocks a node can have two branches of
different length, a gap that closes late, an invalid block between valid ones
and a diamond.  Four instants and a least lock time of one give a lock two
instants before and one after its timelock; two locks of different amounts are
what it takes for one to be paid with the money of the other.

`dag_six` compares with the textbook only DAGs in which heights grow along
edges and no parent is an ancestor of another; see the departures below for
the rest.  Runs do not check for deadlock: with all blocks received, or all
locks settled at the last instant, there is nothing left to do.

Fairness.  `Spec` of `Node` is fair to `Activate` and to `Invalidate`: the
thread that holds `m_chainstate_mutex`, or waits for it to activate the best
chain, is scheduled by the operating system and never waits for the network.
Nothing is assumed of arrivals, operator calls, flushes or crashes.
`CandidateResolved` is the liveness property: a candidate that beats the tip
does not stay so for ever.  `Htlc` assumes no fairness, since nobody has to
call; instead `OneWayOut` says which calls would succeed.

## Proofs

`BlockDag_proofs` proves, for all values of the constants, that `BlockDag`
keeps `TypeOK`, `ScoreAboveParents`, `TipsAreLeaves` and `TipIndexesAgree`, and
that a best tip is among the mining parents (`BestBlockMined`).  The inductive
invariant `IInv` is their conjunction with `GenesisIsRoot`.  Each needs the
others: that the tip set loses exactly the parents of a new block takes the
agreement of its members; that the score of a new block exceeds those of all
its parents takes that the selected parent is the best of them and that types
are kept; and genesis, which never was a tip, must be told apart.  What
mergesets and colours are does not enter, only that the number of blues is
natural.  Assumed of the constants: hashes are positive numbers, genesis is
one of them, works are positive.

`Htlc_proofs` proves `TypeOK` (no balance goes below zero), `IdsAreFresh` and
`SecretShownIffPaid`, whose conjunction is inductive, and `Implements`, that
`Htlc` implements `Escrow` under the mapping that keeps of a record its
parties, amount, timelock and status, and of the balances those of the
accounts.  A call to `_initiate` opens a deal under a fresh name, `withdraw`
pays one, `refund` returns one, a donation spends, an approval stutters.
Assumed: the contract and the zero address are not accounts, the zero preimage
is a preimage, amounts are naturals, the least lock time is positive.

Only model-checked: everything about `Node`; liveness; `OneWayOut`, which is
about which calls are enabled; `Solvent`, a sum over a set, whose proof takes
induction over that set; and what recursive definitions compute (ancestry,
mergesets, orders).

## Where the code departs from what is said of it

Six departures are runs (above), each with its finding in `PROJECT.json`.
Others were met with TLC while the modules were written.  They are recorded
here and limit some properties; no run is kept for them.

- The height bound of `IsBlockAncestor` may hide an ancestor, as an extra parent
  may be higher than its child (`ghostdag_blockindex.h:83`: "never returns a
  wrong answer").
- A parent that is an ancestor of another parent enters the mergeset although it
  is in the selected parent's past, and is then counted again in the blue score
  (`ghostdag.h:170`); with such parents the cut at 2K+1 changes colours.
- A block whose body comes after that of its child becomes a tip that has a
  child (`dagtipset.h:13`).  Genesis never is a tip.  After a restart the tip set
  is empty until the next block (`miner.cpp:187`: "holds all current leaf
  blocks").
- `invalidateblock` leaves every block it disconnected marked
  `BLOCK_FAILED_VALID`, not only the last (`validation.cpp:3783`).
- A block that arrives under a failed, incomplete parent is not put into
  `m_blocks_unlinked`; `UnlinkedExact` leaves descendants of invalid blocks out.
- `reconsiderblock` clears ancestors without making them candidates, and leaves
  their other descendants failed.  `CandidatesExact`, `UnlinkedExact`,
  `FailedHasCause` and `QuiescentTipIsBest` are stated up to the first one.
- With `invalidateblock`, a write of the index alone and a crash, the node finds
  no candidate when it starts (`validation.cpp:3376`).  `StartsAgain` is checked
  without operator calls.
- A `preciousblock` while `invalidateblock` is under way prunes blocks of equal
  work that only its final scan finds again.

## Plan

1. `EarlyProtection`: peers, weights, the window, and the weights pending between
   `net_processing.cpp` and `AcceptBlock`, with duplicate and refused blocks and
   disconnects; composed with the acceptance of blocks.
2. `Pool`: share accounting, job history and payouts, with lost and late answers
   of the node, checked against an abstract ledger.
3. `DagDaa`: the moving averages, clamps and load multiplier as functions, checked
   against their bounds over short chains, with their integer widths.
4. The tip set with `BlockDisconnected`, and the other leg of the swap: the lock on
   the QBTC side and the order of the two timelocks, over `Htlc`.
5. Proofs: an inductive invariant for the candidates of `Node` without operator
   calls, and for `EarlyProtection` and `Pool` what their runs check.

Claims give way to these modules where a run is needed for them; what they show
then joins the list of departures.
