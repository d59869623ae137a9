-------------------------------- MODULE Htlc --------------------------------
(***************************************************************************)
(* The contract QBTCUSDCHTLC, the EVM leg of a QBTC-USDC swap, with the    *)
(* token it escrows.  A call is one transaction: it runs alone             *)
(* (nonReentrant keeps even the token from calling back in) and a revert   *)
(* undoes all of it, so an action is a call that succeeds, and its guard   *)
(* is the conjunction of what the call, and the token transfer it ends     *)
(* with, would revert on.  Anybody may make any call with any arguments.   *)
(***************************************************************************)
EXTENDS Naturals, FiniteSetsExt

CONSTANTS Accounts,       \* externally owned accounts, the possible msg.sender
          This,           \* address(this)
          ZeroAddress,    \* address(0)
          Preimages,      \* 32-byte values
          ZeroPreimage,   \* bytes32(0)
          Amounts,        \* token amounts, 0 among them
          MIN_LOCKTIME,   \* 1 hours
          InitialFunds,   \* tokens of every account at the start
          MaxTime,        \* bound on block.timestamp
          MaxLocks        \* bound on the number of locks

ASSUME HtlcAssumption ==
    /\ This \notin Accounts /\ ZeroAddress \notin Accounts \cup {This}
    /\ ZeroPreimage \in Preimages
    /\ Amounts \subseteq Nat
    /\ MIN_LOCKTIME \in Nat \ {0}
    /\ InitialFunds \in [Accounts -> Nat] /\ MaxTime \in Nat /\ MaxLocks \in Nat

VARIABLES timestamp,   \* block.timestamp
          nonces,      \* locks made by every account
          contracts,   \* _contracts, on the ids whose amount is not zero
          balances,    \* the token's balances
          allowances   \* what This may take from every account

vars == <<timestamp, nonces, contracts, balances, allowances>>

Addresses == Accounts \cup {This, ZeroAddress}

\* Whom a lock may be for; a lock for the contract itself pays nobody.
Receivers == Accounts \cup {This}

Hashlocks == {<<"sha256", p>> : p \in Preimages}

\* sha256(), free of collisions.
sha256(p) == <<"sha256", p>>

\* The key of a lock is the keccak256 digest of these, free of collisions.
contractId(sender, receiver, amount, hashlock, timelock, nonce) ==
    [sender |-> sender, receiver |-> receiver, amount |-> amount,
     hashlock |-> hashlock, timelock |-> timelock, nonce |-> nonce]

Ids == [sender : Accounts, receiver : Receivers, amount : Nat,
        hashlock : Hashlocks, timelock : Nat, nonce : Nat]

LockContract ==
    [sender : Accounts, receiver : Receivers, amount : Nat \ {0},
     hashlock : Hashlocks, timelock : Nat, withdrawn : BOOLEAN, refunded : BOOLEAN,
     preimage : Preimages]

Init ==
    /\ timestamp = 0
    /\ nonces = [a \in Accounts |-> 0]
    /\ contracts = << >>
    /\ balances = [a \in Accounts \cup {This} |->
                     IF a = This THEN 0 ELSE InitialFunds[a]]
    /\ allowances = [a \in Accounts |-> 0]

-----------------------------------------------------------------------------
(* The token *)

\* Mutant: a token that keeps a fee of every transfer.
MovedLessFee(from, to, n) ==
    LET taken == [balances EXCEPT ![from] = @ - n]
    IN  [taken EXCEPT ![to] = @ + n - 1]

\* A transfer, to oneself included.
Moved(from, to, n) ==
    LET taken == [balances EXCEPT ![from] = @ - n]
    IN  [taken EXCEPT ![to] = @ + n]

\* TOKEN.approve(this, n)
Approve(a, n) ==
    /\ allowances' = [allowances EXCEPT ![a] = n]
    /\ UNCHANGED <<timestamp, nonces, contracts, balances>>

\* TOKEN.transfer(this, n): tokens sent to the contract outside of any lock.
Donate(a, n) ==
    /\ balances[a] >= n
    /\ balances' = Moved(a, This, n)
    /\ UNCHANGED <<timestamp, nonces, contracts, allowances>>

Tick ==
    /\ timestamp < MaxTime
    /\ timestamp' = timestamp + 1
    /\ UNCHANGED <<nonces, contracts, balances, allowances>>

-----------------------------------------------------------------------------
(* Initiation *)

Exists(id) == id \in DOMAIN contracts

\* Mutant: the receiver is not checked.
AnyReceiverOk(receiver, timelock, amount) ==
    /\ amount # 0
    /\ timelock >= timestamp + MIN_LOCKTIME

TermsOk(receiver, timelock, amount) ==
    /\ receiver # ZeroAddress
    /\ amount # 0
    /\ timelock >= timestamp + MIN_LOCKTIME

\* Mutant: the nonce is read and not incremented.
NonceKept(sender) == nonces

NonceTaken(sender) == [nonces EXCEPT ![sender] = @ + 1]

\* _initiate with the allowance the token finds
InitiateFrom(sender, receiver, hashlock, timelock, amount, allowance) ==
    LET nonce == nonces[sender]
        id == contractId(sender, receiver, amount, hashlock, timelock, nonce)
        lock == [sender |-> sender, receiver |-> receiver, amount |-> amount,
                 hashlock |-> hashlock, timelock |-> timelock,
                 withdrawn |-> FALSE, refunded |-> FALSE,
                 preimage |-> ZeroPreimage]
    IN  /\ TermsOk(receiver, timelock, amount)
        /\ ~Exists(id)
        /\ balances[sender] >= amount /\ allowance >= amount
        /\ Cardinality(DOMAIN contracts) < MaxLocks
        /\ nonces' = NonceTaken(sender)
        /\ contracts' = [i \in DOMAIN contracts \cup {id} |->
                           IF i = id THEN lock ELSE contracts[i]]
        /\ balances' = Moved(sender, This, amount)
        /\ allowances' = [allowances EXCEPT ![sender] = allowance - amount]
        /\ UNCHANGED timestamp

Initiate(sender, receiver, hashlock, timelock, amount) ==
    InitiateFrom(sender, receiver, hashlock, timelock, amount, allowances[sender])

\* The permit replaces whatever the sender had approved.
InitiateWithPermit(sender, receiver, hashlock, timelock, amount) ==
    InitiateFrom(sender, receiver, hashlock, timelock, amount, amount)

-----------------------------------------------------------------------------
(* Settlement *)

\* Mutant: a refund does not bar another one.
NotWithdrawn(id) == Exists(id) /\ ~contracts[id].withdrawn

\* The checks withdraw and refund share
Settleable(id) ==
    /\ Exists(id)
    /\ ~contracts[id].withdrawn
    /\ ~contracts[id].refunded

\* Mutant: the preimage is emitted and not stored.
WithdrawnSilently(c, preimage) == [c EXCEPT !.withdrawn = TRUE]

WithdrawnWith(c, preimage) ==
    [c EXCEPT !.preimage = preimage, !.withdrawn = TRUE]

\* Mutant: a lock may still be withdrawn at its timelock.
WithdrawalInTime(c) == timestamp <= c.timelock

BeforeTimelock(c) == timestamp < c.timelock

Withdraw(id, preimage) ==
    LET c == contracts[id]
    IN  /\ Settleable(id)
        /\ preimage # ZeroPreimage
        /\ BeforeTimelock(c)
        /\ c.hashlock = sha256(preimage)
        /\ balances[This] >= c.amount
        /\ contracts' = [contracts EXCEPT ![id] = WithdrawnWith(c, preimage)]
        /\ balances' = Moved(This, c.receiver, c.amount)
        /\ UNCHANGED <<timestamp, nonces, allowances>>

Refund(id) ==
    LET c == contracts[id]
    IN  /\ Settleable(id)
        /\ timestamp >= c.timelock
        /\ balances[This] >= c.amount
        /\ contracts' = [contracts EXCEPT ![id].refunded = TRUE]
        /\ balances' = Moved(This, c.sender, c.amount)
        /\ UNCHANGED <<timestamp, nonces, allowances>>

Next ==
    \/ Tick
    \/ \E a \in Accounts, n \in Amounts : Approve(a, n) \/ Donate(a, n)
    \/ \E sender \in Accounts, receiver \in Addresses, hashlock \in Hashlocks,
          timelock \in 0..MaxTime, amount \in Amounts :
            \/ Initiate(sender, receiver, hashlock, timelock, amount)
            \/ InitiateWithPermit(sender, receiver, hashlock, timelock, amount)
    \/ \E id \in DOMAIN contracts :
            \/ \E preimage \in Preimages : Withdraw(id, preimage)
            \/ Refund(id)

Spec == Init /\ [][Next]_vars

-----------------------------------------------------------------------------
(* Properties *)

OpenLocks ==
    {id \in DOMAIN contracts :
        ~contracts[id].withdrawn /\ ~contracts[id].refunded}

OpenAmount == MapThenSumSet(LAMBDA id : contracts[id].amount, OpenLocks)

\* Every variable keeps its type; a record lies under the id made of its own
\* terms (struct LockContract, nonces, _contracts).
TypeOK ==
    /\ timestamp \in Nat
    /\ nonces \in [Accounts -> Nat]
    /\ balances \in [Accounts \cup {This} -> Nat]
    /\ allowances \in [Accounts -> Nat]
    /\ contracts \in [DOMAIN contracts -> LockContract]
    /\ DOMAIN contracts \subseteq Ids

\* The contract holds the tokens of all its open locks together, whatever was
\* withdrawn, refunded or sent to it besides (withdraw, refund, _initiate).
Solvent == balances[This] >= OpenAmount

\* An open lock has exactly one way out at any time: before its timelock
\* whoever knows the preimage of its hashlock can withdraw it, from the
\* timelock on anybody can refund it, and the transfer of neither call fails.
\* A lock on the hash of the zero preimage has only the second (withdraw,
\* refund).
OneWayOut ==
    \A id \in OpenLocks :
        LET c == contracts[id]
            withdrawable == \E p \in Preimages : ENABLED Withdraw(id, p)
        IN  /\ withdrawable <=> /\ timestamp < c.timelock
                                /\ c.hashlock # sha256(ZeroPreimage)
            /\ ENABLED Refund(id) <=> timestamp >= c.timelock

\* Nonces below the sender's are the ones taken, so the test for a colliding
\* id never refuses a lock, were it equal to an earlier one in every term
\* (_initiate).
IdsAreFresh ==
    /\ \A id \in DOMAIN contracts : id.nonce < nonces[id.sender]
    /\ \A id1, id2 \in DOMAIN contracts :
          id1.sender = id2.sender /\ id1.nonce = id2.nonce => id1 = id2

\* The record shows a preimage exactly when the lock was withdrawn, it is then
\* the one that opens the other leg of the swap, and no lock was both
\* withdrawn and refunded (withdraw, getContract).
SecretShownIffPaid ==
    \A id \in DOMAIN contracts :
        LET c == contracts[id]
        IN  /\ c.withdrawn <=> c.preimage # ZeroPreimage
            /\ c.withdrawn => c.hashlock = sha256(c.preimage) /\ ~c.refunded

-----------------------------------------------------------------------------
(* The promise of the contract *)

Status(c) ==
    IF c.withdrawn THEN "paid" ELSE IF c.refunded THEN "returned" ELSE "open"

DealOf(c) ==
    [owner |-> c.sender, payee |-> c.receiver, amount |-> c.amount,
     deadline |-> c.timelock, status |-> Status(c)]

E == INSTANCE Escrow
     WITH Payees <- Receivers,
          clock <- timestamp,
          purse <- [a \in Accounts |-> balances[a]],
          deals <- [id \in DOMAIN contracts |-> DealOf(contracts[id])]

\* The contract is an escrow: the tokens of a lock go once, whole, to the
\* receiver before the timelock or to the sender from then on, and no other
\* call changes what an account holds or what a lock says.
IsEscrow == E!Spec
=============================================================================
