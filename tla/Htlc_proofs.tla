----------------------------- MODULE Htlc_proofs ----------------------------
(***************************************************************************)
(* The lock contract keeps its records straight and implements the         *)
(* abstract escrow, for every set of accounts, amounts and times.          *)
(***************************************************************************)
EXTENDS Htlc, TLAPS

USE HtlcAssumption

\* The inductive invariant: what a settlement does to an account is right
\* only if records and balances have their types, and the id of a new lock is
\* new only if nonces run ahead of ids.
IInv == TypeOK /\ IdsAreFresh /\ SecretShownIffPaid

\* What a transfer from one holder of tokens to another leaves them with.
LEMMA MovedType ==
    ASSUME TypeOK,
           NEW from \in Accounts \cup {This}, NEW to \in Accounts \cup {This},
           NEW n \in Nat, balances[from] >= n
    PROVE  /\ Moved(from, to, n) \in [Accounts \cup {This} -> Nat]
           /\ \A a \in Accounts \cup {This} :
                Moved(from, to, n)[a] =
                  IF from = to THEN balances[a]
                  ELSE IF a = from THEN balances[a] - n
                  ELSE IF a = to THEN balances[a] + n ELSE balances[a]
BY DEF TypeOK, Moved

\* The state at deployment satisfies the invariant.
LEMMA InitIInv == Init => IInv
<1> SUFFICES ASSUME Init PROVE IInv
    OBVIOUS
<1>1. DOMAIN contracts = {}
    BY DEF Init
<1>2. TypeOK
    BY <1>1 DEF Init, TypeOK
<1>3. IdsAreFresh /\ SecretShownIffPaid
    BY <1>1 DEF IdsAreFresh, SecretShownIffPaid
<1> QED
    BY <1>2, <1>3 DEF IInv

\* Creating a lock preserves the invariant.
LEMMA InitiateIInv ==
    ASSUME IInv,
           NEW sender \in Accounts, NEW receiver \in Addresses,
           NEW hashlock \in Hashlocks, NEW timelock \in Nat, NEW amount \in Nat,
           NEW allowance \in Nat,
           InitiateFrom(sender, receiver, hashlock, timelock, amount, allowance)
    PROVE  IInv'
<1> DEFINE id == contractId(sender, receiver, amount, hashlock, timelock, nonces[sender])
           lock == [sender |-> sender, receiver |-> receiver, amount |-> amount,
                    hashlock |-> hashlock, timelock |-> timelock,
                    withdrawn |-> FALSE, refunded |-> FALSE,
                    preimage |-> ZeroPreimage]
<1>1. /\ receiver \in Receivers
      /\ amount \in Nat \ {0} /\ balances[sender] >= amount /\ allowance >= amount
      /\ timestamp' = timestamp
      /\ nonces' = [nonces EXCEPT ![sender] = @ + 1]
      /\ contracts' = [i \in DOMAIN contracts \cup {id} |->
                         IF i = id THEN lock ELSE contracts[i]]
      /\ balances' = Moved(sender, This, amount)
      /\ allowances' = [allowances EXCEPT ![sender] = allowance - amount]
    BY DEF InitiateFrom, TermsOk, NonceTaken, Addresses, Receivers
<1>2. TypeOK /\ IdsAreFresh /\ SecretShownIffPaid
    BY DEF IInv
<1>3. id \in Ids /\ lock \in LockContract /\ id.sender = sender /\ id.nonce = nonces[sender]
    BY <1>1, <1>2 DEF TypeOK, Ids, LockContract, contractId
<1>4. TypeOK'
  <2>1. balances' \in [Accounts \cup {This} -> Nat]
      BY <1>1, <1>2, MovedType
  <2>2. contracts' \in [DOMAIN contracts' -> LockContract] /\ DOMAIN contracts' \subseteq Ids
      BY <1>1, <1>2, <1>3 DEF TypeOK
  <2>3. nonces' \in [Accounts -> Nat] /\ allowances' \in [Accounts -> Nat] /\ timestamp' \in Nat
      BY <1>1, <1>2 DEF TypeOK
  <2> QED
      BY <2>1, <2>2, <2>3 DEF TypeOK
<1>5. IdsAreFresh'
  <2> HIDE DEF id
  <2>1. \A i \in DOMAIN contracts : i.sender \in Accounts /\ i.nonce \in Nat
      BY <1>2 DEF TypeOK, Ids
  <2>2. \A i \in DOMAIN contracts' : i = id \/ i \in DOMAIN contracts
      BY <1>1
  <2>3. \A i \in DOMAIN contracts : i.sender = sender => i.nonce < nonces[sender]
      BY <1>2 DEF IdsAreFresh
  <2>4. nonces[sender] \in Nat
      BY <1>2 DEF TypeOK
  <2>5. \A i \in DOMAIN contracts' : i.nonce < nonces'[i.sender]
      BY <1>1, <1>2, <1>3, <2>1, <2>2, <2>4 DEF IdsAreFresh, TypeOK
  <2>6. \A i1, i2 \in DOMAIN contracts' :
           i1.sender = i2.sender /\ i1.nonce = i2.nonce => i1 = i2
      BY <1>2, <1>3, <2>1, <2>2, <2>3, <2>4 DEF IdsAreFresh
  <2> QED
      BY <2>5, <2>6 DEF IdsAreFresh
<1>6. SecretShownIffPaid'
    BY <1>1, <1>2 DEF SecretShownIffPaid
<1> QED
    BY <1>4, <1>5, <1>6 DEF IInv

\* Settling a lock by withdraw preserves the invariant.
LEMMA WithdrawIInv ==
    ASSUME IInv, NEW id \in DOMAIN contracts, NEW preimage \in Preimages,
           Withdraw(id, preimage)
    PROVE  IInv'
<1>1. TypeOK /\ IdsAreFresh /\ SecretShownIffPaid
    BY DEF IInv
<1>2. contracts[id] \in LockContract
    BY <1>1 DEF TypeOK
<1>3. contracts' = [contracts EXCEPT ![id] =
                      [contracts[id] EXCEPT !.preimage = preimage, !.withdrawn = TRUE]]
    BY DEF Withdraw, WithdrawnWith
<1>4. TypeOK'
  <2>1. balances' \in [Accounts \cup {This} -> Nat]
    <3>1. /\ contracts[id].receiver \in Accounts \cup {This} /\ contracts[id].amount \in Nat
          /\ balances[This] >= contracts[id].amount
          /\ balances' = Moved(This, contracts[id].receiver, contracts[id].amount)
        BY <1>2 DEF Withdraw, LockContract, Receivers
    <3> QED
        BY <1>1, <3>1, MovedType
  <2>2. contracts' \in [DOMAIN contracts' -> LockContract] /\ DOMAIN contracts' \subseteq Ids
      BY <1>1, <1>2, <1>3 DEF TypeOK, LockContract
  <2> QED
      BY <1>1, <2>1, <2>2 DEF TypeOK, Withdraw
<1>5. IdsAreFresh'
    BY <1>1, <1>3 DEF IdsAreFresh, Withdraw
<1>6. SecretShownIffPaid'
  <2>1. preimage # ZeroPreimage /\ contracts[id].hashlock = sha256(preimage) /\ ~contracts[id].refunded
      BY DEF Withdraw, Settleable
  <2>2. ASSUME NEW i \in DOMAIN contracts
        PROVE  /\ contracts'[i].withdrawn <=> contracts'[i].preimage # ZeroPreimage
               /\ contracts'[i].withdrawn =>
                    /\ contracts'[i].hashlock = sha256(contracts'[i].preimage)
                    /\ ~contracts'[i].refunded
    <3>1. CASE i = id
        BY <1>1, <1>2, <1>3, <2>1, <3>1 DEF TypeOK, LockContract
    <3>2. CASE i # id
        BY <1>1, <1>3, <3>2 DEF TypeOK, SecretShownIffPaid
    <3> QED
        BY <3>1, <3>2
  <2>3. DOMAIN contracts' = DOMAIN contracts
      BY <1>1, <1>3 DEF TypeOK
  <2> QED
      BY <2>2, <2>3 DEF SecretShownIffPaid, sha256
<1> QED
    BY <1>4, <1>5, <1>6 DEF IInv

\* Settling a lock by refund preserves the invariant.
LEMMA RefundIInv ==
    ASSUME IInv, NEW id \in DOMAIN contracts, Refund(id)
    PROVE  IInv'
<1>1. TypeOK /\ IdsAreFresh /\ SecretShownIffPaid
    BY DEF IInv
<1>2. contracts[id] \in LockContract
    BY <1>1 DEF TypeOK
<1>3. contracts' = [contracts EXCEPT ![id] = [contracts[id] EXCEPT !.refunded = TRUE]]
    BY DEF Refund
<1>4. TypeOK'
  <2>1. balances' \in [Accounts \cup {This} -> Nat]
    <3>1. /\ contracts[id].sender \in Accounts \cup {This} /\ contracts[id].amount \in Nat
          /\ balances[This] >= contracts[id].amount
          /\ balances' = Moved(This, contracts[id].sender, contracts[id].amount)
        BY <1>2 DEF Refund, LockContract
    <3> QED
        BY <1>1, <3>1, MovedType
  <2>2. contracts' \in [DOMAIN contracts' -> LockContract] /\ DOMAIN contracts' \subseteq Ids
      BY <1>1, <1>2, <1>3 DEF TypeOK, LockContract
  <2> QED
      BY <1>1, <2>1, <2>2 DEF TypeOK, Refund
<1>5. IdsAreFresh'
    BY <1>1, <1>3 DEF IdsAreFresh, Refund
<1>6. SecretShownIffPaid'
  <2>1. ~contracts[id].withdrawn
      BY DEF Refund, Settleable
  <2> QED
      BY <1>1, <1>2, <1>3, <2>1 DEF TypeOK, LockContract, SecretShownIffPaid, sha256
<1> QED
    BY <1>4, <1>5, <1>6 DEF IInv

\* Every call, of the contract or of the token, preserves the invariant.
LEMMA NextIInv == IInv /\ [Next]_vars => IInv'
<1> SUFFICES ASSUME IInv, [Next]_vars PROVE IInv'
    OBVIOUS
<1>0. TypeOK
    BY DEF IInv
<1>1. CASE Tick
    BY <1>1 DEF Tick, IInv, TypeOK, IdsAreFresh, SecretShownIffPaid, sha256
<1>2. ASSUME NEW a \in Accounts, NEW n \in Amounts, Approve(a, n)
      PROVE  IInv'
    BY <1>2 DEF Approve, IInv, TypeOK, IdsAreFresh, SecretShownIffPaid, sha256
<1>3. ASSUME NEW a \in Accounts, NEW n \in Amounts, Donate(a, n)
      PROVE  IInv'
  <2>1. balances' \in [Accounts \cup {This} -> Nat]
      BY <1>0, <1>3, MovedType DEF Donate
  <2> QED
      BY <1>3, <2>1 DEF Donate, IInv, TypeOK, IdsAreFresh, SecretShownIffPaid, sha256
<1>4. ASSUME NEW sender \in Accounts, NEW receiver \in Addresses, NEW hashlock \in Hashlocks,
             NEW timelock \in 0..MaxTime, NEW amount \in Amounts,
             \/ Initiate(sender, receiver, hashlock, timelock, amount)
             \/ InitiateWithPermit(sender, receiver, hashlock, timelock, amount)
      PROVE  IInv'
  <2>1. timelock \in Nat /\ amount \in Nat /\ allowances[sender] \in Nat
      BY <1>0 DEF TypeOK
  <2> QED
      BY <1>4, <2>1, InitiateIInv DEF Initiate, InitiateWithPermit
<1>5. ASSUME NEW id \in DOMAIN contracts, NEW preimage \in Preimages, Withdraw(id, preimage)
      PROVE  IInv'
    BY <1>5, WithdrawIInv
<1>6. ASSUME NEW id \in DOMAIN contracts, Refund(id)
      PROVE  IInv'
    BY <1>6, RefundIInv
<1>7. CASE UNCHANGED vars
    BY <1>7 DEF vars, IInv, TypeOK, IdsAreFresh, SecretShownIffPaid, sha256
<1> QED
    BY <1>1, <1>2, <1>3, <1>4, <1>5, <1>6, <1>7 DEF Next

\* The inductive invariant holds in every reachable state.
THEOREM Invariance == Spec => []IInv
    BY InitIInv, NextIInv, PTL DEF Spec

\* Every variable keeps its type in every reachable state.
THEOREM TypeCorrect == Spec => []TypeOK
<1>1. IInv => TypeOK
    BY DEF IInv
<1> QED
    BY <1>1, Invariance, PTL

\* No two locks share an id, and the collision test of _initiate never fires.
THEOREM FreshIds == Spec => []IdsAreFresh
<1>1. IInv => IdsAreFresh
    BY DEF IInv
<1> QED
    BY <1>1, Invariance, PTL

\* getContract shows the secret of the swap exactly for the locks that were
\* withdrawn, and none of those was refunded.
THEOREM SecretShown == Spec => []SecretShownIffPaid
<1>1. IInv => SecretShownIffPaid
    BY DEF IInv
<1> QED
    BY <1>1, Invariance, PTL

-----------------------------------------------------------------------------
(* The contract implements the escrow *)

\* The refinement mapping.
Purse == [a \in Accounts |-> balances[a]]

Deals == [id \in DOMAIN contracts |-> DealOf(contracts[id])]

\* The deployed contract maps to an escrow without deals.
LEMMA InitEscrow == Init => E!Init
<1> SUFFICES ASSUME Init PROVE E!Init
    OBVIOUS
<1>1. DOMAIN contracts = {} /\ contracts = << >>
    BY DEF Init
<1>2. Deals = << >>
    BY <1>1 DEF Deals
<1>3. Purse \in [Accounts -> Nat]
    BY DEF Init, Purse
<1> QED
    BY <1>2, <1>3 DEF E!Init, Init, Deals, Purse

\* Creating a lock opens a deal with the sender's tokens.
LEMMA InitiateEscrow ==
    ASSUME IInv,
           NEW sender \in Accounts, NEW receiver \in Addresses,
           NEW hashlock \in Hashlocks, NEW timelock \in Nat, NEW amount \in Nat,
           NEW allowance \in Nat,
           InitiateFrom(sender, receiver, hashlock, timelock, amount, allowance)
    PROVE  E!Next
<1> DEFINE id == contractId(sender, receiver, amount, hashlock, timelock, nonces[sender])
           lock == [sender |-> sender, receiver |-> receiver, amount |-> amount,
                    hashlock |-> hashlock, timelock |-> timelock,
                    withdrawn |-> FALSE, refunded |-> FALSE,
                    preimage |-> ZeroPreimage]
           d == [owner |-> sender, payee |-> receiver, amount |-> amount,
                 deadline |-> timelock, status |-> "open"]
<1>1. /\ receiver \in Receivers
      /\ amount \in Nat \ {0} /\ balances[sender] >= amount
      /\ timelock >= timestamp + MIN_LOCKTIME
      /\ id \notin DOMAIN contracts
      /\ timestamp' = timestamp
      /\ contracts' = [i \in DOMAIN contracts \cup {id} |->
                         IF i = id THEN lock ELSE contracts[i]]
      /\ balances' = Moved(sender, This, amount)
    BY DEF InitiateFrom, TermsOk, Exists, Addresses, Receivers
<1>2. TypeOK
    BY DEF IInv
<1>3. DealOf(lock) = d
    BY DEF DealOf, Status
<1> HIDE DEF id, lock
<1>4. Deals' = [i \in DOMAIN Deals \cup {id} |-> IF i = id THEN d ELSE Deals[i]]
  <2>1. /\ DOMAIN Deals = DOMAIN contracts
        /\ DOMAIN contracts' = DOMAIN contracts \cup {id}
        /\ Deals' = [i \in DOMAIN contracts' |-> DealOf(contracts'[i])]
      BY <1>1 DEF Deals, DealOf, Status
  <2>2. \A i \in DOMAIN contracts \cup {id} :
           DealOf(contracts'[i]) = IF i = id THEN d ELSE Deals[i]
      BY <1>1, <1>3 DEF Deals
  <2> QED
      BY <2>1, <2>2
<1>5. Purse' = [Purse EXCEPT ![sender] = @ - amount]
  <2>1. \A a \in Accounts : balances'[a] = IF a = sender THEN balances[a] - amount ELSE balances[a]
      BY <1>1, <1>2, MovedType
  <2> QED
      BY <2>1 DEF Purse
<1>6. d \in E!Deal /\ d.deadline > timestamp /\ d.amount <= Purse[d.owner]
    BY <1>1, <1>2 DEF E!Deal, Purse, TypeOK
<1>7. id \in DOMAIN Deals' /\ Deals'[id] = d /\ id \notin DOMAIN Deals
    BY <1>1, <1>4 DEF Deals
<1> HIDE DEF d
<1>8. E!Open(id, Deals'[id])
    BY <1>1, <1>3, <1>4, <1>5, <1>6, <1>7 DEF E!Open, Deals, Purse, d
<1> QED
    BY <1>7, <1>8 DEF E!Next, Deals

\* Withdrawing a lock pays its receiver.
LEMMA WithdrawEscrow ==
    ASSUME IInv, NEW id \in DOMAIN contracts, NEW preimage \in Preimages,
           Withdraw(id, preimage)
    PROVE  E!Next
<1> DEFINE c == contracts[id]
<1>1. TypeOK
    BY DEF IInv
<1>2. c \in LockContract
    BY <1>1 DEF TypeOK
<1>3. /\ ~c.withdrawn /\ ~c.refunded /\ timestamp < c.timelock
      /\ balances[This] >= c.amount /\ timestamp' = timestamp
      /\ contracts' = [contracts EXCEPT ![id] =
                         [c EXCEPT !.preimage = preimage, !.withdrawn = TRUE]]
      /\ balances' = Moved(This, c.receiver, c.amount)
    BY DEF Withdraw, Settleable, BeforeTimelock, WithdrawnWith
<1>4. /\ DOMAIN Deals = DOMAIN contracts
      /\ Deals[id] = DealOf(c)
      /\ Deals[id].status = "open" /\ Deals[id].deadline = c.timelock
      /\ Deals[id].payee = c.receiver /\ Deals[id].amount = c.amount
    BY <1>3 DEF Deals, DealOf, Status
<1>5. Deals' = [Deals EXCEPT ![id].status = "paid"]
  <2>1. DOMAIN contracts' = DOMAIN contracts
      BY <1>1, <1>3 DEF TypeOK
  <2>2. DealOf(contracts'[id]) = [DealOf(c) EXCEPT !.status = "paid"]
    <3>1. /\ contracts'[id].withdrawn /\ contracts'[id].sender = c.sender
          /\ contracts'[id].receiver = c.receiver /\ contracts'[id].amount = c.amount
          /\ contracts'[id].timelock = c.timelock
        BY <1>1, <1>2, <1>3 DEF TypeOK, LockContract
    <3> QED
        BY <3>1 DEF DealOf, Status
  <2>3. \A i \in DOMAIN contracts : i # id => contracts'[i] = contracts[i]
      BY <1>1, <1>3 DEF TypeOK
  <2>4. Deals' = [i \in DOMAIN contracts |-> IF i = id THEN [DealOf(c) EXCEPT !.status = "paid"] ELSE DealOf(contracts[i])]
      BY <2>1, <2>2, <2>3 DEF Deals
  <2> QED
      BY <1>4, <2>4 DEF Deals
<1>6. Purse' = [x \in Accounts |-> IF x = c.receiver THEN Purse[x] + c.amount ELSE Purse[x]]
  <2>1. c.receiver \in Accounts \cup {This} /\ c.amount \in Nat
      BY <1>2 DEF LockContract, Receivers
  <2>2. \A a \in Accounts : balances'[a] = IF a = c.receiver THEN balances[a] + c.amount ELSE balances[a]
      BY <1>1, <1>3, <2>1, MovedType
  <2> QED
      BY <2>2 DEF Purse
<1> HIDE DEF c
<1>7. E!Pay(id)
    BY <1>3, <1>4, <1>5, <1>6 DEF E!Pay, E!Credited, Deals, Purse
<1> QED
    BY <1>4, <1>7 DEF E!Next, Deals

\* Refunding a lock returns its tokens to the sender.
LEMMA RefundEscrow ==
    ASSUME IInv, NEW id \in DOMAIN contracts, Refund(id)
    PROVE  E!Next
<1> DEFINE c == contracts[id]
<1>1. TypeOK
    BY DEF IInv
<1>2. c \in LockContract
    BY <1>1 DEF TypeOK
<1>3. /\ ~c.withdrawn /\ ~c.refunded /\ timestamp >= c.timelock
      /\ balances[This] >= c.amount /\ timestamp' = timestamp
      /\ contracts' = [contracts EXCEPT ![id] = [c EXCEPT !.refunded = TRUE]]
      /\ balances' = Moved(This, c.sender, c.amount)
    BY DEF Refund, Settleable
<1>4. /\ DOMAIN Deals = DOMAIN contracts
      /\ Deals[id] = DealOf(c)
      /\ Deals[id].status = "open" /\ Deals[id].deadline = c.timelock
      /\ Deals[id].owner = c.sender /\ Deals[id].amount = c.amount
    BY <1>3 DEF Deals, DealOf, Status
<1>5. Deals' = [Deals EXCEPT ![id].status = "returned"]
  <2>1. DOMAIN contracts' = DOMAIN contracts
      BY <1>1, <1>3 DEF TypeOK
  <2>2. DealOf(contracts'[id]) = [DealOf(c) EXCEPT !.status = "returned"]
      BY <1>1, <1>2, <1>3 DEF TypeOK, DealOf, Status, LockContract
  <2>3. \A i \in DOMAIN contracts : i # id => contracts'[i] = contracts[i]
      BY <1>1, <1>3 DEF TypeOK
  <2>4. Deals' = [i \in DOMAIN contracts |-> IF i = id THEN [DealOf(c) EXCEPT !.status = "returned"] ELSE DealOf(contracts[i])]
      BY <2>1, <2>2, <2>3 DEF Deals
  <2> QED
      BY <1>4, <2>4 DEF Deals
<1>6. Purse' = [x \in Accounts |-> IF x = c.sender THEN Purse[x] + c.amount ELSE Purse[x]]
  <2>1. c.sender \in Accounts \cup {This} /\ c.amount \in Nat
      BY <1>2 DEF LockContract
  <2>2. \A a \in Accounts : balances'[a] = IF a = c.sender THEN balances[a] + c.amount ELSE balances[a]
      BY <1>1, <1>3, <2>1, MovedType
  <2> QED
      BY <2>2 DEF Purse
<1> HIDE DEF c
<1>7. E!Return(id)
    BY <1>3, <1>4, <1>5, <1>6 DEF E!Return, E!Credited, Deals, Purse
<1> QED
    BY <1>4, <1>7 DEF E!Next, Deals

\* Every call is a step of the escrow or leaves it alone.
LEMMA NextEscrow == IInv /\ [Next]_vars => [E!Next]_(E!vars)
<1> SUFFICES ASSUME IInv, [Next]_vars PROVE [E!Next]_(E!vars)
    OBVIOUS
<1>0. TypeOK
    BY DEF IInv
<1>1. CASE Tick
  <2>1. timestamp' \in Nat /\ timestamp' > timestamp /\ contracts' = contracts /\ balances' = balances
      BY <1>0, <1>1 DEF Tick, TypeOK
  <2>2. E!Pass
      BY <2>1 DEF E!Pass, DealOf, Status
  <2> QED
      BY <2>2 DEF E!Next
<1>2. ASSUME NEW a \in Accounts, NEW n \in Amounts, Approve(a, n)
      PROVE  UNCHANGED E!vars
    BY <1>2 DEF Approve, E!vars, DealOf, Status
<1>3. ASSUME NEW a \in Accounts, NEW n \in Amounts, Donate(a, n)
      PROVE  E!Next
  <2>1. balances[a] >= n /\ balances' = Moved(a, This, n) /\ timestamp' = timestamp /\ contracts' = contracts
      BY <1>3 DEF Donate
  <2>2. \A x \in Accounts : balances'[x] = IF x = a THEN balances[x] - n ELSE balances[x]
      BY <1>0, <2>1, MovedType
  <2>3. Purse' = [Purse EXCEPT ![a] = Purse'[a]]
      BY <2>2 DEF Purse
  <2>4. Purse'[a] \in Nat /\ Purse'[a] <= Purse[a]
    <3>1. n \in Nat /\ balances[a] \in Nat
        BY <1>0 DEF TypeOK
    <3>2. Purse'[a] = balances[a] - n /\ Purse[a] = balances[a]
        BY <2>2 DEF Purse
    <3> QED
        BY <2>1, <3>1, <3>2
  <2>5. E!Spend(a)
      BY <2>1, <2>3, <2>4 DEF E!Spend, Purse, DealOf, Status
  <2> QED
      BY <2>5 DEF E!Next
<1>4. ASSUME NEW sender \in Accounts, NEW receiver \in Addresses, NEW hashlock \in Hashlocks,
             NEW timelock \in 0..MaxTime, NEW amount \in Amounts,
             \/ Initiate(sender, receiver, hashlock, timelock, amount)
             \/ InitiateWithPermit(sender, receiver, hashlock, timelock, amount)
      PROVE  E!Next
  <2>1. timelock \in Nat /\ amount \in Nat /\ allowances[sender] \in Nat
      BY <1>0 DEF TypeOK
  <2> QED
      BY <1>4, <2>1, InitiateEscrow DEF Initiate, InitiateWithPermit
<1>5. ASSUME NEW id \in DOMAIN contracts, NEW preimage \in Preimages, Withdraw(id, preimage)
      PROVE  E!Next
    BY <1>5, WithdrawEscrow
<1>6. ASSUME NEW id \in DOMAIN contracts, Refund(id)
      PROVE  E!Next
    BY <1>6, RefundEscrow
<1>7. CASE UNCHANGED vars
    BY <1>7 DEF vars, E!vars, DealOf, Status
<1> QED
    BY <1>1, <1>2, <1>3, <1>4, <1>5, <1>6, <1>7 DEF Next

\* The contract implements the abstract escrow: whatever is called in whatever
\* order, the tokens of a lock leave it once, whole, to the right party.
THEOREM Implements == Spec => IsEscrow
<1>1. IInv /\ [Next]_vars => [E!Next]_(E!vars)
    BY NextEscrow
<1> QED
    BY <1>1, InitEscrow, Invariance, PTL DEF Spec, IsEscrow, E!Spec
=============================================================================
