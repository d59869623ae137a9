------------------------------- MODULE Escrow -------------------------------
(***************************************************************************)
(* What a hash time lock promises, without hashes, nonces, allowances or   *)
(* an escrow account: a deal is opened with its owner's money, and that    *)
(* money leaves it exactly once, to the payee before the deadline or back  *)
(* to the owner from the deadline on.                                      *)
(***************************************************************************)
EXTENDS Naturals

CONSTANTS Accounts,   \* the holders of money
          Payees      \* whom a deal may be for: accounts, and dead ends

VARIABLES clock,      \* the time the deals are judged by
          purse,      \* what every account holds outside of deals
          deals       \* the deals opened so far, by name

vars == <<clock, purse, deals>>

Init ==
    /\ clock = 0
    /\ purse \in [Accounts -> Nat]
    /\ deals = << >>

\* What the purses are once a has received n; a payee that is no account of
\* anybody's swallows the money.
Credited(a, n) ==
    [x \in Accounts |-> IF x = a THEN purse[x] + n ELSE purse[x]]

Deal == [owner : Accounts, payee : Payees, amount : Nat \ {0},
         deadline : Nat, status : {"open", "paid", "returned"}]

Pass ==
    /\ clock' \in Nat /\ clock' > clock
    /\ UNCHANGED <<purse, deals>>

\* An account parts with money outside of any deal.
Spend(a) ==
    /\ purse' = [purse EXCEPT ![a] = purse'[a]]
    /\ purse'[a] \in Nat /\ purse'[a] <= purse[a]
    /\ UNCHANGED <<clock, deals>>

\* A deal on terms d appears under a fresh name, paid for by its owner.
Open(id, d) ==
    /\ id \notin DOMAIN deals
    /\ d \in Deal /\ d.status = "open" /\ d.deadline > clock
    /\ d.amount <= purse[d.owner]
    /\ purse' = [purse EXCEPT ![d.owner] = @ - d.amount]
    /\ deals' = [i \in DOMAIN deals \cup {id} |-> IF i = id THEN d ELSE deals[i]]
    /\ UNCHANGED clock

Pay(id) ==
    /\ deals[id].status = "open"
    /\ clock < deals[id].deadline
    /\ deals' = [deals EXCEPT ![id].status = "paid"]
    /\ purse' = Credited(deals[id].payee, deals[id].amount)
    /\ UNCHANGED clock

Return(id) ==
    /\ deals[id].status = "open"
    /\ clock >= deals[id].deadline
    /\ deals' = [deals EXCEPT ![id].status = "returned"]
    /\ purse' = Credited(deals[id].owner, deals[id].amount)
    /\ UNCHANGED clock

Next ==
    \/ Pass
    \/ \E a \in Accounts : Spend(a)
    \/ \E id \in DOMAIN deals' : Open(id, deals'[id])
    \/ \E id \in DOMAIN deals : Pay(id) \/ Return(id)

Spec == Init /\ [][Next]_vars
=============================================================================
