-------------------------------- MODULE MCNode --------------------------------
(* Small instances of Node for TLC.                                           *)
EXTENDS Node

UnitWork == [h \in Hash |-> 1]

\* Every block set in which parents have lower (or, upside down, higher)
\* hashes: at most extra extra parents each, at most one bad block.
Headers(h, before, extra, validities) ==
    {[hashPrevBlock |-> p, hashParents |-> E, validity |-> v] :
        p \in before, E \in {S \in SUBSET before : Cardinality(S) <= extra}, v \in validities}

NetworksOver(extra, validities) ==
    {net \in [Hash \ {Genesis} -> UNION {Headers(h, Hash, extra, validities) : h \in Hash}] :
        /\ \A h \in Hash \ {Genesis} :
              /\ net[h].hashPrevBlock < h /\ \A p \in net[h].hashParents : p < h
              /\ net[h].hashPrevBlock \notin net[h].hashParents
        /\ Cardinality({h \in Hash \ {Genesis} : net[h].validity # "ok"}) <= 1}

DagNetworks == NetworksOver(2, {"ok"})
Trees == NetworksOver(0, {"ok"})
\* One tree of each shape with a branching and a chain of two blocks: without
\* a restart the order of the hashes decides nothing.
Branchings == {net \in Trees : net[Max(Hash)].hashPrevBlock = Min(Hash \ {Genesis})}
TreesWithABadBlock == NetworksOver(0, {"ok", "badBody", "badScripts"})
TreesAndDags == TreesWithABadBlock \cup DagNetworks

\* The bad block has a child, so that its failure has someone to be passed on to.
TreesWithABadParent ==
    {net \in NetworksOver(0, {"ok", "badScripts"}) :
        \E h \in Hash \ {Genesis} : /\ net[h].hashPrevBlock # Genesis
                                 /\ net[net[h].hashPrevBlock].validity # "ok"}

\* A block that merges the two branches below it.
Diamonds ==
    {net \in NetworksOver(1, {"ok"}) :
        \A h \in Hash \ {Genesis} : net[h].hashParents # {} <=> h = Max(Hash)}
BadParentsAndDiamonds == TreesWithABadParent \cup Diamonds
=============================================================================
