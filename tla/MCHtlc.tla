------------------------------- MODULE MCHtlc -------------------------------
EXTENDS Htlc

CONSTANTS buyer, seller, htlc, zeroAddress, secret, zero

MCAccounts == {buyer, seller}

MCFunds == [a \in MCAccounts |-> IF a = buyer THEN 2 ELSE 0]

MCPreimages == {zero, secret}
=============================================================================
