CONSTANTS
    buyer = buyer
    seller = seller
    htlc = htlc
    zeroAddress = zeroAddress
    secret = secret
    zero = zero
    Accounts <- MCAccounts
    This = htlc
    ZeroAddress = zeroAddress
    Preimages <- MCPreimages
    ZeroPreimage = zero
    Amounts = {0, 1, 2}
    MIN_LOCKTIME = 1
    InitialFunds <- MCFunds
    MaxTime = 3
    MaxLocks = 2
SPECIFICATION Spec
INVARIANTS
    TypeOK
    Solvent
    OneWayOut
    IdsAreFresh
    SecretShownIffPaid
PROPERTY IsEscrow
CHECK_DEADLOCK FALSE
