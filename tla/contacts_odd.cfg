SPECIFICATION Spec
CONSTANTS
    ann = ann
    bob = bob
    eve = eve
    hash = hash
    spare = spare
    t1 = t1
    t2 = t2
    k1 = k1
    k2 = k2
    Null = null
    None = none
    Accounts = {ann, eve}
    Indexes = {hash}
    Spares = {spare}
    IndexOf <- MCIndexOf
    Products = {p}
    TxIds = {t1, t2}
    FetchIds = {k1}
    Searches <- OddTargets
    Viewers = {ann, eve}
    Shoppers = {eve}
    MayFail = TRUE
SYMMETRY Symmetry
INVARIANTS
    TypeOK
    SignedUpAccountIsCutOff
