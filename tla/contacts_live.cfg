SPECIFICATION FairSpec
CONSTANTS
    ann = ann
    bob = bob
    eve = eve
    hash = hash
    spare = spare
    t1 = t1
    t2 = t2
    k1 = k1
    k2 = k2
    Null = null
    None = none
    Accounts = {ann, bob}
    Indexes = {}
    Spares = {}
    IndexOf <- MCIndexOf
    Products = {}
    TxIds = {t1, t2}
    FetchIds = {k1}
    Searches <- OneInviter
    Viewers = {ann}
    Shoppers = {}
    MayFail = FALSE
PROPERTIES
    InvitationIsSeen
