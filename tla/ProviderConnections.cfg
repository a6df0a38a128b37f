SPECIFICATION FairSpec
CONSTANTS
    Offered <- AllProviders
    Masters = {"k1", "k2"}
INVARIANTS CodesAreRedeemed ServedIsLive BatchIsNeeded
PROPERTIES UnreadableIsKept LapsedIsRenewed
