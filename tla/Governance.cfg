SPECIFICATION ApprovalsSpec
CONSTANTS
    k1 = k1
    k2 = k2
    k3 = k3
    Keys = {k1, k2, k3}
    Default = Default
    UpgradeAuthority = k1
    MAX_ADMINS = 2
    onyc = onyc
    other = other
    usdcOffer = usdcOffer
    otherOffer = otherOffer
    onre = onre
    elsewhere = elsewhere
    Programs = {onre, elsewhere}
    ThisProgram = onre
    LAST_TIME = 1
    Carried <- MCCarried
    Signatures <- MCSignatures
    Mints = {onyc}
    Offers = {usdcOffer}
    TokenOut <- MCTokenOut
INVARIANTS GovernanceTypeOK ProposalIsTheBosses RolesHeldOnce ApprovalsAreExact
PROPERTIES BossChangesOnlyByAcceptance
