SPECIFICATION ProtocolSpec
CONSTANTS
    Orders <- MCOrders
    Items <- OneItem
    Buyers <- MCBuyers
    Sellers <- MCSellers
    BuyerOf <- MCBuyerOf
    SellerOf <- MCSellerOf
    OrderOf <- OneItemOrder
    LastItemOf <- OneItemLast
    PriceOf <- OneItemPrice
    Genesis = 3
    MaxTime = 5
    MaxUint = 20
    BPS_DENOMINATOR = 100
    COMMISSION_INTRA_BPS = 50
    COMMISSION_TOP_SELLER_BPS = 50
    AUTO_RELEASE_INTRA = 2
    AUTO_RELEASE_TOP_SELLER = 2
    EARLY_RELEASE_WINDOW = 1
    AUTO_REFUND_INACTIVE_INTRA = 1
    FORCE_REFUND_INACTIVITY_THRESHOLD = 1
    MAX_TVL_USDT = 10
    MAX_ORDER_USDT = 6
    MAX_SELLER_WEEKLY_VOLUME = 6
    MAX_BUYER_ESCROW_USDT = 8
    WEEK = 2
    EMERGENCY_PAUSE_MAX = 1
    EMERGENCY_PAUSE_COOLDOWN = 2
    MAX_ITEMS_PER_GROUP = 1
    MAX_ITEMS_PER_ORDER = 2
    MaxGroups = 1
    TIER_1_STAKE = 1
    TIER_2_STAKE = 2
    TIER_3_STAKE = 3
    WITHDRAWAL_COOLDOWN = 1
    MaxActiveSales = 0
    MaxUsdt = 1
    Mediators = {m1, m2, m3}
    N1_DURATION = 1
    N2_DURATION = 1
    N3_VOTING_PERIOD = 1
    NoMediator = NoMediator
    NoProposal = NoProposal
    Rewirable = {"voting"}
    MaxSlash = 1
CONSTRAINTS OwnerNeverPauses PanelInQuietTimes
SYMMETRY AnyMediator
INVARIANTS
    PanelDecides
    FinishedVoteCanClose
    OneFreezePerOpenDispute
PROPERTIES
    DisputedIffOpen
    VerdictHasAuthority
    StakeStaysForDisputes
