SPECIFICATION Spec
CONSTANTS
    Orders <- OneOrder
    Items <- TwoItems
    Buyers <- MCBuyers
    Sellers <- MCSellers
    BuyerOf <- OneOrderBuyer
    SellerOf <- OneOrderSeller
    OrderOf <- OneOrderOf
    LastItemOf <- OneOrderLast
    PriceOf <- OneOrderPrice
    Genesis = 4
    MaxTime = 7
    MaxUint = 20
    BPS_DENOMINATOR = 100
    COMMISSION_INTRA_BPS = 70
    COMMISSION_TOP_SELLER_BPS = 67
    AUTO_RELEASE_INTRA = 2
    AUTO_RELEASE_TOP_SELLER = 1
    EARLY_RELEASE_WINDOW = 1
    AUTO_REFUND_INACTIVE_INTRA = 1
    FORCE_REFUND_INACTIVITY_THRESHOLD = 2
    MAX_TVL_USDT = 10
    MAX_ORDER_USDT = 6
    MAX_SELLER_WEEKLY_VOLUME = 6
    MAX_BUYER_ESCROW_USDT = 8
    WEEK = 2
    EMERGENCY_PAUSE_MAX = 2
    EMERGENCY_PAUSE_COOLDOWN = 3
    MAX_ITEMS_PER_GROUP = 2
    MAX_ITEMS_PER_ORDER = 2
    MaxGroups = 2
INVARIANTS
    EscrowAccounting
    PaidExactlyOnce
    BuyerHasDisputeWindow
PROPERTIES
    ImplementsCustody
    ImplementsLifecycle
    PauseFreezesItems
    WeeklyCreditNeedsShippedRefund
