SPECIFICATION LedgerSpec
CONSTANTS
    BPS_DENOMINATOR = 10
    MaxPrice = 8
    Rates = {1, 3, 7, 9}
    Orders <- MCOrders
    Items <- MCItems
    Buyers <- MCBuyers
    Sellers <- MCSellers
    BuyerOf <- MCBuyerOf
    SellerOf <- MCSellerOf
    OrderOf <- MCOrderOf
    LastItemOf <- MCLastItemOf
    PriceOf <- MCPriceOf
    Genesis = 1
    MaxTime = 8
    MaxUint = 20
    TOP_SELLER_MIN_ORDERS = 2
    TOP_SELLER_MIN_SCORE = 80
    TOP_SELLER_SANCTION_COOLDOWN = 3
    MaxRecords = 5
    TIER_1_STAKE = 2
    TIER_2_STAKE = 3
    TIER_3_STAKE = 5
    WITHDRAWAL_COOLDOWN = 3
    MaxActiveSales = 1
    MaxFreezes = 2
    MaxUsdt = 9
    Sales = {"s1", "s2"}
    AmountOf <- MCAmountOf
    CartOf <- MCCartOf
    Skus = {"x", "y"}
    Article = "Article"
    Day = 2
    Week = 2
    Month = 3
    ShipWindow = 4
    UrgentLeft = 1
    WarnLeft = 2
    TopRows = 1
    PageRows = 2
    Rows = 2
    MaxNews = 4
    Goods = {1, 2}
    PriceAt <- MCPriceAt
    Named = {1}
    LowStock = 2
    MaxStock = 2
    PageSize = 1
    Wares = {1, 2, 3, 4}
    About <- MCAbout
    Countries = {"home", "away"}
    Categories = {"food"}
    Hits <- MCHits
    FeatureOver = 2
    RailLimit = 1
    MaxChoices = 3
INVARIANTS
    StakeTypeOK
    Solvent
    SplitIsSound
    RecordsAreSound
PROPERTIES
    CooldownRunsOnlyUnfrozen
    OnlyLateWithdrawalUncovers
