SPECIFICATION StoreSpec
CONSTANTS
    Wallets = {"a"}
    Shopkeepers = {}
    NoWallet = "nobody"
    ShopRuns = {1}
    FeeTries = 2
    MaxFeeTxs = 2
    Bonus = 1
    Pack = 2
    Budgets <- MCBudgets
    MaxPackTxs = 1
    Ticks = 1
    Slugs = {"p"}
    NoSlug = "none"
    MaxSaves = 1
    MaxCalls = 1
    Newest = 3
    HomeGoods = {1, 3}
    NamedGoods = {1, 2}
    PageSize = 1
    MaxTurns = 2
    Callers = {"form", "card", "there"}
    MaxAddresses = 2
    MaxAsked = 3
    Texts = {"old", "new"}
    MaxTyped = 4
    MaxDrops = 2
INVARIANT StoreIsSound
 
CHECK_DEADLOCK FALSE
