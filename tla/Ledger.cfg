SPECIFICATION Spec
CONSTANTS
    trial = trial
    gold = gold
    money = money
    card = card
    Users = {u1, u2}
    Emails = {e1, e2}
    Plans = {trial, gold}
    Codes = {money, card}
    Price <- Prices
    Months <- Durations
    Limit <- Limits
    Renewable <- OnlyGold
    Monthly <- OnlyTrial
    Reward <- Rewards
    CategoryLimit = 1
    Gift = 0
    DefaultPlan = trial
    Requests = {r1}
    MaxTime = 1
    MaxAdmin = 1
    MaxBytes = 1
    Balances <- OneCent
    Edits <- AnEdit
    NoUser = NoUser
    NoEmail = NoEmail
    NoPlan = NoPlan
    NoPeriod = NoPeriod
    Unlimited = Unlimited
INVARIANTS TypeOK LimitPerAddress NoForeignHistory QuotaCountsPeriod
SYMMETRY Symmetry
CHECK_DEADLOCK FALSE
