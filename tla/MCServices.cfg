CONSTANTS
    None = None
    Setups <- ReloadSetups
    Owner = {o1, o2}
    Worker = worker
    MaxSignal = 3
    Client = {c1}
    Op = op
    Watcher = {1, 2, 3}
    Conn = {1, 2}
    Handle = {1, 2}
    Obj = {1, 2}
    EVENT_CHANNEL_CAP = 1
    MAX_SUBSCRIPTIONS_PER_CONN = 2
    MAX_SUBSCRIPTIONS_TOTAL = 2
    OutCap = 2
    Unsubs = 1
    A = A
    B = B
    Fresh = Fresh
    Dump = Dump
    Data = Data
    Torn = Torn
    RestoreSetups <- AllRestores
SPECIFICATION PartsSpec
CHECK_DEADLOCK FALSE
INVARIANTS HooksSurviveReload SubscriptionsExact AnswersOwn ServedWhole
PROPERTIES NoStraddle LossNeedsForce ServicesSettle
