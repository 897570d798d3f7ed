SPECIFICATION FairSpec
CONSTANTS
    leave = leave
    buy = buy
    sell = sell
    pick = pick
    shop = shop
    pack = pack
    None = None
    NoScreen = NoScreen
    a1 = a1
    a2 = a2
    Names <- MCNames
    Group <- MCGroup
    Reusable = {buy}
    OnScreen <- MCOnScreen
    Situations <- MCSituations
    Ids = {a1, a2}
    MaxRefused = 1
INVARIANTS NoOverlap MirrorExact Truthful
PROPERTIES WithdrawnForGood Asks
CHECK_DEADLOCK FALSE
