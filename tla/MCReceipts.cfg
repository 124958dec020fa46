SPECIFICATION FairSpec
CONSTANTS
    e1 = e1
    bad = bad
    c1 = c1
    c2 = c2
    NoConsumer = NoConsumer
    Events <- MCEvents
    Valid = {e1}
    OrderOf <- MCOrderOf
    Consumers = {c1, c2}
    Prefetch = 1
    DeliveryLimit = 1
    MaxCopies <- MCMaxCopies
    MaxCrashes = 1
INVARIANTS
    OneReceiptPerOrder
    LostOnlyByGivingUp
    GivesUpAtTheLimit
PROPERTIES
    EveryCopySettles
