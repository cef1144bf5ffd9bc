SPECIFICATION FairSpec
CHECK_DEADLOCK FALSE
CONSTANTS
    t1 = t1
    t2 = t2
    text = text
    image = image
    voice = voice
    sticker = sticker
    place = place
    mine = mine
    other = other
    Threads <- Callers
    Uids <- Several
    KindOf <- EachKind
    OwnId <- MyIds
    Scripts <- ManyScripts
    MaxRows = 4
    MaxTroubles = 2
INVARIANTS
    MessageInv
    NewestIsFound
PROPERTIES
    ClaimsAreReleased
