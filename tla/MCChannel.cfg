\* Two producers race for the tail, the consumer drains: a ring of two slots
\* wraps round, fills up and runs empty. The values are the names of the senders.
CONSTANTS
    Producers = {p1, p2}
    Values = {p1, p2}
    Null = Null
    Capacity = 2
    MaxTimeout = 1
SPECIFICATION FairSpec
ACTION_CONSTRAINT SendsOwnName
INVARIANTS ChannelInv NoSlotRace LoopRecvFindsData
PROPERTIES RefinesFifo LockReleased CloseWakesReceiver TimedRecvReturns PublishedIsReceived
