SPECIFICATION FairSpec
CONSTANTS
    MaxMessages = 2
    Binary = {2}
INVARIANTS
    ControllerOutlivesWorker
    MessagesInOrder
    NoLostWakeup
PROPERTIES
    NobodyWaits
CHECK_DEADLOCK FALSE
