\* An AGV and a master control client that start, stop, crash and reconnect,
\* and two subscriptions of the application on a shared and on another topic.
CONSTANTS
    Agvs = {a1}
    Masters = {m1}
    Topics = {"connection", "state"}
    SubIds = {s1, s2}
    NoClient = NoClient
    MaxStarts = 2
    MaxBreaks = 1
SPECIFICATION Spec
INVARIANTS
    SubscriptionsMatchHandlers
    StoppedNotOnline
PROPERTIES
    TrackingConverges
    StopCompletes
    RequestsSettle
CHECK_DEADLOCK FALSE
