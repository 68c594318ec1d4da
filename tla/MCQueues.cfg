SPECIFICATION QueuesSpec
CONSTANTS
    Tasks = {t1, t2}
    Queues = {q1, q2}
    Workers = {w1, w2}
    None = None
    MaxAttempts = 2
    Messages = {m1}
    Relays = {r1, r2}
    Consumers = {c1, c2}
    NoMessage = NoMessage
    SendLimit = 2
    HandleLimit = 2
CHECK_DEADLOCK FALSE
INVARIANTS
    DependenciesFirst
PROPERTIES
    CancelIsRespected
    QueueSettles
    MessagesSettle
