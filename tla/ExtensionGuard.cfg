SPECIFICATION Spec
CONSTANTS
    Unary = {"u1", "u2"}
    Streams = {}
    Kinds = {"extension"}
    QueueCapacity = 1
    ChatCapacity = 1
    PipeCapacity = 2
    MaxItems = 1
PROPERTY GuardCatchesDeath
CHECK_DEADLOCK FALSE
