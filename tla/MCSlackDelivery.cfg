SPECIFICATION Spec
CHECK_DEADLOCK FALSE

CONSTANTS
    m1 = m1  m2 = m2  t1 = t1  u1 = u1
    k1 = k1  k2 = k2  k3 = k3
    Messages  = {m1, m2}
    ThreadOf <- MCThreadOf
    UserOf   <- MCUserOf
    DMs       = {m1, m2}
    KindsOf  <- MCKindsOf
    Identity  = FALSE
    Acks      = {k1}
    Workers   = {k2, k3}
    Faults    = {"sqs", "ddb", "agent", "busy", "slack", "crash", "timeout"}
    MaxFaults = 1
    MaxSends <- MCMaxSends
    MaxBatch  = 2

CONSTRAINT AgedForDelivery

INVARIANTS
    OneReply
    IndicatorSettled
    ThreadSequential

PROPERTIES
    Answered
