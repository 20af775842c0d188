SPECIFICATION Spec
CHECK_DEADLOCK FALSE

CONSTANTS
    m1 = m1  m2 = m2  c1 = c1  t1 = t1  t2 = t2  w1 = w1  w2 = w2
    Messages  = {m1, m2}
    ChannelOf <- MCChannelOf
    ThreadOf  <- MCThreadOf
    DMs       = {m1, m2}
    Workers   = {w1, w2}
    MaxReceives   = 2
    StreamChunk   = 1
    FallbackChunk = 2
    MaxLength = 3
    MaxSends  = 2
    MaxFaults = 2
    None      = None

INVARIANTS
    ConversationInTurn
    AnswerFaithful
    NoAnswerTwice

PROPERTIES
    AnsweredOrDead
