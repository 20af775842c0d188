------------------------- MODULE MCHarnessSlackbot -------------------------
EXTENDS HarnessSlackbot

CONSTANTS m1, m2, c1, t1, t2, w1, w2

\* Two messages in one channel of direct messages, each a thread of its own.
MCChannelOf == [m \in Messages |-> c1]
MCThreadOf == (m1 :> t1 @@ m2 :> t2)

=============================================================================
