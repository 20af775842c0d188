-------------------------- MODULE MCSlackDelivery --------------------------
(***************************************************************************)
(* Small instances of SlackDelivery: m1 and m2 belong to one thread that   *)
(* m1 starts, in direct messages or in a channel as a configuration says.  *)
(* m1 mentions the bot, so that Slack has two events for it, and is        *)
(* delivered twice, as one of them or both.                                *)
(***************************************************************************)
EXTENDS SlackDelivery, TLC

CONSTANTS m1, m2, t1, u1, k1, k2, k3

MCThreadOf == (m1 :> t1) @@ (m2 :> t1)
MCUserOf   == (m1 :> u1) @@ (m2 :> u1)

MCKindsOf  == (m1 :> {"message", "app_mention"}) @@ (m2 :> {"message"})

MCMaxSends == (m1 :> 2) @@ (m2 :> 1)

\* Bound: only a message that Slack may deliver again grows old. The age of any
\* other one is looked at by nothing but the expiry of its row, which comes when
\* the message has left the queue, so that nothing asks for the row any more.
AgedForDelivery == \A m \in old : MaxSends[m] > 1
=============================================================================
