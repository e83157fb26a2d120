------------------------- MODULE MCPriceCollection -------------------------
(* Finite instances of PriceCollection for TLC. *)
EXTENDS PriceCollection, TLC

Priced(p) == [eligible |-> TRUE, price |-> p]
Unpriced  == [eligible |-> FALSE, price |-> 0]

\* No item, no eligible item, and three items whose cheapest is listed twice
\* behind an ineligible one stored with price 0.
SomeResponses == { <<>>, <<Unpriced>>, <<Unpriced, Priced(20), Priced(10), Priced(10)>> }

FewResponses == { <<Unpriced>>, <<Unpriced, Priced(20), Priced(10)>> }

Ask(o, k) == [order |-> o, key |-> k]

\* One completed order under two keys, as two Idempotency-Key headers make them.
TwoKeys == { Ask("o1", "k1"), Ask("o1", "k2") }

\* The same key sent for two orders.
SharedKey == { Ask("o1", "k1"), Ask("o2", "k1"), Ask("o1", "k2"), Ask("gone", "k1") }
=============================================================================
