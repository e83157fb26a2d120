--------------------------- MODULE MCResultSearch ---------------------------
(* Finite instances of ResultSearch, with Procurement and Quota, for TLC. *)
EXTENDS ResultSearch

CONSTANTS t1, t2, c1, c2, c3

TwoShops == <<t1, t2>>

Placed(t, shop, product, completed, day) ==
  [tenant |-> t, shop |-> shop, product |-> product, completed |-> completed,
   target |-> 20, quantity |-> 2, day |-> day]

\* Two orders of the reporting tenant, one of them completed, and one of another.
ThreeOrders ==
  << Placed(t1, 1, "rice", TRUE, 1), Placed(t1, 1, "tea", FALSE, 1), Placed(t2, 2, "rice", TRUE, 1) >>

TwoOrders == << ThreeOrders[1], ThreeOrders[3] >>

Orders(shop)     == [kind |-> "order", order |-> Placed(t1, shop, "rice", TRUE, 2)]
Uploads(o, p)    == [kind |-> "upload", order |-> o, price |-> p, at |-> 1]
Searches(k, f)   == [kind |-> "search", key |-> k, force |-> f]

Offered(p, e) == [price |-> p, at |-> 2, eligible |-> e]

\* A collection of an item that cannot be compared and one that ties an upload.
OneAnswer == { << Offered(0, FALSE), Offered(10, TRUE) >> }

Rice(n) == [query |-> {"rice"}, limit |-> n]

\* Market: t1 orders for its own shop or another's, and uploads for an order of
\* its own or another's.
AllOfT1      == [c \in Calls |-> t1]
MarketWants  == (c1 :> {Orders(1), Orders(2)})
                  @@ (c2 :> {Uploads(1, 10), Uploads(3, 5)}) @@ (c3 :> {Uploads(1, 30)})
QuotaOf(n)   == (t1 :> n) @@ (t2 :> 0)
QuotaOfOne   == QuotaOf(1)
QuotaOfThree == QuotaOf(3)
ReportOfT1   == [r \in Reporters |-> t1]
FirstDay     == { [from |-> 1, to |-> 1] }

\* Search: t1 uploads and searches twice, one time perhaps by force.
SearchWants  == (c1 :> {Uploads(1, 10)})
                  @@ (c2 :> {Searches(Rice(1), FALSE), Searches(Rice(1), TRUE)})
                  @@ (c3 :> {Searches(Rice(1), FALSE)})
OldOfT1      == { <<t1, Rice(1)>> }
RiceOnce     == { Rice(1) }
=============================================================================
