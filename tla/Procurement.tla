---------------------------- MODULE Procurement ----------------------------
(***************************************************************************)
(* Orders, uploaded results and the savings report (app/procurement) on    *)
(* top of the quota: create_order and upload_result consume quota first,   *)
(* then query, insert and commit in one transaction; the report reads the  *)
(* orders once and then two aggregates per order, each statement seeing    *)
(* what is committed when it runs.  Price collection, whose rows the       *)
(* report reads too, appears by its commits only (Collect).                *)
(***************************************************************************)
EXTENDS Quota, Sequences, FiniteSetsExt

CONSTANTS
  Wants,           \* per call: the requests it may make
  Shops,           \* shop id -> tenant
  OldOrders,       \* the orders that exist at the start, a sequence
  Offers,          \* what a collection may store: sequences of [price, at, eligible]
  MaxCollections,  \* bound on the collections committed
  Reporters,       \* GET /reports/summary calls; each is made once
  ReporterTenant,
  Windows          \* the dates asked for: [from, to], 0 for none, from <= to

\* product stands for product_name and option_text, completed for the status,
\* target for target_unit_price, 0 for none, and day for the Korean date of
\* created_at.
Order == [tenant : Tenants, shop : DOMAIN Shops, product : STRING, completed : BOOLEAN,
          target : Nat, quantity : Nat, day : Nat]

ASSUME OldOrdersAssumption ==
  /\ OldOrders \in Seq(Order)
  /\ \A o \in DOMAIN OldOrders : OldOrders[o].tenant = Shops[OldOrders[o].shop]

ASSUME WantsAssumption ==
  \A c \in Calls : \A q \in Wants[c] :
    /\ q.kind = "order" => q.order \in Order
    /\ q.kind = "upload" => q.price \in Nat

ASSUME OffersAssumption ==
  Offers \subseteq Seq([price : Nat, at : Nat, eligible : BOOLEAN])

VARIABLES
  orders,     \* procurement_orders, by id
  history,    \* procurement_results after each commit; the last is the table
  events,     \* results whose upload put an event in the outbox
  seq,        \* the id sequences, which a rollback does not wind back
  collected,  \* collections committed so far
  work,       \* per call: its transaction, once its quota is granted
  report      \* per reporter: its aggregate_savings

procurementVars == <<orders, history, events, seq, collected, work, report>>

\* A result has the fields id, order, tenant, price, at (collected_at), eligible
\* and canonical (a row of price collection).

results == history[Len(history)]

RowsOf(rows, o) == {r \in rows : r.order = o}

NoWork == [pc |-> "idle", q |-> [kind |-> "none"], rows |-> {}, since |-> 0]

NoReport == [pc |-> "idle", left |-> {}, order |-> 0, best |-> {}, total |-> 0, count |-> 0,
             of |-> {}, since |-> 0, until |-> 0]

ProcurementInit ==
  /\ orders = OldOrders
  /\ history = << {} >>
  /\ events = {}
  /\ seq = [order |-> Len(OldOrders), result |-> 0]
  /\ collected = 0
  /\ work = [c \in Calls |-> NoWork]
  /\ report = [r \in Reporters |-> NoReport]

-----------------------------------------------------------------------------
(* POST /orders and POST /orders/{id}/results *)

\* A granted call goes on with request q, first into state pc.
Begin(c, q, pc) ==
  /\ charge[c].pc = "granted"
  /\ work[c].pc = "idle"
  /\ work' = [work EXCEPT ![c].pc = pc, ![c].q = q, ![c].since = Len(history)]
  /\ UNCHANGED <<quotaVars, orders, history, events, seq, collected, report>>

\* _ensure_shop_belongs_to_tenant
EnsureShop(c, q) ==
  /\ q.kind = "order"
  /\ Begin(c, q, IF Shops[q.order.shop] = TenantOf[c] THEN "checked" ELSE "not_found")

InsertOrder(c) ==
  LET row == [work[c].q.order EXCEPT !.tenant = TenantOf[c]]
  IN /\ work[c].pc = "checked"
     /\ seq' = [seq EXCEPT !.order = @ + 1]
     /\ work' = [work EXCEPT ![c].pc = "inserted", ![c].rows = {[id |-> seq'.order, row |-> row]}]
     /\ UNCHANGED <<quotaVars, orders, history, events, collected, report>>

CommitOrder(c) ==
  /\ work[c].pc = "inserted"
  /\ work[c].q.kind = "order"
  /\ \E n \in work[c].rows :
       orders' = [o \in DOMAIN orders \cup {n.id} |-> IF o = n.id THEN n.row ELSE orders[o]]
  /\ work' = [work EXCEPT ![c].pc = "done"]
  /\ UNCHANGED <<quotaVars, history, events, seq, collected, report>>

\* Wrong: the order is looked up by its id alone.
FindAnyOrder(c, q) ==
  /\ q.kind = "upload"
  /\ Begin(c, q, IF q.order \in DOMAIN orders THEN "found" ELSE "not_found")

\* get_order, which names the tenant.
FindOrder(c, q) ==
  /\ q.kind = "upload"
  /\ Begin(c, q, IF q.order \in DOMAIN orders /\ orders[q.order].tenant = TenantOf[c]
                 THEN "found" ELSE "not_found")

Uploaded(c, id) ==
  LET q == work[c].q
  IN [id |-> id, order |-> q.order, tenant |-> orders[q.order].tenant, price |-> q.price,
      at |-> q.at, eligible |-> TRUE, canonical |-> FALSE]

\* Wrong: the event is committed by a session of its own.
InsertAndTell(c) ==
  /\ work[c].pc = "found"
  /\ seq' = [seq EXCEPT !.result = @ + 1]
  /\ work' = [work EXCEPT ![c].pc = "inserted", ![c].rows = {Uploaded(c, seq'.result)}]
  /\ events' = IF orders[work[c].q.order].completed THEN events \cup {seq'.result} ELSE events
  /\ UNCHANGED <<quotaVars, orders, history, collected, report>>

\* The row, flushed, and the outbox event of a completed order, in the same
\* transaction (its expansion is in NotificationOutbox).
InsertResult(c) ==
  /\ work[c].pc = "found"
  /\ seq' = [seq EXCEPT !.result = @ + 1]
  /\ work' = [work EXCEPT ![c].pc = "inserted", ![c].rows = {Uploaded(c, seq'.result)}]
  /\ UNCHANGED <<quotaVars, orders, history, events, collected, report>>

CommitResult(c) ==
  /\ work[c].pc = "inserted"
  /\ work[c].q.kind = "upload"
  /\ history' = Append(history, results \cup work[c].rows)
  /\ events' = events \cup {r.id : r \in {s \in work[c].rows : orders[s.order].completed}}
  /\ work' = [work EXCEPT ![c].pc = "done"]
  /\ UNCHANGED <<quotaVars, orders, seq, collected, report>>

\* An exception, a disconnect or a crash: the session is rolled back, the quota
\* stays consumed.
AbortWork(c) ==
  /\ work[c].pc \notin {"idle", "not_found", "done", "aborted"}
  /\ work' = [work EXCEPT ![c].pc = "aborted", ![c].rows = {}]
  /\ UNCHANGED <<quotaVars, orders, history, events, seq, collected, report>>

\* A collection run replaces the canonical rows of an order (PriceCollection).
Collect(o) ==
  /\ collected < MaxCollections
  /\ \E offers \in Offers :
       LET Row(i, f) == [id |-> seq.result + i, order |-> o, tenant |-> orders[o].tenant,
                         price |-> f.price, at |-> f.at, eligible |-> f.eligible,
                         canonical |-> TRUE]
       IN /\ history' = Append(history,
                          {r \in results : ~(r.order = o /\ r.canonical)}
                            \cup {Row(i, offers[i]) : i \in DOMAIN offers})
          /\ seq' = [seq EXCEPT !.result = @ + Len(offers)]
  /\ collected' = collected + 1
  /\ UNCHANGED <<quotaVars, orders, events, work, report>>

-----------------------------------------------------------------------------
(* GET /reports/summary *)

\* MIN(per_unit_price), NULL for {}, over the rows as they are: an ineligible
\* row stored with price 0 counts.
Saving(o, best) ==
  IF o.target = 0 \/ best = {} \/ o.target <= Min(best) THEN 0
  ELSE (o.target - Min(best)) * o.quantity

Prices(rows, o) == {r.price : r \in RowsOf(rows, o)}

\* [from 00:00, the day after to 00:00) in Korean time.
InRange(day, w) == (w.from = 0 \/ w.from <= day) /\ (w.to = 0 \/ day < w.to + 1)

ReportStep(r, new) ==
  /\ report' = [report EXCEPT ![r] = new]
  /\ UNCHANGED <<quotaVars, orders, history, events, seq, collected, work>>

\* The SELECT of the tenant's orders in range.
ListOrders(r) ==
  /\ report[r].pc = "idle"
  /\ \E w \in Windows :
       LET mine == {o \in DOMAIN orders : /\ orders[o].tenant = ReporterTenant[r]
                                          /\ InRange(orders[o].day, w)}
       IN ReportStep(r, [NoReport EXCEPT !.pc = "listed", !.left = mine, !.of = mine,
                                         !.since = Len(history)])

\* Wrong: the minimum is taken over every order's results.
ReadBestOfAll(r) ==
  /\ report[r].pc = "listed"
  /\ \E o \in report[r].left :
       ReportStep(r, [report[r] EXCEPT !.pc = "counting", !.order = o,
                                       !.best = {x.price : x \in results}])

ReadBest(r) ==
  /\ report[r].pc = "listed"
  /\ \E o \in report[r].left :
       ReportStep(r, [report[r] EXCEPT !.pc = "counting", !.order = o,
                                       !.best = Prices(results, o)])

ReadCount(r) ==
  LET p == report[r]
      o == p.order
  IN /\ p.pc = "counting"
     /\ ReportStep(r, [p EXCEPT !.pc = "listed", !.left = @ \ {o},
                         !.total = @ + Saving(orders[o], p.best),
                         !.count = @ + Cardinality(RowsOf(results, o))])

Answer(r) ==
  /\ report[r].pc = "listed"
  /\ report[r].left = {}
  /\ ReportStep(r, [report[r] EXCEPT !.pc = "answered", !.until = Len(history)])

AbortReport(r) ==
  /\ report[r].pc \in {"listed", "counting"}
  /\ ReportStep(r, [NoReport EXCEPT !.pc = "aborted"])

Ordering(c) == \E q \in Wants[c] : EnsureShop(c, q)

Uploading(c) == \E q \in Wants[c] : FindOrder(c, q)

ProcurementStep(c) ==
  \/ Ordering(c) \/ InsertOrder(c) \/ CommitOrder(c)
  \/ Uploading(c) \/ InsertResult(c) \/ CommitResult(c)

ReporterStep(r) == ListOrders(r) \/ ReadBest(r) \/ ReadCount(r) \/ Answer(r)

-----------------------------------------------------------------------------
(* Properties *)

\* An order belongs to its shop's tenant and a result to its order's; what a call
\* inserts belongs to the tenant of its token.
TenantsApart ==
  /\ \A o \in DOMAIN orders : orders[o].tenant = Shops[orders[o].shop]
  /\ \A r \in results : r.tenant = orders[r.order].tenant
  /\ \A c \in Calls : work[c].pc = "inserted" /\ work[c].q.kind = "upload" =>
       \A r \in work[c].rows : r.tenant = TenantOf[c]

\* The orders and results committed by calls charged to a month while it lasted
\* are within the quota, whatever fails between the charge and the commit.
WorkWithinQuota ==
  \A t \in Tenants, m \in Months :
    Cardinality({c \in OnTime(t, m) : work[c].pc = "done"}) <= MonthlyQuota[t]

\* Transactional outbox: exactly the committed uploads to completed orders have
\* an event, whatever aborts between the insert and the commit.
EventsOfUploads ==
  events = {r.id : r \in {s \in results : ~s.canonical /\ orders[s.order].completed}}

\* What the report could have found of an order at the moments of a set.
Savings(o, when) == {Saving(orders[o], Prices(history[i], o)) : i \in when}
Counts(o, when)  == {Cardinality(RowsOf(history[i], o)) : i \in when}

\* The sum of the values of a function.
Total(f) == MapThenSumSet(LAMBDA o : f[o], DOMAIN f)

\* Report p's sums over some orders are between the sums of the least and of the
\* greatest that each order had.
Bracketed(p, of, when) ==
  /\ Total([o \in of |-> Min(Savings(o, when))]) <= p.total
  /\ p.total <= Total([o \in of |-> Max(Savings(o, when))])
  /\ Total([o \in of |-> Min(Counts(o, when))]) <= p.count
  /\ p.count <= Total([o \in of |-> Max(Counts(o, when))])

\* A report reads each order at other moments while results are uploaded and
\* replaced: its total and its count are still sums of what each order in range
\* had at some moment of the report.
ReportBracketed ==
  \A r \in Reporters : report[r].pc = "answered" =>
    Bracketed(report[r], report[r].of, report[r].since .. report[r].until)
=============================================================================
