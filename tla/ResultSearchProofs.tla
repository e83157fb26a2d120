-------------------------- MODULE ResultSearchProofs --------------------------
(***************************************************************************)
(* The composition of ResultSearch, Procurement and Quota implements Quota *)
(* alone, so that what QuotaProofs shows holds of the whole, and the work  *)
(* that is committed is within the quota; the rows of tenants stay apart,  *)
(* uploads and their events are committed together, and what a search      *)
(* answers was true at one moment.  For every instance of the constants;   *)
(* only the calls have to be finitely many.                                *)
(***************************************************************************)
EXTENDS ResultSearch, QuotaProofs

\* A call works only if its quota was granted.
WorkGranted ==
  /\ DOMAIN work = Calls
  /\ \A c \in Calls : work[c].pc # "idle" => charge[c].pc = "granted"

\* Call c, which was granted, goes on.
GoesOn(c) ==
  /\ c \in Calls /\ charge[c].pc = "granted"
  /\ DOMAIN work' = Calls
  /\ \A d \in Calls : d # c => work'[d] = work[d]

LEMMA UpdateOfOne ==
  ASSUME NEW f, NEW g, NEW c, NEW w, g = [f EXCEPT ![c] = w]
  PROVE  DOMAIN g = DOMAIN f /\ \A d \in DOMAIN f : d # c => g[d] = f[d]
OBVIOUS

LEMMA BeginGoesOn ==
  ASSUME WorkGranted, NEW c \in Calls, NEW q, NEW pc, Begin(c, q, pc)
  PROVE  GoesOn(c) /\ UNCHANGED quotaVars
BY DEF Begin, GoesOn, WorkGranted

LEMMA OrderingGoesOn ==
  ASSUME WorkGranted, NEW c \in Calls, ProcurementStep(c) \/ AbortWork(c)
  PROVE  GoesOn(c) /\ UNCHANGED quotaVars
<1>1. CASE Ordering(c)
  BY <1>1, BeginGoesOn DEF Ordering, EnsureShop
<1>2. CASE Uploading(c)
  BY <1>2, BeginGoesOn DEF Uploading, FindOrder
<1>3. CASE InsertOrder(c)
  BY <1>3 DEF InsertOrder, GoesOn, WorkGranted
<1>4. CASE CommitOrder(c)
  BY <1>4 DEF CommitOrder, GoesOn, WorkGranted
<1>5. CASE InsertResult(c)
  BY <1>5 DEF InsertResult, GoesOn, WorkGranted
<1>6. CASE CommitResult(c)
  BY <1>6 DEF CommitResult, GoesOn, WorkGranted
<1>7. CASE AbortWork(c)
  BY <1>7 DEF AbortWork, GoesOn, WorkGranted
<1>8. QED
  BY <1>1, <1>2, <1>3, <1>4, <1>5, <1>6, <1>7 DEF ProcurementStep

LEMMA SearchGoesOn ==
  ASSUME WorkGranted, NEW c \in Calls, SearchStep(c)
  PROVE  GoesOn(c) /\ UNCHANGED quotaVars
<1>1. CASE Searching(c)
  BY <1>1, BeginGoesOn DEF Searching, StartSearch
<1>2. ASSUME NEW from, NEW to, from # "idle", WorkStep(c, from, to)
      PROVE  GoesOn(c) /\ UNCHANGED quotaVars
  BY <1>2 DEF WorkStep, GoesOn, WorkGranted
<1>3. ASSUME NEW from, NEW entry, NEW cached, from # "idle", Reply(c, from, entry, cached)
      PROVE  GoesOn(c) /\ UNCHANGED quotaVars
  BY <1>3 DEF Reply, GoesOn, WorkGranted
<1>4. CASE ReadCache(c)
  <2> DEFINE entry == cache[TenantOf[c]][work[c].q.key]
  <2>1. \/ Reply(c, "reading", entry, TRUE)
        \/ WorkStep(c, "reading", "loading")
        \/ WorkStep(c, "reading", "purging")
    BY <1>4 DEF ReadCache
  <2> HIDE DEF entry
  <2>2. QED
    BY <1>2, <1>3, <2>1
<1>5. CASE Purge(c)
  <2>1. WorkStep(c, "purging", "loading")
    BY <1>5 DEF Purge
  <2>2. QED
    BY <1>2, <2>1
<1>6. CASE LoadMatches(c)
  BY <1>6 DEF LoadMatches, GoesOn, WorkGranted
<1>7. CASE CountResults(c)
  BY <1>7 DEF CountResults, GoesOn, WorkGranted
<1>8. CASE StoreAnswer(c)
  <2>1. PICK entry : Reply(c, "storing", entry, FALSE)
    BY <1>8 DEF StoreAnswer
  <2>2. QED
    BY <1>3, <2>1
<1>9. QED
  BY <1>1, <1>4, <1>5, <1>6, <1>7, <1>8 DEF SearchStep

LEMMA GoesOnGranted ==
  ASSUME WorkGranted, NEW c \in Calls, GoesOn(c), UNCHANGED quotaVars
  PROVE  WorkGranted'
BY DEF WorkGranted, GoesOn, quotaVars

\* Each step of the composition is a step of the quota, or leaves it alone.
LEMMA StepOfQuota ==
  QuotaInv /\ WorkGranted /\ [Next]_vars => [QuotaNext]_quotaVars /\ WorkGranted'
<1> SUFFICES ASSUME QuotaInv, WorkGranted, [Next]_vars
             PROVE  [QuotaNext]_quotaVars /\ WorkGranted'
  OBVIOUS
<1>1. CASE QuotaStep
  <2>1. QuotaNext /\ work' = work
    BY <1>1 DEF QuotaStep, procurementVars
  <2>2. \A c \in Calls : charge[c].pc = "granted" => charge'[c] = charge[c]
    <3>1. CASE NextMonth
      BY <3>1 DEF NextMonth
    <3>2. ASSUME NEW d \in Calls, Consume(d) \/ CutOff(d)
          PROVE  \A c \in Calls : charge[c].pc = "granted" => charge'[c] = charge[c]
      <4>1. charge[d].pc # "granted"
        BY <3>2 DEF Consume, NameKey, Increment, Expire, CutOff
      <4>2. \A c \in Calls : c # d => charge'[c] = charge[c]
        <5>1. charge \in [Calls -> Charge]
          BY DEF QuotaInv, QuotaTypeOK
        <5>2. QED
          BY <3>2, <5>1 DEF Consume, NameKey, Increment, Expire, CutOff
      <4>3. QED
        BY <4>1, <4>2
    <3>3. QED
      BY <2>1, <3>1, <3>2 DEF QuotaNext
  <2>3. QED
    BY <2>1, <2>2 DEF WorkGranted
<1>2. CASE ProcurementNext
  <2>1. CASE \E c \in Calls : ProcurementStep(c) \/ AbortWork(c)
    BY <2>1, OrderingGoesOn, GoesOnGranted
  <2>2. CASE \E o \in DOMAIN orders : Collect(o)
    BY <2>2 DEF Collect, WorkGranted, quotaVars
  <2>3. CASE \E r \in Reporters : ReporterStep(r) \/ AbortReport(r)
    <3>1. PICK r \in Reporters : ReporterStep(r) \/ AbortReport(r)
      BY <2>3
    <3>2. ASSUME NEW new, ReportStep(r, new) PROVE UNCHANGED quotaVars /\ work' = work
      BY <3>2 DEF ReportStep
    <3>3. UNCHANGED quotaVars /\ work' = work
      BY <3>1, <3>2 DEF ReporterStep, ListOrders, ReadBest, ReadCount, Answer, AbortReport
    <3>4. QED
      BY <3>3 DEF WorkGranted, quotaVars
  <2>4. QED
    BY <1>2, <2>1, <2>2, <2>3 DEF ProcurementNext
<1>3. CASE \E c \in Calls : SearchStep(c)
  BY <1>3, SearchGoesOn, GoesOnGranted
<1>4. CASE \E t \in Tenants, k \in Keys : ExpireEntry(t, k)
  BY <1>4 DEF ExpireEntry, procurementVars, quotaVars, WorkGranted
<1>5. CASE UNCHANGED vars
  BY <1>5 DEF vars, procurementVars, quotaVars, WorkGranted
<1>6. QED
  BY <1>1, <1>2, <1>3, <1>4, <1>5 DEF Next

LEMMA InitGranted == Init => QuotaInit /\ WorkGranted
BY DEF Init, ProcurementInit, NoWork, WorkGranted

-----------------------------------------------------------------------------

\* Procurement and search, with everything they do and all their failures, use
\* the quota as QuotaSpec says: the composition implements it.
THEOREM ImplementsQuota == Spec => QuotaSpec /\ []WorkGranted
<1>1. Init => QuotaInit /\ QuotaInv /\ WorkGranted
  BY InitGranted, QuotaInitInv
<1>2. QuotaInv /\ WorkGranted /\ [Next]_vars =>
        [QuotaNext]_quotaVars /\ QuotaInv' /\ WorkGranted'
  BY StepOfQuota, QuotaStepInv
<1>3. QED
  BY <1>1, <1>2, PTL DEF Spec, QuotaSpec

\* No month grants a tenant more calls than its quota, in the composition too.
THEOREM SearchKeepsQuota == Spec => []GrantsWithinQuota
BY ImplementsQuota, QuotaKept, PTL

\* A refusal is final in the composition too.
THEOREM SearchKeepsRefusal == Spec => []RefusalIsFinal
BY ImplementsQuota, RefusalKept, PTL

\* In the composition too, only a crash leaves a counter that never expires.
THEOREM SearchLeaksNeedCrashes == Spec => []OnlyCrashesLeak
BY ImplementsQuota, LeaksNeedCrashes, PTL

\* The orders, uploads and searches that end well in the month they were charged
\* to are within the tenant's quota, whatever else fails.
THEOREM WorkKeptWithinQuota == Spec => []WorkWithinQuota
<1>1. QuotaInv /\ GrantsWithinQuota /\ WorkGranted => WorkWithinQuota
  <2> SUFFICES ASSUME QuotaInv, GrantsWithinQuota, WorkGranted,
                      NEW t \in Tenants, NEW m \in Months
               PROVE  Cardinality({c \in OnTime(t, m) : work[c].pc = "done"}) <= MonthlyQuota[t]
    BY DEF WorkWithinQuota
  <2> DEFINE S == {c \in OnTime(t, m) : work[c].pc = "done"}
  <2>1. S \subseteq Granted(t, m)
    BY DEF WorkGranted, Granted, OnTime
  <2>2. IsFiniteSet(Granted(t, m))
    <3>1. Granted(t, m) \subseteq Calls /\ IsFiniteSet(Calls)
      BY QuotaAssumption DEF Granted, OnTime
    <3>2. QED
      BY <3>1, Smaller
  <2>3. /\ Cardinality(S) \in Nat /\ Cardinality(Granted(t, m)) \in Nat
        /\ Cardinality(S) <= Cardinality(Granted(t, m))
    BY <2>1, <2>2, Smaller
  <2>4. Cardinality(Granted(t, m)) <= MonthlyQuota[t] /\ MonthlyQuota[t] \in Nat
    BY QuotaAssumption DEF GrantsWithinQuota
  <2>5. QED
    BY <2>3, <2>4
<1>2. QED
  BY <1>1, ImplementsQuota, SearchKeepsQuota, QuotaInvariant, PTL
-----------------------------------------------------------------------------
(* Tenants, and the events of uploads *)

\* The variables are what their updates take them for.
IsCall(w) == w = [pc |-> w.pc, q |-> w.q, rows |-> w.rows, since |-> w.since]

IsSeq(s) == s.order \in Nat /\ s = [order |-> s.order, result |-> s.result]

Shapes ==
  /\ DOMAIN work = Calls
  /\ \A c \in Calls : IsCall(work[c])
  /\ Len(history) \in Nat \ {0}
  /\ history = [i \in 1..Len(history) |-> history[i]]
  /\ IsSeq(seq)

\* Ids of orders come from the sequence, and an order is of its shop's tenant.
OrdersOwned ==
  \A o \in DOMAIN orders : o \in 1..seq.order /\ orders[o].tenant = Shops[orders[o].shop]

Owned(rows) ==
  \A r \in rows : r.order \in DOMAIN orders /\ r.tenant = orders[r.order].tenant

\* What a call has found, and what it has inserted and not committed.
CallFits(c) ==
  LET w == work[c] IN
  /\ w.pc = "checked" => /\ w.q.kind = "order" /\ w.q.order \in Order
                         /\ Shops[w.q.order.shop] = TenantOf[c]
  /\ w.pc = "found" => /\ w.q.kind = "upload" /\ w.q.order \in DOMAIN orders
                       /\ orders[w.q.order].tenant = TenantOf[c]
  /\ w.pc = "inserted" /\ w.q.kind = "order" =>
       \A n \in w.rows : /\ n.id \in 1..seq.order /\ n.id \notin DOMAIN orders
                         /\ n.row.tenant = Shops[n.row.shop]
  /\ w.pc = "inserted" /\ w.q.kind = "upload" =>
       Owned(w.rows) /\ \A r \in w.rows : r.tenant = TenantOf[c] /\ ~r.canonical
  /\ w.pc = "inserted" => w.q.kind \in {"order", "upload"}

\* The orders that two calls are inserting have different ids.
InsertsApart ==
  \A c, d \in Calls :
    work[c].pc = "inserted" /\ work[c].q.kind = "order"
      /\ work[d].pc = "inserted" /\ work[d].q.kind = "order" /\ c # d =>
        \A n \in work[c].rows, m \in work[d].rows : n.id # m.id

ProcurementInv ==
  /\ Shapes /\ OrdersOwned /\ InsertsApart
  /\ \A i \in 1..Len(history) : Owned(history[i])
  /\ \A c \in Calls : CallFits(c)
  /\ EventsOfUploads

\* What a search in progress or answered has read, and what the cache holds:
\* the ranking of the caller's results at one moment, of the call itself unless
\* the answer is from the cache.
RankedAt(items, i, t, k) == items = Ranking(history[i], t, k)

SearchFits(c) ==
  LET w   == work[c]
      now == w.since .. Len(history)
  IN /\ w.pc # "idle" => w.since \in 1..Len(history)
     /\ w.pc \in {"reading", "purging", "loading", "counting", "storing"} => w.q.kind = "search"
     /\ w.pc # "idle" /\ w.q.kind = "search" => w.q.key \in Keys
     /\ w.pc = "reading" => ~w.q.force
     /\ w.pc \in {"counting", "storing"} =>
          \E i \in now : \A x \in w.rows : RankedAt(x.items, i, TenantOf[c], w.q.key)
     /\ w.pc = "done" /\ w.q.kind = "search" =>
          \A x \in w.rows :
            IF x.cached
            THEN /\ ~w.q.force
                 /\ \E i \in 1..Len(history) : \A y \in w.rows : RankedAt(y.entry.items, i, TenantOf[c], w.q.key)
            ELSE \E i \in now : \A y \in w.rows : RankedAt(y.entry.items, i, TenantOf[c], w.q.key)

CacheFits ==
  /\ DOMAIN cache = Tenants
  /\ \A t \in Tenants : DOMAIN cache[t] = Keys
  /\ \A t \in Tenants : \A k \in Keys : cache[t][k].kind = "answer" =>
       \E i \in 1..Len(history) : RankedAt(cache[t][k].items, i, t, k)

SearchInv == CacheFits /\ \A c \in Calls : SearchFits(c)

\* Committing appends to the history.
LEMMA AppendedHistory ==
  ASSUME NEW s, NEW e, Len(s) \in Nat, s = [i \in 1..Len(s) |-> s[i]]
  PROVE  /\ Len(Append(s, e)) = Len(s) + 1
         /\ Append(s, e) = [i \in 1..Len(Append(s, e)) |-> Append(s, e)[i]]
         /\ \A i \in 1..Len(s) : Append(s, e)[i] = s[i]
         /\ Append(s, e)[Len(s) + 1] = e
<1> DEFINE T == {s[i] : i \in 1..Len(s)} \cup {e}
           a == Append(s, e)
<1>1. s \in [1..Len(s) -> T]
  OBVIOUS
<1>2. s \in Seq(T) /\ e \in T
  BY <1>1
<1> HIDE DEF T
<1>3. a \in Seq(T) /\ Len(a) = Len(s) + 1 /\ a[Len(s) + 1] = e
      /\ \A i \in 1..Len(s) : a[i] = s[i]
  BY <1>2
<1> HIDE DEF a
<1>4. a = [i \in 1..Len(a) |-> a[i]]
  BY <1>3
<1> QED BY <1>3, <1>4 DEF a

\* The updates of a call's record.
Moved(w, pc) == [w EXCEPT !.pc = pc]

Filled(w, pc, rows) == [w EXCEPT !.pc = pc, !.rows = rows]

Begun(w, pc, q, since) == [w EXCEPT !.pc = pc, !.q = q, !.since = since]

LEMMA MovedCall ==
  ASSUME NEW w, IsCall(w), NEW pc
  PROVE  Moved(w, pc) = [pc |-> pc, q |-> w.q, rows |-> w.rows, since |-> w.since]
<1>1. PICK a, b, c, d : w = [pc |-> a, q |-> b, rows |-> c, since |-> d]
  BY DEF IsCall
<1>2. w.pc = a /\ w.q = b /\ w.rows = c /\ w.since = d
  BY <1>1
<1>3. [w EXCEPT !.pc = pc] = [pc |-> pc, q |-> b, rows |-> c, since |-> d]
  BY <1>1
<1> QED BY <1>2, <1>3 DEF Moved

LEMMA FilledCall ==
  ASSUME NEW w, IsCall(w), NEW pc, NEW rows
  PROVE  Filled(w, pc, rows) =
           [pc |-> pc, q |-> w.q, rows |-> rows, since |-> w.since]
<1> DEFINE v == [w EXCEPT !.pc = pc]
           x == [v EXCEPT !.rows = rows]
<1>1. v = [pc |-> pc, q |-> w.q, rows |-> w.rows, since |-> w.since]
  BY MovedCall DEF Moved
<1>2. Filled(w, pc, rows) = x
  BY DEF Filled
<1> HIDE DEF v
<1>3. x = [pc |-> pc, q |-> w.q, rows |-> rows, since |-> w.since]
  BY <1>1
<1> QED BY <1>2, <1>3

LEMMA BegunCall ==
  ASSUME NEW w, IsCall(w), NEW pc, NEW q, NEW since
  PROVE  Begun(w, pc, q, since) =
           [pc |-> pc, q |-> q, rows |-> w.rows, since |-> since]
<1> DEFINE v == [w EXCEPT !.pc = pc]
           y == [v EXCEPT !.q = q]
           z == [y EXCEPT !.since = since]
<1>1. v = [pc |-> pc, q |-> w.q, rows |-> w.rows, since |-> w.since]
  BY MovedCall DEF Moved
<1>2. Begun(w, pc, q, since) = z
  BY DEF Begun
<1> HIDE DEF v
<1>3. y = [pc |-> pc, q |-> q, rows |-> w.rows, since |-> w.since]
  BY <1>1
<1> HIDE DEF y
<1>4. z = [pc |-> pc, q |-> q, rows |-> w.rows, since |-> since]
  BY <1>3
<1> QED BY <1>2, <1>4

\* The steps of a call before its commit.
LEMMA CallMoves ==
  ASSUME ProcurementInv, NEW c \in Calls, NEW w, work' = [work EXCEPT ![c] = w],
         IsCall(w), UNCHANGED <<orders, history, events>>,
         IsSeq(seq'), seq.order <= seq'.order,
         CallFits(c)',
         w.pc = "inserted" /\ w.q.kind = "order" => \A n \in w.rows : seq.order < n.id
  PROVE  ProcurementInv'
<1>1. work'[c] = w /\ DOMAIN work' = Calls /\ \A d \in Calls : d # c => work'[d] = work[d]
  BY DEF ProcurementInv, Shapes
<1>2. Shapes'
  BY <1>1 DEF ProcurementInv, Shapes
<1>3. seq.order \in Nat /\ seq'.order \in Nat
  BY DEF ProcurementInv, Shapes, IsSeq
<1>4. OrdersOwned' /\ EventsOfUploads'
  BY <1>3 DEF ProcurementInv, OrdersOwned, EventsOfUploads, results
<1>5. \A rows : Owned(rows)' <=> Owned(rows)
  BY DEF Owned
<1>6. \A d \in Calls : CallFits(d)'
  BY <1>1, <1>3, <1>5 DEF ProcurementInv, CallFits
<1>7. InsertsApart'
  <2> SUFFICES ASSUME NEW a \in Calls, NEW b \in Calls, a # b,
                      work'[a].pc = "inserted", work'[a].q.kind = "order",
                      work'[b].pc = "inserted", work'[b].q.kind = "order",
                      NEW n \in work'[a].rows, NEW m \in work'[b].rows
               PROVE  n.id # m.id
    BY DEF InsertsApart
  <2>1. n.id \in 1..seq'.order /\ m.id \in 1..seq'.order
    BY <1>6 DEF CallFits
  <2>2. a # c => n.id \in 1..seq.order
    BY <1>1 DEF ProcurementInv, CallFits
  <2>3. b # c => m.id \in 1..seq.order
    BY <1>1 DEF ProcurementInv, CallFits
  <2> QED BY <1>1, <1>3, <2>1, <2>2, <2>3 DEF ProcurementInv, InsertsApart
<1>8. \A i \in 1..Len(history') : Owned(history[i])'
  BY DEF ProcurementInv, Owned
<1> QED BY <1>2, <1>4, <1>6, <1>7, <1>8 DEF ProcurementInv

LEMMA BeginWrites ==
  ASSUME ProcurementInv, NEW c \in Calls, NEW q, NEW pc, Begin(c, q, pc)
  PROVE  /\ work' = [work EXCEPT ![c] = [pc |-> pc, q |-> q, rows |-> work[c].rows,
                                         since |-> Len(history)]]
         /\ work'[c] = [pc |-> pc, q |-> q, rows |-> work[c].rows, since |-> Len(history)]
         /\ UNCHANGED <<orders, history, events, seq>>
<1>1. IsCall(work[c]) /\ DOMAIN work = Calls
  BY DEF ProcurementInv, Shapes
<1>2. work' = [work EXCEPT ![c] = Begun(work[c], pc, q, Len(history))]
      /\ UNCHANGED <<orders, history, events, seq>>
  BY <1>1 DEF Begin, Begun
<1>3. Begun(work[c], pc, q, Len(history)) =
        [pc |-> pc, q |-> q, rows |-> work[c].rows, since |-> Len(history)]
  BY <1>1, BegunCall
<1> QED BY <1>1, <1>2, <1>3

\* Any state but these asks nothing of a call.
LEMMA BeginKeeps ==
  ASSUME ProcurementInv, NEW c \in Calls, NEW q, NEW pc, Begin(c, q, pc), pc # "inserted",
         pc = "checked" => q.kind = "order" /\ q.order \in Order /\ Shops[q.order.shop] = TenantOf[c],
         pc = "found" => /\ q.kind = "upload" /\ q.order \in DOMAIN orders
                         /\ orders[q.order].tenant = TenantOf[c]
  PROVE  ProcurementInv'
<1> DEFINE w == [pc |-> pc, q |-> q, rows |-> work[c].rows, since |-> Len(history)]
<1>1. /\ work' = [work EXCEPT ![c] = w] /\ work'[c] = w
      /\ UNCHANGED <<orders, history, events, seq>>
  BY BeginWrites
<1>2. IsCall(w) /\ w.pc = pc /\ w.q = q
  BY DEF IsCall
<1> HIDE DEF w
<1>3. CallFits(c)'
  BY <1>1, <1>2 DEF CallFits
<1>4. IsSeq(seq') /\ seq.order <= seq'.order
  BY <1>1 DEF ProcurementInv, Shapes, IsSeq
<1> QED BY <1>1, <1>2, <1>3, <1>4, CallMoves

LEMMA InsertOrderKeeps ==
  ASSUME ProcurementInv, NEW c \in Calls, InsertOrder(c)
  PROVE  ProcurementInv'
<1> DEFINE row == [work[c].q.order EXCEPT !.tenant = TenantOf[c]]
           n   == [id |-> seq.order + 1, row |-> row]
           w   == [pc |-> "inserted", q |-> work[c].q, rows |-> {n}, since |-> work[c].since]
<1>1. IsCall(work[c]) /\ DOMAIN work = Calls /\ IsSeq(seq) /\ seq.order \in Nat
  BY DEF ProcurementInv, Shapes, IsSeq
<1>2. /\ work[c].q.kind = "order" /\ work[c].q.order \in Order
      /\ Shops[work[c].q.order.shop] = TenantOf[c]
  BY DEF ProcurementInv, CallFits, InsertOrder
<1>3. row.tenant = Shops[row.shop]
  BY <1>2 DEF Order
<1>4. /\ IsSeq(seq') /\ seq'.order = seq.order + 1
      /\ UNCHANGED <<orders, history, events>>
  BY <1>1 DEF InsertOrder, IsSeq
<1>5. work' = [work EXCEPT ![c] = w] /\ work'[c] = w
  <2>1. work' = [work EXCEPT ![c] = Filled(work[c], "inserted", {n})]
    BY <1>1, <1>4 DEF InsertOrder, Filled
  <2> HIDE DEF n
  <2>2. Filled(work[c], "inserted", {n}) = w
    BY <1>1, FilledCall
  <2> QED BY <1>1, <2>1, <2>2
<1>6. IsCall(w) /\ w.pc = "inserted" /\ w.q = work[c].q /\ w.rows = {n}
  BY DEF IsCall
<1>7. n.id = seq.order + 1 /\ n.row = row
  OBVIOUS
<1> HIDE DEF w, n, row
<1>8. n.id \notin DOMAIN orders
  BY <1>1, <1>7 DEF ProcurementInv, OrdersOwned
<1>9. CallFits(c)'
  BY <1>1, <1>2, <1>3, <1>4, <1>5, <1>6, <1>7, <1>8 DEF CallFits
<1>10. seq.order <= seq'.order /\ \A m \in w.rows : seq.order < m.id
  BY <1>1, <1>4, <1>6, <1>7
<1> QED BY <1>4, <1>5, <1>6, <1>9, <1>10, CallMoves

LEMMA InsertResultKeeps ==
  ASSUME ProcurementInv, NEW c \in Calls, InsertResult(c)
  PROVE  ProcurementInv'
<1> DEFINE r == Uploaded(c, seq.result + 1)
           w == [pc |-> "inserted", q |-> work[c].q, rows |-> {r}, since |-> work[c].since]
<1>1. IsCall(work[c]) /\ DOMAIN work = Calls /\ IsSeq(seq) /\ seq.order \in Nat
  BY DEF ProcurementInv, Shapes, IsSeq
<1>2. /\ work[c].q.kind = "upload" /\ work[c].q.order \in DOMAIN orders
      /\ orders[work[c].q.order].tenant = TenantOf[c]
  BY DEF ProcurementInv, CallFits, InsertResult
<1>3. r.order = work[c].q.order /\ r.tenant = TenantOf[c] /\ ~r.canonical
  BY <1>2 DEF Uploaded
<1>4. /\ IsSeq(seq') /\ seq'.order = seq.order /\ seq'.result = seq.result + 1
      /\ UNCHANGED <<orders, history, events>>
  BY <1>1 DEF InsertResult, IsSeq
<1> HIDE DEF r
<1>5. work' = [work EXCEPT ![c] = w] /\ work'[c] = w
  <2>1. work' = [work EXCEPT ![c] = Filled(work[c], "inserted", {r})]
    BY <1>1, <1>4 DEF InsertResult, r, Filled
  <2>2. Filled(work[c], "inserted", {r}) = w
    BY <1>1, FilledCall
  <2> QED BY <1>1, <2>1, <2>2
<1>6. IsCall(w) /\ w.pc = "inserted" /\ w.q = work[c].q /\ w.rows = {r}
  BY DEF IsCall
<1> HIDE DEF w
<1>7. CallFits(c)'
  BY <1>2, <1>3, <1>4, <1>5, <1>6 DEF CallFits, Owned
<1>8. seq.order <= seq'.order /\ w.q.kind # "order"
  BY <1>1, <1>2, <1>4, <1>6
<1> QED BY <1>4, <1>5, <1>6, <1>7, <1>8, CallMoves

\* A step that changes no more of procurement than a call's state, which is then
\* none of those that ask something of it.
LEMMA WorkMoves ==
  ASSUME ProcurementInv, NEW c \in Calls, NEW pc, pc \notin {"checked", "found", "inserted"}, NEW rows,
         \/ work' = [work EXCEPT ![c].pc = pc, ![c].rows = rows]
         \/ work' = [work EXCEPT ![c].pc = pc] /\ rows = work[c].rows,
         UNCHANGED <<orders, history, events, seq>>
  PROVE  /\ ProcurementInv'
         /\ work'[c] = [pc |-> pc, q |-> work[c].q, rows |-> rows, since |-> work[c].since]
         /\ \A d \in Calls : d # c => work'[d] = work[d]
<1> DEFINE w == [pc |-> pc, q |-> work[c].q, rows |-> rows, since |-> work[c].since]
<1>1. IsCall(work[c]) /\ DOMAIN work = Calls /\ IsSeq(seq) /\ seq.order \in Nat
  BY DEF ProcurementInv, Shapes, IsSeq
<1>2. work' = [work EXCEPT ![c] = w] /\ work'[c] = w
  <2>1. CASE work' = [work EXCEPT ![c].pc = pc, ![c].rows = rows]
    <3>1. work' = [work EXCEPT ![c] = Filled(work[c], pc, rows)]
      BY <1>1, <2>1 DEF Filled
    <3>2. Filled(work[c], pc, rows) = w
      BY <1>1, FilledCall
    <3> QED BY <1>1, <3>1, <3>2
  <2>2. CASE work' = [work EXCEPT ![c].pc = pc] /\ rows = work[c].rows
    <3>1. work' = [work EXCEPT ![c] = Moved(work[c], pc)]
      BY <2>2 DEF Moved
    <3>2. Moved(work[c], pc) = w
      BY <1>1, <2>2, MovedCall
    <3> QED BY <1>1, <3>1, <3>2
  <2> QED BY <2>1, <2>2
<1>3. IsCall(w) /\ w.pc = pc
  BY DEF IsCall
<1>4. \A d \in Calls : d # c => work'[d] = work[d]
  BY <1>2
<1> HIDE DEF w
<1>5. CallFits(c)'
  BY <1>2, <1>3 DEF CallFits
<1>6. IsSeq(seq') /\ seq.order <= seq'.order /\ UNCHANGED <<orders, history, events>>
  BY <1>1
<1>7. ProcurementInv'
  BY <1>2, <1>3, <1>5, <1>6, CallMoves
<1> QED BY <1>2, <1>4, <1>7 DEF w

LEMMA CommitOrderKeeps ==
  ASSUME ProcurementInv, NEW c \in Calls, CommitOrder(c)
  PROVE  /\ ProcurementInv'
         /\ \A o \in DOMAIN orders : o \in DOMAIN orders' /\ orders'[o] = orders[o]
<1>1. PICK n \in work[c].rows :
        orders' = [o \in DOMAIN orders \cup {n.id} |-> IF o = n.id THEN n.row ELSE orders[o]]
  BY DEF CommitOrder
<1>2. /\ IsCall(work[c]) /\ DOMAIN work = Calls /\ seq.order \in Nat
      /\ UNCHANGED <<history, events, seq>>
      /\ work[c].pc = "inserted" /\ work[c].q.kind = "order"
  BY DEF ProcurementInv, Shapes, IsSeq, CommitOrder
<1>3. n.id \in 1..seq.order /\ n.id \notin DOMAIN orders /\ n.row.tenant = Shops[n.row.shop]
  BY <1>2 DEF ProcurementInv, CallFits
<1>4. /\ DOMAIN orders' = DOMAIN orders \cup {n.id} /\ orders'[n.id] = n.row
      /\ \A o \in DOMAIN orders : orders'[o] = orders[o]
  BY <1>1, <1>3
<1>5. /\ work' = [work EXCEPT ![c] = Moved(work[c], "done")]
      /\ work'[c] = [pc |-> "done", q |-> work[c].q, rows |-> work[c].rows, since |-> work[c].since]
      /\ \A d \in Calls : d # c => work'[d] = work[d]
  <2>1. work' = [work EXCEPT ![c] = Moved(work[c], "done")]
    BY DEF CommitOrder, Moved
  <2>2. Moved(work[c], "done") =
          [pc |-> "done", q |-> work[c].q, rows |-> work[c].rows, since |-> work[c].since]
    BY <1>2, MovedCall
  <2> QED BY <1>2, <2>1, <2>2
<1>6. Shapes'
  <2>1. IsCall(work'[c])
    BY <1>5 DEF IsCall
  <2> QED BY <1>2, <1>5, <2>1 DEF ProcurementInv, Shapes
<1>7. OrdersOwned'
  BY <1>2, <1>3, <1>4 DEF ProcurementInv, OrdersOwned
<1>8. \A rows : Owned(rows) => Owned(rows)'
  BY <1>4 DEF Owned
<1>9. \A i \in 1..Len(history') : Owned(history[i])'
  BY <1>2, <1>4 DEF ProcurementInv, Owned
<1>10. ASSUME NEW d \in Calls PROVE CallFits(d)'
  <2>1. CASE d = c
    BY <1>5, <2>1 DEF CallFits
  <2>2. CASE d # c
    <3>1. CallFits(d) /\ work'[d] = work[d]
      BY <1>5, <2>2 DEF ProcurementInv
    <3>2. work[d].pc = "inserted" /\ work[d].q.kind = "order" => \A m \in work[d].rows : m.id # n.id
      BY <1>2, <2>2 DEF ProcurementInv, InsertsApart
    <3> QED BY <1>2, <1>4, <1>8, <3>1, <3>2 DEF CallFits
  <2> QED BY <2>1, <2>2
<1>11. InsertsApart'
  BY <1>5 DEF ProcurementInv, InsertsApart
<1>12. EventsOfUploads'
  <2>1. Owned(results)
    BY <1>2 DEF ProcurementInv, Shapes, results
  <2>2. \A r \in results : orders'[r.order] = orders[r.order]
    BY <1>4, <2>1 DEF Owned
  <2>3. results' = results
    BY <1>2 DEF results
  <2> QED BY <1>2, <2>2, <2>3 DEF ProcurementInv, EventsOfUploads
<1> QED BY <1>4, <1>6, <1>7, <1>9, <1>10, <1>11, <1>12 DEF ProcurementInv

\* A commit of results.
LEMMA RowsCommitted ==
  ASSUME ProcurementInv, NEW rows, history' = Append(history, rows), Owned(rows),
         UNCHANGED orders, DOMAIN work' = Calls,
         \A d \in Calls : IsCall(work'[d]) /\ (work'[d] = work[d] \/ work'[d].pc = "done"),
         IsSeq(seq'), seq'.order = seq.order,
         events' = {r.id : r \in {s \in rows : ~s.canonical /\ orders[s.order].completed}}
  PROVE  /\ ProcurementInv'
         /\ Len(history') = Len(history) + 1
         /\ \A i \in 1..Len(history) : history'[i] = history[i]
<1>1. Len(history) \in Nat \ {0} /\ history = [i \in 1..Len(history) |-> history[i]]
  BY DEF ProcurementInv, Shapes
<1>2. /\ Len(history') = Len(history) + 1
      /\ history' = [i \in 1..Len(history') |-> history'[i]]
      /\ \A i \in 1..Len(history) : history'[i] = history[i]
      /\ history'[Len(history')] = rows
  BY <1>1, AppendedHistory
<1>3. Shapes'
  BY <1>1, <1>2 DEF ProcurementInv, Shapes
<1>4. OrdersOwned' /\ InsertsApart' /\ EventsOfUploads'
  <2>1. OrdersOwned'
    BY DEF ProcurementInv, OrdersOwned
  <2>2. InsertsApart'
    BY DEF ProcurementInv, InsertsApart
  <2>3. EventsOfUploads'
    BY <1>2 DEF EventsOfUploads, results
  <2> QED BY <2>1, <2>2, <2>3
<1>5. \A x : Owned(x)' <=> Owned(x)
  BY DEF Owned
<1>6. \A i \in 1..Len(history') : Owned(history[i])'
  BY <1>1, <1>2 DEF ProcurementInv, Owned
<1>7. \A d \in Calls : CallFits(d)'
  BY <1>5 DEF ProcurementInv, CallFits
<1> QED BY <1>2, <1>3, <1>4, <1>6, <1>7 DEF ProcurementInv

\* The table is the last of the history.
LEMMA TableOwned ==
  ASSUME ProcurementInv
  PROVE  Owned(results) /\ Len(history) \in Nat \ {0}
BY DEF ProcurementInv, Shapes, results

LEMMA CommitResultKeeps ==
  ASSUME ProcurementInv, NEW c \in Calls, CommitResult(c)
  PROVE  /\ ProcurementInv' /\ UNCHANGED orders
         /\ Len(history') = Len(history) + 1
         /\ \A i \in 1..Len(history) : history'[i] = history[i]
         /\ work'[c] = [pc |-> "done", q |-> work[c].q, rows |-> work[c].rows, since |-> work[c].since]
         /\ \A d \in Calls : d # c => work'[d] = work[d]
<1>1. /\ work[c].pc = "inserted" /\ work[c].q.kind = "upload"
      /\ history' = Append(history, results \cup work[c].rows)
      /\ events' = events \cup {r.id : r \in {s \in work[c].rows : orders[s.order].completed}}
      /\ UNCHANGED <<orders, seq>>
  BY DEF CommitResult
<1>2. IsCall(work[c]) /\ DOMAIN work = Calls /\ IsSeq(seq)
  BY DEF ProcurementInv, Shapes
<1>3. Owned(work[c].rows) /\ \A r \in work[c].rows : ~r.canonical
  BY <1>1 DEF ProcurementInv, CallFits
<1>4. Owned(results \cup work[c].rows)
  BY <1>3, TableOwned DEF Owned
<1>5. /\ DOMAIN work' = Calls
      /\ work'[c] = [pc |-> "done", q |-> work[c].q, rows |-> work[c].rows, since |-> work[c].since]
      /\ \A d \in Calls : d # c => work'[d] = work[d]
  <2>1. work' = [work EXCEPT ![c] = Moved(work[c], "done")]
    BY DEF CommitResult, Moved
  <2>2. Moved(work[c], "done") =
          [pc |-> "done", q |-> work[c].q, rows |-> work[c].rows, since |-> work[c].since]
    BY <1>2, MovedCall
  <2> QED BY <1>2, <2>1, <2>2
<1>6. \A d \in Calls : IsCall(work'[d]) /\ (work'[d] = work[d] \/ work'[d].pc = "done")
  <2>1. IsCall(work'[c]) /\ work'[c].pc = "done"
    BY <1>5 DEF IsCall
  <2>2. \A d \in Calls : IsCall(work[d])
    BY DEF ProcurementInv, Shapes
  <2> QED BY <1>5, <2>1, <2>2
<1> DEFINE rows == results \cup work[c].rows
<1>7. events' = {r.id : r \in {s \in rows : ~s.canonical /\ orders[s.order].completed}}
  BY <1>1, <1>3 DEF ProcurementInv, EventsOfUploads
<1>8. history' = Append(history, rows) /\ Owned(rows) /\ IsSeq(seq') /\ seq'.order = seq.order
  BY <1>1, <1>2, <1>4
<1> HIDE DEF rows
<1>9. /\ ProcurementInv' /\ Len(history') = Len(history) + 1
      /\ \A i \in 1..Len(history) : history'[i] = history[i]
  BY <1>1, <1>5, <1>6, <1>7, <1>8, RowsCommitted
<1> QED BY <1>1, <1>5, <1>9

LEMMA CollectKeeps ==
  ASSUME ProcurementInv, NEW o \in DOMAIN orders, Collect(o)
  PROVE  /\ ProcurementInv' /\ UNCHANGED <<orders, work>>
         /\ Len(history') = Len(history) + 1
         /\ \A i \in 1..Len(history) : history'[i] = history[i]
<1> DEFINE kept      == {r \in results : ~(r.order = o /\ r.canonical)}
           Row(i, f) == [id |-> seq.result + i, order |-> o, tenant |-> orders[o].tenant,
                         price |-> f.price, at |-> f.at, eligible |-> f.eligible,
                         canonical |-> TRUE]
<1>1. PICK offers \in Offers :
        /\ history' = Append(history, kept \cup {Row(i, offers[i]) : i \in DOMAIN offers})
        /\ seq' = [seq EXCEPT !.result = @ + Len(offers)]
  BY DEF Collect
<1> DEFINE new  == {Row(i, offers[i]) : i \in DOMAIN offers}
           rows == kept \cup new
<1>2. DOMAIN work = Calls /\ IsSeq(seq) /\ UNCHANGED <<orders, events, work>>
  BY DEF ProcurementInv, Shapes, Collect
<1>3. \A r \in new : r.order = o /\ r.tenant = orders[o].tenant /\ r.canonical
  OBVIOUS
<1>4. history' = Append(history, rows)
  BY <1>1
<1> HIDE DEF new
<1>5. Owned(rows)
  BY <1>3, TableOwned DEF Owned
<1>6. events = {r.id : r \in {s \in rows : ~s.canonical /\ orders[s.order].completed}}
  <2>1. \A s : s \in rows /\ ~s.canonical <=> s \in results /\ ~s.canonical
    BY <1>3
  <2> HIDE DEF rows
  <2> QED BY <2>1 DEF ProcurementInv, EventsOfUploads
<1>7. IsSeq(seq') /\ seq'.order = seq.order
  BY <1>1, <1>2 DEF IsSeq
<1> HIDE DEF rows
<1>8. DOMAIN work' = Calls /\ \A d \in Calls : IsCall(work'[d]) /\ work'[d] = work[d]
  BY <1>2 DEF ProcurementInv, Shapes
<1>9. /\ ProcurementInv' /\ Len(history') = Len(history) + 1
      /\ \A i \in 1..Len(history) : history'[i] = history[i]
  BY <1>2, <1>4, <1>5, <1>6, <1>7, <1>8, RowsCommitted
<1> QED BY <1>2, <1>9

\* Every step only adds to the orders and to the history.
Grows ==
  /\ Len(history) <= Len(history')
  /\ \A i \in 1..Len(history) : history'[i] = history[i]
  /\ \A o \in DOMAIN orders : o \in DOMAIN orders' /\ orders'[o] = orders[o]

\* A step that leaves procurement alone.
LEMMA ProcurementQuiet ==
  ASSUME ProcurementInv, UNCHANGED <<orders, history, events, seq, work>>
  PROVE  ProcurementInv' /\ Grows
<1>1. Shapes' /\ OrdersOwned' /\ InsertsApart' /\ EventsOfUploads'
  BY DEF ProcurementInv, Shapes, OrdersOwned, InsertsApart, EventsOfUploads, results
<1>2. \A i \in 1..Len(history') : Owned(history[i])'
  BY DEF ProcurementInv, Owned
<1>3. \A c \in Calls : CallFits(c)'
  BY DEF ProcurementInv, CallFits, Owned
<1>4. Grows
  BY DEF Grows, ProcurementInv, Shapes
<1> QED BY <1>1, <1>2, <1>3, <1>4 DEF ProcurementInv

-----------------------------------------------------------------------------
(* What searches answer *)

\* What a ranking was at a moment it stays, whatever is committed after.
LEMMA RankedStays ==
  ASSUME ProcurementInv, Grows, NEW i \in 1..Len(history), NEW items, NEW t, NEW k
  PROVE  i \in 1..Len(history') /\ (RankedAt(items, i, t, k)' <=> RankedAt(items, i, t, k))
<1>1. i \in 1..Len(history') /\ history'[i] = history[i] /\ Owned(history[i])
  BY DEF Grows, ProcurementInv, Shapes
<1>2. Matches(history[i], t, k)' = Matches(history[i], t, k)
  BY <1>1 DEF Matches, Owned, Grows
<1>3. Ranking(history[i], t, k)' = Ranking(history[i], t, k)
  BY <1>2 DEF Ranking
<1> QED BY <1>1, <1>3 DEF RankedAt

LEMMA CacheStays ==
  ASSUME ProcurementInv, SearchInv, Grows, UNCHANGED cache
  PROVE  CacheFits'
BY RankedStays DEF SearchInv, CacheFits

\* A call that is not concerned keeps what it has.
LEMMA SearchStays ==
  ASSUME ProcurementInv, SearchInv, Grows, NEW d \in Calls, work'[d] = work[d]
  PROVE  SearchFits(d)'
<1> DEFINE w == work[d]
           t == TenantOf[d]
<1>1. SearchFits(d) /\ Len(history) \in Nat /\ Len(history') \in Nat
      /\ Len(history) <= Len(history')
  BY DEF SearchInv, ProcurementInv, Shapes, Grows
<1>2. w.pc # "idle" => w.since \in 1..Len(history')
  BY <1>1 DEF SearchFits
<1>3. \A i \in 1..Len(history) : \A items :
        i \in 1..Len(history') /\ (RankedAt(items, i, t, w.q.key)' <=> RankedAt(items, i, t, w.q.key))
  BY RankedStays
<1>4. \A i \in w.since .. Len(history) : w.pc # "idle" =>
        i \in w.since .. Len(history') /\ i \in 1..Len(history)
  BY <1>1 DEF SearchFits
<1> QED BY <1>1, <1>2, <1>3, <1>4 DEF SearchFits

LEMMA SearchMoves ==
  ASSUME ProcurementInv, SearchInv, Grows, NEW c \in Calls,
         \A d \in Calls : d # c => work'[d] = work[d], SearchFits(c)', CacheFits'
  PROVE  SearchInv'
BY SearchStays DEF SearchInv

\* A step of a call that is no search.
LEMMA OtherMoves ==
  ASSUME ProcurementInv, SearchInv, Grows, NEW c \in Calls,
         \A d \in Calls : d # c => work'[d] = work[d], UNCHANGED cache,
         work'[c].pc \notin {"reading", "purging", "loading", "counting", "storing"},
         work'[c].pc = "aborted" \/ work'[c].q.kind # "search",
         work'[c].since \in 1..Len(history'),
         work'[c].q = work[c].q \/ work'[c].q.kind # "search",
         work[c].pc # "idle" \/ work'[c].q.kind # "search"
  PROVE  SearchInv'
<1>1. SearchFits(c)'
  BY DEF SearchFits, SearchInv
<1> QED BY <1>1, CacheStays, SearchMoves

\* Dropping an entry, and storing an answer that was right at some moment.
LEMMA CacheTakes ==
  ASSUME ProcurementInv, SearchInv, Grows, NEW t \in Tenants, NEW k, NEW entry,
         cache' = [cache EXCEPT ![t][k] = entry],
         entry.kind = "answer" => \E i \in 1..Len(history) : RankedAt(entry.items, i, t, k)
  PROVE  CacheFits'
<1>1. /\ DOMAIN cache' = Tenants
      /\ \A u \in Tenants : DOMAIN cache'[u] = Keys
      /\ \A u \in Tenants : \A x \in Keys :
           cache'[u][x] = IF u = t /\ x = k THEN entry ELSE cache[u][x]
  BY DEF SearchInv, CacheFits
<1>2. ASSUME NEW u \in Tenants, NEW x \in Keys, cache'[u][x].kind = "answer"
      PROVE  \E i \in 1..Len(history) : RankedAt(cache'[u][x].items, i, u, x)
  <2>1. CASE u = t /\ x = k
    BY <1>1, <1>2, <2>1
  <2>2. CASE ~(u = t /\ x = k)
    BY <1>1, <1>2, <2>2 DEF SearchInv, CacheFits
  <2> QED BY <2>1, <2>2
<1>3. ASSUME NEW u \in Tenants, NEW x \in Keys, cache'[u][x].kind = "answer"
      PROVE  \E i \in 1..Len(history') : RankedAt(cache[u][x].items, i, u, x)'
  <2>a. PICK items : items = cache'[u][x].items
    OBVIOUS
  <2>1. PICK i \in 1..Len(history) : RankedAt(items, i, u, x)
    BY <1>2, <1>3, <2>a
  <2>2. i \in 1..Len(history') /\ RankedAt(items, i, u, x)'
    BY <2>1, RankedStays
  <2> QED BY <2>a, <2>2 DEF RankedAt
<1> QED BY <1>1, <1>3 DEF CacheFits

\* The steps of orders and uploads.
LEMMA ProcurementCallKeeps ==
  ASSUME ProcurementInv, SearchInv, NEW c \in Calls, ProcurementStep(c) \/ AbortWork(c),
         UNCHANGED cache
  PROVE  ProcurementInv' /\ SearchInv'
<1>1. /\ DOMAIN work = Calls /\ IsCall(work[c]) /\ Len(history) \in Nat \ {0}
      /\ SearchFits(c) /\ CallFits(c)
  BY DEF ProcurementInv, SearchInv, Shapes
<1>2. ASSUME NEW q, NEW pc, Begin(c, q, pc), q.kind # "search",
             pc \in {"checked", "found", "not_found"},
             pc = "checked" => q.kind = "order" /\ q.order \in Order /\ Shops[q.order.shop] = TenantOf[c],
             pc = "found" => /\ q.kind = "upload" /\ q.order \in DOMAIN orders
                             /\ orders[q.order].tenant = TenantOf[c]
      PROVE  ProcurementInv' /\ SearchInv'
  <2>1. ProcurementInv'
    BY <1>2, BeginKeeps
  <2>2. /\ work' = [work EXCEPT ![c] = [pc |-> pc, q |-> q, rows |-> work[c].rows,
                                        since |-> Len(history)]]
        /\ work'[c] = [pc |-> pc, q |-> q, rows |-> work[c].rows, since |-> Len(history)]
        /\ UNCHANGED <<orders, history, events, seq>>
    BY <1>2, BeginWrites
  <2>3. /\ work'[c].pc = pc /\ work'[c].q = q /\ work'[c].since = Len(history)
        /\ \A d \in Calls : d # c => work'[d] = work[d]
    BY <1>1, <2>2
  <2>4. Grows
    BY <1>1, <2>2 DEF Grows
  <2>5. work'[c].since \in 1..Len(history')
    BY <1>1, <2>2, <2>3
  <2> QED BY <1>2, <2>1, <2>3, <2>4, <2>5, OtherMoves
<1>3. CASE Ordering(c)
  <2>1. PICK q \in Wants[c] : EnsureShop(c, q)
    BY <1>3 DEF Ordering
  <2>2. q.kind = "order" /\ q.order \in Order
    BY <2>1, WantsAssumption DEF EnsureShop
  <2>3. CASE Shops[q.order.shop] = TenantOf[c]
    <3>1. Begin(c, q, "checked")
      BY <2>1, <2>3 DEF EnsureShop
    <3> QED BY <1>2, <2>2, <2>3, <3>1
  <2>4. CASE Shops[q.order.shop] # TenantOf[c]
    <3>1. Begin(c, q, "not_found")
      BY <2>1, <2>4 DEF EnsureShop
    <3> QED BY <1>2, <2>2, <3>1
  <2> QED BY <2>3, <2>4
<1>4. CASE Uploading(c)
  <2>1. PICK q \in Wants[c] : FindOrder(c, q)
    BY <1>4 DEF Uploading
  <2>2. q.kind = "upload"
    BY <2>1 DEF FindOrder
  <2>3. CASE q.order \in DOMAIN orders /\ orders[q.order].tenant = TenantOf[c]
    <3>1. Begin(c, q, "found")
      BY <2>1, <2>3 DEF FindOrder
    <3> QED BY <1>2, <2>2, <2>3, <3>1
  <2>4. CASE ~(q.order \in DOMAIN orders /\ orders[q.order].tenant = TenantOf[c])
    <3>1. Begin(c, q, "not_found")
      BY <2>1, <2>4 DEF FindOrder
    <3> QED BY <1>2, <2>2, <3>1
  <2> QED BY <2>3, <2>4
<1>5. ASSUME ProcurementInv', Grows, \A d \in Calls : d # c => work'[d] = work[d],
             work[c].pc # "idle", work'[c].pc \in {"inserted", "done", "aborted"},
             work'[c].pc = "aborted" \/ work[c].q.kind # "search",
             work'[c].q = work[c].q, work'[c].since = work[c].since
      PROVE  ProcurementInv' /\ SearchInv'
  <2>1. work'[c].since \in 1..Len(history')
    BY <1>1, <1>5 DEF SearchFits, Grows, ProcurementInv, Shapes
  <2> QED BY <1>5, <2>1, OtherMoves
<1>6. CASE InsertOrder(c)
  <2>1. /\ UNCHANGED <<orders, history>> /\ work[c].pc = "checked"
        /\ work'[c].pc = "inserted" /\ work'[c].q = work[c].q /\ work'[c].since = work[c].since
        /\ \A d \in Calls : d # c => work'[d] = work[d]
    <3>a. PICK rows :
            rows = {[id |-> seq'.order, row |-> [work[c].q.order EXCEPT !.tenant = TenantOf[c]]]}
      OBVIOUS
    <3>1. UNCHANGED <<orders, history>> /\ work[c].pc = "checked"
      BY <1>6 DEF InsertOrder
    <3>2. work' = [work EXCEPT ![c] = Filled(work[c], "inserted", rows)]
      BY <1>1, <1>6, <3>a DEF InsertOrder, Filled
    <3>3. /\ work'[c] = Filled(work[c], "inserted", rows)
          /\ \A d \in Calls : d # c => work'[d] = work[d]
      BY <1>1, <3>2
    <3>4. Filled(work[c], "inserted", rows) =
            [pc |-> "inserted", q |-> work[c].q, rows |-> rows, since |-> work[c].since]
      BY <1>1, FilledCall
    <3> QED BY <3>1, <3>3, <3>4
  <2>2. Grows
    BY <1>1, <2>1 DEF Grows
  <2>3. work[c].q.kind = "order"
    BY <1>1, <2>1 DEF CallFits
  <2> QED BY <1>5, <1>6, <2>1, <2>2, <2>3, InsertOrderKeeps
<1>7. CASE InsertResult(c)
  <2>1. /\ UNCHANGED <<orders, history>> /\ work[c].pc = "found"
        /\ work'[c].pc = "inserted" /\ work'[c].q = work[c].q /\ work'[c].since = work[c].since
        /\ \A d \in Calls : d # c => work'[d] = work[d]
    <3>a. PICK rows :
            rows = {Uploaded(c, seq'.result)}
      OBVIOUS
    <3>1. UNCHANGED <<orders, history>> /\ work[c].pc = "found"
      BY <1>7 DEF InsertResult
    <3>2. work' = [work EXCEPT ![c] = Filled(work[c], "inserted", rows)]
      BY <1>1, <1>7, <3>a DEF InsertResult, Filled
    <3>3. /\ work'[c] = Filled(work[c], "inserted", rows)
          /\ \A d \in Calls : d # c => work'[d] = work[d]
      BY <1>1, <3>2
    <3>4. Filled(work[c], "inserted", rows) =
            [pc |-> "inserted", q |-> work[c].q, rows |-> rows, since |-> work[c].since]
      BY <1>1, FilledCall
    <3> QED BY <3>1, <3>3, <3>4
  <2>2. Grows
    BY <1>1, <2>1 DEF Grows
  <2>3. work[c].q.kind = "upload"
    BY <1>1, <2>1 DEF CallFits
  <2> QED BY <1>5, <1>7, <2>1, <2>2, <2>3, InsertResultKeeps
<1>8. CASE CommitOrder(c)
  <2>1. /\ UNCHANGED history /\ work[c].pc = "inserted" /\ work[c].q.kind = "order"
        /\ work'[c].pc = "done" /\ work'[c].q = work[c].q /\ work'[c].since = work[c].since
        /\ \A d \in Calls : d # c => work'[d] = work[d]
    <3>1. /\ UNCHANGED history /\ work[c].pc = "inserted" /\ work[c].q.kind = "order"
          /\ work' = [work EXCEPT ![c] = Moved(work[c], "done")]
      BY <1>8 DEF CommitOrder, Moved
    <3> QED BY <1>1, <3>1, MovedCall
  <2>2. /\ ProcurementInv'
        /\ \A o \in DOMAIN orders : o \in DOMAIN orders' /\ orders'[o] = orders[o]
    BY <1>8, CommitOrderKeeps
  <2>3. Grows
    BY <1>1, <2>1, <2>2 DEF Grows
  <2> QED BY <1>5, <2>1, <2>2, <2>3
<1>9. CASE CommitResult(c)
  <2>1. /\ ProcurementInv' /\ UNCHANGED orders
        /\ Len(history') = Len(history) + 1
        /\ \A i \in 1..Len(history) : history'[i] = history[i]
        /\ work'[c] = [pc |-> "done", q |-> work[c].q, rows |-> work[c].rows, since |-> work[c].since]
        /\ \A d \in Calls : d # c => work'[d] = work[d]
    BY <1>9, CommitResultKeeps
  <2>2. Grows
    BY <1>1, <2>1 DEF Grows
  <2>3. work[c].pc = "inserted" /\ work[c].q.kind = "upload"
    BY <1>9 DEF CommitResult
  <2> QED BY <1>5, <2>1, <2>2, <2>3
<1>10. CASE AbortWork(c)
  <2>1. /\ work' = [work EXCEPT ![c].pc = "aborted", ![c].rows = {}]
        /\ UNCHANGED <<orders, history, events, seq>> /\ work[c].pc # "idle"
    BY <1>10 DEF AbortWork
  <2>2. /\ ProcurementInv'
        /\ work'[c] = [pc |-> "aborted", q |-> work[c].q, rows |-> {}, since |-> work[c].since]
        /\ \A d \in Calls : d # c => work'[d] = work[d]
    BY <2>1, WorkMoves
  <2>3. Grows
    BY <1>1, <2>1 DEF Grows
  <2>4. /\ work[c].pc # "idle" /\ work'[c].pc = "aborted"
        /\ work'[c].q = work[c].q /\ work'[c].since = work[c].since
    BY <2>1, <2>2
  <2> QED BY <1>5, <2>2, <2>3, <2>4
<1> QED BY <1>3, <1>4, <1>6, <1>7, <1>8, <1>9, <1>10 DEF ProcurementStep

\* The steps of a search: what it reads it has from one moment of the call.
LEMMA SearchCallKeeps ==
  ASSUME ProcurementInv, SearchInv, NEW c \in Calls, SearchStep(c)
  PROVE  ProcurementInv' /\ SearchInv'
<1> DEFINE t   == TenantOf[c]
           now == Len(history)
<1>1. /\ DOMAIN work = Calls /\ IsCall(work[c]) /\ now \in Nat \ {0}
      /\ SearchFits(c) /\ CacheFits /\ t \in Tenants
  BY QuotaAssumption DEF ProcurementInv, SearchInv, Shapes
<1>2. UNCHANGED <<orders, history, events, seq>>
  BY DEF SearchStep, Searching, StartSearch, Begin, ReadCache, Reply, WorkStep, Purge,
         LoadMatches, CountResults, StoreAnswer
<1>3. Grows
  BY <1>1, <1>2 DEF Grows
<1>4. \A i \in 1..now : \A items, k : RankedAt(items, i, t, k)' <=> RankedAt(items, i, t, k)
  BY <1>3, RankedStays
<1>5. CASE Searching(c)
  <2>1. PICK q \in Wants[c] : StartSearch(c, q)
    BY <1>5 DEF Searching
  <2>2. q.kind = "search" /\ q.key \in Keys
    BY <2>1, SearchesAssumption DEF StartSearch
  <2>3. PICK pc \in {"purging", "reading"} : Begin(c, q, pc) /\ (pc = "reading" => ~q.force)
    <3>1. CASE q.force
      BY <2>1, <3>1 DEF StartSearch
    <3>2. CASE ~q.force
      BY <2>1, <3>2 DEF StartSearch
    <3> QED BY <3>1, <3>2
  <2>4. ProcurementInv'
    BY <2>3, BeginKeeps
  <2>5. /\ work' = [work EXCEPT ![c] = [pc |-> pc, q |-> q, rows |-> work[c].rows, since |-> now]]
        /\ work'[c] = [pc |-> pc, q |-> q, rows |-> work[c].rows, since |-> now]
    BY <2>3, BeginWrites
  <2>6. SearchFits(c)'
    <3>1. /\ work'[c].pc = pc /\ work'[c].q = q /\ work'[c].since \in 1..Len(history')
      BY <1>1, <1>2, <2>5
    <3> QED BY <2>2, <2>3, <3>1 DEF SearchFits
  <2>7. CacheFits'
    BY <1>3, <2>1, CacheStays DEF StartSearch
  <2> QED BY <1>1, <1>3, <2>4, <2>5, <2>6, <2>7, SearchMoves
\* Moving on without reading anything.
<1>6. ASSUME NEW to \in {"purging", "loading"}, NEW from \in {"reading", "purging"},
             WorkStep(c, from, to), CacheFits'
      PROVE  ProcurementInv' /\ SearchInv'
  <2>1. work' = [work EXCEPT ![c].pc = to] /\ work[c].pc = from
    BY <1>6 DEF WorkStep
  <2>2. /\ ProcurementInv'
        /\ work'[c] = [pc |-> to, q |-> work[c].q, rows |-> work[c].rows, since |-> work[c].since]
        /\ \A d \in Calls : d # c => work'[d] = work[d]
    BY <1>2, <2>1, WorkMoves
  <2>3. SearchFits(c)'
    <3>1. /\ work[c].since \in 1..Len(history') /\ work[c].q.kind = "search" /\ work[c].q.key \in Keys
      BY <1>1, <1>2, <2>1 DEF SearchFits
    <3> QED BY <2>2, <3>1 DEF SearchFits
  <2> QED BY <1>3, <1>6, <2>2, <2>3, SearchMoves
\* Reading, and answering with what was read.
<1>7. ASSUME NEW pc \in {"counting", "storing", "done"}, NEW rows,
             work' = [work EXCEPT ![c].pc = pc, ![c].rows = rows], CacheFits',
             work[c].pc \in {"reading", "loading", "counting", "storing"},
             pc # "done" => \E i \in work[c].since .. now :
               \A x \in rows : RankedAt(x.items, i, t, work[c].q.key),
             pc = "done" => \A x \in rows :
               IF x.cached
               THEN /\ ~work[c].q.force
                    /\ \E i \in 1..now : \A y \in rows : RankedAt(y.entry.items, i, t, work[c].q.key)
               ELSE \E i \in work[c].since .. now :
                      \A y \in rows : RankedAt(y.entry.items, i, t, work[c].q.key)
      PROVE  ProcurementInv' /\ SearchInv'
  <2>1. /\ ProcurementInv'
        /\ work'[c] = [pc |-> pc, q |-> work[c].q, rows |-> rows, since |-> work[c].since]
        /\ \A d \in Calls : d # c => work'[d] = work[d]
    BY <1>2, <1>7, WorkMoves
  <2>2. /\ work[c].since \in 1..now /\ work[c].q.kind = "search" /\ work[c].q.key \in Keys
        /\ \A i \in work[c].since .. now : i \in 1..now
    BY <1>1, <1>7 DEF SearchFits
  <2>3. SearchFits(c)'
    <3>a. PICK n, k, s, f : n = now /\ k = work[c].q.key /\ s = work[c].since /\ f = work[c].q.force
      OBVIOUS
    <3>1. /\ work'[c].pc = pc /\ work'[c].rows = rows /\ work'[c].since = s
          /\ work'[c].q.key = k /\ work'[c].q.force = f /\ Len(history') = n
          /\ s \in 1..n /\ k \in Keys /\ work'[c].q.kind = "search"
      BY <1>2, <2>1, <2>2, <3>a
    <3>2. \A i \in 1..n : \A items : RankedAt(items, i, t, k)' <=> RankedAt(items, i, t, k)
      BY <1>4, <3>a
    <3>3. pc # "done" => \E i \in s .. n : \A x \in rows : RankedAt(x.items, i, t, k)'
      BY <1>7, <2>2, <3>a, <3>2
    <3>4. pc = "done" => \A x \in rows :
            IF x.cached THEN ~f /\ \E i \in 1..n : \A y \in rows : RankedAt(y.entry.items, i, t, k)'
            ELSE \E i \in s .. n : \A y \in rows : RankedAt(y.entry.items, i, t, k)'
      BY <1>7, <2>2, <3>a, <3>2
    <3> QED BY <3>1, <3>3, <3>4 DEF SearchFits
  <2> QED BY <1>3, <1>7, <2>1, <2>3, SearchMoves
<1>8. CASE ReadCache(c)
  <2> DEFINE key   == work[c].q.key
             entry == cache[t][key]
  <2>1. work[c].pc = "reading" /\ UNCHANGED cache
    BY <1>8 DEF ReadCache
  <2>2. CacheFits'
    BY <1>3, <2>1, CacheStays
  <2>3. key \in Keys /\ ~work[c].q.force
    BY <1>1, <2>1 DEF SearchFits
  <2>4. CASE entry.kind = "answer" /\ Reply(c, "reading", entry, TRUE)
    <3>1. \E i \in 1..now : RankedAt(entry.items, i, t, key)
      BY <1>1, <2>3, <2>4 DEF CacheFits
    <3> DEFINE rows == {[entry |-> entry, cached |-> TRUE]}
    <3>2. work' = [work EXCEPT ![c].pc = "done", ![c].rows = rows]
      BY <2>4 DEF Reply
    <3>3. \A x \in rows : x.cached /\ x.entry = entry
      OBVIOUS
    <3> HIDE DEF rows, entry
    <3> QED BY <1>7, <2>1, <2>2, <2>3, <3>1, <3>2, <3>3
  <2>5. CASE WorkStep(c, "reading", "loading") \/ WorkStep(c, "reading", "purging")
    BY <1>6, <2>2, <2>5
  <2> QED BY <1>8, <2>4, <2>5 DEF ReadCache
<1>9. CASE Purge(c)
  <2>1. WorkStep(c, "purging", "loading")
        /\ cache' = [cache EXCEPT ![t][work[c].q.key] = NoEntry]
    BY <1>9 DEF Purge
  <2>a. PICK k, none : k = work[c].q.key /\ none = NoEntry
    OBVIOUS
  <2>b. cache' = [cache EXCEPT ![t][k] = none] /\ none.kind # "answer"
    BY <2>1, <2>a DEF NoEntry
  <2>2. CacheFits'
    BY <1>1, <1>3, <2>b, CacheTakes
  <2> QED BY <1>6, <2>1, <2>2
<1>10. CASE LoadMatches(c)
  <2> DEFINE rows == {[items |-> Ranking(results, t, work[c].q.key)]}
  <2>1. /\ work[c].pc = "loading" /\ UNCHANGED cache
        /\ work' = [work EXCEPT ![c].pc = "counting", ![c].rows = rows]
    BY <1>10 DEF LoadMatches
  <2>2. work[c].since \in 1..now
    BY <1>1, <2>1 DEF SearchFits
  <2>3. now \in work[c].since .. now /\ \A x \in rows : RankedAt(x.items, now, t, work[c].q.key)
    BY <1>1, <2>2 DEF RankedAt, results
  <2> HIDE DEF rows
  <2> QED BY <1>3, <1>7, <2>1, <2>3, CacheStays
<1>11. CASE CountResults(c)
  <2> DEFINE rows == {Entry(x.items, Hint(results, t, x.items)) : x \in work[c].rows}
  <2>1. /\ work[c].pc = "counting" /\ UNCHANGED cache
        /\ work' = [work EXCEPT ![c].pc = "storing", ![c].rows = rows]
    BY <1>1, <1>11 DEF CountResults
  <2>2. \A y \in rows : \E x \in work[c].rows : y.items = x.items
    BY DEF Entry
  <2>3. \E i \in work[c].since .. now : \A x \in work[c].rows : RankedAt(x.items, i, t, work[c].q.key)
    BY <1>1, <2>1 DEF SearchFits
  <2> HIDE DEF rows
  <2>4. \E i \in work[c].since .. now : \A y \in rows : RankedAt(y.items, i, t, work[c].q.key)
    BY <2>2, <2>3
  <2> QED BY <1>3, <1>7, <2>1, <2>4, CacheStays
<1>12. CASE StoreAnswer(c)
  <2>1. PICK entry \in work[c].rows :
          /\ Reply(c, "storing", entry, FALSE)
          /\ cache' = [cache EXCEPT ![t][work[c].q.key] = entry]
    BY <1>12 DEF StoreAnswer
  <2>2. work[c].pc = "storing"
    BY <2>1 DEF Reply
  <2>3. /\ \E i \in work[c].since .. now : RankedAt(entry.items, i, t, work[c].q.key)
        /\ \A i \in work[c].since .. now : i \in 1..now
    BY <1>1, <2>2 DEF SearchFits
  <2>4. CacheFits'
    BY <1>1, <1>3, <2>1, <2>3, CacheTakes
  <2> DEFINE rows == {[entry |-> entry, cached |-> FALSE]}
  <2>5. work' = [work EXCEPT ![c].pc = "done", ![c].rows = rows]
    BY <2>1 DEF Reply
  <2>6. \A x \in rows : ~x.cached /\ x.entry = entry
    OBVIOUS
  <2> HIDE DEF rows
  <2> QED BY <1>7, <2>2, <2>3, <2>4, <2>5, <2>6
<1> QED BY <1>5, <1>8, <1>9, <1>10, <1>11, <1>12 DEF SearchStep

\* Every step keeps both.
LEMMA StepSearch ==
  ProcurementInv /\ SearchInv /\ [Next]_vars => ProcurementInv' /\ SearchInv'
<1> SUFFICES ASSUME ProcurementInv, SearchInv, [Next]_vars
             PROVE  ProcurementInv' /\ SearchInv'
  OBVIOUS
<1>1. ASSUME UNCHANGED <<orders, history, events, seq, work>>, Grows => CacheFits'
      PROVE  ProcurementInv' /\ SearchInv'
  <2>1. ProcurementInv' /\ Grows
    BY <1>1, ProcurementQuiet
  <2>2. \A c \in Calls : SearchFits(c)'
    BY <1>1, <2>1, SearchStays
  <2> QED BY <1>1, <2>1, <2>2 DEF SearchInv
<1>2. CASE QuotaStep
  BY <1>1, <1>2, CacheStays DEF QuotaStep, procurementVars
<1>3. CASE ProcurementNext
  <2>1. UNCHANGED cache
    BY <1>3 DEF ProcurementNext
  <2>2. ASSUME NEW c \in Calls, ProcurementStep(c) \/ AbortWork(c)
        PROVE  ProcurementInv' /\ SearchInv'
    BY <2>1, <2>2, ProcurementCallKeeps
  <2>3. ASSUME NEW o \in DOMAIN orders, Collect(o)
        PROVE  ProcurementInv' /\ SearchInv'
    <3>1. /\ ProcurementInv' /\ UNCHANGED <<orders, work>>
          /\ Len(history') = Len(history) + 1
          /\ \A i \in 1..Len(history) : history'[i] = history[i]
      BY <2>3, CollectKeeps
    <3>2. Grows
      BY <3>1 DEF Grows, ProcurementInv, Shapes
    <3>3. \A c \in Calls : SearchFits(c)'
      BY <3>1, <3>2, SearchStays
    <3> QED BY <2>1, <3>1, <3>2, <3>3, CacheStays DEF SearchInv
  <2>4. ASSUME NEW r \in Reporters, ReporterStep(r) \/ AbortReport(r)
        PROVE  ProcurementInv' /\ SearchInv'
    <3>1. UNCHANGED <<orders, history, events, seq, work>>
      BY <2>4 DEF ReporterStep, ListOrders, ReadBest, ReadCount, Answer, AbortReport, ReportStep
    <3> QED BY <1>1, <2>1, <3>1, CacheStays
  <2> QED BY <1>3, <2>2, <2>3, <2>4 DEF ProcurementNext
<1>4. ASSUME NEW c \in Calls, SearchStep(c)
      PROVE  ProcurementInv' /\ SearchInv'
  BY <1>4, SearchCallKeeps
<1>5. ASSUME NEW t \in Tenants, NEW k \in Keys, ExpireEntry(t, k)
      PROVE  ProcurementInv' /\ SearchInv'
  <2>a. NoEntry.kind # "answer"
    BY DEF NoEntry
  <2>1. PICK none : none = NoEntry /\ none.kind # "answer"
    BY <2>a
  <2>2. /\ UNCHANGED <<orders, history, events, seq, work>>
        /\ cache' = [cache EXCEPT ![t][k] = none]
    BY <1>5, <2>1 DEF ExpireEntry, procurementVars
  <2> QED BY <1>1, <2>1, <2>2, CacheTakes
<1>6. CASE UNCHANGED vars
  BY <1>1, <1>6, CacheStays DEF vars, procurementVars
<1> QED BY <1>2, <1>3, <1>4, <1>5, <1>6 DEF Next

LEMMA InitSearch == Init => ProcurementInv /\ SearchInv
<1> SUFFICES ASSUME Init PROVE ProcurementInv /\ SearchInv
  OBVIOUS
<1>1. /\ orders = OldOrders /\ history = << {} >> /\ events = {}
      /\ seq = [order |-> Len(OldOrders), result |-> 0]
      /\ work = [c \in Calls |-> NoWork]
      /\ cache = [t \in Tenants |-> [k \in Keys |->
                    IF <<t, k>> \in OldEntries THEN Invalid ELSE NoEntry]]
  BY DEF Init, ProcurementInit
<1>2. Len(history) = 1 /\ history[1] = {} /\ history = [i \in 1..1 |-> history[i]]
  BY <1>1
<1>3. \A c \in Calls : work[c] = NoWork
  BY <1>1
<1>4. IsCall(NoWork) /\ NoWork.pc = "idle"
  BY DEF IsCall, NoWork
<1>5. IsSeq(seq) /\ seq.order = Len(OldOrders)
  BY <1>1, OldOrdersAssumption DEF IsSeq
<1>6. Shapes
  BY <1>1, <1>2, <1>3, <1>4, <1>5 DEF Shapes
<1>7. OrdersOwned
  BY <1>1, <1>5, OldOrdersAssumption DEF OrdersOwned
<1>8. InsertsApart /\ \A c \in Calls : CallFits(c)
  BY <1>3, <1>4 DEF InsertsApart, CallFits
<1>9. EventsOfUploads /\ \A i \in 1..Len(history) : Owned(history[i])
  BY <1>1, <1>2 DEF EventsOfUploads, Owned, results
<1>10. CacheFits
  BY <1>1 DEF CacheFits, NoEntry, Invalid
<1>11. \A c \in Calls : SearchFits(c)
  BY <1>3, <1>4 DEF SearchFits
<1> QED BY <1>6, <1>7, <1>8, <1>9, <1>10, <1>11 DEF ProcurementInv, SearchInv

LEMMA SearchInvariant == Spec => [](ProcurementInv /\ SearchInv)
BY InitSearch, StepSearch, PTL DEF Spec

\* An order is of its shop's tenant and a result of its order's, and no call
\* inserts for another tenant than that of its token, whoever else orders,
\* uploads, collects or aborts meanwhile.
THEOREM RowsOfTheirTenants == Spec => []TenantsApart
<1>1. ProcurementInv => TenantsApart
  BY TableOwned DEF ProcurementInv, OrdersOwned, Owned, CallFits, TenantsApart
<1> QED BY <1>1, SearchInvariant, PTL

\* The outbox holds an event for exactly the uploads to completed orders that
\* were committed, whatever was rolled back.
THEOREM UploadsHaveEvents == Spec => []EventsOfUploads
<1>1. ProcurementInv => EventsOfUploads
  BY DEF ProcurementInv
<1> QED BY <1>1, SearchInvariant, PTL

\* What a search answers is the ranking of its tenant's results at one moment,
\* of the call itself unless the answer is from the cache, for every interleaving
\* with uploads, collections, other searches and the cache's expiry.
THEOREM AnswersHeld == Spec => []AnswersWereTrue
<1>1. ASSUME ProcurementInv, SearchInv PROVE AnswersWereTrue
  <2> SUFFICES ASSUME NEW c \in Calls, IsSearch(c), NEW x \in work[c].rows
               PROVE  IF x.cached
                      THEN ~work[c].q.force /\ \E i \in 1 .. Len(history) : TrueAt(c, i)
                      ELSE \E i \in work[c].since .. Len(history) : TrueAt(c, i)
    BY DEF AnswersWereTrue
  <2>1. SearchFits(c)
    BY <1>1 DEF SearchInv
  <2> QED BY <2>1 DEF SearchFits, IsSearch, TrueAt, RankedAt
<1> QED BY <1>1, SearchInvariant, PTL
=============================================================================
