----------------------------- MODULE QuotaProofs -----------------------------
(***************************************************************************)
(* Machine-checked theorems about Quota, for every finite set of calls and *)
(* every set of tenants, quotas and months.                                *)
(*                                                                         *)
(* That no month grants more than the quota is not inductive.  Its proof   *)
(* counts the calls that are granted or will be: those whose INCRBY        *)
(* returned at most the quota.  In a month that has not ended they are no  *)
(* more than the counter says, because a counter is dropped only when its  *)
(* month is over; so one that INCRBY adds finds room.                      *)
(***************************************************************************)
EXTENDS Quota, FiniteSetTheorems, TLAPS

Charged == {"first", "granted", "refused"}

Admitted(t, m) ==
  {c \in OnTime(t, m) : charge[c].pc \in {"first", "granted"} /\ charge[c].count <= MonthlyQuota[t]}

KeysArePast ==
  \A c \in Calls :
    /\ charge[c].pc # "idle" => charge[c].key <= month
    /\ charge[c].pc \in Charged => charge[c].key <= charge[c].at /\ charge[c].at <= month

ExpiryIsLater ==
  \A t \in Tenants, m \in Months : counter[t][m].expires = 0 \/ counter[t][m].expires > m

VerdictsFollow ==
  \A c \in Calls :
    /\ charge[c].pc = "granted" => charge[c].count <= MonthlyQuota[TenantOf[c]]
    /\ charge[c].pc = "refused" => charge[c].count > MonthlyQuota[TenantOf[c]]

CountersGrow ==
  \A c \in Calls : charge[c].pc \in Charged /\ charge[c].key >= month =>
    charge[c].count <= counter[TenantOf[c]][charge[c].key].count

AdmittedFit ==
  \A t \in Tenants, m \in Months :
    /\ Cardinality(Admitted(t, m)) <= MonthlyQuota[t]
    /\ m >= month => Cardinality(Admitted(t, m)) <= counter[t][m].count

QuotaInv ==
  /\ QuotaTypeOK
  /\ KeysArePast
  /\ ExpiryIsLater
  /\ VerdictsFollow
  /\ CountersGrow
  /\ AdmittedFit

-----------------------------------------------------------------------------

\* A subset of a finite set with one more element has at most one more.
LEMMA OneMore ==
  ASSUME NEW S, IsFiniteSet(S), NEW T, NEW x, T \subseteq S \cup {x}
  PROVE  /\ IsFiniteSet(T)
         /\ Cardinality(T) \in Nat /\ Cardinality(S) \in Nat
         /\ Cardinality(T) <= Cardinality(S) + 1
<1>0. Cardinality(S) \in Nat
  BY FS_CardinalityType
<1>a. IsFiniteSet(S \cup {x})
  BY FS_AddElement
<1>b. \/ Cardinality(S \cup {x}) = Cardinality(S)
      \/ Cardinality(S \cup {x}) = Cardinality(S) + 1
  BY FS_AddElement
<1>1. IsFiniteSet(S \cup {x}) /\ Cardinality(S \cup {x}) <= Cardinality(S) + 1
  BY <1>0, <1>a, <1>b
<1>2. IsFiniteSet(T) /\ Cardinality(T) <= Cardinality(S \cup {x})
  BY <1>1, FS_Subset
<1>3. Cardinality(T) \in Nat /\ Cardinality(S) \in Nat /\ Cardinality(S \cup {x}) \in Nat
  BY <1>1, <1>2, FS_CardinalityType
<1>4. QED
  BY <1>1, <1>2, <1>3

LEMMA Smaller ==
  ASSUME NEW S, IsFiniteSet(S), NEW T, T \subseteq S
  PROVE  /\ IsFiniteSet(T)
         /\ Cardinality(T) \in Nat /\ Cardinality(S) \in Nat
         /\ Cardinality(T) <= Cardinality(S)
BY FS_Subset, FS_CardinalityType

LEMMA AdmittedFinite ==
  ASSUME NEW t, NEW m
  PROVE  IsFiniteSet(Admitted(t, m)) /\ Cardinality(Admitted(t, m)) \in Nat
<1>1. IsFiniteSet(Calls) /\ Admitted(t, m) \subseteq Calls
  BY QuotaAssumption DEF Admitted, OnTime
<1>2. QED
  BY <1>1, Smaller

\* What the type invariant says of one call and of one counter.
LEMMA CallTypes ==
  ASSUME QuotaTypeOK, NEW c \in Calls
  PROVE  /\ TenantOf[c] \in Tenants
         /\ charge[c] \in Charge
         /\ charge[c].key \in Months /\ charge[c].key \in Nat
         /\ charge[c].at \in Months /\ charge[c].at \in Nat
         /\ charge[c].count \in Nat
         /\ month \in Months /\ month \in Nat
<1>1. TenantOf[c] \in Tenants
  BY QuotaAssumption
<1>2. charge[c] \in Charge /\ month \in Months
  BY DEF QuotaTypeOK
<1>3. charge[c].key \in Months /\ charge[c].at \in Months /\ charge[c].count \in Nat
  BY <1>2 DEF Charge
<1>4. Months \subseteq Nat
  BY QuotaAssumption DEF Months
<1>5. QED
  BY <1>1, <1>2, <1>3, <1>4

LEMMA CounterTypes ==
  ASSUME QuotaTypeOK, NEW t \in Tenants, NEW m \in Months
  PROVE  /\ counter[t] \in [Months -> Counter]
         /\ counter[t][m] \in Counter
         /\ counter[t][m].count \in Nat /\ counter[t][m].expires \in Nat
         /\ MonthlyQuota[t] \in Nat
<1>1. counter[t] \in [Months -> Counter]
  BY DEF QuotaTypeOK
<1>2. counter[t][m] \in Counter
  BY <1>1
<1>3. QED
  BY <1>1, <1>2, QuotaAssumption DEF Counter

-----------------------------------------------------------------------------
(* The invariant holds at first *)

LEMMA QuotaInitInv == QuotaInit => QuotaInv
<1> SUFFICES ASSUME QuotaInit PROVE QuotaInv
  OBVIOUS
<1>1. 0 \in Months
  BY QuotaAssumption DEF Months
<1>2. QuotaTypeOK
  BY <1>1 DEF QuotaInit, QuotaTypeOK, NoCounter, NoCharge, Counter, Charge
<1>3. KeysArePast /\ VerdictsFollow /\ CountersGrow
  BY DEF QuotaInit, NoCharge, KeysArePast, VerdictsFollow, CountersGrow, Charged
<1>4. ExpiryIsLater
  BY DEF QuotaInit, NoCounter, ExpiryIsLater
<1>5. AdmittedFit
  <2> SUFFICES ASSUME NEW t \in Tenants, NEW m \in Months
               PROVE  /\ Cardinality(Admitted(t, m)) <= MonthlyQuota[t]
                      /\ Cardinality(Admitted(t, m)) <= counter[t][m].count
    BY DEF AdmittedFit
  <2>1. Admitted(t, m) = {}
    BY DEF QuotaInit, NoCharge, Admitted, OnTime
  <2>2. Cardinality(Admitted(t, m)) = 0
    BY <2>1, FS_EmptySet
  <2>3. MonthlyQuota[t] \in Nat /\ counter[t][m].count = 0
    BY QuotaAssumption DEF QuotaInit, NoCounter
  <2>4. QED
    BY <2>2, <2>3
<1>6. QED
  BY <1>2, <1>3, <1>4, <1>5 DEF QuotaInv

-----------------------------------------------------------------------------
(* Each step keeps it *)

LEMMA NextMonthInv == QuotaInv /\ NextMonth => QuotaInv'
<1> SUFFICES ASSUME QuotaInv, NextMonth PROVE QuotaInv'
  OBVIOUS
<1> USE DEF QuotaInv
<1>1. /\ month \in Nat /\ month' = month + 1 /\ month' \in Months /\ charge' = charge
      /\ \A n \in Months : n \in Nat
  BY QuotaAssumption DEF NextMonth, QuotaTypeOK, Months
<1>2. \A t \in Tenants, m \in Months :
        /\ counter[t][m] \in Counter
        /\ counter'[t][m] \in {counter[t][m], NoCounter}
        /\ m >= month' => counter'[t][m] = counter[t][m]
  <2> SUFFICES ASSUME NEW t \in Tenants, NEW m \in Months
               PROVE  /\ counter[t][m] \in Counter
                      /\ counter'[t][m] \in {counter[t][m], NoCounter}
                      /\ m >= month' => counter'[t][m] = counter[t][m]
    OBVIOUS
  <2>1. counter[t][m] \in Counter /\ counter[t][m].expires \in Nat
    BY DEF QuotaTypeOK, Counter
  <2>2. counter'[t][m] = IF Dropped(counter[t][m]) THEN NoCounter ELSE counter[t][m]
    BY DEF NextMonth
  <2>3. ASSUME m >= month' PROVE ~Dropped(counter[t][m])
    BY <1>1, <2>1, <2>3 DEF ExpiryIsLater, Dropped
  <2>4. QED
    BY <2>1, <2>2, <2>3
<1>3. NoCounter \in Counter /\ NoCounter.expires = 0
  BY DEF NoCounter, Counter
<1>4. QuotaTypeOK'
  <2>1. counter' = [t \in Tenants |-> [m \in Months |-> counter'[t][m]]]
    BY DEF NextMonth
  <2>2. \A t \in Tenants, m \in Months : counter'[t][m] \in Counter
    BY <1>2, <1>3
  <2>3. counter' \in [Tenants -> [Months -> Counter]]
    BY <2>1, <2>2
  <2>4. QED
    BY <1>1, <2>3 DEF QuotaTypeOK
<1>5. \A c \in Calls : charge[c].key \in Nat /\ charge[c].at \in Nat /\ charge[c].key \in Months
  BY <1>1 DEF QuotaTypeOK, Charge
<1>6. KeysArePast'
  BY <1>1, <1>5 DEF KeysArePast
<1>7. ExpiryIsLater'
  BY <1>2, <1>3 DEF ExpiryIsLater
<1>8. VerdictsFollow'
  BY <1>1 DEF VerdictsFollow
<1>9. CountersGrow'
  <2> SUFFICES ASSUME NEW c \in Calls, charge[c].pc \in Charged, charge[c].key >= month'
               PROVE  charge[c].count <= counter'[TenantOf[c]][charge[c].key].count
    BY <1>1 DEF CountersGrow
  <2>1. TenantOf[c] \in Tenants /\ charge[c].key >= month
    BY QuotaAssumption, <1>1, <1>5
  <2>2. QED
    BY <1>2, <1>5, <2>1 DEF CountersGrow
<1>10. AdmittedFit'
  <2>1. \A t, m : Admitted(t, m)' = Admitted(t, m)
    BY <1>1 DEF Admitted, OnTime
  <2>2. ASSUME NEW t \in Tenants, NEW m \in Months, m >= month'
        PROVE  m >= month /\ counter'[t][m] = counter[t][m]
    BY <1>1, <1>2, <2>2
  <2>3. QED
    BY <2>1, <2>2 DEF AdmittedFit
<1>11. QED
  BY <1>4, <1>6, <1>7, <1>8, <1>9, <1>10

\* A step that gives one call another charge, counted at no counter and admitted
\* at none, keeps what the other calls have.
LEMMA UncountedInv ==
  ASSUME QuotaInv, NEW c \in Calls, NEW to \in {"keyed", "cut"}, NEW k \in Months,
         charge[c].pc \in {"idle", "keyed", "first"},
         k <= month,
         charge' = [charge EXCEPT ![c].pc = to, ![c].key = k],
         month' = month, counter' = counter
  PROVE  QuotaInv'
<1> USE DEF QuotaInv
<1>1. /\ charge' \in [Calls -> Charge]
      /\ charge'[c].pc = to /\ charge'[c].key = k
      /\ \A d \in Calls : d # c => charge'[d] = charge[d]
  BY DEF QuotaTypeOK, Charge
<1>2. QuotaTypeOK'
  BY <1>1 DEF QuotaTypeOK
<1>3. KeysArePast' /\ VerdictsFollow' /\ CountersGrow' /\ ExpiryIsLater'
  BY <1>1 DEF KeysArePast, VerdictsFollow, CountersGrow, ExpiryIsLater, Charged
<1>4. ASSUME NEW t, NEW m
      PROVE  Admitted(t, m)' \subseteq Admitted(t, m)
  BY <1>1 DEF Admitted, OnTime
<1>5. AdmittedFit'
  <2> SUFFICES ASSUME NEW t \in Tenants, NEW m \in Months
               PROVE  /\ Cardinality(Admitted(t, m)') <= MonthlyQuota[t]
                      /\ m >= month => Cardinality(Admitted(t, m)') <= counter[t][m].count
    BY DEF AdmittedFit
  <2>1. /\ Cardinality(Admitted(t, m)') <= Cardinality(Admitted(t, m))
        /\ Cardinality(Admitted(t, m)') \in Nat /\ Cardinality(Admitted(t, m)) \in Nat
    BY <1>4, AdmittedFinite, Smaller
  <2>2. MonthlyQuota[t] \in Nat /\ counter[t][m].count \in Nat
    BY QuotaAssumption DEF QuotaTypeOK, Counter
  <2>3. QED
    BY <2>1, <2>2 DEF AdmittedFit
<1>6. QED
  BY <1>2, <1>3, <1>5

LEMMA NameKeyInv == ASSUME QuotaInv, NEW c \in Calls, NameKey(c) PROVE QuotaInv'
<1>1. month \in Months /\ month <= month
  BY QuotaAssumption DEF QuotaInv, QuotaTypeOK, Months
<1>2. QED
  BY <1>1, UncountedInv DEF NameKey

LEMMA CutOffInv == ASSUME QuotaInv, NEW c \in Calls, CutOff(c) PROVE QuotaInv'
<1>1. charge[c].key \in Months /\ charge[c].key <= month /\ charge[c] \in Charge
  BY DEF QuotaInv, QuotaTypeOK, Charge, KeysArePast, CutOff
<1>2. charge' = [charge EXCEPT ![c].pc = "cut", ![c].key = charge[c].key]
  BY <1>1 DEF CutOff, QuotaInv, QuotaTypeOK, Charge
<1>3. QED
  BY <1>1, <1>2, UncountedInv DEF CutOff

LEMMA IncrementInv == ASSUME QuotaInv, NEW c \in Calls, Increment(c) PROVE QuotaInv'
<1> DEFINE t == TenantOf[c]
           m == charge[c].key
           n == counter[t][m].count + 1
           pc == IF n = 1 THEN "first" ELSE Verdict(t, n)
<1> USE DEF QuotaInv
<1>1. /\ t \in Tenants /\ m \in Months /\ m \in Nat /\ n \in Nat /\ n >= 1
      /\ month \in Nat /\ month \in Months /\ m <= month
      /\ MonthlyQuota \in [Tenants -> Nat] /\ charge[c].pc = "keyed"
  <2>1. charge[c].pc = "keyed"
    BY DEF Increment
  <2>2. t \in Tenants /\ m \in Months /\ m \in Nat /\ month \in Months /\ month \in Nat
    BY CallTypes
  <2>3. m <= month
    BY <2>1 DEF KeysArePast
  <2>4. counter[t][m].count \in Nat
    BY <2>2, CounterTypes
  <2>5. QED
    BY <2>1, <2>2, <2>3, <2>4, QuotaAssumption
<1>2. charge' = [charge EXCEPT ![c] = [pc |-> pc, key |-> m, at |-> month, count |-> n]]
  BY DEF Increment
<1>3. pc \in Charged
  BY DEF Verdict, Charged
<1>4. /\ charge' \in [Calls -> Charge] /\ month' = month
      /\ charge'[c] = [pc |-> pc, key |-> m, at |-> month, count |-> n]
      /\ \A d \in Calls : d # c => charge'[d] = charge[d]
  <2>1. [pc |-> pc, key |-> m, at |-> month, count |-> n] \in Charge
    BY <1>1, <1>3 DEF Charge, Charged
  <2>2. QED
    BY <1>2, <2>1 DEF QuotaTypeOK, Increment
<1>5. /\ counter' \in [Tenants -> [Months -> Counter]]
      /\ \A u \in Tenants, k \in Months :
           /\ counter'[u][k].expires = counter[u][k].expires
           /\ counter'[u][k].count = IF u = t /\ k = m THEN n ELSE counter[u][k].count
  <2>1. counter' = [counter EXCEPT ![t] = [counter[t] EXCEPT ![m] =
                                              [counter[t][m] EXCEPT !.count = n]]]
    BY <1>1 DEF Increment, QuotaTypeOK
  <2>2. counter[t] \in [Months -> Counter] /\ counter[t][m] \in Counter
    BY <1>1, CounterTypes
  <2>3. [counter[t][m] EXCEPT !.count = n] \in Counter
    BY <1>1, <2>2 DEF Counter
  <2>4. [counter[t] EXCEPT ![m] = [counter[t][m] EXCEPT !.count = n]] \in [Months -> Counter]
    BY <1>1, <2>2, <2>3
  <2>5. counter \in [Tenants -> [Months -> Counter]]
    BY DEF QuotaTypeOK
  <2>6. counter' \in [Tenants -> [Months -> Counter]]
    BY <2>1, <2>4, <2>5
  <2>7. ASSUME NEW u \in Tenants, NEW k \in Months, u # t \/ k # m
        PROVE  counter'[u][k] = counter[u][k]
    BY <1>1, <2>1, <2>2, <2>5, <2>7
  <2>8. counter'[t][m] = [counter[t][m] EXCEPT !.count = n]
    BY <1>1, <2>1, <2>2, <2>5
  <2>9. counter'[t][m].expires = counter[t][m].expires /\ counter'[t][m].count = n
    BY <1>1, <2>2, <2>8 DEF Counter
  <2>10. QED
    BY <1>1, <2>6, <2>7, <2>9
<1>6. QuotaTypeOK'
  BY <1>1, <1>4, <1>5 DEF QuotaTypeOK
<1>7. KeysArePast'
  BY <1>1, <1>4 DEF KeysArePast
<1>8. ExpiryIsLater'
  BY <1>5 DEF ExpiryIsLater
<1>9. VerdictsFollow'
  <2>1. /\ pc = "granted" => n <= MonthlyQuota[t]
        /\ pc = "refused" => n > MonthlyQuota[t]
    BY <1>1 DEF Verdict
  <2>2. QED
    BY <1>4, <2>1 DEF VerdictsFollow
<1>10. CountersGrow'
  <2> SUFFICES ASSUME NEW d \in Calls, charge'[d].pc \in Charged, charge'[d].key >= month
               PROVE  charge'[d].count <= counter'[TenantOf[d]][charge'[d].key].count
    BY <1>4 DEF CountersGrow
  <2>1. CASE d = c
    BY <1>1, <1>4, <1>5, <2>1
  <2>2. CASE d # c
    <3> DEFINE u == TenantOf[d]
               k == charge[d].key
    <3>1. u \in Tenants /\ k \in Months /\ charge[d].count \in Nat /\ counter[u][k].count \in Nat
      BY QuotaAssumption DEF QuotaTypeOK, Counter, Charge
    <3>2. charge[d].count <= counter[u][k].count
      BY <1>4, <2>2 DEF CountersGrow
    <3>3. counter[u][k].count <= counter'[u][k].count
      BY <1>1, <1>5, <3>1
    <3>4. charge[d].count <= counter'[u][k].count
      <4>1. counter'[u][k].count \in Nat
        BY <1>1, <1>5, <3>1
      <4>2. QED
        BY <3>1, <3>2, <3>3, <4>1
    <3>5. QED
      BY <1>4, <2>2, <3>4
  <2>3. QED
    BY <2>1, <2>2
<1>11. AdmittedFit'
  <2> SUFFICES ASSUME NEW u \in Tenants, NEW k \in Months
               PROVE  /\ Cardinality(Admitted(u, k)') <= MonthlyQuota[u]
                      /\ k >= month => Cardinality(Admitted(u, k)') <= counter'[u][k].count
    BY <1>4 DEF AdmittedFit
  <2> DEFINE old == Admitted(u, k)
             new == Admitted(u, k)'
  <2>1. /\ IsFiniteSet(old) /\ Cardinality(old) \in Nat /\ MonthlyQuota[u] \in Nat
        /\ Cardinality(old) <= MonthlyQuota[u]
        /\ k >= month => Cardinality(old) <= counter[u][k].count
        /\ counter[u][k].count \in Nat
    BY <1>1, AdmittedFinite DEF AdmittedFit, QuotaTypeOK, Counter
  <2>2. new \subseteq old \cup {c}
    BY <1>4 DEF Admitted, OnTime
  <2>3. CASE c \notin new
    <3>1. new \subseteq old
      BY <2>2, <2>3
    <3>2. Cardinality(new) \in Nat /\ Cardinality(new) <= Cardinality(old)
      BY <2>1, <3>1, Smaller
    <3>3. counter[u][k].count <= counter'[u][k].count /\ counter'[u][k].count \in Nat
      BY <1>1, <1>5, <2>1
    <3>4. QED
      BY <2>1, <3>2, <3>3
  <2>4. CASE c \in new
    <3>1. u = t /\ k = m /\ m = month /\ n <= MonthlyQuota[t]
      BY <1>4, <2>4 DEF Admitted, OnTime
    <3>2. Cardinality(new) \in Nat /\ Cardinality(new) <= Cardinality(old) + 1
      BY <2>1, <2>2, OneMore
    <3>3. Cardinality(old) <= n - 1
      BY <1>1, <2>1, <3>1
    <3>4. Cardinality(new) <= n
      BY <1>1, <2>1, <3>2, <3>3
    <3>5. counter'[u][k].count = n
      BY <1>5, <3>1
    <3>6. QED
      BY <1>1, <2>1, <3>1, <3>2, <3>4, <3>5
  <2>5. QED
    BY <2>3, <2>4
<1>12. QED
  BY <1>6, <1>7, <1>8, <1>9, <1>10, <1>11

LEMMA ExpireInv == ASSUME QuotaInv, NEW c \in Calls, Expire(c) PROVE QuotaInv'
<1> DEFINE t == TenantOf[c]
           m == charge[c].key
           pc == Verdict(t, charge[c].count)
<1> USE DEF QuotaInv
<1>1. /\ t \in Tenants /\ m \in Months /\ m \in Nat /\ charge[c] \in Charge
      /\ charge[c].at \in Nat /\ charge[c].count \in Nat
      /\ m <= charge[c].at /\ charge[c].at <= month
      /\ month \in Nat /\ month' = month
      /\ charge[c].pc = "first"
      /\ MonthlyQuota \in [Tenants -> Nat]
  <2>1. charge[c].pc = "first" /\ month' = month
    BY DEF Expire
  <2>2. m <= charge[c].at /\ charge[c].at <= month
    BY <2>1 DEF KeysArePast, Charged
  <2>3. QED
    BY <2>1, <2>2, CallTypes, QuotaAssumption
<1>2. pc \in {"granted", "refused"}
  BY DEF Verdict
<1>3. /\ charge' \in [Calls -> Charge]
      /\ charge'[c] = [charge[c] EXCEPT !.pc = pc]
      /\ \A d \in Calls : d # c => charge'[d] = charge[d]
  <2>1. charge' = [charge EXCEPT ![c] = [charge[c] EXCEPT !.pc = pc]]
    BY DEF Expire, QuotaTypeOK
  <2>2. [charge[c] EXCEPT !.pc = pc] \in Charge
    BY <1>1, <1>2 DEF Charge
  <2>3. QED
    BY <2>1, <2>2 DEF QuotaTypeOK
<1>4. /\ charge'[c].pc = pc /\ charge'[c].key = m
      /\ charge'[c].at = charge[c].at /\ charge'[c].count = charge[c].count
  BY <1>1, <1>3 DEF Charge
<1>5. PICK e \in charge[c].at + 1 .. month + 1 :
        counter' = [counter EXCEPT ![t] = [@ EXCEPT ![m] =
                      IF e <= month THEN NoCounter ELSE [counter[t][m] EXCEPT !.expires = e]]]
  BY <1>1 DEF Expire, QuotaTypeOK
<1>6. e \in Nat /\ e > m
  BY <1>1, <1>5
<1> DEFINE x == IF e <= month THEN NoCounter ELSE [counter[t][m] EXCEPT !.expires = e]
<1>7. /\ x \in Counter /\ x.expires \in {0, e}
      /\ m >= month => x.count = counter[t][m].count
  <2>1. counter[t][m] \in Counter
    BY <1>1 DEF QuotaTypeOK
  <2>2. m >= month => ~(e <= month)
    BY <1>1, <1>6
  <2>3. QED
    BY <1>6, <2>1, <2>2 DEF Counter, NoCounter
<1>8. /\ counter' \in [Tenants -> [Months -> Counter]]
      /\ counter'[t][m] = x
      /\ \A u \in Tenants, k \in Months : u # t \/ k # m => counter'[u][k] = counter[u][k]
  <2>1. counter' = [counter EXCEPT ![t] = [counter[t] EXCEPT ![m] = x]]
    BY <1>1, <1>5 DEF QuotaTypeOK
  <2>2. counter[t] \in [Months -> Counter]
    BY <1>1 DEF QuotaTypeOK
  <2> HIDE DEF x
  <2>3. [counter[t] EXCEPT ![m] = x] \in [Months -> Counter]
    BY <1>1, <1>7, <2>2
  <2>4. QED
    BY <1>1, <2>1, <2>2, <2>3 DEF QuotaTypeOK
<1> HIDE DEF x
<1>9. QuotaTypeOK'
  BY <1>1, <1>3, <1>8 DEF QuotaTypeOK
<1>10. KeysArePast'
  BY <1>1, <1>3, <1>4 DEF KeysArePast, Charged
<1>11. ExpiryIsLater'
  BY <1>6, <1>7, <1>8 DEF ExpiryIsLater
<1>12. VerdictsFollow'
  <2>1. /\ pc = "granted" => charge[c].count <= MonthlyQuota[t]
        /\ pc = "refused" => charge[c].count > MonthlyQuota[t]
    BY <1>1 DEF Verdict
  <2>2. QED
    BY <1>3, <1>4, <2>1 DEF VerdictsFollow
<1>13. \A u \in Tenants, k \in Months : k >= month => counter'[u][k].count = counter[u][k].count
  BY <1>7, <1>8
<1>14. CountersGrow'
  <2> SUFFICES ASSUME NEW d \in Calls, charge'[d].pc \in Charged, charge'[d].key >= month
               PROVE  charge'[d].count <= counter'[TenantOf[d]][charge'[d].key].count
    BY <1>1 DEF CountersGrow
  <2>1. /\ charge[d].pc \in Charged /\ charge'[d].key = charge[d].key
        /\ charge'[d].count = charge[d].count
    BY <1>1, <1>3, <1>4 DEF Charged
  <2>2. TenantOf[d] \in Tenants /\ charge[d].key \in Months
    BY QuotaAssumption DEF QuotaTypeOK, Charge
  <2>3. QED
    BY <1>13, <2>1, <2>2 DEF CountersGrow
<1>15. AdmittedFit'
  <2> SUFFICES ASSUME NEW u \in Tenants, NEW k \in Months
               PROVE  /\ Cardinality(Admitted(u, k)') <= MonthlyQuota[u]
                      /\ k >= month => Cardinality(Admitted(u, k)') <= counter'[u][k].count
    BY <1>1 DEF AdmittedFit
  <2>1. Admitted(u, k)' \subseteq Admitted(u, k)
    <3> SUFFICES ASSUME NEW d \in Admitted(u, k)' PROVE d \in Admitted(u, k)
      OBVIOUS
    <3>1. CASE d = c
      BY <1>1, <1>4, <3>1 DEF Admitted, OnTime
    <3>2. CASE d # c
      BY <1>3, <3>2 DEF Admitted, OnTime
    <3>3. QED
      BY <3>1, <3>2
  <2>2. /\ Cardinality(Admitted(u, k)') <= Cardinality(Admitted(u, k))
        /\ Cardinality(Admitted(u, k)') \in Nat /\ Cardinality(Admitted(u, k)) \in Nat
    BY <2>1, AdmittedFinite, Smaller
  <2>3. MonthlyQuota[u] \in Nat /\ counter[u][k].count \in Nat
    BY <1>1 DEF QuotaTypeOK, Counter
  <2>4. QED
    BY <1>13, <2>2, <2>3 DEF AdmittedFit
<1>16. QED
  BY <1>9, <1>10, <1>11, <1>12, <1>14, <1>15

-----------------------------------------------------------------------------
(* The theorems *)

LEMMA QuotaStepInv == QuotaInv /\ [QuotaNext]_quotaVars => QuotaInv'
<1> SUFFICES ASSUME QuotaInv, [QuotaNext]_quotaVars PROVE QuotaInv'
  OBVIOUS
<1>1. CASE NextMonth
  BY <1>1, NextMonthInv
<1>2. ASSUME NEW c \in Calls, Consume(c) PROVE QuotaInv'
  BY <1>2, NameKeyInv, IncrementInv, ExpireInv DEF Consume
<1>3. ASSUME NEW c \in Calls, CutOff(c) PROVE QuotaInv'
  BY <1>3, CutOffInv
<1>4. CASE UNCHANGED quotaVars
  <2>1. month' = month /\ counter' = counter /\ charge' = charge
    BY <1>4 DEF quotaVars
  <2>2. \A t, m : Admitted(t, m)' = Admitted(t, m)
    BY <2>1 DEF Admitted, OnTime
  <2>3. QED
    BY <2>1, <2>2 DEF QuotaInv, QuotaTypeOK, KeysArePast, ExpiryIsLater, VerdictsFollow,
                      CountersGrow, AdmittedFit
<1>5. QED
  BY <1>1, <1>2, <1>3, <1>4 DEF QuotaNext

\* The inductive invariant of check_and_consume holds in every reachable state.
THEOREM QuotaInvariant == QuotaSpec => []QuotaInv
BY QuotaInitInv, QuotaStepInv, PTL DEF QuotaSpec

\* However the Redis commands of any number of callers interleave with the ends
\* of the months and with crashes, no month grants more calls than the quota.
THEOREM QuotaKept == QuotaSpec => []GrantsWithinQuota
<1>1. QuotaInv => GrantsWithinQuota
  <2> SUFFICES ASSUME QuotaInv, NEW t \in Tenants, NEW m \in Months
               PROVE  Cardinality(Granted(t, m)) <= MonthlyQuota[t]
    BY DEF GrantsWithinQuota
  <2>1. Granted(t, m) \subseteq Admitted(t, m)
    BY DEF QuotaInv, VerdictsFollow, Granted, Admitted, OnTime
  <2>2. /\ Cardinality(Granted(t, m)) \in Nat /\ Cardinality(Admitted(t, m)) \in Nat
        /\ Cardinality(Granted(t, m)) <= Cardinality(Admitted(t, m))
    BY <2>1, AdmittedFinite, Smaller
  <2>3. Cardinality(Admitted(t, m)) <= MonthlyQuota[t] /\ MonthlyQuota[t] \in Nat
    BY QuotaAssumption DEF QuotaInv, AdmittedFit
  <2>4. QED
    BY <2>2, <2>3
<1>2. QED
  BY <1>1, QuotaInvariant, PTL

\* A refusal is final: nothing remains of the month's quota until it ends, since
\* the counter of a month that has not ended is neither lowered nor dropped.
THEOREM RefusalKept == QuotaSpec => []RefusalIsFinal
<1>1. QuotaInv => RefusalIsFinal
  <2> SUFFICES ASSUME QuotaInv, NEW t \in Tenants, NEW c \in OnTime(t, month),
                      charge[c].pc = "refused"
               PROVE  Remaining(t) = 0
    BY DEF RefusalIsFinal
  <2>1. c \in Calls /\ TenantOf[c] = t /\ charge[c].key = month
    BY DEF OnTime
  <2>2. charge[c].count \in Nat /\ month \in Months /\ month \in Nat
    BY <2>1, CallTypes DEF QuotaInv
  <2>3. charge[c].count > MonthlyQuota[t] /\ charge[c].count <= counter[t][month].count
    BY <2>1, <2>2 DEF QuotaInv, VerdictsFollow, CountersGrow, Charged
  <2>4. counter[t][month].count \in Nat /\ MonthlyQuota[t] \in Nat
    BY <2>2, CounterTypes DEF QuotaInv
  <2>5. ~(counter[t][month].count < MonthlyQuota[t])
    BY <2>2, <2>3, <2>4
  <2>6. QED
    BY <2>5 DEF Remaining
<1>2. QED
  BY <1>1, QuotaInvariant, PTL

\* A counter without an expiry belongs to a call that is between INCRBY and
\* EXPIREAT or that died there: nothing else keeps a counter for ever.
THEOREM LeaksNeedCrashes == QuotaSpec => []OnlyCrashesLeak
<1> DEFINE Leaver(c, t, m) == /\ TenantOf[c] = t /\ charge[c].key = m
                             /\ charge[c].count = 1 /\ charge[c].pc \in {"first", "cut"}
<1>1. QuotaInit => OnlyCrashesLeak
  BY DEF QuotaInit, NoCounter, OnlyCrashesLeak
<1>2. QuotaInv /\ OnlyCrashesLeak /\ [QuotaNext]_quotaVars => OnlyCrashesLeak'
  <2> SUFFICES ASSUME QuotaInv, OnlyCrashesLeak, [QuotaNext]_quotaVars,
                      NEW t \in Tenants, NEW m \in Months,
                      counter'[t][m].count > 0, counter'[t][m].expires = 0
               PROVE  \E c \in Calls : Leaver(c, t, m)'
    BY DEF OnlyCrashesLeak
  <2> USE DEF QuotaInv
  <2>0. /\ counter[t][m] \in Counter /\ counter[t][m].count \in Nat
        /\ counter[t] \in [Months -> Counter]
        /\ counter \in [Tenants -> [Months -> Counter]] /\ charge \in [Calls -> Charge]
    BY CounterTypes DEF QuotaTypeOK
  <2>1. ASSUME counter'[t][m] = counter[t][m]
        PROVE  \E c \in Calls : Leaver(c, t, m)
    BY <2>1 DEF OnlyCrashesLeak
  <2>2. CASE NextMonth
    <3>1. counter'[t][m] \in {counter[t][m], NoCounter} /\ charge' = charge
      BY <2>2 DEF NextMonth
    <3>2. counter'[t][m] = counter[t][m]
      BY <3>1 DEF NoCounter
    <3>3. QED
      BY <2>1, <3>1, <3>2
  <2>3. ASSUME NEW d \in Calls, NameKey(d) PROVE \E c \in Calls : Leaver(c, t, m)'
    <3>1. PICK c \in Calls : Leaver(c, t, m)
      BY <2>1, <2>3 DEF NameKey
    <3>2. charge'[c] = charge[c]
      BY <2>0, <2>3, <3>1 DEF NameKey
    <3>3. QED
      BY <3>1, <3>2
  <2>4. ASSUME NEW d \in Calls, CutOff(d) PROVE \E c \in Calls : Leaver(c, t, m)'
    <3>1. PICK c \in Calls : Leaver(c, t, m)
      BY <2>1, <2>4 DEF CutOff
    <3>2. /\ charge'[c].key = charge[c].key /\ charge'[c].count = charge[c].count
          /\ charge'[c].pc \in {charge[c].pc, "cut"}
      BY <2>0, <2>4 DEF CutOff, Charge
    <3>3. QED
      BY <3>1, <3>2
  <2>5. ASSUME NEW d \in Calls, Increment(d) PROVE \E c \in Calls : Leaver(c, t, m)'
    <3> DEFINE u == TenantOf[d]
               k == charge[d].key
               n == counter[u][k].count + 1
    <3>1. /\ charge[d].pc = "keyed"
          /\ counter' = [counter EXCEPT ![u] = [counter[u] EXCEPT ![k] =
                                                  [counter[u][k] EXCEPT !.count = n]]]
          /\ u \in Tenants /\ k \in Months
      BY <2>0, <2>5, CallTypes DEF Increment
    <3>2. /\ counter[u][k] \in Counter /\ counter[u][k].count \in Nat
          /\ counter[u] \in [Months -> Counter]
      BY <3>1, CounterTypes
    <3>3. charge'[d] = [pc |-> IF n = 1 THEN "first" ELSE Verdict(u, n),
                        key |-> k, at |-> month, count |-> n]
      BY <2>0, <2>5 DEF Increment
    <3>4. \A c \in Calls : c # d => charge'[c] = charge[c]
      BY <2>0, <2>5 DEF Increment
    <3>5. ASSUME t # u \/ m # k PROVE \E c \in Calls : Leaver(c, t, m)'
      <4>1. counter'[t][m] = counter[t][m]
        BY <2>0, <3>1, <3>2, <3>5
      <4>2. PICK c \in Calls : Leaver(c, t, m)
        BY <2>1, <4>1
      <4>3. charge'[c] = charge[c]
        BY <3>1, <3>4, <4>2
      <4>4. QED
        BY <4>2, <4>3
    <3>6. ASSUME t = u, m = k PROVE \E c \in Calls : Leaver(c, t, m)'
      <4>1. counter'[t][m] = [counter[t][m] EXCEPT !.count = n]
        BY <2>0, <3>1, <3>2, <3>6
      <4>2. counter[t][m].expires = 0
        BY <2>0, <4>1 DEF Counter
      <4>3. CASE n = 1
        BY <3>3, <3>6, <4>3
      <4>4. CASE n # 1
        <5>1. counter[t][m].count > 0
          BY <3>2, <3>6, <4>4
        <5>2. PICK c \in Calls : Leaver(c, t, m)
          BY <4>2, <5>1 DEF OnlyCrashesLeak
        <5>3. charge'[c] = charge[c]
          BY <3>1, <3>4, <5>2
        <5>4. QED
          BY <5>2, <5>3
      <4>5. QED
        BY <4>3, <4>4
    <3>7. QED
      BY <3>5, <3>6
  <2>6. ASSUME NEW d \in Calls, Expire(d) PROVE \E c \in Calls : Leaver(c, t, m)'
    <3> DEFINE u == TenantOf[d]
               k == charge[d].key
    <3>1. /\ u \in Tenants /\ k \in Months /\ charge[d].at \in Nat /\ month \in Nat
          /\ counter[u] \in [Months -> Counter] /\ counter[u][k] \in Counter
      BY CallTypes, CounterTypes
    <3>2. PICK e \in charge[d].at + 1 .. month + 1 :
            counter' = [counter EXCEPT ![u] = [counter[u] EXCEPT ![k] =
                          IF e <= month THEN NoCounter ELSE [counter[u][k] EXCEPT !.expires = e]]]
      BY <2>0, <2>6, <3>1 DEF Expire
    <3>3. e \in Nat /\ e # 0
      BY <3>1, <3>2
    <3>4. ASSUME t = u, m = k PROVE FALSE
      <4>1. counter'[t][m] = IF e <= month THEN NoCounter
                             ELSE [counter[u][k] EXCEPT !.expires = e]
        BY <2>0, <3>1, <3>2, <3>4
      <4>2. QED
        BY <3>1, <3>3, <4>1 DEF NoCounter, Counter
    <3>5. counter'[t][m] = counter[t][m]
      BY <2>0, <3>1, <3>2, <3>4
    <3>6. PICK c \in Calls : Leaver(c, t, m)
      BY <2>1, <3>5
    <3>7. c # d
      BY <3>4, <3>6
    <3>8. charge'[c] = charge[c]
      BY <2>0, <2>6, <3>7 DEF Expire
    <3>9. QED
      BY <3>6, <3>8
  <2>7. CASE UNCHANGED quotaVars
    <3>1. counter' = counter /\ charge' = charge
      BY <2>7 DEF quotaVars
    <3>2. QED
      BY <2>1, <3>1
  <2>8. QED
    BY <2>2, <2>3, <2>4, <2>5, <2>6, <2>7 DEF QuotaNext, Consume
<1>3. QED
  BY <1>1, <1>2, QuotaInvariant, PTL DEF QuotaSpec
=============================================================================
