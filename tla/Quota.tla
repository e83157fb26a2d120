------------------------------- MODULE Quota -------------------------------
(***************************************************************************)
(* Monthly call quotas (app/services/quota_service.py): one Redis counter  *)
(* per tenant and month.  check_and_consume names the key from the clock,  *)
(* sends INCRBY, and, if it created the counter, sends EXPIREAT: three     *)
(* moments between which the month may end and the caller may die.         *)
(* Every caller in the application consumes an amount of 1.                *)
(***************************************************************************)
EXTENDS Integers, FiniteSets

CONSTANTS
  Calls,         \* API calls that consume quota; each is made once
  Tenants,
  TenantOf,      \* the tenant of each call's access token
  MonthlyQuota,  \* tenants.api_quota_monthly
  LastMonth      \* bound on the clock

ASSUME QuotaAssumption ==
  /\ IsFiniteSet(Calls)
  /\ TenantOf \in [Calls -> Tenants]
  /\ MonthlyQuota \in [Tenants -> Nat]
  /\ LastMonth \in Nat

VARIABLES
  month,    \* the current month, in Korean time
  counter,  \* quota:tenant:{tenant_id}:{YYYYMM}
  charge    \* per call: its check_and_consume

quotaVars == <<month, counter, charge>>

Months == 0..LastMonth

\* expires is the month at whose first instant Redis drops the key; 0 is no
\* expiry.  A counter that does not exist counts 0.
Counter == [count : Nat, expires : Nat]

NoCounter == [count |-> 0, expires |-> 0]

\* key is the month the call's key names, at the month its INCRBY ran in, and
\* count what INCRBY returned.
Charge == [pc : {"idle", "keyed", "first", "granted", "refused", "cut"},
           key : Months, at : Months, count : Nat]

NoCharge == [pc |-> "idle", key |-> 0, at |-> 0, count |-> 0]

QuotaTypeOK ==
  /\ month \in Months
  /\ counter \in [Tenants -> [Months -> Counter]]
  /\ charge \in [Calls -> Charge]

QuotaInit ==
  /\ month = 0
  /\ counter = [t \in Tenants |-> [m \in Months |-> NoCounter]]
  /\ charge = [c \in Calls |-> NoCharge]

-----------------------------------------------------------------------------

Dropped(k) == k.expires # 0 /\ k.expires <= month + 1

\* The month ends, and with it every counter that expires then.
NextMonth ==
  /\ month < LastMonth
  /\ month' = month + 1
  /\ counter' = [t \in Tenants |-> [m \in Months |->
                   IF Dropped(counter[t][m]) THEN NoCounter ELSE counter[t][m]]]
  /\ UNCHANGED charge

\* tenant_quota_key: the month is read before anything is sent.
NameKey(c) ==
  /\ charge[c].pc = "idle"
  /\ charge' = [charge EXCEPT ![c].pc = "keyed", ![c].key = month]
  /\ UNCHANGED <<month, counter>>

\* Wrong: a counter is refused only past the next number.
VerdictOneMore(t, n) == IF n > MonthlyQuota[t] + 1 THEN "refused" ELSE "granted"

\* A refused call stays counted.
Verdict(t, n) == IF n > MonthlyQuota[t] THEN "refused" ELSE "granted"

\* Wrong: current != amount is taken for the counter's first call.
IncrementNotFirst(c) ==
  LET t == TenantOf[c]
      m == charge[c].key
      n == counter[t][m].count + 1
  IN /\ charge[c].pc = "keyed"
     /\ counter' = [counter EXCEPT ![t][m].count = n]
     /\ charge' = [charge EXCEPT ![c] =
          [pc |-> IF n # 1 THEN "first" ELSE Verdict(t, n),
           key |-> m, at |-> month, count |-> n]]
     /\ UNCHANGED month

\* INCRBY creates the counter, without an expiry, if it is not there.
Increment(c) ==
  LET t == TenantOf[c]
      m == charge[c].key
      n == counter[t][m].count + 1
  IN /\ charge[c].pc = "keyed"
     /\ counter' = [counter EXCEPT ![t][m].count = n]
     /\ charge' = [charge EXCEPT ![c] =
          [pc |-> IF n = 1 THEN "first" ELSE Verdict(t, n),
           key |-> m, at |-> month, count |-> n]]
     /\ UNCHANGED month

\* Wrong: the expiry is the first of this month, not of the next one.
ExpireThisMonth(c) ==
  LET t == TenantOf[c]
      m == charge[c].key
  IN /\ charge[c].pc = "first"
     /\ \E e \in charge[c].at .. month :
          counter' = [counter EXCEPT ![t][m] =
                        IF e <= month THEN NoCounter ELSE [@ EXCEPT !.expires = e]]
     /\ charge' = [charge EXCEPT ![c].pc = Verdict(t, charge[c].count)]
     /\ UNCHANGED month

\* EXPIREAT: its instant, the first of the month after the one the clock showed
\* since INCRBY, may be past when Redis runs it, which deletes the counter.
Expire(c) ==
  LET t == TenantOf[c]
      m == charge[c].key
  IN /\ charge[c].pc = "first"
     /\ \E e \in charge[c].at + 1 .. month + 1 :
          counter' = [counter EXCEPT ![t][m] =
                        IF e <= month THEN NoCounter ELSE [@ EXCEPT !.expires = e]]
     /\ charge' = [charge EXCEPT ![c].pc = Verdict(t, charge[c].count)]
     /\ UNCHANGED month

\* The process dies or Redis fails before the next command is sent.
CutOff(c) ==
  /\ charge[c].pc \in {"keyed", "first"}
  /\ charge' = [charge EXCEPT ![c].pc = "cut"]
  /\ UNCHANGED <<month, counter>>

Consume(c) == NameKey(c) \/ Increment(c) \/ Expire(c)

QuotaNext == NextMonth \/ \E c \in Calls : Consume(c) \/ CutOff(c)

QuotaSpec == QuotaInit /\ [][QuotaNext]_quotaVars

-----------------------------------------------------------------------------
(* Properties *)

\* remaining_quota
Remaining(t) == IF counter[t][month].count < MonthlyQuota[t]
                THEN MonthlyQuota[t] - counter[t][month].count ELSE 0

\* The calls charged to tenant t's month m while it lasted.  (One that named its
\* key just before the month ended may be counted after it, on a counter that
\* may have expired: see the README.)
OnTime(t, m) == {c \in Calls : TenantOf[c] = t /\ charge[c].key = m /\ charge[c].at = m}

Granted(t, m) == {c \in OnTime(t, m) : charge[c].pc = "granted"}

\* However the commands of concurrent calls interleave with the expiry of
\* counters, no month grants a tenant more calls than its quota.
GrantsWithinQuota ==
  \A t \in Tenants, m \in Months : Cardinality(Granted(t, m)) <= MonthlyQuota[t]

\* Once a call of the month is refused, nothing remains until the month ends: a
\* refusal is never followed by a grant.
RefusalIsFinal ==
  \A t \in Tenants :
    (\E c \in OnTime(t, month) : charge[c].pc = "refused") => Remaining(t) = 0

\* Only a call that is between its two commands, or that died there, leaves a
\* counter that would never expire.
OnlyCrashesLeak ==
  \A t \in Tenants, m \in Months :
    counter[t][m].count > 0 /\ counter[t][m].expires = 0 =>
      \E c \in Calls : /\ TenantOf[c] = t /\ charge[c].key = m
                       /\ charge[c].count = 1 /\ charge[c].pc \in {"first", "cut"}
=============================================================================
