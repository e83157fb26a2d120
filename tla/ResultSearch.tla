---------------------------- MODULE ResultSearch ----------------------------
(***************************************************************************)
(* Cached search over procurement results (app/services/search_service.py, *)
(* cache_service.py), composed with Procurement: uploads and collections   *)
(* change the rows, nothing invalidates the cache, and every search shares *)
(* the quota.  A search is a Redis read, two queries and a Redis write,    *)
(* each seeing what the others left meanwhile.                             *)
(***************************************************************************)
EXTENDS Procurement, SequencesExt

CONSTANTS
  Keys,       \* what is asked: records [query, limit], the query a set of products
  OldEntries  \* the tenants and keys under which an older release left an entry

ASSUME KeysAssumption == Keys \subseteq [query : SUBSET STRING, limit : 1..100]

ASSUME SearchesAssumption ==
  \A c \in Calls : \A q \in Wants[c] : q.kind = "search" => q.key \in Keys

VARIABLE cache  \* tenant:{id}:search:{id}:{md5(q|limit)}: its entries

vars == <<quotaVars, procurementVars, cache>>

\* An entry that is missing, that cannot be decoded or validated, or an answer.
NoEntry == [kind |-> "none"]
Invalid == [kind |-> "invalid"]

Init ==
  /\ QuotaInit
  /\ ProcurementInit
  /\ cache = [t \in Tenants |-> [k \in Keys |->
                IF <<t, k>> \in OldEntries THEN Invalid ELSE NoEntry]]

-----------------------------------------------------------------------------

\* ORDER BY per_unit_price ASC, collected_at DESC, id ASC
Before(r, s) ==
  \/ r.price < s.price
  \/ r.price = s.price /\ r.at > s.at
  \/ r.price = s.price /\ r.at = s.at /\ r.id < s.id

\* _load_matches: the tenant's rows that may be compared and whose order matches.
Matches(rows, t, k) ==
  {r \in rows : r.tenant = t /\ r.eligible /\ orders[r.order].product \in k.query}

Ranking(rows, t, k) ==
  LET ranked == SetToSortSeq(Matches(rows, t, k), Before)
  IN SubSeq(ranked, 1, IF k.limit < Len(ranked) THEN k.limit ELSE Len(ranked))

Entry(items, hint) == [kind |-> "answer", items |-> items, hint |-> hint]

WorkStep(c, from, to) ==
  /\ work[c].pc = from
  /\ work' = [work EXCEPT ![c].pc = to]
  /\ UNCHANGED <<quotaVars, orders, history, events, seq, collected, report>>

\* Ending a search with an answer.
Reply(c, from, entry, cached) ==
  /\ work[c].pc = from
  /\ work' = [work EXCEPT ![c].pc = "done", ![c].rows = {[entry |-> entry, cached |-> cached]}]
  /\ UNCHANGED <<quotaVars, orders, history, events, seq, collected, report>>

\* Wrong: force_refresh is read as if it were not there.
StartSearchCached(c, q) ==
  /\ q.kind = "search"
  /\ Begin(c, q, "reading")
  /\ UNCHANGED cache

StartSearch(c, q) ==
  /\ q.kind = "search"
  /\ Begin(c, q, IF q.force THEN "purging" ELSE "reading")
  /\ UNCHANGED cache

\* cache_get_json: a hit is answered, an entry that is no answer is deleted.
ReadCache(c) ==
  /\ work[c].pc = "reading"
  /\ LET entry == cache[TenantOf[c]][work[c].q.key]
     IN \/ entry.kind = "answer" /\ Reply(c, "reading", entry, TRUE)
        \/ entry.kind = "none" /\ WorkStep(c, "reading", "loading")
        \/ entry.kind = "invalid" /\ WorkStep(c, "reading", "purging")
  /\ UNCHANGED cache

\* cache_delete, by key: whatever is there by now.
Purge(c) ==
  /\ WorkStep(c, "purging", "loading")
  /\ cache' = [cache EXCEPT ![TenantOf[c]][work[c].q.key] = NoEntry]

LoadMatches(c) ==
  /\ work[c].pc = "loading"
  /\ work' = [work EXCEPT ![c].pc = "counting",
                ![c].rows = {[items |-> Ranking(results, TenantOf[c], work[c].q.key)]}]
  /\ UNCHANGED <<quotaVars, orders, history, events, seq, collected, report, cache>>

\* SELECT count(*) of the tenant's results, eligible and matching or not.
Hint(rows, t, items) ==
  IF items # <<>> THEN "none"
  ELSE IF \A r \in rows : r.tenant # t THEN "no_uploaded_results"
  ELSE "no_matching_results"

CountResults(c) ==
  /\ work[c].pc = "counting"
  /\ work' = [work EXCEPT ![c].pc = "storing",
                ![c].rows = {Entry(x.items, Hint(results, TenantOf[c], x.items)) : x \in @}]
  /\ UNCHANGED <<quotaVars, orders, history, events, seq, collected, report, cache>>

\* cache_set_json, then the answer.
StoreAnswer(c) ==
  \E entry \in work[c].rows :
    /\ Reply(c, "storing", entry, FALSE)
    /\ cache' = [cache EXCEPT ![TenantOf[c]][work[c].q.key] = entry]

\* Wrong: answers are stored without a TTL, and only older entries have one.
ExpireUnset(t, k) ==
  /\ cache[t][k] = Invalid
  /\ cache' = [cache EXCEPT ![t][k] = NoEntry]
  /\ UNCHANGED <<quotaVars, procurementVars>>

\* The TTL that every SET carries has run out.
ExpireEntry(t, k) ==
  /\ cache[t][k] # NoEntry
  /\ cache' = [cache EXCEPT ![t][k] = NoEntry]
  /\ UNCHANGED <<quotaVars, procurementVars>>

Searching(c) == \E q \in Wants[c] : StartSearch(c, q)

SearchStep(c) ==
  \/ Searching(c) \/ ReadCache(c) \/ Purge(c)
  \/ LoadMatches(c) \/ CountResults(c) \/ StoreAnswer(c)

QuotaStep == QuotaNext /\ UNCHANGED <<procurementVars, cache>>

ProcurementNext ==
  /\ \/ \E c \in Calls : ProcurementStep(c) \/ AbortWork(c)
     \/ \E o \in DOMAIN orders : Collect(o)
     \/ \E r \in Reporters : ReporterStep(r) \/ AbortReport(r)
  /\ UNCHANGED cache

Next ==
  \/ QuotaStep
  \/ ProcurementNext
  \/ \E c \in Calls : SearchStep(c)
  \/ \E t \in Tenants, k \in Keys : ExpireEntry(t, k)

Spec == Init /\ [][Next]_vars

\* A call whose quota is granted goes on, and Redis drops what has expired.  No
\* fairness of quota calls, aborts, collections or reports is assumed.
FairSpec ==
  /\ Spec
  /\ \A c \in Calls : WF_vars(SearchStep(c)) /\ WF_vars(ProcurementStep(c) /\ UNCHANGED cache)
  /\ \A t \in Tenants, k \in Keys : WF_vars(ExpireEntry(t, k))

-----------------------------------------------------------------------------
(* Properties *)

IsSearch(c) == work[c].pc = "done" /\ work[c].q.kind = "search"

TrueAt(c, i) ==
  \A x \in work[c].rows :
    x.entry.items = Ranking(history[i], TenantOf[c], work[c].q.key)

\* An answer is what ranking the caller's own results gave at one moment, never a
\* mixture or another tenant's; unless it came from the cache, at a moment of
\* the call itself, and a forced refresh never comes from the cache.
AnswersWereTrue ==
  \A c \in Calls : IsSearch(c) =>
    \A x \in work[c].rows :
      IF x.cached THEN ~work[c].q.force /\ \E i \in 1 .. Len(history) : TrueAt(c, i)
      ELSE \E i \in work[c].since .. Len(history) : TrueAt(c, i)

Current(t, k) ==
  cache[t][k].kind = "answer" => cache[t][k].items = Ranking(results, t, k)

\* Uploads never invalidate and a search may store what it read before them, so
\* an entry may be stale; but once the results stop changing no entry stays so.
StaleEnds == <>[] \A t \in Tenants, k \in Keys : Current(t, k)
=============================================================================
