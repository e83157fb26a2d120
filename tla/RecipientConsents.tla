--------------------------- MODULE RecipientConsents ---------------------------
(***************************************************************************)
(* The endpoints that create and change notification recipients, their     *)
(* consents, and shops (app/notifications, app/tenancy).  Every call is one *)
(* READ COMMITTED transaction of an ORM session: a row is loaded without a *)
(* lock, and the flush writes only the columns whose assigned value        *)
(* differs from the loaded one.  An UPDATE waits for the row, an insert or *)
(* a new phone number for the unique key.  (The share locks of foreign     *)
(* keys delay some of these steps, and are left out.)                      *)
(***************************************************************************)
EXTENDS Integers, FiniteSets, Functions, Relation

CONSTANTS
  Calls,         \* HTTP calls; each is made once
  CallerOf,      \* the user that each call's access token names
  UserTenant,    \* users: id -> tenant
  Wants,         \* per call: the requests it may make
  OldRecipients, \* notification_recipients before the start: id -> row
  OldConsents,   \* what notification_consents may hold before the start
  OldShops,      \* shops before the start: id -> tenant
  Numbers,       \* telephone numbers without lead and zero
  None

RecipientColumns == {"tenant", "phone", "shop", "user", "active"}
ConsentColumns   == {"tenant", "source", "revoked"}

\* The rows before the start are the tables', and unique.
ASSUME RecipientAssumption ==
  /\ None \notin Calls
  /\ Calls \cap DOMAIN OldRecipients = {}
  /\ \A r \in DOMAIN OldRecipients : DOMAIN OldRecipients[r] = RecipientColumns
  /\ \A r, s \in DOMAIN OldRecipients :
       <<OldRecipients[r].tenant, OldRecipients[r].phone>>
         = <<OldRecipients[s].tenant, OldRecipients[s].phone>> => r = s
  /\ \A old \in OldConsents : \A k \in DOMAIN old :
       DOMAIN old[k] = ConsentColumns /\ old[k].revoked \notin Calls

ASSUME RequestAssumption ==
  \A c \in Calls : \A q \in Wants[c] :
    /\ q.kind \in {"create", "update", "deactivate", "grant", "revoke", "shop"}
    /\ q.kind = "update" => DOMAIN q.patch \subseteq RecipientColumns \ {"tenant"}

VARIABLES
  recipients,  \* committed rows, by id
  consents,    \* committed rows, by <<recipient, consent type>>
  shops,       \* committed rows: id -> tenant
  clock,       \* counts commits
  work         \* per call: its request and its transaction

vars == <<recipients, consents, shops, clock, work>>

Ended == {"done", "unauthorized", "not_found", "invalid", "conflict", "failed", "deadlocked",
          "aborted"}

\* changes are the columns it writes, into a new row if adds; since is the clock
\* when the row was loaded, until when it committed.
NoWork == [pc |-> "idle", q |-> None, changes |-> <<>>, adds |-> FALSE, since |-> 0, until |-> 0]

Init ==
  /\ recipients = OldRecipients
  /\ consents \in OldConsents
  /\ shops = OldShops
  /\ clock = 0
  /\ work = [c \in Calls |-> NoWork]

-----------------------------------------------------------------------------
(* Requests *)

\* get_current_user and get_current_tenant: the tenant is the user's, not the token's.
TenantOf(c) == UserTenant[CallerOf[c]]

\* normalize_phone_e164 of a number written with a lead (+82, 82 or 0), then
\* maybe a further zero, which is kept, then its digits; nine must follow the lead.
Normalize(w) == IF w.lead \in {"+82", "82", "0"} /\ w.long THEN <<w.zero, w.number>> ELSE None

Is(c, kinds) == work[c].pc # "idle" /\ work[c].q.kind \in kinds

OnConsent(c) == Is(c, {"grant", "revoke"})

\* The values of g, replaced by those of f where f has them.  (@@ of TLC, of which
\* the prover knows nothing.)
Onto(f, g) == [x \in DOMAIN f \cup DOMAIN g |-> IF x \in DOMAIN f THEN f[x] ELSE g[x]]

\* The row a call is about.
Key(c) == CASE Is(c, {"create", "shop"}) -> c
            [] OnConsent(c)              -> <<work[c].q.of, work[c].q.type>>
            [] OTHER                     -> work[c].q.of

\* The columns a call assigns.  (display_name is like shop_id; evidence and
\* granted_at are like consent_source.)  Every revocation has its own revoked_at.
Asked(c) ==
  LET q == work[c].q
  IN CASE q.kind = "create"     -> [tenant |-> TenantOf(c), phone |-> Normalize(q.phone),
                                    shop |-> q.shop, user |-> q.user, active |-> TRUE]
       [] q.kind = "update"     -> [f \in DOMAIN q.patch |-> IF f = "phone"
                                      THEN Normalize(q.patch[f]) ELSE q.patch[f]]
       [] q.kind = "deactivate" -> [active |-> FALSE]
       [] q.kind = "grant"      -> [source |-> q.source, revoked |-> None]
       [] q.kind = "revoke"     -> [revoked |-> c]
       [] q.kind = "shop"       -> [tenant |-> TenantOf(c)]

\* Wrong: the whole row is written back.
ChangesWholeRow(row, asked) == Onto(asked, row)

\* Wrong: every assigned column is written.
ChangesAssigned(row, asked) == asked

\* What the session finds dirty.
Changes(row, asked) == Restrict(asked, {f \in DOMAIN asked : asked[f] # row[f]})

Goto(c, pc, more) ==
  work' = [work EXCEPT ![c] = [f \in DOMAIN @ |->
             IF f = "pc" THEN pc ELSE IF f \in DOMAIN more THEN more[f] ELSE @[f]]]

Ends(c, pc) == Goto(c, pc, <<>>)

TablesUnchanged == UNCHANGED <<recipients, consents, shops, clock>>

Begin(c, q) ==
  /\ work[c].pc = "idle"
  /\ Goto(c, IF CallerOf[c] \in DOMAIN UserTenant THEN "begun" ELSE "unauthorized", [q |-> q])
  /\ TablesUnchanged

-----------------------------------------------------------------------------
(* Reads *)

\* get_recipient_or_404
LoadRecipient(c) ==
  LET r == work[c].q.of
  IN /\ work[c].pc = "begun" /\ ~Is(c, {"create", "shop"})
     /\ IF r \notin DOMAIN recipients \/ recipients[r].tenant # TenantOf(c)
        THEN Ends(c, "not_found")
        ELSE IF OnConsent(c) THEN Ends(c, "found")
        ELSE Goto(c, IF Is(c, {"update"}) THEN "loaded" ELSE "ready",
                  [changes |-> Changes(recipients[r], Asked(c)), since |-> clock])
     /\ TablesUnchanged

\* _ensure_optional_refs_belong_to_tenant
RefBelongs(c, f, x) ==
  x = None \/ IF f = "shop" THEN x \in DOMAIN shops /\ shops[x] = TenantOf(c)
              ELSE x \in DOMAIN UserTenant /\ UserTenant[x] = TenantOf(c)

\* The references come first, then the phone number.
CheckInput(c) ==
  LET asked == Asked(c)
  IN /\ \/ work[c].pc = "begun" /\ Is(c, {"create"})
        \/ work[c].pc = "loaded"
     /\ IF \E f \in {"shop", "user"} \cap DOMAIN asked : ~RefBelongs(c, f, asked[f])
        THEN Ends(c, "not_found")
        ELSE IF "phone" \in DOMAIN asked /\ asked.phone = None THEN Ends(c, "invalid")
        ELSE IF Is(c, {"create"})
        THEN Goto(c, "ready", [changes |-> asked, adds |-> TRUE, since |-> clock])
        ELSE Ends(c, "ready")
     /\ TablesUnchanged

\* _get_consent, and what grant_consent or revoke_consent makes of its answer.
LoadConsent(c) ==
  LET k == Key(c)
  IN /\ work[c].pc = "found"
     /\ IF k \in DOMAIN consents
        THEN Goto(c, "ready", [changes |-> Changes(consents[k], Asked(c)), since |-> clock])
        ELSE IF Is(c, {"revoke"}) THEN Ends(c, "not_found")
        ELSE Goto(c, "ready", [changes |-> Onto([tenant |-> TenantOf(c)], Asked(c)),
                               adds |-> TRUE, since |-> clock])
     /\ TablesUnchanged

-----------------------------------------------------------------------------
(* The flush *)

\* Wrong: a 409 is answered before the transaction is rolled back.
WritingRefused(c) == work[c].pc \in {"locked", "written", "conflict"} /\ DOMAIN work[c].changes # {}

\* Has rows that others must wait for.
Writing(c) == work[c].pc \in {"locked", "written"} /\ DOMAIN work[c].changes # {}

\* At the unique key of phone numbers.
AtPhoneKey(c) ==
  \/ work[c].pc = "locked"
  \/ work[c].pc = "ready" /\ Is(c, {"create"})

\* A row with the number is being written: it may keep, lose or get the number.
HoldsPhone(d, t, p) ==
  /\ Writing(d) /\ ~OnConsent(d) /\ TenantOf(d) = t
  /\ \/ Key(d) \in DOMAIN recipients /\ recipients[Key(d)].phone = p
     \/ "phone" \in DOMAIN work[d].changes /\ work[d].changes.phone = p /\ work[d].pc # "locked"

\* Those a call waits for.
Blockers(c) ==
  {d \in Calls \ {c} :
     IF AtPhoneKey(c) THEN HoldsPhone(d, TenantOf(c), work[c].changes.phone)
     ELSE /\ work[c].pc = "ready" /\ DOMAIN work[c].changes # {}
          /\ Writing(d) /\ Key(d) = Key(c)}

\* An UPDATE that gets its row; none is sent when nothing changes.
LockRow(c) ==
  /\ work[c].pc = "ready" /\ ~work[c].adds
  /\ Blockers(c) = {}
  /\ Ends(c, IF "phone" \in DOMAIN work[c].changes THEN "locked" ELSE "written")
  /\ TablesUnchanged

HasPhone(r, t, p) == recipients[r].tenant = t /\ recipients[r].phone = p

\* Wrong: numbers are indexed, but not unique.
PutPhoneAnyway(c) ==
  /\ AtPhoneKey(c)
  /\ Ends(c, "written")
  /\ TablesUnchanged

\* uq_notification_recipients_phone; the handler rolls back and answers 409.
PutPhone(c) ==
  /\ AtPhoneKey(c)
  /\ Blockers(c) = {}
  /\ Ends(c, IF \E r \in DOMAIN recipients \ {Key(c)} :
                    HasPhone(r, TenantOf(c), work[c].changes.phone)
             THEN "conflict" ELSE "written")
  /\ TablesUnchanged

\* uq_notification_consents_type; nothing handles the IntegrityError.
InsertConsent(c) ==
  /\ work[c].pc = "ready" /\ work[c].adds /\ OnConsent(c)
  /\ Blockers(c) = {}
  /\ Ends(c, IF Key(c) \in DOMAIN consents THEN "failed" ELSE "written")
  /\ TablesUnchanged

\* create_shop
InsertShop(c) ==
  /\ work[c].pc = "begun" /\ Is(c, {"shop"})
  /\ Goto(c, "written", [changes |-> Asked(c), adds |-> TRUE])
  /\ TablesUnchanged

Put(table, c) ==
  LET old == IF work[c].adds THEN <<>> ELSE table[Key(c)]
  IN [k \in DOMAIN table \cup {Key(c)} |->
        IF k = Key(c) THEN Onto(work[c].changes, old) ELSE table[k]]

Commit(c) ==
  /\ work[c].pc = "written"
  /\ clock' = clock + 1
  /\ Goto(c, "done", [until |-> clock'])
  /\ recipients' = IF Is(c, {"create", "update", "deactivate"}) THEN Put(recipients, c)
                   ELSE recipients
  /\ consents' = IF OnConsent(c) THEN Put(consents, c) ELSE consents
  /\ shops' = IF Is(c, {"shop"})
              THEN [x \in DOMAIN shops \cup {c} |-> IF x = c THEN TenantOf(c) ELSE shops[x]]
              ELSE shops

\* c waits for somebody who waits, maybe for others, for c.
InCircle(c) == TransitiveClosure([x, y \in Calls |-> y \in Blockers(x)], Calls)[c, c]

\* PostgreSQL ends a deadlock by failing one of those who wait in a circle.
BreakDeadlock(c) ==
  /\ Blockers(c) # {} /\ InCircle(c)
  /\ Ends(c, "deadlocked")
  /\ TablesUnchanged

\* The client goes away or the process dies, and the session is rolled back.
Abort(c) ==
  /\ work[c].pc \notin Ended \cup {"idle"}
  /\ Ends(c, "aborted")
  /\ TablesUnchanged

CallStep(c) ==
  \/ LoadRecipient(c) \/ CheckInput(c) \/ LoadConsent(c)
  \/ LockRow(c) \/ PutPhone(c) \/ InsertConsent(c) \/ InsertShop(c)
  \/ Commit(c) \/ BreakDeadlock(c)

Next == \E c \in Calls : CallStep(c) \/ Abort(c) \/ \E q \in Wants[c] : Begin(c, q)

Spec == Init /\ [][Next]_vars

\* What a call has begun it goes on with; nothing obliges anybody to call or to abort.
FairSpec == Spec /\ \A c \in Calls : WF_vars(CallStep(c))

-----------------------------------------------------------------------------
(* Properties *)

Done(c) == work[c].pc = "done"

Tenants == Range(UserTenant)

\* Somebody of c's tenant other than c's recipient had the number c asked for.
WasTaken(c) ==
  \/ \E r \in DOMAIN OldRecipients \ {Key(c)} :
       OldRecipients[r].tenant = TenantOf(c) /\ OldRecipients[r].phone = Asked(c).phone
  \/ \E d \in Calls : /\ Done(d) /\ Is(d, {"create", "update"}) /\ TenantOf(d) = TenantOf(c)
                      /\ Key(d) # Key(c)
                      /\ "phone" \in DOMAIN Asked(d) /\ Asked(d).phone = Asked(c).phone

\* No two recipients of a tenant have one number, however creations and changes
\* that swap numbers interleave; and a 409 is given only because of a number
\* that was really taken, never because of one a rolled back call asked for.
OneRecipientPerPhone ==
  /\ \A r, s \in DOMAIN recipients :
       HasPhone(r, recipients[s].tenant, recipients[s].phone) => r = s
  /\ \A c \in Calls : work[c].pc = "conflict" => WasTaken(c)

Row(c) == IF OnConsent(c) THEN consents[Key(c)] ELSE recipients[Key(c)]

\* Two calls that change different columns of a row both last, and of two that
\* assign one column the later one lasts, or either if they overlap: a column
\* differs from what a call assigned only through a commit after its read.
LaterCallPrevails ==
  \A c \in Calls : Done(c) /\ ~Is(c, {"shop"}) =>
    \A f \in DOMAIN Asked(c) :
      \/ Row(c)[f] = Asked(c)[f]
      \/ \E d \in Calls : /\ Done(d) /\ Key(d) = Key(c) /\ work[d].until > work[c].since
                          /\ f \in DOMAIN Asked(d) /\ Asked(d)[f] = Row(c)[f]

RevokedBefore(k) == \E old \in OldConsents : k \in DOMAIN old /\ old[k].revoked # None

\* A revoked consent is in force again only through a grant that had read a
\* revocation, one that was there at the start or a committed one: a grant made
\* while the consent was in force cannot undo a revocation that overtakes it,
\* though it commits later.
RevocationHolds ==
  \A c \in Calls : Done(c) /\ Is(c, {"revoke"}) /\ Row(c).revoked = None =>
    \E d \in Calls :
      /\ Done(d) /\ Is(d, {"grant"}) /\ Key(d) = Key(c) /\ work[d].until > work[c].until
      /\ \/ RevokedBefore(Key(c))
         \/ \E e \in Calls : /\ Done(e) /\ Is(e, {"revoke"}) /\ Key(e) = Key(c)
                             /\ work[e].until <= work[d].since

\* Every call that begins ends, also when two recipients swap their numbers and
\* each waits for the other's.
CallsEnd == \A c \in Calls : work[c].pc # "idle" ~> work[c].pc \in Ended
=============================================================================
