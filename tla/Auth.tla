--------------------------------- MODULE Auth ---------------------------------
(***************************************************************************)
(* Sign-in (app/auth): the OAuth state in Redis, the first login that      *)
(* inserts a tenant and its owner, and refresh tokens, which a refresh     *)
(* replaces and a logout revokes.  Every call is one READ COMMITTED        *)
(* transaction: a plain SELECT waits for nobody, while the insert of a     *)
(* unique key and the UPDATE of a row wait for the transaction that has    *)
(* written it before.  Redis commands are no part of the transaction.      *)
(***************************************************************************)
EXTENDS Integers, Sequences

CONSTANTS
  Callers,     \* HTTP calls; each is made once
  Wants,       \* per caller: the requests it may make
  States,      \* OAuth state values, of one provider each
  Identities,  \* pairs of auth_provider and provider_user_id
  NameOf,      \* the nickname, or else the email, of an identity
  Suffixes,    \* the random suffixes of tenant names
  OldLogins,   \* logins before the start, each with its user and token
  OldIdentity, \* the identity of each of them
  None

ASSUME AuthAssumption ==
  /\ Callers \cap OldLogins = {}
  /\ None \notin Callers \cup OldLogins \cup States \cup Identities
  /\ \A c \in Callers : Wants[c] \subseteq
       [kind : {"login"}, state : States, identity : Identities] \cup [kind : {"refresh", "logout"}]
  /\ OldIdentity \in [OldLogins -> Identities]
  /\ \A x, y \in OldLogins : OldIdentity[x] = OldIdentity[y] => x = y

VARIABLES
  oauth,    \* oauth:state:{provider}:{state}: "new", "live", "gone"
  tenants,  \* committed rows: [id, name]
  users,    \* committed rows: [id, identity, tenant]
  tokens,   \* committed refresh_tokens, by jti
  call,     \* per caller: its request and its transaction
  log       \* the calls that committed, in order

vars == <<oauth, tenants, users, tokens, call, log>>

\* Rows are named after the call that inserts them: no call inserts two of a kind.
Ids == Callers \cup OldLogins

\* Old tenants have suffixes of their own.
Names == {NameOf[i] : i \in Identities} \X (Suffixes \cup OldLogins)

Token == [user : Ids, revoked : BOOLEAN, expired : BOOLEAN]

Ended == {"done", "csrf", "upstream", "unauthorized", "name_taken", "identity_taken", "aborted"}

\* since is the length of the log when the call read its token; marks are the
\* tokens it will have revoked when it commits.
Call == [pc : {"idle", "passed", "known", "new", "named", "user", "loaded", "issued", "closing"}
              \cup Ended,
         kind : {"none", "login", "refresh", "logout"}, state : States \cup {None},
         identity : Identities \cup {None}, name : Names \cup {None}, user : Ids \cup {None},
         token : Ids \cup {None}, marks : SUBSET Ids, since : Nat]

NoCall == [pc |-> "idle", kind |-> "none", state |-> None, identity |-> None, name |-> None,
           user |-> None, token |-> None, marks |-> {}, since |-> 0]

TypeOK ==
  /\ oauth \in [States -> {"new", "live", "gone"}]
  /\ tenants \subseteq [id : Ids, name : Names]
  /\ users \subseteq [id : Ids, identity : Identities, tenant : Ids]
  /\ DOMAIN tokens \subseteq Ids /\ \A t \in DOMAIN tokens : tokens[t] \in Token
  /\ call \in [Callers -> Call]
  /\ log \in Seq(Callers)

Fresh(u) == [user |-> u, revoked |-> FALSE, expired |-> FALSE]

Init ==
  /\ oauth = [s \in States |-> "new"]
  /\ tenants = {[id |-> x, name |-> <<NameOf[OldIdentity[x]], x>>] : x \in OldLogins}
  /\ users = {[id |-> x, identity |-> OldIdentity[x], tenant |-> x] : x \in OldLogins}
  /\ tokens = [x \in OldLogins |-> Fresh(x)]
  /\ call = [c \in Callers |-> NoCall]
  /\ log = <<>>

-----------------------------------------------------------------------------
(* What an open transaction holds *)

HasNamed(c, n) == call[c].name = n /\ call[c].pc \in {"named", "user", "issued"}

HasAdded(c, i) ==
  call[c].identity = i /\ call[c].user = c /\ call[c].pc \in {"user", "issued"}

\* The row lock of last_login_at.
HasTouched(c, u) ==
  /\ call[c].kind = "login" /\ call[c].user = u /\ u # c
  /\ call[c].pc \in {"user", "issued"}

HasMarked(c, t) == t \in call[c].marks

Step(c, from, to) == call[c].pc = from /\ call' = [call EXCEPT ![c].pc = to]

DatabaseUnchanged == UNCHANGED <<tenants, users, tokens, log>>

-----------------------------------------------------------------------------
(* OAuth state: GET /auth/{provider}/login and the start of the callback *)

\* create_state
CreateState(s) ==
  /\ oauth[s] = "new"
  /\ oauth' = [oauth EXCEPT ![s] = "live"]
  /\ UNCHANGED call /\ DatabaseUnchanged

\* Ten minutes have passed.
ExpireState(s) ==
  /\ oauth[s] = "live"
  /\ oauth' = [oauth EXCEPT ![s] = "gone"]
  /\ UNCHANGED call /\ DatabaseUnchanged

\* Wrong: EXISTS, and the key deleted with the session's commit.
ConsumeStateLate(c, q) ==
  /\ q.kind = "login"
  /\ call[c].pc = "idle"
  /\ call' = [call EXCEPT ![c] = [NoCall EXCEPT !.kind = "login", !.state = q.state,
       !.identity = q.identity, !.pc = IF oauth[q.state] = "live" THEN "passed" ELSE "csrf"]]
  /\ UNCHANGED oauth
  /\ DatabaseUnchanged

\* consume_state: one DELETE, whose answer says whether the key was there.
ConsumeState(c, q) ==
  /\ q.kind = "login"
  /\ call[c].pc = "idle"
  /\ call' = [call EXCEPT ![c] = [NoCall EXCEPT !.kind = "login", !.state = q.state,
       !.identity = q.identity, !.pc = IF oauth[q.state] = "live" THEN "passed" ELSE "csrf"]]
  /\ oauth' = [oauth EXCEPT ![q.state] = IF @ = "live" THEN "gone" ELSE @]
  /\ DatabaseUnchanged

\* exchange_code and fetch_userinfo: an identity with an email, or an error.
Exchange(c) ==
  /\ \/ Step(c, "passed", "known")
     \/ Step(c, "passed", "upstream")
  /\ UNCHANGED oauth /\ DatabaseUnchanged

-----------------------------------------------------------------------------
(* _find_or_create_tenant_and_user *)

\* A user who is there is touched, once nobody else is touching the row.
FindUser(c) ==
  LET found == {u \in users : u.identity = call[c].identity}
  IN /\ call[c].pc = "known"
     /\ \/ found = {} /\ Step(c, "known", "new")
        \/ \E u \in found :
             /\ \A d \in Callers : ~HasTouched(d, u.id)
             /\ call' = [call EXCEPT ![c].pc = "user", ![c].user = u.id]
     /\ UNCHANGED oauth /\ DatabaseUnchanged

\* The flush of the tenant waits for an equal name that is not yet committed.
InsertTenant(c) ==
  /\ call[c].pc = "new"
  /\ \E suffix \in Suffixes :
       LET n == <<NameOf[call[c].identity], suffix>>
       IN IF \E t \in tenants : t.name = n
          THEN Step(c, "new", "name_taken")
          ELSE /\ \A d \in Callers : ~HasNamed(d, n)
               /\ call' = [call EXCEPT ![c].pc = "named", ![c].name = n]
  /\ UNCHANGED oauth /\ DatabaseUnchanged

\* Wrong: uq_users_provider is an index, but not a unique one.
InsertUserAnyway(c) ==
  /\ call[c].pc = "named"
  /\ call' = [call EXCEPT ![c].pc = "user", ![c].user = c]
  /\ UNCHANGED oauth /\ DatabaseUnchanged

\* The flush of the user: uq_users_provider, likewise.  The IntegrityError is not
\* caught: the call ends with an error and its tenant is rolled back.
InsertUser(c) ==
  /\ call[c].pc = "named"
  /\ IF \E u \in users : u.identity = call[c].identity
     THEN call' = [call EXCEPT ![c].pc = "identity_taken"]
     ELSE /\ \A d \in Callers : ~HasAdded(d, call[c].identity)
          /\ call' = [call EXCEPT ![c].pc = "user", ![c].user = c]
  /\ UNCHANGED oauth /\ DatabaseUnchanged

-----------------------------------------------------------------------------
(* Tokens *)

\* A token that was handed out, or one that the signature check turns away.
Presented == DOMAIN tokens \cup {None}

\* Wrong: revoked_at is not looked at.
UsableUntilExpiry(t) == t \in DOMAIN tokens /\ ~tokens[t].expired

Usable(t) == t \in DOMAIN tokens /\ ~tokens[t].revoked /\ ~tokens[t].expired

\* decode_refresh_token
Accepted(t) == t \in DOMAIN tokens /\ ~tokens[t].expired

\* refresh_tokens up to its SELECTs, which lock nothing.
LoadToken(c, q) ==
  /\ q.kind = "refresh"
  /\ call[c].pc = "idle"
  /\ \E t \in Presented :
       call' = [call EXCEPT ![c] = [NoCall EXCEPT !.kind = "refresh", !.token = t,
                  !.since = Len(log), !.pc = IF Usable(t) THEN "loaded" ELSE "unauthorized"]]
  /\ UNCHANGED oauth /\ DatabaseUnchanged

\* Wrong: the revocation is committed before the new token is issued.
RevokeOldFirst(c) ==
  LET t == call[c].token
  IN /\ call[c].kind = "refresh" /\ call[c].pc = "loaded"
     /\ \A d \in Callers : ~HasMarked(d, t)
     /\ call' = [call EXCEPT ![c].pc = "user", ![c].user = tokens[t].user]
     /\ tokens' = [tokens EXCEPT ![t].revoked = TRUE]
     /\ UNCHANGED <<oauth, tenants, users, log>>

\* The UPDATE by jti: it waits, but does not look at revoked_at again.
RevokeOld(c) ==
  LET t == call[c].token
  IN /\ call[c].kind = "refresh" /\ call[c].pc = "loaded"
     /\ \A d \in Callers : ~HasMarked(d, t)
     /\ call' = [call EXCEPT ![c].pc = "user", ![c].user = tokens[t].user, ![c].marks = {t}]
     /\ UNCHANGED oauth /\ DatabaseUnchanged

\* _issue_token_pair: the new row is named c.
IssueTokens(c) ==
  /\ Step(c, "user", "issued")
  /\ UNCHANGED oauth /\ DatabaseUnchanged

\* A token that is not accepted is logged out of without a word.
StartLogout(c, q) ==
  /\ q.kind = "logout"
  /\ call[c].pc = "idle"
  /\ \E t \in Presented :
       call' = [call EXCEPT ![c] = [NoCall EXCEPT !.kind = "logout", !.token = t,
                  !.pc = IF Accepted(t) THEN "loaded"
                         ELSE "closing"]]
  /\ UNCHANGED oauth /\ DatabaseUnchanged

\* Wrong: a row that another transaction has written is skipped.
RevokeUnlocked(c) ==
  LET t == call[c].token
  IN /\ call[c].kind = "logout" /\ call[c].pc = "loaded"
     /\ call' = [call EXCEPT ![c].pc = "closing",
          ![c].marks = IF tokens[t].revoked \/ \E d \in Callers : HasMarked(d, t)
                       THEN {} ELSE {t}]
     /\ UNCHANGED oauth /\ DatabaseUnchanged

\* Wrong: the UPDATE is repeated until it finds a row to revoke.
RevokeUntilFound(c) ==
  LET t == call[c].token
  IN /\ call[c].kind = "logout" /\ call[c].pc = "loaded"
     /\ ~tokens[t].revoked
     /\ \A d \in Callers : ~HasMarked(d, t)
     /\ call' = [call EXCEPT ![c].pc = "closing", ![c].marks = {t}]
     /\ UNCHANGED oauth /\ DatabaseUnchanged

\* The UPDATE of logout, WHERE revoked_at IS NULL once nobody else writes the row.
RevokePresented(c) ==
  LET t == call[c].token
  IN /\ call[c].kind = "logout" /\ call[c].pc = "loaded"
     /\ \A d \in Callers : ~HasMarked(d, t)
     /\ call' = [call EXCEPT ![c].pc = "closing",
                   ![c].marks = IF tokens[t].revoked THEN {} ELSE {t}]
     /\ UNCHANGED oauth /\ DatabaseUnchanged

\* The expiry of a refresh token, which the JWT and its row both carry.
ExpireToken(t) ==
  /\ t \in DOMAIN tokens /\ ~tokens[t].expired
  /\ tokens' = [tokens EXCEPT ![t].expired = TRUE]
  /\ UNCHANGED <<oauth, tenants, users, call, log>>

-----------------------------------------------------------------------------

Commit(c) ==
  LET k == call[c]
      issued == IF k.pc = "issued" THEN {c} ELSE {}
  IN /\ k.pc \in {"issued", "closing"}
     /\ tenants' = tenants \cup {[id |-> c, name |-> n] : n \in {k.name} \ {None}}
     /\ users' = users \cup (IF k.user # c THEN {} ELSE
                               {[id |-> c, identity |-> k.identity, tenant |-> c]})
     /\ tokens' = [t \in DOMAIN tokens \cup issued |->
                     IF t \in issued THEN Fresh(k.user)
                     ELSE [tokens[t] EXCEPT !.revoked = @ \/ t \in k.marks]]
     /\ call' = [call EXCEPT ![c].pc = "done", ![c].marks = {}]
     /\ log' = Append(log, c)
     /\ UNCHANGED oauth

\* An exception, a disconnect or a crash; what Redis did stays done.
Abort(c) ==
  /\ call[c].pc \notin Ended \cup {"idle"}
  /\ call' = [call EXCEPT ![c].pc = "aborted", ![c].marks = {}]
  /\ UNCHANGED oauth /\ DatabaseUnchanged

Request(c) ==
  \E q \in Wants[c] : ConsumeState(c, q) \/ LoadToken(c, q) \/ StartLogout(c, q)

Work(c) ==
  \/ Exchange(c) \/ FindUser(c) \/ InsertTenant(c) \/ InsertUser(c)
  \/ RevokeOld(c) \/ IssueTokens(c) \/ RevokePresented(c) \/ Commit(c)

Next ==
  \/ \E s \in States : CreateState(s) \/ ExpireState(s)
  \/ \E c \in Callers : Request(c) \/ Work(c) \/ Abort(c)
  \/ \E t \in Ids : ExpireToken(t)

Spec == Init /\ [][Next]_vars

\* A call that was received is worked on; none has to be made.
FairSpec == Spec /\ \A c \in Callers : WF_vars(Work(c))

-----------------------------------------------------------------------------
(* Properties *)

\* Concurrent first logins, same nicknames and failures half-way notwithstanding:
\* an identity has one user, a user one tenant of its own, no tenant is left
\* without its owner, and no two tenants have one name.
AccountsArePaired ==
  /\ \A u, v \in users : u.identity = v.identity \/ u.tenant = v.tenant => u = v
  /\ \A t \in tenants : \E u \in users : u.tenant = t.id
  /\ \A t, s \in tenants : t.name = s.name => t = s

\* A state lets one callback through, however many arrive with it.
StateOnce ==
  \A c, d \in Callers :
    /\ call[c].state # None /\ call[c].state = call[d].state
    /\ call[c].pc # "csrf" /\ call[d].pc # "csrf"
    => c = d

\* Nobody loses his session to a refresh that fails half-way or overlaps others:
\* a token is revoked only by a logout of it that committed, or in favour of a new
\* token that the same user got from a refresh of it, and only calls that committed
\* add tokens.
SessionsContinue ==
  /\ \A t \in DOMAIN tokens : tokens[t].revoked =>
       \E c \in Callers :
         /\ call[c].pc = "done" /\ call[c].token = t
         /\ \/ call[c].kind = "logout"
            \/ c \in DOMAIN tokens /\ tokens[c].user = tokens[t].user
  /\ \A t \in DOMAIN tokens \ OldLogins : call[t].pc = "done"

\* Rotation: a refresh that succeeds started before every refresh and logout that
\* used up the same token committed.  (Two that overlap may both succeed.)
ReuseOnlyWhileOverlapping ==
  \A c, d \in Callers :
    /\ call[c].pc = "done" /\ call[c].kind = "refresh"
    /\ call[d].pc = "done" /\ call[d].kind \in {"refresh", "logout"}
    /\ c # d /\ call[c].token = call[d].token
    => \A i \in 1 .. call[c].since : log[i] # d

\* A logout that succeeds leaves a token nobody can use, whatever became of the
\* refreshes it overlapped.
LogoutEnds ==
  \A c \in Callers :
    call[c].pc = "done" /\ call[c].kind = "logout" /\ call[c].token # None =>
      tokens[call[c].token].revoked \/ tokens[call[c].token].expired

\* No call waits for ever for a row or a key that another one holds.
CallsEnd ==
  \A c \in Callers : call[c].pc # "idle" ~> call[c].pc \in Ended
=============================================================================
