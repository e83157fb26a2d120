------------------------------ MODULE AuthProofs ------------------------------
(***************************************************************************)
(* Machine-checked theorems about Auth, for every set of callers and of    *)
(* what they may ask for, of states, identities, names and old logins.     *)
(*                                                                         *)
(* The invariant says of one call what it may hold given what is           *)
(* committed (Fits), of two open calls that they do not hold one unique    *)
(* key (KeysApart), of committed rows that they come from calls that are   *)
(* done (RowsFit), and of the log that it lists such calls (LogFits).      *)
(* SessionsInv adds what a call may mark and why a token is revoked.       *)
(***************************************************************************)
EXTENDS Auth, TLAPS

\* The pc before a call has inserted or found its user.
Early == {"idle", "passed", "known", "new", "loaded", "closing"}

Settled(x) == x \in OldLogins \/ (x \in Callers /\ call[x].pc = "done")

UserIds == {u.id : u \in users}

Dead(t) == tokens[t].revoked \/ tokens[t].expired

StateFits(k) ==
  /\ k.state # None /\ k.pc # "csrf" => oauth[k.state] = "gone"
  /\ k.pc = "idle" => k.state = None

KindFits(k) ==
  /\ k.pc \in {"passed", "known", "new", "named", "identity_taken"} =>
       k.kind = "login" /\ k.identity # None
  /\ k.pc = "loaded" => k.kind \in {"refresh", "logout"}
  /\ k.pc = "closing" => k.kind = "logout"
  /\ k.pc \in {"user", "issued"} => k.kind # "logout"

AccountFits(c, k) ==
  /\ k.pc \in Early => k.name = None
  /\ k.pc \in Early \cup {"named"} => k.user = None
  /\ k.pc \in {"user", "issued"} =>
       /\ k.user = c \/ k.user \in UserIds
       /\ k.name # None => k.user = c
       /\ k.user = c => k.identity # None /\ \A u \in users : u.identity # k.identity
  /\ k.pc \in {"named", "user", "issued"} /\ k.name # None => \A t \in tenants : t.name # k.name

TokenFits(k) ==
  /\ k.pc = "loaded" => k.token \in DOMAIN tokens
  /\ k.kind = "refresh" /\ k.pc \in {"user", "issued"} =>
       k.token \in DOMAIN tokens /\ k.token \in k.marks
  /\ k.kind = "logout" /\ k.pc = "closing" /\ k.token # None =>
       k.token \in DOMAIN tokens /\ (k.token \in k.marks \/ Dead(k.token))
  /\ k.kind \in {"refresh", "logout"} /\ k.pc = "done" /\ k.token # None =>
       k.token \in DOMAIN tokens /\ Dead(k.token)

\* What committed before the call began did not use up the call's token.
SinceFits(k) ==
  /\ k.since <= Len(log)
  /\ k.kind = "refresh" /\ k.pc # "unauthorized" =>
       /\ k.token # None
       /\ \A i \in 1 .. k.since :
            call[log[i]].kind \in {"refresh", "logout"} => call[log[i]].token # k.token

Fits(c, k) == StateFits(k) /\ KindFits(k) /\ AccountFits(c, k) /\ TokenFits(k) /\ SinceFits(k)

KeysApart ==
  \A c, d \in Callers : c # d =>
    /\ call[c].pc \in {"named", "user", "issued"} /\ call[c].name # None =>
         ~HasNamed(d, call[c].name)
    /\ call[c].pc \in {"user", "issued"} /\ call[c].user = c => ~HasAdded(d, call[c].identity)
    /\ call[c].state # None /\ call[c].state = call[d].state =>
         call[c].pc = "csrf" \/ call[d].pc = "csrf"

RowsFit ==
  /\ \A u \in users : u.tenant = u.id /\ Settled(u.id)
  /\ \A t \in tenants : Settled(t.id) /\ t.id \in UserIds
  /\ \A t \in DOMAIN tokens : Settled(t) /\ tokens[t].user \in UserIds
  /\ \A u, v \in users : u.id = v.id \/ u.identity = v.identity => u = v
  /\ \A t, s \in tenants : t.name = s.name => t = s

LogFits == \A i \in 1 .. Len(log) : call[log[i]].pc = "done"

Inv ==
  /\ TypeOK /\ KeysApart /\ RowsFit /\ LogFits
  /\ \A c \in Callers : Fits(c, call[c])

-----------------------------------------------------------------------------

LEMMA InitInv == Init => Inv
<1> SUFFICES ASSUME Init PROVE Inv
  OBVIOUS
<1>1. NoCall \in Call
  BY DEF NoCall, Call, Ids
<1>2. TypeOK
  <2>1. \A x \in OldLogins : <<NameOf[OldIdentity[x]], x>> \in Names
    BY AuthAssumption DEF Names
  <2>2. \A x \in OldLogins : Fresh(x) \in Token
    BY DEF Fresh, Token, Ids
  <2>3. oauth \in [States -> {"new", "live", "gone"}] /\ call \in [Callers -> Call]
        /\ log \in Seq(Callers)
    BY <1>1 DEF Init
  <2>4. tenants \subseteq [id : Ids, name : Names]
    BY <2>1 DEF Init, Ids
  <2>5. users \subseteq [id : Ids, identity : Identities, tenant : Ids]
    BY AuthAssumption DEF Init, Ids
  <2>6. DOMAIN tokens \subseteq Ids /\ \A t \in DOMAIN tokens : tokens[t] \in Token
    BY <2>2 DEF Init, Ids
  <2>7. QED
    BY <2>3, <2>4, <2>5, <2>6 DEF TypeOK
<1>3. \A c \in Callers : call[c] = NoCall
  BY DEF Init
<1>4. KeysApart /\ LogFits
  BY <1>3 DEF Init, KeysApart, LogFits, NoCall
<1>5. RowsFit
  <2>1. ASSUME NEW x \in OldLogins PROVE Settled(x) /\ x \in UserIds
    <3> DEFINE u == [id |-> x, identity |-> OldIdentity[x], tenant |-> x]
    <3>1. u \in users /\ u.id = x
      BY DEF Init
    <3>2. QED
      BY <3>1 DEF Settled, UserIds
  <2>2. \A u \in users : u.id \in OldLogins /\ u.tenant = u.id /\ u.identity = OldIdentity[u.id]
    BY DEF Init
  <2>3. \A t \in tenants : t.id \in OldLogins /\ t.name = <<NameOf[OldIdentity[t.id]], t.id>>
    BY DEF Init
  <2>4. \A t \in DOMAIN tokens : t \in OldLogins /\ tokens[t].user = t
    BY DEF Init, Fresh
  <2>5. \A u, v \in users : u.id = v.id \/ u.identity = v.identity => u = v
    BY AuthAssumption DEF Init
  <2>6. \A t, s \in tenants : t.name = s.name => t = s
    <3>1. \A t, s \in tenants : t.id = s.id => t = s
      BY DEF Init
    <3>2. \A t, s \in tenants : t.name = s.name => t.id = s.id
      BY <2>3
    <3>3. QED
      BY <3>1, <3>2
  <2>7. QED
    BY <2>1, <2>2, <2>3, <2>4, <2>5, <2>6 DEF RowsFit
<1>6. ASSUME NEW c \in Callers PROVE Fits(c, call[c])
  <2>1. StateFits(call[c]) /\ KindFits(call[c]) /\ AccountFits(c, call[c]) /\ TokenFits(call[c])
    BY <1>3 DEF StateFits, KindFits, AccountFits, TokenFits, NoCall, Early
  <2>2. SinceFits(call[c])
    BY <1>3 DEF Init, SinceFits, NoCall
  <2>3. QED
    BY <2>1, <2>2 DEF Fits
<1>7. QED
  BY <1>2, <1>4, <1>5, <1>6 DEF Inv

\* What a call must be after a step that writes nothing to the database.
LEMMA QuietInv ==
  ASSUME Inv, NEW c \in Callers, DatabaseUnchanged,
         call' \in [Callers -> Call], \A d \in Callers : d # c => call'[d] = call[d],
         oauth' \in [States -> {"new", "live", "gone"}],
         \A s \in States : oauth[s] = "gone" => oauth'[s] = "gone",
         call[c].pc # "done", call'[c].pc # "done",
         Fits(c, call[c])',
         \A d \in Callers : d # c =>
           /\ call'[c].pc \in {"named", "user", "issued"} /\ call'[c].name # None =>
                ~HasNamed(d, call'[c].name)
           /\ call'[c].pc \in {"user", "issued"} /\ call'[c].user = c =>
                ~HasAdded(d, call'[c].identity)
           /\ call'[c].state # None /\ call'[c].state = call[d].state =>
                call'[c].pc = "csrf" \/ call[d].pc = "csrf"
  PROVE  Inv'
<1> USE DEF Inv
<1>1. UNCHANGED <<tenants, users, tokens, log>>
  BY DEF DatabaseUnchanged
<1>2. TypeOK'
  BY <1>1 DEF TypeOK
<1>3. \A x : Settled(x)' <=> Settled(x)
  BY DEF Settled
<1>4. RowsFit'
  BY <1>1, <1>3 DEF RowsFit, UserIds
<1>5. \A i \in 1 .. Len(log) : log[i] \in Callers /\ log[i] # c
  BY DEF TypeOK, LogFits
<1>6. LogFits'
  BY <1>1, <1>5 DEF LogFits
<1>7. KeysApart'
  BY DEF KeysApart, HasNamed, HasAdded
<1>8. ASSUME NEW d \in Callers, d # c
      PROVE  Fits(d, call[d])'
  <2>1. call'[d] = call[d] /\ Fits(d, call[d])
    BY <1>8
  <2>2. StateFits(call[d])'
    BY <2>1 DEF Fits, StateFits, TypeOK, Call
  <2>3. KindFits(call[d])' /\ AccountFits(d, call[d])' /\ TokenFits(call[d])'
    BY <1>1, <2>1 DEF Fits, KindFits, AccountFits, TokenFits, UserIds, Dead
  <2>4. SinceFits(call[d])'
    <3>1. SinceFits(call[d]) /\ call[d].since \in Nat /\ Len(log) \in Nat
      BY <2>1 DEF Fits, TypeOK, Call
    <3>2. \A i \in 1 .. call[d].since : call'[log[i]] = call[log[i]]
      BY <1>5, <3>1 DEF SinceFits
    <3>3. QED
      BY <1>1, <2>1, <3>1, <3>2 DEF SinceFits
  <2>5. QED
    BY <2>2, <2>3, <2>4 DEF Fits
<1>9. QED
  BY <1>2, <1>4, <1>6, <1>7, <1>8

-----------------------------------------------------------------------------

\* A step that only moves a call on, among the stages in which it holds no more.
LEMMA Moves ==
  ASSUME TypeOK, NEW c \in Callers, NEW from,
         NEW to \in {"known", "upstream", "new", "name_taken", "issued", "identity_taken"},
         Step(c, from, to)
  PROVE  /\ call' \in [Callers -> Call] /\ \A d \in Callers : d # c => call'[d] = call[d]
         /\ call[c].pc = from /\ call'[c] = [call[c] EXCEPT !.pc = to] /\ call'[c].pc = to
         /\ call'[c].kind = call[c].kind /\ call'[c].state = call[c].state
         /\ call'[c].identity = call[c].identity /\ call'[c].name = call[c].name
         /\ call'[c].user = call[c].user /\ call'[c].token = call[c].token
         /\ call'[c].marks = call[c].marks /\ call'[c].since = call[c].since
BY ZenonT(60) DEF TypeOK, Step, Call, Ended

LEMMA ExchangeInv == ASSUME Inv, NEW c \in Callers, Exchange(c) PROVE Inv'
<1>1. PICK to \in {"known", "upstream"} : Step(c, "passed", to)
  BY DEF Exchange
<1>2. DatabaseUnchanged /\ oauth' = oauth /\ oauth \in [States -> {"new", "live", "gone"}]
  BY DEF Exchange, Inv, TypeOK
<1>3. /\ call' \in [Callers -> Call] /\ \A d \in Callers : d # c => call'[d] = call[d]
      /\ call[c].pc = "passed" /\ call'[c].pc = to
      /\ call'[c].kind = call[c].kind /\ call'[c].state = call[c].state
      /\ call'[c].identity = call[c].identity /\ call'[c].name = call[c].name
      /\ call'[c].user = call[c].user /\ call'[c].token = call[c].token
      /\ call'[c].marks = call[c].marks /\ call'[c].since = call[c].since
  BY <1>1, Moves DEF Inv
<1>4. Fits(c, call[c])'
  BY <1>2, <1>3 DEF Inv, Fits, StateFits, KindFits, AccountFits, TokenFits, SinceFits, Early,
     DatabaseUnchanged
<1>5. QED
  BY <1>2, <1>3, <1>4, QuietInv DEF Inv, KeysApart

LEMMA StateInv == ASSUME Inv, NEW s \in States, CreateState(s) \/ ExpireState(s) PROVE Inv'
<1>1. DatabaseUnchanged /\ call' = call
  BY DEF CreateState, ExpireState
<1>2. UNCHANGED <<tenants, users, tokens, log, call>>
  BY <1>1 DEF DatabaseUnchanged
<1>3. /\ oauth' \in [States -> {"new", "live", "gone"}]
      /\ \A r \in States : oauth[r] = "gone" => oauth'[r] = "gone"
  BY DEF Inv, TypeOK, CreateState, ExpireState
<1>4. TypeOK' /\ KeysApart' /\ RowsFit' /\ LogFits'
  BY <1>2, <1>3 DEF Inv, TypeOK, KeysApart, HasNamed, HasAdded, RowsFit, Settled, UserIds, LogFits
<1>5. ASSUME NEW c \in Callers PROVE Fits(c, call[c])'
  <2>1. Fits(c, call[c]) /\ (call[c].state # None => call[c].state \in States)
    BY DEF Inv, TypeOK, Call
  <2>2. StateFits(call[c])'
    BY <1>2, <1>3, <2>1 DEF Fits, StateFits
  <2>3. KindFits(call[c])' /\ AccountFits(c, call[c])' /\ TokenFits(call[c])' /\ SinceFits(call[c])'
    BY <1>2, <2>1 DEF Fits, KindFits, AccountFits, TokenFits, SinceFits, UserIds, Dead
  <2>4. QED
    BY <2>2, <2>3 DEF Fits
<1>6. QED
  BY <1>4, <1>5 DEF Inv

\* A callback that finds its state live is the only one that did.
LEMMA ConsumeStateInv ==
  ASSUME Inv, NEW c \in Callers, NEW q \in Wants[c], ConsumeState(c, q)
  PROVE  Inv'
<1>1. q.kind = "login" /\ q.state \in States /\ q.identity \in Identities
  BY AuthAssumption DEF ConsumeState
<1>2. DatabaseUnchanged /\ call[c].pc = "idle"
  BY DEF ConsumeState
<1> DEFINE pc == IF oauth[q.state] = "live" THEN "passed" ELSE "csrf"
           k  == [NoCall EXCEPT !.kind = "login", !.state = q.state, !.identity = q.identity,
                                !.pc = pc]
<1>3. call' = [call EXCEPT ![c] = k] /\ oauth' = [oauth EXCEPT ![q.state] = IF @ = "live" THEN "gone" ELSE @]
  BY DEF ConsumeState
<1>4. pc \in {"passed", "csrf"} /\ (pc = "passed" => oauth[q.state] = "live")
  OBVIOUS
<1> HIDE DEF pc
<1>5. NoCall \in Call
  BY DEF NoCall, Call, Ids
<1>6. /\ k \in Call /\ k.pc = pc /\ k.kind = "login" /\ k.state = q.state /\ k.identity = q.identity
      /\ k.name = None /\ k.user = None /\ k.token = None /\ k.since = 0
  BY <1>1, <1>4, <1>5 DEF Call, Ended, NoCall
<1> HIDE DEF k
<1>7. /\ call' \in [Callers -> Call] /\ \A d \in Callers : d # c => call'[d] = call[d]
      /\ call'[c] = k
  BY <1>3, <1>6 DEF Inv, TypeOK
<1>8. /\ oauth' \in [States -> {"new", "live", "gone"}]
      /\ \A s \in States : oauth[s] = "gone" => oauth'[s] = "gone"
      /\ pc = "passed" => oauth'[q.state] = "gone"
  BY <1>1, <1>3, <1>4 DEF Inv, TypeOK
<1>9. Fits(c, call[c])'
  <2>1. StateFits(call[c])' /\ KindFits(call[c])' /\ AccountFits(c, call[c])' /\ TokenFits(call[c])'
    BY <1>1, <1>4, <1>6, <1>7, <1>8, AuthAssumption
       DEF StateFits, KindFits, AccountFits, TokenFits, Early
  <2>2. SinceFits(call[c])'
    BY <1>2, <1>6, <1>7 DEF SinceFits, DatabaseUnchanged, Inv, TypeOK
  <2>3. QED
    BY <2>1, <2>2 DEF Fits
<1>10. \A d \in Callers : call[d].state = q.state /\ pc = "passed" => call[d].pc = "csrf"
  BY <1>1, <1>4, AuthAssumption DEF Inv, Fits, StateFits
<1>11. \A d \in Callers : d # c =>
         /\ call'[c].pc \notin {"named", "user", "issued", "done"}
         /\ call'[c].state # None /\ call'[c].state = call[d].state =>
              call'[c].pc = "csrf" \/ call[d].pc = "csrf"
  BY <1>4, <1>6, <1>7, <1>10
<1>12. call[c].pc # "done" /\ call'[c].pc # "done"
  BY <1>2, <1>4, <1>6, <1>7
<1>13. QED
  BY <1>2, <1>7, <1>8, <1>9, <1>11, <1>12, QuietInv

\* Moving on keeps the keys of a call apart from those of the others.
LEMMA StillApart ==
  ASSUME Inv, NEW c \in Callers, NEW d \in Callers, d # c, call[c].pc # "csrf",
         call'[c].state = call[c].state
  PROVE  call'[c].state # None /\ call'[c].state = call[d].state =>
           call'[c].pc = "csrf" \/ call[d].pc = "csrf"
BY DEF Inv, KeysApart

LEMMA SinceKept ==
  ASSUME TypeOK, NEW c \in Callers, SinceFits(call[c]), log' = log,
         \A d \in Callers : d # c => call'[d] = call[d],
         call'[c].kind = call[c].kind, call'[c].token = call[c].token,
         call'[c].since = call[c].since, call[c].pc # "unauthorized"
  PROVE  SinceFits(call[c])'
<1>1. call[c].since \in Nat /\ Len(log) \in Nat /\ \A i \in 1 .. Len(log) : log[i] \in Callers
  BY DEF TypeOK, Call
<1>2. \A i \in 1 .. call[c].since :
        /\ call'[log[i]].kind = call[log[i]].kind
        /\ call'[log[i]].token = call[log[i]].token
  BY <1>1 DEF SinceFits
<1>3. QED
  BY <1>2 DEF SinceFits

LEMMA FindUserInv == ASSUME Inv, NEW c \in Callers, FindUser(c) PROVE Inv'
<1>1. DatabaseUnchanged /\ oauth' = oauth /\ call[c].pc = "known"
  BY DEF FindUser
<1>2. Fits(c, call[c]) /\ call[c] \in Call /\ TypeOK
  BY DEF Inv, TypeOK
<1>3. CASE Step(c, "known", "new")
  <2>1. /\ call' \in [Callers -> Call] /\ \A d \in Callers : d # c => call'[d] = call[d]
        /\ call'[c].pc = "new"
        /\ call'[c].kind = call[c].kind /\ call'[c].state = call[c].state
        /\ call'[c].identity = call[c].identity /\ call'[c].name = call[c].name
        /\ call'[c].user = call[c].user /\ call'[c].token = call[c].token
        /\ call'[c].marks = call[c].marks /\ call'[c].since = call[c].since
    BY <1>2, <1>3, Moves
  <2>2. Fits(c, call[c])'
    BY <1>1, <1>2, <2>1 DEF Fits, StateFits, KindFits, AccountFits, TokenFits, SinceFits, Early,
       DatabaseUnchanged
  <2>3. QED
    BY <1>1, <1>2, <2>1, <2>2, QuietInv, StillApart DEF TypeOK
<1>4. CASE \E u \in users : call' = [call EXCEPT ![c].pc = "user", ![c].user = u.id]
  <2>1. PICK u \in users : call' = [call EXCEPT ![c].pc = "user", ![c].user = u.id]
    BY <1>4
  <2>2. u.id \in Ids /\ u.id \in UserIds /\ u.id # c
    BY <1>1, AuthAssumption DEF Inv, TypeOK, RowsFit, Settled, UserIds
  <2>3. /\ call' \in [Callers -> Call] /\ \A d \in Callers : d # c => call'[d] = call[d]
        /\ call'[c].pc = "user" /\ call'[c].user = u.id
        /\ call'[c].kind = call[c].kind /\ call'[c].state = call[c].state
        /\ call'[c].name = call[c].name /\ call'[c].token = call[c].token
        /\ call'[c].since = call[c].since
    BY ZenonT(60), <1>2, <2>1, <2>2 DEF TypeOK, Call
  <2>4. call[c].name = None /\ call[c].kind = "login"
    BY <1>1, <1>2 DEF Fits, AccountFits, KindFits, Early
  <2>5. AccountFits(c, call[c])'
    BY <1>1, <2>2, <2>3, <2>4 DEF AccountFits, UserIds, Early, DatabaseUnchanged
  <2>6. StateFits(call[c])' /\ KindFits(call[c])' /\ TokenFits(call[c])' /\ SinceFits(call[c])'
    BY <1>1, <1>2, <2>3, <2>4
       DEF Fits, StateFits, KindFits, TokenFits, SinceFits, DatabaseUnchanged
  <2>7. QED
    BY <1>1, <1>2, <2>2, <2>3, <2>4, <2>5, <2>6, QuietInv, StillApart DEF TypeOK, Fits
<1>5. QED
  BY <1>3, <1>4 DEF FindUser

LEMMA InsertTenantInv == ASSUME Inv, NEW c \in Callers, InsertTenant(c) PROVE Inv'
<1>1. DatabaseUnchanged /\ oauth' = oauth /\ call[c].pc = "new"
  BY DEF InsertTenant
<1>2. Fits(c, call[c]) /\ call[c] \in Call /\ TypeOK
  BY DEF Inv, TypeOK
<1>3. call[c].kind = "login" /\ call[c].identity \in Identities /\ call[c].user = None
  BY <1>1, <1>2 DEF Fits, KindFits, AccountFits, Early, Call
<1>4. CASE Step(c, "new", "name_taken")
  <2>1. /\ call' \in [Callers -> Call] /\ \A d \in Callers : d # c => call'[d] = call[d]
        /\ call'[c].pc = "name_taken"
        /\ call'[c].kind = call[c].kind /\ call'[c].state = call[c].state
        /\ call'[c].token = call[c].token /\ call'[c].since = call[c].since
    BY <1>2, <1>4, Moves
  <2>2. Fits(c, call[c])'
    BY <1>1, <1>2, <1>3, <2>1 DEF Fits, StateFits, KindFits, AccountFits, TokenFits, SinceFits,
       Early, DatabaseUnchanged
  <2>3. QED
    BY <1>1, <1>2, <2>1, <2>2, QuietInv, StillApart DEF TypeOK
<1>5. ASSUME NEW suffix \in Suffixes, NEW n, n = <<NameOf[call[c].identity], suffix>>,
             \A t \in tenants : t.name # n, \A d \in Callers : ~HasNamed(d, n),
             call' = [call EXCEPT ![c].pc = "named", ![c].name = n]
      PROVE  Inv'
  <2>1. n \in Names
    BY <1>3, <1>5 DEF Names
  <2>2. /\ call' \in [Callers -> Call] /\ \A d \in Callers : d # c => call'[d] = call[d]
        /\ call'[c].pc = "named" /\ call'[c].name = n
        /\ call'[c].kind = call[c].kind /\ call'[c].state = call[c].state
        /\ call'[c].identity = call[c].identity /\ call'[c].user = call[c].user
        /\ call'[c].token = call[c].token /\ call'[c].since = call[c].since
    BY ZenonT(60), <1>2, <1>5, <2>1 DEF TypeOK, Call
  <2>3. Fits(c, call[c])'
    BY <1>1, <1>2, <1>3, <1>5, <2>2, AuthAssumption
       DEF Fits, StateFits, KindFits, AccountFits, TokenFits, SinceFits, Early, DatabaseUnchanged
  <2>4. QED
    BY <1>1, <1>2, <1>5, <2>2, <2>3, QuietInv, StillApart DEF TypeOK
<1>6. QED
  BY <1>4, <1>5 DEF InsertTenant

LEMMA InsertUserInv == ASSUME Inv, NEW c \in Callers, InsertUser(c) PROVE Inv'
<1>1. DatabaseUnchanged /\ oauth' = oauth /\ call[c].pc = "named"
  BY DEF InsertUser
<1>2. Fits(c, call[c]) /\ call[c] \in Call /\ TypeOK
  BY DEF Inv, TypeOK
<1>3. call[c].kind = "login" /\ call[c].identity # None
  BY <1>1, <1>2 DEF Fits, KindFits
<1>4. CASE /\ \E u \in users : u.identity = call[c].identity
           /\ call' = [call EXCEPT ![c].pc = "identity_taken"]
  <2>1. /\ call' \in [Callers -> Call] /\ \A d \in Callers : d # c => call'[d] = call[d]
        /\ call'[c].pc = "identity_taken" /\ call'[c].identity = call[c].identity
        /\ call'[c].kind = call[c].kind /\ call'[c].state = call[c].state
        /\ call'[c].token = call[c].token /\ call'[c].since = call[c].since
    BY <1>2, <1>4 DEF TypeOK, Call, Ended
  <2>2. Fits(c, call[c])'
    BY <1>1, <1>2, <1>3, <1>4, <2>1 DEF Fits, StateFits, KindFits, AccountFits, TokenFits,
       SinceFits, Early, DatabaseUnchanged
  <2>3. QED
    BY <1>1, <1>2, <2>1, <2>2, QuietInv, StillApart DEF TypeOK
<1>5. CASE /\ \A u \in users : u.identity # call[c].identity
           /\ \A d \in Callers : ~HasAdded(d, call[c].identity)
           /\ call' = [call EXCEPT ![c].pc = "user", ![c].user = c]
  <2>1. /\ call' \in [Callers -> Call] /\ \A d \in Callers : d # c => call'[d] = call[d]
        /\ call'[c].pc = "user" /\ call'[c].user = c /\ call'[c].identity = call[c].identity
        /\ call'[c].kind = call[c].kind /\ call'[c].state = call[c].state
        /\ call'[c].name = call[c].name
        /\ call'[c].token = call[c].token /\ call'[c].since = call[c].since
    BY ZenonT(60), <1>2, <1>5 DEF TypeOK, Call, Ids
  <2>2. Fits(c, call[c])'
    BY <1>1, <1>2, <1>3, <1>5, <2>1 DEF Fits, StateFits, KindFits, AccountFits, TokenFits,
       SinceFits, Early, DatabaseUnchanged
  <2>3. \A d \in Callers : d # c /\ call[c].name # None => ~HasNamed(d, call[c].name)
    BY <1>1 DEF Inv, KeysApart
  <2>4. QED
    BY <1>1, <1>2, <1>5, <2>1, <2>2, <2>3, QuietInv, StillApart DEF TypeOK
<1>6. QED
  BY <1>4, <1>5 DEF InsertUser

LEMMA IssueTokensInv == ASSUME Inv, NEW c \in Callers, IssueTokens(c) PROVE Inv'
<1>1. DatabaseUnchanged /\ oauth' = oauth /\ call[c].pc = "user" /\ Step(c, "user", "issued")
  BY DEF IssueTokens, Step
<1>2. Fits(c, call[c]) /\ call[c] \in Call /\ TypeOK
  BY DEF Inv, TypeOK
<1>3. /\ call' \in [Callers -> Call] /\ \A d \in Callers : d # c => call'[d] = call[d]
      /\ call'[c].pc = "issued"
      /\ call'[c].kind = call[c].kind /\ call'[c].state = call[c].state
      /\ call'[c].identity = call[c].identity /\ call'[c].name = call[c].name
      /\ call'[c].user = call[c].user /\ call'[c].token = call[c].token
      /\ call'[c].marks = call[c].marks /\ call'[c].since = call[c].since
  BY <1>1, <1>2, Moves
<1>4. Fits(c, call[c])'
  <2>1. StateFits(call[c])' /\ KindFits(call[c])' /\ TokenFits(call[c])'
    BY <1>1, <1>2, <1>3 DEF Fits, StateFits, KindFits, TokenFits, DatabaseUnchanged
  <2>2. AccountFits(c, call[c])'
    BY <1>1, <1>2, <1>3 DEF Fits, AccountFits, Early, UserIds, DatabaseUnchanged
  <2>3. SinceFits(call[c])'
    BY <1>1, <1>2, <1>3, SinceKept DEF Fits, DatabaseUnchanged
  <2>4. QED
    BY <2>1, <2>2, <2>3 DEF Fits
<1>5. \A d \in Callers : d # c =>
        /\ call[c].name # None => ~HasNamed(d, call[c].name)
        /\ call[c].user = c => ~HasAdded(d, call[c].identity)
  BY <1>1 DEF Inv, KeysApart
<1>6. QED
  BY <1>1, <1>2, <1>3, <1>4, <1>5, QuietInv, StillApart DEF TypeOK

LEMMA LoadTokenInv ==
  ASSUME Inv, NEW c \in Callers, NEW q \in Wants[c], LoadToken(c, q)
  PROVE  Inv'
<1>1. DatabaseUnchanged /\ oauth' = oauth /\ call[c].pc = "idle"
  BY DEF LoadToken
<1>2. PICK t \in Presented :
        call' = [call EXCEPT ![c] = [NoCall EXCEPT !.kind = "refresh", !.token = t,
                   !.since = Len(log), !.pc = IF Usable(t) THEN "loaded" ELSE "unauthorized"]]
  BY DEF LoadToken
<1>3. t \in Ids \cup {None} /\ Len(log) \in Nat /\ NoCall \in Call
  BY DEF Presented, Inv, TypeOK, NoCall, Call, Ids
<1> DEFINE pc == IF Usable(t) THEN "loaded" ELSE "unauthorized"
           k  == [NoCall EXCEPT !.kind = "refresh", !.token = t, !.since = Len(log), !.pc = pc]
<1>4. call' = [call EXCEPT ![c] = k]
  BY <1>2
<1>5. pc \in {"loaded", "unauthorized"} /\ (pc = "loaded" => Usable(t))
  OBVIOUS
<1> HIDE DEF pc
<1>6. /\ k \in Call /\ k.pc = pc /\ k.kind = "refresh" /\ k.state = None /\ k.token = t
      /\ k.since = Len(log) /\ k.name = None /\ k.user = None
  BY <1>3, <1>5 DEF Call, Ended, NoCall
<1> HIDE DEF k
<1>7. /\ call' \in [Callers -> Call] /\ \A d \in Callers : d # c => call'[d] = call[d]
      /\ call'[c] = k
  BY <1>4, <1>6 DEF Inv, TypeOK
<1>8. TokenFits(call[c])'
  BY <1>1, <1>5, <1>6, <1>7 DEF TokenFits, Usable, DatabaseUnchanged
<1>9. SinceFits(call[c])'
  <2>1. pc = "loaded" => t \in DOMAIN tokens /\ ~Dead(t) /\ t # None
    BY <1>5, AuthAssumption DEF Usable, Dead, Inv, TypeOK, Ids
  <2>2. ASSUME NEW i \in 1 .. Len(log), pc = "loaded",
               call[log[i]].kind \in {"refresh", "logout"}
        PROVE  call[log[i]].token # t
    <3>1. log[i] \in Callers /\ call[log[i]].pc = "done"
      BY DEF Inv, LogFits, TypeOK
    <3>2. TokenFits(call[log[i]])
      BY <3>1 DEF Inv, Fits
    <3>3. QED
      BY <2>1, <2>2, <3>1, <3>2 DEF TokenFits
  <2>3. \A i \in 1 .. Len(log) : log[i] \in Callers /\ log[i] # c
    BY <1>1 DEF Inv, LogFits, TypeOK
  <2>4. \A i \in 1 .. Len(log) : call'[log[i]] = call[log[i]]
    BY <1>7, <2>3
  <2>5. log' = log
    BY <1>1 DEF DatabaseUnchanged
  <2>6. QED
    BY <1>3, <1>5, <1>6, <1>7, <2>1, <2>2, <2>4, <2>5 DEF SinceFits
<1>10. StateFits(call[c])' /\ KindFits(call[c])' /\ AccountFits(c, call[c])'
  BY <1>5, <1>6, <1>7 DEF StateFits, KindFits, AccountFits, Early
<1>11. QED
  BY <1>1, <1>5, <1>6, <1>7, <1>8, <1>9, <1>10, QuietInv DEF Fits, Inv, TypeOK

LEMMA StartLogoutInv ==
  ASSUME Inv, NEW c \in Callers, NEW q \in Wants[c], StartLogout(c, q)
  PROVE  Inv'
<1>1. DatabaseUnchanged /\ oauth' = oauth /\ call[c].pc = "idle"
  BY DEF StartLogout
<1>2. PICK t \in Presented :
        call' = [call EXCEPT ![c] = [NoCall EXCEPT !.kind = "logout", !.token = t,
                   !.pc = IF Accepted(t) THEN "loaded" ELSE "closing"]]
  BY DEF StartLogout
<1>3. t \in Ids \cup {None} /\ Len(log) \in Nat /\ NoCall \in Call
  BY DEF Presented, Inv, TypeOK, NoCall, Call, Ids
<1> DEFINE pc == IF Accepted(t) THEN "loaded" ELSE "closing"
           k  == [NoCall EXCEPT !.kind = "logout", !.token = t, !.pc = pc]
<1>4. call' = [call EXCEPT ![c] = k]
  BY <1>2
<1>5. pc \in {"loaded", "closing"} /\ (pc = "loaded" <=> Accepted(t))
  OBVIOUS
<1> HIDE DEF pc
<1>6. /\ k \in Call /\ k.pc = pc /\ k.kind = "logout" /\ k.state = None /\ k.token = t
      /\ k.since = 0 /\ k.name = None /\ k.user = None
  BY <1>3, <1>5 DEF Call, Ended, NoCall
<1> HIDE DEF k
<1>7. /\ call' \in [Callers -> Call] /\ \A d \in Callers : d # c => call'[d] = call[d]
      /\ call'[c] = k
  BY <1>4, <1>6 DEF Inv, TypeOK
<1>8. TokenFits(call[c])'
  BY <1>1, <1>5, <1>6, <1>7 DEF TokenFits, Accepted, Presented, Dead, DatabaseUnchanged
<1>9. SinceFits(call[c])'
  BY <1>1, <1>3, <1>6, <1>7 DEF SinceFits, DatabaseUnchanged
<1>10. StateFits(call[c])' /\ KindFits(call[c])' /\ AccountFits(c, call[c])'
  BY <1>5, <1>6, <1>7 DEF StateFits, KindFits, AccountFits, Early
<1>11. QED
  BY <1>1, <1>5, <1>6, <1>7, <1>8, <1>9, <1>10, QuietInv DEF Fits, Inv, TypeOK

LEMMA RevokeOldInv == ASSUME Inv, NEW c \in Callers, RevokeOld(c) PROVE Inv'
<1> DEFINE t == call[c].token
           u == tokens[t].user
<1>1. /\ DatabaseUnchanged /\ oauth' = oauth /\ call[c].pc = "loaded" /\ call[c].kind = "refresh"
      /\ call' = [call EXCEPT ![c].pc = "user", ![c].user = u, ![c].marks = {t}]
  BY DEF RevokeOld
<1>2. Fits(c, call[c]) /\ call[c] \in Call /\ TypeOK
  BY DEF Inv, TypeOK
<1>3. t \in DOMAIN tokens /\ t \in Ids
  BY <1>1, <1>2 DEF Fits, TokenFits, TypeOK
<1>4. u \in UserIds /\ u # c /\ u \in Ids
  <2>1. u \in UserIds
    BY <1>3 DEF Inv, RowsFit
  <2>2. QED
    BY <1>1, <2>1, AuthAssumption DEF Inv, TypeOK, RowsFit, Settled, UserIds
<1> HIDE DEF t, u
<1>5. /\ call' \in [Callers -> Call] /\ \A d \in Callers : d # c => call'[d] = call[d]
      /\ call'[c].pc = "user" /\ call'[c].user = u /\ call'[c].marks = {t}
      /\ call'[c].kind = "refresh" /\ call'[c].state = call[c].state
      /\ call'[c].name = call[c].name /\ call'[c].token = call[c].token
      /\ call'[c].since = call[c].since
  <2> DEFINE k == [[[call[c] EXCEPT !.pc = "user"] EXCEPT !.user = u] EXCEPT !.marks = {t}]
  <2>1. /\ k \in Call /\ k.pc = "user" /\ k.user = u /\ k.marks = {t} /\ k.kind = call[c].kind
        /\ k.state = call[c].state /\ k.name = call[c].name /\ k.token = call[c].token
        /\ k.since = call[c].since
    BY <1>2, <1>3, <1>4 DEF Call
  <2>2. call' = [call EXCEPT ![c] = k]
    BY <1>1
  <2> HIDE DEF k
  <2>3. call \in [Callers -> Call]
    BY <1>2 DEF TypeOK
  <2>4. QED
    BY ZenonT(60), <1>1, <2>1, <2>2, <2>3
<1>6. call[c].name = None
  BY <1>1, <1>2 DEF Fits, AccountFits, Early
<1>7. StateFits(call[c])' /\ KindFits(call[c])' /\ TokenFits(call[c])'
  BY <1>1, <1>2, <1>3, <1>5 DEF Fits, StateFits, KindFits, TokenFits, DatabaseUnchanged, t
<1>8. AccountFits(c, call[c])'
  BY <1>1, <1>4, <1>5, <1>6 DEF AccountFits, Early, UserIds, DatabaseUnchanged
<1>9. SinceFits(call[c])'
  BY <1>1, <1>2, <1>5, SinceKept DEF Fits, DatabaseUnchanged
<1>10. QED
  BY <1>1, <1>2, <1>4, <1>5, <1>6, <1>7, <1>8, <1>9, QuietInv, StillApart DEF TypeOK, Fits

LEMMA RevokePresentedInv == ASSUME Inv, NEW c \in Callers, RevokePresented(c) PROVE Inv'
<1> DEFINE t == call[c].token
<1>1. PICK m \in {{}, {t}} :
        /\ call' = [call EXCEPT ![c].pc = "closing", ![c].marks = m]
        /\ m = {} => tokens[t].revoked
  BY DEF RevokePresented
<1>2. DatabaseUnchanged /\ oauth' = oauth /\ call[c].pc = "loaded" /\ call[c].kind = "logout"
  BY DEF RevokePresented
<1>3. Fits(c, call[c]) /\ call[c] \in Call /\ TypeOK
  BY DEF Inv, TypeOK
<1>4. t \in DOMAIN tokens /\ t \in Ids
  BY <1>2, <1>3 DEF Fits, TokenFits, TypeOK
<1> HIDE DEF t
<1>5. /\ call' \in [Callers -> Call] /\ \A d \in Callers : d # c => call'[d] = call[d]
      /\ call'[c].pc = "closing" /\ call'[c].user = call[c].user /\ call'[c].marks = m
      /\ call'[c].kind = "logout" /\ call'[c].state = call[c].state
      /\ call'[c].name = call[c].name /\ call'[c].token = call[c].token
      /\ call'[c].since = call[c].since
  BY ZenonT(60), <1>1, <1>2, <1>3, <1>4 DEF TypeOK, Call
<1>6. TokenFits(call[c])'
  BY <1>1, <1>2, <1>4, <1>5 DEF TokenFits, Dead, DatabaseUnchanged, t
<1>7. StateFits(call[c])' /\ KindFits(call[c])' /\ AccountFits(c, call[c])'
  BY <1>2, <1>3, <1>5 DEF Fits, StateFits, KindFits, AccountFits, Early
<1>8. SinceFits(call[c])'
  BY <1>2, <1>3, <1>5, SinceKept DEF Fits, DatabaseUnchanged
<1>9. QED
  BY <1>2, <1>3, <1>5, <1>6, <1>7, <1>8, QuietInv, StillApart DEF TypeOK, Fits

LEMMA AbortInv == ASSUME Inv, NEW c \in Callers, Abort(c) PROVE Inv'
<1>1. /\ DatabaseUnchanged /\ oauth' = oauth /\ call[c].pc \notin Ended \cup {"idle"}
      /\ call' = [call EXCEPT ![c].pc = "aborted", ![c].marks = {}]
  BY DEF Abort
<1>2. Fits(c, call[c]) /\ call[c] \in Call /\ TypeOK
  BY DEF Inv, TypeOK
<1>3. /\ call' \in [Callers -> Call] /\ \A d \in Callers : d # c => call'[d] = call[d]
      /\ call'[c].pc = "aborted"
      /\ call'[c].kind = call[c].kind /\ call'[c].state = call[c].state
      /\ call'[c].token = call[c].token /\ call'[c].since = call[c].since
  BY ZenonT(60), <1>1, <1>2 DEF TypeOK, Call, Ended
<1>4. StateFits(call[c])' /\ KindFits(call[c])' /\ AccountFits(c, call[c])' /\ TokenFits(call[c])'
  BY <1>1, <1>2, <1>3 DEF Fits, StateFits, KindFits, AccountFits, TokenFits, Early, Ended
<1>5. SinceFits(call[c])'
  BY <1>1, <1>2, <1>3, SinceKept DEF Fits, DatabaseUnchanged, Ended
<1>6. Fits(c, call[c])'
  BY <1>4, <1>5 DEF Fits
<1>7. /\ call[c].pc \notin {"done", "csrf"}
      /\ oauth' \in [States -> {"new", "live", "gone"}]
      /\ \A s \in States : oauth[s] = "gone" => oauth'[s] = "gone"
  BY <1>1, <1>2 DEF Ended, TypeOK
<1>8. QED
  BY <1>1, <1>3, <1>6, <1>7, QuietInv, StillApart

LEMMA ExpireTokenInv == ASSUME Inv, NEW x \in Ids, ExpireToken(x) PROVE Inv'
<1>1. /\ UNCHANGED <<oauth, tenants, users, call, log>> /\ x \in DOMAIN tokens
      /\ tokens' = [tokens EXCEPT ![x].expired = TRUE]
  BY DEF ExpireToken
<1>2. \A t \in DOMAIN tokens : tokens[t] \in Token
  BY DEF Inv, TypeOK
<1>3. /\ DOMAIN tokens' = DOMAIN tokens
      /\ \A t \in DOMAIN tokens : t # x => tokens'[t] = tokens[t]
      /\ tokens'[x] \in Token /\ tokens'[x].user = tokens[x].user /\ tokens'[x].expired
  BY <1>1, <1>2 DEF Token
<1>4. TypeOK' /\ KeysApart' /\ LogFits'
  <2>1. \A t \in DOMAIN tokens : tokens'[t] \in Token
    BY <1>2, <1>3
  <2>2. TypeOK'
    BY <1>1, <1>3, <2>1 DEF Inv, TypeOK
  <2>3. QED
    BY <1>1, <2>2 DEF Inv, KeysApart, HasNamed, HasAdded, LogFits
<1>5. RowsFit'
  BY <1>1, <1>3 DEF Inv, RowsFit, Settled, UserIds
<1>6. \A t \in DOMAIN tokens : Dead(t) => tokens'[t].revoked \/ tokens'[t].expired
  BY <1>3 DEF Dead
<1>7. ASSUME NEW c \in Callers PROVE Fits(c, call[c])'
  <2>1. Fits(c, call[c])
    BY DEF Inv
  <2>2. TokenFits(call[c])'
    BY <1>1, <1>3, <1>6, <2>1 DEF Fits, TokenFits, Dead
  <2>3. StateFits(call[c])' /\ KindFits(call[c])' /\ AccountFits(c, call[c])' /\ SinceFits(call[c])'
    BY <1>1, <2>1 DEF Fits, StateFits, KindFits, AccountFits, SinceFits, UserIds
  <2>4. QED
    BY <2>2, <2>3 DEF Fits
<1>8. QED
  BY <1>4, <1>5, <1>7 DEF Inv

LEMMA CommitInv == ASSUME Inv, NEW c \in Callers, Commit(c) PROVE Inv'
<1> DEFINE k == call[c]
           issued == IF k.pc = "issued" THEN {c} ELSE {}
           row == [id |-> c, identity |-> k.identity, tenant |-> c]
<1>1. /\ k.pc \in {"issued", "closing"} /\ oauth' = oauth /\ log' = Append(log, c)
      /\ tenants' = tenants \cup {[id |-> c, name |-> n] : n \in {k.name} \ {None}}
      /\ users' = users \cup (IF k.user # c THEN {} ELSE {row})
      /\ tokens' = [t \in DOMAIN tokens \cup issued |->
                      IF t \in issued THEN Fresh(k.user)
                      ELSE [tokens[t] EXCEPT !.revoked = @ \/ t \in k.marks]]
      /\ call' = [call EXCEPT ![c].pc = "done", ![c].marks = {}]
  BY DEF Commit
<1>2. TypeOK /\ k \in Call /\ Fits(c, k) /\ c \in Ids
  BY DEF Inv, TypeOK, Ids
<1>3. /\ call' \in [Callers -> Call] /\ \A d \in Callers : d # c => call'[d] = call[d]
      /\ call'[c].pc = "done" /\ call'[c].kind = k.kind /\ call'[c].state = k.state
      /\ call'[c].token = k.token /\ call'[c].since = k.since
  BY ZenonT(60), <1>1, <1>2 DEF TypeOK, Call, Ended
<1>4. ~Settled(c)
  BY <1>1, AuthAssumption DEF Settled
<1>5. \A x : Settled(x) => Settled(x)'
  BY <1>3 DEF Settled
<1>6. Settled(c)'
  BY <1>3 DEF Settled
<1>7. /\ c \notin DOMAIN tokens /\ \A u \in users : u.id # c
      /\ \A t \in tenants : t.id # c
  BY <1>4 DEF Inv, RowsFit
\* What the call adds.
<1>8. /\ k.pc = "issued" => k.user = c \/ k.user \in UserIds
      /\ k.name # None => k.user = c
      /\ k.user = c => /\ k.pc = "issued" /\ k.identity \in Identities
                       /\ \A u \in users : u.identity # k.identity
  BY <1>1, <1>2, AuthAssumption DEF Fits, AccountFits, Early, Call
<1>9. \A t \in DOMAIN tokens :
        /\ t \in DOMAIN tokens' /\ tokens'[t] \in Token /\ tokens'[t].user = tokens[t].user
        /\ Dead(t) => tokens'[t].revoked \/ tokens'[t].expired
        /\ t \in k.marks => tokens'[t].revoked
  <2>1. ASSUME NEW t \in DOMAIN tokens
        PROVE  /\ t \in DOMAIN tokens' /\ tokens'[t] \in Token /\ tokens'[t].user = tokens[t].user
               /\ Dead(t) => tokens'[t].revoked \/ tokens'[t].expired
               /\ t \in k.marks => tokens'[t].revoked
    <3>1. tokens[t] \in Token /\ t \notin issued
      BY <1>2, <1>7 DEF TypeOK
    <3>2. t \in DOMAIN tokens' /\ tokens'[t] = [tokens[t] EXCEPT !.revoked = @ \/ t \in k.marks]
      BY <1>1, <3>1
    <3>3. PICK b \in BOOLEAN : /\ b <=> tokens[t].revoked \/ t \in k.marks
                               /\ tokens'[t] = [tokens[t] EXCEPT !.revoked = b]
      BY <3>1, <3>2 DEF Token
    <3>4. /\ tokens'[t] \in Token /\ tokens'[t].user = tokens[t].user
          /\ tokens'[t].expired = tokens[t].expired /\ tokens'[t].revoked = b
      BY <3>1, <3>3 DEF Token
    <3>5. QED
      BY <3>2, <3>3, <3>4 DEF Dead
  <2>2. QED
    BY <2>1
<1>10. /\ \A t \in DOMAIN tokens' : t \in DOMAIN tokens \/ (t = c /\ k.pc = "issued")
       /\ k.pc = "issued" => c \in DOMAIN tokens' /\ tokens'[c] = Fresh(k.user)
  BY <1>1
<1>11. /\ \A u \in users' : u \in users \/ (k.user = c /\ u = row)
       /\ users \subseteq users' /\ (k.user = c => row \in users')
       /\ row.id = c /\ row.identity = k.identity /\ row.tenant = c
  BY <1>1
<1>12. /\ \A t \in tenants' : t \in tenants \/
            (k.name # None /\ t = [id |-> c, name |-> k.name] /\ t.id = c /\ t.name = k.name)
       /\ tenants \subseteq tenants'
  BY <1>1
<1>13. \A x \in UserIds : x \in UserIds'
  BY <1>11 DEF UserIds
<1>14. k.user = c => c \in UserIds'
  BY <1>11 DEF UserIds
<1>15. UserIds \subseteq Ids /\ \A u \in users : u \in [id : Ids, identity : Identities, tenant : Ids]
  BY <1>2 DEF UserIds, TypeOK
<1>16. /\ Len(log) \in Nat /\ Len(log') = Len(log) + 1 /\ log' \in Seq(Callers)
       /\ \A i \in 1 .. Len(log) : log'[i] = log[i] /\ log[i] \in Callers /\ log[i] # c
       /\ log'[Len(log) + 1] = c
  BY <1>1, <1>2 DEF TypeOK, Inv, LogFits
<1>17. TypeOK'
  <2>1. users' \subseteq [id : Ids, identity : Identities, tenant : Ids]
    BY <1>2, <1>8, <1>11, <1>15
  <2>2. tenants' \subseteq [id : Ids, name : Names]
    BY <1>2, <1>12 DEF TypeOK, Call
  <2>3. DOMAIN tokens' \subseteq Ids /\ \A t \in DOMAIN tokens' : tokens'[t] \in Token
    <3>1. k.pc = "issued" => Fresh(k.user) \in Token
      BY <1>2, <1>8, <1>15 DEF Fresh, Token
    <3>2. QED
      BY <1>2, <1>9, <1>10, <3>1 DEF TypeOK
  <2>4. QED
    BY <1>1, <1>2, <1>3, <1>16, <2>1, <2>2, <2>3 DEF TypeOK
<1> HIDE DEF k, row, issued
<1>18. RowsFit'
  <2>1. \A u \in users' : u.tenant = u.id /\ Settled(u.id)'
    BY <1>5, <1>6, <1>11 DEF Inv, RowsFit
  <2>2. \A t \in tenants' : Settled(t.id)' /\ t.id \in UserIds'
    BY <1>5, <1>6, <1>8, <1>12, <1>13, <1>14 DEF Inv, RowsFit
  <2>3. \A t \in DOMAIN tokens' : Settled(t)' /\ tokens'[t].user \in UserIds'
    <3>1. k.pc = "issued" => tokens'[c].user = k.user
      BY <1>10 DEF Fresh
    <3>2. QED
      BY <1>5, <1>6, <1>8, <1>9, <1>10, <1>13, <1>14, <3>1 DEF Inv, RowsFit
  <2>4. \A u, v \in users' : u.id = v.id \/ u.identity = v.identity => u = v
    BY <1>7, <1>8, <1>11 DEF Inv, RowsFit
  <2>5. k.name # None => \A t \in tenants : t.name # k.name
    BY <1>1, <1>2, <1>8 DEF Fits, AccountFits
  <2>6. \A t, s \in tenants' : t.name = s.name => t = s
    BY <1>12, <2>5 DEF Inv, RowsFit
  <2>7. QED
    BY <2>1, <2>2, <2>3, <2>4, <2>6 DEF RowsFit
<1>19. KeysApart'
  <2>1. \A d \in Callers : call'[d].state = call[d].state /\ (call'[d].pc = "csrf" <=> call[d].pc = "csrf")
    BY <1>1, <1>3 DEF k
  <2>2. QED
    BY <1>3, <2>1 DEF Inv, KeysApart, HasNamed, HasAdded
<1>20. LogFits'
  BY <1>3, <1>16 DEF Inv, LogFits
<1>21. /\ \A d \in Callers : call'[d].kind = call[d].kind /\ call'[d].token = call[d].token
                             /\ call'[d].since = call[d].since
       /\ \A i \in 1 .. Len(log) : call'[log'[i]] = call[log[i]]
  BY <1>3, <1>16 DEF k
<1>22. \A d \in Callers : call[d].pc # "unauthorized" \/ call'[d].pc = call[d].pc
  BY <1>1, <1>3 DEF k
<1>23. ASSUME NEW d \in Callers PROVE SinceFits(call[d])'
  <2>1. SinceFits(call[d]) /\ call[d].since \in Nat
    BY <1>2 DEF Inv, Fits, TypeOK, Call
  <2>2. QED
    <3>1. call'[d].since <= Len(log')
      BY <1>16, <1>21, <2>1 DEF SinceFits
    <3>2. \A i \in 1 .. call[d].since : i \in 1 .. Len(log)
      BY <1>16, <2>1 DEF SinceFits
    <3>3. ASSUME call'[d].kind = "refresh", call'[d].pc # "unauthorized"
          PROVE  /\ call'[d].token # None
                 /\ \A i \in 1 .. call'[d].since :
                      call'[log'[i]].kind \in {"refresh", "logout"} =>
                        call'[log'[i]].token # call'[d].token
      <4>1. /\ call[d].token # None
            /\ \A i \in 1 .. call[d].since :
                 call[log[i]].kind \in {"refresh", "logout"} => call[log[i]].token # call[d].token
        BY <1>21, <1>22, <2>1, <3>3 DEF SinceFits
      <4>2. QED
        BY <1>21, <3>2, <4>1
    <3>4. QED
      BY <3>1, <3>3 DEF SinceFits
<1>24. Fits(c, call[c])'
  <2>1. StateFits(call[c])' /\ KindFits(call[c])' /\ AccountFits(c, call[c])'
    BY <1>1, <1>2, <1>3 DEF Fits, StateFits, KindFits, AccountFits, Early
  <2>2. TokenFits(call[c])'
    BY <1>1, <1>2, <1>3, <1>9 DEF Fits, KindFits, TokenFits, Dead
  <2>3. QED
    BY <1>23, <2>1, <2>2 DEF Fits
<1>25. ASSUME NEW d \in Callers, d # c PROVE Fits(d, call[d])'
  <2>1. Fits(d, call[d]) /\ call'[d] = call[d]
    BY <1>3, <1>25 DEF Inv
  <2>2. StateFits(call[d])' /\ KindFits(call[d])'
    BY <1>1, <2>1 DEF Fits, StateFits, KindFits
  <2>3. TokenFits(call[d])'
    BY <1>9, <2>1 DEF Fits, TokenFits, Dead
  <2>4. call[d].pc \in {"user", "issued"} /\ call[d].user = d =>
          \A u \in users' : u.identity # call[d].identity
    <3>1. call[d].pc \in {"user", "issued"} /\ call[d].user = d /\ k.user = c =>
            k.identity # call[d].identity
      BY <1>8, <1>25 DEF Inv, KeysApart, HasAdded, k
    <3>2. QED
      BY <1>11, <2>1, <3>1 DEF Fits, AccountFits
  <2>5. call[d].pc \in {"named", "user", "issued"} /\ call[d].name # None =>
          \A t \in tenants' : t.name # call[d].name
    <3>1. call[d].pc \in {"named", "user", "issued"} /\ call[d].name # None /\ k.name # None =>
            k.name # call[d].name
      BY <1>8, <1>25 DEF Inv, KeysApart, HasNamed, k
    <3>2. QED
      BY <1>12, <2>1, <3>1 DEF Fits, AccountFits
  <2>6. AccountFits(d, call[d])'
    BY <1>11, <1>13, <2>1, <2>4, <2>5 DEF Fits, AccountFits
  <2>7. QED
    BY <1>23, <2>2, <2>3, <2>6 DEF Fits
<1>26. QED
  BY <1>17, <1>18, <1>19, <1>20, <1>24, <1>25 DEF Inv

LEMMA StutterInv == Inv /\ UNCHANGED vars => Inv'
BY DEF Inv, vars, TypeOK, KeysApart, HasNamed, HasAdded, RowsFit, Settled, UserIds, LogFits,
       Fits, StateFits, KindFits, AccountFits, TokenFits, SinceFits, Dead

LEMMA NextInv == Inv /\ [Next]_vars => Inv'
<1> SUFFICES ASSUME Inv, [Next]_vars PROVE Inv'
  OBVIOUS
<1>1. CASE UNCHANGED vars
  BY <1>1, StutterInv
<1>2. CASE \E s \in States : CreateState(s) \/ ExpireState(s)
  BY <1>2, StateInv
<1>3. CASE \E t \in Ids : ExpireToken(t)
  BY <1>3, ExpireTokenInv
<1>4. ASSUME NEW c \in Callers, Request(c) PROVE Inv'
  BY <1>4, ConsumeStateInv, LoadTokenInv, StartLogoutInv DEF Request
<1>5. ASSUME NEW c \in Callers, Work(c) PROVE Inv'
  BY <1>5, ExchangeInv, FindUserInv, InsertTenantInv, InsertUserInv, RevokeOldInv,
     IssueTokensInv, RevokePresentedInv, CommitInv DEF Work
<1>6. ASSUME NEW c \in Callers, Abort(c) PROVE Inv'
  BY <1>6, AbortInv
<1>7. QED
  BY <1>1, <1>2, <1>3, <1>4, <1>5, <1>6 DEF Next

THEOREM AuthInvariant == Spec => []Inv
BY InitInv, NextInv, PTL DEF Spec

-----------------------------------------------------------------------------

\* Every reachable state of the rows and of the calls is of its type.
THEOREM AuthTypes == Spec => []TypeOK
<1>1. Inv => TypeOK
  BY DEF Inv
<1>2. QED
  BY <1>1, AuthInvariant, PTL

\* Whatever first logins race and fail, an identity has one user, a user a tenant
\* of its own, a tenant its owner and a name of its own.
THEOREM AccountsPaired == Spec => []AccountsArePaired
<1>1. Inv => AccountsArePaired
  <2> SUFFICES ASSUME Inv PROVE AccountsArePaired
    OBVIOUS
  <2>1. \A t \in tenants : \E u \in users : u.id = t.id
    BY DEF Inv, RowsFit, UserIds
  <2>2. QED
    BY <2>1 DEF Inv, RowsFit, AccountsArePaired
<1>2. QED
  BY <1>1, AuthInvariant, PTL

\* However many callbacks arrive with a state, one passes.
THEOREM StateUsedOnce == Spec => []StateOnce
<1>1. Inv => StateOnce
  BY DEF Inv, KeysApart, StateOnce
<1>2. QED
  BY <1>1, AuthInvariant, PTL

\* A token that was used up before a refresh began is of no use to it.
THEOREM RotationHolds == Spec => []ReuseOnlyWhileOverlapping
<1>1. Inv => ReuseOnlyWhileOverlapping
  <2> SUFFICES ASSUME Inv, NEW c \in Callers, NEW d \in Callers,
                      call[c].pc = "done", call[c].kind = "refresh", call[d].pc = "done",
                      call[d].kind \in {"refresh", "logout"}, c # d,
                      call[c].token = call[d].token,
                      NEW i \in 1 .. call[c].since, log[i] = d
               PROVE  FALSE
    BY DEF ReuseOnlyWhileOverlapping
  <2>1. SinceFits(call[c])
    BY DEF Inv, Fits
  <2>2. QED
    BY <2>1 DEF SinceFits
<1>2. QED
  BY <1>1, AuthInvariant, PTL

\* The token presented to a logout that succeeds is dead, whatever it overlapped.
THEOREM LogoutHolds == Spec => []LogoutEnds
<1>1. Inv => LogoutEnds
  BY DEF Inv, Fits, TokenFits, Dead, LogoutEnds
<1>2. QED
  BY <1>1, AuthInvariant, PTL
-----------------------------------------------------------------------------
(* Sessions *)

\* A call marks only the token it presented, and a refresh that has marked it works
\* for the user of that token.
MarksFit(k) ==
  /\ \A t \in k.marks : t = k.token /\ k.kind \in {"refresh", "logout"}
  /\ k.kind = "refresh" /\ k.pc \in {"user", "issued"} => tokens[k.token].user = k.user

\* Call c, which is done, is why token t is revoked.
EndedBy(t, c) ==
  /\ call[c].pc = "done" /\ call[c].token = t
  /\ call[c].kind = "logout" \/ (c \in DOMAIN tokens /\ tokens[c].user = tokens[t].user)

SessionsInv ==
  /\ Inv
  /\ \A t \in DOMAIN tokens : tokens[t].revoked => \E c \in Callers : EndedBy(t, c)
  /\ \A c \in Callers : MarksFit(call[c])

\* A step of a call that writes nothing to the database.
LEMMA QuietSessions ==
  ASSUME SessionsInv, Inv', NEW c \in Callers, UNCHANGED tokens, call[c].pc # "done",
         \A d \in Callers : d # c => call'[d] = call[d],
         MarksFit(call'[c])
  PROVE  SessionsInv'
<1>1. \A x : MarksFit(x)' <=> MarksFit(x')
  BY DEF MarksFit
<1>2. \A d \in Callers : MarksFit(call[d])'
  BY <1>1 DEF SessionsInv, MarksFit
<1>3. ASSUME NEW t \in DOMAIN tokens, tokens[t].revoked
      PROVE  \E d \in Callers : EndedBy(t, d)'
  <2>1. PICK d \in Callers : EndedBy(t, d)
    BY <1>3 DEF SessionsInv
  <2>2. EndedBy(t, d)'
    BY <2>1 DEF EndedBy
  <2>3. QED
    BY <2>2
<1>4. QED
  BY <1>2, <1>3 DEF SessionsInv

\* A call that has marked nothing, and is no refresh under way.
LEMMA NoMarks ==
  ASSUME NEW k, k.marks = {}, k.kind # "refresh" \/ k.pc \notin {"user", "issued"}
  PROVE  MarksFit(k)
BY DEF MarksFit

LEMMA RequestSessions ==
  ASSUME SessionsInv, Inv', NEW c \in Callers, Request(c)
  PROVE  SessionsInv'
<1>1. TypeOK /\ NoCall \in Call
  BY DEF SessionsInv, Inv, NoCall, Call, Ids
<1>2. /\ call[c].pc = "idle" /\ UNCHANGED tokens
      /\ \E k \in Call : call' = [call EXCEPT ![c] = k] /\ k.marks = {} /\ k.pc \notin {"user", "issued"}
  <2>1. PICK q \in Wants[c] : ConsumeState(c, q) \/ LoadToken(c, q) \/ StartLogout(c, q)
    BY DEF Request
  <2>2. CASE ConsumeState(c, q)
    <3>1. q.kind = "login" /\ q.state \in States /\ q.identity \in Identities
      BY <2>2, AuthAssumption DEF ConsumeState
    <3> DEFINE pc == IF oauth[q.state] = "live" THEN "passed" ELSE "csrf"
               k  == [NoCall EXCEPT !.kind = "login", !.state = q.state, !.identity = q.identity,
                                    !.pc = pc]
    <3>2. call' = [call EXCEPT ![c] = k] /\ call[c].pc = "idle" /\ UNCHANGED tokens
      BY <2>2 DEF ConsumeState, DatabaseUnchanged
    <3>3. pc \in {"passed", "csrf"}
      OBVIOUS
    <3> HIDE DEF pc
    <3>4. k \in Call /\ k.marks = {} /\ k.pc = pc
      BY <1>1, <3>1, <3>3 DEF NoCall, Call, Ended
    <3>5. QED
      BY <3>2, <3>3, <3>4
  <2>3. CASE LoadToken(c, q)
    <3>1. PICK t \in Presented :
            call' = [call EXCEPT ![c] = [NoCall EXCEPT !.kind = "refresh", !.token = t,
                       !.since = Len(log), !.pc = IF Usable(t) THEN "loaded" ELSE "unauthorized"]]
      BY <2>3 DEF LoadToken
    <3> DEFINE pc == IF Usable(t) THEN "loaded" ELSE "unauthorized"
               k  == [NoCall EXCEPT !.kind = "refresh", !.token = t, !.since = Len(log), !.pc = pc]
    <3>2. call' = [call EXCEPT ![c] = k] /\ call[c].pc = "idle" /\ UNCHANGED tokens
      BY <2>3, <3>1 DEF LoadToken, DatabaseUnchanged
    <3>3. pc \in {"loaded", "unauthorized"} /\ t \in Ids \cup {None} /\ Len(log) \in Nat
      BY <1>1 DEF Presented, TypeOK
    <3> HIDE DEF pc
    <3>4. k \in Call /\ k.marks = {} /\ k.pc = pc
      BY <1>1, <3>3 DEF NoCall, Call, Ended
    <3>5. QED
      BY <3>2, <3>3, <3>4
  <2>4. CASE StartLogout(c, q)
    <3>1. PICK t \in Presented :
            call' = [call EXCEPT ![c] = [NoCall EXCEPT !.kind = "logout", !.token = t,
                       !.pc = IF Accepted(t) THEN "loaded" ELSE "closing"]]
      BY <2>4 DEF StartLogout
    <3> DEFINE pc == IF Accepted(t) THEN "loaded" ELSE "closing"
               k  == [NoCall EXCEPT !.kind = "logout", !.token = t, !.pc = pc]
    <3>2. call' = [call EXCEPT ![c] = k] /\ call[c].pc = "idle" /\ UNCHANGED tokens
      BY <2>4, <3>1 DEF StartLogout, DatabaseUnchanged
    <3>3. pc \in {"loaded", "closing"} /\ t \in Ids \cup {None}
      BY <1>1 DEF Presented, TypeOK
    <3> HIDE DEF pc
    <3>4. k \in Call /\ k.marks = {} /\ k.pc = pc
      BY <1>1, <3>3 DEF NoCall, Call, Ended
    <3>5. QED
      BY <3>2, <3>3, <3>4
  <2>5. QED
    BY <2>1, <2>2, <2>3, <2>4
<1>3. PICK k \in Call : /\ call' = [call EXCEPT ![c] = k]
                        /\ k.marks = {} /\ k.pc \notin {"user", "issued"}
  BY <1>2
<1>4. call'[c] = k /\ \A d \in Callers : d # c => call'[d] = call[d]
  BY <1>1, <1>3 DEF TypeOK
<1>5. QED
  BY <1>2, <1>3, <1>4, NoMarks, QuietSessions

\* The steps of a login mark nothing.
LEMMA LoginSessions ==
  ASSUME SessionsInv, Inv', NEW c \in Callers,
         Exchange(c) \/ FindUser(c) \/ InsertTenant(c) \/ InsertUser(c)
  PROVE  SessionsInv'
<1>1. TypeOK /\ call[c] \in Call /\ Fits(c, call[c]) /\ MarksFit(call[c])
  BY DEF SessionsInv, Inv, TypeOK
<1>2. UNCHANGED tokens /\ call[c].pc \in {"passed", "known", "new", "named"}
  BY DEF Exchange, FindUser, InsertTenant, InsertUser, Step, DatabaseUnchanged
<1>3. call[c].kind = "login" /\ call[c].marks = {}
  BY <1>1, <1>2 DEF Fits, KindFits, MarksFit
<1>4. /\ \A d \in Callers : d # c => call'[d] = call[d]
      /\ call'[c].kind = call[c].kind /\ call'[c].marks = call[c].marks
  <2>1. CASE Exchange(c)
    <3>1. PICK to \in {"known", "upstream"} : Step(c, "passed", to)
      BY <2>1 DEF Exchange
    <3>2. QED
      BY <1>1, <3>1, Moves
  <2>2. CASE FindUser(c)
    <3>1. CASE Step(c, "known", "new")
      BY <1>1, <3>1, Moves
    <3>2. ASSUME NEW u, call' = [call EXCEPT ![c].pc = "user", ![c].user = u.id]
          PROVE  /\ \A d \in Callers : d # c => call'[d] = call[d]
                 /\ call'[c].kind = call[c].kind /\ call'[c].marks = call[c].marks
      BY ZenonT(60), <1>1, <3>2 DEF TypeOK, Call
    <3>3. QED
      BY <2>2, <3>1, <3>2 DEF FindUser
  <2>3. CASE InsertTenant(c)
    <3>1. CASE Step(c, "new", "name_taken")
      BY <1>1, <3>1, Moves
    <3>2. ASSUME NEW n, call' = [call EXCEPT ![c].pc = "named", ![c].name = n]
          PROVE  /\ \A d \in Callers : d # c => call'[d] = call[d]
                 /\ call'[c].kind = call[c].kind /\ call'[c].marks = call[c].marks
      BY ZenonT(60), <1>1, <3>2 DEF TypeOK, Call
    <3>3. QED
      BY <2>3, <3>1, <3>2 DEF InsertTenant
  <2>4. CASE InsertUser(c)
    <3>1. CASE call' = [call EXCEPT ![c].pc = "identity_taken"]
      BY ZenonT(60), <1>1, <3>1 DEF TypeOK, Call
    <3>2. CASE call' = [call EXCEPT ![c].pc = "user", ![c].user = c]
      BY ZenonT(60), <1>1, <3>2 DEF TypeOK, Call
    <3>3. QED
      BY <2>4, <3>1, <3>2 DEF InsertUser
  <2>5. QED
    BY <2>1, <2>2, <2>3, <2>4
<1>5. MarksFit(call'[c])
  BY <1>3, <1>4, NoMarks
<1>6. QED
  BY <1>2, <1>4, <1>5, QuietSessions

\* The steps that mark a token, and that of issuing tokens, which follows.
LEMMA MarkSessions ==
  ASSUME SessionsInv, Inv', NEW c \in Callers,
         RevokeOld(c) \/ IssueTokens(c) \/ RevokePresented(c)
  PROVE  SessionsInv'
<1>1. TypeOK /\ call[c] \in Call /\ Fits(c, call[c]) /\ MarksFit(call[c])
  BY DEF SessionsInv, Inv, TypeOK
<1>2. UNCHANGED tokens /\ call[c].pc \in {"loaded", "user"}
  BY DEF RevokeOld, IssueTokens, RevokePresented, Step, DatabaseUnchanged
<1>3. CASE RevokeOld(c)
  <2>1. PICK t, u : t = call[c].token /\ u = tokens[t].user
    OBVIOUS
  <2>2. call' = [call EXCEPT ![c].pc = "user", ![c].user = u, ![c].marks = {t}]
        /\ call[c].kind = "refresh"
    BY <1>3, <2>1 DEF RevokeOld
  <2>3. /\ \A d \in Callers : d # c => call'[d] = call[d]
        /\ call'[c].kind = call[c].kind /\ call'[c].marks = {t} /\ call'[c].user = u
        /\ call'[c].token = call[c].token
    BY ZenonT(60), <1>1, <2>2 DEF TypeOK, Call
  <2>4. MarksFit(call'[c])
    BY <2>1, <2>2, <2>3 DEF MarksFit
  <2>5. QED
    BY <1>2, <2>3, <2>4, QuietSessions
<1>4. CASE IssueTokens(c)
  <2>1. Step(c, "user", "issued")
    BY <1>4 DEF IssueTokens
  <2>2. /\ \A d \in Callers : d # c => call'[d] = call[d]
        /\ call[c].pc = "user" /\ call'[c].kind = call[c].kind /\ call'[c].user = call[c].user
        /\ call'[c].token = call[c].token /\ call'[c].marks = call[c].marks
    BY <1>1, <2>1, Moves
  <2>3. MarksFit(call'[c])
    BY <1>1, <2>2 DEF MarksFit
  <2>4. QED
    BY <1>2, <2>2, <2>3, QuietSessions
<1>5. CASE RevokePresented(c)
  <2>1. PICK t, m : t = call[c].token /\ m = IF tokens[t].revoked THEN {} ELSE {t}
    OBVIOUS
  <2>2. call' = [call EXCEPT ![c].pc = "closing", ![c].marks = m] /\ call[c].kind = "logout"
    BY <1>5, <2>1 DEF RevokePresented
  <2>3. /\ \A d \in Callers : d # c => call'[d] = call[d]
        /\ call'[c].kind = call[c].kind /\ call'[c].marks = m
        /\ call'[c].token = call[c].token
    BY ZenonT(60), <1>1, <2>2 DEF TypeOK, Call
  <2>4. m \subseteq {t}
    BY <2>1
  <2>5. MarksFit(call'[c])
    BY <2>1, <2>2, <2>3, <2>4 DEF MarksFit
  <2>6. QED
    BY <1>2, <2>3, <2>5, QuietSessions
<1>6. QED
  BY <1>3, <1>4, <1>5

LEMMA AbortSessions ==
  ASSUME SessionsInv, Inv', NEW c \in Callers, Abort(c)
  PROVE  SessionsInv'
<1>1. /\ TypeOK /\ call[c] \in Call /\ call[c].pc # "done" /\ UNCHANGED tokens
      /\ call' = [call EXCEPT ![c].pc = "aborted", ![c].marks = {}]
  BY DEF SessionsInv, Inv, TypeOK, Abort, Ended, DatabaseUnchanged
<1>2. /\ \A d \in Callers : d # c => call'[d] = call[d]
      /\ call'[c].pc = "aborted" /\ call'[c].marks = {}
  BY ZenonT(60), <1>1 DEF TypeOK, Call
<1>3. QED
  BY <1>1, <1>2, NoMarks, QuietSessions

LEMMA ExpireSessions ==
  ASSUME SessionsInv, Inv', NEW x \in Ids, ExpireToken(x)
  PROVE  SessionsInv'
<1>1. /\ call' = call /\ x \in DOMAIN tokens /\ tokens' = [tokens EXCEPT ![x].expired = TRUE]
      /\ \A t \in DOMAIN tokens : tokens[t] \in Token
  BY DEF ExpireToken, SessionsInv, Inv, TypeOK
<1>2. /\ DOMAIN tokens' = DOMAIN tokens
      /\ \A t \in DOMAIN tokens : /\ tokens'[t].user = tokens[t].user
                                  /\ tokens'[t].revoked = tokens[t].revoked
  BY <1>1 DEF Token
<1>3. ASSUME NEW t \in DOMAIN tokens, NEW c \in Callers, EndedBy(t, c)
      PROVE  EndedBy(t, c)'
  BY <1>1, <1>2, <1>3 DEF EndedBy
<1>4. ASSUME NEW c \in Callers PROVE MarksFit(call[c])'
  <2>1. MarksFit(call[c]) /\ TokenFits(call[c])
    BY DEF SessionsInv, Inv, Fits
  <2>2. QED
    BY <1>1, <1>2, <2>1 DEF MarksFit, TokenFits
<1>5. QED
  BY <1>2, <1>3, <1>4 DEF SessionsInv

\* A commit revokes the token the call presented, and a refresh puts its own there.
LEMMA CommitSessions ==
  ASSUME SessionsInv, Inv', NEW c \in Callers, Commit(c)
  PROVE  SessionsInv'
<1>a. PICK k : k = call[c]
  OBVIOUS
<1> DEFINE issued == IF k.pc = "issued" THEN {c} ELSE {}
<1>1. /\ k.pc \in {"issued", "closing"}
      /\ tokens' = [t \in DOMAIN tokens \cup issued |->
                      IF t \in issued THEN Fresh(k.user)
                      ELSE [tokens[t] EXCEPT !.revoked = @ \/ t \in k.marks]]
      /\ call' = [call EXCEPT ![c].pc = "done", ![c].marks = {}]
  BY <1>a DEF Commit
<1>2. TypeOK /\ k \in Call /\ Fits(c, k) /\ MarksFit(k) /\ RowsFit
  BY <1>a DEF SessionsInv, Inv, TypeOK
<1>3. /\ \A d \in Callers : d # c => call'[d] = call[d]
      /\ call'[c].pc = "done" /\ call'[c].marks = {} /\ call'[c].kind = k.kind
      /\ call'[c].token = k.token
  BY ZenonT(60), <1>a, <1>1, <1>2 DEF TypeOK, Call, Ended
<1>4. c \notin DOMAIN tokens
  BY <1>a, <1>1, <1>2, AuthAssumption DEF RowsFit, Settled
<1>5. \A t \in DOMAIN tokens :
        /\ t \in DOMAIN tokens' /\ tokens'[t].user = tokens[t].user
        /\ tokens'[t].revoked => tokens[t].revoked \/ t \in k.marks
  <2>1. ASSUME NEW t \in DOMAIN tokens
        PROVE  /\ t \in DOMAIN tokens' /\ tokens'[t].user = tokens[t].user
               /\ tokens'[t].revoked => tokens[t].revoked \/ t \in k.marks
    <3>1. tokens[t] \in Token /\ t \notin issued
      BY <1>2, <1>4 DEF TypeOK
    <3>2. t \in DOMAIN tokens' /\ tokens'[t] = [tokens[t] EXCEPT !.revoked = @ \/ t \in k.marks]
      BY <1>1, <3>1
    <3>3. PICK b \in BOOLEAN : /\ b <=> tokens[t].revoked \/ t \in k.marks
                               /\ tokens'[t] = [tokens[t] EXCEPT !.revoked = b]
      BY <3>1, <3>2 DEF Token
    <3>4. tokens'[t].user = tokens[t].user /\ tokens'[t].revoked = b
      BY <3>1, <3>3 DEF Token
    <3>5. QED
      BY <3>2, <3>3, <3>4
  <2>2. QED
    BY <2>1
<1>6. /\ \A t \in DOMAIN tokens' : t \in DOMAIN tokens \/ (t = c /\ k.pc = "issued")
      /\ k.pc = "issued" => /\ c \in DOMAIN tokens' /\ tokens'[c].user = k.user
                            /\ tokens'[c].revoked = FALSE
  BY <1>1 DEF Fresh
<1> HIDE DEF issued
<1>7. ASSUME NEW t \in DOMAIN tokens, NEW d \in Callers, EndedBy(t, d)
      PROVE  EndedBy(t, d)'
  <2>1. d # c
    BY <1>a, <1>1, <1>7 DEF EndedBy
  <2>2. QED
    BY <1>3, <1>5, <1>7, <2>1 DEF EndedBy
<1>8. ASSUME NEW t \in DOMAIN tokens, t \in k.marks
      PROVE  EndedBy(t, c)'
  <2>1. t = k.token /\ k.kind \in {"refresh", "logout"}
    BY <1>2, <1>8 DEF MarksFit
  <2>2. CASE k.kind = "logout"
    BY <1>3, <2>1, <2>2 DEF EndedBy
  <2>3. CASE k.kind = "refresh"
    <3>1. k.pc = "issued"
      BY <1>1, <1>2, <2>3 DEF Fits, KindFits
    <3>2. tokens[t].user = k.user
      BY <1>2, <2>1, <2>3, <3>1 DEF MarksFit
    <3>3. QED
      BY <1>3, <1>5, <1>6, <2>1, <3>1, <3>2 DEF EndedBy
  <2>4. QED
    BY <2>1, <2>2, <2>3
<1>9. ASSUME NEW t \in DOMAIN tokens', tokens'[t].revoked
      PROVE  \E d \in Callers : EndedBy(t, d)'
  <2>1. t \in DOMAIN tokens
    BY <1>6, <1>9
  <2>2. tokens[t].revoked \/ t \in k.marks
    BY <1>5, <1>9, <2>1
  <2>3. QED
    BY <1>7, <1>8, <2>1, <2>2 DEF SessionsInv
<1>10. ASSUME NEW d \in Callers PROVE MarksFit(call[d])'
  <2>1. CASE d = c
    BY <1>3, <2>1 DEF MarksFit
  <2>2. CASE d # c
    <3>1. MarksFit(call[d]) /\ TokenFits(call[d]) /\ call'[d] = call[d]
      BY <1>3, <2>2 DEF SessionsInv, Inv, Fits
    <3>2. QED
      BY <1>5, <3>1 DEF MarksFit, TokenFits
  <2>3. QED
    BY <2>1, <2>2
<1>11. QED
  BY <1>9, <1>10 DEF SessionsInv

LEMMA NextSessions == SessionsInv /\ [Next]_vars => SessionsInv'
<1> SUFFICES ASSUME SessionsInv, [Next]_vars PROVE SessionsInv'
  OBVIOUS
<1>1. Inv'
  BY NextInv DEF SessionsInv
<1>2. CASE UNCHANGED <<tokens, call>>
  BY <1>1, <1>2 DEF SessionsInv, MarksFit, EndedBy
<1>3. CASE UNCHANGED vars \/ \E s \in States : CreateState(s) \/ ExpireState(s)
  BY <1>2, <1>3 DEF vars, CreateState, ExpireState, DatabaseUnchanged
<1>4. CASE \E t \in Ids : ExpireToken(t)
  BY <1>1, <1>4, ExpireSessions
<1>5. ASSUME NEW c \in Callers, Request(c) \/ Work(c) \/ Abort(c) PROVE SessionsInv'
  BY <1>1, <1>5, RequestSessions, LoginSessions, MarkSessions, CommitSessions, AbortSessions
     DEF Work
<1>6. QED
  BY <1>3, <1>4, <1>5 DEF Next

\* No session is lost to a refresh that fails half-way or overlaps others: a token is
\* revoked only by its logout or in favour of a new token of the same user.
THEOREM SessionsSurvive == Spec => []SessionsContinue
<1>1. Init => SessionsInv
  <2> SUFFICES ASSUME Init PROVE SessionsInv
    OBVIOUS
  <2>1. \A t \in DOMAIN tokens : tokens[t].revoked = FALSE
    BY DEF Init, Fresh
  <2>2. \A c \in Callers : MarksFit(call[c])
    BY DEF Init, NoCall, MarksFit
  <2>3. QED
    BY <2>1, <2>2, InitInv DEF SessionsInv
<1>2. SessionsInv => SessionsContinue
  <2> SUFFICES ASSUME SessionsInv PROVE SessionsContinue
    OBVIOUS
  <2>1. \A t \in DOMAIN tokens \ OldLogins : call[t].pc = "done"
    BY DEF SessionsInv, Inv, RowsFit, Settled
  <2>2. QED
    BY <2>1 DEF SessionsInv, SessionsContinue, EndedBy
<1>3. QED
  BY <1>1, <1>2, NextSessions, PTL DEF Spec
=============================================================================
