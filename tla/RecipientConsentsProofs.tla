---------------------- MODULE RecipientConsentsProofs ----------------------
(***************************************************************************)
(* Machine-checked theorems about RecipientConsents, for every set of      *)
(* calls, of what they may ask for, of users and of earlier rows.          *)
(*                                                                         *)
(* The invariant says of one call what it holds, given what is committed   *)
(* (CallFits), of two calls that are about to commit that they hold no     *)
(* unique key both (Apart), and of committed rows that they have their     *)
(* table's columns and come from calls that are done (RowsFit,             *)
(* ConsentsFit).                                                           *)
(***************************************************************************)
EXTENDS RecipientConsents, TLAPS

Fields == {"pc", "q", "changes", "adds", "since", "until"}

Kind(c) == work[c].q.kind

CallsShaped ==
  /\ DOMAIN work = Calls
  /\ clock \in Nat
  /\ \A c \in Calls :
       /\ DOMAIN work[c] = Fields
       /\ work[c].since \in Nat /\ work[c].since <= clock
       /\ work[c].until \in Nat /\ work[c].until <= clock
       /\ work[c].pc # "idle" => work[c].q \in Wants[c]

\* The states in which a call has read its row, and holds what it will write.
Holding == {"loaded", "ready", "locked", "written"}

\* A recipient's number is the one it had at the start, or one that a call
\* that is done gave it.
NumberGiven(d, r, t, p) ==
  /\ Done(d) /\ Is(d, {"create", "update"}) /\ TenantOf(d) = t /\ Key(d) = r
  /\ "phone" \in DOMAIN Asked(d) /\ Asked(d).phone = p

RowsFit ==
  \A r \in DOMAIN recipients :
    /\ DOMAIN recipients[r] = RecipientColumns
    /\ r \in DOMAIN OldRecipients \/ (r \in Calls /\ Done(r) /\ Is(r, {"create"}))
    /\ \/ /\ r \in DOMAIN OldRecipients
          /\ OldRecipients[r].tenant = recipients[r].tenant
          /\ OldRecipients[r].phone = recipients[r].phone
       \/ \E d \in Calls : NumberGiven(d, r, recipients[r].tenant, recipients[r].phone)

\* A revocation is of a call that is done, or from before the start.
ConsentsFit ==
  \A k \in DOMAIN consents :
    /\ DOMAIN consents[k] = ConsentColumns
    /\ \/ consents[k].revoked = None
       \/ consents[k].revoked \notin Calls /\ RevokedBefore(k)
       \/ /\ consents[k].revoked \in Calls /\ Done(consents[k].revoked)
          /\ Is(consents[k].revoked, {"revoke"}) /\ Key(consents[k].revoked) = k

NumbersApart ==
  \A r, s \in DOMAIN recipients :
    recipients[r].tenant = recipients[s].tenant /\ recipients[r].phone = recipients[s].phone => r = s

\* What a call will write is what it asked for: all of it in a new row, some of
\* it in an old one.
ChangesFit(c) ==
  LET w == work[c] IN
  /\ w.pc \in {"idle", "begun", "found", "loaded"} => ~w.adds
  /\ w.pc \in Holding =>
       /\ \A f \in DOMAIN w.changes \cap DOMAIN Asked(c) : w.changes[f] = Asked(c)[f]
       /\ w.adds => /\ Kind(c) \in {"create", "grant", "shop"}
                    /\ DOMAIN w.changes =
                         IF Kind(c) = "create" THEN RecipientColumns
                         ELSE IF Kind(c) = "grant" THEN ConsentColumns ELSE {"tenant"}
       /\ ~w.adds => /\ Kind(c) \notin {"create", "shop"}
                     /\ DOMAIN w.changes \subseteq DOMAIN Asked(c)
                     /\ Kind(c) = "revoke" => "revoked" \in DOMAIN w.changes
  /\ w.pc = "locked" => "phone" \in DOMAIN w.changes
  /\ w.pc = "loaded" => Kind(c) = "update"
  /\ w.pc = "found" => Kind(c) \in {"grant", "revoke"}

\* The row a call is about exists from when it is read.
KeyFits(c) ==
  LET w == work[c] IN
  /\ w.pc \in Holding \cup {"done"} /\ Kind(c) \in {"update", "deactivate"} =>
       Key(c) \in DOMAIN recipients /\ recipients[Key(c)].tenant = TenantOf(c)
  /\ w.pc \in Holding /\ Kind(c) \in {"grant", "revoke"} /\ ~w.adds => Key(c) \in DOMAIN consents
  /\ w.pc = "done" /\ Kind(c) = "create" => Key(c) \in DOMAIN recipients
  /\ w.pc = "done" /\ Kind(c) \in {"grant", "revoke"} => Key(c) \in DOMAIN consents
  /\ w.pc = "written" /\ Kind(c) = "grant" /\ w.adds => Key(c) \notin DOMAIN consents

\* A number about to be committed is nobody else's, and one refused was taken.
PhoneFits(c) ==
  /\ work[c].pc = "written" /\ Kind(c) \in {"create", "update"} /\ "phone" \in DOMAIN work[c].changes =>
       \A r \in DOMAIN recipients \ {Key(c)} : ~HasPhone(r, TenantOf(c), work[c].changes.phone)
  /\ work[c].pc = "conflict" => WasTaken(c)

\* A later commit of d is why column f of c's row is not what c asked for.
Overwrote(d, c, f) ==
  /\ Done(d) /\ Key(d) = Key(c) /\ work[d].until > work[c].since
  /\ f \in DOMAIN Asked(d) /\ Asked(d)[f] = Row(c)[f]

Prevails(c, f) == Row(c)[f] = Asked(c)[f] \/ \E d \in Calls : Overwrote(d, c, f)

ColumnsFit(c) ==
  Kind(c) # "shop" =>
    /\ work[c].pc \in Holding /\ ~work[c].adds =>
         \A f \in DOMAIN Asked(c) : f \in DOMAIN work[c].changes \/ Prevails(c, f)
    /\ work[c].pc = "done" => \A f \in DOMAIN Asked(c) : Prevails(c, f)

\* A grant that will end a revocation has read one.
RevocationRead(c) ==
  \/ RevokedBefore(Key(c))
  \/ \E e \in Calls : /\ Done(e) /\ Is(e, {"revoke"}) /\ Key(e) = Key(c)
                      /\ work[e].until <= work[c].since

GrantFits(c) ==
  work[c].pc \in Holding /\ Kind(c) = "grant" /\ ~work[c].adds
    /\ "revoked" \in DOMAIN work[c].changes => RevocationRead(c)

CallFits(c) == ChangesFit(c) /\ KeyFits(c) /\ PhoneFits(c) /\ ColumnsFit(c) /\ GrantFits(c)

\* Two calls that are about to commit hold no number, and add no consent, both.
Numbering(c) ==
  /\ work[c].pc = "written" /\ Kind(c) \in {"create", "update"}
  /\ "phone" \in DOMAIN work[c].changes

Adding(c) == work[c].pc = "written" /\ Kind(c) = "grant" /\ work[c].adds

Apart(c, d) ==
  /\ Numbering(c) /\ Numbering(d) /\ TenantOf(c) = TenantOf(d) =>
       work[c].changes.phone # work[d].changes.phone
  /\ Adding(c) /\ Adding(d) => Key(c) # Key(d)

RecipientInv ==
  /\ CallsShaped /\ RowsFit /\ ConsentsFit /\ NumbersApart /\ RevocationHolds
  /\ \A c \in Calls : CallFits(c)
  /\ \A c, d \in Calls : c # d => Apart(c, d)

-----------------------------------------------------------------------------
(* Calls and their requests *)

\* What a call that has begun is about does not change, and what is asked
\* depends on nothing else.
AskedOf(c, q) ==
  CASE q.kind = "create"     -> [tenant |-> TenantOf(c), phone |-> Normalize(q.phone),
                                 shop |-> q.shop, user |-> q.user, active |-> TRUE]
    [] q.kind = "update"     -> [f \in DOMAIN q.patch |-> IF f = "phone"
                                   THEN Normalize(q.patch[f]) ELSE q.patch[f]]
    [] q.kind = "deactivate" -> [active |-> FALSE]
    [] q.kind = "grant"      -> [source |-> q.source, revoked |-> None]
    [] q.kind = "revoke"     -> [revoked |-> c]
    [] q.kind = "shop"       -> [tenant |-> TenantOf(c)]

KeyOf(c, q) ==
  IF q.kind \in {"create", "shop"} THEN c
  ELSE IF q.kind \in {"grant", "revoke"} THEN <<q.of, q.type>> ELSE q.of

LEMMA AskedIs ==
  ASSUME NEW c
  PROVE  Asked(c) = AskedOf(c, work[c].q) /\ Asked(c)' = AskedOf(c, work'[c].q)
BY DEF Asked, AskedOf, TenantOf

LEMMA KeyIs ==
  ASSUME NEW c, work[c].pc # "idle"
  PROVE  Key(c) = KeyOf(c, work[c].q)
BY DEF Key, KeyOf, Is, OnConsent

LEMMA KeyIsNext ==
  ASSUME NEW c, work'[c].pc # "idle"
  PROVE  Key(c)' = KeyOf(c, work'[c].q)
BY DEF Key, KeyOf, Is, OnConsent

\* A call that goes on.
LEMMA SameRequest ==
  ASSUME NEW c, work[c].pc # "idle", work'[c].pc # "idle", work'[c].q = work[c].q
  PROVE  /\ Asked(c)' = Asked(c) /\ Key(c)' = Key(c) /\ TenantOf(c)' = TenantOf(c)
         /\ Kind(c)' = Kind(c) /\ (OnConsent(c)' <=> OnConsent(c))
         /\ \A kinds : Is(c, kinds)' <=> Is(c, kinds)
<1>1. Asked(c)' = Asked(c)
  BY AskedIs
<1>2. Key(c)' = Key(c)
  BY KeyIs, KeyIsNext
<1> QED BY <1>1, <1>2 DEF Kind, TenantOf, OnConsent, Is

\* A call that does nothing in this step.
LEMMA SameCall ==
  ASSUME NEW d, work'[d] = work[d]
  PROVE  /\ Asked(d)' = Asked(d) /\ Key(d)' = Key(d) /\ TenantOf(d)' = TenantOf(d)
         /\ Kind(d)' = Kind(d) /\ (Done(d)' <=> Done(d)) /\ (OnConsent(d)' <=> OnConsent(d))
         /\ \A kinds : Is(d, kinds)' <=> Is(d, kinds)
<1>1. Asked(d)' = Asked(d)
  BY AskedIs
<1>2. Key(d)' = Key(d)
  BY DEF Key, Is, OnConsent
<1> QED BY <1>1, <1>2 DEF Kind, TenantOf, OnConsent, Is, Done

\* The columns that are asked for.
LEMMA AskedShape ==
  ASSUME NEW c \in Calls, work[c].q \in Wants[c]
  PROVE  /\ Kind(c) \in {"create", "update", "deactivate", "grant", "revoke", "shop"}
         /\ Kind(c) = "create" => DOMAIN Asked(c) = RecipientColumns /\ Asked(c).tenant = TenantOf(c)
         /\ Kind(c) = "update" => DOMAIN Asked(c) \subseteq RecipientColumns \ {"tenant"}
         /\ Kind(c) = "deactivate" => DOMAIN Asked(c) = {"active"}
         /\ Kind(c) = "grant" => DOMAIN Asked(c) = ConsentColumns \ {"tenant"} /\ Asked(c).revoked = None
         /\ Kind(c) = "revoke" => DOMAIN Asked(c) = {"revoked"} /\ Asked(c).revoked = c
         /\ Kind(c) = "shop" => DOMAIN Asked(c) = {"tenant"}
<1>1. Kind(c) \in {"create", "update", "deactivate", "grant", "revoke", "shop"}
  BY RequestAssumption DEF Kind
<1>2. CASE Kind(c) = "create"
  BY <1>2 DEF Kind, Asked, RecipientColumns
<1>3. CASE Kind(c) = "update"
  BY <1>3, RequestAssumption DEF Kind, Asked, RecipientColumns
<1>4. CASE Kind(c) = "deactivate"
  BY <1>4 DEF Kind, Asked
<1>5. CASE Kind(c) = "grant"
  BY <1>5 DEF Kind, Asked, ConsentColumns
<1>6. CASE Kind(c) = "revoke"
  BY <1>6 DEF Kind, Asked
<1>7. CASE Kind(c) = "shop"
  BY <1>7 DEF Kind, Asked
<1> QED BY <1>1, <1>2, <1>3, <1>4, <1>5, <1>6, <1>7

\* What a step of a call writes into its record.
LEMMA GotoWrites ==
  ASSUME CallsShaped, NEW c \in Calls, NEW pc, NEW more, DOMAIN more \subseteq Fields \ {"pc"},
         Goto(c, pc, more)
  PROVE  /\ DOMAIN work' = Calls /\ \A d \in Calls : d # c => work'[d] = work[d]
         /\ DOMAIN work'[c] = Fields /\ work'[c].pc = pc
         /\ \A f \in Fields \ {"pc"} :
              work'[c][f] = IF f \in DOMAIN more THEN more[f] ELSE work[c][f]
<1>1. DOMAIN work = Calls /\ DOMAIN work[c] = Fields
  BY DEF CallsShaped
<1> DEFINE w == [f \in DOMAIN work[c] |->
                  IF f = "pc" THEN pc ELSE IF f \in DOMAIN more THEN more[f] ELSE work[c][f]]
<1>2. work' = [work EXCEPT ![c] = w]
  BY DEF Goto
<1>3. /\ DOMAIN w = Fields /\ w.pc = pc
      /\ \A f \in Fields \ {"pc"} : w[f] = IF f \in DOMAIN more THEN more[f] ELSE work[c][f]
  BY <1>1 DEF Fields
<1> HIDE DEF w
<1> QED BY <1>1, <1>2, <1>3

LEMMA GotoShaped ==
  ASSUME CallsShaped, NEW c \in Calls, NEW pc, NEW more, DOMAIN more \subseteq Fields \ {"pc"},
         Goto(c, pc, more), clock' \in Nat, clock <= clock',
         "q" \in DOMAIN more => more.q \in Wants[c],
         "q" \notin DOMAIN more => work[c].pc # "idle",
         "since" \in DOMAIN more => more.since = clock,
         "until" \in DOMAIN more => more.until = clock'
  PROVE  CallsShaped'
<1>1. /\ DOMAIN work' = Calls /\ \A d \in Calls : d # c => work'[d] = work[d]
      /\ DOMAIN work'[c] = Fields /\ work'[c].pc = pc
      /\ \A f \in Fields \ {"pc"} :
           work'[c][f] = IF f \in DOMAIN more THEN more[f] ELSE work[c][f]
  BY GotoWrites
<1>2. /\ work'[c].q = IF "q" \in DOMAIN more THEN more.q ELSE work[c].q
      /\ work'[c].since = IF "since" \in DOMAIN more THEN more.since ELSE work[c].since
      /\ work'[c].until = IF "until" \in DOMAIN more THEN more.until ELSE work[c].until
  BY <1>1 DEF Fields
<1>3. work'[c].q \in Wants[c]
  BY <1>2 DEF CallsShaped
<1>4. /\ work'[c].since \in Nat /\ work'[c].since <= clock'
      /\ work'[c].until \in Nat /\ work'[c].until <= clock'
  BY <1>2 DEF CallsShaped
<1>5. ASSUME NEW d \in Calls
      PROVE  /\ DOMAIN work'[d] = Fields
             /\ work'[d].since \in Nat /\ work'[d].since <= clock'
             /\ work'[d].until \in Nat /\ work'[d].until <= clock'
             /\ work'[d].pc # "idle" => work'[d].q \in Wants[d]
  <2>1. CASE d = c
    BY <1>1, <1>3, <1>4, <2>1
  <2>2. CASE d # c
    BY <1>1, <2>2 DEF CallsShaped
  <2> QED BY <2>1, <2>2
<1> QED BY <1>1, <1>5 DEF CallsShaped

\* A step of one call that commits nothing.
LEMMA QuietStep ==
  ASSUME RecipientInv, NEW c \in Calls, TablesUnchanged, CallsShaped',
         \A d \in Calls : d # c => work'[d] = work[d],
         work[c].pc # "done", work'[c].pc # "done", CallFits(c)',
         \A d \in Calls : d # c => Apart(c, d)' /\ Apart(d, c)'
  PROVE  RecipientInv'
<1>1. UNCHANGED <<recipients, consents, shops, clock>>
  BY DEF TablesUnchanged
<1>2. \A d \in Calls : Done(d)' <=> Done(d)
  BY DEF Done
<1>3. \A d \in Calls : Done(d) =>
        /\ work'[d] = work[d]
        /\ Asked(d)' = Asked(d) /\ Key(d)' = Key(d) /\ TenantOf(d)' = TenantOf(d)
        /\ \A kinds : Is(d, kinds)' <=> Is(d, kinds)
        /\ OnConsent(d)' <=> OnConsent(d)
  BY SameCall DEF Done
<1>4. RowsFit'
  BY <1>1, <1>2, <1>3 DEF RecipientInv, RowsFit, NumberGiven
<1>5. ConsentsFit'
  BY <1>1, <1>2, <1>3 DEF RecipientInv, ConsentsFit, RevokedBefore
<1>6. NumbersApart'
  BY <1>1 DEF RecipientInv, NumbersApart
<1>7. RevocationHolds'
  BY <1>1, <1>2, <1>3 DEF RecipientInv, RevocationHolds, RevokedBefore, Row
<1>8. ASSUME NEW d \in Calls, d # c PROVE CallFits(d)'
  <2>1. /\ work'[d] = work[d]
        /\ Asked(d)' = Asked(d) /\ Key(d)' = Key(d) /\ TenantOf(d)' = TenantOf(d)
        /\ Kind(d)' = Kind(d) /\ (Done(d)' <=> Done(d)) /\ (OnConsent(d)' <=> OnConsent(d))
    BY <1>8, SameCall
  <2>2. ChangesFit(d) /\ KeyFits(d) /\ PhoneFits(d) /\ ColumnsFit(d) /\ GrantFits(d)
    BY DEF RecipientInv, CallFits
  <2>3. ChangesFit(d)'
    BY <2>1, <2>2 DEF ChangesFit
  <2>4. KeyFits(d)'
    BY <1>1, <2>1, <2>2 DEF KeyFits
  <2>5. PhoneFits(d)'
    <3>1. WasTaken(d) => WasTaken(d)'
      BY <1>2, <1>3, <2>1 DEF WasTaken
    <3> QED BY <1>1, <2>1, <2>2, <3>1 DEF PhoneFits, HasPhone
  <2>6. ColumnsFit(d)'
    <3>1. Row(d)' = Row(d)
      BY <1>1, <2>1 DEF Row
    <3>2. \A e \in Calls : \A f : Overwrote(e, d, f) => Overwrote(e, d, f)'
      BY <1>2, <1>3, <2>1, <3>1 DEF Overwrote
    <3>3. \A f : Prevails(d, f) => Prevails(d, f)'
      BY <2>1, <3>1, <3>2 DEF Prevails
    <3> QED BY <2>1, <2>2, <3>3 DEF ColumnsFit
  <2>7. GrantFits(d)'
    <3>1. RevocationRead(d) => RevocationRead(d)'
      BY <1>2, <1>3, <2>1 DEF RevocationRead, RevokedBefore
    <3> QED BY <2>1, <2>2, <3>1 DEF GrantFits
  <2> QED BY <2>3, <2>4, <2>5, <2>6, <2>7 DEF CallFits
<1>9. ASSUME NEW d \in Calls, NEW e \in Calls, d # e PROVE Apart(d, e)'
  <2>1. CASE d = c \/ e = c
    BY <1>9, <2>1
  <2>2. CASE d # c /\ e # c
    <3>1. /\ work'[d] = work[d] /\ Key(d)' = Key(d) /\ TenantOf(d)' = TenantOf(d) /\ Kind(d)' = Kind(d)
          /\ work'[e] = work[e] /\ Key(e)' = Key(e) /\ TenantOf(e)' = TenantOf(e) /\ Kind(e)' = Kind(e)
      BY <2>2, SameCall
    <3> QED BY <1>9, <3>1 DEF RecipientInv, Apart, Numbering, Adding
  <2> QED BY <2>1, <2>2
<1> QED BY <1>4, <1>5, <1>6, <1>7, <1>8, <1>9 DEF RecipientInv

-----------------------------------------------------------------------------
(* The steps before a commit *)

LEMMA Going ==
  ASSUME RecipientInv, NEW c \in Calls, NEW pc, pc # "idle", NEW more,
         DOMAIN more \subseteq {"changes", "adds", "since"}, Goto(c, pc, more), TablesUnchanged,
         work[c].pc # "idle", "since" \in DOMAIN more => more.since = clock
  PROVE  /\ CallsShaped' /\ \A d \in Calls : d # c => work'[d] = work[d]
         /\ work'[c].pc = pc /\ work'[c].q = work[c].q /\ work[c].q \in Wants[c]
         /\ work'[c].changes = IF "changes" \in DOMAIN more THEN more.changes ELSE work[c].changes
         /\ work'[c].adds = IF "adds" \in DOMAIN more THEN more.adds ELSE work[c].adds
         /\ work'[c].since = IF "since" \in DOMAIN more THEN clock ELSE work[c].since
         /\ Asked(c)' = Asked(c) /\ Key(c)' = Key(c) /\ TenantOf(c)' = TenantOf(c)
         /\ Kind(c)' = Kind(c) /\ (OnConsent(c)' <=> OnConsent(c)) /\ Row(c)' = Row(c)
         /\ UNCHANGED <<recipients, consents, shops, clock>>
<1>1. CallsShaped /\ clock' = clock /\ clock \in Nat
  BY DEF RecipientInv, CallsShaped, TablesUnchanged
<1>2. DOMAIN more \subseteq Fields \ {"pc"}
  BY DEF Fields
<1>3. CallsShaped'
  <2>1. "q" \notin DOMAIN more /\ "until" \notin DOMAIN more
    OBVIOUS
  <2> QED BY <1>1, <1>2, <2>1, GotoShaped
<1>4. /\ work'[c].pc = pc /\ \A d \in Calls : d # c => work'[d] = work[d]
      /\ \A f \in Fields \ {"pc"} :
           work'[c][f] = IF f \in DOMAIN more THEN more[f] ELSE work[c][f]
  BY <1>1, <1>2, GotoWrites
<1>5. /\ work'[c].q = work[c].q
      /\ work'[c].changes = IF "changes" \in DOMAIN more THEN more.changes ELSE work[c].changes
      /\ work'[c].adds = IF "adds" \in DOMAIN more THEN more.adds ELSE work[c].adds
      /\ work'[c].since = IF "since" \in DOMAIN more THEN clock ELSE work[c].since
  BY <1>4 DEF Fields
<1>6. work[c].q \in Wants[c]
  BY <1>1 DEF CallsShaped
<1>7. /\ Asked(c)' = Asked(c) /\ Key(c)' = Key(c) /\ TenantOf(c)' = TenantOf(c)
      /\ Kind(c)' = Kind(c) /\ (OnConsent(c)' <=> OnConsent(c))
  BY <1>4, <1>5, SameRequest
<1>8. UNCHANGED <<recipients, consents, shops, clock>>
  BY DEF TablesUnchanged
<1>9. Row(c)' = Row(c)
  BY <1>7, <1>8 DEF Row
<1> QED BY <1>3, <1>4, <1>5, <1>6, <1>7, <1>8, <1>9

\* A step that changes the state of a call, and nothing else.
LEMMA GoingOn ==
  ASSUME RecipientInv, NEW c \in Calls, NEW pc, pc # "idle", Ends(c, pc), TablesUnchanged,
         work[c].pc # "idle"
  PROVE  /\ CallsShaped' /\ \A d \in Calls : d # c => work'[d] = work[d]
         /\ work'[c].pc = pc /\ work'[c].q = work[c].q /\ work[c].q \in Wants[c]
         /\ work'[c].changes = work[c].changes /\ work'[c].adds = work[c].adds
         /\ work'[c].since = work[c].since
         /\ Asked(c)' = Asked(c) /\ Key(c)' = Key(c) /\ TenantOf(c)' = TenantOf(c)
         /\ Kind(c)' = Kind(c) /\ (OnConsent(c)' <=> OnConsent(c)) /\ Row(c)' = Row(c)
         /\ UNCHANGED <<recipients, consents, shops, clock>>
<1>1. PICK none : none = <<>>
  OBVIOUS
<1>2. DOMAIN none = {} /\ Goto(c, pc, none)
  BY <1>1 DEF Ends
<1> QED BY <1>2, Going

\* A call that has ended otherwise than well, or is not about to commit.
LEMMA Unwritten ==
  ASSUME RecipientInv, NEW c \in Calls, TablesUnchanged, CallsShaped',
         \A d \in Calls : d # c => work'[d] = work[d],
         work[c].pc # "done", work'[c].pc \notin {"done", "written"}, CallFits(c)'
  PROVE  RecipientInv'
<1>1. \A d \in Calls : Apart(c, d)' /\ Apart(d, c)'
  BY DEF Apart, Numbering, Adding
<1> QED BY <1>1, QuietStep

LEMMA EndsBadly ==
  ASSUME RecipientInv, NEW c \in Calls, NEW pc,
         pc \in {"unauthorized", "not_found", "invalid", "failed", "deadlocked", "aborted"},
         Ends(c, pc), TablesUnchanged, work[c].pc \notin {"idle", "done"}
  PROVE  RecipientInv'
<1>1. /\ CallsShaped' /\ work'[c].pc = pc
      /\ \A d \in Calls : d # c => work'[d] = work[d]
  BY GoingOn
<1>2. CallFits(c)'
  BY <1>1 DEF CallFits, ChangesFit, KeyFits, PhoneFits, ColumnsFit, GrantFits, Holding
<1> QED BY <1>1, <1>2, Unwritten

LEMMA BeginKeeps ==
  ASSUME RecipientInv, NEW c \in Calls, NEW q \in Wants[c], Begin(c, q)
  PROVE  RecipientInv'
<1>1. PICK pc \in {"begun", "unauthorized"} : Goto(c, pc, [q |-> q])
  BY DEF Begin
<1> DEFINE more == [q |-> q]
<1>2. DOMAIN more = {"q"} /\ more.q = q /\ Goto(c, pc, more)
  BY <1>1
<1> HIDE DEF more
<1>3. CallsShaped /\ UNCHANGED clock /\ clock \in Nat /\ work[c].pc = "idle" /\ TablesUnchanged
  BY DEF RecipientInv, CallsShaped, Begin, TablesUnchanged
<1>4. CallsShaped'
  BY <1>2, <1>3, GotoShaped DEF Fields
<1>5. /\ work'[c].pc = pc /\ work'[c].adds = work[c].adds
      /\ \A d \in Calls : d # c => work'[d] = work[d]
  BY <1>2, <1>3, GotoWrites DEF Fields
<1>6. ~work[c].adds
  BY <1>3 DEF RecipientInv, CallFits, ChangesFit
<1>7. CallFits(c)'
  BY <1>5, <1>6 DEF CallFits, ChangesFit, KeyFits, PhoneFits, ColumnsFit, GrantFits, Holding
<1> QED BY <1>3, <1>4, <1>5, <1>7, Unwritten

\* A call that has read a row, and holds what of it will change.
LEMMA Loads ==
  ASSUME RecipientInv, NEW c \in Calls, NEW row, NEW pc,
         NEW more, DOMAIN more = {"changes", "since"}, more.since = clock,
         more.changes = Changes(row, Asked(c)),
         Goto(c, pc, more), TablesUnchanged, row = Row(c),
         work[c].pc \in {"begun", "found"},
         \/ pc = "loaded" /\ Kind(c) = "update" /\ ~OnConsent(c)
         \/ pc = "ready" /\ Kind(c) = "deactivate" /\ ~OnConsent(c)
         \/ pc = "ready" /\ Kind(c) \in {"grant", "revoke"} /\ OnConsent(c),
         IF OnConsent(c) THEN Key(c) \in DOMAIN consents
         ELSE Key(c) \in DOMAIN recipients /\ recipients[Key(c)].tenant = TenantOf(c)
  PROVE  RecipientInv'
<1>1. /\ CallsShaped' /\ \A d \in Calls : d # c => work'[d] = work[d]
      /\ work'[c].pc = pc /\ work[c].q \in Wants[c]
      /\ work'[c].changes = Changes(row, Asked(c))
      /\ work'[c].adds = work[c].adds /\ work'[c].since = clock
      /\ Asked(c)' = Asked(c) /\ Key(c)' = Key(c) /\ TenantOf(c)' = TenantOf(c)
      /\ Kind(c)' = Kind(c) /\ (OnConsent(c)' <=> OnConsent(c)) /\ Row(c)' = Row(c)
      /\ UNCHANGED <<recipients, consents, shops, clock>>
  BY Going
<1>2. ~work[c].adds
  BY DEF RecipientInv, CallFits, ChangesFit
<1> DEFINE asked   == Asked(c)
           changes == Changes(row, asked)
<1>3. /\ DOMAIN changes = {f \in DOMAIN asked : asked[f] # row[f]}
      /\ \A f \in DOMAIN changes : changes[f] = asked[f]
  BY DEF Changes, Restrict
<1>a. work'[c].changes = changes /\ Asked(c)' = asked /\ asked = Asked(c)
  BY <1>1
<1>b. Kind(c) = "revoke" => row.revoked # asked.revoked /\ "revoked" \in DOMAIN asked
  <2> SUFFICES ASSUME Kind(c) = "revoke" PROVE row.revoked # c
    BY <1>1, AskedShape
  <2>1. Key(c) \in DOMAIN consents /\ row = consents[Key(c)] /\ c # None /\ ~Done(c)
    BY RecipientAssumption DEF Row, Done
  <2> QED BY <2>1 DEF RecipientInv, ConsentsFit
<1>c. Kind(c) = "revoke" => "revoked" \in DOMAIN changes
  BY <1>3, <1>b
<1> HIDE DEF changes, asked
<1>4. ChangesFit(c)'
  BY <1>1, <1>2, <1>3, <1>a, <1>c DEF ChangesFit, Holding
<1>5. KeyFits(c)'
  BY <1>1, <1>2 DEF KeyFits, Holding
<1>6. PhoneFits(c)'
  BY <1>1 DEF PhoneFits
<1>7. ColumnsFit(c)'
  <2>1. \A f \in DOMAIN asked : f \in DOMAIN changes \/ row[f] = asked[f]
    BY <1>3
  <2>2. Row(c)' = row
    BY <1>1
  <2>3. \A f \in DOMAIN asked : f \in DOMAIN changes \/ Prevails(c, f)'
    BY <1>a, <2>1, <2>2 DEF Prevails
  <2> QED BY <1>1, <1>a, <2>3 DEF ColumnsFit, Holding
<1>8. GrantFits(c)'
  <2> SUFFICES ASSUME Kind(c) = "grant", "revoked" \in DOMAIN changes
               PROVE  RevocationRead(c)'
    BY <1>1, <1>a DEF GrantFits
  <2>1. row.revoked # None
    BY <1>1, <1>3, <1>a, AskedShape
  <2>2. OnConsent(c) /\ Key(c) \in DOMAIN consents /\ row = consents[Key(c)]
    BY DEF Row
  <2> DEFINE e == row.revoked
             k == Key(c)
  <2>3. CASE e \notin Calls
    <3>1. RevokedBefore(k)
      BY <2>1, <2>2, <2>3 DEF RecipientInv, ConsentsFit
    <3> QED BY <1>1, <3>1 DEF RevocationRead, RevokedBefore
  <2>4. CASE e \in Calls
    <3>1. Done(e) /\ Is(e, {"revoke"}) /\ Key(e) = k
      BY <2>1, <2>2, <2>4, RecipientAssumption DEF RecipientInv, ConsentsFit
    <3>2. e # c
      BY <3>1 DEF Done
    <3> HIDE DEF e, k
    <3>3. /\ work'[e] = work[e] /\ Done(e)' /\ Is(e, {"revoke"})' /\ Key(e)' = k
      BY <1>1, <2>4, <3>1, <3>2, SameCall
    <3>4. work'[e].until <= work'[c].since
      BY <1>1, <2>4, <3>3 DEF RecipientInv, CallsShaped
    <3>5. Key(c)' = k
      BY <1>1 DEF k
    <3> QED BY <2>4, <3>3, <3>4, <3>5 DEF RevocationRead
  <2> QED BY <2>3, <2>4
<1>9. CallFits(c)'
  BY <1>4, <1>5, <1>6, <1>7, <1>8 DEF CallFits
<1> QED BY <1>1, <1>9, Unwritten

LEMMA LoadRecipientKeeps ==
  ASSUME RecipientInv, NEW c \in Calls, LoadRecipient(c)
  PROVE  RecipientInv'
<1> DEFINE r == work[c].q.of
<1>1. /\ work[c].pc = "begun" /\ Kind(c) \notin {"create", "shop"} /\ TablesUnchanged
      /\ work[c].q \in Wants[c]
  BY DEF LoadRecipient, Is, Kind, RecipientInv, CallsShaped
<1>2. Kind(c) \in {"update", "deactivate", "grant", "revoke"}
  BY <1>1, AskedShape
<1>3. OnConsent(c) <=> Kind(c) \in {"grant", "revoke"}
  BY <1>1 DEF OnConsent, Is, Kind
<1>4. CASE r \notin DOMAIN recipients \/ recipients[r].tenant # TenantOf(c)
  <2>1. Ends(c, "not_found")
    BY <1>4 DEF LoadRecipient
  <2> QED BY <1>1, <2>1, EndsBadly
<1>5. CASE ~(r \notin DOMAIN recipients \/ recipients[r].tenant # TenantOf(c))
  <2>1. CASE OnConsent(c)
    <3>1. Ends(c, "found")
      BY <1>5, <2>1 DEF LoadRecipient
    <3>2. /\ CallsShaped' /\ work'[c].pc = "found" /\ work'[c].adds = work[c].adds
          /\ Kind(c)' = Kind(c) /\ \A d \in Calls : d # c => work'[d] = work[d]
      BY <1>1, <3>1, GoingOn
    <3>3. ~work[c].adds
      BY <1>1 DEF RecipientInv, CallFits, ChangesFit
    <3>4. CallFits(c)'
      BY <1>2, <1>3, <2>1, <3>2, <3>3
      DEF CallFits, ChangesFit, KeyFits, PhoneFits, ColumnsFit, GrantFits, Holding
    <3> QED BY <1>1, <3>2, <3>4, Unwritten
  <2>2. CASE ~OnConsent(c)
    <3> DEFINE more == [changes |-> Changes(recipients[r], Asked(c)), since |-> clock]
    <3>1. PICK pc : /\ pc = IF Kind(c) = "update" THEN "loaded" ELSE "ready"
                    /\ Goto(c, pc, more)
      BY <1>1, <1>5, <2>2 DEF LoadRecipient, Is, Kind
    <3>2. Key(c) = r /\ Row(c) = recipients[r]
      BY <1>1, <1>2, <1>3, <2>2 DEF Key, Is, Kind, Row
    <3>3. DOMAIN more = {"changes", "since"} /\ more.since = clock
          /\ more.changes = Changes(Row(c), Asked(c))
      BY <3>2
    <3> HIDE DEF more
    <3>4. Key(c) \in DOMAIN recipients /\ recipients[Key(c)].tenant = TenantOf(c)
      BY <1>5, <3>2
    <3> QED BY <1>1, <1>2, <1>3, <2>2, <3>1, <3>3, <3>4, Loads
  <2> QED BY <2>1, <2>2
<1> QED BY <1>4, <1>5

LEMMA Unnamed ==
  ASSUME RecipientInv, NEW c \in Calls, work[c].pc # "done"
  PROVE  c \notin DOMAIN recipients
BY RecipientAssumption DEF RecipientInv, RowsFit, Done

\* A call that holds its changes and goes on with them.
LEMMA HoldsOn ==
  ASSUME RecipientInv, NEW c \in Calls, NEW pc, pc \in {"ready", "locked", "written"},
         Ends(c, pc), TablesUnchanged, work[c].pc \in Holding,
         pc = "locked" => "phone" \in DOMAIN work[c].changes
  PROVE  /\ ChangesFit(c)' /\ ColumnsFit(c)' /\ GrantFits(c)'
         /\ pc # "written" \/ ~Adding(c)' => KeyFits(c)'
<1>1. /\ work'[c].pc = pc /\ work'[c].q = work[c].q
      /\ work'[c].changes = work[c].changes /\ work'[c].adds = work[c].adds
      /\ work'[c].since = work[c].since
      /\ Asked(c)' = Asked(c) /\ Key(c)' = Key(c) /\ TenantOf(c)' = TenantOf(c)
      /\ Kind(c)' = Kind(c) /\ Row(c)' = Row(c)
      /\ \A d \in Calls : d # c => work'[d] = work[d]
      /\ UNCHANGED <<recipients, consents, shops, clock>>
  BY GoingOn DEF Holding
<1>2. ChangesFit(c) /\ KeyFits(c) /\ ColumnsFit(c) /\ GrantFits(c)
  BY DEF RecipientInv, CallFits
<1>3. ChangesFit(c)'
  BY <1>1, <1>2 DEF ChangesFit, Holding
<1>4. \A d \in Calls : Done(d) =>
        /\ Done(d)' /\ work'[d] = work[d] /\ Asked(d)' = Asked(d) /\ Key(d)' = Key(d)
        /\ \A kinds : Is(d, kinds)' <=> Is(d, kinds)
  BY <1>1, SameCall DEF Done, Holding
<1>5. ColumnsFit(c)'
  <2>1. \A d \in Calls : \A f : Overwrote(d, c, f) => Overwrote(d, c, f)'
    BY <1>1, <1>4 DEF Overwrote
  <2>2. \A f : Prevails(c, f) => Prevails(c, f)'
    BY <1>1, <2>1 DEF Prevails
  <2> QED BY <1>1, <1>2, <2>2 DEF ColumnsFit, Holding
<1>6. GrantFits(c)'
  <2>1. RevocationRead(c) => RevocationRead(c)'
    BY <1>1, <1>4 DEF RevocationRead, RevokedBefore
  <2> QED BY <1>1, <1>2, <2>1 DEF GrantFits, Holding
<1>7. pc # "written" \/ ~Adding(c)' => KeyFits(c)'
  BY <1>1, <1>2 DEF KeyFits, Adding, Holding
<1> QED BY <1>3, <1>5, <1>6, <1>7

LEMMA CheckInputKeeps ==
  ASSUME RecipientInv, NEW c \in Calls, CheckInput(c)
  PROVE  RecipientInv'
<1>1. /\ TablesUnchanged /\ work[c].pc \in {"begun", "loaded"} /\ work[c].q \in Wants[c]
      /\ (work[c].pc = "begun" <=> Kind(c) = "create")
  BY DEF CheckInput, Is, Kind, RecipientInv, CallsShaped, CallFits, ChangesFit
<1>2. CASE Ends(c, "not_found") \/ Ends(c, "invalid")
  BY <1>1, <1>2, EndsBadly
<1>3. CASE /\ work[c].pc = "begun"
           /\ Goto(c, "ready", [changes |-> Asked(c), adds |-> TRUE, since |-> clock])
  <2> DEFINE more == [changes |-> Asked(c), adds |-> TRUE, since |-> clock]
  <2>1. /\ DOMAIN more = {"changes", "adds", "since"} /\ Goto(c, "ready", more)
        /\ more.changes = Asked(c) /\ more.adds = TRUE /\ more.since = clock
    BY <1>3
  <2> HIDE DEF more
  <2>2. /\ CallsShaped' /\ \A d \in Calls : d # c => work'[d] = work[d]
        /\ work'[c].pc = "ready" /\ work'[c].changes = Asked(c) /\ work'[c].adds
        /\ Asked(c)' = Asked(c) /\ Kind(c)' = Kind(c)
    BY <1>1, <2>1, Going
  <2>3. CallFits(c)'
    <3>1. Kind(c) = "create" /\ DOMAIN Asked(c) = RecipientColumns
      BY <1>1, <1>3, AskedShape
    <3> QED BY <2>2, <3>1
        DEF CallFits, ChangesFit, KeyFits, PhoneFits, ColumnsFit, GrantFits, Holding
  <2> QED BY <1>1, <2>2, <2>3, Unwritten
<1>4. CASE work[c].pc = "loaded" /\ Ends(c, "ready")
  <2>1. ChangesFit(c)' /\ ColumnsFit(c)' /\ GrantFits(c)' /\ KeyFits(c)'
    BY <1>1, <1>4, HoldsOn DEF Holding
  <2>2. /\ CallsShaped' /\ \A d \in Calls : d # c => work'[d] = work[d]
        /\ work'[c].pc = "ready"
    BY <1>1, <1>4, GoingOn
  <2>3. CallFits(c)'
    BY <2>1, <2>2 DEF CallFits, PhoneFits
  <2> QED BY <1>1, <2>2, <2>3, Unwritten
<1> QED BY <1>1, <1>2, <1>3, <1>4 DEF CheckInput, Is, Kind

LEMMA LoadConsentKeeps ==
  ASSUME RecipientInv, NEW c \in Calls, LoadConsent(c)
  PROVE  RecipientInv'
<1>1. /\ TablesUnchanged /\ work[c].pc = "found" /\ work[c].q \in Wants[c]
      /\ Kind(c) \in {"grant", "revoke"}
  BY DEF LoadConsent, RecipientInv, CallsShaped, CallFits, ChangesFit
<1>2. OnConsent(c)
  BY <1>1 DEF OnConsent, Is, Kind
<1>3. CASE Key(c) \in DOMAIN consents
  <2> DEFINE more == [changes |-> Changes(consents[Key(c)], Asked(c)), since |-> clock]
  <2>1. Goto(c, "ready", more) /\ Row(c) = consents[Key(c)]
    BY <1>2, <1>3 DEF LoadConsent, Row
  <2>2. DOMAIN more = {"changes", "since"} /\ more.since = clock
        /\ more.changes = Changes(Row(c), Asked(c))
    BY <2>1
  <2> HIDE DEF more
  <2> QED BY <1>1, <1>2, <1>3, <2>1, <2>2, Loads
<1>4. CASE Key(c) \notin DOMAIN consents /\ Kind(c) = "revoke"
  <2>1. Ends(c, "not_found")
    BY <1>1, <1>4 DEF LoadConsent, Is, Kind
  <2> QED BY <1>1, <2>1, EndsBadly
<1>5. CASE Key(c) \notin DOMAIN consents /\ Kind(c) = "grant"
  <2> DEFINE changes == Onto([tenant |-> TenantOf(c)], Asked(c))
             more    == [changes |-> changes, adds |-> TRUE, since |-> clock]
  <2>1. Goto(c, "ready", more)
    BY <1>1, <1>5 DEF LoadConsent, Is, Kind
  <2>2. DOMAIN Asked(c) = ConsentColumns \ {"tenant"}
    BY <1>1, <1>5, AskedShape
  <2>3. DOMAIN changes = ConsentColumns /\ \A f \in DOMAIN Asked(c) : changes[f] = Asked(c)[f]
    BY <2>2 DEF Onto, ConsentColumns
  <2> HIDE DEF changes
  <2>4. /\ DOMAIN more = {"changes", "adds", "since"}
        /\ more.changes = changes /\ more.adds = TRUE /\ more.since = clock
    OBVIOUS
  <2> HIDE DEF more
  <2>5. /\ CallsShaped' /\ \A d \in Calls : d # c => work'[d] = work[d]
        /\ work'[c].pc = "ready" /\ work'[c].changes = changes /\ work'[c].adds
        /\ Asked(c)' = Asked(c) /\ Kind(c)' = Kind(c)
    BY <1>1, <2>1, <2>4, Going
  <2>6. CallFits(c)'
    BY <1>5, <2>2, <2>3, <2>5
    DEF CallFits, ChangesFit, KeyFits, PhoneFits, ColumnsFit, GrantFits, Holding
  <2> QED BY <1>1, <2>5, <2>6, Unwritten
<1> QED BY <1>1, <1>3, <1>4, <1>5

LEMMA LockRowKeeps ==
  ASSUME RecipientInv, NEW c \in Calls, LockRow(c)
  PROVE  RecipientInv'
<1>1. PICK pc : /\ Ends(c, pc) /\ TablesUnchanged /\ work[c].pc = "ready" /\ ~work[c].adds
                /\ pc = IF "phone" \in DOMAIN work[c].changes THEN "locked" ELSE "written"
  BY DEF LockRow
<1>2. /\ CallsShaped' /\ \A d \in Calls : d # c => work'[d] = work[d]
      /\ work'[c].pc = pc /\ work'[c].changes = work[c].changes /\ work'[c].adds = work[c].adds
  BY <1>1, GoingOn
<1>3. ~Adding(c)' /\ ~Numbering(c)'
  BY <1>1, <1>2 DEF Adding, Numbering
<1>4. ChangesFit(c)' /\ ColumnsFit(c)' /\ GrantFits(c)' /\ KeyFits(c)'
  BY <1>1, <1>3, HoldsOn DEF Holding
<1>5. CallFits(c)'
  BY <1>1, <1>2, <1>4 DEF CallFits, PhoneFits
<1>6. \A d \in Calls : Apart(c, d)' /\ Apart(d, c)'
  BY <1>3 DEF Apart
<1> QED BY <1>1, <1>2, <1>5, <1>6, QuietStep

LEMMA PutPhoneKeeps ==
  ASSUME RecipientInv, NEW c \in Calls, PutPhone(c)
  PROVE  RecipientInv'
<1> DEFINE t == TenantOf(c)
           p == work[c].changes.phone
<1>1. /\ AtPhoneKey(c) /\ Blockers(c) = {} /\ TablesUnchanged
      /\ work[c].pc \in Holding /\ work[c].q \in Wants[c]
  BY DEF PutPhone, AtPhoneKey, RecipientInv, CallsShaped, Holding
<1>2. Kind(c) \in {"create", "update"} /\ "phone" \in DOMAIN work[c].changes
      /\ "phone" \in DOMAIN Asked(c) /\ Asked(c).phone = p
  <2>1. ChangesFit(c)
    BY DEF RecipientInv, CallFits
  <2>2. "phone" \in DOMAIN work[c].changes
    <3>1. CASE work[c].pc = "locked"
      BY <2>1, <3>1 DEF ChangesFit
    <3>2. CASE work[c].pc = "ready" /\ Kind(c) = "create"
      BY <1>1, <2>1, <3>2 DEF ChangesFit, RecipientColumns
    <3> QED BY <1>1, <3>1, <3>2 DEF AtPhoneKey, Is, Kind
  <2>3. CASE work[c].adds
    <3>1. Kind(c) = "create" /\ DOMAIN Asked(c) = RecipientColumns
      BY <1>1, <2>1, <2>2, <2>3, AskedShape DEF ChangesFit, ConsentColumns
    <3> QED BY <1>1, <2>1, <2>2, <3>1 DEF ChangesFit, RecipientColumns
  <2>4. CASE ~work[c].adds
    <3>1. "phone" \in DOMAIN Asked(c) /\ Kind(c) \notin {"create", "shop"}
      BY <1>1, <2>1, <2>2, <2>4 DEF ChangesFit
    <3>2. Kind(c) = "update"
      BY <1>1, <3>1, AskedShape DEF ConsentColumns
    <3> QED BY <1>1, <2>1, <2>2, <3>1, <3>2 DEF ChangesFit
  <2> QED BY <2>3, <2>4
<1>3. CASE Ends(c, "conflict") /\ \E r \in DOMAIN recipients \ {Key(c)} : HasPhone(r, t, p)
  <2>1. /\ CallsShaped' /\ \A d \in Calls : d # c => work'[d] = work[d]
        /\ work'[c].pc = "conflict"
        /\ Asked(c)' = Asked(c) /\ Key(c)' = Key(c) /\ TenantOf(c)' = t
    BY <1>1, <1>3, GoingOn DEF Holding
  <2>2. WasTaken(c)'
    <3>1. PICK r \in DOMAIN recipients \ {Key(c)} :
            recipients[r].tenant = t /\ recipients[r].phone = Asked(c).phone
      BY <1>2, <1>3 DEF HasPhone
    <3>2. CASE /\ r \in DOMAIN OldRecipients
               /\ OldRecipients[r].tenant = t /\ OldRecipients[r].phone = Asked(c).phone
      BY <2>1, <3>1, <3>2 DEF WasTaken
    <3>3. ASSUME NEW d \in Calls, NumberGiven(d, r, t, Asked(c).phone)
          PROVE  WasTaken(c)'
      <4>1. d # c
        BY <1>1, <3>3 DEF NumberGiven, Done, Holding
      <4>2. /\ Asked(d)' = Asked(d) /\ Key(d)' = Key(d) /\ TenantOf(d)' = TenantOf(d)
            /\ (Done(d)' <=> Done(d))
            /\ (Is(d, {"create", "update"})' <=> Is(d, {"create", "update"}))
        BY <2>1, <4>1, SameCall
      <4> QED BY <2>1, <3>1, <3>3, <4>2 DEF WasTaken, NumberGiven
    <3> QED BY <3>1, <3>2, <3>3 DEF RecipientInv, RowsFit
  <2>3. CallFits(c)'
    BY <2>1, <2>2 DEF CallFits, ChangesFit, KeyFits, PhoneFits, ColumnsFit, GrantFits, Holding
  <2> QED BY <1>1, <2>1, <2>3, Unwritten DEF Holding
<1>4. CASE Ends(c, "written") /\ \A r \in DOMAIN recipients \ {Key(c)} : ~HasPhone(r, t, p)
  <2>1. /\ CallsShaped' /\ \A d \in Calls : d # c => work'[d] = work[d]
        /\ work'[c].pc = "written" /\ work'[c].changes = work[c].changes
        /\ Key(c)' = Key(c) /\ TenantOf(c)' = t /\ Kind(c)' = Kind(c)
        /\ UNCHANGED <<recipients, consents, shops, clock>>
    BY <1>1, <1>4, GoingOn DEF Holding
  <2>2. ~Adding(c)'
    BY <1>2, <2>1 DEF Adding
  <2>3. ChangesFit(c)' /\ ColumnsFit(c)' /\ GrantFits(c)' /\ KeyFits(c)'
    BY <1>1, <1>4, <2>2, HoldsOn
  <2>4. PhoneFits(c)'
    BY <1>4, <2>1 DEF PhoneFits, HasPhone
  <2>5. ASSUME NEW d \in Calls, d # c PROVE Apart(c, d)' /\ Apart(d, c)'
    <3>1. /\ work'[d] = work[d] /\ Kind(d)' = Kind(d) /\ TenantOf(d)' = TenantOf(d)
      BY <2>1, <2>5, SameCall
    <3>2. ~HoldsPhone(d, t, p)
      BY <1>1, <2>5 DEF Blockers
    <3>3. Numbering(d) /\ TenantOf(d) = t => work[d].changes.phone # p
      BY <3>2 DEF HoldsPhone, Numbering, Writing, OnConsent, Is, Kind
    <3> QED BY <2>1, <2>2, <3>1, <3>3 DEF Apart, Numbering
  <2>6. CallFits(c)'
    BY <2>3, <2>4 DEF CallFits
  <2> QED BY <1>1, <2>1, <2>5, <2>6, QuietStep DEF Holding
<1> QED BY <1>3, <1>4 DEF PutPhone

LEMMA InsertConsentKeeps ==
  ASSUME RecipientInv, NEW c \in Calls, InsertConsent(c)
  PROVE  RecipientInv'
<1>1. /\ TablesUnchanged /\ work[c].pc = "ready" /\ work[c].adds /\ Blockers(c) = {}
      /\ OnConsent(c) /\ Kind(c) \in {"grant", "revoke"}
  BY DEF InsertConsent, OnConsent, Is, Kind
<1>2. Kind(c) = "grant" /\ DOMAIN work[c].changes = ConsentColumns
  BY <1>1 DEF RecipientInv, CallFits, ChangesFit, Holding
<1>3. CASE Ends(c, "failed")
  BY <1>1, <1>3, EndsBadly
<1>4. CASE Ends(c, "written") /\ Key(c) \notin DOMAIN consents
  <2>1. /\ CallsShaped' /\ \A d \in Calls : d # c => work'[d] = work[d]
        /\ work'[c].pc = "written" /\ work'[c].changes = work[c].changes
        /\ work'[c].adds = work[c].adds /\ Key(c)' = Key(c) /\ Kind(c)' = Kind(c)
        /\ UNCHANGED <<recipients, consents, shops, clock>>
    BY <1>1, <1>4, GoingOn
  <2>2. ChangesFit(c)' /\ ColumnsFit(c)' /\ GrantFits(c)'
    BY <1>1, <1>4, HoldsOn DEF Holding
  <2>3. KeyFits(c)' /\ PhoneFits(c)' /\ ~Numbering(c)'
    BY <1>1, <1>2, <1>4, <2>1 DEF KeyFits, PhoneFits, Numbering, Holding
  <2>4. ASSUME NEW d \in Calls, d # c PROVE Apart(c, d)' /\ Apart(d, c)'
    <3>1. work'[d] = work[d] /\ Kind(d)' = Kind(d) /\ Key(d)' = Key(d)
      BY <2>1, <2>4, SameCall
    <3>2. ~AtPhoneKey(c) /\ DOMAIN work[c].changes # {}
      BY <1>1, <1>2 DEF AtPhoneKey, Is, Kind, ConsentColumns
    <3>3. Adding(d) => Key(d) # Key(c)
      <4>1. Adding(d) => Writing(d)
        BY DEF Adding, Writing, RecipientInv, CallFits, ChangesFit, Holding, ConsentColumns
      <4> QED BY <1>1, <2>4, <3>2, <4>1 DEF Blockers
    <3> QED BY <2>1, <2>3, <3>1, <3>3 DEF Apart, Adding
  <2>5. CallFits(c)'
    BY <2>2, <2>3 DEF CallFits
  <2> QED BY <1>1, <2>1, <2>4, <2>5, QuietStep
<1> QED BY <1>3, <1>4 DEF InsertConsent

LEMMA InsertShopKeeps ==
  ASSUME RecipientInv, NEW c \in Calls, InsertShop(c)
  PROVE  RecipientInv'
<1> DEFINE more == [changes |-> Asked(c), adds |-> TRUE]
<1>1. /\ TablesUnchanged /\ work[c].pc = "begun" /\ Kind(c) = "shop" /\ Goto(c, "written", more)
  BY DEF InsertShop, Is, Kind
<1>2. DOMAIN more = {"changes", "adds"} /\ more.changes = Asked(c) /\ more.adds = TRUE
  OBVIOUS
<1>3. DOMAIN Asked(c) = {"tenant"}
  BY <1>1 DEF Asked, Kind
<1> HIDE DEF more
<1>4. /\ CallsShaped' /\ \A d \in Calls : d # c => work'[d] = work[d]
      /\ work'[c].pc = "written" /\ work'[c].changes = Asked(c) /\ work'[c].adds
      /\ Asked(c)' = Asked(c) /\ Kind(c)' = Kind(c)
  BY <1>1, <1>2, Going
<1>5. CallFits(c)'
  BY <1>1, <1>3, <1>4
  DEF CallFits, ChangesFit, KeyFits, PhoneFits, ColumnsFit, GrantFits, Holding
<1>6. \A d \in Calls : Apart(c, d)' /\ Apart(d, c)'
  BY <1>1, <1>4 DEF Apart, Numbering, Adding
<1> QED BY <1>1, <1>4, <1>5, <1>6, QuietStep

-----------------------------------------------------------------------------
(* The commit *)

\* new is the table after call c's row was put into it.
IsPut(new, table, c) ==
  /\ DOMAIN new = DOMAIN table \cup {Key(c)}
  /\ \A k \in DOMAIN table \ {Key(c)} : new[k] = table[k]
  /\ DOMAIN new[Key(c)] =
       DOMAIN work[c].changes \cup (IF work[c].adds THEN {} ELSE DOMAIN table[Key(c)])
  /\ \A f \in DOMAIN work[c].changes : new[Key(c)][f] = work[c].changes[f]
  /\ ~work[c].adds => \A f \in DOMAIN table[Key(c)] \ DOMAIN work[c].changes :
       new[Key(c)][f] = table[Key(c)][f]

LEMMA PutWrites ==
  ASSUME NEW table, NEW c
  PROVE  IsPut(Put(table, c), table, c)
<1> DEFINE new == Put(table, c)
<1> PICK none : none = <<>>
  OBVIOUS
<1>1. DOMAIN none = {}
  OBVIOUS
<1> DEFINE old == IF work[c].adds THEN none ELSE table[Key(c)]
           row == Onto(work[c].changes, old)
<1>2. /\ DOMAIN row = DOMAIN work[c].changes \cup DOMAIN old
      /\ \A f \in DOMAIN work[c].changes : row[f] = work[c].changes[f]
      /\ \A f \in DOMAIN old \ DOMAIN work[c].changes : row[f] = old[f]
  BY DEF Onto
<1>3. new = [k \in DOMAIN table \cup {Key(c)} |-> IF k = Key(c) THEN row ELSE table[k]]
  BY DEF Put
<1>4. work[c].adds => DOMAIN old = {}
  BY <1>1
<1>5. ~work[c].adds => old = table[Key(c)]
  OBVIOUS
<1> HIDE DEF row, old, new
<1> QED BY <1>2, <1>3, <1>4, <1>5 DEF IsPut, new

LEMMA CommitWrites ==
  ASSUME RecipientInv, NEW c \in Calls, Commit(c)
  PROVE  /\ CallsShaped' /\ \A d \in Calls : d # c => work'[d] = work[d]
         /\ work[c].pc = "written" /\ work'[c].pc = "done" /\ work[c].q \in Wants[c]
         /\ work'[c].changes = work[c].changes /\ work'[c].adds = work[c].adds
         /\ work'[c].since = work[c].since /\ work'[c].until = clock + 1
         /\ Asked(c)' = Asked(c) /\ Key(c)' = Key(c) /\ TenantOf(c)' = TenantOf(c)
         /\ Kind(c)' = Kind(c) /\ (OnConsent(c)' <=> OnConsent(c))
         /\ OnConsent(c) <=> Kind(c) \in {"grant", "revoke"}
         /\ recipients' = IF Kind(c) \in {"create", "update", "deactivate"} THEN Put(recipients, c)
                          ELSE recipients
         /\ consents' = IF Kind(c) \in {"grant", "revoke"} THEN Put(consents, c) ELSE consents
<1> DEFINE more == [until |-> clock']
<1>1. /\ CallsShaped /\ clock \in Nat /\ clock' = clock + 1 /\ work[c].pc = "written"
      /\ Goto(c, "done", more)
  BY DEF RecipientInv, CallsShaped, Commit
<1>2. DOMAIN more = {"until"} /\ more.until = clock'
  OBVIOUS
<1> HIDE DEF more
<1>3. CallsShaped'
  <2>1. DOMAIN more \subseteq Fields \ {"pc"} /\ "q" \notin DOMAIN more /\ "since" \notin DOMAIN more
    BY <1>2 DEF Fields
  <2> QED BY <1>1, <1>2, <2>1, GotoShaped
<1>4. /\ \A d \in Calls : d # c => work'[d] = work[d]
      /\ work'[c].pc = "done" /\ work'[c].q = work[c].q
      /\ work'[c].changes = work[c].changes /\ work'[c].adds = work[c].adds
      /\ work'[c].since = work[c].since /\ work'[c].until = clock'
  BY <1>1, <1>2, GotoWrites DEF Fields
<1>5. /\ Asked(c)' = Asked(c) /\ Key(c)' = Key(c) /\ TenantOf(c)' = TenantOf(c)
      /\ Kind(c)' = Kind(c) /\ (OnConsent(c)' <=> OnConsent(c))
  BY <1>1, <1>4, SameRequest
<1>6. work[c].q \in Wants[c]
  BY <1>1 DEF CallsShaped
<1>7. \A kinds : Is(c, kinds) <=> Kind(c) \in kinds
  BY <1>1 DEF Is, Kind
<1>8. OnConsent(c) <=> Kind(c) \in {"grant", "revoke"}
  BY <1>7 DEF OnConsent
<1>9. /\ recipients' = IF Is(c, {"create", "update", "deactivate"}) THEN Put(recipients, c)
                       ELSE recipients
      /\ consents' = IF OnConsent(c) THEN Put(consents, c) ELSE consents
  BY DEF Commit
<1> QED BY <1>1, <1>3, <1>4, <1>5, <1>6, <1>7, <1>8, <1>9

\* The row of a recipient after a commit.
LEMMA RecipientAfter ==
  ASSUME RecipientInv, NEW c \in Calls, Commit(c),
         Kind(c) \in {"create", "update", "deactivate"}
  PROVE  /\ UNCHANGED consents
         /\ DOMAIN recipients' = DOMAIN recipients \cup {Key(c)}
         /\ \A r \in DOMAIN recipients \ {Key(c)} : recipients'[r] = recipients[r]
         /\ DOMAIN recipients'[Key(c)] = RecipientColumns
         /\ recipients'[Key(c)].tenant = TenantOf(c)
         /\ \A f \in DOMAIN work[c].changes :
              f \in DOMAIN Asked(c) /\ recipients'[Key(c)][f] = Asked(c)[f]
         /\ \A f \in RecipientColumns \ DOMAIN work[c].changes :
              /\ Key(c) \in DOMAIN recipients /\ ~work[c].adds
              /\ recipients'[Key(c)][f] = recipients[Key(c)][f]
<1>1. /\ recipients' = Put(recipients, c) /\ UNCHANGED consents
      /\ work[c].pc = "written" /\ work[c].q \in Wants[c]
  BY CommitWrites
<1>a. IsPut(recipients', recipients, c)
  BY <1>1, PutWrites
<1>2. /\ DOMAIN recipients' = DOMAIN recipients \cup {Key(c)}
      /\ \A k \in DOMAIN recipients \ {Key(c)} : recipients'[k] = recipients[k]
      /\ DOMAIN recipients'[Key(c)] = DOMAIN work[c].changes
           \cup (IF work[c].adds THEN {} ELSE DOMAIN recipients[Key(c)])
      /\ \A f \in DOMAIN work[c].changes : recipients'[Key(c)][f] = work[c].changes[f]
      /\ ~work[c].adds => \A f \in DOMAIN recipients[Key(c)] \ DOMAIN work[c].changes :
           recipients'[Key(c)][f] = recipients[Key(c)][f]
  BY <1>a DEF IsPut
<1>3. ChangesFit(c) /\ KeyFits(c)
  BY DEF RecipientInv, CallFits
<1>4. CASE work[c].adds
  <2>1. /\ Kind(c) = "create" /\ DOMAIN work[c].changes = RecipientColumns
        /\ DOMAIN Asked(c) = RecipientColumns /\ Asked(c).tenant = TenantOf(c)
    BY <1>1, <1>3, <1>4, AskedShape DEF ChangesFit, Holding
  <2>2. \A f \in RecipientColumns : work[c].changes[f] = Asked(c)[f]
    BY <1>1, <1>3, <2>1 DEF ChangesFit, Holding
  <2>3. "tenant" \in RecipientColumns
    BY DEF RecipientColumns
  <2> QED BY <1>1, <1>2, <1>4, <2>1, <2>2, <2>3
<1>5. CASE ~work[c].adds
  <2>1. /\ Kind(c) \in {"update", "deactivate"} /\ DOMAIN work[c].changes \subseteq DOMAIN Asked(c)
        /\ \A f \in DOMAIN work[c].changes : work[c].changes[f] = Asked(c)[f]
        /\ Key(c) \in DOMAIN recipients /\ recipients[Key(c)].tenant = TenantOf(c)
    BY <1>1, <1>3, <1>5 DEF ChangesFit, KeyFits, Holding
  <2>2. DOMAIN recipients[Key(c)] = RecipientColumns
    BY <2>1 DEF RecipientInv, RowsFit
  <2>3. DOMAIN Asked(c) \subseteq RecipientColumns \ {"tenant"} /\ "tenant" \in RecipientColumns
    BY <1>1, <2>1, AskedShape DEF RecipientColumns
  <2> QED BY <1>1, <1>2, <1>5, <2>1, <2>2, <2>3
<1> QED BY <1>4, <1>5

\* And that of a consent.
LEMMA ConsentAfter ==
  ASSUME RecipientInv, NEW c \in Calls, Commit(c), Kind(c) \in {"grant", "revoke"}
  PROVE  /\ UNCHANGED recipients
         /\ DOMAIN consents' = DOMAIN consents \cup {Key(c)}
         /\ \A k \in DOMAIN consents \ {Key(c)} : consents'[k] = consents[k]
         /\ DOMAIN consents'[Key(c)] = ConsentColumns
         /\ \A f \in DOMAIN work[c].changes \ {"tenant"} :
              f \in DOMAIN Asked(c) /\ consents'[Key(c)][f] = Asked(c)[f]
         /\ \A f \in ConsentColumns \ DOMAIN work[c].changes :
              Key(c) \in DOMAIN consents /\ consents'[Key(c)][f] = consents[Key(c)][f]
         /\ IF work[c].adds
            THEN Key(c) \notin DOMAIN consents /\ Kind(c) = "grant"
                 /\ DOMAIN work[c].changes = ConsentColumns
            ELSE Key(c) \in DOMAIN consents /\ "tenant" \notin DOMAIN work[c].changes
         /\ Kind(c) = "revoke" => "revoked" \in DOMAIN work[c].changes
<1>1. /\ consents' = Put(consents, c) /\ UNCHANGED recipients
      /\ work[c].pc = "written" /\ work[c].q \in Wants[c]
  BY CommitWrites
<1>a. IsPut(consents', consents, c)
  BY <1>1, PutWrites
<1>2. /\ DOMAIN consents' = DOMAIN consents \cup {Key(c)}
      /\ \A k \in DOMAIN consents \ {Key(c)} : consents'[k] = consents[k]
      /\ DOMAIN consents'[Key(c)] = DOMAIN work[c].changes
           \cup (IF work[c].adds THEN {} ELSE DOMAIN consents[Key(c)])
      /\ \A f \in DOMAIN work[c].changes : consents'[Key(c)][f] = work[c].changes[f]
      /\ ~work[c].adds => \A f \in DOMAIN consents[Key(c)] \ DOMAIN work[c].changes :
           consents'[Key(c)][f] = consents[Key(c)][f]
  BY <1>a DEF IsPut
<1>3. ChangesFit(c) /\ KeyFits(c)
  BY DEF RecipientInv, CallFits
<1>4. DOMAIN Asked(c) \subseteq ConsentColumns \ {"tenant"}
      /\ (Kind(c) = "grant" => DOMAIN Asked(c) = ConsentColumns \ {"tenant"})
  BY <1>1, AskedShape DEF ConsentColumns
<1>5. CASE work[c].adds
  <2>1. /\ Kind(c) = "grant" /\ DOMAIN work[c].changes = ConsentColumns
        /\ Key(c) \notin DOMAIN consents
    BY <1>1, <1>3, <1>5 DEF ChangesFit, KeyFits, Holding
  <2>2. \A f \in DOMAIN work[c].changes \ {"tenant"} :
          f \in DOMAIN Asked(c) /\ work[c].changes[f] = Asked(c)[f]
    BY <1>1, <1>3, <1>4, <2>1 DEF ChangesFit, Holding
  <2> QED BY <1>1, <1>2, <1>5, <2>1, <2>2
<1>6. CASE ~work[c].adds
  <2>1. /\ DOMAIN work[c].changes \subseteq DOMAIN Asked(c)
        /\ \A f \in DOMAIN work[c].changes : work[c].changes[f] = Asked(c)[f]
        /\ Key(c) \in DOMAIN consents
        /\ Kind(c) = "revoke" => "revoked" \in DOMAIN work[c].changes
    BY <1>1, <1>3, <1>6 DEF ChangesFit, KeyFits, Holding
  <2>2. DOMAIN consents[Key(c)] = ConsentColumns
    BY <2>1 DEF RecipientInv, ConsentsFit
  <2> QED BY <1>1, <1>2, <1>4, <1>6, <2>1, <2>2
<1> QED BY <1>5, <1>6

\* Who was done stays so.
LEMMA StillDone ==
  ASSUME RecipientInv, NEW c \in Calls, Commit(c), NEW d \in Calls, Done(d)
  PROVE  /\ d # c /\ Done(d)' /\ work'[d] = work[d]
         /\ Asked(d)' = Asked(d) /\ Key(d)' = Key(d) /\ TenantOf(d)' = TenantOf(d)
         /\ \A kinds : Is(d, kinds)' <=> Is(d, kinds)
<1>1. d # c /\ work'[d] = work[d]
  BY CommitWrites DEF Done
<1> QED BY <1>1, SameCall

\* A call writes a row of its user's tenant.
LEMMA OwnTenant ==
  ASSUME RecipientInv, NEW c \in Calls, Commit(c),
         Kind(c) \in {"create", "update", "deactivate"}, Key(c) \in DOMAIN recipients
  PROVE  recipients[Key(c)].tenant = TenantOf(c)
<1>1. work[c].pc = "written"
  BY CommitWrites
<1>2. CASE Kind(c) = "create"
  <2>1. Key(c) = c
    BY <1>1, <1>2, KeyIs DEF KeyOf, Kind
  <2> QED BY <1>1, <2>1, Unnamed
<1>3. CASE Kind(c) \in {"update", "deactivate"}
  BY <1>1, <1>3 DEF KeyFits, Holding, RecipientInv, CallFits
<1> QED BY <1>2, <1>3

LEMMA CommitRows ==
  ASSUME RecipientInv, NEW c \in Calls, Commit(c)
  PROVE  RowsFit' /\ NumbersApart'
<1> PICK k : k = Key(c)
  OBVIOUS
<1>1. /\ work[c].pc = "written" /\ work'[c].pc = "done" /\ work[c].q \in Wants[c]
      /\ Asked(c)' = Asked(c) /\ Key(c)' = k /\ TenantOf(c)' = TenantOf(c) /\ Kind(c)' = Kind(c)
  BY CommitWrites
<1>2. \A d \in Calls : \A r, t, p : NumberGiven(d, r, t, p) => NumberGiven(d, r, t, p)'
  BY StillDone DEF NumberGiven
<1>3. \A r \in Calls : Done(r) /\ Is(r, {"create"}) => Done(r)' /\ Is(r, {"create"})'
  BY StillDone
<1>4. CASE UNCHANGED recipients
  <2>1. RowsFit'
    BY <1>2, <1>3, <1>4 DEF RecipientInv, RowsFit
  <2>2. NumbersApart'
    BY <1>4 DEF RecipientInv, NumbersApart
  <2> QED BY <2>1, <2>2
<1>5. CASE Kind(c) \in {"create", "update", "deactivate"}
  <2>1. /\ DOMAIN recipients' = DOMAIN recipients \cup {k}
        /\ \A r \in DOMAIN recipients \ {k} : recipients'[r] = recipients[r]
        /\ DOMAIN recipients'[k] = RecipientColumns
        /\ recipients'[k].tenant = TenantOf(c)
        /\ \A f \in DOMAIN work[c].changes :
             f \in DOMAIN Asked(c) /\ recipients'[k][f] = Asked(c)[f]
        /\ \A f \in RecipientColumns \ DOMAIN work[c].changes :
             /\ k \in DOMAIN recipients /\ ~work[c].adds
             /\ recipients'[k][f] = recipients[k][f]
    BY <1>5, RecipientAfter
  <2>2. "phone" \in RecipientColumns /\ "tenant" \in RecipientColumns
    BY DEF RecipientColumns
  <2>3. ChangesFit(c) /\ KeyFits(c) /\ PhoneFits(c) /\ RowsFit /\ NumbersApart
    BY DEF RecipientInv, CallFits
  <2>4. k \in DOMAIN recipients => recipients[k].tenant = TenantOf(c)
    BY <1>5, OwnTenant
  <2>5. "phone" \in DOMAIN work[c].changes => Kind(c) \in {"create", "update"}
    BY <1>1, <1>5, <2>1, AskedShape
  <2>6. NumbersApart'
    <3> SUFFICES ASSUME NEW r \in DOMAIN recipients', NEW s \in DOMAIN recipients', r # s,
                        recipients'[r].tenant = recipients'[s].tenant,
                        recipients'[r].phone = recipients'[s].phone
                 PROVE  FALSE
      BY DEF NumbersApart
    <3>1. CASE "phone" \in DOMAIN work[c].changes
      <4>1. \A x \in DOMAIN recipients \ {k} : ~HasPhone(x, TenantOf(c), work[c].changes.phone)
        BY <1>1, <2>3, <2>5, <3>1 DEF PhoneFits
      <4>2. recipients'[k].phone = work[c].changes.phone
        BY <1>1, <2>1, <2>3, <3>1 DEF ChangesFit, Holding
      <4>3. \A x \in DOMAIN recipients \ {k} :
              ~(recipients[x].tenant = TenantOf(c) /\ recipients[x].phone = work[c].changes.phone)
        BY <4>1 DEF HasPhone
      <4> QED BY <2>1, <2>3, <4>2, <4>3 DEF NumbersApart
    <3>2. CASE "phone" \notin DOMAIN work[c].changes
      <4>1. k \in DOMAIN recipients /\ recipients'[k].phone = recipients[k].phone
        BY <2>1, <2>2, <3>2
      <4> QED BY <2>1, <2>3, <2>4, <4>1 DEF NumbersApart
    <3> QED BY <3>1, <3>2
  <2>7. ASSUME NEW r \in DOMAIN recipients', NEW t, NEW p,
               t = recipients'[r].tenant, p = recipients'[r].phone
        PROVE  /\ DOMAIN recipients'[r] = RecipientColumns
               /\ r \in DOMAIN OldRecipients \/ (r \in Calls /\ Done(r)' /\ Is(r, {"create"})')
               /\ \/ /\ r \in DOMAIN OldRecipients
                     /\ OldRecipients[r].tenant = t /\ OldRecipients[r].phone = p
                  \/ \E d \in Calls : NumberGiven(d, r, t, p)'
    <3>1. CASE r # k
      <4>1. r \in DOMAIN recipients /\ recipients'[r] = recipients[r]
        BY <2>1, <3>1
      <4> QED BY <1>2, <1>3, <2>3, <2>7, <4>1 DEF RowsFit
    <3>2. CASE r = k
      <4>1. r \in DOMAIN OldRecipients \/ (r \in Calls /\ Done(r)' /\ Is(r, {"create"})')
        <5>1. CASE Kind(c) = "create"
          <6>1. r = c
            BY <1>1, <3>2, <5>1, KeyIs DEF KeyOf, Kind
          <6>2. Done(c)' /\ Is(c, {"create"})'
            BY <1>1, <5>1 DEF Is, Kind, Done
          <6> QED BY <6>1, <6>2
        <5>2. CASE Kind(c) \in {"update", "deactivate"}
          <6>1. r \in DOMAIN recipients
            BY <1>1, <2>3, <3>2, <5>2 DEF KeyFits, Holding
          <6> QED BY <1>3, <2>3, <6>1 DEF RowsFit
        <5> QED BY <1>5, <5>1, <5>2
      <4>2. CASE "phone" \in DOMAIN work[c].changes
        <5>1. /\ "phone" \in DOMAIN Asked(c) /\ p = Asked(c).phone /\ t = TenantOf(c)
              /\ Kind(c) \in {"create", "update"}
          BY <2>1, <2>5, <2>7, <3>2, <4>2
        <5>2. NumberGiven(c, k, t, p)'
          BY <1>1, <5>1 DEF NumberGiven, Done, Is, Kind
        <5> QED BY <2>1, <3>2, <4>1, <5>2
      <4>3. CASE "phone" \notin DOMAIN work[c].changes
        <5>1. k \in DOMAIN recipients /\ p = recipients[k].phone /\ t = recipients[k].tenant
          BY <2>1, <2>2, <2>4, <2>7, <3>2, <4>3
        <5> QED BY <1>2, <2>1, <2>3, <3>2, <4>1, <5>1 DEF RowsFit
      <4> QED BY <4>2, <4>3
    <3> QED BY <3>1, <3>2
  <2>8. RowsFit'
    BY <2>7 DEF RowsFit, NumberGiven
  <2> QED BY <2>6, <2>8
<1> QED BY <1>4, <1>5, CommitWrites

LEMMA CommitConsents ==
  ASSUME RecipientInv, NEW c \in Calls, Commit(c)
  PROVE  ConsentsFit'
<1> PICK k : k = Key(c)
  OBVIOUS
<1>1. /\ work[c].pc = "written" /\ work'[c].pc = "done" /\ work[c].q \in Wants[c]
      /\ Key(c)' = k /\ Kind(c)' = Kind(c)
  BY CommitWrites
<1>2. ASSUME NEW x, NEW e,
             \/ e = None
             \/ e \notin Calls /\ RevokedBefore(x)
             \/ e \in Calls /\ Done(e) /\ Is(e, {"revoke"}) /\ Key(e) = x
      PROVE  \/ e = None
             \/ e \notin Calls /\ RevokedBefore(x)
             \/ e \in Calls /\ Done(e)' /\ Is(e, {"revoke"})' /\ Key(e)' = x
  BY <1>2, StillDone
<1>3. CASE UNCHANGED consents
  BY <1>2, <1>3 DEF RecipientInv, ConsentsFit, RevokedBefore
<1>4. CASE Kind(c) \in {"grant", "revoke"}
  <2>1. /\ DOMAIN consents' = DOMAIN consents \cup {k}
        /\ \A x \in DOMAIN consents \ {k} : consents'[x] = consents[x]
        /\ DOMAIN consents'[k] = ConsentColumns
        /\ \A f \in DOMAIN work[c].changes \ {"tenant"} :
             f \in DOMAIN Asked(c) /\ consents'[k][f] = Asked(c)[f]
        /\ \A f \in ConsentColumns \ DOMAIN work[c].changes :
             k \in DOMAIN consents /\ consents'[k][f] = consents[k][f]
    BY <1>4, ConsentAfter
  <2> PICK e : e = consents'[k].revoked
    OBVIOUS
  <2>2. \/ e = None
        \/ e \notin Calls /\ RevokedBefore(k)
        \/ e \in Calls /\ Done(e)' /\ Is(e, {"revoke"})' /\ Key(e)' = k
    <3>1. CASE "revoked" \in DOMAIN work[c].changes
      <4>1. e = Asked(c).revoked
        BY <2>1, <3>1
      <4>2. CASE Kind(c) = "grant"
        BY <1>1, <4>1, <4>2, AskedShape
      <4>3. CASE Kind(c) = "revoke"
        <5>1. e = c
          BY <1>1, <4>1, <4>3, AskedShape
        <5>2. Done(c)' /\ Is(c, {"revoke"})'
          BY <1>1, <4>3 DEF Done, Is, Kind
        <5> QED BY <1>1, <5>1, <5>2
      <4> QED BY <1>4, <4>2, <4>3
    <3>2. CASE "revoked" \notin DOMAIN work[c].changes
      <4>1. k \in DOMAIN consents /\ e = consents[k].revoked
        BY <2>1, <3>2 DEF ConsentColumns
      <4>2. \/ e = None
            \/ e \notin Calls /\ RevokedBefore(k)
            \/ e \in Calls /\ Done(e) /\ Is(e, {"revoke"}) /\ Key(e) = k
        BY <4>1 DEF RecipientInv, ConsentsFit
      <4> QED BY <1>2, <4>2
    <3> QED BY <3>1, <3>2
  <2>3. ASSUME NEW x \in DOMAIN consents', NEW f, f = consents'[x].revoked, x # k
        PROVE  /\ DOMAIN consents'[x] = ConsentColumns
               /\ \/ f = None
                  \/ f \notin Calls /\ RevokedBefore(x)
                  \/ f \in Calls /\ Done(f)' /\ Is(f, {"revoke"})' /\ Key(f)' = x
    <3>1. x \in DOMAIN consents /\ consents'[x] = consents[x]
      BY <2>1, <2>3
    <3>2. \/ f = None
          \/ f \notin Calls /\ RevokedBefore(x)
          \/ f \in Calls /\ Done(f) /\ Is(f, {"revoke"}) /\ Key(f) = x
      BY <2>3, <3>1 DEF RecipientInv, ConsentsFit
    <3>3. DOMAIN consents'[x] = ConsentColumns
      BY <3>1 DEF RecipientInv, ConsentsFit
    <3> QED BY <1>2, <3>2, <3>3
  <2>4. ASSUME NEW x \in DOMAIN consents', NEW f, f = consents'[x].revoked
        PROVE  /\ DOMAIN consents'[x] = ConsentColumns
               /\ \/ f = None
                  \/ f \notin Calls /\ RevokedBefore(x)
                  \/ f \in Calls /\ Done(f)' /\ Is(f, {"revoke"})' /\ Key(f)' = x
    BY <2>1, <2>2, <2>3, <2>4
  <2> QED BY <2>4 DEF ConsentsFit, RevokedBefore, Key, Done, Is, OnConsent
<1> QED BY <1>3, <1>4, CommitWrites

\* Rows stay, and keep their tenant.
LEMMA RowsStay ==
  ASSUME RecipientInv, NEW c \in Calls, Commit(c)
  PROVE  /\ \A r \in DOMAIN recipients :
              r \in DOMAIN recipients' /\ recipients'[r].tenant = recipients[r].tenant
         /\ DOMAIN consents \subseteq DOMAIN consents'
         /\ \A k \in DOMAIN consents' \ DOMAIN consents : Adding(c) /\ k = Key(c)
<1>1. work[c].pc = "written"
  BY CommitWrites
<1>2. CASE Kind(c) \in {"create", "update", "deactivate"}
  <2>1. Key(c) \in DOMAIN recipients => recipients[Key(c)].tenant = TenantOf(c)
    BY <1>2, OwnTenant
  <2> QED BY <1>2, <2>1, RecipientAfter
<1>3. CASE Kind(c) \in {"grant", "revoke"}
  <2>1. UNCHANGED recipients /\ DOMAIN consents' = DOMAIN consents \cup {Key(c)}
    BY <1>3, ConsentAfter
  <2>2. Key(c) \notin DOMAIN consents => work[c].adds /\ Kind(c) = "grant"
    BY <1>3, ConsentAfter
  <2> QED BY <1>1, <2>1, <2>2 DEF Adding
<1>4. CASE UNCHANGED <<recipients, consents>>
  BY <1>4
<1> QED BY <1>2, <1>3, <1>4, CommitWrites

\* A column of the row of another call is as it was, or as c asked for.
LEMMA RowAfter ==
  ASSUME RecipientInv, NEW c \in Calls, Commit(c), NEW d \in Calls, d # c, Kind(d) # "shop",
         work[d].pc = "done" \/ (work[d].pc \in Holding /\ ~work[d].adds),
         NEW f \in DOMAIN Asked(d)
  PROVE  \/ Row(d)'[f] = Row(d)[f]
         \/ /\ Key(d) = Key(c) /\ f \in DOMAIN work[c].changes /\ f \in DOMAIN Asked(c)
            /\ Row(d)'[f] = Asked(c)[f]
<1> PICK k, x : k = Key(d) /\ x = Key(c)
  OBVIOUS
<1>1. work'[d] = work[d] /\ work[d].pc # "idle" /\ work[d].q \in Wants[d]
  BY CommitWrites DEF RecipientInv, CallsShaped, Holding
<1>2. /\ Kind(d)' = Kind(d) /\ Key(d)' = k /\ (OnConsent(d)' <=> OnConsent(d))
      /\ OnConsent(d) <=> Kind(d) \in {"grant", "revoke"}
  BY <1>1, SameCall DEF OnConsent, Is, Kind
<1>3. ChangesFit(d) /\ KeyFits(d)
  BY DEF RecipientInv, CallFits
<1>4. CASE OnConsent(d)
  <2>1. k \in DOMAIN consents /\ f \in ConsentColumns \ {"tenant"}
    BY <1>1, <1>2, <1>3, <1>4, AskedShape DEF KeyFits, ConsentColumns
  <2>2. Row(d) = consents[k] /\ Row(d)' = consents'[k]
    BY <1>2, <1>4 DEF Row
  <2>3. CASE Kind(c) \in {"grant", "revoke"}
    <3>1. CASE k = x
      BY <2>1, <2>2, <2>3, <3>1, ConsentAfter
    <3>2. CASE k # x
      BY <2>1, <2>2, <2>3, <3>2, ConsentAfter
    <3> QED BY <3>1, <3>2
  <2>4. CASE Kind(c) \notin {"grant", "revoke"}
    BY <2>2, <2>4, CommitWrites
  <2> QED BY <2>3, <2>4
<1>5. CASE ~OnConsent(d)
  <2>1. Kind(d) \in {"create", "update", "deactivate"}
    BY <1>1, <1>2, <1>5, AskedShape
  <2>2. k \in DOMAIN recipients
    BY <1>1, <1>3, <2>1 DEF KeyFits, ChangesFit
  <2>3. f \in RecipientColumns
    BY <1>1, <2>1, AskedShape DEF RecipientColumns
  <2>4. Row(d) = recipients[k] /\ Row(d)' = recipients'[k]
    BY <1>2, <1>5 DEF Row
  <2>5. CASE Kind(c) \in {"create", "update", "deactivate"}
    <3>1. CASE k = x
      <4>1. /\ \A g \in DOMAIN work[c].changes :
                 g \in DOMAIN Asked(c) /\ recipients'[x][g] = Asked(c)[g]
            /\ \A g \in RecipientColumns \ DOMAIN work[c].changes :
                 recipients'[x][g] = recipients[x][g]
        BY <2>5, RecipientAfter
      <4> QED BY <2>3, <2>4, <3>1, <4>1
    <3>2. CASE k # x
      BY <2>2, <2>4, <2>5, <3>2, RecipientAfter
    <3> QED BY <3>1, <3>2
  <2>6. CASE Kind(c) \notin {"create", "update", "deactivate"}
    BY <2>4, <2>6, CommitWrites
  <2> QED BY <2>5, <2>6
<1> QED BY <1>4, <1>5

\* What another call holds or has done still fits.
LEMMA CommitOthers ==
  ASSUME RecipientInv, NEW c \in Calls, Commit(c), NEW d \in Calls, d # c
  PROVE  CallFits(d)'
<1> PICK t, k : t = TenantOf(d) /\ k = Key(d)
  OBVIOUS
<1>1. /\ work'[d] = work[d] /\ work[c].pc = "written" /\ Done(c)'
      /\ work'[c].until = clock + 1 /\ Key(c)' = Key(c) /\ Asked(c)' = Asked(c)
  BY CommitWrites DEF Done
<1>2. /\ Asked(d)' = Asked(d) /\ Key(d)' = k /\ TenantOf(d)' = t /\ Kind(d)' = Kind(d)
      /\ (Done(d)' <=> Done(d)) /\ (OnConsent(d)' <=> OnConsent(d))
  BY <1>1, SameCall
<1>3. ChangesFit(d) /\ KeyFits(d) /\ PhoneFits(d) /\ ColumnsFit(d) /\ GrantFits(d)
  BY DEF RecipientInv, CallFits
<1>4. Apart(c, d)
  BY DEF RecipientInv
<1>5. ChangesFit(d)'
  BY <1>1, <1>2, <1>3 DEF ChangesFit
<1>6. KeyFits(d)'
  <2>1. Adding(d) => k \notin DOMAIN consents'
    BY <1>3, <1>4, RowsStay DEF Apart, Adding, KeyFits
  <2> QED BY <1>1, <1>2, <1>3, <2>1, RowsStay DEF KeyFits, Adding
<1>7. PhoneFits(d)'
  <2>1. WasTaken(d) => WasTaken(d)'
    BY <1>2, StillDone DEF WasTaken
  <2>2. ASSUME Numbering(d), NEW r \in DOMAIN recipients', r # k,
               recipients'[r].tenant = t, recipients'[r].phone = work[d].changes.phone
        PROVE  FALSE
    <3>1. \A x \in DOMAIN recipients \ {k} :
            ~(recipients[x].tenant = t /\ recipients[x].phone = work[d].changes.phone)
      BY <1>3, <2>2 DEF PhoneFits, HasPhone, Numbering
    <3>2. CASE Kind(c) \notin {"create", "update", "deactivate"} \/ r # Key(c)
      <4>1. r \in DOMAIN recipients /\ recipients'[r] = recipients[r]
        <5>1. CASE Kind(c) \notin {"create", "update", "deactivate"}
          BY <5>1, CommitWrites
        <5>2. CASE Kind(c) \in {"create", "update", "deactivate"} /\ r # Key(c)
          BY <5>2, RecipientAfter
        <5> QED BY <3>2, <5>1, <5>2
      <4> QED BY <2>2, <3>1, <4>1
    <3>3. CASE Kind(c) \in {"create", "update", "deactivate"} /\ r = Key(c)
      <4>1. /\ recipients'[r].tenant = TenantOf(c)
            /\ \A f \in DOMAIN work[c].changes :
                 f \in DOMAIN Asked(c) /\ recipients'[r][f] = Asked(c)[f]
            /\ \A f \in RecipientColumns \ DOMAIN work[c].changes :
                 r \in DOMAIN recipients /\ recipients'[r][f] = recipients[r][f]
        BY <3>3, RecipientAfter
      <4>2. CASE "phone" \in DOMAIN work[c].changes
        <5>1. work[c].changes.phone = Asked(c).phone
          BY <1>1, <4>1, <4>2 DEF RecipientInv, CallFits, ChangesFit, Holding
        <5>2. Numbering(c)
          <6>1. work[c].q \in Wants[c]
            BY CommitWrites
          <6> QED BY <1>1, <3>3, <4>1, <4>2, <6>1, AskedShape DEF Numbering
        <5> QED BY <1>4, <2>2, <4>1, <4>2, <5>1, <5>2 DEF Apart
      <4>3. CASE "phone" \notin DOMAIN work[c].changes
        <5>1. r \in DOMAIN recipients /\ recipients'[r].phone = recipients[r].phone
          BY <4>1, <4>3 DEF RecipientColumns
        <5> QED BY <2>2, <3>1, <5>1, RowsStay
      <4> QED BY <4>2, <4>3
    <3> QED BY <3>2, <3>3
  <2> QED BY <1>1, <1>2, <1>3, <2>1, <2>2 DEF PhoneFits, HasPhone, Numbering
<1>8. ColumnsFit(d)'
  <2>1. ASSUME Kind(d) # "shop", work[d].pc = "done" \/ (work[d].pc \in Holding /\ ~work[d].adds),
               NEW f \in DOMAIN Asked(d), Prevails(d, f)
        PROVE  Prevails(d, f)'
    <3>1. CASE Row(d)'[f] = Row(d)[f]
      <4>1. \A e \in Calls : Overwrote(e, d, f) => Overwrote(e, d, f)'
        BY <1>1, <1>2, <3>1, StillDone DEF Overwrote
      <4> QED BY <1>2, <2>1, <3>1, <4>1 DEF Prevails
    <3>2. CASE Key(d) = Key(c) /\ f \in DOMAIN Asked(c) /\ Row(d)'[f] = Asked(c)[f]
      <4>1. work'[c].until > work'[d].since
        BY <1>1 DEF RecipientInv, CallsShaped
      <4>2. Overwrote(c, d, f)'
        BY <1>1, <1>2, <3>2, <4>1 DEF Overwrote
      <4> QED BY <4>2 DEF Prevails
    <3> QED BY <2>1, <3>1, <3>2, RowAfter
  <2> QED BY <1>1, <1>2, <1>3, <2>1 DEF ColumnsFit
<1>9. GrantFits(d)'
  <2>1. RevocationRead(d) => RevocationRead(d)'
    BY <1>1, <1>2, StillDone DEF RevocationRead, RevokedBefore
  <2> QED BY <1>1, <1>2, <1>3, <2>1 DEF GrantFits
<1> QED BY <1>5, <1>6, <1>7, <1>8, <1>9 DEF CallFits

\* What the call that commits has done fits.
LEMMA CommitOwn ==
  ASSUME RecipientInv, NEW c \in Calls, Commit(c)
  PROVE  CallFits(c)'
<1> PICK k : k = Key(c)
  OBVIOUS
<1>1. /\ work[c].pc = "written" /\ work'[c].pc = "done" /\ work[c].q \in Wants[c]
      /\ work'[c].since = work[c].since
      /\ Asked(c)' = Asked(c) /\ Key(c)' = k /\ TenantOf(c)' = TenantOf(c) /\ Kind(c)' = Kind(c)
      /\ (OnConsent(c)' <=> OnConsent(c)) /\ (OnConsent(c) <=> Kind(c) \in {"grant", "revoke"})
  BY CommitWrites
<1>2. ChangesFit(c) /\ KeyFits(c) /\ ColumnsFit(c)
  BY DEF RecipientInv, CallFits
<1>3. ChangesFit(c)' /\ PhoneFits(c)' /\ GrantFits(c)'
  BY <1>1 DEF ChangesFit, PhoneFits, GrantFits, Holding
<1>4. KeyFits(c)'
  <2>1. Kind(c) \in {"create", "update", "deactivate"} =>
          k \in DOMAIN recipients' /\ recipients'[k].tenant = TenantOf(c)
    BY RecipientAfter
  <2>2. Kind(c) \in {"grant", "revoke"} => k \in DOMAIN consents'
    BY ConsentAfter
  <2> QED BY <1>1, <2>1, <2>2 DEF KeyFits, Holding
<1>5. ColumnsFit(c)'
  <2> SUFFICES ASSUME Kind(c) # "shop", NEW f \in DOMAIN Asked(c)
               PROVE  Prevails(c, f)'
    BY <1>1 DEF ColumnsFit, Holding
  <2>1. Kind(c) \in {"create", "update", "deactivate", "grant", "revoke"}
    BY <1>1, AskedShape
  <2>2. CASE f \in DOMAIN work[c].changes
    <3>1. CASE OnConsent(c)
      <4>1. f # "tenant"
        BY <1>1, <3>1, AskedShape DEF ConsentColumns
      <4>2. consents'[k][f] = Asked(c)[f]
        BY <1>1, <2>2, <3>1, <4>1, ConsentAfter
      <4> QED BY <1>1, <3>1, <4>2 DEF Prevails, Row
    <3>2. CASE ~OnConsent(c)
      <4>1. recipients'[k][f] = Asked(c)[f]
        BY <1>1, <2>1, <2>2, <3>2, RecipientAfter
      <4> QED BY <1>1, <3>2, <4>1 DEF Prevails, Row
    <3> QED BY <3>1, <3>2
  <2>3. CASE f \notin DOMAIN work[c].changes
    <3>1. ~work[c].adds
      BY <1>1, <1>2, <2>3, AskedShape DEF ChangesFit, Holding
    <3>2. Prevails(c, f)
      BY <1>1, <1>2, <2>3, <3>1 DEF ColumnsFit, Holding
    <3>3. Row(c)'[f] = Row(c)[f]
      <4>1. CASE OnConsent(c)
        <5>1. f \in ConsentColumns \ DOMAIN work[c].changes
          BY <1>1, <2>3, <4>1, AskedShape DEF ConsentColumns
        <5>2. \A g \in ConsentColumns \ DOMAIN work[c].changes :
                Key(c) \in DOMAIN consents /\ consents'[Key(c)][g] = consents[Key(c)][g]
          BY <1>1, <4>1, ConsentAfter
        <5> QED BY <1>1, <4>1, <5>1, <5>2 DEF Row
      <4>2. CASE ~OnConsent(c)
        <5>1. f \in RecipientColumns \ DOMAIN work[c].changes
          BY <1>1, <2>1, <2>3, <4>2, AskedShape DEF RecipientColumns
        <5>2. \A g \in RecipientColumns \ DOMAIN work[c].changes :
                /\ Key(c) \in DOMAIN recipients /\ ~work[c].adds
                /\ recipients'[Key(c)][g] = recipients[Key(c)][g]
          BY <1>1, <2>1, <4>2, RecipientAfter
        <5> QED BY <1>1, <4>2, <5>1, <5>2 DEF Row
      <4> QED BY <4>1, <4>2
    <3>4. \A d \in Calls : Overwrote(d, c, f) => Overwrote(d, c, f)'
      BY <1>1, <3>3, StillDone DEF Overwrote
    <3> QED BY <1>1, <3>2, <3>3, <3>4 DEF Prevails
  <2> QED BY <2>2, <2>3
<1> QED BY <1>3, <1>4, <1>5 DEF CallFits

\* If a commit ends a revocation, it is that of a grant that had read one.
LEMMA CommitRevocations ==
  ASSUME RecipientInv, NEW c \in Calls, Commit(c)
  PROVE  RevocationHolds'
<1>1. /\ work[c].pc = "written" /\ work[c].q \in Wants[c] /\ Done(c)'
      /\ work'[c].until = clock + 1 /\ work'[c].since = work[c].since
      /\ Key(c)' = Key(c) /\ Kind(c)' = Kind(c)
      /\ (OnConsent(c)' <=> OnConsent(c)) /\ (OnConsent(c) <=> Kind(c) \in {"grant", "revoke"})
      /\ \A kinds : Is(c, kinds)' <=> Kind(c) \in kinds
  BY CommitWrites DEF Done, Is, Kind
<1> SUFFICES ASSUME NEW x \in Calls, Done(x)', Is(x, {"revoke"})', Row(x)'.revoked = None
             PROVE  \E d \in Calls :
                      /\ Done(d)' /\ Is(d, {"grant"})' /\ Key(d)' = Key(x)'
                      /\ work'[d].until > work'[x].until
                      /\ \/ RevokedBefore(Key(x)')
                         \/ \E e \in Calls : /\ Done(e)' /\ Is(e, {"revoke"})' /\ Key(e)' = Key(x)'
                                             /\ work'[e].until <= work'[d].since
  BY DEF RevocationHolds, RevokedBefore
<1> PICK k : k = Key(x)
  OBVIOUS
<1>2. x # c
  <2> SUFFICES ASSUME x = c PROVE FALSE
    OBVIOUS
  <2>1. Kind(c) = "revoke"
    BY <1>1
  <2>2. "revoked" \in DOMAIN work[c].changes /\ consents'[Key(c)].revoked = Asked(c).revoked
    BY <2>1, ConsentAfter
  <2>3. Asked(c).revoked = c /\ Row(c)' = consents'[Key(c)]
    BY <1>1, <2>1, AskedShape DEF Row
  <2> QED BY <2>2, <2>3, RecipientAssumption
<1>3. /\ work'[x] = work[x] /\ Done(x) /\ Is(x, {"revoke"}) /\ Key(x)' = k
      /\ Kind(x) = "revoke" /\ work[x].q \in Wants[x] /\ Row(x) = consents[k]
  <2>1. work'[x] = work[x]
    BY <1>2, CommitWrites
  <2>2. Done(x) /\ Is(x, {"revoke"}) /\ Key(x)' = k
    BY <2>1, SameCall
  <2> QED BY <2>1, <2>2 DEF Done, Is, Kind, Row, OnConsent, RecipientInv, CallsShaped
<1>4. k \in DOMAIN consents
  BY <1>3 DEF RecipientInv, CallFits, KeyFits, Done
<1>5. CASE Row(x).revoked = None
  <2>1. PICK d \in Calls :
          /\ Done(d) /\ Is(d, {"grant"}) /\ Key(d) = k /\ work[d].until > work[x].until
          /\ \/ RevokedBefore(k)
             \/ \E e \in Calls : /\ Done(e) /\ Is(e, {"revoke"}) /\ Key(e) = k
                                 /\ work[e].until <= work[d].since
    BY <1>3, <1>5 DEF RecipientInv, RevocationHolds
  <2>2. /\ Done(d)' /\ Is(d, {"grant"})' /\ Key(d)' = k /\ work'[d] = work[d]
    BY <2>1, StillDone
  <2>3. ASSUME NEW e \in Calls, Done(e), Is(e, {"revoke"}), Key(e) = k
        PROVE  Done(e)' /\ Is(e, {"revoke"})' /\ Key(e)' = k /\ work'[e] = work[e]
    BY <2>3, StillDone
  <2> QED BY <1>3, <2>1, <2>2, <2>3
<1>6. CASE Row(x).revoked # None
  <2>1. "revoked" \in DOMAIN Asked(x)
    BY <1>3, AskedShape
  <2>2. /\ Key(c) = k /\ "revoked" \in DOMAIN work[c].changes
        /\ "revoked" \in DOMAIN Asked(c) /\ Asked(c).revoked = None
    BY <1>2, <1>3, <1>6, <2>1, RowAfter DEF Done
  <2>3. Kind(c) = "grant"
    BY <1>1, <2>2, AskedShape, RecipientAssumption DEF RecipientColumns
  <2>4. ~work[c].adds
    BY <1>1, <1>4, <2>2, <2>3 DEF RecipientInv, CallFits, KeyFits
  <2>5. RevocationRead(c)
    BY <1>1, <2>2, <2>3, <2>4 DEF RecipientInv, CallFits, GrantFits, Holding
  <2>6. work'[c].until > work'[x].until
    BY <1>1, <1>3 DEF RecipientInv, CallsShaped
  <2>7. ASSUME NEW e \in Calls, Done(e), Is(e, {"revoke"}), Key(e) = k
        PROVE  Done(e)' /\ Is(e, {"revoke"})' /\ Key(e)' = k /\ work'[e] = work[e]
    BY <2>7, StillDone
  <2>8. \/ RevokedBefore(k)
        \/ \E e \in Calls : /\ Done(e)' /\ Is(e, {"revoke"})' /\ Key(e)' = k
                            /\ work'[e].until <= work'[c].since
    BY <1>1, <2>2, <2>5, <2>7 DEF RevocationRead
  <2> QED BY <1>1, <1>3, <2>2, <2>3, <2>6, <2>8
<1> QED BY <1>5, <1>6

LEMMA CommitKeeps ==
  ASSUME RecipientInv, NEW c \in Calls, Commit(c)
  PROVE  RecipientInv'
<1>1. CallsShaped' /\ RowsFit' /\ NumbersApart' /\ ConsentsFit' /\ RevocationHolds'
  BY CommitWrites, CommitRows, CommitConsents, CommitRevocations
<1>2. \A d \in Calls : CallFits(d)'
  BY CommitOwn, CommitOthers
<1>3. ASSUME NEW d \in Calls, NEW e \in Calls, d # e PROVE Apart(d, e)'
  <2>1. ~Numbering(c)' /\ ~Adding(c)'
    BY CommitWrites DEF Numbering, Adding
  <2>2. CASE d = c \/ e = c
    BY <2>1, <2>2 DEF Apart
  <2>3. CASE d # c /\ e # c
    <3>1. work'[d] = work[d] /\ work'[e] = work[e]
      BY <2>3, CommitWrites
    <3>2. /\ Key(d)' = Key(d) /\ TenantOf(d)' = TenantOf(d) /\ Kind(d)' = Kind(d)
          /\ Key(e)' = Key(e) /\ TenantOf(e)' = TenantOf(e) /\ Kind(e)' = Kind(e)
      BY <3>1, SameCall
    <3> QED BY <1>3, <3>1, <3>2 DEF RecipientInv, Apart, Numbering, Adding
  <2> QED BY <2>2, <2>3
<1> QED BY <1>1, <1>2, <1>3 DEF RecipientInv

-----------------------------------------------------------------------------
(* The invariant *)

LEMMA InitInv == Init => RecipientInv
<1> SUFFICES ASSUME Init PROVE RecipientInv
  OBVIOUS
<1>1. /\ recipients = OldRecipients /\ consents \in OldConsents /\ clock = 0
      /\ DOMAIN work = Calls /\ \A c \in Calls : work[c] = NoWork
  BY DEF Init
<1>2. \A c \in Calls : /\ DOMAIN work[c] = Fields /\ work[c].pc = "idle" /\ ~work[c].adds
                       /\ work[c].since = 0 /\ work[c].until = 0
  BY <1>1 DEF NoWork, Fields
<1>3. CallsShaped
  BY <1>1, <1>2 DEF CallsShaped
<1>4. RowsFit /\ NumbersApart
  BY <1>1, RecipientAssumption DEF RowsFit, NumbersApart
<1>5. ConsentsFit
  BY <1>1, RecipientAssumption DEF ConsentsFit, RevokedBefore
<1>6. RevocationHolds
  BY <1>2 DEF RevocationHolds, Done
<1>7. \A c \in Calls : CallFits(c)
  BY <1>2 DEF CallFits, ChangesFit, KeyFits, PhoneFits, ColumnsFit, GrantFits, Holding
<1>8. \A c, d \in Calls : Apart(c, d)
  BY <1>2 DEF Apart, Numbering, Adding
<1> QED BY <1>3, <1>4, <1>5, <1>6, <1>7, <1>8 DEF RecipientInv

LEMMA BreakDeadlockKeeps ==
  ASSUME RecipientInv, NEW c \in Calls, BreakDeadlock(c)
  PROVE  RecipientInv'
<1>1. Ends(c, "deadlocked") /\ TablesUnchanged /\ Blockers(c) # {}
  BY DEF BreakDeadlock
<1>2. work[c].pc \notin {"idle", "done"}
  BY <1>1 DEF Blockers, AtPhoneKey
<1> QED BY <1>1, <1>2, EndsBadly

LEMMA AbortKeeps ==
  ASSUME RecipientInv, NEW c \in Calls, Abort(c)
  PROVE  RecipientInv'
BY EndsBadly DEF Abort, Ended

\* Nothing happens.
LEMMA StutterKeeps ==
  ASSUME RecipientInv, UNCHANGED vars
  PROVE  RecipientInv'
<1>1. UNCHANGED <<recipients, consents, shops, clock, work>>
  BY DEF vars
<1>2. \A d : /\ Asked(d)' = Asked(d) /\ Key(d)' = Key(d) /\ TenantOf(d)' = TenantOf(d)
            /\ Kind(d)' = Kind(d) /\ (Done(d)' <=> Done(d)) /\ (OnConsent(d)' <=> OnConsent(d))
            /\ \A kinds : Is(d, kinds)' <=> Is(d, kinds)
  BY <1>1, SameCall
<1>3. \A d : Row(d)' = Row(d)
  BY <1>1, <1>2 DEF Row
<1>4. CallsShaped' /\ NumbersApart'
  BY <1>1 DEF RecipientInv, CallsShaped, NumbersApart
<1>5. RowsFit'
  BY <1>1, <1>2 DEF RecipientInv, RowsFit, NumberGiven
<1>6. ConsentsFit'
  BY <1>1, <1>2 DEF RecipientInv, ConsentsFit, RevokedBefore
<1>7. RevocationHolds'
  BY <1>1, <1>2, <1>3 DEF RecipientInv, RevocationHolds, RevokedBefore
<1>8. ASSUME NEW c \in Calls PROVE CallFits(c)'
  <2>1. ChangesFit(c) /\ KeyFits(c) /\ PhoneFits(c) /\ ColumnsFit(c) /\ GrantFits(c)
    BY DEF RecipientInv, CallFits
  <2>2. ChangesFit(c)' /\ KeyFits(c)'
    BY <1>1, <1>2, <2>1 DEF ChangesFit, KeyFits
  <2>3. PhoneFits(c)'
    BY <1>1, <1>2, <2>1 DEF PhoneFits, HasPhone, WasTaken
  <2>4. ColumnsFit(c)'
    BY <1>1, <1>2, <1>3, <2>1 DEF ColumnsFit, Prevails, Overwrote
  <2>5. GrantFits(c)'
    BY <1>1, <1>2, <2>1 DEF GrantFits, RevocationRead, RevokedBefore
  <2> QED BY <2>2, <2>3, <2>4, <2>5 DEF CallFits
<1>9. \A c, d \in Calls : c # d => Apart(c, d)'
  BY <1>1, <1>2 DEF RecipientInv, Apart, Numbering, Adding
<1> QED BY <1>4, <1>5, <1>6, <1>7, <1>8, <1>9 DEF RecipientInv

LEMMA StepInv == RecipientInv /\ [Next]_vars => RecipientInv'
<1> SUFFICES ASSUME RecipientInv, [Next]_vars PROVE RecipientInv'
  OBVIOUS
<1>1. ASSUME NEW c \in Calls, CallStep(c) PROVE RecipientInv'
  BY <1>1, LoadRecipientKeeps, CheckInputKeeps, LoadConsentKeeps, LockRowKeeps, PutPhoneKeeps,
     InsertConsentKeeps, InsertShopKeeps, CommitKeeps, BreakDeadlockKeeps DEF CallStep
<1> QED BY <1>1, BeginKeeps, AbortKeeps, StutterKeeps DEF Next

\* What the invariant says of the properties.
LEMMA InvImplies ==
  ASSUME RecipientInv
  PROVE  OneRecipientPerPhone /\ LaterCallPrevails /\ RevocationHolds
<1>1. OneRecipientPerPhone
  <2>1. \A c \in Calls : work[c].pc = "conflict" => WasTaken(c)
    BY DEF RecipientInv, CallFits, PhoneFits
  <2>2. \A r, s \in DOMAIN recipients :
          HasPhone(r, recipients[s].tenant, recipients[s].phone) => r = s
    BY DEF RecipientInv, NumbersApart, HasPhone
  <2> QED BY <2>1, <2>2 DEF OneRecipientPerPhone
<1>2. LaterCallPrevails
  <2> SUFFICES ASSUME NEW c \in Calls, Done(c), ~Is(c, {"shop"}), NEW f \in DOMAIN Asked(c)
               PROVE  Prevails(c, f)
    BY DEF LaterCallPrevails, Prevails, Overwrote
  <2>1. Kind(c) # "shop"
    BY DEF Done, Is, Kind
  <2> QED BY <2>1 DEF RecipientInv, CallFits, ColumnsFit, Done
<1> QED BY <1>1, <1>2 DEF RecipientInv

-----------------------------------------------------------------------------
(* Theorems *)

\* The invariant holds in every state.
THEOREM RecipientInvariant == Spec => []RecipientInv
<1> QED BY InitInv, StepInv, PTL DEF Spec

\* However creations, changes of numbers, refused and aborted calls interleave,
\* no two recipients of a tenant have one number, and a 409 is given only for a
\* number that another recipient had (uq_notification_recipients_phone).
THEOREM PhonesAreUnique == Spec => []OneRecipientPerPhone
<1>1. RecipientInv => OneRecipientPerPhone
  BY InvImplies
<1> QED BY <1>1, RecipientInvariant, PTL

\* A column differs from what a call that is done assigned only through another
\* call that was committed after the first had read the row: update_recipient
\* and the consent handlers write no column that they were not asked to.
THEOREM NoLostUpdate == Spec => []LaterCallPrevails
<1>1. RecipientInv => LaterCallPrevails
  BY InvImplies
<1> QED BY <1>1, RecipientInvariant, PTL

\* A revoked consent is in force again only through a grant that had read a
\* revocation, so that one which was overtaken by revoke_consent does not undo it.
THEOREM RevokedStaysRevoked == Spec => []RevocationHolds
<1>1. RecipientInv => RevocationHolds
  BY InvImplies
<1> QED BY <1>1, RecipientInvariant, PTL
=============================================================================
