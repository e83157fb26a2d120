------------------------- MODULE NotificationOutbox -------------------------
(***************************************************************************)
(* Notifications of procurement results (app/notifications): the outbox    *)
(* event that an upload or a collection run adds to its own transaction,   *)
(* its expansion into deliveries or a dead letter, the versions of the     *)
(* template it is rendered from, and the SMS fallback of a delivery.       *)
(*                                                                         *)
(* One tenant, one template code ("procurement_result").  Emitters,        *)
(* authors and fallbacks are transactions; what they add is seen by others *)
(* when they commit.  Recipients and consents change between their steps.  *)
(***************************************************************************)
EXTENDS Integers, FiniteSets

CONSTANTS
  Emitters,     \* callers of create_procurement_result_event
  Results,      \* results of completed orders
  Recipients,   \* recipients of the tenant
  Consenters,   \* those of them who ever grant or revoke a consent
  Authors,      \* callers of create_template or create_version
  Contents,     \* what authors write
  Fallbacks,    \* callers of create_sms_fallback_for_delivery
  NoDelivery    \* stands for None

Channel == {"kakao_alimtalk", "sms"}

\* The part of a template version that decides anything.  renders: every
\* variable it names is in the payload of the event; fallback: it has a
\* fallback body.
Content == [channel : Channel, purpose : {"transactional", "marketing"},
            approved : BOOLEAN, renders : BOOLEAN, fallback : BOOLEAN]

\* A committed delivery, all of them in status "ready".  by is the transaction
\* that added it, which tells rows apart as their ids do.
Delivery == [by : Emitters \cup Fallbacks, result : Results, recipient : Recipients,
             version : Nat, channel : Channel, fallback : BOOLEAN]

Reason == {"no_active_recipients", "missing_procurement_result_template",
           "sms_fallback_consent_missing", "sms_fallback_body_missing"}

ASSUME ContentsAssumption   == Contents \subseteq Content
ASSUME ConsentersAssumption == Consenters \subseteq Recipients
ASSUME NoDeliveryAssumption == NoDelivery \notin Delivery
ASSUME SessionsAssumption   == Emitters \cap Fallbacks = {}

VARIABLES
  active,          \* recipients whose is_active is set
  consented,       \* recipients with an unrevoked sms_marketing consent
  templateExists,  \* the template's row
  versions,        \* its versions: number -> content
  events,          \* outbox events: [by, result], all in status "published"
  deliveries,
  deadLetters,     \* [by, reason]
  author, emitter, fallback   \* the transactions

tables == <<templateExists, versions, events, deliveries, deadLetters>>
vars   == <<active, consented, tables, author, emitter, fallback>>

-----------------------------------------------------------------------------
(* Template versions *)

Newest(numbers) ==
  IF numbers = {} THEN 0 ELSE CHOOSE n \in numbers : \A m \in numbers : m <= n

\* Wrong: versions under review are used as well.
UsableUnreviewed(v) ==
  versions[v].channel = "kakao_alimtalk" /\ versions[v].purpose = "transactional"

\* The version may be used for a procurement result.
Usable(v) ==
  /\ versions[v].channel = "kakao_alimtalk"
  /\ versions[v].purpose = "transactional"
  /\ versions[v].approved

NewestUsable == Newest({v \in DOMAIN versions : Usable(v)})

\* _validate_channel_purpose
Allowed(content) == ~(content.channel = "kakao_alimtalk" /\ content.purpose = "marketing")

-----------------------------------------------------------------------------
(* Sessions *)

AuthorState ==
  [pc : {"idle", "template_inserted", "numbered", "version_inserted",
         "committed", "refused", "failed"},
   content : Contents, number : Nat]

\* to and version are what the expansion read, letter the dead letter it adds.
\* stable, ever and floor are a history of what the transaction could have
\* read: recipients active throughout it, recipients active at some time of
\* it, the newest usable version when it began.
EmitterState ==
  [pc : {"idle", "inserted", "addressed", "rendering", "expanded",
         "committed", "duplicate", "unrendered", "aborted"},
   result : Results, to : SUBSET Recipients, version : Nat,
   letter : SUBSET Reason,
   stable : SUBSET Recipients, ever : SUBSET Recipients, floor : Nat]

\* ever: the consent was in force at some time since the delivery was loaded.
FallbackState ==
  [pc : {"idle", "loaded", "allowed", "refusing", "inserted",
         "committed", "ignored", "duplicate", "aborted"},
   original : Delivery \cup {NoDelivery}, letter : SUBSET Reason, ever : BOOLEAN]

\* Wrong: the transaction stays open when rendering has raised.
EmittingUnrendered(e) ==
  emitter[e].pc \in {"inserted", "addressed", "rendering", "expanded", "unrendered"}

Emitting(e)    == emitter[e].pc \in {"inserted", "addressed", "rendering", "expanded"}
FallingBack(f) == fallback[f].pc \in {"loaded", "allowed", "refusing", "inserted"}

TypeOK ==
  /\ active \subseteq Recipients
  /\ consented \subseteq Consenters
  /\ templateExists \in BOOLEAN
  /\ DOMAIN versions \subseteq Nat
  /\ versions \in [DOMAIN versions -> Contents]
  /\ events \subseteq [by : Emitters, result : Results]
  /\ deliveries \subseteq Delivery
  /\ deadLetters \subseteq [by : Emitters \cup Fallbacks, reason : Reason]
  /\ author \in [Authors -> AuthorState]
  /\ emitter \in [Emitters -> EmitterState]
  /\ fallback \in [Fallbacks -> FallbackState]

Init ==
  /\ active \in SUBSET Recipients
  /\ consented \in SUBSET Consenters
  /\ templateExists \in BOOLEAN
  /\ versions = <<>>
  /\ events = {} /\ deliveries = {} /\ deadLetters = {}
  /\ author \in [Authors -> [pc : {"idle"}, content : Contents, number : {0}]]
  /\ emitter \in [Emitters -> [pc : {"idle"}, result : Results, to : {{}}, version : {0},
                               letter : {{}}, stable : {{}}, ever : {{}}, floor : {0}]]
  /\ fallback = [f \in Fallbacks |-> [pc |-> "idle", original |-> NoDelivery,
                                      letter |-> {}, ever |-> FALSE]]

-----------------------------------------------------------------------------
(* Recipients and consents, as their endpoints commit them: only the columns
   that the other transactions read. *)

SetActive(r, on) ==
  /\ active' = IF on THEN active \cup {r} ELSE active \ {r}
  /\ emitter' = [e \in Emitters |->
       IF ~Emitting(e) THEN emitter[e]
       ELSE IF on THEN [emitter[e] EXCEPT !.ever = @ \cup {r}]
       ELSE [emitter[e] EXCEPT !.stable = @ \ {r}]]
  /\ UNCHANGED <<consented, tables, author, fallback>>

SetConsent(r, on) ==
  /\ consented' = IF on THEN consented \cup {r} ELSE consented \ {r}
  /\ fallback' = [f \in Fallbacks |->
       IF on /\ FallingBack(f) /\ fallback[f].original.recipient = r
       THEN [fallback[f] EXCEPT !.ever = TRUE] ELSE fallback[f]]
  /\ UNCHANGED <<active, tables, author, emitter>>

-----------------------------------------------------------------------------
(* create_template, create_version: no endpoint calls them, so their callers'
   transactions are those of session_scope. *)

Author(a, from, to) ==
  /\ author[a].pc = from
  /\ author' = [author EXCEPT ![a].pc = to]
  /\ UNCHANGED <<active, consented, emitter, fallback>>

\* The code is unique within the tenant: wait for another insert of it, then
\* answer 409 if it is there.
InsertTemplate(a) ==
  /\ \A b \in Authors \ {a} : author[b].pc # "template_inserted"
  /\ \/ templateExists /\ Author(a, "idle", "refused")
     \/ ~templateExists /\ Author(a, "idle", "template_inserted")
  /\ UNCHANGED tables

CommitTemplate(a) ==
  /\ Author(a, "template_inserted", "committed")
  /\ templateExists' = TRUE
  /\ UNCHANGED <<versions, events, deliveries, deadLetters>>

RefuseVersion(a) ==
  /\ ~templateExists \/ ~Allowed(author[a].content)
  /\ Author(a, "idle", "refused")
  /\ UNCHANGED tables

\* Wrong: numbers taken by versions not committed yet are skipped.
NextVersionAhead ==
  Newest(DOMAIN versions \cup
         {author[b].number : b \in {b \in Authors : author[b].pc = "version_inserted"}}) + 1

\* SELECT max(version), which sees committed versions and locks nothing.
NextVersion == Newest(DOMAIN versions) + 1

NumberVersion(a) ==
  /\ templateExists /\ Allowed(author[a].content)
  /\ author[a].pc = "idle"
  /\ author' = [author EXCEPT ![a].pc = "numbered", ![a].number = NextVersion]
  /\ UNCHANGED <<active, consented, tables, emitter, fallback>>

\* Wrong: (template_id, version) without its unique constraint.
InsertVersionUnconstrained(a) ==
  /\ Author(a, "numbered", "version_inserted")
  /\ UNCHANGED tables

\* (template_id, version) is unique.  The loser's IntegrityError is not handled:
\* the call fails and the author has to call again.
InsertVersion(a) ==
  /\ \A b \in Authors \ {a} :
       ~(author[b].pc = "version_inserted" /\ author[b].number = author[a].number)
  /\ \/ author[a].number \in DOMAIN versions /\ Author(a, "numbered", "failed")
     \/ author[a].number \notin DOMAIN versions /\ Author(a, "numbered", "version_inserted")
  /\ UNCHANGED tables

CommitVersion(a) ==
  /\ Author(a, "version_inserted", "committed")
  /\ versions' = [v \in DOMAIN versions \cup {author[a].number} |->
                    IF v = author[a].number THEN author[a].content ELSE versions[v]]
  /\ UNCHANGED <<templateExists, events, deliveries, deadLetters>>

AbortAuthor(a) ==
  /\ \E pc \in {"template_inserted", "numbered", "version_inserted"} : Author(a, pc, "failed")
  /\ UNCHANGED tables

-----------------------------------------------------------------------------
(* create_procurement_result_event and its expansion *)

Emit(e, from, next) ==
  /\ emitter[e].pc = from
  /\ emitter' = [emitter EXCEPT ![e] = next]
  /\ UNCHANGED <<active, consented, author, fallback>>

\* The key names the result: wait for another insert of it.  If it is there the
\* handler of IntegrityError queries a session whose transaction the failed
\* flush has ended, which raises, and the caller is rolled back.
InsertEvent(e) ==
  /\ \A d \in Emitters \ {e} : ~(Emitting(d) /\ emitter[d].result = emitter[e].result)
  /\ \/ /\ \E ev \in events : ev.result = emitter[e].result
        /\ Emit(e, "idle", [emitter[e] EXCEPT !.pc = "duplicate"])
     \/ /\ \A ev \in events : ev.result # emitter[e].result
        /\ Emit(e, "idle", [emitter[e] EXCEPT !.pc = "inserted", !.stable = active,
                                              !.ever = active, !.floor = NewestUsable])
  /\ UNCHANGED tables

\* Wrong: recipients that were deactivated are addressed too.
ReadAllRecipients(e) ==
  /\ Emit(e, "inserted", [emitter[e] EXCEPT !.pc = "addressed", !.to = Recipients])
  /\ UNCHANGED tables

ReadRecipients(e) ==
  /\ \/ /\ active = {}
        /\ Emit(e, "inserted", [emitter[e] EXCEPT !.pc = "expanded",
                                                  !.letter = {"no_active_recipients"}])
     \/ /\ active # {}
        /\ Emit(e, "inserted", [emitter[e] EXCEPT !.pc = "addressed", !.to = active])
  /\ UNCHANGED tables

ReadTemplate(e) ==
  /\ \/ /\ NewestUsable = 0
        /\ Emit(e, "addressed", [emitter[e] EXCEPT !.pc = "expanded",
                                   !.letter = {"missing_procurement_result_template"}])
     \/ /\ NewestUsable # 0
        /\ Emit(e, "addressed", [emitter[e] EXCEPT !.pc = "rendering", !.version = NewestUsable])
  /\ UNCHANGED tables

\* Wrong: a body with unknown variables is sent as it is.
RenderRegardless(e) ==
  /\ Emit(e, "rendering", [emitter[e] EXCEPT !.pc = "expanded"])
  /\ UNCHANGED tables

\* One delivery per recipient, or TemplateRenderError out of the caller, whose
\* transaction ends with it.
RenderDeliveries(e) ==
  /\ emitter[e].pc = "rendering"
  /\ \/ /\ versions[emitter[e].version].renders
        /\ Emit(e, "rendering", [emitter[e] EXCEPT !.pc = "expanded"])
     \/ /\ ~versions[emitter[e].version].renders
        /\ Emit(e, "rendering", [emitter[e] EXCEPT !.pc = "unrendered"])
  /\ UNCHANGED tables

Announcements(e) ==
  IF emitter[e].version = 0 THEN {}
  ELSE [by : {e}, result : {emitter[e].result}, recipient : emitter[e].to,
        version : {emitter[e].version}, channel : {"kakao_alimtalk"},
        fallback : {versions[emitter[e].version].fallback}]

\* Wrong: the deliveries are committed, the dead letter is not.
CommitEventOnly(e) ==
  /\ Emit(e, "expanded", [emitter[e] EXCEPT !.pc = "committed"])
  /\ events' = events \cup {[by |-> e, result |-> emitter[e].result]}
  /\ deliveries' = deliveries \cup Announcements(e)
  /\ UNCHANGED <<templateExists, versions, deadLetters>>

\* The caller commits the result, the event and its expansion together.
CommitEvent(e) ==
  /\ Emit(e, "expanded", [emitter[e] EXCEPT !.pc = "committed"])
  /\ events' = events \cup {[by |-> e, result |-> emitter[e].result]}
  /\ deliveries' = deliveries \cup Announcements(e)
  /\ deadLetters' = deadLetters \cup [by : {e}, reason : emitter[e].letter]
  /\ UNCHANGED <<templateExists, versions>>

AbortEvent(e) ==
  /\ Emitting(e)
  /\ Emit(e, emitter[e].pc, [emitter[e] EXCEPT !.pc = "aborted"])
  /\ UNCHANGED tables

-----------------------------------------------------------------------------
(* create_sms_fallback_for_delivery *)

FallBack(f, from, next) ==
  /\ fallback[f].pc = from
  /\ fallback' = [fallback EXCEPT ![f] = next]
  /\ UNCHANGED <<active, consented, author, emitter>>

\* None for an id without a delivery, and for a delivery that is a fallback.
LoadDelivery(f) ==
  /\ \/ FallBack(f, "idle", [fallback[f] EXCEPT !.pc = "ignored"])
     \/ \E d \in deliveries :
          /\ d.channel = "kakao_alimtalk"
          /\ FallBack(f, "idle", [fallback[f] EXCEPT !.pc = "loaded", !.original = d,
                                                     !.ever = d.recipient \in consented])
  /\ UNCHANGED tables

Refuse(f, reason) ==
  FallBack(f, "loaded", [fallback[f] EXCEPT !.pc = "refusing", !.letter = {reason}])

\* Wrong: the consent is not looked up.
CheckBodyOnly(f) ==
  /\ fallback[f].pc = "loaded"
  /\ \/ ~fallback[f].original.fallback /\ Refuse(f, "sms_fallback_body_missing")
     \/ /\ fallback[f].original.fallback
        /\ FallBack(f, "loaded", [fallback[f] EXCEPT !.pc = "allowed"])
  /\ UNCHANGED tables

CheckConsent(f) ==
  LET d == fallback[f].original IN
  /\ fallback[f].pc = "loaded"
  /\ \/ d.recipient \notin consented /\ Refuse(f, "sms_fallback_consent_missing")
     \/ d.recipient \in consented /\ ~d.fallback /\ Refuse(f, "sms_fallback_body_missing")
     \/ /\ d.recipient \in consented /\ d.fallback
        /\ FallBack(f, "loaded", [fallback[f] EXCEPT !.pc = "allowed"])
  /\ UNCHANGED tables

Sms(f) == [fallback[f].original EXCEPT !.by = f, !.channel = "sms", !.fallback = FALSE]

\* A fallback's key is its original's with a suffix.
HasFallback(d) ==
  \E s \in deliveries :
    s.channel = "sms" /\ [d EXCEPT !.by = s.by, !.channel = "sms", !.fallback = FALSE] = s

\* Wrong: the fallback's idempotency key is not unique.
InsertFallbackAnyway(f) ==
  /\ FallBack(f, "allowed", [fallback[f] EXCEPT !.pc = "inserted"])
  /\ UNCHANGED tables

\* As InsertEvent: wait for another insert of the key; if it is there the
\* handler's query raises and the caller is rolled back.
InsertFallback(f) ==
  /\ fallback[f].pc = "allowed"
  /\ \A g \in Fallbacks \ {f} :
       ~(fallback[g].pc = "inserted" /\ fallback[g].original = fallback[f].original)
  /\ \/ /\ HasFallback(fallback[f].original)
        /\ FallBack(f, "allowed", [fallback[f] EXCEPT !.pc = "duplicate"])
     \/ /\ ~HasFallback(fallback[f].original)
        /\ FallBack(f, "allowed", [fallback[f] EXCEPT !.pc = "inserted"])
  /\ UNCHANGED tables

CommitFallback(f) ==
  /\ \E pc \in {"refusing", "inserted"} :
       FallBack(f, pc, [fallback[f] EXCEPT !.pc = "committed"])
  /\ deliveries' = IF fallback[f].pc = "inserted" THEN deliveries \cup {Sms(f)} ELSE deliveries
  /\ deadLetters' = deadLetters \cup [by : {f}, reason : fallback[f].letter]
  /\ UNCHANGED <<templateExists, versions, events>>

AbortFallback(f) ==
  /\ FallingBack(f)
  /\ FallBack(f, fallback[f].pc, [fallback[f] EXCEPT !.pc = "aborted"])
  /\ UNCHANGED tables

-----------------------------------------------------------------------------

AuthorStep(a) ==
  \/ InsertTemplate(a) \/ CommitTemplate(a) \/ RefuseVersion(a) \/ NumberVersion(a)
  \/ InsertVersion(a) \/ CommitVersion(a)

EmitterStep(e) ==
  \/ InsertEvent(e) \/ ReadRecipients(e) \/ ReadTemplate(e) \/ RenderDeliveries(e)
  \/ CommitEvent(e)

FallbackStep(f) ==
  \/ LoadDelivery(f) \/ CheckConsent(f) \/ InsertFallback(f) \/ CommitFallback(f)

Next ==
  \/ \E a \in Authors : AuthorStep(a) \/ AbortAuthor(a)
  \/ \E e \in Emitters : EmitterStep(e) \/ AbortEvent(e)
  \/ \E f \in Fallbacks : FallbackStep(f) \/ AbortFallback(f)
  \/ \E r \in Recipients, on \in BOOLEAN : SetActive(r, on)
  \/ \E r \in Consenters, on \in BOOLEAN : SetConsent(r, on)

Spec == Init /\ [][Next]_vars

\* Each author, emitter and fallback is a call that was received, whose first
\* statement may itself have to wait for a key: fairness covers that one too.
FairSpec == Spec /\ (\A a \in Authors : WF_vars(AuthorStep(a)))
                 /\ (\A e \in Emitters : WF_vars(EmitterStep(e)))
                 /\ (\A f \in Fallbacks : WF_vars(FallbackStep(f)))

-----------------------------------------------------------------------------
(* Properties *)

AddedBy(x) == {d \in deliveries : d.by = x}

\* A result has one event, and an event one answer: a single dead letter, or
\* one delivery to each of several recipients, all of one version.
EventsAnswered ==
  /\ \A x, y \in events : x.result = y.result => x = y
  /\ \A ev \in events :
       LET letters == {l \in deadLetters : l.by = ev.by}
           ds      == AddedBy(ev.by)
       IN \/ ds = {} /\ Cardinality(letters) = 1
          \/ /\ letters = {} /\ ds # {}
             /\ \A c, d \in ds : c.version = d.version /\ (c.recipient = d.recipient => c = d)

\* Who is told: everybody who was active throughout the transaction, and nobody
\* who was active at no time of it, however recipients come and go meanwhile.
Audience ==
  \A e \in Emitters : emitter[e].pc = "committed" =>
    LET told == {d.recipient : d \in AddedBy(e)} IN
    /\ told \subseteq emitter[e].ever
    /\ emitter[e].version # 0 => emitter[e].stable \subseteq told

\* What they are told is rendered from a reviewed version, never from one
\* that had been superseded when the transaction began, and a missing template is
\* reported only if there was none then.
CurrentTemplate ==
  \A e \in Emitters : emitter[e].pc = "committed" =>
    /\ \A d \in AddedBy(e) :
         /\ d.version \in DOMAIN versions /\ d.version >= emitter[e].floor
         /\ versions[d.version].approved /\ versions[d.version].purpose = "transactional"
    /\ "missing_procurement_result_template" \in emitter[e].letter => emitter[e].floor = 0

\* Numbering is dense although numbers are chosen without a lock and authors
\* fail: the versions of a template are 1, 2, ... without a gap.
VersionsDense == \A v \in DOMAIN versions : \A n \in 1..v : n \in DOMAIN versions

\* A version, once committed, never changes, so that a delivery's version
\* stays the one it was rendered from.
VersionsImmutable ==
  [][\A v \in DOMAIN versions : v \in DOMAIN versions' /\ versions'[v] = versions[v]]_versions

\* At most one fallback per delivery whatever number of callers ask for it,
\* and each with the body its original carried.
FallbackOnce ==
  \A s \in deliveries : s.channel = "sms" =>
    /\ \A t \in deliveries : t = [s EXCEPT !.by = t.by] => s = t
    /\ \E d \in deliveries : d.channel = "kakao_alimtalk" /\ d.fallback
                             /\ d.result = s.result /\ d.recipient = s.recipient

\* No fallback for a recipient whose consent was never in force during the call:
\* a consent revoked before the call is not used, at whatever step it is read.
FallbackConsented ==
  \A f \in Fallbacks : AddedBy(f) # {} => fallback[f].ever

\* Every commit of a transaction is one step of the promise, in which an event
\* and its whole answer, or an SMS, or the reason why there is none, appear at
\* once; what a transaction does before, and what it undoes, is invisible to it.
Promise == INSTANCE OutboxPromise
ImplementsPromise == Promise!Spec

\* Every transaction ends, and then all have: what has ended stays so.
CallsEnd ==
  <>(/\ \A a \in Authors : author[a].pc \in {"committed", "refused", "failed"}
     /\ \A e \in Emitters :
          emitter[e].pc \in {"committed", "duplicate", "unrendered", "aborted"}
     /\ \A f \in Fallbacks :
          fallback[f].pc \in {"committed", "ignored", "duplicate", "aborted"})

\* A delivery that cannot be rendered is kept on record.
RenderFailureRecorded ==
  \A e \in Emitters : emitter[e].pc = "unrendered" =>
    \E d \in deliveries : d.result = emitter[e].result
=============================================================================
