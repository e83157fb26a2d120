---------------------------- MODULE OutboxPromise ----------------------------
(***************************************************************************)
(* What notifications promise, whatever transactions overlap: tables that  *)
(* grow by atomic steps.  A version is appended to the template's; a       *)
(* result gets its event and, in the same step, either a dead letter that  *)
(* says why nobody is told or a delivery to each of some recipients, all   *)
(* from one reviewed version that renders; a delivery with a fallback body *)
(* gets one SMS, or a dead letter that says why not.  No row ever changes  *)
(* or goes.  NotificationOutbox implements it with transactions of several *)
(* statements.                                                             *)
(***************************************************************************)
EXTENDS Integers, Sequences

CONSTANTS Emitters, Fallbacks, Results, Recipients, Contents

VARIABLES
  versions,     \* what authors published, in order
  events,       \* [by, result]
  deliveries,
  deadLetters   \* [by, reason]

promise == <<versions, events, deliveries, deadLetters>>

Init == versions = <<>> /\ events = {} /\ deliveries = {} /\ deadLetters = {}

PublishVersion(content) ==
  /\ content.channel = "kakao_alimtalk" => content.purpose # "marketing"
  /\ versions' = Append(versions, content)
  /\ UNCHANGED <<events, deliveries, deadLetters>>

\* A transaction adds rows in one step only.
Fresh(x) == \A row \in events \cup deliveries \cup deadLetters : row.by # x

AddEvent(e, r) ==
  /\ Fresh(e) /\ \A ev \in events : ev.result # r
  /\ events' = events \cup {[by |-> e, result |-> r]}
  /\ UNCHANGED versions

Announce(e, r, to, v) ==
  /\ to # {}
  /\ versions[v].channel = "kakao_alimtalk" /\ versions[v].purpose = "transactional"
  /\ versions[v].approved /\ versions[v].renders
  /\ AddEvent(e, r)
  /\ deliveries' = deliveries \cup
       [by : {e}, result : {r}, recipient : to, version : {v},
        channel : {"kakao_alimtalk"}, fallback : {versions[v].fallback}]
  /\ UNCHANGED deadLetters

AnnounceNothing(e, r, reason) ==
  /\ AddEvent(e, r)
  /\ deadLetters' = deadLetters \cup {[by |-> e, reason |-> reason]}
  /\ UNCHANGED deliveries

\* A result's recipient gets one SMS at most, and only if the delivery carries
\* the body of one.
SendSms(f, d) ==
  /\ Fresh(f) /\ d.channel = "kakao_alimtalk" /\ d.fallback
  /\ \A s \in deliveries :
       s.result = d.result /\ s.recipient = d.recipient => s.channel # "sms"
  /\ deliveries' = deliveries \cup
       {[d EXCEPT !.by = f, !.channel = "sms", !.fallback = FALSE]}
  /\ UNCHANGED <<versions, events, deadLetters>>

RefuseSms(f, d, reason) ==
  /\ Fresh(f) /\ d.channel = "kakao_alimtalk"
  /\ reason = "sms_fallback_body_missing" => ~d.fallback
  /\ deadLetters' = deadLetters \cup {[by |-> f, reason |-> reason]}
  /\ UNCHANGED <<versions, events, deliveries>>

Next ==
  \/ \E content \in Contents : PublishVersion(content)
  \/ \E e \in Emitters, r \in Results :
       \/ \E to \in SUBSET Recipients, v \in DOMAIN versions : Announce(e, r, to, v)
       \/ \E reason \in {"no_active_recipients", "missing_procurement_result_template"} :
            AnnounceNothing(e, r, reason)
  \/ \E f \in Fallbacks, d \in deliveries :
       \/ SendSms(f, d)
       \/ \E reason \in {"sms_fallback_consent_missing", "sms_fallback_body_missing"} :
            RefuseSms(f, d, reason)

Spec == Init /\ [][Next]_promise
=============================================================================
