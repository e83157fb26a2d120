---------------------- MODULE NotificationOutboxProofs ----------------------
(***************************************************************************)
(* The versions of a template are numbered without a gap and never change, *)
(* for any number of authors that choose numbers without a lock; and what  *)
(* the committed sessions of emitters and fallbacks left in the tables:    *)
(* one event a result, one answer an event, told to the recipients and in  *)
(* the version of the moment, at most one consented fallback a delivery.   *)
(* Each commit is one step of OutboxPromise, and nothing else is seen.     *)
(***************************************************************************)
EXTENDS NotificationOutbox, FiniteSetTheorems, SequenceTheorems, WellFoundedInduction, TLAPS

\* The numbers are 1..k.  A number that was read is at most the next one, and
\* numbers inserted and not committed are new and distinct.
NumberedUpTo(k) == DOMAIN versions = 1..k

Held(a) == author[a].pc \in {"numbered", "version_inserted"}

HeldOK(k) == \A a \in Authors : Held(a) => author[a].number \in 1..(k + 1)

InsertedOK ==
  \A a \in Authors : author[a].pc = "version_inserted" =>
    /\ author[a].number \notin DOMAIN versions
    /\ \A b \in Authors \ {a} :
         author[b].pc = "version_inserted" => author[b].number # author[a].number

Typed == author \in [Authors -> AuthorState]

NumberInv == Typed /\ InsertedOK /\ \E k \in Nat : NumberedUpTo(k) /\ HeldOK(k)

-----------------------------------------------------------------------------

\* The greatest of 1..k is k.
LEMMA NewestOfInterval ==
  ASSUME NEW k \in Nat PROVE Newest(1..k) = k
<1>1. CASE k = 0
  BY <1>1 DEF Newest
<1>2. CASE k # 0
  <2>1. 1..k # {} /\ k \in 1..k /\ \A m \in 1..k : m <= k
    BY <1>2
  <2>2. \A n \in 1..k : (\A m \in 1..k : m <= n) => n = k
    BY <2>1
  <2> QED BY <2>1, <2>2 DEF Newest
<1> QED BY <1>1, <1>2

\* Initially no version exists and no author holds a number.
LEMMA InitNumberInv == Init => NumberInv
<1> SUFFICES ASSUME Init PROVE NumberInv
  OBVIOUS
<1>1. Typed /\ \A a \in Authors : author[a].pc = "idle"
  BY DEF Init, Typed, AuthorState
<1>2. NumberedUpTo(0)
  BY DEF Init, NumberedUpTo
<1> QED BY <1>1, <1>2 DEF NumberInv, InsertedOK, HeldOK, Held

\* A step of an author that leaves the versions alone and puts it in a state
\* without a number keeps the invariant.
LEMMA MoveKeeps ==
  ASSUME NumberInv, NEW a \in Authors,
         NEW pc \in {"template_inserted", "committed", "refused", "failed"},
         author' = [author EXCEPT ![a].pc = pc], versions' = versions
  PROVE  NumberInv'
<1>1. PICK k \in Nat : NumberedUpTo(k) /\ HeldOK(k)
  BY DEF NumberInv
<1>2. /\ \A b \in Authors : author'[b].number = author[b].number
      /\ \A b \in Authors \ {a} : author'[b] = author[b]
      /\ author'[a].pc = pc
      /\ Typed'
  BY DEF NumberInv, Typed, AuthorState
<1>3. NumberedUpTo(k)' /\ HeldOK(k)'
  BY <1>1, <1>2 DEF NumberedUpTo, HeldOK, Held
<1>4. InsertedOK'
  BY <1>2 DEF NumberInv, InsertedOK
<1> QED BY <1>2, <1>3, <1>4 DEF NumberInv

\* Reading the next number.
LEMMA NumberKeeps ==
  ASSUME NumberInv, NEW a \in Authors, NumberVersion(a)
  PROVE  NumberInv' /\ versions' = versions
<1>1. PICK k \in Nat : NumberedUpTo(k) /\ HeldOK(k)
  BY DEF NumberInv
<1>2. NextVersion = k + 1
  BY <1>1, NewestOfInterval DEF NextVersion, NumberedUpTo
<1>3. versions' = versions
      /\ author' = [author EXCEPT ![a].pc = "numbered", ![a].number = k + 1]
  BY <1>2 DEF NumberVersion, tables
<1>4. /\ \A b \in Authors \ {a} : author'[b] = author[b]
      /\ author'[a].pc = "numbered" /\ author'[a].number = k + 1
      /\ Typed'
  <2>1. author \in [Authors -> AuthorState] /\ author[a] \in AuthorState
    BY DEF NumberInv, Typed
  <2>2. \A b \in Authors \ {a} : author'[b] = author[b]
    BY <1>3, <2>1
  <2>3. author'[a] = [author[a] EXCEPT !.pc = "numbered", !.number = k + 1]
    BY <1>3, <2>1
  <2>4. author'[a].pc = "numbered" /\ author'[a].number = k + 1 /\ author'[a] \in AuthorState
    <3>1. author[a] = [pc |-> author[a].pc, content |-> author[a].content,
                       number |-> author[a].number]
          /\ author[a].content \in Contents
      BY <2>1 DEF AuthorState
    <3>2. author'[a] = [pc |-> "numbered", content |-> author[a].content, number |-> k + 1]
      BY <2>3, <3>1
    <3>3. k + 1 \in Nat
      OBVIOUS
    <3> QED BY <3>1, <3>2, <3>3 DEF AuthorState
  <2>5. Typed'
    BY <1>3, <2>1, <2>2, <2>4 DEF Typed
  <2> QED BY <2>2, <2>4, <2>5
<1>5. NumberedUpTo(k)' /\ HeldOK(k)'
  <2>1. \A b \in Authors \ {a} : Held(b)' => author'[b].number \in 1..(k + 1)
    BY <1>1, <1>4 DEF HeldOK, Held
  <2>2. author'[a].number \in 1..(k + 1)
    BY <1>4
  <2> QED BY <1>1, <1>3, <2>1, <2>2 DEF NumberedUpTo, HeldOK
<1>6. InsertedOK'
  BY ZenonT(60), <1>3, <1>4 DEF NumberInv, InsertedOK
<1> QED BY <1>3, <1>4, <1>5, <1>6 DEF NumberInv

\* Inserting under the unique constraint.
LEMMA InsertKeeps ==
  ASSUME NumberInv, NEW a \in Authors, InsertVersion(a)
  PROVE  NumberInv' /\ versions' = versions
<1>1. versions' = versions
  BY DEF InsertVersion, tables
<1>2. CASE author[a].number \in DOMAIN versions
  <2>1. author' = [author EXCEPT ![a].pc = "failed"]
    BY <1>2 DEF InsertVersion, Author
  <2> QED BY <1>1, <2>1, MoveKeeps
<1>3. CASE author[a].number \notin DOMAIN versions
  <2>1. PICK k \in Nat : NumberedUpTo(k) /\ HeldOK(k)
    BY DEF NumberInv
  <2>2. /\ \A b \in Authors : author'[b].number = author[b].number
        /\ \A b \in Authors \ {a} : author'[b] = author[b]
        /\ author[a].pc = "numbered" /\ author'[a].pc = "version_inserted"
        /\ Typed'
    <3>1. author' = [author EXCEPT ![a].pc = "version_inserted"] /\ author[a].pc = "numbered"
      BY <1>3 DEF InsertVersion, Author
    <3> QED BY <3>1 DEF NumberInv, Typed, AuthorState
  <2>3. \A b \in Authors \ {a} :
          author[b].pc = "version_inserted" => author[b].number # author[a].number
    BY DEF InsertVersion
  <2>4. NumberedUpTo(k)' /\ HeldOK(k)'
    BY <1>1, <2>1, <2>2 DEF NumberedUpTo, HeldOK, Held
  <2>5. InsertedOK'
    BY <1>1, <1>3, <2>2, <2>3 DEF NumberInv, InsertedOK
  <2> QED BY <1>1, <2>2, <2>4, <2>5 DEF NumberInv
<1> QED BY <1>1, <1>2, <1>3

\* Committing an inserted version: its number is the next one.
LEMMA CommitKeeps ==
  ASSUME NumberInv, NEW a \in Authors, CommitVersion(a)
  PROVE  /\ NumberInv'
         /\ \A v \in DOMAIN versions : v \in DOMAIN versions' /\ versions'[v] = versions[v]
<1>1. PICK k \in Nat : NumberedUpTo(k) /\ HeldOK(k)
  BY DEF NumberInv
<1>2. author[a].pc = "version_inserted" /\ author[a].number \notin DOMAIN versions
  BY DEF NumberInv, InsertedOK, CommitVersion, Author
<1>3. author[a].number = k + 1
  BY <1>1, <1>2 DEF NumberedUpTo, HeldOK, Held
<1>4. DOMAIN versions' = DOMAIN versions \cup {k + 1}
  BY <1>3 DEF CommitVersion
<1>5. NumberedUpTo(k + 1)'
  BY <1>1, <1>4 DEF NumberedUpTo
<1>6. /\ \A b \in Authors : author'[b].number = author[b].number
      /\ \A b \in Authors \ {a} : author'[b] = author[b]
      /\ author'[a].pc = "committed"
      /\ Typed'
  <2>1. author' = [author EXCEPT ![a].pc = "committed"]
    BY DEF CommitVersion, Author
  <2> QED BY <2>1 DEF NumberInv, Typed, AuthorState
<1>7. HeldOK(k + 1)'
  BY <1>1, <1>6 DEF HeldOK, Held
<1>8. InsertedOK'
  BY <1>2, <1>3, <1>4, <1>6 DEF NumberInv, InsertedOK
<1>9. \A v \in DOMAIN versions : v \in DOMAIN versions' /\ versions'[v] = versions[v]
  BY <1>2 DEF CommitVersion
<1> QED BY <1>5, <1>6, <1>7, <1>8, <1>9 DEF NumberInv

\* A step that changes neither authors nor versions.
LEMMA OthersKeep ==
  ASSUME NumberInv, author' = author, versions' = versions
  PROVE  NumberInv'
BY DEF NumberInv, Typed, InsertedOK, NumberedUpTo, HeldOK, Held

\* Every step keeps the invariant, and every committed version.
LEMMA StepNumberInv ==
  ASSUME NumberInv, [Next]_vars
  PROVE  /\ NumberInv'
         /\ \A v \in DOMAIN versions : v \in DOMAIN versions' /\ versions'[v] = versions[v]
<1>1. CASE UNCHANGED vars
  BY <1>1, OthersKeep DEF vars, tables
<1>2. ASSUME NEW a \in Authors, AuthorStep(a) \/ AbortAuthor(a)
      PROVE  /\ NumberInv'
             /\ \A v \in DOMAIN versions : v \in DOMAIN versions' /\ versions'[v] = versions[v]
  <2>1. CASE InsertTemplate(a) /\ Author(a, "idle", "refused")
    BY <2>1, MoveKeeps DEF InsertTemplate, Author, tables
  <2>2. CASE InsertTemplate(a) /\ Author(a, "idle", "template_inserted")
    BY <2>2, MoveKeeps DEF InsertTemplate, Author, tables
  <2>3. CASE CommitTemplate(a)
    BY <2>3, MoveKeeps DEF CommitTemplate, Author
  <2>4. CASE RefuseVersion(a)
    BY <2>4, MoveKeeps DEF RefuseVersion, Author, tables
  <2>5. CASE NumberVersion(a)
    BY <2>5, NumberKeeps
  <2>6. CASE InsertVersion(a)
    BY <2>6, InsertKeeps
  <2>7. CASE CommitVersion(a)
    BY <2>7, CommitKeeps
  <2>8. CASE AbortAuthor(a)
    <3>1. author' = [author EXCEPT ![a].pc = "failed"] /\ versions' = versions
      BY <2>8 DEF AbortAuthor, Author, tables
    <3> QED BY <3>1, MoveKeeps
  <2> QED BY <1>2, <2>1, <2>2, <2>3, <2>4, <2>5, <2>6, <2>7, <2>8 DEF AuthorStep, InsertTemplate
<1>3. ASSUME NEW e \in Emitters, EmitterStep(e) \/ AbortEvent(e)
      PROVE  author' = author /\ versions' = versions
  BY <1>3 DEF EmitterStep, AbortEvent, InsertEvent, ReadRecipients, ReadTemplate,
              RenderDeliveries, CommitEvent, Emit, tables
<1>4. ASSUME NEW f \in Fallbacks, FallbackStep(f) \/ AbortFallback(f)
      PROVE  author' = author /\ versions' = versions
  BY <1>4 DEF FallbackStep, AbortFallback, LoadDelivery, CheckConsent, Refuse,
              InsertFallback, CommitFallback, FallBack, tables
<1>5. ASSUME NEW r \in Recipients \cup Consenters, NEW on \in BOOLEAN, SetActive(r, on) \/ SetConsent(r, on)
      PROVE  author' = author /\ versions' = versions
  BY <1>5 DEF SetActive, SetConsent, tables
<1> QED BY <1>1, <1>2, <1>3, <1>4, <1>5, OthersKeep DEF Next

LEMMA NumberInvariant == Spec => []NumberInv
BY InitNumberInv, StepNumberInv, PTL DEF Spec

\* The versions of a template are 1, 2, ... without a gap, although authors
\* choose numbers without a lock, race for them and fail.
THEOREM VersionsNumbered == Spec => []VersionsDense
<1>1. NumberInv => VersionsDense
  BY DEF NumberInv, NumberedUpTo, VersionsDense
<1> QED BY <1>1, NumberInvariant, PTL

\* A committed version is never changed or removed, so that what a delivery
\* was rendered from can always be read again.
THEOREM VersionsKept == Spec => VersionsImmutable
<1>1. NumberInv /\ [Next]_vars =>
        [\A v \in DOMAIN versions : v \in DOMAIN versions' /\ versions'[v] = versions[v]]_versions
  BY StepNumberInv
<1> QED BY <1>1, NumberInvariant, PTL DEF Spec, VersionsImmutable
-----------------------------------------------------------------------------
(* What sessions hold, and what committed rows come from *)

Missing == "missing_procurement_result_template"

\* What a session of an emitter that is in state r may hold, given the recipients
\* and the versions of the moment.
EmitterFits(r) ==
  /\ r.pc \in {"inserted", "addressed", "rendering", "expanded"} =>
       r.stable \subseteq active /\ active \subseteq r.ever /\ r.floor <= NewestUsable
  /\ r.pc \in {"idle", "inserted"} => r.to = {} /\ r.version = 0 /\ r.letter = {}
  /\ r.pc = "addressed" => r.version = 0 /\ r.letter = {}
  /\ r.pc = "rendering" => r.version # 0 /\ r.letter = {}
  /\ r.pc \in {"expanded", "committed"} =>
       \/ r.version = 0 /\ \E x \in Reason : r.letter = {x}
       \/ r.version # 0 /\ r.letter = {}
  /\ r.pc \in {"addressed", "rendering"} \/ r.version # 0 =>
       r.to # {} /\ r.stable \subseteq r.to /\ r.to \subseteq r.ever
  /\ r.version # 0 => r.version \in DOMAIN versions /\ Usable(r.version) /\ r.floor <= r.version
  /\ Missing \in r.letter => r.floor = 0

EmittersFit == \A e \in Emitters : EmitterFits(emitter[e])

\* The unique key: two sessions never both have, or will have, the event of one result.
Claims(e) == Emitting(e) \/ emitter[e].pc = "committed"

OneClaim ==
  \A d, e \in Emitters : Claims(d) /\ Claims(e) /\ emitter[d].result = emitter[e].result => d = e

FallbackFits(r) ==
  /\ r.pc \in {"loaded", "allowed", "refusing", "inserted", "committed"} =>
       /\ r.original \in deliveries /\ r.original.channel = "kakao_alimtalk"
       /\ r.pc # "committed" /\ r.original.recipient \in consented => r.ever
  /\ r.pc \in {"idle", "loaded", "allowed", "inserted"} => r.letter = {}
  /\ r.pc = "refusing" => r.letter # {}
  /\ r.pc \in {"allowed", "inserted"} \/ (r.pc = "committed" /\ r.letter = {}) =>
       r.ever /\ r.original.fallback

FallbacksFit == \A f \in Fallbacks : FallbackFits(fallback[f])

\* A fallback that is, or will be, committed: one for an original.
FellBack(f) == fallback[f].pc = "committed" /\ fallback[f].letter = {}

Answers(f) == fallback[f].pc = "inserted" \/ FellBack(f)

OneFallback ==
  \A f, g \in Fallbacks :
    Answers(f) /\ Answers(g) /\ fallback[f].original = fallback[g].original => f = g

\* The tables hold what the committed sessions added, and nothing else.
EventRows ==
  events = {[by |-> e, result |-> emitter[e].result] :
              e \in {e \in Emitters : emitter[e].pc = "committed"}}

LetterRows ==
  /\ \A e \in Emitters : emitter[e].pc = "committed" =>
       \A x \in Reason : [by |-> e, reason |-> x] \in deadLetters <=> x \in emitter[e].letter
  /\ \A e \in Emitters : emitter[e].pc # "committed" =>
       \A l \in deadLetters : l.by # e

DeliveryRows ==
  /\ \A e \in Emitters : emitter[e].pc = "committed" => Announcements(e) \subseteq deliveries
  /\ \A f \in Fallbacks : FellBack(f) => Sms(f) \in deliveries
  /\ \A d \in deliveries :
       \/ \E e \in Emitters : emitter[e].pc = "committed" /\ d \in Announcements(e)
       \/ \E f \in Fallbacks : FellBack(f) /\ d = Sms(f)

Rows == EventRows /\ LetterRows /\ DeliveryRows

OutboxInv == TypeOK /\ EmittersFit /\ OneClaim /\ FallbacksFit /\ OneFallback /\ Rows

-----------------------------------------------------------------------------
(* The newest version *)

\* Newest returns the greatest of some of the numbers 1..k.
LEMMA NewestIsGreatest ==
  ASSUME NEW k \in Nat, NEW numbers \in SUBSET (1..k), numbers # {}
  PROVE  Newest(numbers) \in numbers /\ \A m \in numbers : m <= Newest(numbers)
<1> DEFINE R == {ss \in Nat \X Nat : ss[1] < ss[2]}
           T == {k - n : n \in numbers}
<1>1. IsWellFoundedOn(R, Nat)
  BY NatLessThanWellFounded DEF OpToRel
<1>2. T \subseteq Nat /\ T # {}
  <2>1. \A n \in numbers : k - n \in Nat
    OBVIOUS
  <2> QED BY <2>1
<1> HIDE DEF R
<1>3. PICK x \in T : \A y \in T : ~ (<<y, x>> \in R)
  <2> HIDE DEF T
  <2> QED BY <1>1, <1>2, WFMin
<1>4. PICK n \in numbers : x = k - n
  BY <1>3
<1>5. \A m \in numbers : m <= n
  <2> SUFFICES ASSUME NEW m \in numbers PROVE m <= n
    OBVIOUS
  <2>1. <<k - m, k - n>> \notin R
    BY <1>3, <1>4
  <2>2. m \in Nat /\ n \in Nat /\ k - m \in Nat /\ k - n \in Nat
    OBVIOUS
  <2>3. ~(k - m < k - n)
    BY <2>1, <2>2 DEF R
  <2> QED BY <2>2, <2>3
<1> QED BY <1>5 DEF Newest

\* The version an expansion selects is usable, and no usable one is newer.
LEMMA NewestUsableIsGreatest ==
  ASSUME NumberInv
  PROVE  /\ NewestUsable \in Nat
         /\ \A v \in DOMAIN versions : v \in Nat \ {0}
         /\ \A v \in DOMAIN versions : Usable(v) => v <= NewestUsable
         /\ NewestUsable # 0 => NewestUsable \in DOMAIN versions /\ Usable(NewestUsable)
<1>1. PICK k \in Nat : DOMAIN versions = 1..k
  BY DEF NumberInv, NumberedUpTo
<1> DEFINE numbers == {v \in DOMAIN versions : Usable(v)}
<1>2. CASE numbers = {}
  <2>1. NewestUsable = 0
    BY <1>2 DEF NewestUsable, Newest
  <2> QED BY <1>1, <1>2, <2>1
<1>3. CASE numbers # {}
  <2>1. NewestUsable \in numbers /\ \A m \in numbers : m <= NewestUsable
    <3>1. NewestUsable = Newest(numbers) /\ numbers \in SUBSET (1..k)
      BY <1>1 DEF NewestUsable
    <3> HIDE DEF numbers
    <3> QED BY <1>3, <3>1, NewestIsGreatest
  <2> QED BY <1>1, <2>1
<1> QED BY <1>2, <1>3

\* While versions are only added, a usable one stays usable and the newest
\* usable one gets no older.
VersionsStay == \A v \in DOMAIN versions : v \in DOMAIN versions' /\ versions'[v] = versions[v]

LEMMA NewestUsableGrows ==
  ASSUME NumberInv, NumberInv', VersionsStay
  PROVE  /\ \A v \in DOMAIN versions : Usable(v)' <=> Usable(v)
         /\ NewestUsable <= NewestUsable'
<1>1. \A v \in DOMAIN versions : Usable(v)' <=> Usable(v)
  BY DEF VersionsStay, Usable
<1>2. /\ NewestUsable \in Nat /\ NewestUsable' \in Nat
      /\ NewestUsable # 0 => NewestUsable \in DOMAIN versions /\ Usable(NewestUsable)
      /\ \A v \in DOMAIN versions' : Usable(v)' => v <= NewestUsable'
  <2>1. /\ NewestUsable \in Nat
        /\ NewestUsable # 0 => NewestUsable \in DOMAIN versions /\ Usable(NewestUsable)
    BY NewestUsableIsGreatest
  <2>2. (/\ NewestUsable \in Nat
         /\ \A v \in DOMAIN versions : Usable(v) => v <= NewestUsable)'
    BY NewestUsableIsGreatest, PTL
  <2> QED BY <2>1, <2>2
<1> QED BY <1>1, <1>2 DEF VersionsStay

-----------------------------------------------------------------------------
(* Each step keeps the invariant *)

LEMMA OutboxTypes ==
  ASSUME TypeOK
  PROVE  /\ \A e \in Emitters : /\ emitter[e] \in EmitterState /\ emitter[e].version \in Nat
                                /\ emitter[e].to \subseteq Recipients
                                /\ emitter[e].letter \subseteq Reason
                                /\ emitter[e].floor \in Nat
                                /\ emitter[e].result \in Results
         /\ \A f \in Fallbacks : /\ fallback[f] \in FallbackState
                                 /\ fallback[f].letter \subseteq Reason
BY DEF TypeOK, EmitterState, FallbackState

LEMMA InitOutboxInv == Init => OutboxInv
<1> SUFFICES ASSUME Init PROVE OutboxInv
  OBVIOUS
<1>1. TypeOK
  BY DEF Init, TypeOK, AuthorState, EmitterState, FallbackState
<1>2. EmittersFit /\ OneClaim
  BY DEF Init, EmittersFit, EmitterFits, OneClaim, Claims, Emitting
<1>3. FallbacksFit /\ OneFallback
  BY DEF Init, FallbacksFit, FallbackFits, OneFallback, Answers, FellBack
<1>4. Rows
  BY DEF Init, Rows, EventRows, LetterRows, DeliveryRows, FellBack
<1> QED BY <1>1, <1>2, <1>3, <1>4 DEF OutboxInv

\* What an emitter must leave in its own session when it changes no table.
LEMMA EmitterMoves ==
  ASSUME OutboxInv, NEW e \in Emitters, NEW r \in EmitterState,
         emitter' = [emitter EXCEPT ![e] = r],
         UNCHANGED <<active, consented, tables, author, fallback>>,
         emitter[e].pc # "committed", r.pc # "committed", r.result = emitter[e].result,
         EmitterFits(r),
         r.pc \in {"inserted", "addressed", "rendering", "expanded"} =>
           \/ Emitting(e)
           \/ \A d \in Emitters \ {e} : Claims(d) => emitter[d].result # emitter[e].result
  PROVE  OutboxInv'
<1>1. /\ emitter' \in [Emitters -> EmitterState]
      /\ emitter'[e] = r
      /\ \A d \in Emitters : d # e => emitter'[d] = emitter[d]
  BY DEF OutboxInv, TypeOK
<1>2. TypeOK'
  BY <1>1 DEF OutboxInv, TypeOK, tables
<1>3. EmittersFit'
  <2>1. \A x \in EmitterState : EmitterFits(x)' <=> EmitterFits(x)
    BY DEF EmitterFits, tables, NewestUsable, Usable
  <2> QED BY <1>1, <2>1 DEF OutboxInv, EmittersFit, TypeOK
<1>4. OneClaim'
  <2>1. \A d \in Emitters : d # e => (Claims(d)' <=> Claims(d))
    BY <1>1 DEF Claims, Emitting
  <2>2. Claims(e)' => Claims(e) \/
          \A d \in Emitters \ {e} : Claims(d) => emitter[d].result # emitter[e].result
    BY <1>1 DEF Claims, Emitting
  <2>3. \A d \in Emitters : emitter'[d].result = emitter[d].result
    BY <1>1
  <2> QED BY <2>1, <2>2, <2>3 DEF OutboxInv, OneClaim
<1>5. FallbacksFit' /\ OneFallback'
  BY DEF OutboxInv, FallbacksFit, FallbackFits, OneFallback, Answers, FellBack, tables
<1>6. Rows'
  <2>1. EventRows'
    <3>1. \A d \in Emitters : /\ emitter'[d].pc = "committed" <=> emitter[d].pc = "committed"
                              /\ emitter'[d].result = emitter[d].result
      BY <1>1
    <3> QED BY <3>1 DEF OutboxInv, Rows, EventRows, tables
  <2>2. LetterRows'
    BY <1>1 DEF OutboxInv, Rows, LetterRows, tables
  <2>3. DeliveryRows'
    <3>1. \A d \in Emitters : /\ emitter'[d].pc = "committed" <=> emitter[d].pc = "committed"
                              /\ emitter[d].pc = "committed" => Announcements(d)' = Announcements(d)
      BY <1>1 DEF Announcements, tables
    <3>2. \A f : (FellBack(f)' <=> FellBack(f)) /\ Sms(f)' = Sms(f)
      BY DEF FellBack, Sms
    <3> QED BY <3>1, <3>2 DEF OutboxInv, Rows, DeliveryRows, tables
  <2> QED BY <2>1, <2>2, <2>3 DEF Rows
<1> QED BY <1>2, <1>3, <1>4, <1>5, <1>6 DEF OutboxInv

\* The steps of an emitter before its commit.
LEMMA InsertEventKeeps ==
  ASSUME OutboxInv, NumberInv, NEW e \in Emitters, InsertEvent(e)
  PROVE  OutboxInv'
<1>1. emitter[e] \in EmitterState /\ emitter[e].pc = "idle" /\ EmitterFits(emitter[e])
  BY OutboxTypes DEF OutboxInv, EmittersFit, InsertEvent, Emit
<1>2. UNCHANGED <<active, consented, tables, author, fallback>>
  BY DEF InsertEvent, Emit
<1>3. CASE \E ev \in events : ev.result = emitter[e].result
  <2> DEFINE r == [emitter[e] EXCEPT !.pc = "duplicate"]
  <2>1. emitter' = [emitter EXCEPT ![e] = r]
    BY <1>3 DEF InsertEvent, Emit
  <2>2. r \in EmitterState /\ r.pc = "duplicate" /\ r.result = emitter[e].result /\ EmitterFits(r)
    BY <1>1 DEF EmitterState, EmitterFits
  <2> QED BY <1>1, <1>2, <2>1, <2>2, EmitterMoves
<1>4. CASE \A ev \in events : ev.result # emitter[e].result
  <2> DEFINE r == [emitter[e] EXCEPT !.pc = "inserted", !.stable = active,
                                     !.ever = active, !.floor = NewestUsable]
  <2>1. emitter' = [emitter EXCEPT ![e] = r]
    BY <1>4 DEF InsertEvent, Emit
  <2>2. r \in EmitterState /\ r.pc = "inserted" /\ r.result = emitter[e].result /\ EmitterFits(r)
    <3>1. active \subseteq Recipients /\ NewestUsable \in Nat
      BY NewestUsableIsGreatest DEF OutboxInv, TypeOK
    <3>2. r \in EmitterState
      BY <1>1, <3>1 DEF EmitterState
    <3>3. /\ r.pc = "inserted" /\ r.stable = active /\ r.ever = active /\ r.floor = NewestUsable
          /\ r.to = emitter[e].to /\ r.version = emitter[e].version
          /\ r.letter = emitter[e].letter /\ r.result = emitter[e].result
      BY <1>1 DEF EmitterState
    <3>4. emitter[e].to = {} /\ emitter[e].version = 0 /\ emitter[e].letter = {}
      BY <1>1 DEF EmitterFits
    <3> HIDE DEF r
    <3> QED BY <3>1, <3>2, <3>3, <3>4 DEF EmitterFits
  <2>3. \A d \in Emitters \ {e} : Claims(d) => emitter[d].result # emitter[e].result
    <3> SUFFICES ASSUME NEW d \in Emitters \ {e}, emitter[d].pc = "committed"
                 PROVE  emitter[d].result # emitter[e].result
      BY DEF InsertEvent, Claims
    <3>1. [by |-> d, result |-> emitter[d].result] \in events
      BY DEF OutboxInv, Rows, EventRows
    <3> QED BY <1>4, <3>1
  <2> QED BY <1>1, <1>2, <2>1, <2>2, <2>3, EmitterMoves
<1> QED BY <1>3, <1>4

LEMMA ReadRecipientsKeeps ==
  ASSUME OutboxInv, NEW e \in Emitters, ReadRecipients(e)
  PROVE  OutboxInv'
<1>1. emitter[e] \in EmitterState /\ emitter[e].pc = "inserted" /\ EmitterFits(emitter[e]) /\ Emitting(e)
  BY OutboxTypes DEF OutboxInv, EmittersFit, ReadRecipients, Emit, Emitting
<1>2. UNCHANGED <<active, consented, tables, author, fallback>>
  BY DEF ReadRecipients, Emit
<1>3. CASE active = {}
  <2> DEFINE r == [emitter[e] EXCEPT !.pc = "expanded", !.letter = {"no_active_recipients"}]
  <2>1. emitter' = [emitter EXCEPT ![e] = r]
    BY <1>3 DEF ReadRecipients, Emit
  <2>2. r \in EmitterState /\ r.pc = "expanded" /\ r.result = emitter[e].result /\ EmitterFits(r)
    <3>1. "no_active_recipients" \in Reason /\ Missing \notin {"no_active_recipients"}
      BY DEF Reason, Missing
    <3> QED BY <1>1, <3>1 DEF EmitterState, EmitterFits
  <2> QED BY <1>1, <1>2, <2>1, <2>2, EmitterMoves
<1>4. CASE active # {}
  <2> DEFINE r == [emitter[e] EXCEPT !.pc = "addressed", !.to = active]
  <2>1. emitter' = [emitter EXCEPT ![e] = r]
    BY <1>4 DEF ReadRecipients, Emit
  <2>2. r \in EmitterState /\ r.pc = "addressed" /\ r.result = emitter[e].result /\ EmitterFits(r)
    BY <1>1, <1>4 DEF EmitterState, EmitterFits, OutboxInv, TypeOK
  <2> QED BY <1>1, <1>2, <2>1, <2>2, EmitterMoves
<1> QED BY <1>3, <1>4

LEMMA ReadTemplateKeeps ==
  ASSUME OutboxInv, NumberInv, NEW e \in Emitters, ReadTemplate(e)
  PROVE  OutboxInv'
<1>1. emitter[e] \in EmitterState /\ emitter[e].pc = "addressed" /\ EmitterFits(emitter[e]) /\ Emitting(e)
  BY OutboxTypes DEF OutboxInv, EmittersFit, ReadTemplate, Emit, Emitting
<1>2. UNCHANGED <<active, consented, tables, author, fallback>>
  BY DEF ReadTemplate, Emit
<1>3. NewestUsable \in Nat /\ (NewestUsable # 0 => NewestUsable \in DOMAIN versions /\ Usable(NewestUsable))
  BY NewestUsableIsGreatest
<1>4. CASE NewestUsable = 0
  <2> DEFINE r == [emitter[e] EXCEPT !.pc = "expanded", !.letter = {Missing}]
  <2>1. emitter' = [emitter EXCEPT ![e] = r]
    BY <1>4 DEF ReadTemplate, Emit, Missing
  <2>2. r \in EmitterState /\ r.pc = "expanded" /\ r.result = emitter[e].result /\ EmitterFits(r)
    <3>1. Missing \in Reason /\ emitter[e].floor = 0
      BY <1>1, <1>4 DEF Reason, Missing, EmitterFits, EmitterState
    <3> QED BY <1>1, <3>1 DEF EmitterState, EmitterFits
  <2> QED BY <1>1, <1>2, <2>1, <2>2, EmitterMoves
<1>5. CASE NewestUsable # 0
  <2> DEFINE r == [emitter[e] EXCEPT !.pc = "rendering", !.version = NewestUsable]
  <2>1. emitter' = [emitter EXCEPT ![e] = r]
    BY <1>5 DEF ReadTemplate, Emit
  <2>2. r \in EmitterState /\ r.pc = "rendering" /\ r.result = emitter[e].result /\ EmitterFits(r)
    BY <1>1, <1>3, <1>5 DEF EmitterState, EmitterFits
  <2> QED BY <1>1, <1>2, <2>1, <2>2, EmitterMoves
<1> QED BY <1>4, <1>5

LEMMA RenderKeeps ==
  ASSUME OutboxInv, NEW e \in Emitters, RenderDeliveries(e)
  PROVE  OutboxInv'
<1>1. emitter[e] \in EmitterState /\ emitter[e].pc = "rendering" /\ EmitterFits(emitter[e]) /\ Emitting(e)
  BY OutboxTypes DEF OutboxInv, EmittersFit, RenderDeliveries, Emit, Emitting
<1>2. UNCHANGED <<active, consented, tables, author, fallback>>
  BY DEF RenderDeliveries, Emit
<1>3. PICK pc \in {"expanded", "unrendered"} : emitter' = [emitter EXCEPT ![e] = [emitter[e] EXCEPT !.pc = pc]]
  BY DEF RenderDeliveries, Emit
<1> DEFINE r == [emitter[e] EXCEPT !.pc = pc]
<1>4. r \in EmitterState /\ r.pc = pc /\ r.result = emitter[e].result /\ EmitterFits(r)
  <2>1. r \in EmitterState /\ r.pc = pc
        /\ r.to = emitter[e].to /\ r.version = emitter[e].version /\ r.letter = emitter[e].letter
        /\ r.stable = emitter[e].stable /\ r.ever = emitter[e].ever /\ r.floor = emitter[e].floor
        /\ r.result = emitter[e].result
    BY <1>1 DEF EmitterState
  <2>2. emitter[e].letter = {}
    BY <1>1 DEF EmitterFits
  <2> HIDE DEF r
  <2> QED BY <1>1, <2>1, <2>2 DEF EmitterFits
<1> QED BY <1>1, <1>2, <1>3, <1>4, EmitterMoves

LEMMA AbortEventKeeps ==
  ASSUME OutboxInv, NEW e \in Emitters, AbortEvent(e)
  PROVE  OutboxInv'
<1>1. emitter[e] \in EmitterState /\ emitter[e].pc # "committed" /\ EmitterFits(emitter[e])
  BY OutboxTypes DEF OutboxInv, EmittersFit, AbortEvent, Emitting
<1>2. UNCHANGED <<active, consented, tables, author, fallback>>
  BY DEF AbortEvent, Emit
<1> DEFINE r == [emitter[e] EXCEPT !.pc = "aborted"]
<1>3. emitter' = [emitter EXCEPT ![e] = r]
  BY DEF AbortEvent, Emit
<1>4. r \in EmitterState /\ r.pc = "aborted" /\ r.result = emitter[e].result /\ EmitterFits(r)
  BY <1>1 DEF EmitterState, EmitterFits
<1> QED BY <1>1, <1>2, <1>3, <1>4, EmitterMoves

\* The commit of an event: its announcements are deliveries of the right type.
LEMMA AnnouncementsTyped ==
  ASSUME OutboxInv, NEW e \in Emitters
  PROVE  /\ Announcements(e) \subseteq Delivery
         /\ \A d \in Announcements(e) : d.by = e /\ d.channel = "kakao_alimtalk"
<1>1. /\ emitter[e].version \in Nat /\ emitter[e].to \subseteq Recipients /\ emitter[e].result \in Results
      /\ EmitterFits(emitter[e])
  BY OutboxTypes DEF OutboxInv, EmittersFit
<1>2. CASE emitter[e].version = 0
  BY <1>2 DEF Announcements
<1>3. CASE emitter[e].version # 0
  <2>1. versions[emitter[e].version] \in Content
    BY <1>1, <1>3, ContentsAssumption DEF EmitterFits, OutboxInv, TypeOK
  <2>2. versions[emitter[e].version].fallback \in BOOLEAN
    BY <2>1 DEF Content
  <2> QED BY <1>1, <1>3, <2>2 DEF Announcements, Delivery, Channel
<1> QED BY <1>2, <1>3

LEMMA CommitEventKeeps ==
  ASSUME OutboxInv, NEW e \in Emitters, CommitEvent(e)
  PROVE  OutboxInv'
<1> DEFINE r == [emitter[e] EXCEPT !.pc = "committed"]
           ev == [by |-> e, result |-> emitter[e].result]
<1>1. emitter[e] \in EmitterState /\ emitter[e].pc = "expanded" /\ EmitterFits(emitter[e])
      /\ emitter[e].result \in Results /\ emitter[e].letter \subseteq Reason
  BY OutboxTypes DEF OutboxInv, EmittersFit, CommitEvent, Emit
<1>2. /\ UNCHANGED <<active, consented, author, fallback, templateExists, versions>>
      /\ emitter' = [emitter EXCEPT ![e] = r]
      /\ events' = events \cup {ev}
      /\ deliveries' = deliveries \cup Announcements(e)
      /\ deadLetters' = deadLetters \cup [by : {e}, reason : emitter[e].letter]
  BY DEF CommitEvent, Emit
<1>3. /\ emitter' \in [Emitters -> EmitterState]
      /\ r \in EmitterState
      /\ emitter'[e] = r
      /\ \A d \in Emitters : d # e => emitter'[d] = emitter[d]
  <2>1. r \in EmitterState
    BY <1>1 DEF EmitterState
  <2> QED BY <1>2, <2>1 DEF OutboxInv, TypeOK
<1>4. /\ r.pc = "committed" /\ r.to = emitter[e].to /\ r.version = emitter[e].version
      /\ r.letter = emitter[e].letter /\ r.stable = emitter[e].stable
      /\ r.ever = emitter[e].ever /\ r.floor = emitter[e].floor /\ r.result = emitter[e].result
  BY <1>1 DEF EmitterState
<1> HIDE DEF r
<1>5. TypeOK'
  <2>1. events' \subseteq [by : Emitters, result : Results]
    BY <1>1, <1>2 DEF OutboxInv, TypeOK
  <2>2. deadLetters' \subseteq [by : Emitters \cup Fallbacks, reason : Reason]
    BY <1>1, <1>2 DEF OutboxInv, TypeOK
  <2>3. deliveries' \subseteq Delivery
    BY <1>2, AnnouncementsTyped DEF OutboxInv, TypeOK
  <2> QED BY <1>2, <1>3, <2>1, <2>2, <2>3 DEF OutboxInv, TypeOK
<1>6. EmittersFit'
  <2>1. \A x \in EmitterState : EmitterFits(x)' <=> EmitterFits(x)
    BY <1>2 DEF EmitterFits, NewestUsable, Usable
  <2>2. EmitterFits(r)
    BY <1>1, <1>4 DEF EmitterFits
  <2> QED BY <1>3, <2>1, <2>2 DEF OutboxInv, EmittersFit, TypeOK
<1>7. OneClaim'
  <2>1. \A d \in Emitters : (Claims(d)' <=> Claims(d)) /\ emitter'[d].result = emitter[d].result
    BY <1>1, <1>3, <1>4 DEF Claims, Emitting
  <2> QED BY <2>1 DEF OutboxInv, OneClaim
<1>8. FallbacksFit' /\ OneFallback'
  <2>1. \A x : FallbackFits(x) => FallbackFits(x)'
    BY <1>2 DEF FallbackFits
  <2>2. \A f : (Answers(f)' <=> Answers(f)) /\ fallback'[f] = fallback[f]
    BY <1>2 DEF Answers, FellBack
  <2> QED BY <2>1, <2>2 DEF OutboxInv, FallbacksFit, OneFallback
<1>9. Rows'
  <2>1. EventRows'
    <3>1. \A d \in Emitters : /\ emitter'[d].pc = "committed" <=> emitter[d].pc = "committed" \/ d = e
                              /\ emitter'[d].result = emitter[d].result
      BY <1>3, <1>4
    <3> QED BY <1>2, <3>1 DEF OutboxInv, Rows, EventRows
  <2>2. LetterRows'
    <3>1. /\ \A x \in Reason : [by |-> e, reason |-> x] \in deadLetters' <=> x \in emitter[e].letter
          /\ \A l \in deadLetters' \ deadLetters : l.by = e
      BY <1>1, <1>2 DEF OutboxInv, Rows, LetterRows
    <3>2. \A d \in Emitters \ {e} : \A x : [by |-> d, reason |-> x] \in deadLetters'
                                             <=> [by |-> d, reason |-> x] \in deadLetters
      BY <1>2
    <3> QED BY <1>3, <1>4, <3>1, <3>2 DEF OutboxInv, Rows, LetterRows
  <2>3. DeliveryRows'
    <3>1. \A d \in Emitters : /\ emitter'[d].pc = "committed" <=> emitter[d].pc = "committed" \/ d = e
                              /\ Announcements(d)' = Announcements(d)
      BY <1>2, <1>3, <1>4 DEF Announcements
    <3>2. \A f : (FellBack(f)' <=> FellBack(f)) /\ Sms(f)' = Sms(f)
      BY <1>2 DEF FellBack, Sms
    <3> QED BY <1>2, <3>1, <3>2 DEF OutboxInv, Rows, DeliveryRows
  <2> QED BY <2>1, <2>2, <2>3 DEF Rows
<1> QED BY <1>5, <1>6, <1>7, <1>8, <1>9 DEF OutboxInv

\* Steps after which every session of an emitter has what it had, but for its
\* history, keep what the tables and the claims say of it.
LEMMA SameSessions ==
  ASSUME OutboxInv, UNCHANGED <<tables, author>>,
         \A d \in Emitters :
           /\ emitter'[d].pc = emitter[d].pc /\ emitter'[d].result = emitter[d].result
           /\ emitter'[d].version = emitter[d].version /\ emitter'[d].to = emitter[d].to
           /\ emitter'[d].letter = emitter[d].letter,
         \A f \in Fallbacks :
           /\ fallback'[f].pc = fallback[f].pc /\ fallback'[f].letter = fallback[f].letter
           /\ fallback'[f].original = fallback[f].original
  PROVE  OneClaim' /\ OneFallback' /\ Rows'
<1>1. \A d \in Emitters : (Claims(d)' <=> Claims(d)) /\ Announcements(d)' = Announcements(d)
  BY DEF Claims, Emitting, Announcements, tables
<1>2. \A f \in Fallbacks : /\ FellBack(f)' <=> FellBack(f)
                           /\ Answers(f)' <=> Answers(f)
                           /\ Sms(f)' = Sms(f)
  BY DEF FellBack, Answers, Sms
<1>3. OneClaim' /\ OneFallback'
  BY <1>1, <1>2 DEF OutboxInv, OneClaim, OneFallback
<1>4. EventRows' /\ LetterRows'
  BY DEF OutboxInv, Rows, EventRows, LetterRows, tables
<1>5. DeliveryRows'
  BY <1>1, <1>2 DEF OutboxInv, Rows, DeliveryRows, tables
<1> QED BY <1>3, <1>4, <1>5 DEF Rows

LEMMA SetActiveKeeps ==
  ASSUME OutboxInv, NEW r \in Recipients, NEW on \in BOOLEAN, SetActive(r, on)
  PROVE  OutboxInv'
<1>1. UNCHANGED <<consented, tables, author, fallback>>
  BY DEF SetActive
<1>2. active' = IF on THEN active \cup {r} ELSE active \ {r}
  BY DEF SetActive
<1>3. ASSUME NEW e \in Emitters
      PROVE  /\ emitter'[e] \in EmitterState
             /\ emitter'[e].pc = emitter[e].pc /\ emitter'[e].result = emitter[e].result
             /\ emitter'[e].version = emitter[e].version /\ emitter'[e].to = emitter[e].to
             /\ emitter'[e].letter = emitter[e].letter /\ emitter'[e].floor = emitter[e].floor
             /\ emitter'[e].stable = IF Emitting(e) /\ ~on THEN emitter[e].stable \ {r} ELSE emitter[e].stable
             /\ emitter'[e].ever = IF Emitting(e) /\ on THEN emitter[e].ever \cup {r} ELSE emitter[e].ever
  <2>1. emitter[e] \in EmitterState
    BY OutboxTypes DEF OutboxInv
  <2>2. emitter'[e] = IF ~Emitting(e) THEN emitter[e]
                      ELSE IF on THEN [emitter[e] EXCEPT !.ever = emitter[e].ever \cup {r}]
                      ELSE [emitter[e] EXCEPT !.stable = emitter[e].stable \ {r}]
    BY DEF SetActive
  <2> QED BY <2>1, <2>2 DEF EmitterState
<1>4. TypeOK'
  <2>1. emitter' \in [Emitters -> EmitterState]
    <3>1. emitter' = [e \in Emitters |-> emitter'[e]]
      BY DEF SetActive
    <3> QED BY <1>3, <3>1
  <2> QED BY <1>1, <1>2, <2>1 DEF OutboxInv, TypeOK, tables
<1>5. EmittersFit'
  <2> SUFFICES ASSUME NEW e \in Emitters PROVE EmitterFits(emitter[e])'
    BY DEF EmittersFit
  <2>1. EmitterFits(emitter[e])
    BY DEF OutboxInv, EmittersFit
  <2>2. NewestUsable' = NewestUsable /\ DOMAIN versions' = DOMAIN versions /\ \A v : Usable(v)' <=> Usable(v)
    BY <1>1 DEF NewestUsable, Usable, tables
  <2>3. \/ emitter'[e].stable = emitter[e].stable /\ emitter'[e].ever = emitter[e].ever /\ ~Emitting(e)
        \/ emitter'[e].stable \subseteq emitter[e].stable /\ emitter[e].ever \subseteq emitter'[e].ever
    BY <1>3
  <2>4. emitter[e].pc \in {"inserted", "addressed", "rendering", "expanded"} =>
          emitter'[e].stable \subseteq active' /\ active' \subseteq emitter'[e].ever
    BY <1>2, <1>3, <2>1 DEF EmitterFits, Emitting
  <2> QED BY <1>3, <2>1, <2>2, <2>3, <2>4 DEF EmitterFits
<1>6. FallbacksFit'
  BY <1>1 DEF OutboxInv, FallbacksFit, FallbackFits, tables
<1>7. OneClaim' /\ OneFallback' /\ Rows'
  BY <1>1, <1>3, SameSessions
<1> QED BY <1>4, <1>5, <1>6, <1>7 DEF OutboxInv

LEMMA SetConsentKeeps ==
  ASSUME OutboxInv, NEW r \in Consenters, NEW on \in BOOLEAN, SetConsent(r, on)
  PROVE  OutboxInv'
<1>1. UNCHANGED <<active, tables, author, emitter>>
  BY DEF SetConsent
<1>2. consented' = IF on THEN consented \cup {r} ELSE consented \ {r}
  BY DEF SetConsent
<1>3. ASSUME NEW f \in Fallbacks
      PROVE  /\ fallback'[f] \in FallbackState
             /\ fallback'[f].pc = fallback[f].pc /\ fallback'[f].letter = fallback[f].letter
             /\ fallback'[f].original = fallback[f].original
             /\ on /\ FallingBack(f) /\ fallback[f].original.recipient = r => fallback'[f].ever
             /\ fallback[f].ever => fallback'[f].ever
  <2>1. fallback[f] \in FallbackState
    BY OutboxTypes DEF OutboxInv
  <2>2. fallback'[f] = IF on /\ FallingBack(f) /\ fallback[f].original.recipient = r
                       THEN [fallback[f] EXCEPT !.ever = TRUE] ELSE fallback[f]
    BY DEF SetConsent
  <2>3. CASE on /\ FallingBack(f) /\ fallback[f].original.recipient = r
    <3>1. fallback'[f] = [fallback[f] EXCEPT !.ever = TRUE]
      BY <2>2, <2>3
    <3> QED BY <2>1, <3>1 DEF FallbackState
  <2>4. CASE ~(on /\ FallingBack(f) /\ fallback[f].original.recipient = r)
    <3>1. fallback'[f] = fallback[f]
      BY <2>2, <2>4
    <3> QED BY <2>1, <2>4, <3>1
  <2> QED BY <2>3, <2>4
<1>4. TypeOK'
  <2>1. fallback' \in [Fallbacks -> FallbackState]
    <3>1. fallback' = [f \in Fallbacks |-> fallback'[f]]
      BY DEF SetConsent
    <3> QED BY <1>3, <3>1
  <2>2. consented' \subseteq Consenters
    BY <1>2 DEF OutboxInv, TypeOK
  <2> QED BY <1>1, <2>1, <2>2 DEF OutboxInv, TypeOK, tables
<1>5. EmittersFit'
  BY <1>1 DEF OutboxInv, EmittersFit, EmitterFits, NewestUsable, Usable, tables
<1>6. FallbacksFit'
  <2> SUFFICES ASSUME NEW f \in Fallbacks PROVE FallbackFits(fallback[f])'
    BY DEF FallbacksFit
  <2>1. FallbackFits(fallback[f]) /\ deliveries' = deliveries
    BY <1>1 DEF OutboxInv, FallbacksFit, tables
  <2>2. fallback[f].ever => fallback'[f].ever
    BY <1>3
  <2>3. fallback[f].pc \in {"loaded", "allowed", "refusing", "inserted"} =>
          (fallback[f].original.recipient \in consented' => fallback'[f].ever)
    BY <1>2, <1>3, <2>1, <2>2 DEF FallbackFits, FallingBack
  <2> QED BY <1>3, <2>1, <2>2, <2>3 DEF FallbackFits
<1>7. OneClaim' /\ OneFallback' /\ Rows'
  BY <1>1, <1>3, SameSessions
<1> QED BY <1>4, <1>5, <1>6, <1>7 DEF OutboxInv

\* Authors change versions only, and only by adding to them.
LEMMA AuthorKeeps ==
  ASSUME OutboxInv, NumberInv, NumberInv', VersionsStay,
         UNCHANGED <<active, consented, events, deliveries, deadLetters, emitter, fallback>>,
         TypeOK'
  PROVE  OutboxInv'
<1>1. /\ \A v \in DOMAIN versions : Usable(v)' <=> Usable(v)
      /\ NewestUsable <= NewestUsable'
  BY NewestUsableGrows
<1>2. NewestUsable \in Nat /\ NewestUsable' \in Nat
  <2>1. NewestUsable \in Nat
    BY NewestUsableIsGreatest
  <2>2. (NewestUsable \in Nat)'
    BY NewestUsableIsGreatest, PTL
  <2> QED BY <2>1, <2>2
<1>3. EmittersFit'
  <2> SUFFICES ASSUME NEW e \in Emitters PROVE EmitterFits(emitter[e])'
    BY DEF EmittersFit
  <2>1. EmitterFits(emitter[e]) /\ emitter[e].floor \in Nat /\ emitter'[e] = emitter[e]
    BY OutboxTypes DEF OutboxInv, EmittersFit
  <2>2. emitter[e].floor <= NewestUsable => emitter[e].floor <= NewestUsable'
    BY <1>1, <1>2, <2>1
  <2>3. emitter[e].version # 0 => emitter[e].version \in DOMAIN versions' /\ Usable(emitter[e].version)'
    BY <1>1, <2>1 DEF EmitterFits, VersionsStay
  <2> QED BY <2>1, <2>2, <2>3 DEF EmitterFits
<1>4. FallbacksFit' /\ OneFallback' /\ OneClaim'
  BY DEF OutboxInv, FallbacksFit, FallbackFits, OneFallback, Answers, FellBack,
         OneClaim, Claims, Emitting
<1>5. EventRows' /\ LetterRows'
  BY DEF OutboxInv, Rows, EventRows, LetterRows
<1>6. DeliveryRows'
  <2>1. \A e \in Emitters : Announcements(e)' = Announcements(e)
    BY DEF Announcements, VersionsStay, OutboxInv, EmittersFit, EmitterFits
  <2>2. \A f : (FellBack(f)' <=> FellBack(f)) /\ Sms(f)' = Sms(f)
    BY DEF FellBack, Sms
  <2> QED BY <2>1, <2>2 DEF OutboxInv, Rows, DeliveryRows
<1> QED BY <1>3, <1>4, <1>5, <1>6 DEF OutboxInv, Rows

\* What a fallback must leave in its own session when it changes no table.
LEMMA FallbackMoves ==
  ASSUME OutboxInv, NEW f \in Fallbacks, NEW r \in FallbackState,
         fallback' = [fallback EXCEPT ![f] = r],
         UNCHANGED <<active, consented, tables, author, emitter>>,
         fallback[f].pc # "committed", r.pc # "committed", FallbackFits(r),
         r.pc = "inserted" =>
           \A g \in Fallbacks \ {f} : Answers(g) => fallback[g].original # r.original
  PROVE  OutboxInv'
<1>1. /\ fallback' \in [Fallbacks -> FallbackState]
      /\ fallback'[f] = r
      /\ \A g \in Fallbacks : g # f => fallback'[g] = fallback[g]
  BY DEF OutboxInv, TypeOK
<1>2. TypeOK'
  BY <1>1 DEF OutboxInv, TypeOK, tables
<1>3. EmittersFit' /\ OneClaim'
  BY DEF OutboxInv, EmittersFit, EmitterFits, OneClaim, Claims, Emitting,
         NewestUsable, Usable, tables
<1>4. FallbacksFit'
  <2>1. \A x \in FallbackState : FallbackFits(x)' <=> FallbackFits(x)
    BY DEF FallbackFits, tables
  <2> QED BY <1>1, <2>1 DEF OutboxInv, FallbacksFit, TypeOK
<1>5. \A g \in Fallbacks : /\ FellBack(g)' <=> FellBack(g)
                           /\ FellBack(g) => Sms(g)' = Sms(g)
  BY <1>1 DEF FellBack, Sms
<1>6. OneFallback'
  <2>1. \A g \in Fallbacks \ {f} : (Answers(g)' <=> Answers(g)) /\ fallback'[g] = fallback[g]
    BY <1>1 DEF Answers, FellBack
  <2>2. Answers(f)' => r.pc = "inserted"
    BY <1>1 DEF Answers, FellBack
  <2> QED BY <1>1, <2>1, <2>2 DEF OutboxInv, OneFallback
<1>7. Rows'
  <2>1. EventRows' /\ LetterRows'
    BY DEF OutboxInv, Rows, EventRows, LetterRows, tables
  <2>2. \A e \in Emitters : Announcements(e)' = Announcements(e)
    BY DEF Announcements, tables
  <2> QED BY <1>5, <2>1, <2>2 DEF OutboxInv, Rows, DeliveryRows, tables
<1> QED BY <1>2, <1>3, <1>4, <1>6, <1>7 DEF OutboxInv

\* The steps of a fallback before its commit.
LEMMA LoadDeliveryKeeps ==
  ASSUME OutboxInv, NEW f \in Fallbacks, LoadDelivery(f)
  PROVE  OutboxInv'
<1>1. fallback[f] \in FallbackState /\ fallback[f].pc = "idle" /\ FallbackFits(fallback[f])
  BY OutboxTypes DEF OutboxInv, FallbacksFit, LoadDelivery, FallBack
<1>2. UNCHANGED <<active, consented, tables, author, emitter>>
  BY DEF LoadDelivery, FallBack
<1>3. CASE FallBack(f, "idle", [fallback[f] EXCEPT !.pc = "ignored"])
  <2> DEFINE r == [fallback[f] EXCEPT !.pc = "ignored"]
  <2>1. fallback' = [fallback EXCEPT ![f] = r]
    BY <1>3 DEF FallBack
  <2>2. r \in FallbackState /\ r.pc = "ignored" /\ FallbackFits(r)
    BY <1>1 DEF FallbackState, FallbackFits
  <2> QED BY <1>1, <1>2, <2>1, <2>2, FallbackMoves
<1>4. ASSUME NEW d \in deliveries, d.channel = "kakao_alimtalk",
             FallBack(f, "idle", [fallback[f] EXCEPT !.pc = "loaded", !.original = d,
                                                     !.ever = d.recipient \in consented])
      PROVE  OutboxInv'
  <2> DEFINE r == [fallback[f] EXCEPT !.pc = "loaded", !.original = d,
                                      !.ever = d.recipient \in consented]
  <2>1. fallback' = [fallback EXCEPT ![f] = r]
    BY <1>4 DEF FallBack
  <2>2. r \in FallbackState
    <3>1. d \in Delivery
      BY DEF OutboxInv, TypeOK
    <3>2. \A x \in BOOLEAN :
            [fallback[f] EXCEPT !.pc = "loaded", !.original = d, !.ever = x] \in FallbackState
      BY <1>1, <3>1 DEF FallbackState
    <3>3. (d.recipient \in consented) \in BOOLEAN
      OBVIOUS
    <3> QED BY <3>2, <3>3
  <2>3. /\ r.pc = "loaded" /\ r.original = d /\ r.letter = {}
        /\ d.recipient \in consented => r.ever
    BY <1>1 DEF FallbackState, FallbackFits
  <2> HIDE DEF r
  <2>4. FallbackFits(r)
    BY <1>4, <2>3 DEF FallbackFits
  <2> QED BY <1>1, <1>2, <2>1, <2>2, <2>3, <2>4, FallbackMoves
<1> QED BY <1>3, <1>4 DEF LoadDelivery

LEMMA CheckConsentKeeps ==
  ASSUME OutboxInv, NEW f \in Fallbacks, CheckConsent(f)
  PROVE  OutboxInv'
<1>1. fallback[f] \in FallbackState /\ fallback[f].pc = "loaded" /\ FallbackFits(fallback[f])
  BY OutboxTypes DEF OutboxInv, FallbacksFit, CheckConsent
<1>2. UNCHANGED <<active, consented, tables, author, emitter>>
  BY DEF CheckConsent, Refuse, FallBack
<1>3. ASSUME NEW reason \in Reason, Refuse(f, reason)
      PROVE  OutboxInv'
  <2> DEFINE r == [fallback[f] EXCEPT !.pc = "refusing", !.letter = {reason}]
  <2>1. fallback' = [fallback EXCEPT ![f] = r]
    BY <1>3 DEF Refuse, FallBack
  <2>2. r \in FallbackState
    BY <1>1 DEF FallbackState
  <2>3. /\ r.pc = "refusing" /\ r.letter = {reason}
        /\ r.original = fallback[f].original /\ r.ever = fallback[f].ever
    BY <1>1 DEF FallbackState
  <2> HIDE DEF r
  <2>4. FallbackFits(r)
    BY <1>1, <2>3 DEF FallbackFits
  <2> QED BY <1>1, <1>2, <2>1, <2>2, <2>3, <2>4, FallbackMoves
<1>4. CASE /\ fallback[f].original.recipient \in consented /\ fallback[f].original.fallback
           /\ FallBack(f, "loaded", [fallback[f] EXCEPT !.pc = "allowed"])
  <2> DEFINE r == [fallback[f] EXCEPT !.pc = "allowed"]
  <2>1. fallback' = [fallback EXCEPT ![f] = r]
    BY <1>4 DEF FallBack
  <2>2. r \in FallbackState
    BY <1>1 DEF FallbackState
  <2>3. /\ r.pc = "allowed" /\ r.letter = fallback[f].letter
        /\ r.original = fallback[f].original /\ r.ever = fallback[f].ever
    BY <1>1 DEF FallbackState
  <2> HIDE DEF r
  <2>4. FallbackFits(r)
    BY <1>1, <1>4, <2>3 DEF FallbackFits
  <2> QED BY <1>1, <1>2, <2>1, <2>2, <2>3, <2>4, FallbackMoves
<1>5. "sms_fallback_consent_missing" \in Reason /\ "sms_fallback_body_missing" \in Reason
  BY DEF Reason
<1> QED BY <1>3, <1>4, <1>5 DEF CheckConsent

\* The key of a fallback is found if one was committed for the same original.
LEMMA InsertFallbackKeeps ==
  ASSUME OutboxInv, NEW f \in Fallbacks, InsertFallback(f)
  PROVE  OutboxInv'
<1>1. fallback[f] \in FallbackState /\ fallback[f].pc = "allowed" /\ FallbackFits(fallback[f])
  BY OutboxTypes DEF OutboxInv, FallbacksFit, InsertFallback
<1>2. UNCHANGED <<active, consented, tables, author, emitter>>
  BY DEF InsertFallback, FallBack
<1>3. ASSUME NEW pc \in {"duplicate", "inserted"},
             FallBack(f, "allowed", [fallback[f] EXCEPT !.pc = pc]),
             pc = "inserted" => ~HasFallback(fallback[f].original)
      PROVE  OutboxInv'
  <2> DEFINE r == [fallback[f] EXCEPT !.pc = pc]
  <2>1. fallback' = [fallback EXCEPT ![f] = r]
    BY <1>3 DEF FallBack
  <2>2. r \in FallbackState
    BY <1>1 DEF FallbackState
  <2>3. /\ r.pc = pc /\ r.letter = fallback[f].letter
        /\ r.original = fallback[f].original /\ r.ever = fallback[f].ever
    BY <1>1 DEF FallbackState
  <2> HIDE DEF r
  <2>4. FallbackFits(r)
    BY <1>1, <2>3 DEF FallbackFits
  <2>5. ASSUME pc = "inserted", NEW g \in Fallbacks \ {f}, Answers(g),
               fallback[g].original = fallback[f].original
        PROVE  FALSE
    <3>1. FellBack(g) /\ Sms(g) \in deliveries
      BY <2>5 DEF InsertFallback, Answers, OutboxInv, Rows, DeliveryRows
    <3>2. fallback[f].original \in Delivery
      BY <1>1 DEF FallbackFits, OutboxInv, TypeOK
    <3>3. /\ Sms(g).by = g /\ Sms(g).channel = "sms"
          /\ Sms(g) = [fallback[f].original EXCEPT !.by = g, !.channel = "sms", !.fallback = FALSE]
      BY <2>5, <3>2 DEF Sms, Delivery
    <3>4. HasFallback(fallback[f].original)
      BY <3>1, <3>3 DEF HasFallback
    <3> QED BY <1>3, <2>5, <3>4
  <2> QED BY <1>1, <1>2, <1>3, <2>1, <2>2, <2>3, <2>4, <2>5, FallbackMoves
<1> QED BY <1>3 DEF InsertFallback

LEMMA AbortFallbackKeeps ==
  ASSUME OutboxInv, NEW f \in Fallbacks, AbortFallback(f)
  PROVE  OutboxInv'
<1>1. fallback[f] \in FallbackState /\ fallback[f].pc # "committed"
  BY OutboxTypes DEF OutboxInv, AbortFallback, FallingBack
<1>2. UNCHANGED <<active, consented, tables, author, emitter>>
  BY DEF AbortFallback, FallBack
<1> DEFINE r == [fallback[f] EXCEPT !.pc = "aborted"]
<1>3. fallback' = [fallback EXCEPT ![f] = r]
  BY DEF AbortFallback, FallBack
<1>4. r \in FallbackState /\ r.pc = "aborted" /\ FallbackFits(r)
  BY <1>1 DEF FallbackState, FallbackFits
<1> QED BY <1>1, <1>2, <1>3, <1>4, FallbackMoves

\* The commit of a fallback or of its refusal.
LEMMA CommitFallbackKeeps ==
  ASSUME OutboxInv, NEW f \in Fallbacks, CommitFallback(f)
  PROVE  OutboxInv'
<1> DEFINE r == [fallback[f] EXCEPT !.pc = "committed"]
<1>1. /\ fallback[f] \in FallbackState /\ fallback[f].letter \subseteq Reason
      /\ fallback[f].pc \in {"refusing", "inserted"}
      /\ FallbackFits(fallback[f])
  BY OutboxTypes DEF OutboxInv, FallbacksFit, CommitFallback, FallBack
<1>2. /\ UNCHANGED <<active, consented, author, emitter, templateExists, versions, events>>
      /\ fallback' = [fallback EXCEPT ![f] = r]
      /\ deliveries' = IF fallback[f].pc = "inserted" THEN deliveries \cup {Sms(f)} ELSE deliveries
      /\ deadLetters' = deadLetters \cup [by : {f}, reason : fallback[f].letter]
  BY DEF CommitFallback, FallBack
<1>3. /\ fallback' \in [Fallbacks -> FallbackState]
      /\ fallback'[f] = r
      /\ \A g \in Fallbacks : g # f => fallback'[g] = fallback[g]
  <2>1. r \in FallbackState
    BY <1>1 DEF FallbackState
  <2> QED BY <1>2, <2>1 DEF OutboxInv, TypeOK
<1>4. /\ r.pc = "committed" /\ r.original = fallback[f].original
      /\ r.letter = fallback[f].letter /\ r.ever = fallback[f].ever
  BY <1>1 DEF FallbackState
<1> HIDE DEF r
<1>5. fallback[f].letter = {} <=> fallback[f].pc = "inserted"
  BY <1>1 DEF FallbackFits
<1>6. TypeOK'
  <2>1. Sms(f) \in Delivery
    <3>1. fallback[f].original \in Delivery
      BY <1>1 DEF FallbackFits, OutboxInv, TypeOK
    <3> QED BY <3>1 DEF Sms, Delivery, Channel
  <2>2. deadLetters' \subseteq [by : Emitters \cup Fallbacks, reason : Reason]
    BY <1>1, <1>2 DEF OutboxInv, TypeOK
  <2>3. deliveries' \subseteq Delivery
    BY <1>2, <2>1 DEF OutboxInv, TypeOK
  <2> QED BY <1>2, <1>3, <2>2, <2>3 DEF OutboxInv, TypeOK
<1>7. EmittersFit' /\ OneClaim'
  BY <1>2 DEF OutboxInv, EmittersFit, EmitterFits, OneClaim, Claims, Emitting,
              NewestUsable, Usable
<1>8. FallbacksFit'
  <2>1. deliveries \subseteq deliveries'
    BY <1>2
  <2>2. \A x \in FallbackState : FallbackFits(x) => FallbackFits(x)'
    BY <1>2, <2>1 DEF FallbackFits
  <2>3. FallbackFits(r)
    BY <1>1, <1>4, <1>5 DEF FallbackFits
  <2>4. r \in FallbackState
    BY <1>3
  <2> QED BY <1>3, <2>2, <2>3, <2>4 DEF OutboxInv, FallbacksFit, TypeOK
<1>9. \A g \in Fallbacks : /\ FellBack(g)' <=> FellBack(g) \/ (g = f /\ fallback[f].pc = "inserted")
                           /\ Answers(g)' <=> Answers(g)
                           /\ fallback'[g].original = fallback[g].original
                           /\ Sms(g)' = Sms(g)
  BY <1>1, <1>3, <1>4, <1>5 DEF FellBack, Answers, Sms
<1>10. OneFallback'
  BY <1>9 DEF OutboxInv, OneFallback
<1>11. Rows'
  <2>1. EventRows'
    BY <1>2 DEF OutboxInv, Rows, EventRows
  <2>2. LetterRows'
    <3>1. f \notin Emitters
      BY SessionsAssumption
    <3>2. \A e \in Emitters : \A l \in deadLetters' : l.by = e => l \in deadLetters
      BY <1>2, <3>1
    <3>3. deadLetters \subseteq deadLetters'
      BY <1>2
    <3> QED BY <1>2, <3>2, <3>3 DEF OutboxInv, Rows, LetterRows
  <2>3. DeliveryRows'
    <3>1. \A e \in Emitters : Announcements(e)' = Announcements(e)
      BY <1>2 DEF Announcements
    <3> QED BY <1>2, <1>9, <3>1 DEF OutboxInv, Rows, DeliveryRows
  <2> QED BY <2>1, <2>2, <2>3 DEF Rows
<1> QED BY <1>6, <1>7, <1>8, <1>10, <1>11 DEF OutboxInv

\* The types of what authors write.
LEMMA AuthorTypes ==
  ASSUME OutboxInv, NumberInv, NumberInv', NEW a \in Authors, AuthorStep(a) \/ AbortAuthor(a)
  PROVE  /\ TypeOK'
         /\ UNCHANGED <<active, consented, events, deliveries, deadLetters, emitter, fallback>>
<1>1. UNCHANGED <<active, consented, events, deliveries, deadLetters, emitter, fallback>>
  BY DEF AuthorStep, AbortAuthor, InsertTemplate, CommitTemplate, RefuseVersion, NumberVersion,
         InsertVersion, CommitVersion, Author, tables
<1>2. author' \in [Authors -> AuthorState]
  BY DEF NumberInv, Typed
<1>3. /\ templateExists' \in BOOLEAN
      /\ DOMAIN versions' \subseteq Nat /\ versions' \in [DOMAIN versions' -> Contents]
  <2>1. CASE templateExists' \in BOOLEAN /\ versions' = versions
    BY <2>1 DEF OutboxInv, TypeOK
  <2>2. CASE CommitVersion(a)
    <3>1. author[a].number \in Nat /\ author[a].content \in Contents
      BY DEF OutboxInv, TypeOK, AuthorState
    <3>2. versions' = [v \in DOMAIN versions \cup {author[a].number} |->
                         IF v = author[a].number THEN author[a].content ELSE versions[v]]
          /\ templateExists' = templateExists
      BY <2>2 DEF CommitVersion
    <3> QED BY <3>1, <3>2 DEF OutboxInv, TypeOK
  <2> QED BY <2>1, <2>2 DEF AuthorStep, AbortAuthor, InsertTemplate, CommitTemplate, RefuseVersion,
               NumberVersion, InsertVersion, Author, tables, OutboxInv, TypeOK
<1> QED BY <1>1, <1>2, <1>3 DEF OutboxInv, TypeOK

\* Every step keeps the invariant.
LEMMA StepOutboxInv ==
  ASSUME OutboxInv, NumberInv, [Next]_vars
  PROVE  OutboxInv'
<1>1. NumberInv' /\ VersionsStay
  BY StepNumberInv DEF VersionsStay
<1>2. CASE UNCHANGED vars
  <2>1. EmittersFit' /\ OneClaim'
    <3>1. EmittersFit'
      BY <1>2 DEF vars, tables, OutboxInv, EmittersFit, EmitterFits, NewestUsable, Usable
    <3>2. OneClaim'
      BY <1>2 DEF vars, OutboxInv, OneClaim, Claims, Emitting
    <3> QED BY <3>1, <3>2
  <2>2. FallbacksFit' /\ OneFallback'
    BY <1>2 DEF vars, tables, OutboxInv, FallbacksFit, FallbackFits, OneFallback, Answers, FellBack
  <2>3. Rows'
    BY <1>2, SameSessions DEF vars
  <2>4. TypeOK'
    BY <1>2 DEF vars, tables, OutboxInv, TypeOK
  <2> QED BY <2>1, <2>2, <2>3, <2>4 DEF OutboxInv
<1>3. ASSUME NEW a \in Authors, AuthorStep(a) \/ AbortAuthor(a)
      PROVE  OutboxInv'
  BY <1>1, <1>3, AuthorTypes, AuthorKeeps
<1>4. ASSUME NEW e \in Emitters, EmitterStep(e) \/ AbortEvent(e)
      PROVE  OutboxInv'
  BY <1>4, InsertEventKeeps, ReadRecipientsKeeps, ReadTemplateKeeps, RenderKeeps,
     CommitEventKeeps, AbortEventKeeps DEF EmitterStep
<1>5. ASSUME NEW f \in Fallbacks, FallbackStep(f) \/ AbortFallback(f)
      PROVE  OutboxInv'
  BY <1>5, LoadDeliveryKeeps, CheckConsentKeeps, InsertFallbackKeeps, CommitFallbackKeeps,
     AbortFallbackKeeps DEF FallbackStep
<1>6. ASSUME NEW r \in Recipients, NEW on \in BOOLEAN, SetActive(r, on)
      PROVE  OutboxInv'
  BY <1>6, SetActiveKeeps
<1>7. ASSUME NEW r \in Consenters, NEW on \in BOOLEAN, SetConsent(r, on)
      PROVE  OutboxInv'
  BY <1>7, SetConsentKeeps
<1> QED BY <1>2, <1>3, <1>4, <1>5, <1>6, <1>7 DEF Next

LEMMA OutboxInvariant == Spec => []OutboxInv
BY InitOutboxInv, StepOutboxInv, NumberInvariant, PTL DEF Spec

-----------------------------------------------------------------------------
(* What the invariant gives *)

\* A delivery of an emitter was added by its own committed session.
LEMMA AddedByEmitter ==
  ASSUME OutboxInv, NEW e \in Emitters, NEW d \in AddedBy(e)
  PROVE  emitter[e].pc = "committed" /\ d \in Announcements(e)
<1>1. d \in deliveries /\ d.by = e
  BY DEF AddedBy
<1>2. ASSUME NEW g \in Fallbacks, FellBack(g), d = Sms(g)
      PROVE  FALSE
  <2>1. fallback[g].original \in Delivery
    BY <1>2 DEF OutboxInv, FallbacksFit, FallbackFits, FellBack, TypeOK
  <2>2. d.by = g
    BY <1>2, <2>1 DEF Sms, Delivery
  <2> QED BY <1>1, <2>2, SessionsAssumption
<1>3. PICK x \in Emitters : emitter[x].pc = "committed" /\ d \in Announcements(x)
  BY <1>1, <1>2 DEF OutboxInv, Rows, DeliveryRows
<1>4. d.by = x
  BY <1>3, AnnouncementsTyped
<1> QED BY <1>1, <1>3, <1>4

\* What an announcement says, in terms of the session that added it.
LEMMA AnnouncementHas ==
  ASSUME OutboxInv, NEW e \in Emitters, NEW d \in Announcements(e)
  PROVE  /\ emitter[e].version # 0
         /\ d = [by |-> e, result |-> emitter[e].result, recipient |-> d.recipient,
                 version |-> emitter[e].version, channel |-> "kakao_alimtalk",
                 fallback |-> versions[emitter[e].version].fallback]
         /\ d.recipient \in emitter[e].to
         /\ d.version = emitter[e].version
         /\ d.result = emitter[e].result
BY DEF Announcements

\* The types of the tables and of the transactions.
THEOREM OutboxTyped == Spec => []TypeOK
BY OutboxInvariant, PTL DEF OutboxInv

\* An expansion that commits tells everybody who was active throughout its
\* transaction and nobody who was active at no time of it, for any number of
\* emitters and however recipients come and go between its reads.
THEOREM AudienceTold == Spec => []Audience
<1>1. ASSUME OutboxInv PROVE Audience
  <2> SUFFICES ASSUME NEW e \in Emitters, emitter[e].pc = "committed"
               PROVE  /\ {d.recipient : d \in AddedBy(e)} \subseteq emitter[e].ever
                      /\ emitter[e].version # 0 =>
                           emitter[e].stable \subseteq {d.recipient : d \in AddedBy(e)}
    BY DEF Audience
  <2>1. EmitterFits(emitter[e])
    BY <1>1 DEF OutboxInv, EmittersFit
  <2>2. \A d \in AddedBy(e) : d.recipient \in emitter[e].ever
    <3> SUFFICES ASSUME NEW d \in AddedBy(e) PROVE d.recipient \in emitter[e].ever
      OBVIOUS
    <3>1. d \in Announcements(e)
      BY <1>1, AddedByEmitter
    <3>2. emitter[e].version # 0 /\ d.recipient \in emitter[e].to
      BY <1>1, <3>1, AnnouncementHas
    <3> QED BY <2>1, <3>2 DEF EmitterFits
  <2>3. ASSUME emitter[e].version # 0, NEW x \in emitter[e].stable
        PROVE  \E d \in AddedBy(e) : d.recipient = x
    <3> DEFINE d == [by |-> e, result |-> emitter[e].result, recipient |-> x,
                     version |-> emitter[e].version, channel |-> "kakao_alimtalk",
                     fallback |-> versions[emitter[e].version].fallback]
    <3>1. x \in emitter[e].to
      BY <2>1, <2>3 DEF EmitterFits
    <3>2. d \in Announcements(e)
      BY <2>3, <3>1 DEF Announcements
    <3>3. d \in deliveries
      BY <1>1, <3>2 DEF OutboxInv, Rows, DeliveryRows
    <3> QED BY <3>3 DEF AddedBy
  <2> QED BY <2>2, <2>3
<1> QED BY <1>1, OutboxInvariant, PTL

\* They are told with a reviewed version that was not superseded when the
\* transaction began, for any number of authors, and a missing template is
\* reported only if there was none then.
THEOREM CurrentTemplateUsed == Spec => []CurrentTemplate
<1>1. ASSUME OutboxInv PROVE CurrentTemplate
  <2> SUFFICES ASSUME NEW e \in Emitters, emitter[e].pc = "committed"
               PROVE  /\ \A d \in AddedBy(e) :
                           /\ d.version \in DOMAIN versions /\ d.version >= emitter[e].floor
                           /\ versions[d.version].approved
                           /\ versions[d.version].purpose = "transactional"
                      /\ Missing \in emitter[e].letter => emitter[e].floor = 0
    BY DEF CurrentTemplate, Missing
  <2>1. EmitterFits(emitter[e]) /\ emitter[e].floor \in Nat /\ emitter[e].version \in Nat
    BY <1>1, OutboxTypes DEF OutboxInv, EmittersFit
  <2>2. ASSUME NEW d \in AddedBy(e)
        PROVE  /\ d.version \in DOMAIN versions /\ d.version >= emitter[e].floor
               /\ versions[d.version].approved
               /\ versions[d.version].purpose = "transactional"
    <3>1. d \in Announcements(e)
      BY <1>1, AddedByEmitter
    <3>2. emitter[e].version # 0 /\ d.version = emitter[e].version
      BY <1>1, <3>1, AnnouncementHas
    <3>3. emitter[e].version \in DOMAIN versions /\ Usable(emitter[e].version)
          /\ emitter[e].floor <= emitter[e].version
      BY <2>1, <3>2 DEF EmitterFits
    <3> QED BY <2>1, <3>2, <3>3 DEF Usable
  <2> QED BY <2>1, <2>2 DEF EmitterFits
<1> QED BY <1>1, OutboxInvariant, PTL

\* Every event has exactly one answer, and a result one event, for any number
\* of sessions that emit for the same result: one dead letter, or deliveries
\* of one version to different recipients.
THEOREM EventsAreAnswered == Spec => []EventsAnswered
<1>1. ASSUME OutboxInv PROVE EventsAnswered
  <2>1. ASSUME NEW x \in events, NEW y \in events, x.result = y.result
        PROVE  x = y
    <3>1. PICK d \in Emitters : emitter[d].pc = "committed" /\ x = [by |-> d, result |-> emitter[d].result]
      BY <1>1 DEF OutboxInv, Rows, EventRows
    <3>2. PICK e \in Emitters : emitter[e].pc = "committed" /\ y = [by |-> e, result |-> emitter[e].result]
      BY <1>1 DEF OutboxInv, Rows, EventRows
    <3>3. d = e
      BY <1>1, <2>1, <3>1, <3>2 DEF OutboxInv, OneClaim, Claims
    <3> QED BY <3>1, <3>2, <3>3
  <2>2. ASSUME NEW ev \in events
        PROVE  \/ AddedBy(ev.by) = {} /\ Cardinality({l \in deadLetters : l.by = ev.by}) = 1
               \/ /\ {l \in deadLetters : l.by = ev.by} = {} /\ AddedBy(ev.by) # {}
                  /\ \A c, d \in AddedBy(ev.by) :
                       c.version = d.version /\ (c.recipient = d.recipient => c = d)
    <3>1. PICK e \in Emitters : emitter[e].pc = "committed" /\ ev.by = e
      BY <1>1 DEF OutboxInv, Rows, EventRows
    <3> DEFINE letters == {l \in deadLetters : l.by = e}
    <3>2. EmitterFits(emitter[e])
      BY <1>1 DEF OutboxInv, EmittersFit
    <3>3. letters = {[by |-> e, reason |-> x] : x \in emitter[e].letter}
      <4>1. emitter[e].letter \subseteq Reason
        BY <1>1, OutboxTypes DEF OutboxInv
      <4>2. \A l \in letters : l.reason \in Reason /\ l = [by |-> e, reason |-> l.reason]
        BY <1>1 DEF OutboxInv, TypeOK
      <4>3. \A x \in Reason : [by |-> e, reason |-> x] \in deadLetters <=> x \in emitter[e].letter
        BY <1>1, <3>1 DEF OutboxInv, Rows, LetterRows
      <4> QED BY <4>1, <4>2, <4>3
    <3>4. CASE emitter[e].version = 0 /\ \E x \in Reason : emitter[e].letter = {x}
      <4>1. AddedBy(e) = {}
        BY <1>1, <3>4, AddedByEmitter DEF Announcements
      <4>2. PICK x \in Reason : letters = {[by |-> e, reason |-> x]}
        BY <3>3, <3>4
      <4>3. Cardinality(letters) = 1
        BY <4>2, FS_Singleton
      <4> QED BY <3>1, <4>1, <4>3
    <3>5. CASE emitter[e].version # 0 /\ emitter[e].letter = {}
      <4>1. letters = {}
        BY <3>3, <3>5
      <4>2. AddedBy(e) # {}
        <5>1. PICK x \in emitter[e].to : TRUE
          BY <3>2, <3>5 DEF EmitterFits
        <5>2. [by |-> e, result |-> emitter[e].result, recipient |-> x,
               version |-> emitter[e].version, channel |-> "kakao_alimtalk",
               fallback |-> versions[emitter[e].version].fallback] \in Announcements(e)
          BY <3>5 DEF Announcements
        <5> QED BY <1>1, <3>1, <5>2 DEF OutboxInv, Rows, DeliveryRows, AddedBy
      <4>3. ASSUME NEW c \in AddedBy(e), NEW d \in AddedBy(e)
            PROVE  c.version = d.version /\ (c.recipient = d.recipient => c = d)
        <5>1. c \in Announcements(e) /\ d \in Announcements(e)
          BY <1>1, AddedByEmitter
        <5>2. c = [by |-> e, result |-> emitter[e].result, recipient |-> c.recipient,
                   version |-> emitter[e].version, channel |-> "kakao_alimtalk",
                   fallback |-> versions[emitter[e].version].fallback]
              /\ c.version = emitter[e].version
          BY <1>1, <5>1, AnnouncementHas
        <5>3. d = [by |-> e, result |-> emitter[e].result, recipient |-> d.recipient,
                   version |-> emitter[e].version, channel |-> "kakao_alimtalk",
                   fallback |-> versions[emitter[e].version].fallback]
              /\ d.version = emitter[e].version
          BY <1>1, <5>1, AnnouncementHas
        <5> QED BY <5>2, <5>3
      <4> QED BY <3>1, <4>1, <4>2, <4>3
    <3> QED BY <3>1, <3>2, <3>4, <3>5 DEF EmitterFits
  <2> QED BY <2>1, <2>2 DEF EventsAnswered
<1> QED BY <1>1, OutboxInvariant, PTL

\* A fallback's delivery was added by its own committed session.
LEMMA SmsRows ==
  ASSUME OutboxInv, NEW s \in deliveries, s.channel = "sms"
  PROVE  \E f \in Fallbacks : FellBack(f) /\ s = Sms(f)
<1>1. \A e \in Emitters : s \notin Announcements(e)
  BY AnnouncementsTyped
<1> QED BY <1>1 DEF OutboxInv, Rows, DeliveryRows

\* What such a delivery copies of its original.
LEMMA SmsHas ==
  ASSUME OutboxInv, NEW f \in Fallbacks, FellBack(f)
  PROVE  LET d == fallback[f].original IN
         /\ d \in deliveries /\ d.channel = "kakao_alimtalk" /\ d.fallback /\ fallback[f].ever
         /\ Sms(f).by = f /\ Sms(f).channel = "sms"
         /\ Sms(f).result = d.result /\ Sms(f).recipient = d.recipient
<1> DEFINE d == fallback[f].original
<1>1. FallbackFits(fallback[f])
  BY DEF OutboxInv, FallbacksFit
<1>2. d \in deliveries /\ d.channel = "kakao_alimtalk" /\ d.fallback /\ fallback[f].ever
  BY <1>1 DEF FallbackFits, FellBack
<1>3. d \in Delivery
  BY <1>2 DEF OutboxInv, TypeOK
<1>4. /\ Sms(f).by = f /\ Sms(f).channel = "sms"
      /\ Sms(f).result = d.result /\ Sms(f).recipient = d.recipient
  BY <1>3 DEF Sms, Delivery
<1> QED BY <1>2, <1>4

\* The originals are told apart by result and recipient: a result has one
\* emitter, which sends to a recipient once.
LEMMA OriginalsDiffer ==
  ASSUME OutboxInv, NEW c \in deliveries, NEW d \in deliveries,
         c.channel = "kakao_alimtalk", d.channel = "kakao_alimtalk",
         c.result = d.result, c.recipient = d.recipient
  PROVE  c = d
<1>1. \A x \in deliveries : x.channel = "kakao_alimtalk" =>
        \E e \in Emitters : emitter[e].pc = "committed" /\ x \in Announcements(e)
  <2>1. \A f \in Fallbacks : FellBack(f) => Sms(f).channel = "sms"
    BY SmsHas
  <2> QED BY <2>1 DEF OutboxInv, Rows, DeliveryRows
<1>2. PICK e \in Emitters : emitter[e].pc = "committed" /\ c \in Announcements(e)
  BY <1>1
<1>3. PICK g \in Emitters : emitter[g].pc = "committed" /\ d \in Announcements(g)
  BY <1>1
<1>4. /\ c.result = emitter[e].result
      /\ c = [by |-> e, result |-> emitter[e].result, recipient |-> c.recipient,
              version |-> emitter[e].version, channel |-> "kakao_alimtalk",
              fallback |-> versions[emitter[e].version].fallback]
  BY <1>2, AnnouncementHas
<1>5. /\ d.result = emitter[g].result
      /\ d = [by |-> g, result |-> emitter[g].result, recipient |-> d.recipient,
              version |-> emitter[g].version, channel |-> "kakao_alimtalk",
              fallback |-> versions[emitter[g].version].fallback]
  BY <1>3, AnnouncementHas
<1>6. e = g
  BY <1>2, <1>3, <1>4, <1>5 DEF OutboxInv, OneClaim, Claims
<1> QED BY <1>4, <1>5, <1>6

\* A delivery gets at most one fallback, and only if it carries a fallback
\* body, whatever number of callers ask for it at once.
THEOREM FallbackIsOnce == Spec => []FallbackOnce
<1>1. ASSUME OutboxInv PROVE FallbackOnce
  <2> SUFFICES ASSUME NEW s \in deliveries, s.channel = "sms"
               PROVE  /\ \A t \in deliveries : t = [s EXCEPT !.by = t.by] => s = t
                      /\ \E d \in deliveries : d.channel = "kakao_alimtalk" /\ d.fallback
                                               /\ d.result = s.result /\ d.recipient = s.recipient
    BY DEF FallbackOnce
  <2>1. PICK f \in Fallbacks : FellBack(f) /\ s = Sms(f)
    BY <1>1, SmsRows
  <2> DEFINE d == fallback[f].original
  <2>2. /\ d \in deliveries /\ d.channel = "kakao_alimtalk" /\ d.fallback
        /\ s.result = d.result /\ s.recipient = d.recipient
    BY <1>1, <2>1, SmsHas
  <2>3. ASSUME NEW t \in deliveries, t = [s EXCEPT !.by = t.by]
        PROVE  s = t
    <3>1. t.channel = "sms" /\ t.result = d.result /\ t.recipient = d.recipient
      <4>1. s \in Delivery
        BY <1>1 DEF OutboxInv, TypeOK
      <4>2. t.channel = s.channel /\ t.result = s.result /\ t.recipient = s.recipient
        BY <2>3, <4>1 DEF Delivery
      <4> QED BY <2>2, <4>2
    <3>2. PICK g \in Fallbacks : FellBack(g) /\ t = Sms(g)
      BY <1>1, <3>1, SmsRows
    <3> DEFINE c == fallback[g].original
    <3>3. /\ c \in deliveries /\ c.channel = "kakao_alimtalk"
          /\ t.result = c.result /\ t.recipient = c.recipient
      BY <1>1, <3>2, SmsHas
    <3>4. c.result = d.result /\ c.recipient = d.recipient
      BY <3>1, <3>3
    <3>5. c = d
      BY <1>1, <2>2, <3>3, <3>4, OriginalsDiffer
    <3>6. f = g
      BY <1>1, <2>1, <3>2, <3>5 DEF OutboxInv, OneFallback, Answers
    <3> QED BY <2>1, <3>2, <3>6
  <2> QED BY <2>2, <2>3
<1> QED BY <1>1, OutboxInvariant, PTL

\* No fallback goes to a recipient whose consent was in force at no time of the
\* call, at whatever step the consent is read, granted or revoked.
THEOREM FallbackHadConsent == Spec => []FallbackConsented
<1>1. ASSUME OutboxInv PROVE FallbackConsented
  <2> SUFFICES ASSUME NEW f \in Fallbacks, NEW d \in AddedBy(f) PROVE fallback[f].ever
    BY DEF FallbackConsented
  <2>1. d \in deliveries /\ d.by = f
    BY DEF AddedBy
  <2>2. \A e \in Emitters : d \notin Announcements(e)
    BY <1>1, <2>1, AnnouncementsTyped, SessionsAssumption
  <2>3. PICK g \in Fallbacks : FellBack(g) /\ d = Sms(g)
    BY <1>1, <2>1, <2>2 DEF OutboxInv, Rows, DeliveryRows
  <2>4. g = f
    BY <1>1, <2>1, <2>3, SmsHas
  <2> QED BY <1>1, <2>3, <2>4, SmsHas
<1> QED BY <1>1, OutboxInvariant, PTL

-----------------------------------------------------------------------------
(* The promise *)

\* What is announced renders, what authors number may be published, a letter's
\* reason is one of its kind of transaction, and rows bear the name of a
\* transaction that has committed.
EmitterMeans(r) ==
  /\ r.pc = "expanded" /\ r.version # 0 => versions[r.version].renders
  /\ r.letter \subseteq {"no_active_recipients", Missing}

FallbackMeans(r) ==
  /\ r.letter # {} => r.letter = {"sms_fallback_consent_missing"}
                      \/ (r.letter = {"sms_fallback_body_missing"} /\ ~r.original.fallback)

AuthorMeans(r) == r.pc \in {"numbered", "version_inserted"} => Allowed(r.content)

PromiseInv ==
  /\ \A e \in Emitters : EmitterMeans(emitter[e])
  /\ \A f \in Fallbacks : FallbackMeans(fallback[f])
  /\ \A a \in Authors : AuthorMeans(author[a])
  /\ \A f \in Fallbacks : fallback[f].pc # "committed" => \A l \in deadLetters : l.by # f

\* What the steps do to the session of the one that takes them.
LEMMA EmitTo ==
  ASSUME OutboxInv, NEW e \in Emitters, NEW from, NEW next, Emit(e, from, next)
  PROVE  /\ emitter[e] \in EmitterState /\ emitter[e].pc = from /\ emitter'[e] = next
         /\ \A d \in Emitters \ {e} : emitter'[d] = emitter[d]
         /\ author' = author /\ fallback' = fallback
BY DEF OutboxInv, TypeOK, Emit

LEMMA FallBackTo ==
  ASSUME OutboxInv, NEW f \in Fallbacks, NEW from, NEW next, FallBack(f, from, next)
  PROVE  /\ fallback[f] \in FallbackState /\ fallback[f].pc = from /\ fallback'[f] = next
         /\ \A g \in Fallbacks \ {f} : fallback'[g] = fallback[g]
         /\ author' = author /\ emitter' = emitter
BY DEF OutboxInv, TypeOK, FallBack

LEMMA AuthorTo ==
  ASSUME OutboxInv, NEW a \in Authors, NEW from, NEW to, Author(a, from, to)
  PROVE  /\ author[a] \in AuthorState /\ author[a].pc = from
         /\ author'[a].pc = to /\ author'[a].content = author[a].content
         /\ \A b \in Authors \ {a} : author'[b] = author[b]
BY DEF OutboxInv, TypeOK, Author, AuthorState

LEMMA InitPromiseInv == Init => PromiseInv
BY DEF Init, PromiseInv, EmitterMeans, FallbackMeans, AuthorMeans

\* Authors.
LEMMA AuthorMeansKept ==
  ASSUME OutboxInv, NumberInv, PromiseInv, NumberInv', VersionsStay,
         NEW a \in Authors, AuthorStep(a) \/ AbortAuthor(a)
  PROVE  PromiseInv'
<1>1. UNCHANGED <<active, consented, events, deliveries, deadLetters, emitter, fallback>>
  BY AuthorTypes
<1>2. /\ AuthorMeans(author'[a])
      /\ \A b \in Authors \ {a} : author'[b] = author[b]
  <2>1. author[a] \in AuthorState /\ AuthorMeans(author[a])
    BY DEF OutboxInv, TypeOK, PromiseInv
  <2>2. CASE NumberVersion(a)
    <3>1. /\ author'[a] = [author[a] EXCEPT !.pc = "numbered", !.number = NextVersion]
          /\ \A b \in Authors \ {a} : author'[b] = author[b]
          /\ Allowed(author[a].content)
      BY <2>2 DEF NumberVersion, OutboxInv, TypeOK
    <3>2. author'[a].content = author[a].content
      BY <2>1, <3>1 DEF AuthorState
    <3> QED BY <3>1, <3>2 DEF AuthorMeans
  <2>3. CASE InsertVersion(a)
    <3>1. PICK pc \in {"failed", "version_inserted"} : Author(a, "numbered", pc)
      BY <2>3 DEF InsertVersion
    <3>2. author[a].pc = "numbered" /\ author'[a].content = author[a].content
          /\ \A b \in Authors \ {a} : author'[b] = author[b]
      BY <3>1, AuthorTo
    <3> QED BY <2>1, <3>2 DEF AuthorMeans
  <2>4. CASE InsertTemplate(a) \/ CommitTemplate(a) \/ RefuseVersion(a) \/ CommitVersion(a)
             \/ AbortAuthor(a)
    <3>1. PICK pc \in {"template_inserted", "committed", "refused", "failed"} :
            \E from : Author(a, from, pc)
      BY <2>4 DEF InsertTemplate, CommitTemplate, RefuseVersion, CommitVersion, AbortAuthor
    <3>2. author'[a].pc = pc /\ \A b \in Authors \ {a} : author'[b] = author[b]
      BY <3>1, AuthorTo
    <3> QED BY <3>2 DEF AuthorMeans
  <2> QED BY <2>2, <2>3, <2>4 DEF AuthorStep
<1>4. \A e \in Emitters : EmitterMeans(emitter[e])'
  <2> SUFFICES ASSUME NEW e \in Emitters PROVE EmitterMeans(emitter[e])'
    OBVIOUS
  <2>1. EmitterMeans(emitter[e]) /\ EmitterFits(emitter[e]) /\ emitter'[e] = emitter[e]
    BY <1>1 DEF PromiseInv, OutboxInv, EmittersFit
  <2>2. emitter[e].version # 0 => versions'[emitter[e].version] = versions[emitter[e].version]
    BY <2>1 DEF EmitterFits, VersionsStay
  <2> QED BY <2>1, <2>2 DEF EmitterMeans
<1>5. \A f \in Fallbacks : FallbackMeans(fallback[f])'
  BY <1>1 DEF PromiseInv, FallbackMeans
<1>6. \A b \in Authors : AuthorMeans(author[b])'
  BY <1>2 DEF PromiseInv, AuthorMeans, Allowed
<1> QED BY <1>1, <1>4, <1>5, <1>6 DEF PromiseInv

\* Emitters.
LEMMA EmitterMeansKept ==
  ASSUME OutboxInv, PromiseInv, NEW e \in Emitters, EmitterStep(e) \/ AbortEvent(e)
  PROVE  PromiseInv'
<1>1. EmitterFits(emitter[e]) /\ EmitterMeans(emitter[e])
  BY DEF OutboxInv, EmittersFit, PromiseInv
<1>2. PICK from, next : Emit(e, from, next) /\ EmitterMeans(next)
  <2>1. CASE InsertEvent(e)
    <3>1. PICK next : Emit(e, "idle", next)
                      /\ (\/ next = [emitter[e] EXCEPT !.pc = "duplicate"]
                          \/ next = [emitter[e] EXCEPT !.pc = "inserted", !.stable = active,
                                                       !.ever = active, !.floor = NewestUsable])
      BY <2>1 DEF InsertEvent
    <3>2. next.pc \in {"inserted", "duplicate"} /\ next.letter = emitter[e].letter
      BY <3>1, EmitTo DEF EmitterState
    <3> QED BY <1>1, <3>1, <3>2 DEF EmitterMeans
  <2>2. CASE ReadRecipients(e)
    <3>1. PICK next : Emit(e, "inserted", next)
                      /\ (\/ next = [emitter[e] EXCEPT !.pc = "expanded",
                                                       !.letter = {"no_active_recipients"}]
                          \/ next = [emitter[e] EXCEPT !.pc = "addressed", !.to = active])
      BY <2>2 DEF ReadRecipients
    <3>2. \/ next.letter = {"no_active_recipients"} /\ next.version = emitter[e].version
          \/ next.letter = emitter[e].letter /\ next.pc = "addressed"
      BY <3>1, EmitTo DEF EmitterState
    <3>3. emitter[e].version = 0
      BY <1>1, <3>1 DEF Emit, EmitterFits
    <3> QED BY <1>1, <3>1, <3>2, <3>3 DEF EmitterMeans
  <2>3. CASE ReadTemplate(e)
    <3>1. PICK next : Emit(e, "addressed", next)
                      /\ (\/ next = [emitter[e] EXCEPT !.pc = "expanded", !.letter = {Missing}]
                          \/ next = [emitter[e] EXCEPT !.pc = "rendering", !.version = NewestUsable])
      BY <2>3 DEF ReadTemplate, Missing
    <3>2. \/ next.letter = {Missing} /\ next.version = emitter[e].version
          \/ next.letter = emitter[e].letter /\ next.pc = "rendering"
      BY <3>1, EmitTo DEF EmitterState
    <3>3. emitter[e].version = 0
      BY <1>1, <3>1 DEF Emit, EmitterFits
    <3> QED BY <1>1, <3>1, <3>2, <3>3 DEF EmitterMeans
  <2>4. CASE RenderDeliveries(e)
    <3>1. PICK next : Emit(e, "rendering", next)
                      /\ (\/ next = [emitter[e] EXCEPT !.pc = "expanded"]
                             /\ versions[emitter[e].version].renders
                          \/ next = [emitter[e] EXCEPT !.pc = "unrendered"])
      BY <2>4 DEF RenderDeliveries
    <3>2. /\ next.letter = emitter[e].letter /\ next.version = emitter[e].version
          /\ next.pc = "unrendered" \/ versions[emitter[e].version].renders
      BY <3>1, EmitTo DEF EmitterState
    <3> QED BY <1>1, <3>1, <3>2 DEF EmitterMeans
  <2>5. CASE CommitEvent(e) \/ AbortEvent(e)
    <3>1. PICK from, next : Emit(e, from, next)
                      /\ (\/ next = [emitter[e] EXCEPT !.pc = "committed"]
                          \/ next = [emitter[e] EXCEPT !.pc = "aborted"])
      BY <2>5 DEF CommitEvent, AbortEvent
    <3>2. next.pc \in {"committed", "aborted"} /\ next.letter = emitter[e].letter
      BY <3>1, EmitTo DEF EmitterState
    <3> QED BY <1>1, <3>1, <3>2 DEF EmitterMeans
  <2> QED BY <2>1, <2>2, <2>3, <2>4, <2>5 DEF EmitterStep
<1>3. /\ emitter'[e] = next
      /\ \A d \in Emitters \ {e} : emitter'[d] = emitter[d]
      /\ author' = author /\ fallback' = fallback
  BY <1>2, EmitTo
<1>4. versions' = versions /\ \A l \in deadLetters' : l \in deadLetters \/ l.by = e
  BY DEF EmitterStep, AbortEvent, InsertEvent, ReadRecipients, ReadTemplate,
         RenderDeliveries, CommitEvent, tables
<1>5. \A d \in Emitters : EmitterMeans(emitter[d])'
  BY <1>2, <1>3, <1>4 DEF PromiseInv, EmitterMeans
<1>6. \A f \in Fallbacks : fallback'[f].pc # "committed" => \A l \in deadLetters' : l.by # f
  BY <1>3, <1>4, SessionsAssumption DEF PromiseInv
<1> QED BY <1>3, <1>5, <1>6 DEF PromiseInv, FallbackMeans, AuthorMeans, Allowed

\* Fallbacks.
LEMMA FallbackMeansKept ==
  ASSUME OutboxInv, PromiseInv, NEW f \in Fallbacks, FallbackStep(f) \/ AbortFallback(f)
  PROVE  PromiseInv'
<1>1. FallbackFits(fallback[f]) /\ FallbackMeans(fallback[f])
  BY DEF OutboxInv, FallbacksFit, PromiseInv
<1>2. PICK from, next : /\ FallBack(f, from, next) /\ FallbackMeans(next)
                        /\ \/ deadLetters' = deadLetters /\ from # "committed"
                           \/ next.pc = "committed" /\ \A l \in deadLetters' : l \in deadLetters \/ l.by = f
  <2>1. CASE LoadDelivery(f)
    <3>1. PICK next : /\ FallBack(f, "idle", next)
                      /\ \/ next = [fallback[f] EXCEPT !.pc = "ignored"]
                         \/ \E d, on : next = [fallback[f] EXCEPT !.pc = "loaded", !.original = d,
                                                                  !.ever = on]
      BY <2>1 DEF LoadDelivery
    <3>2. next.letter = fallback[f].letter
      BY <3>1, FallBackTo DEF FallbackState
    <3>3. fallback[f].letter = {}
      BY <1>1, <3>1 DEF FallBack, FallbackFits
    <3>4. deadLetters' = deadLetters
      BY <2>1 DEF LoadDelivery, tables
    <3>5. FallBack(f, "idle", next) /\ FallbackMeans(next)
      BY <3>1, <3>2, <3>3 DEF FallbackMeans
    <3>6. "idle" # "committed"
      OBVIOUS
    <3> QED BY <3>4, <3>5, <3>6
  <2>2. CASE CheckConsent(f)
    <3>1. PICK next :
            /\ FallBack(f, "loaded", next)
            /\ \/ next = [fallback[f] EXCEPT !.pc = "refusing",
                                             !.letter = {"sms_fallback_consent_missing"}]
               \/ /\ next = [fallback[f] EXCEPT !.pc = "refusing",
                                                !.letter = {"sms_fallback_body_missing"}]
                  /\ ~fallback[f].original.fallback
               \/ next = [fallback[f] EXCEPT !.pc = "allowed"]
      BY <2>2 DEF CheckConsent, Refuse
    <3>2. /\ next.original = fallback[f].original
          /\ \/ next.letter = {"sms_fallback_consent_missing"}
             \/ next.letter = {"sms_fallback_body_missing"} /\ ~fallback[f].original.fallback
             \/ next.letter = fallback[f].letter
      BY <3>1, FallBackTo DEF FallbackState
    <3>3. deadLetters' = deadLetters
      BY <2>2 DEF CheckConsent, tables
    <3> QED BY <1>1, <3>1, <3>2, <3>3 DEF FallbackMeans
  <2>3. CASE InsertFallback(f) \/ AbortFallback(f)
    <3>1. PICK from \in {"allowed", "loaded", "refusing", "inserted"},
               pc \in {"duplicate", "inserted", "aborted"} :
            FallBack(f, from, [fallback[f] EXCEPT !.pc = pc])
      BY <2>3 DEF InsertFallback, AbortFallback, FallingBack
    <3> DEFINE next == [fallback[f] EXCEPT !.pc = pc]
    <3>2. next.letter = fallback[f].letter /\ next.original = fallback[f].original
      BY <3>1, FallBackTo DEF FallbackState
    <3>3. deadLetters' = deadLetters
      BY <2>3 DEF InsertFallback, AbortFallback, tables
    <3> QED BY <1>1, <3>1, <3>2, <3>3 DEF FallbackMeans
  <2>4. CASE CommitFallback(f)
    <3>1. PICK from : FallBack(f, from, [fallback[f] EXCEPT !.pc = "committed"])
      BY <2>4 DEF CommitFallback
    <3> DEFINE next == [fallback[f] EXCEPT !.pc = "committed"]
    <3>2. /\ next.letter = fallback[f].letter /\ next.original = fallback[f].original
          /\ next.pc = "committed"
      BY <3>1, FallBackTo DEF FallbackState
    <3>3. \A l \in deadLetters' : l \in deadLetters \/ l.by = f
      BY <2>4 DEF CommitFallback
    <3> QED BY <1>1, <3>1, <3>2, <3>3 DEF FallbackMeans
  <2> QED BY <2>1, <2>2, <2>3, <2>4 DEF FallbackStep
<1>3. /\ fallback'[f] = next /\ fallback[f].pc = from
      /\ \A g \in Fallbacks \ {f} : fallback'[g] = fallback[g]
      /\ author' = author /\ emitter' = emitter
  BY <1>2, FallBackTo
<1>4. versions' = versions
  BY DEF FallbackStep, AbortFallback, LoadDelivery, CheckConsent, InsertFallback,
         CommitFallback, tables
<1>5. \A g \in Fallbacks : FallbackMeans(fallback'[g])
  BY <1>2, <1>3 DEF PromiseInv
<1>6. \A g \in Fallbacks : fallback'[g].pc # "committed" => \A l \in deadLetters' : l.by # g
  BY <1>2, <1>3 DEF PromiseInv
<1> QED BY <1>3, <1>4, <1>5, <1>6 DEF PromiseInv, EmitterMeans, FallbackMeans, AuthorMeans, Allowed

\* Recipients and consents: the sessions keep all but their history.
LEMMA OutsideMeansKept ==
  ASSUME OutboxInv, PromiseInv,
         \/ \E r \in Recipients, on \in BOOLEAN : SetActive(r, on)
         \/ \E r \in Consenters, on \in BOOLEAN : SetConsent(r, on)
  PROVE  PromiseInv'
<1>1. UNCHANGED <<tables, author>>
  BY DEF SetActive, SetConsent
<1>2. ASSUME NEW e \in Emitters
      PROVE  /\ emitter'[e].pc = emitter[e].pc /\ emitter'[e].version = emitter[e].version
             /\ emitter'[e].letter = emitter[e].letter
  <2>1. emitter[e] \in EmitterState
    BY OutboxTypes DEF OutboxInv
  <2> QED BY <2>1 DEF SetActive, SetConsent, EmitterState
<1>3. ASSUME NEW f \in Fallbacks
      PROVE  /\ fallback'[f].pc = fallback[f].pc /\ fallback'[f].original = fallback[f].original
             /\ fallback'[f].letter = fallback[f].letter
  <2>1. fallback[f] \in FallbackState
    BY OutboxTypes DEF OutboxInv
  <2> QED BY <2>1 DEF SetActive, SetConsent, FallbackState
<1> QED BY <1>1, <1>2, <1>3 DEF PromiseInv, EmitterMeans, FallbackMeans, AuthorMeans, Allowed, tables

LEMMA StepPromiseInv ==
  ASSUME OutboxInv, NumberInv, PromiseInv, [Next]_vars
  PROVE  PromiseInv'
<1>1. NumberInv' /\ VersionsStay
  BY StepNumberInv DEF VersionsStay
<1>2. CASE UNCHANGED vars
  BY <1>2 DEF vars, tables, PromiseInv, EmitterMeans, FallbackMeans, AuthorMeans, Allowed
<1>3. CASE Next
  BY <1>1, <1>3, AuthorMeansKept, EmitterMeansKept, FallbackMeansKept, OutsideMeansKept DEF Next
<1> QED BY <1>2, <1>3

LEMMA PromiseInvariant == Spec => [](OutboxInv /\ NumberInv /\ PromiseInv)
BY InitPromiseInv, StepPromiseInv, OutboxInvariant, NumberInvariant, PTL DEF Spec

LEMMA InitPromise == Init => Promise!Init
BY DEF Init, Promise!Init

\* What a step must leave alone not to be seen.
LEMMA PromiseQuiet ==
  ASSUME UNCHANGED <<versions, events, deliveries, deadLetters>>
  PROVE  UNCHANGED Promise!promise
BY DEF Promise!promise

\* The versions are a sequence, so that the next number appends.
LEMMA VersionsAppended ==
  ASSUME OutboxInv, NumberInv, NEW content \in Contents, NEW k \in Nat, DOMAIN versions = 1..k,
         versions' = [v \in 1..(k + 1) |-> IF v = k + 1 THEN content ELSE versions[v]]
  PROVE  versions' = Append(versions, content)
<1>1. versions \in [1..k -> Contents]
  BY DEF OutboxInv, TypeOK
<1>2. versions \in Seq(Contents) /\ Len(versions) = k
  <2>1. versions \in Seq(Contents)
    BY <1>1 DEF Seq
  <2> QED BY <2>1, LenProperties
<1>3. /\ Append(versions, content) \in Seq(Contents)
      /\ Len(Append(versions, content)) = k + 1
      /\ \A v \in 1..k : Append(versions, content)[v] = versions[v]
      /\ Append(versions, content)[k + 1] = content
  BY <1>2, AppendProperties
<1> DEFINE longer == Append(versions, content)
<1>4. longer \in Seq(Contents) /\ Len(longer) = k + 1
  BY <1>3
<1> HIDE DEF longer
<1>5. \A v \in 1..(k + 1) : versions'[v] = longer[v]
  BY <1>3 DEF longer
<1>6. DOMAIN versions' = 1..(k + 1) /\ versions' = [v \in 1..(k + 1) |-> versions'[v]]
  OBVIOUS
<1>7. longer = [v \in 1..(k + 1) |-> longer[v]]
  BY <1>4, LenProperties
<1> QED BY <1>5, <1>6, <1>7 DEF longer

\* The commit of a version publishes it.
LEMMA CommitVersionPublishes ==
  ASSUME OutboxInv, NumberInv, PromiseInv, NEW a \in Authors, CommitVersion(a)
  PROVE  Promise!Next
<1> DEFINE content == author[a].content
<1>1. PICK k \in Nat : NumberedUpTo(k) /\ HeldOK(k)
  BY DEF NumberInv
<1>2. author[a].pc = "version_inserted" /\ author[a].number \notin DOMAIN versions
  BY DEF NumberInv, InsertedOK, CommitVersion, Author
<1>3. author[a].number = k + 1 /\ DOMAIN versions = 1..k
  BY <1>1, <1>2 DEF NumberedUpTo, HeldOK, Held
<1>4. content \in Contents /\ Allowed(content)
  BY <1>2 DEF OutboxInv, TypeOK, AuthorState, PromiseInv, AuthorMeans
<1>5. 1..k \cup {k + 1} = 1..(k + 1)
  OBVIOUS
<1>6. versions' = [v \in 1..(k + 1) |-> IF v = k + 1 THEN content ELSE versions[v]]
  BY <1>3, <1>5 DEF CommitVersion
<1>7. versions' = Append(versions, content)
  BY <1>3, <1>4, <1>6, VersionsAppended
<1>8. UNCHANGED <<events, deliveries, deadLetters>>
  BY DEF CommitVersion
<1>9. Promise!PublishVersion(content)
  BY <1>4, <1>7, <1>8 DEF Promise!PublishVersion, Allowed
<1> QED BY <1>4, <1>9 DEF Promise!Next

\* Who is about to commit has added nothing.
LEMMA EmitterFresh ==
  ASSUME OutboxInv, NEW e \in Emitters, emitter[e].pc # "committed"
  PROVE  Promise!Fresh(e)
<1>1. \A ev \in events : ev.by # e
  BY DEF OutboxInv, Rows, EventRows
<1>2. \A d \in deliveries : d.by # e
  BY AddedByEmitter DEF AddedBy
<1>3. \A l \in deadLetters : l.by # e
  BY DEF OutboxInv, Rows, LetterRows
<1> QED BY <1>1, <1>2, <1>3 DEF Promise!Fresh

LEMMA FallbackFresh ==
  ASSUME OutboxInv, PromiseInv, NEW f \in Fallbacks, fallback[f].pc # "committed"
  PROVE  Promise!Fresh(f)
<1>1. \A ev \in events : ev.by # f
  BY SessionsAssumption DEF OutboxInv, TypeOK
<1>2. ASSUME NEW d \in deliveries, d.by = f
      PROVE  FALSE
  <2>1. \A e \in Emitters : d \notin Announcements(e)
    BY <1>2, AnnouncementsTyped, SessionsAssumption
  <2>2. PICK g \in Fallbacks : FellBack(g) /\ d = Sms(g)
    BY <2>1 DEF OutboxInv, Rows, DeliveryRows
  <2>3. g = f
    BY <1>2, <2>2, SmsHas
  <2> QED BY <2>2, <2>3 DEF FellBack
<1>3. \A l \in deadLetters : l.by # f
  BY DEF PromiseInv
<1> QED BY <1>1, <1>2, <1>3 DEF Promise!Fresh

\* The commit of an event adds the event and its whole answer.
LEMMA CommitEventAnswers ==
  ASSUME OutboxInv, PromiseInv, NEW e \in Emitters, CommitEvent(e)
  PROVE  Promise!Next
<1> DEFINE r == emitter[e].result
           v == emitter[e].version
           to == emitter[e].to
<1>1. /\ emitter[e].pc = "expanded" /\ EmitterFits(emitter[e]) /\ EmitterMeans(emitter[e])
      /\ r \in Results /\ to \in SUBSET Recipients
  BY OutboxTypes DEF CommitEvent, Emit, OutboxInv, EmittersFit, PromiseInv
<1>2. /\ versions' = versions
      /\ events' = events \cup {[by |-> e, result |-> r]}
      /\ deliveries' = deliveries \cup Announcements(e)
      /\ deadLetters' = deadLetters \cup [by : {e}, reason : emitter[e].letter]
  BY DEF CommitEvent
<1>3. \A ev \in events : ev.result # r
  <2> SUFFICES ASSUME NEW ev \in events, ev.result = r PROVE FALSE
    OBVIOUS
  <2>1. PICK d \in Emitters : emitter[d].pc = "committed" /\ ev = [by |-> d, result |-> emitter[d].result]
    BY DEF OutboxInv, Rows, EventRows
  <2>2. d = e
    BY <1>1, <2>1 DEF OutboxInv, OneClaim, Claims, Emitting
  <2> QED BY <1>1, <2>1, <2>2
<1>4. Promise!AddEvent(e, r)
  BY <1>1, <1>2, <1>3, EmitterFresh DEF Promise!AddEvent
<1>5. CASE v = 0
  <2>1. PICK x \in Reason : emitter[e].letter = {x}
    BY <1>1, <1>5 DEF EmitterFits
  <2>2. x \in {"no_active_recipients", Missing}
    BY <1>1, <2>1 DEF EmitterMeans
  <2>3. deliveries' = deliveries
    BY <1>2, <1>5 DEF Announcements
  <2>4. deadLetters' = deadLetters \cup {[by |-> e, reason |-> x]}
    <3>1. \A l : l \in [by : {e}, reason : {x}] <=> l = [by |-> e, reason |-> x]
      OBVIOUS
    <3> QED BY <1>2, <2>1, <3>1
  <2>5. Promise!AnnounceNothing(e, r, x)
    BY <1>4, <2>3, <2>4 DEF Promise!AnnounceNothing
  <2> QED BY <1>1, <2>2, <2>5 DEF Promise!Next, Missing
<1>6. CASE v # 0
  <2>1. emitter[e].letter = {} /\ to # {} /\ v \in DOMAIN versions /\ Usable(v) /\ versions[v].renders
    BY <1>1, <1>6 DEF EmitterFits, EmitterMeans
  <2>2. deadLetters' = deadLetters
    BY <1>2, <2>1
  <2>3. deliveries' = deliveries \cup
          [by : {e}, result : {r}, recipient : to, version : {v},
           channel : {"kakao_alimtalk"}, fallback : {versions[v].fallback}]
    BY <1>2, <1>6 DEF Announcements
  <2>4. Promise!Announce(e, r, to, v)
    BY <1>4, <2>1, <2>2, <2>3 DEF Promise!Announce, Usable
  <2> QED BY <1>1, <2>1, <2>4 DEF Promise!Next
<1> QED BY <1>5, <1>6

\* The commit of a fallback adds its SMS or the reason why there is none.
LEMMA CommitFallbackSends ==
  ASSUME OutboxInv, PromiseInv, NEW f \in Fallbacks, CommitFallback(f)
  PROVE  Promise!Next
<1> DEFINE d == fallback[f].original
<1>1. /\ fallback[f].pc \in {"refusing", "inserted"}
      /\ FallbackFits(fallback[f]) /\ FallbackMeans(fallback[f])
  BY DEF CommitFallback, FallBack, OutboxInv, FallbacksFit, PromiseInv
<1>2. d \in deliveries /\ d.channel = "kakao_alimtalk"
  BY <1>1 DEF FallbackFits
<1>3. Promise!Fresh(f)
  BY <1>1, FallbackFresh
<1>4. /\ UNCHANGED <<versions, events>>
      /\ deliveries' = IF fallback[f].pc = "inserted" THEN deliveries \cup {Sms(f)} ELSE deliveries
      /\ deadLetters' = deadLetters \cup [by : {f}, reason : fallback[f].letter]
  BY DEF CommitFallback
<1>5. CASE fallback[f].pc = "inserted"
  <2>1. fallback[f].letter = {} /\ d.fallback
    BY <1>1, <1>5 DEF FallbackFits
  <2>2. deadLetters' = deadLetters /\ deliveries' = deliveries \cup {Sms(f)}
    BY <1>4, <1>5, <2>1
  <2>3. ASSUME NEW s \in deliveries, s.result = d.result, s.recipient = d.recipient
        PROVE  s.channel # "sms"
    <3> SUFFICES ASSUME s.channel = "sms" PROVE FALSE
      OBVIOUS
    <3>1. PICK g \in Fallbacks : FellBack(g) /\ s = Sms(g)
      BY SmsRows
    <3> DEFINE c == fallback[g].original
    <3>2. /\ c \in deliveries /\ c.channel = "kakao_alimtalk"
          /\ c.result = d.result /\ c.recipient = d.recipient
      BY <2>3, <3>1, SmsHas
    <3>3. c = d
      BY <1>2, <3>2, OriginalsDiffer
    <3>4. f = g
      BY <1>5, <3>1, <3>3 DEF OutboxInv, OneFallback, Answers
    <3> QED BY <1>5, <3>1, <3>4 DEF FellBack
  <2>4. Promise!SendSms(f, d)
    BY <1>2, <1>3, <1>4, <2>1, <2>2, <2>3 DEF Promise!SendSms, Sms
  <2> QED BY <1>2, <2>4 DEF Promise!Next
<1>6. CASE fallback[f].pc = "refusing"
  <2>1. PICK x \in {"sms_fallback_consent_missing", "sms_fallback_body_missing"} :
          fallback[f].letter = {x} /\ (x = "sms_fallback_body_missing" => ~d.fallback)
    BY <1>1, <1>6 DEF FallbackFits, FallbackMeans
  <2>2. deliveries' = deliveries
    BY <1>4, <1>6
  <2>3. deadLetters' = deadLetters \cup {[by |-> f, reason |-> x]}
    <3>1. \A l : l \in [by : {f}, reason : {x}] <=> l = [by |-> f, reason |-> x]
      OBVIOUS
    <3> QED BY <1>4, <2>1, <3>1
  <2>4. Promise!RefuseSms(f, d, x)
    BY <1>2, <1>3, <1>4, <2>1, <2>2, <2>3 DEF Promise!RefuseSms
  <2> QED BY <1>2, <2>1, <2>4 DEF Promise!Next
<1> QED BY <1>1, <1>5, <1>6

LEMMA StepPromise ==
  ASSUME OutboxInv, NumberInv, PromiseInv, [Next]_vars
  PROVE  [Promise!Next]_(Promise!promise)
<1>1. CASE UNCHANGED vars
  BY <1>1, PromiseQuiet DEF vars, tables
<1>2. ASSUME NEW a \in Authors, AuthorStep(a) \/ AbortAuthor(a)
      PROVE  [Promise!Next]_(Promise!promise)
  <2>1. CASE CommitVersion(a)
    BY <2>1, CommitVersionPublishes
  <2>2. CASE ~CommitVersion(a)
    <3>1. UNCHANGED <<versions, events, deliveries, deadLetters>>
      BY <1>2, <2>2 DEF AuthorStep, AbortAuthor, InsertTemplate, CommitTemplate, RefuseVersion,
                        NumberVersion, InsertVersion, tables
    <3> QED BY <3>1, PromiseQuiet
  <2> QED BY <2>1, <2>2
<1>3. ASSUME NEW e \in Emitters, EmitterStep(e) \/ AbortEvent(e)
      PROVE  [Promise!Next]_(Promise!promise)
  <2>1. CASE CommitEvent(e)
    BY <2>1, CommitEventAnswers
  <2>2. CASE ~CommitEvent(e)
    <3>1. UNCHANGED <<versions, events, deliveries, deadLetters>>
      BY <1>3, <2>2 DEF EmitterStep, AbortEvent, InsertEvent, ReadRecipients, ReadTemplate,
                        RenderDeliveries, tables
    <3> QED BY <3>1, PromiseQuiet
  <2> QED BY <2>1, <2>2
<1>4. ASSUME NEW f \in Fallbacks, FallbackStep(f) \/ AbortFallback(f)
      PROVE  [Promise!Next]_(Promise!promise)
  <2>1. CASE CommitFallback(f)
    BY <2>1, CommitFallbackSends
  <2>2. CASE ~CommitFallback(f)
    <3>1. UNCHANGED <<versions, events, deliveries, deadLetters>>
      BY <1>4, <2>2 DEF FallbackStep, AbortFallback, LoadDelivery, CheckConsent, InsertFallback,
                        tables
    <3> QED BY <3>1, PromiseQuiet
  <2> QED BY <2>1, <2>2
<1>5. ASSUME \/ \E r \in Recipients, on \in BOOLEAN : SetActive(r, on)
             \/ \E r \in Consenters, on \in BOOLEAN : SetConsent(r, on)
      PROVE  [Promise!Next]_(Promise!promise)
  <2>1. UNCHANGED <<versions, events, deliveries, deadLetters>>
    BY <1>5 DEF SetActive, SetConsent, tables
  <2> QED BY <2>1, PromiseQuiet
<1> QED BY <1>1, <1>2, <1>3, <1>4, <1>5 DEF Next

\* Notifications implement their promise: whatever the transactions interleave,
\* the tables move by whole versions, whole answers to events and whole
\* fallbacks, for any number of emitters, authors, recipients and fallbacks.
THEOREM PromiseImplemented == Spec => ImplementsPromise
BY InitPromise, StepPromise, PromiseInvariant, PTL DEF Spec, ImplementsPromise, Promise!Spec

=============================================================================
