-------------------------- MODULE OptionCacheProofs --------------------------
(***************************************************************************)
(* Machine-checked theorems about OptionCache, for every finite set of     *)
(* callers, every assignment of versions and sessions, every set of texts  *)
(* and of model answers, every price, and every allowance.                 *)
(*                                                                         *)
(* The invariant says who holds what: an entry in a caller's hands, or in  *)
(* Redis under a version, is of that version; while a row is inserted and  *)
(* not committed the table is empty and nobody else inserts; and those who *)
(* ask the model, or asked it, are no more than the requests counted.      *)
(* A second one, upon it, says that what is held of a text the rules can   *)
(* parse is what the rules make of it.  What they make of a text of any    *)
(* length that says a quantity is proved of the parser itself, pattern by  *)
(* pattern: the one that is meant fits, in one place, and none before it   *)
(* in the code's order fits anywhere.                                      *)
(***************************************************************************)
EXTENDS OptionCache, FiniteSetTheorems, TLAPS

EntriesFit ==
  /\ \A c \in Callers :
       /\ AtMostOne(parse[c].entry)
       /\ \A x \in parse[c].entry : x.version = VersionOf[c]
  /\ \A v \in Versions : \A x \in redis[v] : x.version = v

OneInserts ==
  \A c \in Callers : parse[c].pc = "committing" =>
    row = {} /\ \A d \in Callers : parse[d].pc = "committing" => d = c

\* Nothing to read is known of by a caller that reads the table in vain.
KnowersRead ==
  \A c \in Callers : parse[c].knew =>
    /\ OfVersion(row, VersionOf[c]) # {}
    /\ c \in Sessions => ~parse[c].fresh /\ parse[c].pc # "parsing"

Asking == {c \in Callers : parse[c].asked \/ parse[c].pc = "asking"}

Allowance == IF PriorUse < Cap THEN Cap - PriorUse ELSE 0

Counted ==
  /\ Cardinality(Asking) + PriorUse <= spent
  /\ Cap # 0 => Cardinality(Asking) <= Allowance
  /\ \A c \in Callers : parse[c].asked \/ parse[c].pc \in {"counting", "asking"} =>
       ParseOptionText(text.tokens) = NotParsed

\* A call that has not begun has neither parsed nor asked.
IdleIsNew == \A c \in Callers : parse[c].pc = "idle" => ~parse[c].fresh /\ ~parse[c].asked

Inv == TypeOK /\ EntriesFit /\ OneInserts /\ KnowersRead /\ Counted /\ IdleIsNew

\* An integer between a and a + 4 is one of the five, told apart from below.
LEMMA OneOfFive ==
  ASSUME NEW a \in Int, NEW i \in Int, a <= i, i <= a + 4
  PROVE  i \in {a, a + 1, a + 2, a + 3, a + 4}
<1>1. i = a \/ a + 1 <= i
  OBVIOUS
<1>2. a + 1 <= i => i = a + 1 \/ a + 2 <= i
  OBVIOUS
<1>3. a + 2 <= i => i = a + 2 \/ a + 3 <= i
  OBVIOUS
<1>4. a + 3 <= i => i = a + 3 \/ i = a + 4
  OBVIOUS
<1> QED
  BY <1>1, <1>2, <1>3, <1>4

-----------------------------------------------------------------------------

LEMMA AskingFinite == IsFiniteSet(Asking) /\ Cardinality(Asking) \in Nat
<1>1. IsFiniteSet(Callers) /\ Asking \subseteq Callers
  BY OptionAssumption DEF Asking
<1>2. QED
  BY <1>1, FS_Subset, FS_CardinalityType

LEMMA Constants ==
  /\ VersionOf \in [Callers -> Versions] /\ Cap \in Nat /\ PriorUse \in Nat /\ Allowance \in Nat
BY OptionAssumption DEF Allowance

LEMMA InitInv == Init => Inv
<1> SUFFICES ASSUME Init PROVE Inv
  OBVIOUS
<1>1. TypeOK
  <2>1. row \subseteq Cached /\ AtMostOne(row)
    BY DEF Init, Left, AtMostOne
  <2>2. QED
    BY <2>1, Constants DEF Init, TypeOK, Parse, AtMostOne
<1>2. EntriesFit /\ OneInserts /\ KnowersRead /\ IdleIsNew
  BY DEF Init, EntriesFit, OneInserts, KnowersRead, IdleIsNew, AtMostOne
<1>3. Counted
  <2>1. Asking = {}
    BY DEF Init, Asking
  <2>2. Cardinality(Asking) = 0
    BY <2>1, FS_EmptySet
  <2>3. QED
    BY <2>2, Constants DEF Init, Counted
<1>4. QED
  BY <1>1, <1>2, <1>3 DEF Inv

\* A step that changes the slot of one caller only.
OnlySlot(c) ==
  /\ parse' \in [Callers -> Parse]
  /\ \A d \in Callers : d # c => parse'[d] = parse[d]

\* What a caller must leave in its own slot for the invariant to be kept.
LEMMA SlotInv ==
  ASSUME Inv, NEW c \in Callers, OnlySlot(c), text' = text, row' = row, spent' = spent,
         AtMostOne(parse'[c].entry), \A x \in parse'[c].entry : x.version = VersionOf[c],
         \/ redis' = redis
         \/ redis' = [redis EXCEPT ![VersionOf[c]] = parse[c].entry],
         parse'[c].pc = "committing" => row = {} /\ \A d \in Callers : parse[d].pc # "committing",
         parse'[c].knew => /\ OfVersion(row, VersionOf[c]) # {}
                           /\ c \in Sessions => ~parse'[c].fresh /\ parse'[c].pc # "parsing",
         parse'[c].asked \/ parse'[c].pc = "asking" => c \in Asking,
         parse'[c].asked \/ parse'[c].pc \in {"counting", "asking"} =>
           ParseOptionText(text.tokens) = NotParsed,
         parse'[c].pc # "idle"
  PROVE  Inv'
<1> USE DEF Inv
<1>1. /\ parse' \in [Callers -> Parse]
      /\ \A d \in Callers : d # c => parse'[d] = parse[d]
  BY DEF OnlySlot
<1>2. Cached' = Cached
  BY DEF Cached
<1>3. VersionOf[c] \in Versions
  BY Constants
<1>4. parse[c] \in Parse /\ parse[c].entry \subseteq Cached
  BY DEF TypeOK, Parse
<1>5. /\ redis' \in [Versions -> SUBSET Cached]
      /\ \A v \in Versions : redis'[v] = redis[v] \/ (v = VersionOf[c] /\ redis'[v] = parse[c].entry)
  BY <1>3, <1>4 DEF TypeOK
<1>6. TypeOK'
  <2>1. Parse' = Parse
    BY <1>2 DEF Parse
  <2>2. \A v \in Versions : AtMostOne(redis'[v])
    BY <1>5 DEF TypeOK, EntriesFit, AtMostOne
  <2>3. QED
    BY <1>1, <1>2, <1>5, <2>1, <2>2 DEF TypeOK, AtMostOne
<1>7. EntriesFit'
  <2>1. \A d \in Callers : /\ AtMostOne(parse'[d].entry)
                           /\ \A x \in parse'[d].entry : x.version = VersionOf[d]
    BY <1>1 DEF EntriesFit
  <2>2. \A v \in Versions : \A x \in redis'[v] : x.version = v
    BY <1>5 DEF EntriesFit
  <2>3. \A d \in Callers : AtMostOne(parse[d].entry)' = AtMostOne(parse'[d].entry)
    BY DEF AtMostOne
  <2>4. QED
    BY <2>1, <2>2, <2>3 DEF EntriesFit
<1>8. OneInserts'
  BY <1>1 DEF OneInserts
<1>9. KnowersRead'
  <2>1. \A d \in Callers : OfVersion(row, VersionOf[d])' = OfVersion(row, VersionOf[d])
    BY DEF OfVersion
  <2>2. QED
    BY <1>1, <2>1 DEF KnowersRead
<1>10. Counted'
  <2>1. Asking' \subseteq Asking
    BY <1>1 DEF Asking
  <2>2. /\ Cardinality(Asking') \in Nat /\ Cardinality(Asking) \in Nat
        /\ Cardinality(Asking') <= Cardinality(Asking)
    BY <2>1, AskingFinite, FS_Subset, FS_CardinalityType
  <2>3. spent \in Nat
    BY DEF TypeOK
  <2>4. /\ Cardinality(Asking') + PriorUse <= spent
        /\ Cap # 0 => Cardinality(Asking') <= Allowance
    BY <2>2, <2>3, Constants DEF Counted
  <2>5. \A d \in Callers : parse'[d].asked \/ parse'[d].pc \in {"counting", "asking"} =>
          ParseOptionText(text.tokens) = NotParsed
    BY <1>1 DEF Counted
  <2>6. QED
    BY <2>4, <2>5 DEF Counted, Allowance
<1>11. IdleIsNew'
  BY <1>1 DEF IdleIsNew
<1>12. QED
  BY <1>6, <1>7, <1>8, <1>9, <1>10, <1>11

LEMMA ToSlot ==
  ASSUME Inv, NEW c \in Callers, NEW e \in SUBSET Cached,
         NEW pc \in {"querying", "refilling", "parsing", "asking", "inserting",
                     "committing", "done", "cut"},
         To(c, pc, e)
  PROVE  /\ OnlySlot(c) /\ parse'[c].pc = pc /\ parse'[c].entry = e
         /\ parse'[c].knew = parse[c].knew /\ parse'[c].fresh = parse[c].fresh
         /\ parse'[c].asked = parse[c].asked
BY DEF Inv, TypeOK, To, Parse, OnlySlot

\* What a caller holds is of its version, and an entry of its version is an entry.
LEMMA Held ==
  ASSUME Inv, NEW c \in Callers
  PROVE  /\ VersionOf[c] \in Versions /\ parse[c] \in Parse
         /\ parse[c].entry \in SUBSET Cached /\ AtMostOne(parse[c].entry)
         /\ \A x \in parse[c].entry : x.version = VersionOf[c]
         /\ redis[VersionOf[c]] \in SUBSET Cached /\ AtMostOne(redis[VersionOf[c]])
         /\ \A x \in redis[VersionOf[c]] : x.version = VersionOf[c]
         /\ row \in SUBSET Cached /\ AtMostOne(row)
         /\ {} \in SUBSET Cached /\ AtMostOne({})
<1>1. VersionOf[c] \in Versions
  BY Constants
<1>2. parse[c] \in Parse
  BY DEF Inv, TypeOK
<1>3. parse[c].entry \in SUBSET Cached
  BY <1>2 DEF Parse
<1>4. QED
  BY <1>1, <1>2, <1>3 DEF Inv, TypeOK, EntriesFit, AtMostOne

LEMMA NewEntry ==
  ASSUME Inv, NEW c \in Callers,
         NEW answer \in {ParseOptionText(text.tokens)} \cup ModelAnswers
  PROVE  /\ Entry(c, answer) \in SUBSET Cached /\ AtMostOne(Entry(c, answer))
         /\ \A x \in Entry(c, answer) : x.version = VersionOf[c]
BY Held DEF Entry, Cached, AtMostOne

\* A step that leaves what the caller knew, parsed and asked.
LEMMA MoveInv ==
  ASSUME Inv, NEW c \in Callers, NEW e \in SUBSET Cached,
         NEW pc \in {"querying", "refilling", "parsing", "inserting", "committing", "done", "cut"},
         To(c, pc, e), text' = text, row' = row, spent' = spent,
         AtMostOne(e), \A x \in e : x.version = VersionOf[c],
         redis' = redis \/ redis' = [redis EXCEPT ![VersionOf[c]] = parse[c].entry],
         pc = "committing" => row = {} /\ \A d \in Callers : parse[d].pc # "committing",
         pc = "parsing" => c \notin Sessions \/ OfVersion(row, VersionOf[c]) = {}
  PROVE  Inv'
<1>1. /\ OnlySlot(c) /\ parse'[c].pc = pc /\ parse'[c].entry = e
      /\ parse'[c].knew = parse[c].knew /\ parse'[c].fresh = parse[c].fresh
      /\ parse'[c].asked = parse[c].asked
  BY ToSlot
<1>2. parse[c].asked => c \in Asking /\ ParseOptionText(text.tokens) = NotParsed
  BY DEF Inv, Asking, Counted
<1>3. parse[c].knew => OfVersion(row, VersionOf[c]) # {} /\ (c \in Sessions => ~parse[c].fresh)
  BY DEF Inv, KnowersRead
<1>4. QED
  BY <1>1, <1>2, <1>3, SlotInv

LEMMA BeginInv == ASSUME Inv, NEW c \in Callers, Begin(c) PROVE Inv'
<1>1. PICK b \in BOOLEAN :
        /\ b <=> OfVersion(row, VersionOf[c]) # {}
        /\ parse' = [parse EXCEPT ![c].pc = "reading", ![c].knew = b]
  BY DEF Begin
<1>2. /\ OnlySlot(c) /\ parse'[c].pc = "reading" /\ parse'[c].entry = parse[c].entry
      /\ parse'[c].knew = b /\ parse'[c].fresh = parse[c].fresh
      /\ parse'[c].asked = parse[c].asked
  BY ZenonT(60), <1>1 DEF Inv, TypeOK, Parse, OnlySlot
<1>3. ~parse[c].fresh /\ ~parse[c].asked
  BY DEF Inv, Begin, IdleIsNew
<1>4. /\ text' = text /\ row' = row /\ spent' = spent /\ redis' = redis
  BY DEF Begin
<1>5. QED
  BY <1>1, <1>2, <1>3, <1>4, Held, SlotInv

LEMMA ReadRedisInv == ASSUME Inv, NEW c \in Callers, ReadRedis(c) PROVE Inv'
<1>1. UNCHANGED <<text, redis, row, spent>>
  BY DEF ReadRedis
<1>2. CASE To(c, "done", redis[VersionOf[c]])
  BY <1>1, <1>2, Held, MoveInv
<1>3. CASE To(c, "querying", {})
  BY <1>1, <1>3, Held, MoveInv
<1>4. CASE To(c, "parsing", {}) /\ c \notin Sessions
  BY <1>1, <1>4, Held, MoveInv
<1>5. QED
  BY <1>2, <1>3, <1>4 DEF ReadRedis

LEMMA ReadRowInv == ASSUME Inv, NEW c \in Callers, ReadRow(c) PROVE Inv'
<1>1. UNCHANGED <<text, redis, row, spent>>
  BY DEF ReadRow
<1> DEFINE hit == OfVersion(row, VersionOf[c])
<1>2. CASE To(c, "refilling", hit)
  <2>1. hit \in SUBSET Cached /\ AtMostOne(hit) /\ \A x \in hit : x.version = VersionOf[c]
    BY Held DEF OfVersion, AtMostOne
  <2> HIDE DEF hit
  <2>2. QED
    BY <1>1, <1>2, <2>1, MoveInv
<1>3. CASE To(c, "parsing", {}) /\ hit = {}
  BY <1>1, <1>3, Held, MoveInv
<1>4. QED
  BY <1>2, <1>3 DEF ReadRow

LEMMA RefillInv == ASSUME Inv, NEW c \in Callers, Refill(c) PROVE Inv'
BY Held, MoveInv DEF Refill

LEMMA ParseByRuleInv == ASSUME Inv, NEW c \in Callers, ParseByRule(c) PROVE Inv'
<1> DEFINE answer == ParseOptionText(text.tokens)
           e == Entry(c, answer)
<1>1. /\ {} \in SUBSET Cached /\ AtMostOne({})
      /\ e \in SUBSET Cached /\ AtMostOne(e) /\ \A x \in e : x.version = VersionOf[c]
  BY Held, NewEntry
<1>2. /\ OnlySlot(c) /\ parse'[c].pc \in {"counting", "storing"} /\ parse'[c].entry \in {{}, e}
      /\ parse'[c].knew = parse[c].knew /\ parse'[c].asked = parse[c].asked
      /\ parse'[c].pc = "counting" => answer = NotParsed
  BY <1>1 DEF Inv, TypeOK, ParseByRule, Parse, OnlySlot
<1>3. parse[c].knew => OfVersion(row, VersionOf[c]) # {} /\ c \notin Sessions
  BY DEF Inv, KnowersRead, ParseByRule
<1>4. parse[c].asked => c \in Asking /\ answer = NotParsed
  BY DEF Inv, Asking, Counted
<1>5. UNCHANGED <<text, redis, row, spent>>
  BY DEF ParseByRule
<1> HIDE DEF e, answer
<1>6. AtMostOne(parse'[c].entry) /\ \A x \in parse'[c].entry : x.version = VersionOf[c]
  BY <1>1, <1>2
<1>7. QED
  BY <1>2, <1>3, <1>4, <1>5, <1>6, SlotInv DEF answer

LEMMA AskModelInv == ASSUME Inv, NEW c \in Callers, AskModel(c) PROVE Inv'
<1>1. PICK answer \in ModelAnswers :
        parse' = [parse EXCEPT ![c].asked = TRUE,
          ![c].pc = IF answer = NotParsed THEN "done" ELSE "storing",
          ![c].entry = IF answer = NotParsed THEN {} ELSE Entry(c, answer)]
  BY DEF AskModel
<1> DEFINE e == Entry(c, answer)
<1>2. /\ {} \in SUBSET Cached /\ AtMostOne({})
      /\ e \in SUBSET Cached /\ AtMostOne(e) /\ \A x \in e : x.version = VersionOf[c]
  BY Held, NewEntry
<1>3. PICK pc \in {"done", "storing"}, f \in {{}, e} :
        parse' = [parse EXCEPT ![c].asked = TRUE, ![c].pc = pc, ![c].entry = f]
  BY <1>1
<1>4. f \in SUBSET Cached /\ parse \in [Callers -> Parse]
  BY <1>2 DEF Inv, TypeOK
<1>5. /\ OnlySlot(c) /\ parse'[c].pc = pc /\ parse'[c].entry = f
      /\ parse'[c].knew = parse[c].knew /\ parse'[c].fresh = parse[c].fresh
  BY ZenonT(60), <1>3, <1>4 DEF Parse, OnlySlot
<1>6. parse[c].knew => OfVersion(row, VersionOf[c]) # {} /\ (c \in Sessions => ~parse[c].fresh)
  BY DEF Inv, KnowersRead
<1>7. c \in Asking /\ ParseOptionText(text.tokens) = NotParsed
  BY DEF Inv, Asking, Counted, AskModel
<1>8. UNCHANGED <<text, redis, row, spent>>
  BY DEF AskModel
<1> HIDE DEF e
<1>9. AtMostOne(parse'[c].entry) /\ \A x \in parse'[c].entry : x.version = VersionOf[c]
  BY <1>2, <1>5
<1>10. QED
  BY <1>5, <1>6, <1>7, <1>8, <1>9, SlotInv

LEMMA StoreRedisInv == ASSUME Inv, NEW c \in Callers, StoreRedis(c) PROVE Inv'
BY Held, MoveInv DEF StoreRedis

LEMMA InsertRowInv == ASSUME Inv, NEW c \in Callers, InsertRow(c) PROVE Inv'
BY Held, MoveInv DEF InsertRow

LEMMA CutOffInv == ASSUME Inv, NEW c \in Callers, CutOff(c) PROVE Inv'
BY Held, MoveInv DEF CutOff

\* The request is counted before the verdict, so that whoever may ask has a
\* number of his own among those that the allowance covers.
LEMMA ConsumeTokensInv == ASSUME Inv, NEW c \in Callers, ConsumeTokens(c) PROVE Inv'
<1> USE DEF Inv
<1>1. PICK pc \in {"asking", "done"} :
        To(c, pc, {}) /\ (pc = "asking" => Allowed(spent + 1))
  BY DEF ConsumeTokens
<1>2. UNCHANGED <<text, redis, row>> /\ spent' = spent + 1 /\ spent \in Nat
  BY DEF ConsumeTokens, TypeOK
<1>3. /\ OnlySlot(c) /\ parse'[c].pc = pc /\ parse'[c].entry = {}
      /\ parse'[c].knew = parse[c].knew /\ parse'[c].fresh = parse[c].fresh
      /\ parse'[c].asked = parse[c].asked
  BY <1>1, ToSlot, Held
<1>4. parse' \in [Callers -> Parse] /\ \A d \in Callers : d # c => parse'[d] = parse[d]
  BY <1>3 DEF OnlySlot
<1>5. TypeOK' /\ EntriesFit' /\ OneInserts' /\ IdleIsNew'
  <2>1. Cached' = Cached /\ Parse' = Parse
    BY <1>2 DEF Cached, Parse
  <2>2. TypeOK'
    BY <1>2, <1>4, <2>1 DEF TypeOK, AtMostOne
  <2>3. EntriesFit'
    BY <1>2, <1>3, <1>4 DEF EntriesFit, AtMostOne
  <2>4. OneInserts' /\ IdleIsNew'
    BY <1>1, <1>2, <1>3, <1>4 DEF OneInserts, IdleIsNew
  <2>5. QED
    BY <2>2, <2>3, <2>4
<1>6. KnowersRead'
  BY <1>1, <1>2, <1>3, <1>4 DEF KnowersRead, OfVersion
<1>7. Asking' \subseteq Asking \cup {c} /\ (pc = "done" => Asking' \subseteq Asking)
  BY <1>3, <1>4 DEF Asking
<1>8. /\ Cardinality(Asking') \in Nat /\ Cardinality(Asking) \in Nat
      /\ Cardinality(Asking') <= Cardinality(Asking) + 1
      /\ pc = "done" => Cardinality(Asking') <= Cardinality(Asking)
  <2>1. /\ IsFiniteSet(Asking \cup {c})
        /\ Cardinality(Asking \cup {c}) \in {Cardinality(Asking), Cardinality(Asking) + 1}
    BY AskingFinite, FS_AddElement
  <2>2. QED
    BY <1>7, <2>1, AskingFinite, FS_Subset, FS_CardinalityType
<1>9. Cardinality(Asking') + PriorUse <= spent'
  BY <1>2, <1>8, Constants DEF Counted
<1>10. Cap # 0 => Cardinality(Asking') <= Allowance
  <2>1. CASE pc = "done"
    BY <1>8, <2>1, Constants DEF Counted
  <2>2. CASE pc = "asking"
    BY <1>1, <1>2, <1>8, <1>9, <2>2, Constants DEF Allowed, Allowance
  <2>3. QED
    BY <2>1, <2>2
<1>11. \A d \in Callers : parse'[d].asked \/ parse'[d].pc \in {"counting", "asking"} =>
          ParseOptionText(text.tokens) = NotParsed
  BY <1>3, <1>4 DEF Counted, ConsumeTokens
<1>12. QED
  BY <1>2, <1>5, <1>6, <1>9, <1>10, <1>11 DEF Counted, Allowance

LEMMA CommitRowInv == ASSUME Inv, NEW c \in Callers, CommitRow(c) PROVE Inv'
<1> USE DEF Inv
<1> DEFINE e == parse[c].entry
<1>1. /\ VersionOf[c] \in Versions /\ e \in SUBSET Cached /\ AtMostOne(e)
      /\ \A x \in e : x.version = VersionOf[c]
  BY Held
<1>2. row = {} /\ \A d \in Callers : parse[d].pc = "committing" => d = c
  BY DEF CommitRow, OneInserts
<1>3. UNCHANGED <<text, redis, spent>> /\ row' = e /\ To(c, "done", e)
  BY <1>2 DEF CommitRow
<1>4. /\ OnlySlot(c) /\ parse'[c].pc = "done" /\ parse'[c].entry = e
      /\ parse'[c].knew = parse[c].knew /\ parse'[c].fresh = parse[c].fresh
      /\ parse'[c].asked = parse[c].asked
  BY <1>1, <1>3, ToSlot
<1> HIDE DEF e
<1>5. parse' \in [Callers -> Parse] /\ \A d \in Callers : d # c => parse'[d] = parse[d]
  BY <1>4 DEF OnlySlot
<1>6. TypeOK'
  <2>1. Cached' = Cached /\ Parse' = Parse
    BY <1>3 DEF Cached, Parse
  <2>2. QED
    BY <1>1, <1>3, <1>5, <2>1 DEF TypeOK, AtMostOne
<1>7. EntriesFit'
  BY <1>1, <1>3, <1>4, <1>5 DEF EntriesFit, AtMostOne
<1>8. OneInserts' /\ IdleIsNew'
  BY <1>2, <1>4, <1>5 DEF OneInserts, IdleIsNew
<1>9. KnowersRead'
  BY <1>2, <1>4, <1>5 DEF KnowersRead, OfVersion
<1>10. Asking' = Asking
  BY <1>4, <1>5 DEF Asking, CommitRow
<1>11. Counted'
  BY <1>3, <1>4, <1>5, <1>10 DEF Counted, Allowance
<1>12. QED
  BY <1>6, <1>7, <1>8, <1>9, <1>11

LEMMA ExpireEntryInv == ASSUME Inv, NEW v \in Versions, ExpireEntry(v) PROVE Inv'
<1> USE DEF Inv
<1>1. UNCHANGED <<text, row, spent, parse>> /\ redis' = [redis EXCEPT ![v] = {}]
  BY DEF ExpireEntry
<1>2. TypeOK'
  <2>1. Cached' = Cached /\ Parse' = Parse
    BY <1>1 DEF Cached, Parse
  <2>2. QED
    BY <1>1, <2>1 DEF TypeOK, AtMostOne
<1>3. EntriesFit' /\ OneInserts' /\ IdleIsNew' /\ KnowersRead'
  BY <1>1 DEF TypeOK, EntriesFit, OneInserts, IdleIsNew, KnowersRead, OfVersion, AtMostOne
<1>4. Counted'
  BY <1>1 DEF Counted, Asking, Allowance
<1>5. QED
  BY <1>2, <1>3, <1>4

LEMMA StutterInv == Inv /\ UNCHANGED vars => Inv'
BY DEF Inv, vars, TypeOK, Cached, Parse, EntriesFit, OneInserts, KnowersRead, Counted,
       Asking, Allowance, IdleIsNew, AtMostOne, OfVersion

LEMMA NextInv == Inv /\ [Next]_vars => Inv'
<1> SUFFICES ASSUME Inv, [Next]_vars PROVE Inv'
  OBVIOUS
<1>1. CASE UNCHANGED vars
  BY <1>1, StutterInv
<1>2. CASE \E v \in Versions : ExpireEntry(v)
  BY <1>2, ExpireEntryInv
<1>3. ASSUME NEW c \in Callers,
             \/ Begin(c) \/ ReadRedis(c) \/ ReadRow(c) \/ Refill(c) \/ ParseByRule(c)
             \/ ConsumeTokens(c) \/ AskModel(c) \/ StoreRedis(c) \/ InsertRow(c) \/ CommitRow(c)
             \/ CutOff(c)
      PROVE  Inv'
  BY <1>3, BeginInv, ReadRedisInv, ReadRowInv, RefillInv, ParseByRuleInv, ConsumeTokensInv,
     AskModelInv, StoreRedisInv, InsertRowInv, CommitRowInv, CutOffInv
<1>4. QED
  BY <1>1, <1>2, <1>3 DEF Next

THEOREM CacheInvariant == Spec => []Inv
BY InitInv, NextInv, PTL DEF Spec

-----------------------------------------------------------------------------

\* Every reachable state of the cache and of its callers is of its type.
THEOREM CacheTypes == Spec => []TypeOK
<1>1. Inv => TypeOK
  BY DEF Inv
<1>2. QED
  BY <1>1, CacheInvariant, PTL

\* However many releases run side by side, no caller is given, and no key of
\* Redis holds, what another version's parser made of the text.
THEOREM VersionsKeptApart == Spec => []VersionsApart
<1>1. Inv => VersionsApart
  BY DEF Inv, EntriesFit, VersionsApart
<1>2. QED
  BY <1>1, CacheInvariant, PTL

\* Once the table has an entry of a version, no later call of that version with
\* a session parses the text again.
THEOREM CommittedIsCached == Spec => []CachedOnceCommitted
<1>1. Inv => CachedOnceCommitted
  BY DEF Inv, KnowersRead, CachedOnceCommitted
<1>2. QED
  BY <1>1, CacheInvariant, PTL

\* The model is asked only about what the rules cannot parse, and by no more
\* callers than the month's allowance has left.
THEOREM RequestsRationed == Spec => []ModelIsRationed
<1>1. Inv => ModelIsRationed
  <2> SUFFICES ASSUME Inv PROVE ModelIsRationed
    OBVIOUS
  <2> DEFINE asked == {c \in Callers : parse[c].asked}
  <2>1. asked \subseteq Asking
    BY DEF Asking
  <2>2. /\ Cardinality(asked) \in Nat /\ Cardinality(Asking) \in Nat
        /\ Cardinality(asked) <= Cardinality(Asking)
    BY <2>1, AskingFinite, FS_Subset, FS_CardinalityType
  <2>3. asked # {} => ParseOptionText(text.tokens) = NotParsed
    BY DEF Inv, Counted
  <2>4. Cap # 0 => Cardinality(asked) <= Allowance
    BY <2>2, Constants DEF Inv, Counted
  <2>5. QED
    BY <2>3, <2>4 DEF ModelIsRationed, Allowance
<1>2. QED
  BY <1>1, CacheInvariant, PTL

-----------------------------------------------------------------------------
(* The patterns *)

\* What a place where a pattern fits must look like: the kinds that decide.
LEMMA DetailKey ==
  ASSUME NEW T \in Seq(Token), NEW i \in DOMAIN T,
         Fits(T, i, <<"num", "mass", "open">>)
  PROVE  /\ i + 1 \in DOMAIN T /\ i + 2 \in DOMAIN T
         /\ T[i + 1].kind = "mass" /\ T[i + 2].kind = "open"
<1>1. i \in 1..Len(T) /\ i + 3 - 1 <= Len(T) /\ Len(T) \in Nat
  BY DEF Fits
<1>2. \A j \in 1..3 : T[i + j - 1].kind = <<"num", "mass", "open">>[j]
  BY DEF Fits
<1>3. T[i + 2 - 1].kind = "mass" /\ T[i + 3 - 1].kind = "open"
  BY <1>2
<1>4. i + 2 - 1 = i + 1 /\ i + 3 - 1 = i + 2
  BY <1>1
<1> QED
  BY <1>1, <1>3, <1>4

LEMMA CommaKey ==
  ASSUME NEW T \in Seq(Token), NEW i \in DOMAIN T,
         Fits(T, i, <<"num", "mass", "comma", "num", "count">>)
  PROVE  /\ i + 1 \in DOMAIN T /\ i + 4 \in DOMAIN T
         /\ T[i + 1].kind = "mass" /\ T[i + 2].kind = "comma"
BY DEF Fits

LEMMA PacksKey ==
  ASSUME NEW T \in Seq(Token), NEW i \in DOMAIN T,
         Fits(T, i, <<"num", "count", "x", "num", "count">>)
  PROVE  /\ i + 1 \in DOMAIN T /\ i + 4 \in DOMAIN T
         /\ T[i + 1].kind = "count" /\ T[i + 2].kind = "x" /\ T[i + 4].kind = "count"
BY DEF Fits

LEMMA TimesKey ==
  ASSUME NEW T \in Seq(Token), NEW i \in DOMAIN T,
         Fits(T, i, <<"num", "mass", "x", "num">>)
  PROVE  /\ i + 1 \in DOMAIN T /\ i + 3 \in DOMAIN T
         /\ T[i + 1].kind = "mass" /\ T[i + 2].kind = "x"
BY DEF Fits

LEMMA EachKey ==
  ASSUME NEW T \in Seq(Token), NEW i \in DOMAIN T,
         Fits(T, i, <<"num", "mass", "num", "count">>)
  PROVE  /\ i + 1 \in DOMAIN T /\ i + 3 \in DOMAIN T
         /\ T[i + 1].kind = "mass" /\ T[i + 2].kind = "num" /\ T[i + 3].kind = "count"
BY DEF Fits

LEMMA PlusKey ==
  ASSUME NEW T \in Seq(Token), NEW i \in DOMAIN T,
         Fits(T, i, <<"num", "count", "plus", "num">>)
  PROVE  /\ i + 1 \in DOMAIN T /\ i + 2 \in DOMAIN T
         /\ T[i + 1].kind = "count" /\ T[i + 2].kind = "plus"
BY DEF Fits

LEMMA GiftKey ==
  ASSUME NEW T \in Seq(Token), NEW i \in DOMAIN T,
         Fits(T, i, <<"num", "count", "plus", "gift", "num">>)
  PROVE  /\ i + 1 \in DOMAIN T /\ i + 2 \in DOMAIN T
         /\ T[i + 1].kind = "count" /\ T[i + 2].kind = "plus"
BY DEF Fits

LEMMA CountKey ==
  ASSUME NEW T \in Seq(Token), NEW i \in DOMAIN T,
         Fits(T, i, <<"num", "count">>)
  PROVE  /\ i + 1 \in DOMAIN T
         /\ T[i + 1].kind = "count"
BY DEF Fits

\* The leftmost of places, and what is found at none.
LEMMA LeftmostOfOne == ASSUME NEW i \in Int PROVE Leftmost({i}) = {i}
BY DEF Leftmost, Min

LEMMA LeftmostOfNone == Leftmost({}) = {}
BY DEF Leftmost

\* The first pattern that finds anything decides.
LEMMA TheFirstFound ==
  ASSUME NEW f, DOMAIN f = 1..7, NEW k \in 1..7, NEW r, f[k] = {r},
         \A j \in 1..7 : j < k => f[j] = {}
  PROVE  FirstFound(f) = r
<1> DEFINE hits == {i \in DOMAIN f : f[i] # {}}
<1>1. k \in hits /\ \A j \in hits : j \in Int /\ k <= j
  OBVIOUS
<1>2. Min(hits) = k
  BY <1>1 DEF Min
<1> QED
  BY <1>1, <1>2 DEF FirstFound

\* What is rounded half up is at most half off.
LEMMA Rounding ==
  ASSUME NEW a \in Nat, NEW b \in Nat \ {0}
  PROVE  RoundHalfUp(a, b) * b - a \in -(b \div 2) .. (b \div 2)
<1> DEFINE q == (2 * a + b) \div (2 * b)
<1>1. q \in Int /\ q * (2 * b) <= 2 * a + b /\ 2 * a + b < q * (2 * b) + 2 * b
  OBVIOUS
<1>2. PICK z \in Int : z = q * b
  BY <1>1
<1>3. q * (2 * b) = 2 * z
  BY <1>1, <1>2
<1> QED
  BY <1>1, <1>2, <1>3 DEF RoundHalfUp

LEMMA FoundNowhere ==
  ASSUME NEW T, NEW pattern, \A i \in DOMAIN T : ~Fits(T, i, pattern)
  PROVE  Find(T, pattern) = {}
<1>1. {i \in DOMAIN T : Fits(T, i, pattern)} = {}
  OBVIOUS
<1> QED
  BY <1>1, LeftmostOfNone DEF Find

\* The order in which the patterns are tried.
LEMMA TriedInOrder ==
  ASSUME NEW T, NEW r
  PROVE  /\ ParenthesisDetail(T) = {r} => ParseOptionText(T) = r
         /\ ParenthesisDetail(T) = {} =>
              /\ CommaCombo(T) = {r} => ParseOptionText(T) = r
              /\ CommaCombo(T) = {} =>
                   /\ NxMWithTotal(T) = {r} => ParseOptionText(T) = r
                   /\ NxMWithTotal(T) = {} =>
                        /\ VolumeXCount(T) = {r} => ParseOptionText(T) = r
                        /\ VolumeXCount(T) = {} =>
                             /\ VolumeSpaceCount(T) = {r} => ParseOptionText(T) = r
                             /\ VolumeSpaceCount(T) = {} =>
                                  /\ BonusCombo(T) = {r} => ParseOptionText(T) = r
                                  /\ BonusCombo(T) = {} /\ SimpleCount(T) = {r} =>
                                       ParseOptionText(T) = r
<1> DEFINE f == << ParenthesisDetail(T), CommaCombo(T), NxMWithTotal(T), VolumeXCount(T),
                   VolumeSpaceCount(T), BonusCombo(T), SimpleCount(T) >>
<1>1. /\ DOMAIN f = 1..7
      /\ f[1] = ParenthesisDetail(T) /\ f[2] = CommaCombo(T) /\ f[3] = NxMWithTotal(T)
      /\ f[4] = VolumeXCount(T) /\ f[5] = VolumeSpaceCount(T) /\ f[6] = BonusCombo(T)
      /\ f[7] = SimpleCount(T)
  OBVIOUS
<1>2. ParseOptionText(T) = FirstFound(f)
  BY DEF ParseOptionText
<1> HIDE DEF f
<1>3. \A k \in 1..7 : f[k] = {r} /\ (\A j \in 1..7 : j < k => f[j] = {}) => FirstFound(f) = r
  BY <1>1, TheFirstFound
<1> QED
  BY <1>1, <1>2, <1>3

LEMMA NoDetail ==
  ASSUME NEW T, \A i \in DOMAIN T : ~Fits(T, i, <<"num", "mass", "open">>)
  PROVE  ParenthesisDetail(T) = {}
<1>1. {i \in DOMAIN T :
         /\ Fits(T, i, <<"num", "mass", "open">>)
         /\ \E j \in i + 4 .. Len(T) :
              T[j].kind = "close" /\ \A k \in i + 3 .. j - 1 : T[k].kind # "close"} = {}
  OBVIOUS
<1> QED
  BY <1>1, LeftmostOfNone DEF ParenthesisDetail

\* Without a mass unit none of the patterns with one fits.
LEMMA NoMass ==
  ASSUME NEW T \in Seq(Token), \A j \in DOMAIN T : T[j].kind # "mass"
  PROVE  /\ ParenthesisDetail(T) = {} /\ CommaCombo(T) = {}
         /\ VolumeXCount(T) = {} /\ VolumeSpaceCount(T) = {}
<1>1. \A i \in DOMAIN T : ~Fits(T, i, <<"num", "mass", "open">>)
  BY DetailKey
<1>2. \A i \in DOMAIN T : ~Fits(T, i, <<"num", "mass", "comma", "num", "count">>)
  BY CommaKey
<1>3. \A i \in DOMAIN T : ~Fits(T, i, <<"num", "mass", "x", "num">>)
  BY TimesKey
<1>4. \A i \in DOMAIN T : ~Fits(T, i, <<"num", "mass", "num", "count">>)
  BY EachKey
<1> QED
  BY <1>1, <1>2, <1>3, <1>4, NoDetail, FoundNowhere
     DEF CommaCombo, VolumeXCount, VolumeSpaceCount

\* With one, what follows it decides.
LEMMA OneMass ==
  ASSUME NEW T \in Seq(Token), NEW s \in DOMAIN T,
         \A j \in DOMAIN T : T[j].kind = "mass" => j = s + 1
  PROVE  /\ T[s + 2].kind # "open" => ParenthesisDetail(T) = {}
         /\ T[s + 2].kind # "comma" => CommaCombo(T) = {}
         /\ T[s + 2].kind # "x" => VolumeXCount(T) = {}
<1>1. \A i \in DOMAIN T : i + 1 \in DOMAIN T /\ T[i + 1].kind = "mass" => i = s
  OBVIOUS
<1>2. \A i \in DOMAIN T : Fits(T, i, <<"num", "mass", "open">>) => T[s + 2].kind = "open"
  BY <1>1, DetailKey
<1>3. \A i \in DOMAIN T :
        Fits(T, i, <<"num", "mass", "comma", "num", "count">>) => T[s + 2].kind = "comma"
  BY <1>1, CommaKey
<1>4. \A i \in DOMAIN T : Fits(T, i, <<"num", "mass", "x", "num">>) => T[s + 2].kind = "x"
  BY <1>1, TimesKey
<1>5. T[s + 2].kind # "open" => ParenthesisDetail(T) = {}
  BY <1>2, NoDetail
<1>6. T[s + 2].kind # "comma" => CommaCombo(T) = {}
  BY <1>3, FoundNowhere DEF CommaCombo
<1>7. T[s + 2].kind # "x" => VolumeXCount(T) = {}
  BY <1>4, FoundNowhere DEF VolumeXCount
<1> QED
  BY <1>5, <1>6, <1>7

\* Packs take two counts, three places apart.
LEMMA NoPacks ==
  ASSUME NEW T \in Seq(Token),
         \A j \in DOMAIN T : j + 3 \in DOMAIN T /\ T[j].kind = "count" => T[j + 3].kind # "count"
  PROVE  NxMWithTotal(T) = {}
<1>1. \A i \in DOMAIN T : ~Fits(T, i, <<"num", "count", "x", "num", "count">>)
  <2> SUFFICES ASSUME NEW i \in DOMAIN T, Fits(T, i, <<"num", "count", "x", "num", "count">>)
               PROVE  FALSE
    OBVIOUS
  <2>1. /\ i \in Int /\ i + 1 \in DOMAIN T /\ i + 4 \in DOMAIN T
        /\ T[i + 1].kind = "count" /\ T[i + 4].kind = "count"
    BY PacksKey
  <2>2. i + 1 + 3 = i + 4
    BY <2>1
  <2> QED
    BY <2>1, <2>2
<1> QED
  BY <1>1, FoundNowhere DEF NxMWithTotal

LEMMA NoBonus ==
  ASSUME NEW T \in Seq(Token),
         \A i \in DOMAIN T : i + 2 \in DOMAIN T /\ T[i + 1].kind = "count" => T[i + 2].kind # "plus"
  PROVE  BonusCombo(T) = {}
<1>1. \A i \in DOMAIN T :
        /\ ~Fits(T, i, <<"num", "count", "plus", "num">>)
        /\ ~Fits(T, i, <<"num", "count", "plus", "gift", "num">>)
  <2>1. \A i \in DOMAIN T : Fits(T, i, <<"num", "count", "plus", "num">>) =>
          i + 2 \in DOMAIN T /\ T[i + 1].kind = "count" /\ T[i + 2].kind = "plus"
    BY PlusKey
  <2>2. \A i \in DOMAIN T : Fits(T, i, <<"num", "count", "plus", "gift", "num">>) =>
          i + 2 \in DOMAIN T /\ T[i + 1].kind = "count" /\ T[i + 2].kind = "plus"
    BY GiftKey
  <2> QED
    BY <2>1, <2>2
<1>2. {i \in DOMAIN T : \/ Fits(T, i, <<"num", "count", "plus", "num">>)
                       \/ Fits(T, i, <<"num", "count", "plus", "gift", "num">>)} = {}
  BY <1>1
<1> QED
  BY <1>2, LeftmostOfNone DEF BonusCombo

-----------------------------------------------------------------------------
(* The ways to write a quantity, each parsed as the code's patterns take it *)

\* What the tokens of a text are.
LEMMA Signs == \A k : Sign(k).kind = k
BY DEF Sign

LEMMA UnitNames ==
  /\ DOMAIN MassUnits = {"mg", "g", "kg", "ml", "cc", "cl", "l"}
  /\ DOMAIN CountUnits = {"jang", "mae", "gae", "gaeip", "paek", "rol"}
BY DEF MassUnits, CountUnits

LEMMA Units ==
  /\ \A u \in DOMAIN MassUnits : Unit(u).kind = "mass" /\ Unit(u).u = u
  /\ \A u \in DOMAIN CountUnits : Unit(u).kind = "count" /\ Unit(u).u = u
<1>1. /\ DOMAIN MassUnits = {"mg", "g", "kg", "ml", "cc", "cl", "l"}
      /\ DOMAIN CountUnits = {"jang", "mae", "gae", "gaeip", "paek", "rol"}
  BY DEF MassUnits, CountUnits
<1>2. DOMAIN MassUnits \cap DOMAIN CountUnits = {}
  BY <1>1
<1> QED
  BY <1>2 DEF Unit

LEMMA Numbers == \A n : Num(n).kind = "num" /\ Num(n).n = n
BY DEF Num

\* A number and a unit, with nothing else counted: no pattern with a mass fits, nor
\* one with two counts or a gift.
LEMMA CountParsed ==
  ASSUME NEW T \in Seq(Token), NEW w, WellWritten(w), w.kind = "count",
         NEW s \in DOMAIN T, StandsAt(w, T, s)
  PROVE  ParseOptionText(T) =
           LET all == Convert(w.n, w.u) IN Parsed(all.unit, all.quantity, w.n, 1, 0)
<1>1. w.n \in Nat /\ w.u \in DOMAIN CountUnits
  BY UnitNames DEF WellWritten
<1>2. Written(w) = <<Num(w.n), Unit(w.u)>>
  BY DEF Written
<1>3. Len(Written(w)) = 2 /\ DOMAIN Written(w) = 1..2
  BY <1>2
<1>4. s \in Int /\ s >= 1 /\ DOMAIN T = 1..Len(T) /\ Len(T) \in Nat /\ s + 1 <= Len(T)
  <2>1. s \in Int /\ s >= 1 /\ DOMAIN T = 1..Len(T) /\ Len(T) \in Nat
    OBVIOUS
  <2> QED
    BY <1>3, <2>1 DEF StandsAt
<1>5. \A j \in DOMAIN T : j < s \/ j > s + 1 =>
        T[j].kind \notin {"mass", "count", "total"} /\ (j = s + 2 => T[j].kind # "plus")
  <2>1. \A j \in DOMAIN T : j < s \/ j > s + 1 => j \in DOMAIN T \ (s .. s + Len(Written(w)) - 1)
    BY <1>3, <1>4
  <2> QED
    BY <1>3, <2>1 DEF StandsAt
<1>6. /\ T[s].kind = "num" /\ T[s].n = w.n
      /\ T[s + 1].kind = "count" /\ T[s + 1].u = w.u
  <2>1. \A j \in 1..2 : T[s + j - 1] = Written(w)[j]
    BY <1>3 DEF StandsAt
  <2>2. /\ s + 1 - 1 = s /\ s + 2 - 1 = s + 1
    BY <1>4
  <2>3. /\ T[s] = Num(w.n) /\ T[s + 1] = Unit(w.u)
    BY <1>2, <2>1, <2>2
  <2>4. T[s].kind = "num" /\ T[s].n = w.n
    BY <1>1, <2>3, Numbers, Units, Signs
  <2>5. T[s + 1].kind = "count" /\ T[s + 1].u = w.u
    BY <1>1, <2>3, Numbers, Units, Signs
  <2> QED
    BY <2>4, <2>5
<1>7. \A j \in DOMAIN T : (T[j].kind # "mass") /\ (T[j].kind = "count" => j \in {s + 1})
  <2> SUFFICES ASSUME NEW j \in DOMAIN T, T[j].kind \in {"mass", "count"}
               PROVE  (T[j].kind # "mass") /\ (T[j].kind = "count" => j \in {s + 1})
    OBVIOUS
  <2>1. j >= s /\ j <= s + 1
    BY <1>4, <1>5
  <2>2. j \in {s, s + 1}
    BY <1>4, <2>1
  <2> QED
    BY <2>2, <1>6
<1>8. NxMWithTotal(T) = {}
  <2>1. \A j \in DOMAIN T : j + 3 \in DOMAIN T /\ T[j].kind = "count" => T[j + 3].kind # "count"
    BY <1>4, <1>7
  <2> QED
    BY <2>1, NoPacks
<1>9. BonusCombo(T) = {}
  <2>1. \A i \in DOMAIN T : i + 1 \in DOMAIN T /\ T[i + 1].kind = "count" => i = s
    BY <1>4, <1>7
  <2>2. s + 2 \in DOMAIN T => T[s + 2].kind # "plus"
    BY <1>4, <1>5
  <2>3. \A i \in DOMAIN T : i + 2 \in DOMAIN T /\ T[i + 1].kind = "count" => T[i + 2].kind # "plus"
    BY <2>1, <2>2, <1>4
  <2> QED
    BY <2>3, NoBonus
<1>10. Find(T, <<"num", "count">>) = {s}
  <2>1. /\ s + 1 <= Len(T)
        /\ T[s].kind = "num" /\ T[s + 1].kind = "count"
    BY <1>4, <1>6
  <2>2. Fits(T, s, <<"num", "count">>)
    BY <2>1 DEF Fits
  <2>3. \A i \in DOMAIN T : i + 1 \in DOMAIN T /\ T[i + 1].kind = "count" => i = s
    BY <1>4, <1>7
  <2>4. \A i \in DOMAIN T : Fits(T, i, <<"num", "count">>) => i = s
    BY <2>3, CountKey
  <2>5. \A i \in DOMAIN T : Fits(T, i, <<"num", "count">>) <=> i = s
    BY <2>2, <2>4
  <2>6. {i \in DOMAIN T : Fits(T, i, <<"num", "count">>)} = {s}
    BY <2>5
  <2> QED
    BY <2>6, <1>4, LeftmostOfOne DEF Find
<1>11. SimpleCount(T) = {LET all == Convert(w.n, w.u) IN Parsed(all.unit, all.quantity, w.n, 1, 0)}
  BY <1>6, <1>10 DEF SimpleCount
<1> QED
  BY <1>7, <1>8, <1>9, <1>11, NoMass, TriedInOrder

\* A volume, a number and a unit.
LEMMA EachParsed ==
  ASSUME NEW T \in Seq(Token), NEW w, WellWritten(w), w.kind = "each",
         NEW s \in DOMAIN T, StandsAt(w, T, s)
  PROVE  ParseOptionText(T) = Several(w.v, w.m, w.n, 1)
<1>1. w.v \in Nat /\ w.m \in DOMAIN MassUnits /\ w.n \in Nat /\ w.u \in DOMAIN CountUnits
  BY UnitNames DEF WellWritten
<1>2. Written(w) = <<Num(w.v), Unit(w.m), Num(w.n), Unit(w.u)>>
  BY DEF Written
<1>3. Len(Written(w)) = 4 /\ DOMAIN Written(w) = 1..4
  BY <1>2
<1>4. s \in Int /\ s >= 1 /\ DOMAIN T = 1..Len(T) /\ Len(T) \in Nat /\ s + 3 <= Len(T)
  <2>1. s \in Int /\ s >= 1 /\ DOMAIN T = 1..Len(T) /\ Len(T) \in Nat
    OBVIOUS
  <2> QED
    BY <1>3, <2>1 DEF StandsAt
<1>5. \A j \in DOMAIN T : j < s \/ j > s + 3 =>
        T[j].kind \notin {"mass", "count", "total"} /\ (j = s + 4 => T[j].kind # "plus")
  <2>1. \A j \in DOMAIN T : j < s \/ j > s + 3 => j \in DOMAIN T \ (s .. s + Len(Written(w)) - 1)
    BY <1>3, <1>4
  <2> QED
    BY <1>3, <2>1 DEF StandsAt
<1>6. /\ T[s].kind = "num" /\ T[s].n = w.v /\ T[s + 1].kind = "mass" /\ T[s + 1].u = w.m
      /\ T[s + 2].kind = "num" /\ T[s + 2].n = w.n /\ T[s + 3].kind = "count"
  <2>1. \A j \in 1..4 : T[s + j - 1] = Written(w)[j]
    BY <1>3 DEF StandsAt
  <2>2. /\ s + 1 - 1 = s /\ s + 2 - 1 = s + 1 /\ s + 3 - 1 = s + 2 /\ s + 4 - 1 = s + 3
    BY <1>4
  <2>3. /\ T[s] = Num(w.v) /\ T[s + 1] = Unit(w.m) /\ T[s + 2] = Num(w.n)
        /\ T[s + 3] = Unit(w.u)
    BY <1>2, <2>1, <2>2
  <2>4. T[s].kind = "num" /\ T[s].n = w.v /\ T[s + 1].kind = "mass" /\ T[s + 1].u = w.m
    BY <1>1, <2>3, Numbers, Units, Signs
  <2>5. T[s + 2].kind = "num" /\ T[s + 2].n = w.n /\ T[s + 3].kind = "count"
    BY <1>1, <2>3, Numbers, Units, Signs
  <2> QED
    BY <2>4, <2>5
<1>7. \A j \in DOMAIN T : (T[j].kind = "mass" => j = s + 1) /\ (T[j].kind = "count" => j \in {s + 3})
  <2> SUFFICES ASSUME NEW j \in DOMAIN T, T[j].kind \in {"mass", "count"}
               PROVE  (T[j].kind = "mass" => j = s + 1) /\ (T[j].kind = "count" => j \in {s + 3})
    OBVIOUS
  <2>1. j >= s /\ j <= s + 3
    BY <1>4, <1>5
  <2>2. j \in {s, s + 1, s + 2, s + 3}
    BY <1>4, <2>1
  <2> QED
    BY <2>2, <1>6
<1>8. NxMWithTotal(T) = {}
  <2>1. \A j \in DOMAIN T : j + 3 \in DOMAIN T /\ T[j].kind = "count" => T[j + 3].kind # "count"
    BY <1>4, <1>7
  <2> QED
    BY <2>1, NoPacks
<1>9. Find(T, <<"num", "mass", "num", "count">>) = {s}
  <2>1. /\ s + 3 <= Len(T)
        /\ T[s].kind = "num" /\ T[s + 1].kind = "mass" /\ T[s + 2].kind = "num" /\ T[s + 3].kind = "count"
    BY <1>4, <1>6
  <2>2. Fits(T, s, <<"num", "mass", "num", "count">>)
    BY <2>1 DEF Fits
  <2>3. \A i \in DOMAIN T : i + 1 \in DOMAIN T /\ T[i + 1].kind = "mass" => i = s
    BY <1>4, <1>7
  <2>4. \A i \in DOMAIN T : Fits(T, i, <<"num", "mass", "num", "count">>) => i = s
    BY <2>3, EachKey
  <2>5. \A i \in DOMAIN T : Fits(T, i, <<"num", "mass", "num", "count">>) <=> i = s
    BY <2>2, <2>4
  <2>6. {i \in DOMAIN T : Fits(T, i, <<"num", "mass", "num", "count">>)} = {s}
    BY <2>5
  <2> QED
    BY <2>6, <1>4, LeftmostOfOne DEF Find
<1>10. VolumeSpaceCount(T) = {Several(w.v, w.m, w.n, 1)}
  BY <1>6, <1>9 DEF VolumeSpaceCount
<1>11. ParenthesisDetail(T) = {} /\ CommaCombo(T) = {} /\ VolumeXCount(T) = {}
  BY <1>6, <1>7, OneMass
<1> QED
  BY <1>8, <1>10, <1>11, TriedInOrder

\* The same with a comma between them.
LEMMA CommaParsed ==
  ASSUME NEW T \in Seq(Token), NEW w, WellWritten(w), w.kind = "comma",
         NEW s \in DOMAIN T, StandsAt(w, T, s)
  PROVE  ParseOptionText(T) = Several(w.v, w.m, w.n, 1)
<1>1. w.v \in Nat /\ w.m \in DOMAIN MassUnits /\ w.n \in Nat /\ w.u \in DOMAIN CountUnits
  BY UnitNames DEF WellWritten
<1>2. Written(w) = <<Num(w.v), Unit(w.m), Sign("comma"), Num(w.n), Unit(w.u)>>
  BY DEF Written
<1>3. Len(Written(w)) = 5 /\ DOMAIN Written(w) = 1..5
  BY <1>2
<1>4. s \in Int /\ s >= 1 /\ DOMAIN T = 1..Len(T) /\ Len(T) \in Nat /\ s + 4 <= Len(T)
  <2>1. s \in Int /\ s >= 1 /\ DOMAIN T = 1..Len(T) /\ Len(T) \in Nat
    OBVIOUS
  <2> QED
    BY <1>3, <2>1 DEF StandsAt
<1>5. \A j \in DOMAIN T : j < s \/ j > s + 4 =>
        T[j].kind \notin {"mass", "count", "total"} /\ (j = s + 5 => T[j].kind # "plus")
  <2>1. \A j \in DOMAIN T : j < s \/ j > s + 4 => j \in DOMAIN T \ (s .. s + Len(Written(w)) - 1)
    BY <1>3, <1>4
  <2> QED
    BY <1>3, <2>1 DEF StandsAt
<1>6. /\ T[s].kind = "num" /\ T[s].n = w.v /\ T[s + 1].kind = "mass" /\ T[s + 1].u = w.m
      /\ T[s + 2].kind = "comma" /\ T[s + 3].kind = "num" /\ T[s + 3].n = w.n
      /\ T[s + 4].kind = "count"
  <2>1. \A j \in 1..5 : T[s + j - 1] = Written(w)[j]
    BY <1>3 DEF StandsAt
  <2>2. /\ s + 1 - 1 = s /\ s + 2 - 1 = s + 1 /\ s + 3 - 1 = s + 2 /\ s + 4 - 1 = s + 3
        /\ s + 5 - 1 = s + 4
    BY <1>4
  <2>3. /\ T[s] = Num(w.v) /\ T[s + 1] = Unit(w.m) /\ T[s + 2] = Sign("comma")
        /\ T[s + 3] = Num(w.n) /\ T[s + 4] = Unit(w.u)
    BY <1>2, <2>1, <2>2
  <2>4. T[s].kind = "num" /\ T[s].n = w.v /\ T[s + 1].kind = "mass" /\ T[s + 1].u = w.m
    BY <1>1, <2>3, Numbers, Units, Signs
  <2>5. T[s + 2].kind = "comma" /\ T[s + 3].kind = "num" /\ T[s + 3].n = w.n
    BY <1>1, <2>3, Numbers, Units, Signs
  <2>6. T[s + 4].kind = "count"
    BY <1>1, <2>3, Numbers, Units, Signs
  <2> QED
    BY <2>4, <2>5, <2>6
<1>7. \A j \in DOMAIN T : (T[j].kind = "mass" => j = s + 1) /\ (T[j].kind = "count" => j \in {s + 4})
  <2> SUFFICES ASSUME NEW j \in DOMAIN T, T[j].kind \in {"mass", "count"}
               PROVE  (T[j].kind = "mass" => j = s + 1) /\ (T[j].kind = "count" => j \in {s + 4})
    OBVIOUS
  <2>1. j >= s /\ j <= s + 4
    BY <1>4, <1>5
  <2>2. j \in {s, s + 1, s + 2, s + 3, s + 4}
    BY <1>4, <2>1
  <2> QED
    BY <2>2, <1>6
<1>8. NxMWithTotal(T) = {}
  <2>1. \A j \in DOMAIN T : j + 3 \in DOMAIN T /\ T[j].kind = "count" => T[j + 3].kind # "count"
    BY <1>4, <1>7
  <2> QED
    BY <2>1, NoPacks
<1>9. Find(T, <<"num", "mass", "comma", "num", "count">>) = {s}
  <2>1. /\ s + 4 <= Len(T)
        /\ T[s].kind = "num" /\ T[s + 1].kind = "mass" /\ T[s + 2].kind = "comma"
        /\ T[s + 3].kind = "num" /\ T[s + 4].kind = "count"
    BY <1>4, <1>6
  <2>2. Fits(T, s, <<"num", "mass", "comma", "num", "count">>)
    BY <2>1 DEF Fits
  <2>3. \A i \in DOMAIN T : i + 1 \in DOMAIN T /\ T[i + 1].kind = "mass" => i = s
    BY <1>4, <1>7
  <2>4. \A i \in DOMAIN T : Fits(T, i, <<"num", "mass", "comma", "num", "count">>) => i = s
    BY <2>3, CommaKey
  <2>5. \A i \in DOMAIN T : Fits(T, i, <<"num", "mass", "comma", "num", "count">>) <=> i = s
    BY <2>2, <2>4
  <2>6. {i \in DOMAIN T : Fits(T, i, <<"num", "mass", "comma", "num", "count">>)} = {s}
    BY <2>5
  <2> QED
    BY <2>6, <1>4, LeftmostOfOne DEF Find
<1>10. CommaCombo(T) = {Several(w.v, w.m, w.n, 1)}
  BY <1>6, <1>9 DEF CommaCombo
<1>11. ParenthesisDetail(T) = {}
  BY <1>6, <1>7, OneMass
<1> QED
  BY <1>8, <1>10, <1>11, TriedInOrder

\* The same with a times sign, where each is a pack.
LEMMA TimesParsed ==
  ASSUME NEW T \in Seq(Token), NEW w, WellWritten(w), w.kind = "times",
         NEW s \in DOMAIN T, StandsAt(w, T, s)
  PROVE  ParseOptionText(T) = Several(w.v, w.m, w.n, w.n)
<1>1. w.v \in Nat /\ w.m \in DOMAIN MassUnits /\ w.n \in Nat /\ w.u \in DOMAIN CountUnits
  BY UnitNames DEF WellWritten
<1>2. Written(w) = <<Num(w.v), Unit(w.m), Sign("x"), Num(w.n), Unit(w.u)>>
  BY DEF Written
<1>3. Len(Written(w)) = 5 /\ DOMAIN Written(w) = 1..5
  BY <1>2
<1>4. s \in Int /\ s >= 1 /\ DOMAIN T = 1..Len(T) /\ Len(T) \in Nat /\ s + 4 <= Len(T)
  <2>1. s \in Int /\ s >= 1 /\ DOMAIN T = 1..Len(T) /\ Len(T) \in Nat
    OBVIOUS
  <2> QED
    BY <1>3, <2>1 DEF StandsAt
<1>5. \A j \in DOMAIN T : j < s \/ j > s + 4 =>
        T[j].kind \notin {"mass", "count", "total"} /\ (j = s + 5 => T[j].kind # "plus")
  <2>1. \A j \in DOMAIN T : j < s \/ j > s + 4 => j \in DOMAIN T \ (s .. s + Len(Written(w)) - 1)
    BY <1>3, <1>4
  <2> QED
    BY <1>3, <2>1 DEF StandsAt
<1>6. /\ T[s].kind = "num" /\ T[s].n = w.v /\ T[s + 1].kind = "mass" /\ T[s + 1].u = w.m
      /\ T[s + 2].kind = "x" /\ T[s + 3].kind = "num" /\ T[s + 3].n = w.n
      /\ T[s + 4].kind = "count"
  <2>1. \A j \in 1..5 : T[s + j - 1] = Written(w)[j]
    BY <1>3 DEF StandsAt
  <2>2. /\ s + 1 - 1 = s /\ s + 2 - 1 = s + 1 /\ s + 3 - 1 = s + 2 /\ s + 4 - 1 = s + 3
        /\ s + 5 - 1 = s + 4
    BY <1>4
  <2>3. /\ T[s] = Num(w.v) /\ T[s + 1] = Unit(w.m) /\ T[s + 2] = Sign("x")
        /\ T[s + 3] = Num(w.n) /\ T[s + 4] = Unit(w.u)
    BY <1>2, <2>1, <2>2
  <2>4. T[s].kind = "num" /\ T[s].n = w.v /\ T[s + 1].kind = "mass" /\ T[s + 1].u = w.m
    BY <1>1, <2>3, Numbers, Units, Signs
  <2>5. T[s + 2].kind = "x" /\ T[s + 3].kind = "num" /\ T[s + 3].n = w.n
    BY <1>1, <2>3, Numbers, Units, Signs
  <2>6. T[s + 4].kind = "count"
    BY <1>1, <2>3, Numbers, Units, Signs
  <2> QED
    BY <2>4, <2>5, <2>6
<1>7. \A j \in DOMAIN T : (T[j].kind = "mass" => j = s + 1) /\ (T[j].kind = "count" => j \in {s + 4})
  <2> SUFFICES ASSUME NEW j \in DOMAIN T, T[j].kind \in {"mass", "count"}
               PROVE  (T[j].kind = "mass" => j = s + 1) /\ (T[j].kind = "count" => j \in {s + 4})
    OBVIOUS
  <2>1. j >= s /\ j <= s + 4
    BY <1>4, <1>5
  <2>2. j \in {s, s + 1, s + 2, s + 3, s + 4}
    BY <1>4, <2>1
  <2> QED
    BY <2>2, <1>6
<1>8. NxMWithTotal(T) = {}
  <2>1. \A j \in DOMAIN T : j + 3 \in DOMAIN T /\ T[j].kind = "count" => T[j + 3].kind # "count"
    BY <1>4, <1>7
  <2> QED
    BY <2>1, NoPacks
<1>9. Find(T, <<"num", "mass", "x", "num">>) = {s}
  <2>1. /\ s + 3 <= Len(T)
        /\ T[s].kind = "num" /\ T[s + 1].kind = "mass" /\ T[s + 2].kind = "x" /\ T[s + 3].kind = "num"
    BY <1>4, <1>6
  <2>2. Fits(T, s, <<"num", "mass", "x", "num">>)
    BY <2>1 DEF Fits
  <2>3. \A i \in DOMAIN T : i + 1 \in DOMAIN T /\ T[i + 1].kind = "mass" => i = s
    BY <1>4, <1>7
  <2>4. \A i \in DOMAIN T : Fits(T, i, <<"num", "mass", "x", "num">>) => i = s
    BY <2>3, TimesKey
  <2>5. \A i \in DOMAIN T : Fits(T, i, <<"num", "mass", "x", "num">>) <=> i = s
    BY <2>2, <2>4
  <2>6. {i \in DOMAIN T : Fits(T, i, <<"num", "mass", "x", "num">>)} = {s}
    BY <2>5
  <2> QED
    BY <2>6, <1>4, LeftmostOfOne DEF Find
<1>10. VolumeXCount(T) = {Several(w.v, w.m, w.n, w.n)}
  BY <1>6, <1>9 DEF VolumeXCount
<1>11. ParenthesisDetail(T) = {} /\ CommaCombo(T) = {}
  BY <1>6, <1>7, OneMass
<1> QED
  BY <1>8, <1>10, <1>11, TriedInOrder

\* A total that is written out.
LEMMA TotalKey ==
  ASSUME NEW T \in Seq(Token), NEW i \in Nat \ {0}, Fits(T, i, <<"total", "num", "count">>)
  PROVE  i \in DOMAIN T /\ T[i].kind = "total"
<1>1. i + 3 - 1 <= Len(T) /\ Len(T) \in Nat
  BY DEF Fits
<1>2. T[i + 1 - 1].kind = "total"
  BY DEF Fits
<1>3. i + 1 - 1 = i
  OBVIOUS
<1> QED
  BY <1>1, <1>2, <1>3

LEMMA NoTotal ==
  ASSUME NEW T \in Seq(Token), \A j \in DOMAIN T : T[j].kind # "total", NEW i \in Nat
  PROVE  ExplicitTotal(T) = {} /\ TotalBehind(T, i + 1) = {}
<1>1. \A j \in Nat \ {0} : ~Fits(T, j, <<"total", "num", "count">>)
  BY TotalKey
<1>2. {j \in DOMAIN T : /\ Fits(T, j, <<"total", "num", "count">>)
                       /\ T[j + 2].u \in {"gaeip", "gae", "paek"}} = {}
  BY <1>1
<1>3. {j \in {i + 1, i + 1 + 1} :
         Fits(T, j, <<"total", "num", "count">>) /\ (j = i + 1 \/ T[i + 1].kind = "open")} = {}
  <2>1. i + 1 \in Nat \ {0} /\ i + 1 + 1 \in Nat \ {0}
    OBVIOUS
  <2>2. \A j \in {i + 1, i + 1 + 1} : ~Fits(T, j, <<"total", "num", "count">>)
    BY <1>1, <2>1
  <2> QED
    BY <2>2
<1>4. ExplicitTotal(T) = {}
  BY <1>2, LeftmostOfNone DEF ExplicitTotal
<1>5. TotalBehind(T, i + 1) = {}
  BY <1>3 DEF TotalBehind
<1> QED
  BY <1>4, <1>5

\* What the packs at s come to.
PacksTotal(T, s) ==
  IF ExplicitTotal(T) \ {0} # {} THEN Min(ExplicitTotal(T) \ {0})
  ELSE IF TotalBehind(T, s + 5) # {} THEN Min(TotalBehind(T, s + 5))
  ELSE T[s].n * T[s + 3].n

LEMMA PacksAt ==
  ASSUME NEW T, NEW s, Find(T, <<"num", "count", "x", "num", "count">>) = {s}
  PROVE  NxMWithTotal(T) =
           {Parsed("ct", PacksTotal(T, s) * 1000, PacksTotal(T, s), T[s + 3].n, 0)}
BY DEF NxMWithTotal, PacksTotal

\* Packs, of which no total is written out.
LEMMA PacksParsed ==
  ASSUME NEW T \in Seq(Token), NEW w, WellWritten(w), w.kind = "packs",
         NEW s \in DOMAIN T, StandsAt(w, T, s)
  PROVE  ParseOptionText(T) = Parsed("ct", w.n * w.k * 1000, w.n * w.k, w.k, 0)
<1>1. w.n \in Nat /\ w.k \in Nat /\ w.u \in DOMAIN CountUnits /\ "paek" \in DOMAIN CountUnits
  BY UnitNames DEF WellWritten
<1>2. Written(w) = <<Num(w.n), Unit(w.u), Sign("x"), Num(w.k), Unit("paek")>>
  BY DEF Written
<1>3. Len(Written(w)) = 5 /\ DOMAIN Written(w) = 1..5
  BY <1>2
<1>4. s \in Int /\ s >= 1 /\ DOMAIN T = 1..Len(T) /\ Len(T) \in Nat /\ s + 4 <= Len(T)
  <2>1. s \in Int /\ s >= 1 /\ DOMAIN T = 1..Len(T) /\ Len(T) \in Nat
    OBVIOUS
  <2> QED
    BY <1>3, <2>1 DEF StandsAt
<1>5. \A j \in DOMAIN T : j < s \/ j > s + 4 =>
        T[j].kind \notin {"mass", "count", "total"} /\ (j = s + 5 => T[j].kind # "plus")
  <2>1. \A j \in DOMAIN T : j < s \/ j > s + 4 => j \in DOMAIN T \ (s .. s + Len(Written(w)) - 1)
    BY <1>3, <1>4
  <2> QED
    BY <1>3, <2>1 DEF StandsAt
<1>6. /\ T[s].kind = "num" /\ T[s].n = w.n /\ T[s + 1].kind = "count"
      /\ T[s + 2].kind = "x" /\ T[s + 3].kind = "num" /\ T[s + 3].n = w.k
      /\ T[s + 4].kind = "count"
  <2>1. \A j \in 1..5 : T[s + j - 1] = Written(w)[j]
    BY <1>3 DEF StandsAt
  <2>2. /\ s + 1 - 1 = s /\ s + 2 - 1 = s + 1 /\ s + 3 - 1 = s + 2 /\ s + 4 - 1 = s + 3
        /\ s + 5 - 1 = s + 4
    BY <1>4
  <2>3. /\ T[s] = Num(w.n) /\ T[s + 1] = Unit(w.u) /\ T[s + 2] = Sign("x")
        /\ T[s + 3] = Num(w.k) /\ T[s + 4] = Unit("paek")
    BY <1>2, <2>1, <2>2
  <2>4. T[s].kind = "num" /\ T[s].n = w.n /\ T[s + 1].kind = "count"
    BY <1>1, <2>3, Numbers, Units, Signs
  <2>5. T[s + 2].kind = "x" /\ T[s + 3].kind = "num" /\ T[s + 3].n = w.k
    BY <1>1, <2>3, Numbers, Units, Signs
  <2>6. T[s + 4].kind = "count"
    BY <1>1, <2>3, Numbers, Units, Signs
  <2> QED
    BY <2>4, <2>5, <2>6
<1>7. \A j \in DOMAIN T : (T[j].kind # "mass") /\ (T[j].kind = "count" => j \in {s + 1, s + 4})
  <2> SUFFICES ASSUME NEW j \in DOMAIN T, T[j].kind \in {"mass", "count"}
               PROVE  (T[j].kind # "mass") /\ (T[j].kind = "count" => j \in {s + 1, s + 4})
    OBVIOUS
  <2>1. j >= s /\ j <= s + 4
    BY <1>4, <1>5
  <2>2. j \in {s, s + 1, s + 2, s + 3, s + 4}
    BY <1>4, <2>1
  <2> QED
    BY <2>2, <1>6
<1>8. \A j \in DOMAIN T : T[j].kind # "total"
  <2> SUFFICES ASSUME NEW j \in DOMAIN T, T[j].kind = "total" PROVE FALSE
    OBVIOUS
  <2>1. j >= s /\ j <= s + 4
    BY <1>4, <1>5
  <2>2. j \in {s, s + 1, s + 2, s + 3, s + 4}
    BY <1>4, <2>1
  <2> QED
    BY <2>2, <1>6
<1>9. Find(T, <<"num", "count", "x", "num", "count">>) = {s}
  <2>1. /\ s + 4 <= Len(T)
        /\ T[s].kind = "num" /\ T[s + 1].kind = "count" /\ T[s + 2].kind = "x"
        /\ T[s + 3].kind = "num" /\ T[s + 4].kind = "count"
    BY <1>4, <1>6
  <2>2. Fits(T, s, <<"num", "count", "x", "num", "count">>)
    BY <2>1 DEF Fits
  <2>3. \A i \in DOMAIN T :
          i + 1 \in DOMAIN T /\ i + 4 \in DOMAIN T
            /\ T[i + 1].kind = "count" /\ T[i + 4].kind = "count" => i = s
    <3> SUFFICES ASSUME NEW i \in DOMAIN T, i + 1 \in DOMAIN T, i + 4 \in DOMAIN T,
                        T[i + 1].kind = "count", T[i + 4].kind = "count"
                 PROVE  i = s
      OBVIOUS
    <3>1. i \in Int /\ i + 1 \in {s + 1, s + 4} /\ i + 4 \in {s + 1, s + 4}
      BY <1>4, <1>7
    <3> QED
      BY <1>4, <3>1
  <2>4. \A i \in DOMAIN T : Fits(T, i, <<"num", "count", "x", "num", "count">>) => i = s
    BY <2>3, PacksKey
  <2>5. \A i \in DOMAIN T : Fits(T, i, <<"num", "count", "x", "num", "count">>) <=> i = s
    BY <2>2, <2>4
  <2>6. {i \in DOMAIN T : Fits(T, i, <<"num", "count", "x", "num", "count">>)} = {s}
    BY <2>5
  <2> QED
    BY <2>6, <1>4, LeftmostOfOne DEF Find
<1>10. ExplicitTotal(T) = {} /\ TotalBehind(T, s + 5) = {}
  <2>1. s + 4 \in Nat /\ s + 4 + 1 = s + 5
    BY <1>4
  <2> QED
    BY <1>8, <2>1, NoTotal
<1>11. NxMWithTotal(T) = {Parsed("ct", w.n * w.k * 1000, w.n * w.k, w.k, 0)}
  <2>1. PICK total : total = w.n * w.k
    OBVIOUS
  <2>2. PacksTotal(T, s) = total
    BY <2>1, <1>6, <1>10 DEF PacksTotal
  <2>3. NxMWithTotal(T) = {Parsed("ct", total * 1000, total, T[s + 3].n, 0)}
    BY <2>2, <1>9, PacksAt
  <2> QED
    BY <2>1, <2>3, <1>6
<1>12. ParenthesisDetail(T) = {} /\ CommaCombo(T) = {}
  BY <1>7, NoMass
<1> QED
  <2>1. PICK r : r = Parsed("ct", w.n * w.k * 1000, w.n * w.k, w.k, 0)
    OBVIOUS
  <2>2. NxMWithTotal(T) = {r}
    BY <2>1, <1>11
  <2>3. ParseOptionText(T) = r
    BY <2>2, <1>12, TriedInOrder
  <2> QED
    BY <2>1, <2>3

\* Packs with a total: it counts whether or not its unit is among those that are
\* looked for anywhere, for it stands right behind.
LEMMA TotalParsed ==
  ASSUME NEW T \in Seq(Token), NEW w, WellWritten(w), w.kind = "total",
         NEW s \in DOMAIN T, StandsAt(w, T, s)
  PROVE  ParseOptionText(T) = Parsed("ct", w.t * 1000, w.t, w.k, 0)
<1>1. /\ w.n \in Nat /\ w.k \in Nat /\ w.t \in Nat
      /\ w.u \in DOMAIN CountUnits /\ "paek" \in DOMAIN CountUnits
  BY UnitNames DEF WellWritten
<1>2. Written(w) = <<Num(w.n), Unit(w.u), Sign("x"), Num(w.k), Unit("paek"),
                    Sign("open"), Sign("total"), Num(w.t), Unit(w.u), Sign("close")>>
  BY DEF Written
<1>3. Len(Written(w)) = 10 /\ DOMAIN Written(w) = 1..10
  BY <1>2
<1>4. s \in Int /\ s >= 1 /\ DOMAIN T = 1..Len(T) /\ Len(T) \in Nat /\ s + 9 <= Len(T)
  <2>1. s \in Int /\ s >= 1 /\ DOMAIN T = 1..Len(T) /\ Len(T) \in Nat
    OBVIOUS
  <2> QED
    BY <1>3, <2>1 DEF StandsAt
<1>5. \A j \in DOMAIN T : j < s \/ j > s + 9 =>
        T[j].kind \notin {"mass", "count", "total"} /\ (j = s + 10 => T[j].kind # "plus")
  <2>1. \A j \in DOMAIN T : j < s \/ j > s + 9 => j \in DOMAIN T \ (s .. s + Len(Written(w)) - 1)
    BY <1>3, <1>4
  <2> QED
    BY <1>3, <2>1 DEF StandsAt
<1>6. /\ T[s].kind = "num" /\ T[s].n = w.n /\ T[s + 1].kind = "count"
      /\ T[s + 2].kind = "x" /\ T[s + 3].kind = "num" /\ T[s + 3].n = w.k
      /\ T[s + 4].kind = "count" /\ T[s + 5].kind = "open" /\ T[s + 6].kind = "total"
      /\ T[s + 7].kind = "num" /\ T[s + 7].n = w.t /\ T[s + 8].kind = "count" /\ T[s + 9].kind = "close"
  <2>1. \A j \in 1..10 : T[s + j - 1] = Written(w)[j]
    BY <1>3 DEF StandsAt
  <2>2. /\ s + 1 - 1 = s /\ s + 2 - 1 = s + 1 /\ s + 3 - 1 = s + 2 /\ s + 4 - 1 = s + 3
        /\ s + 5 - 1 = s + 4 /\ s + 6 - 1 = s + 5 /\ s + 7 - 1 = s + 6 /\ s + 8 - 1 = s + 7
        /\ s + 9 - 1 = s + 8 /\ s + 10 - 1 = s + 9
    BY <1>4
  <2>3. T[s] = Num(w.n)
    BY <1>2, <2>1, <2>2
  <2>4. T[s + 1] = Unit(w.u)
    BY <1>2, <2>1, <2>2
  <2>5. T[s + 2] = Sign("x")
    BY <1>2, <2>1, <2>2
  <2>6. T[s + 3] = Num(w.k)
    BY <1>2, <2>1, <2>2
  <2>7. T[s + 4] = Unit("paek")
    BY <1>2, <2>1, <2>2
  <2>8. T[s + 5] = Sign("open")
    BY <1>2, <2>1, <2>2
  <2>9. T[s + 6] = Sign("total")
    BY <1>2, <2>1, <2>2
  <2>10. T[s + 7] = Num(w.t)
    BY <1>2, <2>1, <2>2
  <2>11. T[s + 8] = Unit(w.u)
    BY <1>2, <2>1, <2>2
  <2>12. T[s + 9] = Sign("close")
    BY <1>2, <2>1, <2>2
  <2>13. T[s].kind = "num" /\ T[s].n = w.n /\ T[s + 1].kind = "count"
    BY <1>1, <2>3, <2>4, Numbers, Units, Signs
  <2>14. T[s + 2].kind = "x" /\ T[s + 3].kind = "num" /\ T[s + 3].n = w.k
    BY <1>1, <2>5, <2>6, Numbers, Units, Signs
  <2>15. T[s + 4].kind = "count" /\ T[s + 5].kind = "open" /\ T[s + 6].kind = "total"
    BY <1>1, <2>7, <2>8, <2>9, Numbers, Units, Signs
  <2>16. T[s + 7].kind = "num" /\ T[s + 7].n = w.t /\ T[s + 8].kind = "count" /\ T[s + 9].kind = "close"
    BY <1>1, <2>10, <2>11, <2>12, Numbers, Units, Signs
  <2> QED
    BY <2>13, <2>14, <2>15, <2>16
<1>7. \A j \in DOMAIN T : (T[j].kind # "mass") /\ (T[j].kind = "count" => j \in {s + 1, s + 4, s + 8})
  <2> SUFFICES ASSUME NEW j \in DOMAIN T, T[j].kind \in {"mass", "count"}
               PROVE  (T[j].kind # "mass") /\ (T[j].kind = "count" => j \in {s + 1, s + 4, s + 8})
    OBVIOUS
  <2>1. j >= s /\ j <= s + 9
    BY <1>4, <1>5
  <2>2. CASE j <= s + 4
    <3>1. j \in {s, s + 1, s + 2, s + 3, s + 4}
      <4>1. s \in Int /\ j \in Int /\ s <= j /\ j <= s + 4
        BY <1>4, <2>1, <2>2
      <4> QED
        BY <4>1, OneOfFive
    <3> QED
      BY <3>1, <1>6
  <2>3. CASE j > s + 4
    <3>1. j \in {s + 5, s + 6, s + 7, s + 8, s + 9}
      <4>1. s \in Int /\ j \in Int /\ s + 4 < j /\ j <= s + 9
        BY <1>4, <2>1, <2>3
      <4>2. s + 5 \in Int /\ s + 5 <= j /\ j <= (s + 5) + 4
        BY <4>1
      <4>3. j \in {s + 5, (s + 5) + 1, (s + 5) + 2, (s + 5) + 3, (s + 5) + 4}
        BY <4>1, <4>2, OneOfFive
      <4>4. (s + 5) + 1 = s + 6 /\ (s + 5) + 2 = s + 7 /\ (s + 5) + 3 = s + 8 /\ (s + 5) + 4 = s + 9
        BY <4>1
      <4> QED
        BY <4>3, <4>4
    <3> QED
      BY <3>1, <1>6
  <2> QED
    BY <2>1, <2>2, <2>3, <1>4
<1>8. \A j \in DOMAIN T : T[j].kind = "total" => j = s + 6
  <2> SUFFICES ASSUME NEW j \in DOMAIN T, T[j].kind = "total" PROVE j = s + 6
    OBVIOUS
  <2>1. j >= s /\ j <= s + 9
    BY <1>4, <1>5
  <2>2. CASE j <= s + 4
    <3>1. j \in {s, s + 1, s + 2, s + 3, s + 4}
      <4>1. s \in Int /\ j \in Int /\ s <= j /\ j <= s + 4
        BY <1>4, <2>1, <2>2
      <4> QED
        BY <4>1, OneOfFive
    <3> QED
      BY <3>1, <1>6
  <2>3. CASE j > s + 4
    <3>1. j \in {s + 5, s + 6, s + 7, s + 8, s + 9}
      <4>1. s \in Int /\ j \in Int /\ s + 4 < j /\ j <= s + 9
        BY <1>4, <2>1, <2>3
      <4>2. s + 5 \in Int /\ s + 5 <= j /\ j <= (s + 5) + 4
        BY <4>1
      <4>3. j \in {s + 5, (s + 5) + 1, (s + 5) + 2, (s + 5) + 3, (s + 5) + 4}
        BY <4>1, <4>2, OneOfFive
      <4>4. (s + 5) + 1 = s + 6 /\ (s + 5) + 2 = s + 7 /\ (s + 5) + 3 = s + 8 /\ (s + 5) + 4 = s + 9
        BY <4>1
      <4> QED
        BY <4>3, <4>4
    <3> QED
      BY <3>1, <1>6
  <2> QED
    BY <2>1, <2>2, <2>3, <1>4
<1>9. Find(T, <<"num", "count", "x", "num", "count">>) = {s}
  <2>1. /\ s + 4 <= Len(T)
        /\ T[s].kind = "num" /\ T[s + 1].kind = "count" /\ T[s + 2].kind = "x"
        /\ T[s + 3].kind = "num" /\ T[s + 4].kind = "count"
    BY <1>4, <1>6
  <2>2. Fits(T, s, <<"num", "count", "x", "num", "count">>)
    BY <2>1 DEF Fits
  <2>3. \A i \in DOMAIN T :
          i + 1 \in DOMAIN T /\ i + 4 \in DOMAIN T
            /\ T[i + 1].kind = "count" /\ T[i + 4].kind = "count" => i = s
    <3> SUFFICES ASSUME NEW i \in DOMAIN T, i + 1 \in DOMAIN T, i + 4 \in DOMAIN T,
                        T[i + 1].kind = "count", T[i + 4].kind = "count"
                 PROVE  i = s
      OBVIOUS
    <3>1. i \in Int /\ i + 1 \in {s + 1, s + 4, s + 8} /\ i + 4 \in {s + 1, s + 4, s + 8}
      BY <1>4, <1>7
    <3> QED
      BY <1>4, <3>1
  <2>4. \A i \in DOMAIN T : Fits(T, i, <<"num", "count", "x", "num", "count">>) => i = s
    BY <2>3, PacksKey
  <2>5. \A i \in DOMAIN T : Fits(T, i, <<"num", "count", "x", "num", "count">>) <=> i = s
    BY <2>2, <2>4
  <2>6. {i \in DOMAIN T : Fits(T, i, <<"num", "count", "x", "num", "count">>)} = {s}
    BY <2>5
  <2> QED
    BY <2>6, <1>4, LeftmostOfOne DEF Find
<1>10. /\ s + 6 \in DOMAIN T /\ Fits(T, s + 6, <<"total", "num", "count">>)
      /\ \A j \in Nat \ {0} : Fits(T, j, <<"total", "num", "count">>) => j = s + 6
  <2>1. s + 6 \in DOMAIN T /\ s + 6 + 2 <= Len(T) /\ s + 6 + 1 = s + 7 /\ s + 6 + 2 = s + 8
    BY <1>4
  <2>2. /\ T[s + 6].kind = "total" /\ T[s + 6 + 1].kind = "num" /\ T[s + 6 + 2].kind = "count"
    BY <1>6, <2>1
  <2>3. Fits(T, s + 6, <<"total", "num", "count">>)
    <3> DEFINE pattern == <<"total", "num", "count">>
    <3>1. Len(pattern) = 3 /\ DOMAIN pattern = {1, 2, 3}
      OBVIOUS
    <3>2. pattern[1] = "total" /\ pattern[2] = "num" /\ pattern[3] = "count"
      OBVIOUS
    <3>3. s + 6 + 1 - 1 = s + 6 /\ s + 6 + 2 - 1 = s + 6 + 1 /\ s + 6 + 3 - 1 = s + 6 + 2
      BY <1>4
    <3> HIDE DEF pattern
    <3>4. \A j \in DOMAIN pattern : T[s + 6 + j - 1].kind = pattern[j]
      BY <2>2, <3>1, <3>2, <3>3
    <3>5. s + 6 + Len(pattern) - 1 <= Len(T)
      BY <2>1, <3>1, <3>3
    <3>6. Fits(T, s + 6, pattern)
      BY <3>4, <3>5 DEF Fits
    <3> QED
      BY <3>6 DEF pattern
  <2>4. \A j \in Nat \ {0} : Fits(T, j, <<"total", "num", "count">>) => j = s + 6
    BY <1>8, TotalKey
  <2> QED
    BY <2>1, <2>3, <2>4
<1>11. ExplicitTotal(T) = {} \/ ExplicitTotal(T) = {w.t}
  <2> DEFINE at == {j \in DOMAIN T : /\ Fits(T, j, <<"total", "num", "count">>)
                                    /\ T[j + 2].u \in {"gaeip", "gae", "paek"}}
  <2>1. at = {} \/ at = {s + 6}
    BY <1>4, <1>10
  <2>2. s + 6 \in Int /\ s + 6 + 1 = s + 7
    BY <1>4
  <2>3. CASE at = {}
    BY <2>3, LeftmostOfNone DEF ExplicitTotal
  <2>4. CASE at = {s + 6}
    <3>1. Leftmost(at) = {s + 6}
      BY <2>2, <2>4, LeftmostOfOne
    <3>2. ExplicitTotal(T) = {T[i + 1].n : i \in Leftmost(at)}
      BY DEF ExplicitTotal
    <3>3. {T[i + 1].n : i \in {s + 6}} = {T[s + 6 + 1].n}
      OBVIOUS
    <3> QED
      BY <2>2, <3>1, <3>2, <3>3, <1>6
  <2> QED
    BY <2>1, <2>3, <2>4
<1>12. TotalBehind(T, s + 5) = {w.t}
  <2>1. s + 5 + 1 = s + 6 /\ s + 5 \in Nat \ {0} /\ s + 5 # s + 6 /\ s + 6 + 1 = s + 7
    BY <1>4
  <2>2. ~Fits(T, s + 5, <<"total", "num", "count">>) /\ T[s + 5].kind = "open"
    BY <1>6, <1>10, <2>1
  <2>3. {j \in {s + 5, s + 5 + 1} :
           Fits(T, j, <<"total", "num", "count">>) /\ (j = s + 5 \/ T[s + 5].kind = "open")} = {s + 6}
    BY <1>10, <2>1, <2>2
  <2>4. TotalBehind(T, s + 5) = {T[j + 1].n : j \in {s + 6}}
    BY <2>3 DEF TotalBehind
  <2>5. {T[j + 1].n : j \in {s + 6}} = {T[s + 6 + 1].n}
    OBVIOUS
  <2> QED
    BY <2>1, <2>4, <2>5, <1>6
<1>13. Min({w.t}) = w.t /\ (w.t # 0 => Min({w.t} \ {0}) = w.t)
  <2>1. Min({w.t}) = w.t
    BY <1>1 DEF Min
  <2>2. w.t # 0 => {w.t} \ {0} = {w.t}
    OBVIOUS
  <2> QED
    BY <2>1, <2>2
<1>14. NxMWithTotal(T) = {Parsed("ct", w.t * 1000, w.t, w.k, 0)}
  <2>1. PICK total : total = w.t
    OBVIOUS
  <2>2. PacksTotal(T, s) = total
    BY <2>1, <1>11, <1>12, <1>13 DEF PacksTotal
  <2>3. NxMWithTotal(T) = {Parsed("ct", total * 1000, total, T[s + 3].n, 0)}
    BY <2>2, <1>9, PacksAt
  <2> QED
    BY <2>1, <2>3, <1>6
<1>15. ParenthesisDetail(T) = {} /\ CommaCombo(T) = {}
  BY <1>7, NoMass
<1> QED
  <2>1. PICK r : r = Parsed("ct", w.t * 1000, w.t, w.k, 0)
    OBVIOUS
  <2>2. NxMWithTotal(T) = {r}
    BY <2>1, <1>14
  <2>3. ParseOptionText(T) = r
    BY <2>2, <1>15, TriedInOrder
  <2> QED
    BY <2>1, <2>3

\* A number with a gift: the gift's own unit is the only other count, and nothing
\* is added to it.
LEMMA BonusParsed ==
  ASSUME NEW T \in Seq(Token), NEW w, WellWritten(w), w.kind = "bonus",
         NEW s \in DOMAIN T, StandsAt(w, T, s)
  PROVE  ParseOptionText(T) = Parsed("ct", w.n * 1000, w.n, 1, w.k)
<1>1. w.n \in Nat /\ w.k \in Nat /\ w.u \in DOMAIN CountUnits /\ "paek" \in DOMAIN CountUnits
  BY UnitNames DEF WellWritten
<1>2. Written(w) = <<Num(w.n), Unit(w.u), Sign("plus"), Sign("gift"), Num(w.k), Unit(w.u)>>
  BY DEF Written
<1>3. Len(Written(w)) = 6 /\ DOMAIN Written(w) = 1..6
  BY <1>2
<1>4. s \in Int /\ s >= 1 /\ DOMAIN T = 1..Len(T) /\ Len(T) \in Nat /\ s + 5 <= Len(T)
  <2>1. s \in Int /\ s >= 1 /\ DOMAIN T = 1..Len(T) /\ Len(T) \in Nat
    OBVIOUS
  <2> QED
    BY <1>3, <2>1 DEF StandsAt
<1>5. \A j \in DOMAIN T : j < s \/ j > s + 5 =>
        T[j].kind \notin {"mass", "count", "total"} /\ (j = s + 6 => T[j].kind # "plus")
  <2>1. \A j \in DOMAIN T : j < s \/ j > s + 5 => j \in DOMAIN T \ (s .. s + Len(Written(w)) - 1)
    BY <1>3, <1>4
  <2> QED
    BY <1>3, <2>1 DEF StandsAt
<1>6. /\ T[s].kind = "num" /\ T[s].n = w.n /\ T[s + 1].kind = "count"
      /\ T[s + 2].kind = "plus" /\ T[s + 3].kind = "gift"
      /\ T[s + 4].kind = "num" /\ T[s + 4].n = w.k /\ T[s + 5].kind = "count"
  <2>1. \A j \in 1..6 : T[s + j - 1] = Written(w)[j]
    BY <1>3 DEF StandsAt
  <2>2. /\ s + 1 - 1 = s /\ s + 2 - 1 = s + 1 /\ s + 3 - 1 = s + 2 /\ s + 4 - 1 = s + 3
        /\ s + 5 - 1 = s + 4 /\ s + 6 - 1 = s + 5
    BY <1>4
  <2>3. /\ T[s] = Num(w.n) /\ T[s + 1] = Unit(w.u) /\ T[s + 2] = Sign("plus")
        /\ T[s + 3] = Sign("gift") /\ T[s + 4] = Num(w.k) /\ T[s + 5] = Unit(w.u)
    BY <1>2, <2>1, <2>2
  <2>4. T[s].kind = "num" /\ T[s].n = w.n /\ T[s + 1].kind = "count"
    BY <1>1, <2>3, Numbers, Units, Signs
  <2>5. T[s + 2].kind = "plus" /\ T[s + 3].kind = "gift"
    BY <1>1, <2>3, Numbers, Units, Signs
  <2>6. T[s + 4].kind = "num" /\ T[s + 4].n = w.k /\ T[s + 5].kind = "count"
    BY <1>1, <2>3, Numbers, Units, Signs
  <2> QED
    BY <2>4, <2>5, <2>6
<1>7. \A j \in DOMAIN T : (T[j].kind # "mass") /\ (T[j].kind = "count" => j \in {s + 1, s + 5})
  <2> SUFFICES ASSUME NEW j \in DOMAIN T, T[j].kind \in {"mass", "count"}
               PROVE  (T[j].kind # "mass") /\ (T[j].kind = "count" => j \in {s + 1, s + 5})
    OBVIOUS
  <2>1. j >= s /\ j <= s + 5
    BY <1>4, <1>5
  <2>2. j \in {s, s + 1, s + 2, s + 3, s + 4, s + 5}
    BY <1>4, <2>1
  <2> QED
    BY <2>2, <1>6
<1>8. NxMWithTotal(T) = {}
  <2>1. \A j \in DOMAIN T : j + 3 \in DOMAIN T /\ T[j].kind = "count" => T[j + 3].kind # "count"
    BY <1>4, <1>7
  <2> QED
    BY <2>1, NoPacks
<1>9. {i \in DOMAIN T : \/ Fits(T, i, <<"num", "count", "plus", "num">>)
                       \/ Fits(T, i, <<"num", "count", "plus", "gift", "num">>)} = {s}
  <2>1. /\ s + 4 <= Len(T)
        /\ T[s].kind = "num" /\ T[s + 1].kind = "count" /\ T[s + 2].kind = "plus"
        /\ T[s + 3].kind = "gift" /\ T[s + 4].kind = "num"
    BY <1>4, <1>6
  <2>2. Fits(T, s, <<"num", "count", "plus", "gift", "num">>)
    BY <2>1 DEF Fits
  <2>3. s + 6 \in DOMAIN T => T[s + 6].kind # "plus"
    BY <1>4, <1>5
  <2>4. \A i \in DOMAIN T : i + 1 \in DOMAIN T /\ T[i + 1].kind = "count" => i = s \/ i + 2 = s + 6
    BY <1>4, <1>7
  <2>5. \A i \in DOMAIN T :
          i + 1 \in DOMAIN T /\ i + 2 \in DOMAIN T
            /\ T[i + 1].kind = "count" /\ T[i + 2].kind = "plus" => i = s
    BY <2>3, <2>4
  <2>6. \A i \in DOMAIN T : Fits(T, i, <<"num", "count", "plus", "num">>) => i = s
    BY <2>5, PlusKey
  <2>7. \A i \in DOMAIN T : Fits(T, i, <<"num", "count", "plus", "gift", "num">>) => i = s
    BY <2>5, GiftKey
  <2> QED
    BY <2>2, <2>6, <2>7
<1>10. BonusCombo(T) = {Parsed("ct", w.n * 1000, w.n, 1, w.k)}
  <2>1. Leftmost({s}) = {s}
    BY <1>4, LeftmostOfOne
  <2>2. BonusCombo(T) = {Parsed("ct", T[i].n * 1000, T[i].n, 1,
          IF T[i + 3].kind = "num" THEN T[i + 3].n ELSE T[i + 4].n) : i \in {s}}
    BY <1>9, <2>1 DEF BonusCombo
  <2>3. BonusCombo(T) = {Parsed("ct", T[s].n * 1000, T[s].n, 1,
          IF T[s + 3].kind = "num" THEN T[s + 3].n ELSE T[s + 4].n)}
    BY <2>2
  <2> QED
    BY <1>6, <2>3
<1>11. /\ ParenthesisDetail(T) = {} /\ CommaCombo(T) = {}
       /\ VolumeXCount(T) = {} /\ VolumeSpaceCount(T) = {}
  BY <1>7, NoMass
<1> QED
  <2>1. PICK r : r = Parsed("ct", w.n * 1000, w.n, 1, w.k)
    OBVIOUS
  <2>2. BonusCombo(T) = {r}
    BY <2>1, <1>10
  <2>3. ParseOptionText(T) = r
    BY <2>2, <1>8, <1>11, TriedInOrder
  <2> QED
    BY <2>1, <2>3

\* A volume with a detail in parentheses, where another volume may stand.
LEMMA DetailParsed ==
  ASSUME NEW T \in Seq(Token), NEW w, WellWritten(w), w.kind = "detail",
         NEW s \in DOMAIN T, StandsAt(w, T, s)
  PROVE  ParseOptionText(T) = Several(w.v, w.m, 1, 1)
<1>1. /\ w.v \in Nat /\ w.m \in DOMAIN MassUnits
      /\ w.u \in DOMAIN MassUnits \cup DOMAIN CountUnits /\ "paek" \in DOMAIN CountUnits
  BY UnitNames DEF WellWritten
<1>2. Written(w) = <<Num(w.v), Unit(w.m), Sign("open"), Num(w.n), Unit(w.u),
                    Sign("x"), Num(w.k), Unit("paek"), Sign("close")>>
  BY DEF Written
<1>3. Len(Written(w)) = 9 /\ DOMAIN Written(w) = 1..9
  BY <1>2
<1>4. s \in Int /\ s >= 1 /\ DOMAIN T = 1..Len(T) /\ Len(T) \in Nat /\ s + 8 <= Len(T)
  <2>1. s \in Int /\ s >= 1 /\ DOMAIN T = 1..Len(T) /\ Len(T) \in Nat
    OBVIOUS
  <2> QED
    BY <1>3, <2>1 DEF StandsAt
<1>5. \A j \in DOMAIN T : j < s \/ j > s + 8 =>
        T[j].kind \notin {"mass", "count", "total"} /\ (j = s + 9 => T[j].kind # "plus")
  <2>1. \A j \in DOMAIN T : j < s \/ j > s + 8 => j \in DOMAIN T \ (s .. s + Len(Written(w)) - 1)
    BY <1>3, <1>4
  <2> QED
    BY <1>3, <2>1 DEF StandsAt
<1>6. /\ T[s].kind = "num" /\ T[s].n = w.v /\ T[s + 1].kind = "mass" /\ T[s + 1].u = w.m
      /\ T[s + 2].kind = "open" /\ T[s + 3].kind = "num" /\ T[s + 4].kind \in {"mass", "count"}
      /\ T[s + 5].kind = "x" /\ T[s + 6].kind = "num" /\ T[s + 7].kind = "count"
      /\ T[s + 8].kind = "close"
  <2>1. \A j \in 1..9 : T[s + j - 1] = Written(w)[j]
    BY <1>3 DEF StandsAt
  <2>2. /\ s + 1 - 1 = s /\ s + 2 - 1 = s + 1 /\ s + 3 - 1 = s + 2 /\ s + 4 - 1 = s + 3
        /\ s + 5 - 1 = s + 4 /\ s + 6 - 1 = s + 5 /\ s + 7 - 1 = s + 6 /\ s + 8 - 1 = s + 7
        /\ s + 9 - 1 = s + 8
    BY <1>4
  <2>3. T[s] = Num(w.v)
    BY <1>2, <2>1, <2>2
  <2>4. T[s + 1] = Unit(w.m)
    BY <1>2, <2>1, <2>2
  <2>5. T[s + 2] = Sign("open")
    BY <1>2, <2>1, <2>2
  <2>6. T[s + 3] = Num(w.n)
    BY <1>2, <2>1, <2>2
  <2>7. T[s + 4] = Unit(w.u)
    BY <1>2, <2>1, <2>2
  <2>8. T[s + 5] = Sign("x")
    BY <1>2, <2>1, <2>2
  <2>9. T[s + 6] = Num(w.k)
    BY <1>2, <2>1, <2>2
  <2>10. T[s + 7] = Unit("paek")
    BY <1>2, <2>1, <2>2
  <2>11. T[s + 8] = Sign("close")
    BY <1>2, <2>1, <2>2
  <2>12. T[s].kind = "num" /\ T[s].n = w.v /\ T[s + 1].kind = "mass" /\ T[s + 1].u = w.m
    BY <1>1, <2>3, <2>4, Numbers, Units, Signs
  <2>13. T[s + 2].kind = "open" /\ T[s + 3].kind = "num" /\ T[s + 4].kind \in {"mass", "count"}
    BY <1>1, <2>5, <2>6, <2>7, Numbers, Units, Signs
  <2>14. T[s + 5].kind = "x" /\ T[s + 6].kind = "num" /\ T[s + 7].kind = "count"
    BY <1>1, <2>8, <2>9, <2>10, Numbers, Units, Signs
  <2>15. T[s + 8].kind = "close"
    BY <1>1, <2>11, Numbers, Units, Signs
  <2> QED
    BY <2>12, <2>13, <2>14, <2>15
<1>7. \A j \in DOMAIN T : T[j].kind = "mass" => j = s + 1 \/ j = s + 4
  <2> SUFFICES ASSUME NEW j \in DOMAIN T, T[j].kind = "mass" PROVE j = s + 1 \/ j = s + 4
    OBVIOUS
  <2>1. j >= s /\ j <= s + 8
    BY <1>4, <1>5
  <2>2. CASE j <= s + 4
    <3>1. j \in {s, s + 1, s + 2, s + 3, s + 4}
      <4>1. s \in Int /\ j \in Int /\ s <= j /\ j <= s + 4
        BY <1>4, <2>1, <2>2
      <4> QED
        BY <4>1, OneOfFive
    <3> QED
      BY <3>1, <1>6
  <2>3. CASE j > s + 4
    <3>1. j \in {s + 5, s + 6, s + 7, s + 8}
      BY <1>4, <2>1, <2>3
    <3> QED
      BY <3>1, <1>6
  <2> QED
    BY <2>1, <2>2, <2>3, <1>4
<1>8. \E j \in s + 4 .. Len(T) :
        T[j].kind = "close" /\ \A k \in s + 3 .. j - 1 : T[k].kind # "close"
  <2>1. s + 8 \in s + 4 .. Len(T) /\ T[s + 8].kind = "close"
    BY <1>4, <1>6
  <2>2. \A k \in s + 3 .. s + 8 - 1 : k \in {s + 3, s + 4, s + 5, s + 6, s + 7}
    <3> SUFFICES ASSUME NEW k \in s + 3 .. s + 8 - 1
                 PROVE  k \in {s + 3, s + 4, s + 5, s + 6, s + 7}
      OBVIOUS
    <3>1. s \in Int /\ k \in Int /\ s + 3 <= k /\ k <= s + 7
      BY <1>4
    <3>2. s + 3 \in Int /\ k <= (s + 3) + 4
      BY <3>1
    <3>3. k \in {s + 3, (s + 3) + 1, (s + 3) + 2, (s + 3) + 3, (s + 3) + 4}
      BY <3>1, <3>2, OneOfFive
    <3>4. (s + 3) + 1 = s + 4 /\ (s + 3) + 2 = s + 5 /\ (s + 3) + 3 = s + 6 /\ (s + 3) + 4 = s + 7
      BY <3>1
    <3> QED
      BY <3>3, <3>4
  <2>3. \A k \in s + 3 .. s + 8 - 1 : T[k].kind # "close"
    BY <2>2, <1>6
  <2> QED
    BY <2>1, <2>3
<1>9. Fits(T, s, <<"num", "mass", "open">>)
  <2>1. s + 2 <= Len(T) /\ T[s].kind = "num" /\ T[s + 1].kind = "mass" /\ T[s + 2].kind = "open"
    BY <1>4, <1>6
  <2> QED
    BY <2>1 DEF Fits
<1>10. \A i \in DOMAIN T : Fits(T, i, <<"num", "mass", "open">>) => i = s
  <2>1. \A i \in DOMAIN T : i + 1 \in DOMAIN T /\ T[i + 1].kind = "mass" => i = s \/ i + 2 = s + 5
    BY <1>4, <1>7
  <2>2. \A i \in DOMAIN T :
          i + 1 \in DOMAIN T /\ T[i + 1].kind = "mass" /\ T[i + 2].kind = "open" => i = s
    BY <1>6, <2>1
  <2> QED
    BY <2>2, DetailKey
<1>11. {i \in DOMAIN T :
         /\ Fits(T, i, <<"num", "mass", "open">>)
         /\ \E j \in i + 4 .. Len(T) :
              T[j].kind = "close" /\ \A k \in i + 3 .. j - 1 : T[k].kind # "close"} = {s}
  BY <1>8, <1>9, <1>10
<1>12. ParenthesisDetail(T) = {Several(w.v, w.m, 1, 1)}
  <2>1. Leftmost({s}) = {s}
    BY <1>4, LeftmostOfOne
  <2>2. ParenthesisDetail(T) = {Several(T[i].n, T[i + 1].u, 1, 1) : i \in {s}}
    BY <1>11, <2>1 DEF ParenthesisDetail
  <2> QED
    BY <1>6, <2>2
<1> QED
  BY <1>12, TriedInOrder

-----------------------------------------------------------------------------
(* What is meant, and its price *)

\* Each unit has one base and one factor, whatever is counted in it.
LEMMA BaseOf ==
  ASSUME NEW u \in DOMAIN MassUnits \cup DOMAIN CountUnits
  PROVE  \E b \in {"g", "ml", "sheet", "ct"}, f \in Nat \ {0} :
           \A n : Convert(n, u) = [unit |-> b, quantity |-> n * f]
<1>1. \A m \in DOMAIN MassUnits : MassUnits[m][1] \in {"g", "ml"} /\ MassUnits[m][2] \in Nat \ {0}
  BY DEF MassUnits
<1>2. \A c \in DOMAIN CountUnits :
        CountUnits[c][1] \in {"sheet", "ct"} /\ CountUnits[c][2] \in Nat \ {0}
  BY DEF CountUnits
<1> DEFINE d == IF u \in DOMAIN MassUnits THEN MassUnits[u] ELSE CountUnits[u]
<1>3. d[1] \in {"g", "ml", "sheet", "ct"} /\ d[2] \in Nat \ {0}
  BY <1>1, <1>2
<1>4. \A n : Convert(n, u) = [unit |-> d[1], quantity |-> n * d[2]]
  BY DEF Convert
<1> HIDE DEF d
<1> QED
  BY <1>3, <1>4

\* So many pieces are that many, in thousandths.
LEMMA PiecesOf ==
  ASSUME NEW n, NEW u \in {"gae", "gaeip", "paek", "rol"}
  PROVE  Convert(n, u) = [unit |-> "ct", quantity |-> n * 1000]
<1>1. u \notin DOMAIN MassUnits /\ CountUnits[u][1] = "ct" /\ CountUnits[u][2] = 1000
  BY UnitNames DEF CountUnits
<1> QED
  BY <1>1 DEF Convert

\* So many volumes are the volume of so many.
LEMMA SeveralMeans ==
  ASSUME NEW v \in Nat, NEW n \in Nat, NEW m \in DOMAIN MassUnits, NEW packs
  PROVE  LET p == Several(v, m, n, packs)
         IN /\ [unit |-> p.unit, quantity |-> p.quantity] = Convert(v * n, m)
            /\ p.pieces = n /\ p # NotParsed
<1>1. PICK b \in {"g", "ml", "sheet", "ct"}, f \in Nat \ {0} :
        \A k : Convert(k, m) = [unit |-> b, quantity |-> k * f]
  BY BaseOf
<1>2. v * f * n = v * n * f
  OBVIOUS
<1>3. Convert(v, m).unit = b /\ Convert(v, m).quantity = v * f
  BY <1>1
<1>4. Several(v, m, n, packs) = Parsed(b, v * f * n, n, packs, 0)
  BY <1>3 DEF Several
<1>5. Convert(v * n, m) = [unit |-> b, quantity |-> v * n * f]
  BY <1>1
<1> QED
  BY <1>2, <1>4, <1>5 DEF Parsed, NotParsed

\* A text that says w is parsed as what w means.
LEMMA SaysMeans ==
  ASSUME NEW T \in Seq(Token), NEW w, Says(T, w)
  PROVE  LET p == ParseOptionText(T)
         IN /\ [unit |-> p.unit, quantity |-> p.quantity] = Meant(w)
            /\ p.pieces = MeantPieces(w)
            /\ p # NotParsed
<1>1. PICK s \in DOMAIN T : WellWritten(w) /\ StandsAt(w, T, s)
  BY DEF Says
<1>2. CASE w.kind = "count"
  <2>1. w.n \in Nat /\ w.u \in DOMAIN CountUnits
    BY <1>1, <1>2 DEF WellWritten
  <2>2. PICK b \in {"g", "ml", "sheet", "ct"}, f \in Nat \ {0} :
          \A k : Convert(k, w.u) = [unit |-> b, quantity |-> k * f]
    BY <2>1, BaseOf
  <2>3. ParseOptionText(T) = Parsed(Convert(w.n, w.u).unit, Convert(w.n, w.u).quantity, w.n, 1, 0)
    BY <1>1, <1>2, CountParsed
  <2>5. Convert(w.n, w.u) = [unit |-> b, quantity |-> w.n * f]
    BY <2>2
  <2>4. Meant(w) = [unit |-> b, quantity |-> w.n * f] /\ MeantPieces(w) = w.n
    BY <1>2, <2>5 DEF Meant, MeantPieces
  <2> QED
    BY <2>3, <2>4, <2>5 DEF Parsed, NotParsed
<1>3. CASE w.kind \in {"each", "comma", "times"}
  <2>1. w.v \in Nat /\ w.n \in Nat /\ w.m \in DOMAIN MassUnits
    BY <1>1, <1>3 DEF WellWritten
  <2>2. PICK packs : ParseOptionText(T) = Several(w.v, w.m, w.n, packs)
    BY <1>1, <1>3, EachParsed, CommaParsed, TimesParsed
  <2>3. Meant(w) = Convert(w.v * w.n, w.m) /\ MeantPieces(w) = w.n
    BY <1>3 DEF Meant, MeantPieces
  <2> QED
    BY <2>1, <2>2, <2>3, SeveralMeans
<1>4. CASE w.kind = "detail"
  <2>1. w.v \in Nat /\ w.m \in DOMAIN MassUnits
    BY <1>1, <1>4 DEF WellWritten
  <2>2. ParseOptionText(T) = Several(w.v, w.m, 1, 1)
    BY <1>1, <1>4, DetailParsed
  <2>3. Meant(w) = Convert(w.v * 1, w.m) /\ MeantPieces(w) = 1
    BY <1>4, <2>1 DEF Meant, MeantPieces
  <2> QED
    BY <2>1, <2>2, <2>3, SeveralMeans
<1>5. CASE w.kind \in {"packs", "total", "bonus"}
  <2>1. w.n \in Nat /\ w.k \in Nat /\ w.u \in {"gae", "gaeip", "paek", "rol"}
    BY <1>1, <1>5 DEF WellWritten
  <2>2. CASE w.kind = "packs"
    <3>1. ParseOptionText(T) = Parsed("ct", w.n * w.k * 1000, w.n * w.k, w.k, 0)
      BY <1>1, <2>2, PacksParsed
    <3>2. Meant(w) = [unit |-> "ct", quantity |-> w.n * w.k * 1000] /\ MeantPieces(w) = w.n * w.k
      BY <2>1, <2>2, PiecesOf DEF Meant, MeantPieces
    <3> QED
      BY <3>1, <3>2 DEF Parsed, NotParsed
  <2>3. CASE w.kind = "total"
    <3>1. ParseOptionText(T) = Parsed("ct", w.t * 1000, w.t, w.k, 0)
      BY <1>1, <2>3, TotalParsed
    <3>2. Meant(w) = [unit |-> "ct", quantity |-> w.t * 1000] /\ MeantPieces(w) = w.t
      BY <2>1, <2>3, PiecesOf DEF Meant, MeantPieces
    <3> QED
      BY <3>1, <3>2 DEF Parsed, NotParsed
  <2>4. CASE w.kind = "bonus"
    <3>1. ParseOptionText(T) = Parsed("ct", w.n * 1000, w.n, 1, w.k)
      BY <1>1, <2>4, BonusParsed
    <3>2. Meant(w) = [unit |-> "ct", quantity |-> w.n * 1000] /\ MeantPieces(w) = w.n
      BY <2>1, <2>4, PiecesOf DEF Meant, MeantPieces
    <3> QED
      BY <3>1, <3>2 DEF Parsed, NotParsed
  <2> QED
    BY <1>5, <2>2, <2>3, <2>4
<1> QED
  BY <1>1, <1>2, <1>3, <1>4, <1>5 DEF WellWritten

\* What is meant is a quantity; none of it is in no pieces.
LEMMA MeantTyped ==
  ASSUME NEW w, WellWritten(w)
  PROVE  /\ Meant(w).unit \in {"g", "ml", "sheet", "ct"} /\ Meant(w).quantity \in Nat
         /\ MeantPieces(w) \in Nat
         /\ Meant(w).quantity > 0 => MeantPieces(w) > 0
<1>0. \A n \in Nat, f \in Nat \ {0} : n * f \in Nat /\ (n * f > 0 => n > 0)
  OBVIOUS
<1>1. CASE w.kind = "count"
  <2>1. w.n \in Nat /\ w.u \in DOMAIN CountUnits
    BY <1>1 DEF WellWritten
  <2>2. PICK b \in {"g", "ml", "sheet", "ct"}, f \in Nat \ {0} :
          \A k : Convert(k, w.u) = [unit |-> b, quantity |-> k * f]
    BY <2>1, BaseOf
  <2>3. Meant(w) = [unit |-> b, quantity |-> w.n * f] /\ MeantPieces(w) = w.n
    BY <1>1, <2>2 DEF Meant, MeantPieces
  <2> QED
    BY <1>0, <2>1, <2>3
<1>2. CASE w.kind \in {"each", "comma", "times"}
  <2>1. w.v \in Nat /\ w.n \in Nat /\ w.m \in DOMAIN MassUnits
    BY <1>2 DEF WellWritten
  <2>2. PICK b \in {"g", "ml", "sheet", "ct"}, f \in Nat \ {0} :
          \A k : Convert(k, w.m) = [unit |-> b, quantity |-> k * f]
    BY <2>1, BaseOf
  <2>3. Meant(w) = [unit |-> b, quantity |-> w.v * w.n * f] /\ MeantPieces(w) = w.n
    BY <1>2, <2>2 DEF Meant, MeantPieces
  <2>4. w.v * w.n \in Nat /\ (w.v * w.n > 0 => w.n > 0)
    BY <2>1
  <2> QED
    BY <1>0, <2>1, <2>3, <2>4
<1>3. CASE w.kind = "detail"
  <2>1. w.v \in Nat /\ w.m \in DOMAIN MassUnits
    BY <1>3 DEF WellWritten
  <2>2. PICK b \in {"g", "ml", "sheet", "ct"}, f \in Nat \ {0} :
          \A k : Convert(k, w.m) = [unit |-> b, quantity |-> k * f]
    BY <2>1, BaseOf
  <2>3. Meant(w) = [unit |-> b, quantity |-> w.v * f] /\ MeantPieces(w) = 1
    BY <1>3, <2>2 DEF Meant, MeantPieces
  <2> QED
    BY <1>0, <2>1, <2>3
<1>4. CASE w.kind \in {"packs", "total", "bonus"}
  <2>1. /\ w.n \in Nat /\ w.k \in Nat /\ w.u \in {"gae", "gaeip", "paek", "rol"}
        /\ w.kind = "total" => w.t \in Nat
    BY <1>4 DEF WellWritten
  <2>2. MeantPieces(w) \in Nat /\ Meant(w) = [unit |-> "ct", quantity |-> MeantPieces(w) * 1000]
    BY <1>4, <2>1, PiecesOf DEF Meant, MeantPieces
  <2> QED
    BY <2>2
<1> QED
  BY <1>1, <1>2, <1>3, <1>4 DEF WellWritten

\* The price is to the nearest hundredth, and no further off.
LEMMA OrderPrice ==
  ASSUME NEW p, p.unit \in {"g", "ml", "sheet", "ct"}, p.quantity \in Nat \ {0},
         p.pieces \in Nat \ {0}, NEW orderUnit \in {"gae", "kg"}, NEW listed \in Nat \ {0}
  PROVE  LET of   == IF orderUnit = "gae" THEN p.pieces ELSE p.quantity
             cost == IF orderUnit = "gae" THEN listed * 100
                     ELSE listed * 100 * DisplayBase(p.unit) * 1000
         IN ComputeOrderUnitPrice(orderUnit, listed, p) * of - cost \in -(of \div 2) .. of \div 2
<1>0. PICK unit \in {"g", "ml", "sheet", "ct"}, quantity \in Nat \ {0}, pieces \in Nat \ {0} :
        p.unit = unit /\ p.quantity = quantity /\ p.pieces = pieces
  OBVIOUS
<1>1. CASE orderUnit = "gae"
  <2>1. ComputeOrderUnitPrice(orderUnit, listed, p) = RoundHalfUp(listed * 100, pieces)
    BY <1>0, <1>1 DEF ComputeOrderUnitPrice
  <2>2. listed * 100 \in Nat
    OBVIOUS
  <2> QED
    BY <1>0, <1>1, <2>1, <2>2, Rounding
<1>2. CASE orderUnit # "gae"
  <2>0. \A b \in {1, 100} : listed * 100 * b * 1000 \in Nat
    OBVIOUS
  <2>1. PICK cost \in Nat : cost = listed * 100 * DisplayBase(unit) * 1000
    BY <2>0 DEF DisplayBase
  <2>2. UnitPriceDisplay(listed, p) = {RoundHalfUp(cost, quantity)}
    BY <1>0, <2>1 DEF UnitPriceDisplay
  <2>3. RoundHalfUp(cost, quantity) \in Int
    BY DEF RoundHalfUp
  <2>4. Min({RoundHalfUp(cost, quantity)}) = RoundHalfUp(cost, quantity)
    BY <2>3 DEF Min
  <2>5. ComputeOrderUnitPrice(orderUnit, listed, p) = RoundHalfUp(cost, quantity)
    BY <1>0, <1>2, <2>2, <2>4 DEF ComputeOrderUnitPrice
  <2> QED
    BY <1>0, <1>2, <2>1, <2>5, Rounding
<1> QED
  BY <1>1, <1>2

-----------------------------------------------------------------------------
(* The answers *)

\* Where the rules parse the text, whatever is held of it is what they make of it.
AsRuled(entries) ==
  ParseOptionText(text.tokens) # NotParsed =>
    \A x \in entries : x.answer = ParseOptionText(text.tokens)

EntriesRuled ==
  /\ \A c \in Callers : AsRuled(parse[c].entry)
  /\ \A v \in Versions : AsRuled(redis[v])
  /\ AsRuled(row)

LEMMA InitRuled == Init => EntriesRuled
<1> SUFFICES ASSUME Init PROVE EntriesRuled
  OBVIOUS
<1>1. AsRuled({})
  BY DEF AsRuled
<1>2. \A x \in Left : AsRuled({x})
  BY DEF Left, AsRuled
<1>3. AsRuled(row)
  BY <1>1, <1>2 DEF Init
<1> QED
  BY <1>1, <1>3 DEF Init, EntriesRuled

\* A call hands on what it holds, to Redis or to the table, and takes what is ruled.
LEMMA SlotRuled ==
  ASSUME Inv, EntriesRuled, NEW c \in Callers, text' = text,
         \A d \in Callers : d # c => parse'[d] = parse[d],
         AsRuled(parse'[c].entry),
         redis' = redis \/ redis' = [redis EXCEPT ![VersionOf[c]] = parse[c].entry],
         row' = row \/ row' = row \cup parse[c].entry
  PROVE  EntriesRuled'
<1>1. AsRuled(parse[c].entry) /\ AsRuled(row) /\ \A v \in Versions : AsRuled(redis[v])
  BY DEF EntriesRuled
<1>2. \A v \in Versions : AsRuled(redis'[v])
  <2>1. redis \in [Versions -> SUBSET Cached]
    BY DEF Inv, TypeOK
  <2>2. \A v \in Versions : redis'[v] \in {redis[v], parse[c].entry}
    BY <2>1
  <2> QED
    BY <1>1, <2>2
<1>3. AsRuled(row')
  BY <1>1 DEF AsRuled
<1>4. \A d \in Callers : AsRuled(parse'[d].entry)
  BY DEF EntriesRuled
<1>5. \A d \in Callers : AsRuled(parse[d].entry)' = AsRuled(parse'[d].entry)
  BY DEF AsRuled
<1>6. \A v \in Versions : AsRuled(redis[v])' = AsRuled(redis'[v])
  BY DEF AsRuled
<1>7. AsRuled(row)' = AsRuled(row')
  BY DEF AsRuled
<1> QED
  BY <1>2, <1>3, <1>4, <1>5, <1>6, <1>7 DEF EntriesRuled

LEMMA ToRuled ==
  ASSUME Inv, EntriesRuled, NEW c \in Callers, NEW e, AsRuled(e), NEW pc, To(c, pc, e),
         text' = text,
         redis' = redis \/ redis' = [redis EXCEPT ![VersionOf[c]] = parse[c].entry],
         row' = row \/ row' = row \cup parse[c].entry
  PROVE  EntriesRuled'
<1>1. parse \in [Callers -> Parse]
  BY DEF Inv, TypeOK
<1>2. parse'[c].entry = e /\ \A d \in Callers : d # c => parse'[d] = parse[d]
  BY <1>1 DEF To, Parse
<1> QED
  BY <1>2, SlotRuled

\* The model answers only where the rules do not.
LEMMA AnswerRuled ==
  ASSUME Inv, EntriesRuled, NEW c \in Callers, ParseByRule(c) \/ AskModel(c)
  PROVE  EntriesRuled'
<1>1. parse \in [Callers -> Parse]
  BY DEF Inv, TypeOK
<1>2. UNCHANGED <<text, redis, row>>
  BY DEF ParseByRule, AskModel
<1>3. CASE ParseByRule(c)
  <2>1. parse'[c].entry \in {{}, Entry(c, ParseOptionText(text.tokens))}
    BY <1>1, <1>3 DEF ParseByRule, Parse
  <2>2. AsRuled(parse'[c].entry)
    BY <2>1 DEF AsRuled, Entry
  <2>3. \A d \in Callers : d # c => parse'[d] = parse[d]
    BY <1>1, <1>3 DEF ParseByRule
  <2> QED
    BY <1>2, <2>2, <2>3, SlotRuled
<1>4. CASE AskModel(c)
  <2>1. AsRuled(parse'[c].entry)
    BY <1>4 DEF AsRuled, AskModel, Inv, Counted
  <2>2. \A d \in Callers : d # c => parse'[d] = parse[d]
    BY <1>1, <1>4 DEF AskModel
  <2> QED
    BY <1>2, <2>1, <2>2, SlotRuled
<1> QED
  BY <1>3, <1>4

LEMMA NextRuled == Inv /\ EntriesRuled /\ [Next]_vars => EntriesRuled'
<1> SUFFICES ASSUME Inv, EntriesRuled, [Next]_vars PROVE EntriesRuled'
  OBVIOUS
<1>1. CASE UNCHANGED vars
  BY <1>1 DEF vars, EntriesRuled, AsRuled
<1>2. ASSUME NEW v \in Versions, ExpireEntry(v) PROVE EntriesRuled'
  <2>1. redis \in [Versions -> SUBSET Cached]
    BY DEF Inv, TypeOK
  <2>2. \A w \in Versions : redis'[w] \subseteq redis[w]
    BY <1>2, <2>1 DEF ExpireEntry
  <2> QED
    BY <1>2, <2>2 DEF ExpireEntry, EntriesRuled, AsRuled
<1>3. ASSUME NEW c \in Callers,
             Begin(c) \/ ReadRedis(c) \/ ReadRow(c) \/ Refill(c) \/ ConsumeTokens(c)
               \/ StoreRedis(c) \/ InsertRow(c) \/ CommitRow(c) \/ CutOff(c)
      PROVE  EntriesRuled'
  <2>1. AsRuled({}) /\ AsRuled(parse[c].entry)
    BY DEF EntriesRuled, AsRuled
  <2>2. CASE Begin(c)
    <3>1. parse \in [Callers -> Parse]
      BY DEF Inv, TypeOK
    <3>2. parse'[c].entry = parse[c].entry /\ \A d \in Callers : d # c => parse'[d] = parse[d]
      BY <2>2, <3>1 DEF Begin, Parse
    <3> QED
      BY <2>1, <2>2, <3>2, SlotRuled DEF Begin
  <2>3. CASE ReadRedis(c)
    <3>1. AsRuled(redis[VersionOf[c]])
      BY Held DEF EntriesRuled
    <3> QED
      BY <2>1, <2>3, <3>1, ToRuled DEF ReadRedis
  <2>4. CASE ReadRow(c)
    <3>1. AsRuled(OfVersion(row, VersionOf[c]))
      BY DEF EntriesRuled, AsRuled, OfVersion
    <3> QED
      BY <2>1, <2>4, <3>1, ToRuled DEF ReadRow
  <2>5. CASE Refill(c)
    BY <2>1, <2>5, ToRuled DEF Refill
  <2>6. CASE ConsumeTokens(c)
    BY <2>1, <2>6, ToRuled DEF ConsumeTokens
  <2>7. CASE StoreRedis(c)
    BY <2>1, <2>7, ToRuled DEF StoreRedis
  <2>8. CASE InsertRow(c)
    BY <2>1, <2>8, ToRuled DEF InsertRow
  <2>9. CASE CommitRow(c)
    BY <2>1, <2>9, ToRuled DEF CommitRow
  <2>10. CASE CutOff(c)
    BY <2>1, <2>10, ToRuled DEF CutOff
  <2> QED
    BY <1>3, <2>2, <2>3, <2>4, <2>5, <2>6, <2>7, <2>8, <2>9, <2>10
<1> QED
  BY <1>1, <1>2, <1>3, AnswerRuled DEF Next

\* What a caller, Redis or the table holds of a text that the rules can parse is
\* what the rules make of it: the model's answers never reach such a text.
THEOREM CacheIsRuled == Spec => []EntriesRuled
<1>1. Inv /\ EntriesRuled /\ [Next]_vars => EntriesRuled'
  BY NextRuled
<1> QED
  BY <1>1, InitRuled, CacheInvariant, PTL DEF Spec

\* A quantity that is written in one of the seven ways, in a text of any length
\* with no other quantity in it, is answered as what it means, by every call that
\* ends with an answer.
THEOREM ParsedAsWritten == Spec => []ParsesAsWritten
<1>1. TypeOK /\ EntriesRuled => ParsesAsWritten
  <2> SUFFICES ASSUME TypeOK, EntriesRuled, text.writing.kind # "none",
                      NEW c \in Callers, NEW x \in parse[c].entry
               PROVE  /\ [unit |-> x.answer.unit, quantity |-> x.answer.quantity]
                           = Meant(text.writing)
                      /\ x.answer.pieces = MeantPieces(text.writing)
    BY DEF ParsesAsWritten
  <2>1. text.tokens \in Seq(Token) /\ Says(text.tokens, text.writing)
    BY TextsAssumption DEF TypeOK
  <2>2. PICK p : p = ParseOptionText(text.tokens)
    OBVIOUS
  <2>3. /\ [unit |-> p.unit, quantity |-> p.quantity] = Meant(text.writing)
        /\ p.pieces = MeantPieces(text.writing)
        /\ p # NotParsed
    BY <2>1, <2>2, SaysMeans
  <2>4. x.answer = p
    BY <2>2, <2>3 DEF EntriesRuled, AsRuled
  <2> QED
    BY <2>3, <2>4
<1> QED
  BY <1>1, CacheTypes, CacheIsRuled, PTL

\* What is stored of an item whose text says a quantity is its price for a piece,
\* a sheet, 100 g or 100 ml, at most half a hundredth off.
THEOREM PricedAsMeant == Spec => []PricedAsWritten
<1>1. TypeOK => PricedAsWritten
  <2> SUFFICES ASSUME TypeOK, text.writing.kind # "none", Meant(text.writing).quantity > 0,
                      NEW orderUnit \in {"gae", "kg"}, NEW listed \in Prices
               PROVE  LET item == NormalizeNaverItem(orderUnit, listed, text.tokens)
                          all  == Meant(text.writing)
                          of   == IF orderUnit = "gae" THEN MeantPieces(text.writing) ELSE all.quantity
                          cost == IF orderUnit = "gae" THEN listed * 100
                                  ELSE listed * 100 * DisplayBase(all.unit) * 1000
                      IN /\ item.eligible
                         /\ \A p \in item.price : p * of - cost \in -(of \div 2) .. of \div 2
    BY DEF PricedAsWritten
  <2>1. text.tokens \in Seq(Token) /\ Says(text.tokens, text.writing)
    BY TextsAssumption DEF TypeOK
  <2>2. PICK w : w = text.writing
    OBVIOUS
  <2>3. PICK r : r = ParseOptionText(text.tokens)
    OBVIOUS
  <2>4. /\ [unit |-> r.unit, quantity |-> r.quantity] = Meant(w)
        /\ r.pieces = MeantPieces(w) /\ r # NotParsed
    BY <2>1, <2>2, <2>3, SaysMeans
  <2>5. /\ Meant(w).unit \in {"g", "ml", "sheet", "ct"} /\ Meant(w).quantity \in Nat \ {0}
        /\ MeantPieces(w) \in Nat \ {0}
    BY <2>1, <2>2, MeantTyped DEF Says
  <2>6. r.unit = Meant(w).unit /\ r.quantity = Meant(w).quantity
    BY <2>4
  <2>7. listed \in Nat \ {0}
    BY OptionAssumption
  <2>8. LET of   == IF orderUnit = "gae" THEN r.pieces ELSE r.quantity
            cost == IF orderUnit = "gae" THEN listed * 100
                    ELSE listed * 100 * DisplayBase(r.unit) * 1000
        IN ComputeOrderUnitPrice(orderUnit, listed, r) * of - cost \in -(of \div 2) .. of \div 2
    <3>1. r.unit \in {"g", "ml", "sheet", "ct"} /\ r.quantity \in Nat \ {0} /\ r.pieces \in Nat \ {0}
      BY <2>4, <2>5, <2>6
    <3> QED
      BY <2>7, <3>1, OrderPrice
  <2>9. /\ NormalizeNaverItem(orderUnit, listed, text.tokens).eligible
        /\ NormalizeNaverItem(orderUnit, listed, text.tokens).price
             = {ComputeOrderUnitPrice(orderUnit, listed, r)}
    BY <2>3, <2>4, <2>7 DEF NormalizeNaverItem
  <2> QED
    BY <2>2, <2>4, <2>6, <2>8, <2>9
<1> QED
  BY <1>1, CacheTypes, PTL
=============================================================================
