------------------------------ MODULE OptionCache ------------------------------
(***************************************************************************)
(* parse_option (app/parsers/option_parser.py, llm_parser.py) on one       *)
(* option text: Redis, then option_text_cache, then the rules, then the    *)
(* language model under a monthly allowance, then both caches are filled.  *)
(* Callers run side by side and, while a new release is rolled out, with   *)
(* different PARSER_VERSIONs; every step sees what the others left.        *)
(* The allowance is counted in requests, 500 tokens each, within a month.  *)
(***************************************************************************)
EXTENDS UnitPricing

CONSTANTS
  Callers,
  Versions,
  VersionOf,    \* the PARSER_VERSION each caller runs with
  Sessions,     \* the callers that pass a database session
  Texts,        \* the option texts: [writing, tokens]
  ModelAnswers, \* what the model may answer: parsed or, for any failure, NotParsed
  Cap,          \* llm_monthly_token_cap / 500; 0 is no cap
  PriorUse,     \* requests the month has seen for other texts
  Prices        \* what items may be listed at, in won

ASSUME OptionAssumption ==
  /\ IsFiniteSet(Callers)
  /\ VersionOf \in [Callers -> Versions]
  /\ Sessions \subseteq Callers
  /\ Cap \in Nat /\ PriorUse \in Nat
  /\ Prices \subseteq Nat \ {0}

\* What a text's writing stands for: "none" is anything.  An empty text is answered
\* with nothing before anything is looked up, and is left out.
ASSUME TextsAssumption ==
  \A t \in Texts :
    t.tokens \in Seq(Token) \ {<<>>} /\ (t.writing.kind = "none" \/ Says(t.tokens, t.writing))

VARIABLES
  text,   \* the text that is asked for
  redis,  \* option:{parser_version}:{sha256}
  row,    \* option_text_cache, whose key is the hash alone
  spent,  \* llm:tokens:{YYYYMM}
  parse   \* per caller: its parse_option

vars == <<text, redis, row, spent, parse>>

\* A parse and the version whose parser produced it; {} is no entry.
Cached == [answer : {ParseOptionText(text.tokens)} \cup ModelAnswers, version : Versions]

AtMostOne(s) == \A x, y \in s : x = y

\* knew: the table had an entry of this version when the call began.
\* asked: the model was called.  fresh: the text was parsed by this call.
Parse == [pc : {"idle", "reading", "querying", "refilling", "parsing", "counting", "asking",
                "storing", "inserting", "committing", "done", "cut"},
          entry : SUBSET Cached, knew : BOOLEAN, fresh : BOOLEAN, asked : BOOLEAN]

TypeOK ==
  /\ text \in Texts
  /\ redis \in [Versions -> SUBSET Cached] /\ \A v \in Versions : AtMostOne(redis[v])
  /\ row \subseteq Cached /\ AtMostOne(row)
  /\ spent \in Nat
  /\ parse \in [Callers -> Parse]

\* What earlier calls, of either version, may have left in the table.
Left == {x \in Cached : x.answer # NotParsed /\ ParseOptionText(text.tokens) \in {NotParsed, x.answer}}

\* Redis has dropped what it held.
Init ==
  /\ text \in Texts
  /\ redis = [v \in Versions |-> {}]
  /\ row = {} \/ \E x \in Left : row = {x}
  /\ spent = PriorUse
  /\ parse = [c \in Callers |->
       [pc |-> "idle", entry |-> {}, knew |-> FALSE, fresh |-> FALSE, asked |-> FALSE]]

-----------------------------------------------------------------------------

To(c, pc, entry) == parse' = [parse EXCEPT ![c].pc = pc, ![c].entry = entry]

OfVersion(entries, v) == {x \in entries : x.version = v}

Begin(c) ==
  /\ parse[c].pc = "idle"
  /\ parse' = [parse EXCEPT ![c].pc = "reading", ![c].knew = OfVersion(row, VersionOf[c]) # {}]
  /\ UNCHANGED <<text, redis, row, spent>>

\* Wrong: the key does not name the version.
ReadRedisAny(c) ==
  LET hit == UNION {redis[v] : v \in Versions}
  IN /\ parse[c].pc = "reading"
     /\ IF hit # {} THEN To(c, "done", hit)
        ELSE To(c, IF c \in Sessions THEN "querying" ELSE "parsing", {})
     /\ UNCHANGED <<text, redis, row, spent>>

\* cache_get_json_raw
ReadRedis(c) ==
  LET hit == redis[VersionOf[c]]
  IN /\ parse[c].pc = "reading"
     /\ IF hit # {} THEN To(c, "done", hit)
        ELSE To(c, IF c \in Sessions THEN "querying" ELSE "parsing", {})
     /\ UNCHANGED <<text, redis, row, spent>>

\* Wrong: only what a newer version left is taken.
ReadNewerRow(c) ==
  LET hit == {x \in row : x.version > VersionOf[c]}
  IN /\ parse[c].pc = "querying"
     /\ IF hit # {} THEN To(c, "refilling", hit) ELSE To(c, "parsing", {})
     /\ UNCHANGED <<text, redis, row, spent>>

\* _get_from_postgres
ReadRow(c) ==
  LET hit == OfVersion(row, VersionOf[c])
  IN /\ parse[c].pc = "querying"
     /\ IF hit # {} THEN To(c, "refilling", hit) ELSE To(c, "parsing", {})
     /\ UNCHANGED <<text, redis, row, spent>>

Refill(c) ==
  /\ parse[c].pc = "refilling"
  /\ redis' = [redis EXCEPT ![VersionOf[c]] = parse[c].entry]
  /\ To(c, "done", parse[c].entry)
  /\ UNCHANGED <<text, row, spent>>

Entry(c, answer) == {[answer |-> answer, version |-> VersionOf[c]]}

ParseByRule(c) ==
  LET answer == ParseOptionText(text.tokens)
  IN /\ parse[c].pc = "parsing"
     /\ parse' = [parse EXCEPT ![c].fresh = TRUE,
          ![c].pc = IF answer = NotParsed THEN "counting" ELSE "storing",
          ![c].entry = IF answer = NotParsed THEN {} ELSE Entry(c, answer)]
     /\ UNCHANGED <<text, redis, row, spent>>

\* Wrong: the allowance is compared with what was spent before.
AllowedBefore(n) == Cap = 0 \/ n - 1 <= Cap

Allowed(n) == Cap = 0 \/ n <= Cap

\* _consume_tokens: what is refused is counted too.
ConsumeTokens(c) ==
  /\ parse[c].pc = "counting"
  /\ spent' = spent + 1
  /\ To(c, IF Allowed(spent') THEN "asking" ELSE "done", {})
  /\ UNCHANGED <<text, redis, row>>

\* The model's answer, after _coerce_result.
AskModel(c) ==
  /\ parse[c].pc = "asking"
  /\ \E answer \in ModelAnswers :
       parse' = [parse EXCEPT ![c].asked = TRUE,
         ![c].pc = IF answer = NotParsed THEN "done" ELSE "storing",
         ![c].entry = IF answer = NotParsed THEN {} ELSE Entry(c, answer)]
  /\ UNCHANGED <<text, redis, row, spent>>

StoreRedis(c) ==
  /\ parse[c].pc = "storing"
  /\ redis' = [redis EXCEPT ![VersionOf[c]] = parse[c].entry]
  /\ To(c, IF c \in Sessions THEN "inserting" ELSE "done", parse[c].entry)
  /\ UNCHANGED <<text, row, spent>>

\* INSERT ... ON CONFLICT (text_hash) DO NOTHING, which waits for an insert that
\* is not committed; a failure of it is swallowed.
InsertRow(c) ==
  /\ parse[c].pc = "inserting"
  /\ \/ row = {} /\ \A d \in Callers : parse[d].pc # "committing"
        /\ To(c, "committing", parse[c].entry)
     \/ row # {} /\ To(c, "done", parse[c].entry)
     \/ To(c, "done", parse[c].entry)
  /\ UNCHANGED <<text, redis, row, spent>>

CommitRow(c) ==
  /\ parse[c].pc = "committing"
  /\ row' = row \cup parse[c].entry
  /\ To(c, "done", parse[c].entry)
  /\ UNCHANGED <<text, redis, spent>>

ExpireEntry(v) ==
  /\ redis[v] # {}
  /\ redis' = [redis EXCEPT ![v] = {}]
  /\ UNCHANGED <<text, row, spent, parse>>

\* Redis fails, or the caller dies.
CutOff(c) ==
  /\ parse[c].pc \notin {"idle", "done", "cut"}
  /\ To(c, "cut", {})
  /\ UNCHANGED <<text, redis, row, spent>>

Next ==
  \/ \E c \in Callers :
       \/ Begin(c) \/ ReadRedis(c) \/ ReadRow(c) \/ Refill(c) \/ ParseByRule(c)
       \/ ConsumeTokens(c) \/ AskModel(c) \/ StoreRedis(c) \/ InsertRow(c) \/ CommitRow(c)
       \/ CutOff(c)
  \/ \E v \in Versions : ExpireEntry(v)

Spec == Init /\ [][Next]_vars

-----------------------------------------------------------------------------
(* Properties *)

\* Whatever pattern comes first and whatever stands around it, a quantity that is
\* written in one of the seven ways is parsed as what it means, and the answer is
\* the same from either cache.
ParsesAsWritten ==
  \A c \in Callers : \A x \in parse[c].entry :
    parse[c].pc = "done" /\ text.writing.kind # "none" =>
      /\ [unit |-> x.answer.unit, quantity |-> x.answer.quantity] = Meant(text.writing)
      /\ x.answer.pieces = MeantPieces(text.writing)

\* What collection stores of an item with a quantity is its price for a piece, a
\* sheet, 100 g or 100 ml, to the nearest hundredth.
PricedAsWritten ==
  text.writing.kind # "none" /\ Meant(text.writing).quantity > 0 =>
    \A orderUnit \in {"gae", "kg"}, listed \in Prices :
      LET item == NormalizeNaverItem(orderUnit, listed, text.tokens)
          all  == Meant(text.writing)
          of   == IF orderUnit = "gae" THEN MeantPieces(text.writing) ELSE all.quantity
          cost == IF orderUnit = "gae" THEN listed * 100
                  ELSE listed * 100 * DisplayBase(all.unit) * 1000
      IN /\ item.eligible
         /\ \A p \in item.price : p * of - cost \in -(of \div 2) .. of \div 2

\* While two releases run side by side, no caller is given what another version's
\* parser made of the text, from Redis or from the table they share.
VersionsApart ==
  /\ \A c \in Callers : \A x \in parse[c].entry : x.version = VersionOf[c]
  /\ \A v \in Versions : \A x \in redis[v] : x.version = v

\* The model is asked only about texts the rules cannot parse, and never beyond
\* the month's allowance, however many callers count at once.
ModelIsRationed ==
  LET asking == {c \in Callers : parse[c].asked}
  IN /\ asking # {} => ParseOptionText(text.tokens) = NotParsed
     /\ Cap # 0 => Cardinality(asking) <= IF PriorUse < Cap THEN Cap - PriorUse ELSE 0

\* Once the table has an entry of a version, calls of that version that begin
\* later with a session neither parse again nor ask the model.
CachedOnceCommitted ==
  \A c \in Callers : parse[c].knew /\ c \in Sessions => ~parse[c].fresh

\* openspec landed-unit-price, "a quantity that is null or 0 has no unit price":
\* such an item is not stored as one that may be compared at a price.
ZeroQuantityUnpriced ==
  ParseOptionText(text.tokens).quantity = 0 =>
    \A orderUnit \in {"gae", "kg"}, listed \in Prices :
      LET item == NormalizeNaverItem(orderUnit, listed, text.tokens)
      IN ~item.eligible \/ item.price = {}
=============================================================================
