------------------------------ MODULE UnitPricing ------------------------------
(***************************************************************************)
(* From an option text and a price to a comparable unit price: the rule    *)
(* parser (app/parsers/regex_parser.py), the unit dictionary, the unit     *)
(* price, and what price collection stores of a search item                *)
(* (app/price_collection/normalization.py).                                *)
(*                                                                         *)
(* A text is a sequence of tokens: numbers, units, the signs the regular   *)
(* expressions look for, by name, and words, which none matches.  Numbers  *)
(* are whole; quantities are counted in thousandths of the base unit and   *)
(* unit prices in hundredths of a won.                                     *)
(***************************************************************************)
EXTENDS Integers, Sequences, FiniteSetsExt

\* The base unit of a unit, and its factor in thousandths.
MassUnits ==
  [mg |-> <<"g", 1>>, g |-> <<"g", 1000>>, kg |-> <<"g", 1000000>>,
   ml |-> <<"ml", 1000>>, cc |-> <<"ml", 1000>>, cl |-> <<"ml", 10000>>, l |-> <<"ml", 1000000>>]

\* Sheets: jang, mae.  Pieces: gae, gaeip, paek, rol, and the other sixteen, which
\* differ in nothing.
CountUnits ==
  [jang |-> <<"sheet", 1000>>, mae |-> <<"sheet", 1000>>, gae |-> <<"ct", 1000>>,
   gaeip |-> <<"ct", 1000>>, paek |-> <<"ct", 1000>>, rol |-> <<"ct", 1000>>]

\* convert_to_base
Convert(n, u) ==
  LET d == IF u \in DOMAIN MassUnits THEN MassUnits[u] ELSE CountUnits[u]
  IN [unit |-> d[1], quantity |-> n * d[2]]

Num(n)   == [kind |-> "num", n |-> n]
Unit(u)  == [kind |-> IF u \in DOMAIN MassUnits THEN "mass" ELSE "count", u |-> u]
Sign(k)  == [kind |-> k]

-----------------------------------------------------------------------------
(* The patterns.  Each finds the leftmost place where it fits, as re.search. *)

Fits(text, i, pattern) ==
  /\ i + Len(pattern) - 1 <= Len(text)
  /\ \A j \in DOMAIN pattern : text[i + j - 1].kind = pattern[j]

Leftmost(places) == IF places = {} THEN {} ELSE {Min(places)}

Find(text, pattern) == Leftmost({i \in DOMAIN text : Fits(text, i, pattern)})

Parsed(unit, quantity, pieces, packs, bonus) ==
  [unit |-> unit, quantity |-> quantity, pieces |-> pieces, packs |-> packs, bonus |-> bonus]

\* A volume and how many of it.
Several(v, u, n, packs) ==
  LET one == Convert(v, u) IN Parsed(one.unit, one.quantity * n, n, packs, 0)

\* "1kg(500g x 2)": what the parentheses hold is not added again.
ParenthesisDetail(text) ==
  {Several(text[i].n, text[i + 1].u, 1, 1) : i \in Leftmost({i \in DOMAIN text :
      /\ Fits(text, i, <<"num", "mass", "open">>)
      /\ \E j \in i + 4 .. Len(text) :
           text[j].kind = "close" /\ \A k \in i + 3 .. j - 1 : text[k].kind # "close"})}

\* "150g, 3"
CommaCombo(text) ==
  {Several(text[i].n, text[i + 1].u, text[i + 3].n, 1) :
     i \in Find(text, <<"num", "mass", "comma", "num", "count">>)}

\* A total that is written out anywhere, in the units gaeip, gae and paek.
ExplicitTotal(text) ==
  {text[i + 1].n : i \in Leftmost({i \in DOMAIN text :
      Fits(text, i, <<"total", "num", "count">>) /\ text[i + 2].u \in {"gaeip", "gae", "paek"}})}

\* A total in any unit right behind the packs.
TotalBehind(text, i) ==
  {text[j + 1].n : j \in {j \in {i, i + 1} :
      /\ Fits(text, j, <<"total", "num", "count">>)
      /\ j = i \/ text[i].kind = "open"}}

\* "5 x 8 packs (total 40)": the total that is written out comes first, if it is
\* not 0.  The unit is not looked at.
NxMWithTotal(text) ==
  {LET n == text[i].n
       m == text[i + 3].n
       said == ExplicitTotal(text) \ {0}
       total == IF said # {} THEN Min(said)
                ELSE IF TotalBehind(text, i + 5) # {} THEN Min(TotalBehind(text, i + 5))
                ELSE n * m
   IN Parsed("ct", total * 1000, total, m, 0) :
     i \in Find(text, <<"num", "count", "x", "num", "count">>)}

\* "500g x 2"
VolumeXCount(text) ==
  {Several(text[i].n, text[i + 1].u, text[i + 3].n, text[i + 3].n) :
     i \in Find(text, <<"num", "mass", "x", "num">>)}

\* "2L 12"
VolumeSpaceCount(text) ==
  {Several(text[i].n, text[i + 1].u, text[i + 2].n, 1) :
     i \in Find(text, <<"num", "mass", "num", "count">>)}

\* "3 + gift 2": the gift counts as a bonus.  The unit is not looked at.
BonusCombo(text) ==
  {Parsed("ct", text[i].n * 1000, text[i].n, 1,
          IF text[i + 3].kind = "num" THEN text[i + 3].n ELSE text[i + 4].n) :
     i \in Leftmost({i \in DOMAIN text :
             \/ Fits(text, i, <<"num", "count", "plus", "num">>)
             \/ Fits(text, i, <<"num", "count", "plus", "gift", "num">>)})}

\* "12"
SimpleCount(text) ==
  {LET all == Convert(text[i].n, text[i + 1].u)
   IN Parsed(all.unit, all.quantity, text[i].n, 1, 0) : i \in Find(text, <<"num", "count">>)}

NotParsed == Parsed("none", 0, 0, 0, 0)

FirstFound(found) ==
  LET hits == {i \in DOMAIN found : found[i] # {}}
  IN IF hits = {} THEN NotParsed ELSE CHOOSE r \in found[Min(hits)] : TRUE

\* Wrong: the number of pieces is looked for before the gift and the packs.
ParseCountFirst(text) ==
  FirstFound(<< ParenthesisDetail(text), CommaCombo(text), VolumeXCount(text),
                VolumeSpaceCount(text), SimpleCount(text), NxMWithTotal(text),
                BonusCombo(text) >>)

ParseOptionText(text) ==
  FirstFound(<< ParenthesisDetail(text), CommaCombo(text), NxMWithTotal(text),
                VolumeXCount(text), VolumeSpaceCount(text), BonusCombo(text),
                SimpleCount(text) >>)

-----------------------------------------------------------------------------
(* Prices *)

\* display_base: prices are shown for 100 g, 100 ml, a piece or a sheet.
DisplayBase(unit) == IF unit \in {"g", "ml"} THEN 100 ELSE 1

RoundHalfUp(a, b) == (2 * a + b) \div (2 * b)

\* calculate_unit_price, its display value rounded by the caller: none without a
\* quantity.
UnitPriceDisplay(total, parsed) ==
  IF parsed.quantity = 0 THEN {}
  ELSE {RoundHalfUp(total * 100 * DisplayBase(parsed.unit) * 1000, parsed.quantity)}

\* Wrong: an order in pieces is priced by the pack.
ComputePerPack(orderUnit, listed, parsed) ==
  IF orderUnit = "gae" /\ parsed.packs > 0 THEN RoundHalfUp(listed * 100, parsed.packs)
  ELSE IF UnitPriceDisplay(listed, parsed) = {} THEN 0
  ELSE Min(UnitPriceDisplay(listed, parsed))

\* _compute_order_unit_price; `unit_price_display or 0`.
ComputeOrderUnitPrice(orderUnit, listed, parsed) ==
  IF orderUnit = "gae" /\ parsed.pieces > 0 THEN RoundHalfUp(listed * 100, parsed.pieces)
  ELSE IF UnitPriceDisplay(listed, parsed) = {} THEN 0
  ELSE Min(UnitPriceDisplay(listed, parsed))

Excluded(code) == [eligible |-> FALSE, price |-> {}, count |-> 1, failure |-> code]

\* normalize_naver_item
NormalizeNaverItem(orderUnit, listed, text) ==
  LET parsed == ParseOptionText(text)
  IN IF listed <= 0 THEN Excluded("zero_price")
     ELSE IF parsed = NotParsed THEN Excluded("unit_unparsed")
     ELSE [eligible |-> TRUE, price |-> {ComputeOrderUnitPrice(orderUnit, listed, parsed)},
           count |-> IF parsed.pieces > 1 THEN parsed.pieces ELSE 1, failure |-> "none"]

-----------------------------------------------------------------------------
(* What the patterns are for: ways to write a quantity, and what they mean. *)

\* w.kind names the way; v of mass unit m, n and k counted in units u and t.
Written(w) ==
  CASE w.kind = "count"  -> <<Num(w.n), Unit(w.u)>>
    [] w.kind = "each"   -> <<Num(w.v), Unit(w.m), Num(w.n), Unit(w.u)>>
    [] w.kind = "comma"  -> <<Num(w.v), Unit(w.m), Sign("comma"), Num(w.n), Unit(w.u)>>
    [] w.kind = "times"  -> <<Num(w.v), Unit(w.m), Sign("x"), Num(w.n), Unit(w.u)>>
    [] w.kind = "packs"  -> <<Num(w.n), Unit(w.u), Sign("x"), Num(w.k), Unit("paek")>>
    [] w.kind = "total"  -> <<Num(w.n), Unit(w.u), Sign("x"), Num(w.k), Unit("paek"),
                              Sign("open"), Sign("total"), Num(w.t), Unit(w.u), Sign("close")>>
    [] w.kind = "detail" -> <<Num(w.v), Unit(w.m), Sign("open"), Num(w.n), Unit(w.u),
                              Sign("x"), Num(w.k), Unit("paek"), Sign("close")>>
    [] w.kind = "bonus"  -> <<Num(w.n), Unit(w.u), Sign("plus"), Sign("gift"), Num(w.k), Unit(w.u)>>
    [] OTHER             -> <<Sign("word")>>

Meant(w) ==
  CASE w.kind = "count"                      -> Convert(w.n, w.u)
    [] w.kind \in {"each", "comma", "times"} -> Convert(w.v * w.n, w.m)
    [] w.kind = "packs"                      -> Convert(w.n * w.k, w.u)
    [] w.kind = "total"                      -> Convert(w.t, w.u)
    [] w.kind = "detail"                     -> Convert(w.v, w.m)
    [] w.kind = "bonus"                      -> Convert(w.n, w.u)

\* How many pieces an order in pieces is priced by.
MeantPieces(w) ==
  CASE w.kind \in {"count", "each", "comma", "times", "bonus"} -> w.n
    [] w.kind = "packs"  -> w.n * w.k
    [] w.kind = "total"  -> w.t
    [] w.kind = "detail" -> 1

\* What a text is made of.
Token ==
  [kind : {"num"}, n : Nat]
    \cup [kind : {"mass"}, u : DOMAIN MassUnits] \cup [kind : {"count"}, u : DOMAIN CountUnits]
    \cup [kind : {"x", "comma", "plus", "open", "close", "gift", "total", "word"}]

\* Packs and gifts are counted in pieces; the detail is in any unit.
WellWritten(w) ==
  \/ w.kind = "count" /\ w.n \in Nat /\ w.u \in DOMAIN CountUnits
  \/ /\ w.kind \in {"each", "comma", "times"}
     /\ w.v \in Nat /\ w.m \in DOMAIN MassUnits /\ w.n \in Nat /\ w.u \in DOMAIN CountUnits
  \/ /\ w.kind \in {"packs", "total", "bonus"}
     /\ w.n \in Nat /\ w.u \in {"gae", "gaeip", "paek", "rol"} /\ w.k \in Nat
     /\ w.kind = "total" => w.t \in Nat
  \/ /\ w.kind = "detail"
     /\ w.v \in Nat /\ w.m \in DOMAIN MassUnits
     /\ w.n \in Nat /\ w.u \in DOMAIN MassUnits \cup DOMAIN CountUnits /\ w.k \in Nat

\* w stands at place i of the text.  Whatever else stands there, numbers and signs
\* included, is no quantity and no total, and no gift is added to it.
StandsAt(w, text, i) ==
  /\ i + Len(Written(w)) - 1 <= Len(text)
  /\ \A j \in DOMAIN Written(w) : text[i + j - 1] = Written(w)[j]
  /\ \A j \in DOMAIN text \ (i .. i + Len(Written(w)) - 1) :
       /\ text[j].kind \notin {"mass", "count", "total"}
       /\ j = i + Len(Written(w)) => text[j].kind # "plus"

\* The text says w, and no other quantity.
Says(text, w) == WellWritten(w) /\ \E i \in DOMAIN text : StandsAt(w, text, i)
=============================================================================
