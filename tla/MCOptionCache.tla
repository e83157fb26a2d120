---------------------------- MODULE MCOptionCache ----------------------------
(* Finite instances of OptionCache for TLC. *)
EXTENDS OptionCache, TLC

CONSTANTS c1, c2, c3

Counts(n, u)         == [kind |-> "count", n |-> n, u |-> u]
Volumes(kind, v, m)  == [kind |-> kind, v |-> v, m |-> m, n |-> 12, u |-> "gaeip"]
Packs(kind, n, k, t) == [kind |-> kind, n |-> n, u |-> "gaeip", k |-> k, t |-> t]
Detail(v, m)         == [kind |-> "detail", v |-> v, m |-> m, n |-> 500, u |-> "g", k |-> 2]

Writings ==
  {Counts(n, u) : n \in {1, 30}, u \in {"gae", "rol", "mae"}}
    \cup {Volumes(kind, v, m) : kind \in {"each", "comma", "times"}, v \in {2, 7}, m \in {"ml", "kg"}}
    \cup {Packs("packs", 5, 8, 0), Packs("total", 5, 8, 40), Packs("total", 5, 8, 42)}
    \cup {Detail(1, "kg"), Detail(900, "ml")}
    \cup {Packs("bonus", 3, 2, 0)}
    \cup {[kind |-> "none"]}

Zero == {Counts(0, "gae"), Volumes("each", 0, "g")}

\* A year and a name, and a remark in parentheses.
Before == { <<>>, <<Num(2026), Sign("word")>> }
After  == { <<>>, <<Sign("open"), Sign("word"), Sign("close")>> }

TextsOf(writings) ==
  {[writing |-> w, tokens |-> b \o Written(w) \o a] : w \in writings, b \in Before, a \in After}

AllTexts  == TextsOf(Writings)
ZeroTexts == TextsOf(Zero)

\* The release before, and two callers of the new one, one without a session.
TwoReleases == (c1 :> 1) @@ (c2 :> 2) @@ (c3 :> 2)

Answer(n) == Parsed("g", n, 1, 1, 0)

SomeAnswers == {NotParsed, Answer(1000), Answer(2000)}
=============================================================================
