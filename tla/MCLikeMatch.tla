----------------------------- MODULE MCLikeMatch -----------------------------
(* Patterns of up to three characters over two letters, both wildcards and *)
(* the character that Spark's regex splits at, and of up to five over the  *)
(* letters and the percent: enough for what stands before a percent to     *)
(* overlap with what stands after it.  Names of up to four characters,     *)
(* with the Kelvin sign, that folds to a letter, and short ones with a     *)
(* percent sign.                                                           *)
EXTENDS LikeMatch

Strings(chars, n) == UNION {[1..k -> chars] : k \in 0..n}

MCPatterns ==
    (Strings({"k", "b", "%", "_", "|"}, 3) \cup Strings({"k", "b", "%"}, 5)) \ {<<>>}
MCNames == Strings({"K", "kelvin", "b", "|"}, 4) \cup Strings({"K", "b", "%"}, 2)

MCAlphaNum    == {"k", "K", "b", "B"}
MCAscii       == MCAlphaNum \cup {"%", "_", "|"}
MCAsciiOrbits == {{"k", "K"}, {"b", "B"}}
MCFoldOrbits  == {{"k", "K", "kelvin"}, {"b", "B"}}

=============================================================================
