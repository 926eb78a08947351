------------------------------ MODULE LikeMatch ------------------------------
(***************************************************************************)
(* How GetObjects matches a name with an ADBC name pattern (SQL LIKE       *)
(* syntax): likeMatch, the loop that decides on the client, and likeClause,*)
(* the clause that lets Spark narrow the listing before (driver/spark/     *)
(* objects.go).  One iteration of the loop is one step.                    *)
(*                                                                         *)
(* Patterns and names are sequences of characters; an index is Go's, from  *)
(* 0, so that character i is s[i + 1].                                     *)
(***************************************************************************)
EXTENDS Integers, Sequences

CONSTANTS
    Patterns, Names,   \* inputs: finite sequences of characters
    FoldOrbits,        \* sets of characters that simple case folding identifies
    AsciiOrbits,       \* sets of characters that differ in ASCII case only
    AlphaNum,          \* ASCII letters and digits
    Ascii              \* ASCII characters

ASSUME InputsAssumption ==
    /\ <<>> \notin Patterns
    /\ \A s \in Patterns \cup Names : s \in Seq({s[n] : n \in DOMAIN s})

\* Of simple case folding, and of ASCII: a percent sign folds to itself only,
\* and ASCII characters that fold to each other are two cases of a letter.
ASSUME AlphabetsAssumption ==
    /\ \A o \in AsciiOrbits : o \subseteq AlphaNum
    /\ AlphaNum \subseteq Ascii
    /\ {"%", "_", "*", ".", "|"} \cap AlphaNum = {}
    /\ \A o \in FoldOrbits :
          /\ "%" \notin o
          /\ \A a, b \in o \cap Ascii : a = b \/ \E q \in AsciiOrbits : {a, b} \subseteq q

VARIABLES pattern, name, i, j, star, mark, result

input == <<pattern, name>>
likeVars  == <<input, i, j, star, mark, result>>

\* equalFold, and what Spark's case-insensitive regex makes of it.
equalFold(a, b)  == a = b \/ \E o \in FoldOrbits : {a, b} \subseteq o
equalAscii(a, b) == a = b \/ \E o \in AsciiOrbits : {a, b} \subseteq o

-----------------------------------------------------------------------------
(* likeMatch.                                                              *)

LikeInit ==
    /\ pattern \in Patterns /\ name \in Names
    /\ i = 0 /\ j = 0 /\ star = -1 /\ mark = 0
    /\ result = "none"

\* The rest of the pattern: for i < len(p) && p[i] == '%' { i++ }; i == len(p)
OnlyPercentsFrom(k) == \A n \in k + 1 .. Len(pattern) : pattern[n] = "%"

InName == result = "none" /\ j < Len(name)

MatchesHere ==
    /\ i < Len(pattern)
    /\ pattern[i + 1] = "_" \/ equalFold(pattern[i + 1], name[j + 1])

PercentHere == i < Len(pattern) /\ pattern[i + 1] = "%"

Advance ==
    /\ InName /\ MatchesHere
    /\ i' = i + 1 /\ j' = j + 1
    /\ UNCHANGED <<input, star, mark, result>>

\* Mutant: the place in the name is not marked.
NoteNothing ==
    /\ InName /\ ~MatchesHere /\ PercentHere
    /\ star' = i /\ i' = i + 1
    /\ UNCHANGED <<input, j, mark, result>>

NotePercent ==
    /\ InName /\ ~MatchesHere /\ PercentHere
    /\ star' = i /\ mark' = j
    /\ i' = i + 1
    /\ UNCHANGED <<input, j, result>>

\* Mutants: the percent does not take another character; it takes one more
\* than there is.
RetrySame ==
    /\ InName /\ ~MatchesHere /\ ~PercentHere /\ star # -1
    /\ i' = star + 1 /\ j' = mark
    /\ UNCHANGED <<input, star, mark, result>>
RetryFurther ==
    /\ InName /\ ~MatchesHere /\ ~PercentHere /\ star # -1
    /\ i' = star + 1 /\ mark' = mark + 1 /\ j' = mark + 2
    /\ UNCHANGED <<input, star, result>>

\* Let the last percent take one more character.
Retry ==
    /\ InName /\ ~MatchesHere /\ ~PercentHere /\ star # -1
    /\ i' = star + 1
    /\ mark' = mark + 1 /\ j' = mark + 1
    /\ UNCHANGED <<input, star, result>>

GiveUp ==
    /\ InName /\ ~MatchesHere /\ ~PercentHere /\ star = -1
    /\ result' = "no"
    /\ UNCHANGED <<input, i, j, star, mark>>

\* The name is used up.
End ==
    /\ result = "none" /\ j >= Len(name)
    /\ result' = IF OnlyPercentsFrom(i) THEN "yes" ELSE "no"
    /\ UNCHANGED <<input, i, j, star, mark>>

LikeNext == Advance \/ NotePercent \/ Retry \/ GiveUp \/ End

LikeSpec == LikeInit /\ [][LikeNext]_likeVars /\ WF_likeVars(LikeNext)

-----------------------------------------------------------------------------
(* likeClause.                                                             *)

NoClause == <<>>

\* Mutant: any character goes into the clause.
ClauseOfAll(p) ==
    [n \in DOMAIN p |-> CASE p[n] = "%" -> "*" [] p[n] = "_" -> "." [] OTHER -> p[n]]

likeClause(p) ==
    IF \A n \in DOMAIN p : p[n] \in AlphaNum \cup {"%", "_"}
    THEN [n \in DOMAIN p |->
            CASE p[n] = "%" -> "*" [] p[n] = "_" -> "." [] OTHER -> p[n]]
    ELSE NoClause

-----------------------------------------------------------------------------
(* Properties.                                                             *)

\* Reference: the whole of s matches the whole of p, in which `many` stands
\* for any characters and `one` for one.
Matches(p, s, many, one, Same(_, _)) ==
    LET m[x \in (0..Len(p)) \X (0..Len(s))] ==
            LET k == x[1]  l == x[2] IN
            IF k = 0 THEN l = 0
            ELSE IF p[k] = many THEN m[<<k - 1, l>>] \/ (l > 0 /\ m[<<k, l - 1>>])
            ELSE /\ l > 0
                 /\ p[k] = one \/ Same(p[k], s[l])
                 /\ m[<<k - 1, l - 1>>]
    IN m[<<Len(p), Len(s)>>]

SqlLike(p, s) == Matches(p, s, "%", "_", equalFold)

\* Spark splits the clause at every '|': c[a] to c[b] is one of the parts.
Alternative(c, a, b) ==
    /\ a = 1 \/ (a - 1 \in DOMAIN c /\ c[a - 1] = "|")
    /\ b = Len(c) \/ (b + 1 \in DOMAIN c /\ c[b + 1] = "|")
    /\ a <= b + 1
    /\ \A n \in a..b : c[n] # "|"

SparkLike(c, s) ==
    \E a \in 1 .. Len(c) + 1, b \in 0 .. Len(c) :
        Alternative(c, a, b) /\ Matches(SubSeq(c, a, b), s, "*", ".", equalAscii)

HasPercent(s) == \E n \in DOMAIN s : s[n] = "%"

\* Indices stay in their strings, and a retry never goes back before the
\* place the last percent marked.
IndicesInRange ==
    /\ pattern \in Patterns /\ name \in Names
    /\ i \in 0..Len(pattern) /\ j \in 0..Len(name)
    /\ star \in -1..(i - 1) /\ mark \in 0..j
    /\ star # -1 => pattern[star + 1] = "%"
    /\ result \in {"none", "yes", "no"}

\* likeMatch decides SQL LIKE, though it keeps one percent to come back to,
\* for every name without a percent sign in it.
DecidesLike ==
    result # "none" /\ ~HasPercent(name)
        => (result = "yes" <=> SqlLike(pattern, name))

\* "the clause only narrows the listing": Spark's own matching, a regex with
\* alternatives, never drops an ASCII name that the client would keep; a
\* pattern it could misread gets no clause.
ClauseOnlyNarrows ==
    (/\ result = "yes"
     /\ likeClause(pattern) # NoClause
     /\ \A n \in DOMAIN name : name[n] \in Ascii)
        => SparkLike(likeClause(pattern), name)

\* The loop ends, for every pattern and name.
Terminates == <>(result # "none")

=============================================================================
