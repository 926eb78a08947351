---------------------------- MODULE StringProofs ----------------------------
(***************************************************************************)
(* Proofs about the two places where the driver reads text: likeMatch and   *)
(* likeClause (LikeMatch.tla), and the connection string with the options   *)
(* that are written over it (ConnectionConfig.tla).  They share one module  *)
(* because they share what they are proved from: induction, and facts about *)
(* sequences.                                                               *)
(*                                                                         *)
(* In order:                                                               *)
(*   1. induction over the natural numbers, for sets of them;              *)
(*   2. LIKE as alignments of a pattern with a name, and that the rules    *)
(*      of SqlLike and of Spark decide whether there is one;               *)
(*   3. the inductive invariant of likeMatch's loop, and its theorems;     *)
(*   4. the clause that is sent to Spark;                                  *)
(*   5. folds over sequences, as the trace of their partial results;       *)
(*   6. what the parser's operators return, and that a Config is one;      *)
(*   7. options written over a Config, the inductive invariant of          *)
(*      SetOptions, and its theorems;                                      *)
(*   8. where an address is cut: the scheme, host and port, parameters;    *)
(*   9. splitting what was joined gives back the parts;                    *)
(*  10. the parameters read one by one, against what was said last;        *)
(*  11. ParseConnectionString reads an address as it was meant, and        *)
(*      Endpoint is dialled as it was meant.                               *)
(***************************************************************************)
EXTENDS LikeMatch, ConnectionConfig, WellFoundedInduction, FiniteSetTheorems, TLAPS

-----------------------------------------------------------------------------
(* 1. Induction.                                                           *)

\* A set that has 0, and n + 1 whenever it has n, has every natural number.
\* From the well-foundedness of < by a least element outside of it.
LEMMA NatSetInduction ==
  ASSUME NEW S, 0 \in S, \A n \in Nat : n \in S => n + 1 \in S
  PROVE  \A n \in Nat : n \in S
<1> DEFINE T == {n \in Nat : n \notin S}
           R == {ss \in Nat \X Nat : ss[1] < ss[2]}
<1>1. IsWellFoundedOn(R, Nat)
  BY NatLessThanWellFounded DEF OpToRel
<1>2. SUFFICES ASSUME T # {} PROVE FALSE
  OBVIOUS
<1>3. PICK n \in T : \A y \in T : ~(<<y, n>> \in R)
  <2> HIDE DEF R
  <2> QED BY <1>1, <1>2, WFMin
<1>4. n # 0 /\ n - 1 \in Nat
  OBVIOUS
<1>5. <<n-1, n>> \in R
  BY <1>4
<1>6. n - 1 \notin T
  <2> HIDE DEF R
  <2> QED BY <1>3, <1>5
<1> QED
  BY <1>4, <1>6

-----------------------------------------------------------------------------
(* 2. LIKE as alignments.                                                  *)

\* The ways to lay the first k places of a pattern over the first l of a name:
\* f[n] is where place n ends. A place of `many` takes any number of
\* characters, any other takes one, the one it hits.
Alignments(many, hit, k, l) ==
    {f \in [0..k -> Nat] :
        /\ f[0] = 0 /\ f[k] = l
        /\ \A n \in 1..k : IF n \in many THEN f[n - 1] <= f[n]
                           ELSE f[n] = f[n - 1] + 1 /\ <<n, f[n]>> \in hit}

\* The first k places match the first l characters.
Aligned(many, hit, k, l) == Alignments(many, hit, k, l) # {}

\* Nothing matches the empty prefix only.
LEMMA AlignedStart ==
  ASSUME NEW many, NEW hit, NEW l \in Nat
  PROVE  Aligned(many, hit, 0, l) <=> l = 0
<1>1. ASSUME l = 0 PROVE [n \in 0..0 |-> 0] \in Alignments(many, hit, 0, l)
  BY <1>1 DEF Alignments
<1> QED
  BY <1>1 DEF Aligned, Alignments

\* One more place of the pattern is laid.
LEMMA ExtendAlignment ==
  ASSUME NEW many, NEW hit, NEW k \in Nat, NEW l \in Nat, NEW h \in Nat,
         NEW f \in Alignments(many, hit, k, l),
         IF k + 1 \in many THEN l <= h ELSE h = l + 1 /\ <<k + 1, h>> \in hit
  PROVE  Aligned(many, hit, k + 1, h)
<1> DEFINE g == [n \in 0..k + 1 |-> IF n <= k THEN f[n] ELSE h]
<1>1. f \in [0..k -> Nat] /\ f[0] = 0 /\ f[k] = l
  BY DEF Alignments
<1>2. g \in [0..k + 1 -> Nat] /\ g[0] = 0 /\ g[k + 1] = h /\ \A n \in 0..k : g[n] = f[n]
  BY <1>1
<1>3. ASSUME NEW n \in 1..k + 1
      PROVE  IF n \in many THEN g[n - 1] <= g[n]
             ELSE g[n] = g[n - 1] + 1 /\ <<n, g[n]>> \in hit
  <2> HIDE DEF g
  <2>1. CASE n = k + 1
    <3>1. n - 1 = k /\ k \in 0..k /\ l \in Nat
      BY <2>1
    <3>2. g[n] = h /\ g[n - 1] = l
      BY <1>1, <1>2, <2>1, <3>1
    <3> QED
      BY <2>1, <3>2
  <2>2. CASE n # k + 1
    <3>1. n \in 1..k /\ n \in 0..k /\ n - 1 \in 0..k
      BY <2>2
    <3> QED
      BY <1>2, <3>1 DEF Alignments
  <2> QED
    BY <2>1, <2>2
<1> HIDE DEF g
<1>4. g \in Alignments(many, hit, k + 1, h)
  BY <1>2, <1>3 DEF Alignments
<1> QED
  BY <1>4 DEF Aligned

\* Without its last place, an alignment is one.
LEMMA RestrictAlignment ==
  ASSUME NEW many, NEW hit, NEW k \in Nat, NEW h \in Nat,
         Aligned(many, hit, k + 1, h)
  PROVE  \E l \in Nat :
            /\ Aligned(many, hit, k, l)
            /\ IF k + 1 \in many THEN l <= h ELSE h = l + 1 /\ <<k + 1, h>> \in hit
<1>1. PICK g : g \in Alignments(many, hit, k + 1, h)
  BY DEF Aligned
<1>2. /\ g \in [0..k + 1 -> Nat] /\ g[0] = 0 /\ g[k + 1] = h
      /\ \A n \in 1..k + 1 : IF n \in many THEN g[n - 1] <= g[n]
                             ELSE g[n] = g[n - 1] + 1 /\ <<n, g[n]>> \in hit
  BY <1>1 DEF Alignments
<1> DEFINE f == [n \in 0..k |-> g[n]]
<1>3. f \in Alignments(many, hit, k, g[k])
  <2>1. f \in [0..k -> Nat] /\ f[0] = 0 /\ f[k] = g[k] /\ \A n \in 0..k : f[n] = g[n]
    BY <1>2
  <2>2. \A n \in 1..k : n \in 1..k + 1 /\ n \in 0..k /\ n - 1 \in 0..k
    OBVIOUS
  <2> HIDE DEF f
  <2>3. \A n \in 1..k : IF n \in many THEN f[n - 1] <= f[n]
                        ELSE f[n] = f[n - 1] + 1 /\ <<n, f[n]>> \in hit
    BY <1>2, <2>1, <2>2
  <2> QED
    BY <2>1, <2>3 DEF Alignments
<1>4. /\ g[k] \in Nat
      /\ IF k + 1 \in many THEN g[k] <= h ELSE h = g[k] + 1 /\ <<k + 1, h>> \in hit
  BY <1>2
<1> QED
  BY <1>3, <1>4 DEF Aligned

\* One line of the recursion by which SqlLike and Spark's matching are
\* defined.
Rule(m, many, hit, k, l) ==
    IF k = 0 THEN l = 0
    ELSE IF k \in many THEN m[<<k - 1, l>>] \/ (l > 0 /\ m[<<k, l - 1>>])
    ELSE l > 0 /\ <<k, l>> \in hit /\ m[<<k - 1, l - 1>>]

RuleTable(m, many, hit, P, S) ==
    [x \in (0..P) \X (0..S) |-> Rule(m, many, hit, x[1], x[2])]

\* Alignments obey the recursion.
LEMMA AlignedRule ==
  ASSUME NEW many, NEW hit, NEW P \in Nat, NEW S \in Nat,
         NEW k \in 0..P, NEW l \in 0..S
  PROVE  Aligned(many, hit, k, l) <=>
         IF k = 0 THEN l = 0
         ELSE IF k \in many THEN \/ Aligned(many, hit, k - 1, l)
                                 \/ l > 0 /\ Aligned(many, hit, k, l - 1)
         ELSE l > 0 /\ <<k, l>> \in hit /\ Aligned(many, hit, k - 1, l - 1)
<1>1. CASE k = 0
  BY <1>1, AlignedStart
<1>2. CASE k # 0
  <2>1. k - 1 \in Nat /\ (k - 1) + 1 = k
    BY <1>2
  <2>2. \A a \in Nat : Aligned(many, hit, k - 1, a) =>
           \A h \in Nat : (IF k \in many THEN a <= h ELSE h = a + 1 /\ <<k, h>> \in hit)
                          => Aligned(many, hit, k, h)
    BY <2>1, ExtendAlignment DEF Aligned
  <2>3. ASSUME NEW h \in Nat, Aligned(many, hit, k, h)
        PROVE  \E a \in Nat :
                  /\ Aligned(many, hit, k - 1, a)
                  /\ IF k \in many THEN a <= h ELSE h = a + 1 /\ <<k, h>> \in hit
    <3> DEFINE K == k - 1
    <3>1. K \in Nat /\ K + 1 = k
      BY <2>1
    <3> HIDE DEF K
    <3>2. Aligned(many, hit, K + 1, h)
      BY <2>3, <3>1
    <3>3. \E a \in Nat :
            /\ Aligned(many, hit, K, a)
            /\ IF K + 1 \in many THEN a <= h ELSE h = a + 1 /\ <<K + 1, h>> \in hit
      BY <3>1, <3>2, RestrictAlignment
    <3> QED
      BY <3>1, <3>3 DEF K
  <2>4. CASE k \in many
    <3>1. Aligned(many, hit, k - 1, l) => Aligned(many, hit, k, l)
      BY <2>2, <2>4
    <3>2. ASSUME l > 0, Aligned(many, hit, k, l - 1) PROVE Aligned(many, hit, k, l)
      <4>1. PICK a \in Nat : Aligned(many, hit, k - 1, a) /\ a <= l - 1
        BY <2>3, <2>4, <3>2
      <4> QED
        BY <2>2, <2>4, <4>1
    <3>3. ASSUME Aligned(many, hit, k, l), ~Aligned(many, hit, k - 1, l)
          PROVE  l > 0 /\ Aligned(many, hit, k, l - 1)
      <4>1. PICK a \in Nat : Aligned(many, hit, k - 1, a) /\ a <= l
        BY <2>3, <2>4, <3>3
      <4>2. a # l
        BY <3>3, <4>1
      <4>3. l > 0 /\ l - 1 \in Nat /\ a <= l - 1
        BY <4>1, <4>2
      <4> QED
        BY <2>2, <2>4, <4>1, <4>3
    <3> QED
      BY <1>2, <2>4, <3>1, <3>2, <3>3
  <2>5. CASE k \notin many
    <3>1. ASSUME l > 0, <<k, l>> \in hit, Aligned(many, hit, k - 1, l - 1)
          PROVE  Aligned(many, hit, k, l)
      <4>1. l - 1 \in Nat /\ l \in Nat /\ l = (l - 1) + 1
        BY <3>1
      <4> QED
        BY <2>2, <2>5, <3>1, <4>1
    <3>2. ASSUME Aligned(many, hit, k, l)
          PROVE  l > 0 /\ <<k, l>> \in hit /\ Aligned(many, hit, k - 1, l - 1)
      <4>1. PICK a \in Nat : /\ Aligned(many, hit, k - 1, a)
                             /\ l = a + 1 /\ <<k, l>> \in hit
        BY <2>3, <2>5, <3>2
      <4>2. a = l - 1 /\ l > 0
        BY <4>1
      <4> QED
        BY <4>1, <4>2
    <3> QED
      BY <1>2, <2>5, <3>1, <3>2
  <2> QED
    BY <2>4, <2>5
<1> QED
  BY <1>1, <1>2

\* The recursion has a solution, as a function of pairs must be shown to.
LEMMA RuleHasSolution ==
  ASSUME NEW many, NEW hit, NEW P \in Nat, NEW S \in Nat
  PROVE  \E m : m = RuleTable(m, many, hit, P, S)
<1> DEFINE m == [x \in (0..P) \X (0..S) |-> Aligned(many, hit, x[1], x[2])]
<1>1. \A k \in 0..P, l \in 0..S : m[<<k, l>>] = Aligned(many, hit, k, l)
  OBVIOUS
<1>2. ASSUME NEW k \in 0..P, NEW l \in 0..S
      PROVE  Aligned(many, hit, k, l) = Rule(m, many, hit, k, l)
  <2>1. k # 0 => k - 1 \in 0..P
    OBVIOUS
  <2>2. l > 0 => l - 1 \in 0..S
    OBVIOUS
  <2>3. l \in Nat
    OBVIOUS
  <2> HIDE DEF m
  <2>4. k # 0 => m[<<k - 1, l>>] = Aligned(many, hit, k - 1, l)
    BY <1>1, <2>1
  <2>5. l > 0 => m[<<k, l - 1>>] = Aligned(many, hit, k, l - 1)
    BY <1>1, <2>2
  <2>6. k # 0 /\ l > 0 => m[<<k - 1, l - 1>>] = Aligned(many, hit, k - 1, l - 1)
    BY <1>1, <2>1, <2>2
  <2>7. Aligned(many, hit, k, l) <=> Rule(m, many, hit, k, l)
    BY <2>4, <2>5, <2>6, AlignedRule DEF Rule
  <2> QED
    BY <2>7 DEF Rule, Aligned
<1>3. m = RuleTable(m, many, hit, P, S)
  <2>1. \A x \in (0..P) \X (0..S) : m[x] = Rule(m, many, hit, x[1], x[2])
    BY <1>2
  <2> QED
    BY <2>1 DEF RuleTable
<1> QED
  BY <1>3, Zenon

\* Any solution says which prefixes can be aligned, by induction over k and l.
LEMMA RuleDetermines ==
  ASSUME NEW many, NEW hit, NEW P \in Nat, NEW S \in Nat, NEW m,
         m = RuleTable(m, many, hit, P, S)
  PROVE  \A k \in 0..P, l \in 0..S : m[<<k, l>>] <=> Aligned(many, hit, k, l)
<1>1. ASSUME NEW k \in 0..P, NEW l \in 0..S
      PROVE  m[<<k, l>>] = Rule(m, many, hit, k, l)
  <2>1. RuleTable(m, many, hit, P, S)[<<k, l>>] = Rule(m, many, hit, k, l)
    BY DEF RuleTable
  <2> QED
    BY <2>1
<1> DEFINE Row(k) == \A l \in 0..S : m[<<k, l>>] <=> Aligned(many, hit, k, l)
           Rows == {k \in Nat : k \in 0..P => Row(k)}
<1>2. 0 \in Rows
  <2>1. ASSUME 0 \in 0..P, NEW l \in 0..S
        PROVE  m[<<0, l>>] <=> Aligned(many, hit, 0, l)
    <3>1. m[<<0, l>>] = Rule(m, many, hit, 0, l)
      BY <1>1, <2>1
    <3>2. l \in Nat
      OBVIOUS
    <3> QED
      BY <3>1, <3>2, AlignedStart DEF Rule
  <2> QED
    BY <2>1
<1>3. ASSUME NEW h \in Nat, h \in Rows
      PROVE  h + 1 \in Rows
  <2> DEFINE k == h + 1
  <2> SUFFICES ASSUME k \in 0..P
               PROVE  \A l \in 0..S : m[<<k, l>>] <=> Aligned(many, hit, k, l)
    <3> HIDE DEF Row
    <3>1. k + 0 \in Nat /\ k = h + 1
      OBVIOUS
    <3> HIDE DEF k
    <3>2. k \in 0..P => Row(k)
      BY DEF Row
    <3> QED
      BY <3>1, <3>2
  <2>1. k # 0 /\ k - 1 = h /\ h \in 0..P
    OBVIOUS
  <2>2. \A l \in 0..S : m[<<h, l>>] <=> Aligned(many, hit, h, l)
    BY <1>3, <2>1
  <2> DEFINE Columns == {l \in Nat : l \in 0..S => (m[<<k, l>>] <=> Aligned(many, hit, k, l))}
  <2> HIDE DEF k
  <2>3. ASSUME NEW l \in 0..S, l # 0 => (m[<<k, l - 1>>] <=> Aligned(many, hit, k, l - 1))
        PROVE  m[<<k, l>>] <=> Aligned(many, hit, k, l)
    <3>1. l > 0 => l - 1 \in 0..S
      OBVIOUS
    <3>2. m[<<h, l>>] <=> Aligned(many, hit, h, l)
      BY <2>2
    <3>3. l > 0 => (m[<<h, l - 1>>] <=> Aligned(many, hit, h, l - 1))
      BY <2>2, <3>1
    <3>4. m[<<k, l>>] = Rule(m, many, hit, k, l)
      BY <1>1
    <3>5. l > 0 => (m[<<k, l - 1>>] <=> Aligned(many, hit, k, l - 1))
      BY <2>3
    <3>6. Aligned(many, hit, k, l) <=>
            IF k \in many THEN Aligned(many, hit, h, l) \/ (l > 0 /\ Aligned(many, hit, k, l - 1))
            ELSE l > 0 /\ <<k, l>> \in hit /\ Aligned(many, hit, h, l - 1)
      BY <2>1, AlignedRule
    <3>7. Rule(m, many, hit, k, l) =
            IF k \in many THEN m[<<h, l>>] \/ (l > 0 /\ m[<<k, l - 1>>])
            ELSE l > 0 /\ <<k, l>> \in hit /\ m[<<h, l - 1>>]
      BY <2>1 DEF Rule
    <3> QED
      BY <3>2, <3>3, <3>4, <3>5, <3>6, <3>7
  <2>4. 0 \in Columns
    BY <2>3
  <2>5. ASSUME NEW l \in Nat, l \in Columns
        PROVE  l + 1 \in Columns
    <3>1. SUFFICES ASSUME l + 1 \in 0..S
                   PROVE  m[<<k, l + 1>>] <=> Aligned(many, hit, k, l + 1)
      OBVIOUS
    <3>2. l \in 0..S /\ (l + 1) - 1 = l
      BY <3>1
    <3>3. m[<<k, l>>] <=> Aligned(many, hit, k, l)
      BY <2>5, <3>2
    <3> QED
      BY <2>3, <3>1, <3>2, <3>3
  <2> HIDE DEF Columns
  <2>6. \A l \in Nat : l \in Columns
    BY <2>4, <2>5, NatSetInduction
  <2> QED
    BY <2>6 DEF Columns
<1> HIDE DEF Rows, Row
<1>4. \A k \in Nat : k \in Rows
  BY <1>2, <1>3, NatSetInduction
<1>5. \A k \in 0..P : Row(k)
  BY <1>4 DEF Rows
<1> QED
  BY <1>5 DEF Row

\* The percents of a pattern, and which place may take which character.
Manys(p) == {n \in 1..Len(p) : p[n] = "%"}
Hits(p, s) == {x \in (1..Len(p)) \X (1..Len(s)) :
                  p[x[1]] = "_" \/ equalFold(p[x[1]], s[x[2]])}

\* SQL LIKE, as LikeMatch.tla defines it, is whether there is an alignment.
LEMMA SqlLikeIsAlignment ==
  ASSUME NEW p, NEW s, Len(p) \in Nat, Len(s) \in Nat
  PROVE  SqlLike(p, s) <=> Aligned(Manys(p), Hits(p, s), Len(p), Len(s))
<1> DEFINE P == Len(p)
           S == Len(s)
           Body(m, k, l) == IF k = 0 THEN l = 0
              ELSE IF p[k] = "%" THEN m[<<k - 1, l>>] \/ (l > 0 /\ m[<<k, l - 1>>])
              ELSE /\ l > 0
                   /\ p[k] = "_" \/ equalFold(p[k], s[l])
                   /\ m[<<k - 1, l - 1>>]
           Table(m) == [x \in (0..P) \X (0..S) |-> Body(m, x[1], x[2])]
           Ruled(m) == RuleTable(m, Manys(p), Hits(p, s), P, S)
<1>1. ASSUME NEW m PROVE Table(m) = Ruled(m)
  <2>1. ASSUME NEW k \in 0..P, NEW l \in 0..S
        PROVE  Body(m, k, l) = Rule(m, Manys(p), Hits(p, s), k, l)
    <3>1. k # 0 => (k \in Manys(p) <=> p[k] = "%")
      BY DEF Manys
    <3>2. k # 0 /\ l > 0 =>
            (<<k, l>> \in Hits(p, s) <=> p[k] = "_" \/ equalFold(p[k], s[l]))
      <4>1. k # 0 /\ l > 0 => <<k, l>> \in (1..P) \X (1..S)
        OBVIOUS
      <4> QED
        BY <4>1 DEF Hits
    <3> QED
      BY <3>1, <3>2 DEF Rule
  <2> HIDE DEF Body
  <2> QED
    BY <2>1 DEF RuleTable
<1> DEFINE F == CHOOSE m : m = Table(m)
<1>2. SqlLike(p, s) = F[<<P, S>>]
  BY Zenon DEF SqlLike, Matches
<1> HIDE DEF Table, Ruled
<1>3. F = Table(F)
  <2>1. \E m : m = Ruled(m)
    BY RuleHasSolution, Zenon DEF Ruled
  <2> QED
    BY <1>1, <2>1
<1> HIDE DEF F
<1>4. F = Ruled(F)
  BY <1>1, <1>3
<1>5. \A k \in 0..P, l \in 0..S : F[<<k, l>>] <=> Aligned(Manys(p), Hits(p, s), k, l)
  BY <1>4, RuleDetermines DEF Ruled
<1> QED
  BY <1>2, <1>5

-----------------------------------------------------------------------------
(* What an alignment of the whole name does.                               *)

\* Without a percent in between, an alignment goes one character a place.
LEMMA Unforced ==
  ASSUME NEW many, NEW hit, NEW k \in Nat, NEW l \in Nat,
         NEW f \in Alignments(many, hit, k, l), NEW a \in 0..k, NEW b \in a..k,
         \A n \in a + 1..b : n \notin many
  PROVE  f[b] = f[a] + (b - a)
<1> DEFINE D == {d \in Nat : a + d <= b => f[a + d] = f[a] + d}
<1>1. /\ f \in [0..k -> Nat]
      /\ \A n \in 1..k : IF n \in many THEN f[n - 1] <= f[n]
                         ELSE f[n] = f[n - 1] + 1 /\ <<n, f[n]>> \in hit
  BY DEF Alignments
<1>2. 0 \in D
  BY <1>1
<1>3. ASSUME NEW d \in Nat, d \in D PROVE d + 1 \in D
  <2>1. SUFFICES ASSUME a + (d + 1) <= b PROVE f[a + (d + 1)] = f[a] + (d + 1)
    OBVIOUS
  <2>2. f[a + d] = f[a] + d
    BY <1>3, <2>1
  <2>3. a + (d + 1) \in 1..k /\ a + (d + 1) \in a + 1..b /\ (a + (d + 1)) - 1 = a + d
    BY <2>1
  <2>4. f[a + (d + 1)] = f[a + d] + 1
    BY <1>1, <2>3
  <2>5. f[a] \in Nat
    BY <1>1
  <2> QED
    BY <2>2, <2>4, <2>5
<1>4. b - a \in Nat /\ a + (b - a) = b
  OBVIOUS
<1> HIDE DEF D
<1>5. b - a \in D
  BY <1>2, <1>3, <1>4, NatSetInduction
<1> QED
  BY <1>4, <1>5 DEF D

\* After the end of the name only percents can follow.
LEMMA NothingLeft ==
  ASSUME NEW many, NEW hit, NEW k \in Nat, NEW l \in Nat,
         NEW f \in Alignments(many, hit, k, l), NEW a \in 0..k, l <= f[a],
         \A n, h \in Nat : <<n, h>> \in hit => h <= l
  PROVE  \A n \in a + 1..k : n \in many
<1> DEFINE D == {d \in Nat : a + d <= k => l <= f[a + d] /\ (d # 0 => a + d \in many)}
<1>1. /\ f \in [0..k -> Nat]
      /\ \A n \in 1..k : IF n \in many THEN f[n - 1] <= f[n]
                         ELSE f[n] = f[n - 1] + 1 /\ <<n, f[n]>> \in hit
  BY DEF Alignments
<1>2. 0 \in D
  BY <1>1
<1>3. ASSUME NEW d \in Nat, d \in D PROVE d + 1 \in D
  <2>1. SUFFICES ASSUME a + (d + 1) <= k
                 PROVE  l <= f[a + (d + 1)] /\ a + (d + 1) \in many
    OBVIOUS
  <2>2. l <= f[a + d]
    BY <1>3, <2>1
  <2> DEFINE n == a + (d + 1)
  <2>3. n \in 1..k /\ n \in Nat /\ n - 1 = a + d /\ n - 1 \in 0..k
    BY <2>1
  <2> HIDE DEF n
  <2>4. IF n \in many THEN f[n - 1] <= f[n]
        ELSE f[n] = f[n - 1] + 1 /\ <<n, f[n]>> \in hit
    BY <1>1, <2>3
  <2>5. f[n] \in Nat /\ f[n - 1] \in Nat /\ l <= f[n - 1]
    BY <1>1, <2>2, <2>3
  <2>6. n \in many
    BY <2>3, <2>4, <2>5
  <2> QED
    BY <2>4, <2>5, <2>6 DEF n
<1> HIDE DEF D
<1>4. \A d \in Nat : d \in D
  BY <1>2, <1>3, NatSetInduction
<1>5. ASSUME NEW n \in a + 1..k PROVE n \in many
  <2>1. n - a \in Nat /\ n - a # 0 /\ a + (n - a) = n /\ n <= k
    OBVIOUS
  <2>2. n - a \in D
    BY <1>4, <2>1
  <2> QED
    BY <2>1, <2>2 DEF D
<1> QED
  BY <1>5

\* Percents may take nothing.
LEMMA PercentsTakeTheRest ==
  ASSUME NEW many, NEW hit, NEW k \in Nat, NEW P \in Nat, k <= P,
         NEW l \in Nat, Aligned(many, hit, k, l), \A n \in k + 1..P : n \in many
  PROVE  Aligned(many, hit, P, l)
<1>1. PICK f : f \in Alignments(many, hit, k, l)
  BY DEF Aligned
<1>2. /\ f \in [0..k -> Nat] /\ f[0] = 0 /\ f[k] = l
      /\ \A n \in 1..k : IF n \in many THEN f[n - 1] <= f[n]
                         ELSE f[n] = f[n - 1] + 1 /\ <<n, f[n]>> \in hit
  BY <1>1 DEF Alignments
<1> DEFINE g == [n \in 0..P |-> IF n <= k THEN f[n] ELSE l]
<1>3. g \in [0..P -> Nat] /\ g[0] = 0 /\ g[P] = l
  BY <1>2
<1>4. ASSUME NEW n \in 1..P
      PROVE  IF n \in many THEN g[n - 1] <= g[n]
             ELSE g[n] = g[n - 1] + 1 /\ <<n, g[n]>> \in hit
  <2>1. CASE n <= k
    <3>1. n \in 1..k /\ g[n] = f[n] /\ g[n - 1] = f[n - 1]
      BY <2>1
    <3> HIDE DEF g
    <3> QED
      BY <1>2, <3>1
  <2>2. CASE ~(n <= k)
    <3>1. n \in many /\ g[n] = l /\ g[n - 1] = l
      BY <1>2, <2>2
    <3> HIDE DEF g
    <3> QED
      BY <3>1
  <2> QED
    BY <2>1, <2>2
<1> HIDE DEF g
<1>5. g \in Alignments(many, hit, P, l)
  BY <1>3, <1>4 DEF Alignments
<1> QED
  BY <1>5 DEF Aligned

\* An alignment stays one when more characters are hit.
LEMMA MoreHits ==
  ASSUME NEW many, NEW hit, NEW more, NEW k \in Nat, NEW l \in Nat,
         Aligned(many, hit, k, l),
         \A n \in 1..k : \A h \in Nat : n \notin many /\ <<n, h>> \in hit => <<n, h>> \in more
  PROVE  Aligned(many, more, k, l)
<1>1. PICK f : f \in Alignments(many, hit, k, l)
  BY DEF Aligned
<1>2. f \in Alignments(many, more, k, l)
  BY <1>1 DEF Alignments
<1> QED
  BY <1>2 DEF Aligned

-----------------------------------------------------------------------------
(* 3. The inductive invariant of the loop.                                 *)

\* The percents and hits of this run's pattern and name.
Percents == Manys(pattern)
HitsHere == Hits(pattern, name)

\* Whatever the loop has passed is matched, and so is the pattern up to the
\* last percent with any longer part of the name.
PassedMatches ==
    /\ Aligned(Percents, HitsHere, i, j)
    /\ star # -1 => \A l \in mark..Len(name) : Aligned(Percents, HitsHere, star + 1, l)

\* Since the last percent, and from the start without one, the loop went
\* forward a character at a time.
SincePercent ==
    IF star = -1 THEN i = j /\ \A n \in 1..i : n \notin Percents
    ELSE i - (star + 1) = j - mark /\ \A n \in star + 2..i : n \notin Percents

\* No way to match the name needs the last percent to end before the mark.
MarkIsLeast ==
    star # -1 => \A f \in Alignments(Percents, HitsHere, Len(pattern), Len(name)) : mark <= f[star + 1]

\* The answer, once given, is whether there is an alignment; "no" can be wrong
\* only of a name with a percent sign, which the loop takes for a hit.
Decided ==
    /\ result = "yes" => Aligned(Percents, HitsHere, Len(pattern), Len(name))
    /\ result = "no" /\ ~HasPercent(name) => ~Aligned(Percents, HitsHere, Len(pattern), Len(name))

\* The inductive invariant.
LikeInv ==
    /\ IndicesInRange
    /\ PassedMatches
    /\ ~HasPercent(name) => SincePercent /\ MarkIsLeast
    /\ Decided

\* Patterns and names are sequences.
LEMMA Inputs ==
  ASSUME NEW p \in Patterns \cup Names
  PROVE  Len(p) \in Nat /\ DOMAIN p = 1..Len(p)
  BY InputsAssumption

\* The loop starts in the invariant; below, each step keeps it.
LEMMA LikeInitEstablishes ==
  LikeInit => LikeInv
<1> SUFFICES ASSUME LikeInit PROVE LikeInv
  OBVIOUS
<1>1. Len(pattern) \in Nat /\ Len(name) \in Nat
  BY Inputs DEF LikeInit
<1>2. IndicesInRange
  BY <1>1 DEF LikeInit, IndicesInRange
<1>3. Aligned(Percents, HitsHere, 0, 0)
  BY AlignedStart
<1> QED
  BY <1>2, <1>3 DEF LikeInit, LikeInv, PassedMatches, SincePercent, MarkIsLeast, Decided

\* The character at i, when it is no percent, is a hit exactly if the code
\* takes it to match.
LEMMA HitsAreMatches ==
  ASSUME IndicesInRange, j < Len(name), i < Len(pattern)
  PROVE  /\ Len(pattern) \in Nat /\ Len(name) \in Nat
         /\ i + 1 \in Percents <=> pattern[i + 1] = "%"
         /\ MatchesHere <=> <<i + 1, j + 1>> \in HitsHere
         /\ (MatchesHere /\ i + 1 \in Percents) => HasPercent(name)
<1>1. /\ Len(pattern) \in Nat /\ Len(name) \in Nat
      /\ DOMAIN name = 1..Len(name)
  BY Inputs DEF IndicesInRange
<1>2. i + 1 \in 1..Len(pattern) /\ j + 1 \in 1..Len(name)
  BY <1>1 DEF IndicesInRange
<1>3. i + 1 \in Percents <=> pattern[i + 1] = "%"
  BY <1>2 DEF Percents, Manys
<1>4. <<i + 1, j + 1>> \in (1..Len(pattern)) \X (1..Len(name))
  BY <1>2
<1>5. MatchesHere <=> <<i + 1, j + 1>> \in HitsHere
  BY <1>4 DEF HitsHere, Hits, MatchesHere
<1>6. ASSUME MatchesHere, i + 1 \in Percents PROVE HasPercent(name)
  <2>1. equalFold("%", name[j + 1])
    BY <1>3, <1>6 DEF MatchesHere
  <2>2. name[j + 1] = "%"
    BY <2>1, AlphabetsAssumption DEF equalFold
  <2> QED
    BY <1>1, <1>2, <2>2 DEF HasPercent
<1> QED
  BY <1>1, <1>3, <1>5, <1>6

\* An alignment of the whole cannot pass a place where the code finds no
\* match and no percent.
LEMMA MismatchBlocks ==
  ASSUME IndicesInRange, j < Len(name), ~MatchesHere, ~PercentHere,
         NEW f \in Alignments(Percents, HitsHere, Len(pattern), Len(name))
  PROVE  f[i] # j
<1>1. Len(pattern) \in Nat /\ Len(name) \in Nat /\ i \in 0..Len(pattern)
  BY Inputs DEF IndicesInRange
<1>2. CASE i = Len(pattern)
  BY <1>2 DEF Alignments, IndicesInRange
<1>3. CASE i < Len(pattern)
  <2>1. i + 1 \notin Percents /\ <<i + 1, j + 1>> \notin HitsHere
    BY <1>3, HitsAreMatches DEF PercentHere
  <2>2. i + 1 \in 1..Len(pattern) /\ (i + 1) - 1 = i
    BY <1>1, <1>3
  <2>3. f[i + 1] = f[i] + 1 /\ <<i + 1, f[i + 1]>> \in HitsHere
    BY <2>1, <2>2 DEF Alignments
  <2> QED
    BY <2>1, <2>3
<1> QED
  BY <1>1, <1>2, <1>3

\* Where an alignment of the whole is when the loop is at i.
LEMMA AlignmentAtPlace ==
  ASSUME IndicesInRange, SincePercent, MarkIsLeast,
         NEW f \in Alignments(Percents, HitsHere, Len(pattern), Len(name))
  PROVE  /\ f \in [0..Len(pattern) -> Nat]
         /\ star = -1 => f[i] = j
         /\ star # -1 => f[i] - f[star + 1] = j - mark /\ mark <= f[star + 1]
<1>1. /\ Len(pattern) \in Nat /\ Len(name) \in Nat
      /\ i \in 0..Len(pattern) /\ star \in -1..(i - 1) /\ j \in Nat /\ mark \in Nat
  BY Inputs DEF IndicesInRange
<1>2. f \in [0..Len(pattern) -> Nat] /\ f[0] = 0
  BY DEF Alignments
<1>u. ASSUME NEW a \in 0..Len(pattern), NEW b \in a..Len(pattern),
             \A n \in a + 1..b : n \notin Percents
      PROVE  f[b] = f[a] + (b - a)
  BY <1>1, <1>u, Unforced
<1>3. ASSUME star = -1 PROVE f[i] = j
  <2>1. /\ 0 \in 0..Len(pattern) /\ i \in 0..Len(pattern) /\ i = j
        /\ \A n \in 0 + 1..i : n \notin Percents
    BY <1>1, <1>3 DEF SincePercent
  <2>2. f[i] = f[0] + (i - 0)
    BY <1>1, <2>1, <1>u
  <2> QED
    BY <1>1, <1>2, <2>1, <2>2
<1>4. ASSUME star # -1 PROVE f[i] - f[star + 1] = j - mark
  <2>1. /\ star + 1 \in 0..Len(pattern) /\ i \in star + 1..Len(pattern)
        /\ i - (star + 1) = j - mark
        /\ \A n \in (star + 1) + 1..i : n \notin Percents
    BY <1>1, <1>4 DEF SincePercent
  <2>2. f[i] = f[star + 1] + (i - (star + 1))
    BY <1>1, <2>1, <1>u
  <2>3. f[star + 1] \in Nat
    BY <1>2, <2>1
  <2> QED
    BY <1>1, <2>1, <2>2, <2>3
<1> QED
  BY <1>2, <1>3, <1>4 DEF MarkIsLeast

LEMMA AdvanceKeeps ==
  LikeInv /\ Advance => LikeInv'
<1> SUFFICES ASSUME LikeInv, Advance PROVE LikeInv'
  OBVIOUS
<1> USE DEF InName
<1>1. /\ Len(pattern) \in Nat /\ Len(name) \in Nat
      /\ result = "none" /\ j < Len(name) /\ i < Len(pattern)
      /\ MatchesHere /\ IndicesInRange
  BY Inputs DEF LikeInv, IndicesInRange, Advance, MatchesHere
<1>2. /\ i' = i + 1 /\ j' = j + 1 /\ star' = star /\ mark' = mark /\ result' = result
      /\ pattern' = pattern /\ name' = name /\ Percents' = Percents /\ HitsHere' = HitsHere
  BY DEF Advance, input, Percents, HitsHere
<1>3. IndicesInRange'
  BY <1>1, <1>2 DEF IndicesInRange
<1>4. PassedMatches'
  <2>1. Aligned(Percents, HitsHere, i, j) /\ i \in Nat /\ j \in Nat /\ <<i + 1, j + 1>> \in HitsHere
    BY <1>1, HitsAreMatches DEF LikeInv, PassedMatches, IndicesInRange
  <2>2. Aligned(Percents, HitsHere, i + 1, j + 1)
    BY <2>1, ExtendAlignment DEF Aligned
  <2> QED
    BY <1>2, <2>2 DEF LikeInv, PassedMatches
<1>5. ASSUME ~HasPercent(name)' PROVE SincePercent' /\ MarkIsLeast'
  <2>1. ~HasPercent(name)
    BY <1>2, <1>5
  <2>2. i + 1 \notin Percents
    BY <1>1, <2>1, HitsAreMatches
  <2>3. SincePercent /\ MarkIsLeast
    BY <2>1 DEF LikeInv
  <2>4. i \in Int /\ j \in Int /\ star \in Int /\ mark \in Int /\ star < i
    BY <1>1 DEF IndicesInRange
  <2>5. SincePercent'
    BY <1>2, <2>2, <2>3, <2>4 DEF SincePercent
  <2> QED
    BY <1>2, <2>3, <2>5 DEF MarkIsLeast
<1>6. Decided'
  BY <1>1, <1>2 DEF Decided
<1> QED
  BY <1>3, <1>4, <1>5, <1>6 DEF LikeInv

LEMMA NotePercentKeeps ==
  LikeInv /\ NotePercent => LikeInv'
<1> SUFFICES ASSUME LikeInv, NotePercent PROVE LikeInv'
  OBVIOUS
<1> USE DEF InName
<1>1. /\ Len(pattern) \in Nat /\ Len(name) \in Nat
      /\ result = "none" /\ j < Len(name) /\ i < Len(pattern)
      /\ pattern[i + 1] = "%" /\ IndicesInRange
      /\ i \in Nat /\ j \in Nat
  BY Inputs DEF LikeInv, IndicesInRange, NotePercent, PercentHere
<1>2. /\ i' = i + 1 /\ j' = j /\ star' = i /\ mark' = j /\ result' = result
      /\ pattern' = pattern /\ name' = name /\ Percents' = Percents /\ HitsHere' = HitsHere
  BY DEF NotePercent, input, Percents, HitsHere
<1>3. IndicesInRange'
  BY <1>1, <1>2 DEF IndicesInRange
<1>4. PassedMatches'
  <2>1. Aligned(Percents, HitsHere, i, j) /\ i + 1 \in Percents
    BY <1>1, HitsAreMatches DEF LikeInv, PassedMatches
  <2>2. ASSUME NEW l \in j..Len(name) PROVE Aligned(Percents, HitsHere, i + 1, l)
    <3>1. l \in Nat /\ j <= l
      BY <1>1
    <3> QED
      BY <1>1, <2>1, <3>1, ExtendAlignment DEF Aligned
  <2>3. j \in j..Len(name)
    BY <1>1
  <2> QED
    BY <1>2, <2>2, <2>3 DEF PassedMatches
<1>5. ASSUME ~HasPercent(name)' PROVE SincePercent' /\ MarkIsLeast'
  <2>1. ~HasPercent(name)
    BY <1>2, <1>5
  <2>2. SincePercent'
    BY <1>1, <1>2 DEF SincePercent
  <2>3. ASSUME NEW f \in Alignments(Percents, HitsHere, Len(pattern), Len(name)) PROVE j <= f[i + 1]
    <3>1. /\ f \in [0..Len(pattern) -> Nat]
          /\ star = -1 => f[i] = j
          /\ star # -1 => f[i] - f[star + 1] = j - mark /\ mark <= f[star + 1]
      BY <1>1, <2>1, AlignmentAtPlace DEF LikeInv
    <3>2. i + 1 \in Percents /\ i + 1 \in 1..Len(pattern) /\ (i + 1) - 1 = i
      BY <1>1, HitsAreMatches
    <3>3. f[i] <= f[i + 1]
      BY <3>2 DEF Alignments
    <3>4. star # -1 => star + 1 \in 0..Len(pattern)
      BY <1>1 DEF IndicesInRange
    <3>5. /\ f[i] \in Nat /\ f[i + 1] \in Nat /\ (star # -1 => f[star + 1] \in Nat)
          /\ mark \in Int
      BY <1>1, <3>1, <3>2, <3>4, SMTT(40) DEF IndicesInRange
    <3>6. j <= f[i]
      <4>1. CASE star = -1
        BY <1>1, <3>1, <3>5, <4>1
      <4>2. CASE star # -1
        BY <1>1, <3>1, <3>5, <4>2
      <4> QED
        BY <4>1, <4>2
    <3> QED
      BY <1>1, <3>3, <3>5, <3>6
  <2> QED
    BY <1>2, <2>2, <2>3 DEF MarkIsLeast
<1>6. Decided'
  BY <1>1, <1>2 DEF Decided
<1> QED
  BY <1>3, <1>4, <1>5, <1>6 DEF LikeInv

LEMMA RetryKeeps ==
  LikeInv /\ Retry => LikeInv'
<1> SUFFICES ASSUME LikeInv, Retry PROVE LikeInv'
  OBVIOUS
<1> USE DEF InName
<1>1. /\ Len(pattern) \in Nat /\ Len(name) \in Nat
      /\ result = "none" /\ j < Len(name) /\ star # -1
      /\ ~MatchesHere /\ ~PercentHere /\ IndicesInRange
      /\ i \in Nat /\ j \in Nat /\ mark \in 0..j /\ star \in 0..(i - 1)
      /\ i <= Len(pattern)
  BY Inputs DEF LikeInv, IndicesInRange, Retry
<1>2. /\ i' = star + 1 /\ j' = mark + 1 /\ star' = star /\ mark' = mark + 1
      /\ result' = result
      /\ pattern' = pattern /\ name' = name /\ Percents' = Percents /\ HitsHere' = HitsHere
  BY DEF Retry, input, Percents, HitsHere
<1>3. IndicesInRange'
  BY <1>1, <1>2 DEF IndicesInRange
<1>4. PassedMatches'
  <2>1. \A l \in mark..Len(name) : Aligned(Percents, HitsHere, star + 1, l)
    BY <1>1 DEF LikeInv, PassedMatches
  <2>2. mark + 1 \in mark..Len(name)
    BY <1>1
  <2>3. \A l \in mark + 1..Len(name) : Aligned(Percents, HitsHere, star + 1, l)
    BY <1>1, <2>1
  <2> QED
    BY <1>2, <2>1, <2>2, <2>3 DEF PassedMatches
<1>5. ASSUME ~HasPercent(name)' PROVE SincePercent' /\ MarkIsLeast'
  <2>1. SincePercent /\ MarkIsLeast
    BY <1>2, <1>5 DEF LikeInv
  <2>2. SincePercent'
    BY <1>1, <1>2 DEF SincePercent
  <2>3. ASSUME NEW f \in Alignments(Percents, HitsHere, Len(pattern), Len(name))
        PROVE  mark + 1 <= f[star + 1]
    <3>1. /\ f \in [0..Len(pattern) -> Nat]
          /\ f[i] - f[star + 1] = j - mark /\ mark <= f[star + 1]
      BY <1>1, <2>1, AlignmentAtPlace
    <3>2. f[i] # j
      BY <1>1, MismatchBlocks
    <3>3. f[i] \in Nat /\ f[star + 1] \in Nat
      BY <1>1, <3>1
    <3> QED
      BY <1>1, <3>1, <3>2, <3>3
  <2> QED
    BY <1>2, <2>2, <2>3 DEF MarkIsLeast
<1>6. Decided'
  BY <1>1, <1>2 DEF Decided
<1> QED
  BY <1>3, <1>4, <1>5, <1>6 DEF LikeInv

LEMMA GiveUpKeeps ==
  LikeInv /\ GiveUp => LikeInv'
<1> SUFFICES ASSUME LikeInv, GiveUp PROVE LikeInv'
  OBVIOUS
<1> USE DEF InName
<1>1. /\ j < Len(name) /\ star = -1 /\ ~MatchesHere /\ ~PercentHere /\ IndicesInRange
  BY DEF LikeInv, GiveUp
<1>2. /\ result' = "no" /\ i' = i /\ j' = j /\ star' = star /\ mark' = mark
      /\ pattern' = pattern /\ name' = name /\ Percents' = Percents /\ HitsHere' = HitsHere
  BY DEF GiveUp, input, Percents, HitsHere
<1>3. IndicesInRange'
  BY <1>1, <1>2 DEF IndicesInRange
<1>4. ASSUME ~HasPercent(name) PROVE ~Aligned(Percents, HitsHere, Len(pattern), Len(name))
  <2>1. SUFFICES ASSUME NEW f \in Alignments(Percents, HitsHere, Len(pattern), Len(name))
                 PROVE  FALSE
    BY DEF Aligned
  <2>2. f[i] = j
    BY <1>1, <1>4, AlignmentAtPlace DEF LikeInv
  <2> QED
    BY <1>1, <2>2, MismatchBlocks
<1>5. Decided'
  BY <1>2, <1>4 DEF Decided
<1>6. PassedMatches' /\ (~HasPercent(name)' => SincePercent' /\ MarkIsLeast')
  BY <1>2 DEF LikeInv, PassedMatches, SincePercent, MarkIsLeast
<1> QED
  BY <1>3, <1>5, <1>6 DEF LikeInv

LEMMA EndKeeps ==
  LikeInv /\ End => LikeInv'
<1> SUFFICES ASSUME LikeInv, End PROVE LikeInv'
  OBVIOUS
<1>1. /\ Len(pattern) \in Nat /\ Len(name) \in Nat
      /\ IndicesInRange /\ i \in 0..Len(pattern) /\ j = Len(name)
      /\ mark \in 0..j /\ star \in -1..(i - 1)
  BY Inputs DEF LikeInv, IndicesInRange, End
<1>2. /\ result' = IF OnlyPercentsFrom(i) THEN "yes" ELSE "no"
      /\ i' = i /\ j' = j /\ star' = star /\ mark' = mark
      /\ pattern' = pattern /\ name' = name /\ Percents' = Percents /\ HitsHere' = HitsHere
  BY DEF End, input, Percents, HitsHere
<1>3. OnlyPercentsFrom(i) <=> \A n \in i + 1..Len(pattern) : n \in Percents
  BY <1>1 DEF OnlyPercentsFrom, Percents, Manys
<1>4. ASSUME OnlyPercentsFrom(i) PROVE Aligned(Percents, HitsHere, Len(pattern), Len(name))
  <2>1. Aligned(Percents, HitsHere, i, Len(name)) /\ i \in Nat /\ i <= Len(pattern)
    BY <1>1 DEF LikeInv, PassedMatches
  <2> QED
    BY <1>1, <1>3, <1>4, <2>1, PercentsTakeTheRest
<1>5. ASSUME ~OnlyPercentsFrom(i), ~HasPercent(name)
      PROVE  ~Aligned(Percents, HitsHere, Len(pattern), Len(name))
  <2>1. SUFFICES ASSUME NEW f \in Alignments(Percents, HitsHere, Len(pattern), Len(name))
                 PROVE  FALSE
    BY DEF Aligned
  <2>2. /\ f \in [0..Len(pattern) -> Nat]
        /\ star = -1 => f[i] = j
        /\ star # -1 => f[i] - f[star + 1] = j - mark /\ mark <= f[star + 1]
    BY <1>1, <1>5, AlignmentAtPlace DEF LikeInv
  <2>3. f[i] \in Nat /\ (star # -1 => f[star + 1] \in Nat)
    BY <1>1, <2>2
  <2>4. Len(name) <= f[i]
    BY <1>1, <2>2, <2>3
  <2>5. ASSUME NEW n \in Nat, NEW h \in Nat, <<n, h>> \in HitsHere PROVE h <= Len(name)
    <3>1. <<n, h>> \in (1..Len(pattern)) \X (1..Len(name))
      BY <2>5 DEF HitsHere, Hits
    <3> QED
      BY <1>1, <3>1
  <2>6. \A n \in i + 1..Len(pattern) : n \in Percents
    BY <1>1, <2>4, <2>5, NothingLeft
  <2> QED
    BY <1>3, <1>5, <2>6
<1>6. IndicesInRange' /\ PassedMatches' /\ (~HasPercent(name)' => SincePercent' /\ MarkIsLeast')
  BY <1>1, <1>2 DEF LikeInv, IndicesInRange, PassedMatches, SincePercent, MarkIsLeast
<1>7. Decided'
  BY <1>2, <1>4, <1>5 DEF Decided
<1> QED
  BY <1>6, <1>7 DEF LikeInv

\* So does a step that changes nothing.
LEMMA LikeStutterKeeps ==
  LikeInv /\ UNCHANGED likeVars => LikeInv'
  BY DEF LikeInv, IndicesInRange, PassedMatches, SincePercent, MarkIsLeast, Decided, likeVars, input, Percents, HitsHere

\* The invariant holds throughout.
LEMMA InvHolds ==
  LikeSpec => []LikeInv
<1>1. LikeInv /\ [LikeNext]_likeVars => LikeInv'
  BY AdvanceKeeps, NotePercentKeeps, RetryKeeps, GiveUpKeeps, EndKeeps, LikeStutterKeeps DEF LikeNext
<1> QED
  BY LikeInitEstablishes, <1>1, PTL DEF LikeSpec

-----------------------------------------------------------------------------
(* The theorems.                                                           *)

\* The indices of likeMatch stay in their strings, and a retry never goes
\* back before the place that the last percent marked.
THEOREM IndicesStay == LikeSpec => []IndicesInRange
<1>1. LikeInv => IndicesInRange
  BY DEF LikeInv
<1> QED
  BY <1>1, InvHolds, PTL

\* likeMatch decides SQL LIKE, for any pattern, and any name without a
\* percent sign.
THEOREM LoopDecidesLike == LikeSpec => []DecidesLike
<1>1. LikeInv => DecidesLike
  <2> SUFFICES ASSUME LikeInv, result # "none", ~HasPercent(name)
               PROVE  result = "yes" <=> SqlLike(pattern, name)
    BY DEF DecidesLike
  <2>1. Len(pattern) \in Nat /\ Len(name) \in Nat /\ result \in {"none", "yes", "no"}
    BY Inputs DEF LikeInv, IndicesInRange
  <2>2. SqlLike(pattern, name) <=> Aligned(Percents, HitsHere, Len(pattern), Len(name))
    BY <2>1, SqlLikeIsAlignment DEF Percents, HitsHere
  <2> QED
    BY <2>1, <2>2 DEF LikeInv, Decided
<1> QED
  BY <1>1, InvHolds, PTL

\* Each iteration moves the mark forward, or leaves it and moves on in the
\* pattern: with the ranges of both, the loop is bounded by them
\* (objects.go:374-390).
LoopProgresses ==
    result' = "none" => mark' > mark \/ (mark' = mark /\ i' > i)

\* likeMatch's loop progresses so in every iteration, for any pattern and
\* name.
THEOREM LoopIsBounded == LikeSpec => [][LoopProgresses]_likeVars
<1>1. LikeInv /\ [LikeNext]_likeVars => [LoopProgresses]_likeVars
  <2> SUFFICES ASSUME LikeInv, LikeNext, result' = "none"
               PROVE  mark' > mark \/ (mark' = mark /\ i' > i)
    BY DEF LoopProgresses
  <2>1. i \in Int /\ j \in Int /\ mark \in 0..j
    BY DEF LikeInv, IndicesInRange
  <2>2. CASE Advance
    BY <2>1, <2>2 DEF Advance
  <2>3. CASE NotePercent
    BY <2>1, <2>3 DEF NotePercent
  <2>4. CASE Retry
    BY <2>1, <2>4 DEF Retry
  <2>5. CASE GiveUp \/ End
    BY <2>5 DEF GiveUp, End
  <2> QED
    BY <2>2, <2>3, <2>4, <2>5 DEF LikeNext
<1> QED
  BY <1>1, InvHolds, PTL DEF LikeSpec

-----------------------------------------------------------------------------
(* 4. The clause sent to Spark.                                            *)

\* The places of the clause as Spark's matching takes them.
Stars(p) == {n \in 1..Len(p) : p[n] = "*"}
SparkHits(p, s) == {x \in (1..Len(p)) \X (1..Len(s)) :
                       p[x[1]] = "." \/ equalAscii(p[x[1]], s[x[2]])}

\* Spark's matching of one alternative is whether there is an alignment.
LEMMA SparkMatchIsAlignment ==
  ASSUME NEW p, NEW s, Len(p) \in Nat, Len(s) \in Nat
  PROVE  Matches(p, s, "*", ".", equalAscii) <=> Aligned(Stars(p), SparkHits(p, s), Len(p), Len(s))
<1> DEFINE P == Len(p)
           S == Len(s)
           Body(m, k, l) == IF k = 0 THEN l = 0
              ELSE IF p[k] = "*" THEN m[<<k - 1, l>>] \/ (l > 0 /\ m[<<k, l - 1>>])
              ELSE /\ l > 0
                   /\ p[k] = "." \/ equalAscii(p[k], s[l])
                   /\ m[<<k - 1, l - 1>>]
           Table(m) == [x \in (0..P) \X (0..S) |-> Body(m, x[1], x[2])]
           Ruled(m) == RuleTable(m, Stars(p), SparkHits(p, s), P, S)
<1>1. ASSUME NEW m PROVE Table(m) = Ruled(m)
  <2>1. ASSUME NEW k \in 0..P, NEW l \in 0..S
        PROVE  Body(m, k, l) = Rule(m, Stars(p), SparkHits(p, s), k, l)
    <3>1. k # 0 => (k \in Stars(p) <=> p[k] = "*")
      BY DEF Stars
    <3>2. k # 0 /\ l > 0 =>
            (<<k, l>> \in SparkHits(p, s) <=> p[k] = "." \/ equalAscii(p[k], s[l]))
      <4>1. k # 0 /\ l > 0 => <<k, l>> \in (1..P) \X (1..S)
        OBVIOUS
      <4> QED
        BY <4>1 DEF SparkHits
    <3> QED
      BY <3>1, <3>2 DEF Rule
  <2> HIDE DEF Body
  <2> QED
    BY <2>1 DEF RuleTable
<1> DEFINE F == CHOOSE m : m = Table(m)
<1>2. Matches(p, s, "*", ".", equalAscii) = F[<<P, S>>]
  BY Zenon DEF Matches
<1> HIDE DEF Table, Ruled
<1>3. F = Table(F)
  <2>1. \E m : m = Ruled(m)
    BY RuleHasSolution, Zenon DEF Ruled
  <2> QED
    BY <1>1, <2>1
<1> HIDE DEF F
<1>4. F = Ruled(F)
  BY <1>1, <1>3
<1>5. \A k \in 0..P, l \in 0..S : F[<<k, l>>] <=> Aligned(Stars(p), SparkHits(p, s), k, l)
  BY <1>4, RuleDetermines DEF Ruled
<1> QED
  BY <1>2, <1>5

\* A pattern that gets a clause gets one without a '|', which has a star where
\* the pattern has a percent, and a hit wherever the pattern has one.
LEMMA ClauseShape ==
  ASSUME NEW p \in Patterns, NEW s \in Names, likeClause(p) # NoClause,
         \A n \in DOMAIN s : s[n] \in Ascii
  PROVE  LET c == likeClause(p) IN
         /\ Len(p) \in Nat /\ Len(s) \in Nat
         /\ Len(c) = Len(p) /\ Len(c) \in Nat \ {0} /\ SubSeq(c, 1, Len(c)) = c
         /\ \A n \in 1..Len(c) : c[n] # "|"
         /\ Stars(c) = Manys(p)
         /\ \A n \in 1..Len(p) : \A h \in Nat :
               n \notin Manys(p) /\ <<n, h>> \in Hits(p, s) => <<n, h>> \in SparkHits(c, s)
<1> DEFINE c == likeClause(p)
           d == [n \in 1..Len(p) |->
                    CASE p[n] = "%" -> "*" [] p[n] = "_" -> "." [] OTHER -> p[n]]
<1>1. /\ Len(p) \in Nat /\ DOMAIN p = 1..Len(p)
      /\ Len(s) \in Nat /\ DOMAIN s = 1..Len(s)
  BY Inputs
<1>2. \A n \in 1..Len(p) : p[n] \in AlphaNum \cup {"%", "_"}
  BY <1>1 DEF likeClause
<1>3. c = d
  BY <1>1, <1>2 DEF likeClause
<1> HIDE DEF c
<1>4. ASSUME NEW n \in 1..Len(p)
      PROVE  /\ p[n] = "%" => d[n] = "*"
             /\ p[n] = "_" => d[n] = "."
             /\ p[n] \notin {"%", "_"} => d[n] = p[n] /\ p[n] \in AlphaNum
  BY <1>2
<1>5. d \in Seq(AlphaNum \cup {"*", "."}) /\ Len(d) = Len(p)
  <2>1. \A n \in 1..Len(p) : d[n] \in AlphaNum \cup {"*", "."}
    <3> HIDE DEF d
    <3> QED
      BY <1>4
  <2>2. DOMAIN d = 1..Len(p) /\ d = [n \in 1..Len(p) |-> d[n]]
    OBVIOUS
  <2> HIDE DEF d
  <2>3. d \in [1..Len(p) -> AlphaNum \cup {"*", "."}]
    BY <2>1, <2>2
  <2> QED
    BY <1>1, <2>3
<1>6. Len(p) # 0
  BY <1>1, InputsAssumption
<1>7. SubSeq(d, 1, Len(d)) = d
  <2> HIDE DEF d
  <2> QED
    BY <1>5
<1> HIDE DEF d
<1>8. \A n \in 1..Len(d) : d[n] # "|"
  BY <1>4, <1>5, AlphabetsAssumption
<1>9. Stars(d) = Manys(p)
  <2>1. \A n \in 1..Len(p) : d[n] = "*" <=> p[n] = "%"
    BY <1>4, AlphabetsAssumption
  <2> QED
    BY <1>5, <2>1 DEF Stars, Manys
<1>10. ASSUME NEW n \in 1..Len(p), NEW h \in Nat, n \notin Manys(p), <<n, h>> \in Hits(p, s)
       PROVE  <<n, h>> \in SparkHits(d, s)
  <2>1. /\ <<n, h>> \in (1..Len(p)) \X (1..Len(s))
        /\ p[n] = "_" \/ equalFold(p[n], s[h])
    BY <1>10 DEF Hits
  <2>2. p[n] # "%"
    BY <1>10 DEF Manys
  <2>3. d[n] = "." \/ equalAscii(d[n], s[h])
    <3>1. CASE p[n] = "_"
      BY <1>4, <3>1
    <3>2. CASE p[n] # "_"
      <4>1. d[n] = p[n] /\ p[n] \in AlphaNum /\ s[h] \in Ascii /\ equalFold(p[n], s[h])
        BY <1>1, <1>4, <2>1, <2>2, <3>2
      <4>2. p[n] \in Ascii
        BY <4>1, AlphabetsAssumption
      <4>3. ASSUME p[n] # s[h] PROVE equalAscii(p[n], s[h])
        <5>1. PICK o \in FoldOrbits : p[n] \in o /\ s[h] \in o
          BY <4>1, <4>3 DEF equalFold
        <5>2. p[n] \in o \cap Ascii /\ s[h] \in o \cap Ascii
          BY <4>1, <4>2, <5>1
        <5>3. \A a, b \in o \cap Ascii : a = b \/ \E q \in AsciiOrbits : {a, b} \subseteq q
          BY AlphabetsAssumption
        <5> QED
          BY <4>3, <5>2, <5>3, Zenon DEF equalAscii
      <4>4. equalAscii(p[n], s[h])
        BY <4>3 DEF equalAscii
      <4> QED
        BY <4>1, <4>4
    <3> QED
      BY <3>1, <3>2
  <2> QED
    BY <1>5, <2>1, <2>3 DEF SparkHits
<1> QED
  BY <1>1, <1>3, <1>5, <1>6, <1>7, <1>8, <1>9, <1>10 DEF c

\* "the clause only narrows the listing": whatever ASCII name the client would
\* keep, Spark's own matching lets through.
THEOREM ClauseNeverDrops == LikeSpec => []ClauseOnlyNarrows
<1>1. LikeInv => ClauseOnlyNarrows
  <2> DEFINE c == likeClause(pattern)
  <2> SUFFICES ASSUME LikeInv, result = "yes", c # NoClause,
                      \A n \in DOMAIN name : name[n] \in Ascii
               PROVE  SparkLike(c, name)
    BY DEF ClauseOnlyNarrows
  <2>1. pattern \in Patterns /\ name \in Names
    BY DEF LikeInv, IndicesInRange
  <2>2. /\ Len(pattern) \in Nat /\ Len(name) \in Nat
        /\ Len(c) = Len(pattern) /\ Len(c) \in Nat \ {0} /\ SubSeq(c, 1, Len(c)) = c
        /\ \A n \in 1..Len(c) : c[n] # "|"
        /\ Stars(c) = Percents
        /\ \A n \in 1..Len(pattern) : \A h \in Nat :
              n \notin Percents /\ <<n, h>> \in HitsHere => <<n, h>> \in SparkHits(c, name)
    BY <2>1, ClauseShape DEF Percents, HitsHere
  <2> HIDE DEF c
  <2>3. Aligned(Percents, HitsHere, Len(pattern), Len(name))
    BY DEF LikeInv, Decided
  <2>4. Aligned(Stars(c), SparkHits(c, name), Len(c), Len(name))
    BY <2>2, <2>3, MoreHits
  <2>5. Matches(SubSeq(c, 1, Len(c)), name, "*", ".", equalAscii)
    BY <2>2, <2>4, SparkMatchIsAlignment
  <2>6. Alternative(c, 1, Len(c))
    BY <2>2 DEF Alternative
  <2>7. 1 \in 1..Len(c) + 1 /\ Len(c) \in 0..Len(c)
    BY <2>2
  <2> QED
    BY <2>5, <2>6, <2>7 DEF SparkLike
<1> QED
  BY <1>1, InvHolds, PTL

-----------------------------------------------------------------------------
(* 5. Folds as traces.                                                     *)

\* Max and Min of sets of numbers.
LEMMA MaxOf ==
  ASSUME NEW n \in Nat, NEW u \in SUBSET (1..n), u # {}
  PROVE  /\ Max(u) \in u /\ Max(u) \in 1..n /\ \A y \in u : y <= Max(u)
         /\ u \ {Max(u)} \in SUBSET (1..n)
<1> DEFINE D == {m \in Nat : \A w \in SUBSET (1..m) : w # {} => \E x \in w : \A y \in w : x >= y}
<1>1. 0 \in D
  <2>1. 1..0 = {}
    OBVIOUS
  <2> QED
    BY <2>1
<1>2. ASSUME NEW m \in Nat, m \in D PROVE m + 1 \in D
  <2>1. SUFFICES ASSUME NEW w \in SUBSET (1..m + 1), w # {}
                 PROVE  \E x \in w : \A y \in w : x >= y
    OBVIOUS
  <2>2. CASE m + 1 \in w
    BY <2>2
  <2>3. CASE m + 1 \notin w
    <3>1. w \in SUBSET (1..m)
      BY <2>3
    <3> QED
      BY <1>2, <2>1, <3>1
  <2> QED
    BY <2>2, <2>3
<1> HIDE DEF D
<1>3. n \in D
  BY <1>1, <1>2, NatSetInduction
<1>4. \E x \in u : \A y \in u : x >= y
  BY <1>3 DEF D
<1>5. Max(u) \in u /\ \A y \in u : Max(u) >= y
  BY <1>4 DEF Max
<1> QED
  BY <1>5

\* The table of a fold over 1..n whose k-th step is step[k].
Tabled(g, m, step, b) ==
    \A u \in SUBSET (1..m) : g[u] = IF u = {} THEN b ELSE step[Max(u)][g[u \ {Max(u)}]]

\* FoldLeft is MapThenFoldSet over the indices, a recursion over sets of them;
\* the table is a solution of it.
HasTable(n, A, step, b) == \E g \in [SUBSET (1..n) -> A] : Tabled(g, n, step, b)

\* There is a table for every n: by induction, a step at a time.
LEMMA StepTableExists ==
  ASSUME NEW n \in Nat, NEW A, NEW b \in A, NEW step \in [1..n -> [A -> A]]
  PROVE  HasTable(n, A, step, b)
<1> DEFINE D == {m \in Nat : m <= n => HasTable(m, A, step, b)}
<1>1. 0 \in D
  <2> DEFINE g == [u \in SUBSET (1..0) |-> b]
  <2>1. g \in [SUBSET (1..0) -> A]
    OBVIOUS
  <2>2. \A u \in SUBSET (1..0) : u = {} /\ g[u] = b
    <3>1. 1..0 = {}
      OBVIOUS
    <3> QED
      BY <3>1
  <2> HIDE DEF g
  <2>3. Tabled(g, 0, step, b)
    BY <2>2 DEF Tabled
  <2> QED
    BY <2>1, <2>3 DEF HasTable
<1>2. ASSUME NEW m \in Nat, m \in D PROVE m + 1 \in D
  <2>1. SUFFICES ASSUME m + 1 <= n
                 PROVE  HasTable(m + 1, A, step, b)
    OBVIOUS
  <2>2. PICK h \in [SUBSET (1..m) -> A] : Tabled(h, m, step, b)
    <3>1. HasTable(m, A, step, b)
      BY <1>2, <2>1
    <3> QED
      BY <3>1 DEF HasTable
  <2> DEFINE g == [u \in SUBSET (1..m + 1) |->
                      IF m + 1 \in u THEN step[m + 1][h[u \ {m + 1}]] ELSE h[u]]
  <2>3. ASSUME NEW u \in SUBSET (1..m + 1)
        PROVE  /\ m + 1 \in u => u \ {m + 1} \in SUBSET (1..m)
               /\ m + 1 \notin u => u \in SUBSET (1..m)
    OBVIOUS
  <2>4. step[m + 1] \in [A -> A]
    BY <2>1
  <2>5. ASSUME NEW u \in SUBSET (1..m + 1)
        PROVE  (IF m + 1 \in u THEN step[m + 1][h[u \ {m + 1}]] ELSE h[u]) \in A
    BY <2>2, <2>3, <2>4
  <2>6. g \in [SUBSET (1..m + 1) -> A]
    BY <2>5
  <2>7. \A u \in SUBSET (1..m) : g[u] = h[u]
    <3>1. \A u \in SUBSET (1..m) : u \in SUBSET (1..m + 1) /\ m + 1 \notin u
      OBVIOUS
    <3> QED
      BY <3>1
  <2>8. \A u \in SUBSET (1..m + 1) : m + 1 \in u => g[u] = step[m + 1][h[u \ {m + 1}]]
    OBVIOUS
  <2> HIDE DEF g
  <2>9. ASSUME NEW u \in SUBSET (1..m + 1)
        PROVE  g[u] = IF u = {} THEN b ELSE step[Max(u)][g[u \ {Max(u)}]]
    <3>1. CASE m + 1 \in u
      <4>1. u # {} /\ Max(u) \in u /\ Max(u) \in 1..m + 1 /\ m + 1 <= Max(u)
        BY <3>1, MaxOf
      <4>2. Max(u) = m + 1
        BY <4>1
      <4>3. u \ {m + 1} \in SUBSET (1..m)
        BY <2>3, <3>1
      <4>4. g[u] = step[m + 1][h[u \ {m + 1}]] /\ g[u \ {m + 1}] = h[u \ {m + 1}]
        BY <2>7, <2>8, <3>1, <4>3
      <4> QED
        BY <4>1, <4>2, <4>4
    <3>2. CASE m + 1 \notin u
      <4>1. u \in SUBSET (1..m)
        BY <2>3, <3>2
      <4>2. g[u] = h[u] /\ h[u] = IF u = {} THEN b ELSE step[Max(u)][h[u \ {Max(u)}]]
        BY <2>2, <2>7, <4>1 DEF Tabled
      <4>3. u # {} => g[u \ {Max(u)}] = h[u \ {Max(u)}]
        BY <2>7, <4>1, MaxOf
      <4> QED
        BY <4>2, <4>3
    <3> QED
      BY <3>1, <3>2
  <2> QED
    BY <2>6, <2>9 DEF Tabled, HasTable
<1> HIDE DEF D
<1>3. n \in D
  BY <1>1, <1>2, NatSetInduction
<1> QED
  BY <1>3 DEF D

\* The table is read at 1..k only.
LEMMA Segments ==
  ASSUME NEW n \in Nat, NEW k \in 1..n
  PROVE  /\ 1..k \in SUBSET (1..n)
         /\ 1..k # {}
         /\ Max(1..k) = k
         /\ (1..k) \ {k} = 1..(k - 1)
<1>1. 1..k \in SUBSET (1..n)
  OBVIOUS
<1>2. 1..k # {}
  OBVIOUS
<1>3. Max(1..k) = k
  <2>1. k \in Nat /\ k \in 1..k
    OBVIOUS
  <2>2. Max(1..k) \in 1..k /\ \A y \in 1..k : y <= Max(1..k)
    BY <1>1, <1>2, MaxOf
  <2> QED
    BY <2>1, <2>2
<1>4. (1..k) \ {k} = 1..(k - 1)
  OBVIOUS
<1> QED
  BY <1>1, <1>2, <1>3, <1>4, Zenon

\* r is what n steps make of b, and v what each of them leaves.
HasTrace(n, A, step, b, r) ==
    \E v \in [0..n -> A] :
        v[0] = b /\ v[n] = r /\ \A k \in 1..n : v[k] = step[k][v[k - 1]]

\* A table has a trace along the segments 1..k.
LEMMA Traced ==
  ASSUME NEW n \in Nat, NEW A, NEW b \in A, NEW step \in [1..n -> [A -> A]], NEW g,
         g[{}] = b,
         \A k \in 1..n : g[1..(k - 1)] \in A => g[1..k] = step[k][g[1..(k - 1)]]
  PROVE  HasTrace(n, A, step, b, g[1..n])
<1> DEFINE D == {k \in Nat : k <= n => g[1..k] \in A}
           v == [k \in 0..n |-> g[1..k]]
<1>1. g[1..0] = b
  <2>1. 1..0 = {}
    OBVIOUS
  <2> QED
    BY <2>1
<1>2. 0 \in D
  BY <1>1
<1>3. ASSUME NEW k \in Nat, k \in D PROVE k + 1 \in D
  <2>1. SUFFICES ASSUME k + 1 <= n PROVE g[1..(k + 1)] \in A
    OBVIOUS
  <2>2. k + 1 \in 1..n /\ (k + 1) - 1 = k /\ g[1..k] \in A
    BY <1>3, <2>1
  <2>3. g[1..(k + 1)] = step[k + 1][g[1..k]]
    BY <2>2
  <2> QED
    BY <2>2, <2>3
<1> HIDE DEF D
<1>4. \A k \in Nat : k \in D
  BY <1>2, <1>3, NatSetInduction
<1>5. \A k \in 0..n : g[1..k] \in A
  BY <1>4 DEF D
<1>6. v \in [0..n -> A] /\ v[0] = g[1..0] /\ \A k \in 0..n : v[k] = g[1..k]
  BY <1>5
<1> HIDE DEF v
<1>7. ASSUME NEW k \in 1..n PROVE v[k] = step[k][v[k - 1]]
  <2>1. k \in 0..n /\ k - 1 \in 0..n
    OBVIOUS
  <2> QED
    BY <1>5, <1>6, <2>1
<1> QED
  BY <1>1, <1>6, <1>7 DEF HasTrace

\* ParseConnectionString's loop over the parameters, as a trace.
ParamAll(b, s) == FoldLeft(Param, b, s)
ParamTrace(A, b, n, s) ==
    \E v \in [0..n -> A] : /\ v[0] = b /\ v[n] = ParamAll(b, s)
                           /\ \A k \in 1..n : v[k] = Param(v[k - 1], s[k])
ParamTable(g, b, s) ==
    [u \in SUBSET DOMAIN s |-> IF u = {} THEN b ELSE Param(g[u \ {Max(u)}], s[Max(u)])]

LEMMA ParamFold ==
  ASSUME NEW A, NEW b \in A, NEW n \in Nat, NEW s, DOMAIN s = 1..n,
         \A k \in 1..n : \A c \in A : Param(c, s[k]) \in A
  PROVE  ParamTrace(A, b, n, s)
<1> DEFINE g == CHOOSE h : h = ParamTable(h, b, s)
           step == [k \in 1..n |-> [c \in A |-> Param(c, s[k])]]
<1>1. ParamAll(b, s) = g[1..n]
  BY Zenon DEF ParamAll, FoldLeft, MapThenFoldSet, ParamTable
<1>2. \E h : h = ParamTable(h, b, s)
  <2>1. step \in [1..n -> [A -> A]]
    OBVIOUS
  <2>2. \A k \in 1..n, c \in A : step[k][c] = Param(c, s[k])
    OBVIOUS
  <2> HIDE DEF step
  <2>3. PICK h \in [SUBSET (1..n) -> A] :
            Tabled(h, n, step, b)
    BY <2>1, StepTableExists DEF HasTable
  <2>4. ASSUME NEW u \in SUBSET (1..n)
        PROVE  h[u] = IF u = {} THEN b ELSE Param(h[u \ {Max(u)}], s[Max(u)])
    <3>1. CASE u = {}
      BY <2>3, <3>1 DEF Tabled
    <3>2. CASE u # {}
      <4>1. Max(u) \in 1..n /\ u \ {Max(u)} \in SUBSET (1..n)
        BY <3>2, MaxOf
      <4>2. h[u \ {Max(u)}] \in A
        BY <2>3, <4>1
      <4> QED
        BY <2>2, <2>3, <3>2, <4>1, <4>2 DEF Tabled
    <3> QED
      BY <3>1, <3>2
  <2>5. h = ParamTable(h, b, s)
    BY <2>3, <2>4 DEF ParamTable
  <2> QED
    BY <2>5
<1> HIDE DEF g
<1>3. g = ParamTable(g, b, s)
  BY <1>2 DEF g
<1>4. \A u \in SUBSET (1..n) :
         g[u] = IF u = {} THEN b ELSE Param(g[u \ {Max(u)}], s[Max(u)])
  <2>1. \A u \in SUBSET (1..n) : ParamTable(g, b, s)[u] =
           IF u = {} THEN b ELSE Param(g[u \ {Max(u)}], s[Max(u)])
    BY DEF ParamTable
  <2> QED
    BY <1>3, <2>1
<1>5. g[{}] = b
  BY <1>4
<1>6. ASSUME NEW k \in 1..n, g[1..(k - 1)] \in A PROVE g[1..k] = step[k][g[1..(k - 1)]]
  <2>1. /\ 1..k \in SUBSET (1..n)
        /\ 1..k # {}
        /\ Max(1..k) = k
        /\ (1..k) \ {k} = 1..(k - 1)
    BY Segments, Zenon
  <2>2. g[1..k] = Param(g[1..(k - 1)], s[k])
    BY <1>4, <2>1
  <2> QED
    BY <1>6, <2>2
<1>7. step \in [1..n -> [A -> A]]
  OBVIOUS
<1>8. \A k \in 1..n, c \in A : step[k][c] = Param(c, s[k])
  OBVIOUS
<1> HIDE DEF step
<1>9. HasTrace(n, A, step, b, g[1..n])
  BY <1>5, <1>6, <1>7, Traced
<1> QED
  BY <1>1, <1>8, <1>9 DEF HasTrace, ParamTrace

\* Split, as a trace.
FurtherAll(b, s) == FoldLeft(Further, b, s)
FurtherTrace(A, b, n, s) ==
    \E v \in [0..n -> A] : /\ v[0] = b /\ v[n] = FurtherAll(b, s)
                           /\ \A k \in 1..n : v[k] = Further(v[k - 1], s[k])
FurtherTable(g, b, s) ==
    [u \in SUBSET DOMAIN s |-> IF u = {} THEN b ELSE Further(g[u \ {Max(u)}], s[Max(u)])]

LEMMA FurtherFold ==
  ASSUME NEW A, NEW b \in A, NEW n \in Nat, NEW s, DOMAIN s = 1..n,
         \A k \in 1..n : \A c \in A : Further(c, s[k]) \in A
  PROVE  FurtherTrace(A, b, n, s)
<1> DEFINE g == CHOOSE h : h = FurtherTable(h, b, s)
           step == [k \in 1..n |-> [c \in A |-> Further(c, s[k])]]
<1>1. FurtherAll(b, s) = g[1..n]
  BY Zenon DEF FurtherAll, FoldLeft, MapThenFoldSet, FurtherTable
<1>2. \E h : h = FurtherTable(h, b, s)
  <2>1. step \in [1..n -> [A -> A]]
    OBVIOUS
  <2>2. \A k \in 1..n, c \in A : step[k][c] = Further(c, s[k])
    OBVIOUS
  <2> HIDE DEF step
  <2>3. PICK h \in [SUBSET (1..n) -> A] :
            Tabled(h, n, step, b)
    BY <2>1, StepTableExists DEF HasTable
  <2>4. ASSUME NEW u \in SUBSET (1..n)
        PROVE  h[u] = IF u = {} THEN b ELSE Further(h[u \ {Max(u)}], s[Max(u)])
    <3>1. CASE u = {}
      BY <2>3, <3>1 DEF Tabled
    <3>2. CASE u # {}
      <4>1. Max(u) \in 1..n /\ u \ {Max(u)} \in SUBSET (1..n)
        BY <3>2, MaxOf
      <4>2. h[u \ {Max(u)}] \in A
        BY <2>3, <4>1
      <4> QED
        BY <2>2, <2>3, <3>2, <4>1, <4>2 DEF Tabled
    <3> QED
      BY <3>1, <3>2
  <2>5. h = FurtherTable(h, b, s)
    BY <2>3, <2>4 DEF FurtherTable
  <2> QED
    BY <2>5
<1> HIDE DEF g
<1>3. g = FurtherTable(g, b, s)
  BY <1>2 DEF g
<1>4. \A u \in SUBSET (1..n) :
         g[u] = IF u = {} THEN b ELSE Further(g[u \ {Max(u)}], s[Max(u)])
  <2>1. \A u \in SUBSET (1..n) : FurtherTable(g, b, s)[u] =
           IF u = {} THEN b ELSE Further(g[u \ {Max(u)}], s[Max(u)])
    BY DEF FurtherTable
  <2> QED
    BY <1>3, <2>1
<1>5. g[{}] = b
  BY <1>4
<1>6. ASSUME NEW k \in 1..n, g[1..(k - 1)] \in A PROVE g[1..k] = step[k][g[1..(k - 1)]]
  <2>1. /\ 1..k \in SUBSET (1..n)
        /\ 1..k # {}
        /\ Max(1..k) = k
        /\ (1..k) \ {k} = 1..(k - 1)
    BY Segments, Zenon
  <2>2. g[1..k] = Further(g[1..(k - 1)], s[k])
    BY <1>4, <2>1
  <2> QED
    BY <1>6, <2>2
<1>7. step \in [1..n -> [A -> A]]
  OBVIOUS
<1>8. \A k \in 1..n, c \in A : step[k][c] = Further(c, s[k])
  OBVIOUS
<1> HIDE DEF step
<1>9. HasTrace(n, A, step, b, g[1..n])
  BY <1>5, <1>6, <1>7, Traced
<1> QED
  BY <1>1, <1>8, <1>9 DEF HasTrace, FurtherTrace

\* Join, as a trace.
JoinedAll(b, s) == FoldLeft(Joined, b, s)
JoinedTrace(A, b, n, s) ==
    \E v \in [0..n -> A] : /\ v[0] = b /\ v[n] = JoinedAll(b, s)
                           /\ \A k \in 1..n : v[k] = Joined(v[k - 1], s[k])
JoinedTable(g, b, s) ==
    [u \in SUBSET DOMAIN s |-> IF u = {} THEN b ELSE Joined(g[u \ {Max(u)}], s[Max(u)])]

LEMMA JoinedFold ==
  ASSUME NEW A, NEW b \in A, NEW n \in Nat, NEW s, DOMAIN s = 1..n,
         \A k \in 1..n : \A c \in A : Joined(c, s[k]) \in A
  PROVE  JoinedTrace(A, b, n, s)
<1> DEFINE g == CHOOSE h : h = JoinedTable(h, b, s)
           step == [k \in 1..n |-> [c \in A |-> Joined(c, s[k])]]
<1>1. JoinedAll(b, s) = g[1..n]
  BY Zenon DEF JoinedAll, FoldLeft, MapThenFoldSet, JoinedTable
<1>2. \E h : h = JoinedTable(h, b, s)
  <2>1. step \in [1..n -> [A -> A]]
    OBVIOUS
  <2>2. \A k \in 1..n, c \in A : step[k][c] = Joined(c, s[k])
    OBVIOUS
  <2> HIDE DEF step
  <2>3. PICK h \in [SUBSET (1..n) -> A] :
            Tabled(h, n, step, b)
    BY <2>1, StepTableExists DEF HasTable
  <2>4. ASSUME NEW u \in SUBSET (1..n)
        PROVE  h[u] = IF u = {} THEN b ELSE Joined(h[u \ {Max(u)}], s[Max(u)])
    <3>1. CASE u = {}
      BY <2>3, <3>1 DEF Tabled
    <3>2. CASE u # {}
      <4>1. Max(u) \in 1..n /\ u \ {Max(u)} \in SUBSET (1..n)
        BY <3>2, MaxOf
      <4>2. h[u \ {Max(u)}] \in A
        BY <2>3, <4>1
      <4> QED
        BY <2>2, <2>3, <3>2, <4>1, <4>2 DEF Tabled
    <3> QED
      BY <3>1, <3>2
  <2>5. h = JoinedTable(h, b, s)
    BY <2>3, <2>4 DEF JoinedTable
  <2> QED
    BY <2>5
<1> HIDE DEF g
<1>3. g = JoinedTable(g, b, s)
  BY <1>2 DEF g
<1>4. \A u \in SUBSET (1..n) :
         g[u] = IF u = {} THEN b ELSE Joined(g[u \ {Max(u)}], s[Max(u)])
  <2>1. \A u \in SUBSET (1..n) : JoinedTable(g, b, s)[u] =
           IF u = {} THEN b ELSE Joined(g[u \ {Max(u)}], s[Max(u)])
    BY DEF JoinedTable
  <2> QED
    BY <1>3, <2>1
<1>5. g[{}] = b
  BY <1>4
<1>6. ASSUME NEW k \in 1..n, g[1..(k - 1)] \in A PROVE g[1..k] = step[k][g[1..(k - 1)]]
  <2>1. /\ 1..k \in SUBSET (1..n)
        /\ 1..k # {}
        /\ Max(1..k) = k
        /\ (1..k) \ {k} = 1..(k - 1)
    BY Segments, Zenon
  <2>2. g[1..k] = Joined(g[1..(k - 1)], s[k])
    BY <1>4, <2>1
  <2> QED
    BY <1>6, <2>2
<1>7. step \in [1..n -> [A -> A]]
  OBVIOUS
<1>8. \A k \in 1..n, c \in A : step[k][c] = Joined(c, s[k])
  OBVIOUS
<1> HIDE DEF step
<1>9. HasTrace(n, A, step, b, g[1..n])
  BY <1>5, <1>6, <1>7, Traced
<1> QED
  BY <1>1, <1>8, <1>9 DEF HasTrace, JoinedTrace

-----------------------------------------------------------------------------
(* 6. What the parser's operators return.                                  *)

LEMMA MinOf ==
  ASSUME NEW u \in SUBSET Nat, u # {}
  PROVE  Min(u) \in u /\ \A y \in u : Min(u) <= y
<1> DEFINE D == {m \in Nat : \A w \in SUBSET Nat : m \in w => \E x \in w : \A y \in w : x <= y}
<1>1. 0 \in D
  OBVIOUS
<1>2. ASSUME NEW m \in Nat, \A k \in 0..m : k \in D PROVE m + 1 \in D
  <2>1. SUFFICES ASSUME NEW w \in SUBSET Nat, m + 1 \in w
                 PROVE  \E x \in w : \A y \in w : x <= y
    OBVIOUS
  <2>2. CASE \E k \in 0..m : k \in w
    BY <1>2, <2>2
  <2>3. CASE \A k \in 0..m : k \notin w
    <3>1. \A y \in w : m + 1 <= y
      BY <2>3
    <3> QED
      BY <2>1, <3>1
  <2> QED
    BY <2>2, <2>3
<1> HIDE DEF D
<1> DEFINE U == {m \in Nat : \A k \in 0..m : k \in D}
<1>3. 0 \in U
  BY <1>1
<1>4. ASSUME NEW m \in Nat, m \in U PROVE m + 1 \in U
  BY <1>2, <1>4
<1> HIDE DEF U
<1>5. \A m \in Nat : m \in U
  BY <1>3, <1>4, NatSetInduction
<1>6. \A m \in Nat : m \in D
  BY <1>5 DEF U
<1>7. \E x \in u : \A y \in u : x <= y
  BY <1>6 DEF D
<1> QED
  BY <1>7 DEF Min

\* Length and elements of a concatenation.
LEMMA Concatenated ==
  ASSUME NEW T, NEW s \in Seq(T), NEW r \in Seq(T)
  PROVE  /\ s \o r \in Seq(T) /\ Len(s \o r) = Len(s) + Len(r)
         /\ \A k \in 1..Len(s) : (s \o r)[k] = s[k]
         /\ \A k \in 1..Len(r) : (s \o r)[Len(s) + k] = r[k]
<1>1. s \o r \in Seq(T)
  OBVIOUS
<1>2. Len(s \o r) = Len(s) + Len(r)
  OBVIOUS
<1>3. \A k \in 1..Len(s) : (s \o r)[k] = s[k]
  OBVIOUS
<1>4. \A k \in 1..Len(r) : (s \o r)[Len(s) + k] = r[k]
  OBVIOUS
<1> QED
  BY <1>1, <1>2, <1>3, <1>4

\* What Split has after any prefix: one part or more.
Parts(T) == {q \in Seq(Seq(T)) : q # <<>>}

\* A further token continues or opens a part.
LEMMA FurtherKeepsParts ==
  ASSUME NEW T, NEW q \in Parts(T), NEW w \in T
  PROVE  Further(q, w) \in Parts(T)
<1>1. q \in Seq(Seq(T)) /\ q # <<>> /\ Len(q) \in Nat /\ Len(q) > 0
  BY DEF Parts
<1>2. Front(q) \in Seq(Seq(T)) /\ Last(q) \in Seq(T)
  BY <1>1 DEF Front, Last
<1>3. Append(q, <<>>) \in Parts(T)
  BY <1>1 DEF Parts
<1>4. <<Append(Last(q), w)>> \in Seq(Seq(T)) /\ Len(<<Append(Last(q), w)>>) = 1
  BY <1>2
<1>5. Front(q) \o <<Append(Last(q), w)>> \in Parts(T)
  <2> DEFINE e == <<Append(Last(q), w)>>
             f == Front(q)
  <2>1. e \in Seq(Seq(T)) /\ Len(e) = 1 /\ f \in Seq(Seq(T))
    BY <1>2, <1>4
  <2> HIDE DEF e, f
  <2>2. f \o e \in Seq(Seq(T)) /\ Len(f \o e) = Len(f) + Len(e)
    BY <2>1, Concatenated, Zenon
  <2>3. f \o e # <<>>
    BY <2>1, <2>2
  <2>4. f \o e \in Parts(T)
    BY <2>2, <2>3 DEF Parts
  <2> QED
    BY <2>4 DEF e, f
<1> QED
  BY <1>3, <1>5 DEF Further

\* Split is the last element of its trace.
LEMMA SplitIsTraced ==
  ASSUME NEW T, NEW s \in Seq(T)
  PROVE  \E v \in [0..Len(s) -> Parts(T)] :
            /\ v[0] = <<<<>>>> /\ v[Len(s)] = Split(s)
            /\ \A k \in 1..Len(s) : v[k] = Further(v[k - 1], s[k])
<1>1. <<<<>>>> \in Parts(T)
  BY DEF Parts
<1>2. Len(s) \in Nat /\ DOMAIN s = 1..Len(s) /\ \A k \in 1..Len(s) : s[k] \in T
  OBVIOUS
<1>3. \A k \in 1..Len(s) : \A q \in Parts(T) : Further(q, s[k]) \in Parts(T)
  BY <1>2, FurtherKeepsParts
<1> DEFINE A == Parts(T)
           b == <<<<>>>>
           n == Len(s)
<1>4. b \in A /\ n \in Nat /\ DOMAIN s = 1..n
  BY <1>1, <1>2
<1>6. \A k \in 1..n : \A c \in A : Further(c, s[k]) \in A
  BY <1>3
<1> HIDE DEF A, b, n
<1>5. FurtherTrace(A, b, n, s)
  BY <1>4, <1>6, FurtherFold, Zenon
<1> QED
  BY <1>5, Zenon DEF Split, FurtherAll, FurtherTrace, A, b, n

\* Split gives sequences of tokens.
LEMMA SplitType ==
  ASSUME NEW T, NEW s \in Seq(T)
  PROVE  Split(s) \in Seq(Seq(T))
<1>1. Len(s) \in 0..Len(s)
  OBVIOUS
<1> QED
  BY <1>1, SplitIsTraced DEF Parts

\* The first occurrence of a separator is one.
LEMMA OccurrencesType ==
  ASSUME NEW T, NEW s \in Seq(T), NEW sep \in Seq(T), Occurrences(s, sep) # {}
  PROVE  LET m == Min(Occurrences(s, sep)) IN
         /\ m \in 1..(Len(s) + 1 - Len(sep)) /\ SubSeq(s, m, m + Len(sep) - 1) = sep
         /\ \A k \in Occurrences(s, sep) : m <= k
<1>1. Occurrences(s, sep) \in SUBSET Nat
  BY DEF Occurrences
<1>2. Min(Occurrences(s, sep)) \in Occurrences(s, sep)
      /\ \A k \in Occurrences(s, sep) : Min(Occurrences(s, sep)) <= k
  BY <1>1, MinOf
<1> QED
  BY <1>2 DEF Occurrences

\* Cut gives two pieces of the string.
LEMMA CutType ==
  ASSUME NEW T, NEW s \in Seq(T), NEW sep \in Seq(T)
  PROVE  Cut(s, sep).before \in Seq(T) /\ Cut(s, sep).after \in Seq(T)
         /\ Cut(s, sep).found \in BOOLEAN
<1>1. CASE Occurrences(s, sep) = {}
  BY <1>1 DEF Cut, NotCut
<1>2. CASE Occurrences(s, sep) # {}
  <2>1. PICK m : m = Min(Occurrences(s, sep))
    OBVIOUS
  <2>2. m \in 1..(Len(s) + 1 - Len(sep)) /\ Len(sep) \in Nat /\ Len(s) \in Nat
    BY <1>2, <2>1, OccurrencesType
  <2>3. SubSeq(s, 1, m - 1) \in Seq(T) /\ SubSeq(s, m + Len(sep), Len(s)) \in Seq(T)
    BY <2>2
  <2>4. Cut(s, sep) = CutAt(s, m, Len(sep))
    BY <1>2, <2>1 DEF Cut
  <2> QED
    BY <2>3, <2>4 DEF CutAt
<1> QED
  BY <1>1, <1>2

LEMMA SeqOfMore ==
  ASSUME NEW S, NEW T, S \subseteq T, NEW s \in Seq(S)
  PROVE  s \in Seq(T)
OBVIOUS

LEMMA SeqOfOne ==
  ASSUME NEW T, NEW w \in T
  PROVE  <<w>> \in Seq(T)
OBVIOUS

LEMMA SeqOfThree ==
  ASSUME NEW T, NEW w1 \in T, NEW w2 \in T, NEW w3 \in T
  PROVE  <<w1, w2, w3>> \in Seq(T)
OBVIOUS

\* The separators are strings of tokens.
LEMMA Separators ==
  /\ Slash \in Seq(Tokens) /\ Semi \in Seq(Tokens) /\ Equals \in Seq(Tokens)
  /\ Slash \o Semi \in Seq(Tokens) /\ Scheme \in Seq(Tokens)
<1>1. ";" \in Tokens /\ "=" \in Tokens /\ ":" \in Tokens /\ "/" \in Tokens
  BY DEF Tokens, Punctuation
<1>2. Slash \in Seq(Tokens) /\ Semi \in Seq(Tokens) /\ Equals \in Seq(Tokens)
  BY <1>1, SeqOfOne DEF Slash, Semi, Equals
<1>3. Slash \o Semi \in Seq(Tokens)
  BY <1>2
<1>4. Scheme \in Seq(Tokens)
  BY <1>1, SeqOfThree DEF Scheme
<1> QED
  BY <1>2, <1>3, <1>4

\* Concatenation is associative.
LEMMA ConcatAssoc ==
  ASSUME NEW T, NEW s \in Seq(T), NEW r \in Seq(T), NEW q \in Seq(T)
  PROVE  (s \o r) \o q = s \o (r \o q)
<1>1. s \o r \in Seq(T) /\ r \o q \in Seq(T) /\ Len(s \o r) = Len(s) + Len(r) /\ Len(r \o q) = Len(r) + Len(q)
  OBVIOUS
<1>2. (s \o r) \o q \in Seq(T) /\ s \o (r \o q) \in Seq(T)
  BY <1>1
<1>3. Len((s \o r) \o q) = Len(s \o (r \o q))
  BY <1>1
<1>4. ASSUME NEW k \in 1..Len((s \o r) \o q) PROVE ((s \o r) \o q)[k] = (s \o (r \o q))[k]
  BY <1>1
<1> QED
  BY <1>2, <1>3, <1>4

\* A further parameter keeps a string a string.
LEMMA JoinedKeeps ==
  ASSUME NEW s \in Seq(Tokens), NEW p \in Parameters
  PROVE  Written(p) \in Seq(Tokens) /\ Joined(s, p) \in Seq(Tokens)
<1>2. Semi \in Seq(Tokens) /\ Equals \in Seq(Tokens)
  BY Separators
<1>3. Written(p) \in Seq(Tokens)
  <2>1. CASE p \in [key : Seq(Tokens \ {";", "="}), value : Seq(Tokens \ {";"}) \cap DOMAIN Meant]
    <3>1. p.key \in Seq(Tokens \ {";", "="}) /\ p.value \in Seq(Tokens \ {";"}) /\ "key" \in DOMAIN p
      BY <2>1
    <3>2. p.key \in Seq(Tokens) /\ p.value \in Seq(Tokens)
      BY <3>1, SeqOfMore
    <3> QED
      <4>1. p.key \o Equals \in Seq(Tokens)
        BY <1>2, <3>2, Concatenated, Zenon
      <4>2. p.key \o Equals \o p.value \in Seq(Tokens)
        BY <3>2, <4>1, Concatenated, Zenon
      <4> QED
        BY <3>1, <4>2 DEF Written
  <2>2. CASE p \in [word : Seq(Tokens \ {";", "="})]
    <3>1. p.word \in Seq(Tokens \ {";", "="}) /\ "key" \notin DOMAIN p
      BY <2>2
    <3>2. p.word \in Seq(Tokens)
      BY <3>1, SeqOfMore
    <3> QED
      BY <3>1, <3>2 DEF Written
  <2> QED
    BY <2>1, <2>2 DEF Parameters
<1> QED
  BY <1>2, <1>3 DEF Joined

\* Join is the last element of its trace.
LEMMA JoinIsTraced ==
  ASSUME NEW ps \in Seq(Parameters), ps # <<>>
  PROVE  JoinedTrace(Seq(Tokens), Written(ps[1]), Len(ps) - 1, Tail(ps))
<1> DEFINE A == Seq(Tokens)
           b == Written(ps[1])
           n == Len(ps) - 1
           r == Tail(ps)
<1>1. n \in Nat /\ r \in Seq(Parameters) /\ Len(r) = n /\ DOMAIN r = 1..n /\ ps[1] \in Parameters
  OBVIOUS
<1>2. <<>> \in Seq(Tokens)
  OBVIOUS
<1>3. b \in A
  BY <1>1, <1>2, JoinedKeeps
<1>4. \A k \in 1..n : r[k] \in Parameters
  BY <1>1
<1> HIDE DEF n, b, r
<1>5. \A k \in 1..n : \A c \in A : Joined(c, r[k]) \in A
  BY <1>4, JoinedKeeps
<1> HIDE DEF A
<1> QED
  BY <1>1, <1>3, <1>5, JoinedFold DEF n, b, r, A

\* Joined parameters are a string.
LEMMA JoinType ==
  ASSUME NEW ps \in Seq(Parameters), ps # <<>>
  PROVE  Join(ps) \in Seq(Tokens)
<1>1. JoinedTrace(Seq(Tokens), Written(ps[1]), Len(ps) - 1, Tail(ps))
  BY JoinIsTraced
<1>2. Join(ps) = JoinedAll(Written(ps[1]), Tail(ps))
  <2>1. Head(ps) = ps[1]
    OBVIOUS
  <2> QED
    BY <2>1, Zenon DEF Join, JoinedAll
<1>3. Len(ps) - 1 \in 0..Len(ps) - 1
  OBVIOUS
<1> QED
  BY <1>1, <1>2, <1>3 DEF JoinedTrace

\* The parts of an address are strings.
LEMMA AddressParts ==
  ASSUME NEW a, IsAddress(a)
  PROVE  /\ a.scheme \in Seq(Tokens) /\ a.host \in Seq(Tokens) /\ a.port \in Seq(Tokens)
         /\ a.form \in Seq(Tokens)
         /\ a.params # <<>> => Join(a.params) \in Seq(Tokens)
<1>1. ";" \in Tokens /\ "/" \in Tokens /\ ":" \in Tokens /\ Words \subseteq Tokens
  BY DEF Tokens, Punctuation
<1>2. Semi \in Seq(Tokens) /\ Slash \o Semi \in Seq(Tokens)
  BY Separators
<1>3. a.scheme \in Seq(Tokens) /\ a.host \in Seq(Tokens) /\ a.port \in Seq(Tokens)
  <2>1. Words \cup {":"} \subseteq Tokens
    BY <1>1
  <2>2. a.scheme \in Seq(Words) /\ a.host \in Seq(Tokens) /\ a.port \in Seq(Words \cup {":"})
    BY DEF IsAddress
  <2> QED
    BY <1>1, <2>1, <2>2, SeqOfMore
<1>4. a.form \in Seq(Tokens)
  <2>1. a.form \in {<<>>, Semi, Slash \o Semi} \cup Seq(Tokens \ {";"})
    BY DEF IsAddress
  <2>2. a.form \in Seq(Tokens \ {";"}) => a.form \in Seq(Tokens)
    BY SeqOfMore
  <2>3. <<>> \in Seq(Tokens)
    OBVIOUS
  <2> QED
    BY <1>2, <2>1, <2>2, <2>3
<1>5. a.params \in Seq(Parameters)
  BY DEF IsAddress
<1> QED
  BY <1>3, <1>4, <1>5, JoinType

\* An address is written as a string of tokens.
LEMMA RenderType ==
  ASSUME NEW a, IsAddress(a)
  PROVE  /\ RestOf(a) \in Seq(Tokens) /\ Render(a) \in Seq(Tokens)
         /\ a.scheme # <<>> => Render(a) = a.scheme \o (Scheme \o RestOf(a))
<1> DEFINE t == IF a.params = <<>> THEN <<>> ELSE Join(a.params)
<1>1. t \in Seq(Tokens)
  BY AddressParts
<1>2. a.scheme \in Seq(Tokens) /\ a.host \in Seq(Tokens) /\ a.port \in Seq(Tokens)
      /\ a.form \in Seq(Tokens)
  BY AddressParts
<1>3. Scheme \in Seq(Tokens)
  BY Separators
<1>4. RestOf(a) = a.host \o a.port \o a.form \o t
  BY Zenon DEF RestOf
<1> HIDE DEF t
<1>5. a.host \o a.port \in Seq(Tokens)
  BY <1>2, Concatenated, Zenon
<1>6. a.host \o a.port \o a.form \in Seq(Tokens)
  BY <1>2, <1>5, Concatenated, Zenon
<1>7. RestOf(a) \in Seq(Tokens)
  BY <1>1, <1>4, <1>6, Concatenated, Zenon
<1>8. a.scheme \o Scheme \in Seq(Tokens)
  BY <1>2, <1>3, Concatenated, Zenon
<1>9. a.scheme \o Scheme \o RestOf(a) \in Seq(Tokens)
  BY <1>7, <1>8, Concatenated, Zenon
<1>10. a.scheme \o Scheme \o RestOf(a) = a.scheme \o (Scheme \o RestOf(a))
  <2>1. \A s, r, q \in Seq(Tokens) : (s \o r) \o q = s \o (r \o q)
    BY ConcatAssoc
  <2> QED
    BY <1>2, <1>3, <1>7, <2>1, ZenonT(60)
<1> QED
  BY <1>7, <1>9, <1>10 DEF Render

\* Configs with hosts H, ports P, values V and header names K.
Configs(H, P, V, K) ==
    [Host : H, Port : P, UseTLS : {"true", "false"}, Token : V, UserID : V, UserAgent : V,
     SessionID : V, Headers : UNION {[D -> V] : D \in SUBSET K}]

\* A record with the fields of Config, whatever their values.
IsConfig(c) ==
    c = [Host |-> c.Host, Port |-> c.Port, UseTLS |-> c.UseTLS, Token |-> c.Token,
         UserID |-> c.UserID, UserAgent |-> c.UserAgent, SessionID |-> c.SessionID,
         Headers |-> c.Headers]

\* A Config is not the parser's failure.
LEMMA ConfigIsNotFail ==
  ASSUME NEW c, IsConfig(c)
  PROVE  c # Fail
<1>1. "Host" \in DOMAIN c /\ "Host" \notin DOMAIN Fail
  BY DEF IsConfig, Fail
<1> QED
  BY <1>1

LEMMA ConfigsAreConfigs ==
  ASSUME NEW H, NEW P, NEW V, NEW K, NEW c \in Configs(H, P, V, K)
  PROVE  IsConfig(c)
BY DEF Configs, IsConfig

\* What SetTLS does to a Config.
LEMMA SetTLSIs ==
  ASSUME NEW c, NEW value
  PROVE  /\ value \notin DOMAIN ParseBool => SetTLS(c, value) = Fail
         /\ value \in DOMAIN ParseBool =>
               /\ SetTLS(c, value) = [c EXCEPT !.UseTLS = ParseBool[value]]
               /\ ParseBool[value] \in {"true", "false"}
BY DEF SetTLS, ParseBool

\* What SetHeader does to one.
LEMMA SetHeaderIs ==
  ASSUME NEW H, NEW P, NEW V, NEW K, NEW c \in Configs(H, P, V, K), NEW h \in K, NEW v \in V
  PROVE  SetHeader(c, h, v) \in Configs(H, P, V, K)
<1>1. PICK D \in SUBSET K : c.Headers \in [D -> V]
  BY DEF Configs
<1> DEFINE new == [x \in DOMAIN c.Headers \cup {h} |-> IF x = h THEN v ELSE c.Headers[x]]
<1>2. new \in [D \cup {h} -> V] /\ D \cup {h} \in SUBSET K
  BY <1>1
<1>3. new \in UNION {[E -> V] : E \in SUBSET K}
  BY <1>2
<1>4. SetHeader(c, h, v) = [c EXCEPT !.Headers = new]
  BY DEF SetHeader
<1> HIDE DEF new
<1> QED
  BY <1>3, <1>4 DEF Configs

\* applyParam makes a Config of a Config, or fails.
LEMMA applyParamType ==
  ASSUME NEW H, NEW P, NEW V, NEW K, NEW c \in Configs(H, P, V, K), NEW h \in K, NEW v \in V
  PROVE  applyParam(c, h, v) \in Configs(H, P, V, K) \cup {Fail}
<1>1. SetHeader(c, h, v) \in Configs(H, P, V, K)
  BY SetHeaderIs
<1>2. SetTLS(c, v) \in Configs(H, P, V, K) \cup {Fail}
  BY SetTLSIs DEF Configs
<1>3. /\ [c EXCEPT !.UserID = v] \in Configs(H, P, V, K)
      /\ [c EXCEPT !.Token = v] \in Configs(H, P, V, K)
      /\ [c EXCEPT !.UserAgent = v] \in Configs(H, P, V, K)
      /\ [c EXCEPT !.SessionID = v] \in Configs(H, P, V, K)
  BY DEF Configs
<1>4. \/ applyParam(c, h, v) = [c EXCEPT !.UserID = v]
      \/ applyParam(c, h, v) = [c EXCEPT !.Token = v]
      \/ applyParam(c, h, v) = [c EXCEPT !.UserAgent = v]
      \/ applyParam(c, h, v) = [c EXCEPT !.SessionID = v]
      \/ applyParam(c, h, v) = SetTLS(c, v)
      \/ applyParam(c, h, v) = SetHeader(c, h, v)
  BY DEF applyParam
<1> QED
  BY <1>1, <1>2, <1>3, <1>4

\* The names and values that the parts of a parameter string can have.
NamesIn(s) == {ToLower(Cut(s[k], Equals).before) : k \in DOMAIN s}
ValuesIn(s) == {PathUnescape(Cut(s[k], Equals).after) : k \in DOMAIN s}
               \cup {<<>>, <<"adbc-driver-spark">>}

\* The loop over the parameters goes from Config to Config, or to failure.
LEMMA ParamsAreTraced ==
  ASSUME NEW H, NEW P, NEW s, NEW n \in Nat, DOMAIN s = 1..n,
         NEW b \in Configs(H, P, ValuesIn(s), NamesIn(s))
  PROVE  ParamTrace(Configs(H, P, ValuesIn(s), NamesIn(s)) \cup {Fail}, b, n, s)
<1> DEFINE C == Configs(H, P, ValuesIn(s), NamesIn(s))
           A == C \cup {Fail}
<1>1. ASSUME NEW k \in 1..n, NEW c \in A PROVE Param(c, s[k]) \in A
  <2> DEFINE h == ToLower(Cut(s[k], Equals).before)
             v == PathUnescape(Cut(s[k], Equals).after)
  <2>1. h \in NamesIn(s) /\ v \in ValuesIn(s)
    BY DEF NamesIn, ValuesIn
  <2> HIDE DEF C
  <2>2. Param(c, s[k]) \in {c, Fail, applyParam(c, h, v)}
    BY DEF Param
  <2>3. c = Fail => Param(c, s[k]) = Fail
    BY DEF Param
  <2> HIDE DEF h, v
  <2>4. c # Fail => applyParam(c, h, v) \in A
    BY <2>1, applyParamType DEF C
  <2> QED
    BY <2>2, <2>3, <2>4
<1>2. b \in A
  OBVIOUS
<1> HIDE DEF A
<1>3. ParamTrace(A, b, n, s)
  BY <1>1, <1>2, ParamFold
<1> QED
  BY <1>3 DEF A

\* The Config that the parameters are written into.
BaseFor(scheme, hp) ==
    [Default EXCEPT
        !.UseTLS = IF scheme \in {<<"grpcs">>, <<"sc+tls">>} THEN "true" ELSE "false",
        !.Host = hp.host,
        !.Port = IF hp.port = <<>> THEN @ ELSE hp.port[1]]

\* The Config before the first parameter is one.
LEMMA BaseType ==
  ASSUME NEW scheme, NEW hp, NEW s
  PROVE  \E P : BaseFor(scheme, hp) \in Configs({hp.host}, P, ValuesIn(s), NamesIn(s))
<1> DEFINE P == {"15002", hp.port[1]}
<1>1. <<>> \in ValuesIn(s) /\ <<"adbc-driver-spark">> \in ValuesIn(s)
  BY DEF ValuesIn
<1>2. [h \in {} |-> <<>>] \in UNION {[D -> ValuesIn(s)] : D \in SUBSET NamesIn(s)}
  <2>1. [h \in {} |-> <<>>] \in [{} -> ValuesIn(s)] /\ {} \in SUBSET NamesIn(s)
    OBVIOUS
  <2> QED
    BY <2>1
<1>3. BaseFor(scheme, hp) \in Configs({hp.host}, P, ValuesIn(s), NamesIn(s))
  BY <1>1, <1>2 DEF BaseFor, Default, Configs
<1> QED
  BY <1>3

\* HostAndParams gives two strings.
LEMMA HostAndParamsType ==
  ASSUME NEW r \in Seq(Tokens)
  PROVE  HostAndParams(r).before \in Seq(Tokens) /\ HostAndParams(r).after \in Seq(Tokens)
<1>1. Slash \in Seq(Tokens) /\ Semi \in Seq(Tokens) /\ Slash \o Semi \in Seq(Tokens)
  BY Separators
<1>3. \A sep \in Seq(Tokens) : Cut(r, sep).before \in Seq(Tokens) /\ Cut(r, sep).after \in Seq(Tokens)
  BY CutType
<1>4. ASSUME NEW sep \in Seq(Tokens)
      PROVE  LET c == [Cut(r, sep) EXCEPT !.after = <<>>]
             IN  c.before = Cut(r, sep).before /\ c.after = <<>>
  BY DEF Cut, CutAt, NotCut
<1>5. <<>> \in Seq(Tokens)
  OBVIOUS
<1> QED
  BY <1>1, <1>3, <1>4, <1>5 DEF HostAndParams

\* ParseConnectionString of any string of tokens fails or gives a Config.
LEMMA ParseType ==
  ASSUME NEW s \in Seq(Tokens)
  PROVE  ParseConnectionString(s) = Fail \/ IsConfig(ParseConnectionString(s))
<1> DEFINE cut    == Cut(s, Scheme)
           scheme == IF cut.found THEN ToLower(cut.before) ELSE <<>>
           r      == IF cut.found THEN cut.after ELSE s
           hp     == splitHostPort(TrimSuffix(HostAndParams(r).before))
           t      == HostAndParams(r).after
<1>1. ParseConnectionString(s) \in {Fail, ParamAll(BaseFor(scheme, hp), Split(t))}
  BY Zenon DEF ParseConnectionString, ParamAll, BaseFor
<1>2. r \in Seq(Tokens)
  <2>1. Scheme \in Seq(Tokens)
    BY Separators
  <2> QED
    BY <2>1, CutType
<1> HIDE DEF r
<1>3. t \in Seq(Tokens)
  BY <1>2, HostAndParamsType
<1> HIDE DEF t, hp, scheme
<1>4. Split(t) \in Seq(Seq(Tokens))
  BY <1>3, SplitType
<1> DEFINE q == Split(t)
           n == Len(q)
           b == BaseFor(scheme, hp)
<1>5. n \in Nat /\ DOMAIN q = 1..n
  BY <1>4
<1> HIDE DEF q, n
<1>6. PICK P : b \in Configs({hp.host}, P, ValuesIn(q), NamesIn(q))
  BY BaseType
<1> DEFINE C == Configs({hp.host}, P, ValuesIn(q), NamesIn(q))
<1> HIDE DEF b
<1>7. ParamTrace(C \cup {Fail}, b, n, q)
  BY <1>5, <1>6, ParamsAreTraced
<1> HIDE DEF C
<1>8. n \in 0..n
  BY <1>5
<1>9. ParamAll(b, q) \in C \cup {Fail}
  BY <1>7, <1>8 DEF ParamTrace
<1>10. \A c \in C : IsConfig(c)
  BY ConfigsAreConfigs DEF C
<1> QED
  BY <1>1, <1>9, <1>10 DEF b, q

-----------------------------------------------------------------------------
(* 7. Options written over a Config.                                       *)

\* The values that the options `done` give for some keys, for a field (as the
\* field keeps them), and for a header.
ValuesAt(opts, keys, done) == {opts[k] : k \in keys \cap done}
AskedAt(opts, f, done) ==
    IF f = "UseTLS"
    THEN {ParseBool[v] : v \in ValuesAt(opts, OptionsOf(f), done) \cap DOMAIN ParseBool}
    ELSE ValuesAt(opts, OptionsOf(f), done)
AskedHeaderAt(opts, h, done) == ValuesAt(opts, {k \in DOMAIN HeaderOptions : HeaderOptions[k] = h}, done)

\* c is base after the options `done` were written over it.
Overlaid(c, base, opts, done) ==
    /\ c.Host = base.Host /\ c.Port = base.Port
    /\ \A f \in Fields : IF AskedAt(opts, f, done) = {} THEN c[f] = base[f]
                         ELSE c[f] \in AskedAt(opts, f, done)
    /\ \A h \in AllHeaders : HeaderOf(c, h) = IF AskedHeaderAt(opts, h, done) = {} THEN HeaderOf(base, h)
                                              ELSE AskedHeaderAt(opts, h, done)

\* Without options a Config is as it was.
LEMMA NothingOverlaid ==
  ASSUME NEW c, NEW opts
  PROVE  Overlaid(c, c, opts, {})
<1>1. \A keys : ValuesAt(opts, keys, {}) = {}
  BY DEF ValuesAt
<1>2. \A f : AskedAt(opts, f, {}) = {}
  BY <1>1 DEF AskedAt
<1>3. \A h : AskedHeaderAt(opts, h, {}) = {}
  BY <1>1 DEF AskedHeaderAt
<1> QED
  BY <1>2, <1>3 DEF Overlaid

\* d is c with v for its field f.
WithField(d, c, f, v) ==
    /\ IsConfig(d) /\ d[f] = v
    /\ d.Host = c.Host /\ d.Port = c.Port /\ d.Headers = c.Headers
    /\ \A g \in Fields \ {f} : d[g] = c[g]

\* Assigning one field changes that field only.
LEMMA ConfigFields ==
  ASSUME NEW c, IsConfig(c), NEW v
  PROVE  /\ WithField([c EXCEPT !.Token = v], c, "Token", v)
         /\ WithField([c EXCEPT !.UserID = v], c, "UserID", v)
         /\ WithField([c EXCEPT !.UserAgent = v], c, "UserAgent", v)
         /\ WithField([c EXCEPT !.SessionID = v], c, "SessionID", v)
         /\ WithField([c EXCEPT !.UseTLS = v], c, "UseTLS", v)
BY DEF IsConfig, Fields, WithField

\* Assigning the headers changes the headers only.
LEMMA ConfigHeaders ==
  ASSUME NEW c, IsConfig(c), NEW v
  PROVE  LET d == [c EXCEPT !.Headers = v]
         IN  IsConfig(d) /\ d.Headers = v /\ d.Host = c.Host /\ d.Port = c.Port
             /\ \A f \in Fields : d[f] = c[f]
BY DEF IsConfig, Fields

\* Each option is of one field, or of one header, or unknown.
LEMMA OptionKeys ==
  /\ \A f \in Fields : OptionsOf(f) \cap DOMAIN HeaderOptions = {}
  /\ \A f, g \in Fields : f # g => OptionsOf(f) \cap OptionsOf(g) = {}
  /\ \A f \in Fields : OptionsOf(f) \cap UnknownOptions = {}
  /\ DOMAIN HeaderOptions \cap UnknownOptions = {}
  /\ \A k1, k2 \in DOMAIN HeaderOptions : HeaderOptions[k1] = HeaderOptions[k2] => k1 = k2
  /\ \A k \in DOMAIN HeaderOptions : HeaderOptions[k] \in AllHeaders
BY DEF Fields, OptionsOf, HeaderOptions, TokenOptions, UserOptions, UnknownOptions, AllHeaders

\* One more option adds its value to its own field or header, and nothing to
\* any other.
LEMMA AskedOneMore ==
  ASSUME NEW opts, NEW done, NEW key
  PROVE  /\ \A h : (key \in DOMAIN HeaderOptions => HeaderOptions[key] # h) =>
               AskedHeaderAt(opts, h, done \cup {key}) = AskedHeaderAt(opts, h, done)
         /\ \A keys : key \notin keys => ValuesAt(opts, keys, done \cup {key}) = ValuesAt(opts, keys, done)
         /\ \A keys : key \in keys => opts[key] \in ValuesAt(opts, keys, done \cup {key})
         /\ \A f : key \notin OptionsOf(f) => AskedAt(opts, f, done \cup {key}) = AskedAt(opts, f, done)
<1>1. \A keys : key \notin keys => ValuesAt(opts, keys, done \cup {key}) = ValuesAt(opts, keys, done)
  BY DEF ValuesAt
<1>2. \A keys : key \in keys => opts[key] \in ValuesAt(opts, keys, done \cup {key})
  BY DEF ValuesAt
<1>3. \A f : key \notin OptionsOf(f) => AskedAt(opts, f, done \cup {key}) = AskedAt(opts, f, done)
  BY <1>1 DEF AskedAt
<1>4. ASSUME NEW h, key \in DOMAIN HeaderOptions => HeaderOptions[key] # h
      PROVE  AskedHeaderAt(opts, h, done \cup {key}) = AskedHeaderAt(opts, h, done)
  <2> DEFINE keys == {k \in DOMAIN HeaderOptions : HeaderOptions[k] = h}
  <2>1. key \notin keys
    BY <1>4
  <2> HIDE DEF keys
  <2>2. ValuesAt(opts, keys, done \cup {key}) = ValuesAt(opts, keys, done)
    BY <1>1, <2>1
  <2> QED
    BY <2>2 DEF AskedHeaderAt, keys
<1> QED
  BY <1>1, <1>2, <1>3, <1>4

\* What Option does for each kind of key.
LEMMA OptionIs ==
  ASSUME NEW c, NEW key, NEW v
  PROVE  /\ key \in OptionsOf("Token") => Option(c, key, v) = [c EXCEPT !.Token = v]
         /\ key \in OptionsOf("UserID") => Option(c, key, v) = [c EXCEPT !.UserID = v]
         /\ key \in OptionsOf("UserAgent") => Option(c, key, v) = [c EXCEPT !.UserAgent = v]
         /\ key \in OptionsOf("SessionID") => Option(c, key, v) = [c EXCEPT !.SessionID = v]
         /\ key \in OptionsOf("UseTLS") => Option(c, key, v) = SetTLS(c, v)
         /\ key \in DOMAIN HeaderOptions => Option(c, key, v) = SetHeader(c, HeaderOptions[key], v)
         /\ key \in UnknownOptions => Option(c, key, v) = Fail
         /\ (key \notin DOMAIN HeaderOptions \cup UnknownOptions
             /\ \A f \in Fields : key \notin OptionsOf(f)) => Option(c, key, v) = c
<1>1. /\ OptionsOf("Token") = TokenOptions /\ OptionsOf("UserID") = UserOptions
      /\ OptionsOf("UserAgent") = {"adbc.spark.user_agent"}
      /\ OptionsOf("SessionID") = {"adbc.spark.session_id"}
      /\ OptionsOf("UseTLS") = {"adbc.spark.tls.enabled"}
  BY DEF OptionsOf
<1>2. /\ "adbc.spark.user_agent" \notin TokenOptions \cup UserOptions
      /\ "adbc.spark.session_id" \notin TokenOptions \cup UserOptions
      /\ "adbc.spark.tls.enabled" \notin TokenOptions \cup UserOptions
      /\ TokenOptions \cap UserOptions = {}
      /\ DOMAIN HeaderOptions \cap (TokenOptions \cup UserOptions) = {}
      /\ UnknownOptions \cap (TokenOptions \cup UserOptions \cup DOMAIN HeaderOptions) = {}
      /\ \A k \in {"adbc.spark.user_agent", "adbc.spark.session_id", "adbc.spark.tls.enabled"} :
             k \notin DOMAIN HeaderOptions /\ k \notin UnknownOptions
  BY DEF TokenOptions, UserOptions, HeaderOptions, UnknownOptions
<1>3. ASSUME key \in TokenOptions PROVE Option(c, key, v) = [c EXCEPT !.Token = v]
  BY <1>2, <1>3 DEF Option
<1>4. ASSUME key \in UserOptions PROVE Option(c, key, v) = [c EXCEPT !.UserID = v]
  BY <1>2, <1>4 DEF Option
<1>5. ASSUME key = "adbc.spark.user_agent" PROVE Option(c, key, v) = [c EXCEPT !.UserAgent = v]
  BY <1>2, <1>5 DEF Option
<1>6. ASSUME key = "adbc.spark.session_id" PROVE Option(c, key, v) = [c EXCEPT !.SessionID = v]
  BY <1>2, <1>6 DEF Option
<1>7. ASSUME key = "adbc.spark.tls.enabled" PROVE Option(c, key, v) = SetTLS(c, v)
  BY <1>2, <1>7 DEF Option
<1>8. ASSUME key \in DOMAIN HeaderOptions PROVE Option(c, key, v) = SetHeader(c, HeaderOptions[key], v)
  BY <1>2, <1>8 DEF Option
<1>9. ASSUME key \in UnknownOptions PROVE Option(c, key, v) = Fail
  BY <1>2, <1>9 DEF Option
<1>10. ASSUME key \notin DOMAIN HeaderOptions \cup UnknownOptions,
              \A f \in Fields : key \notin OptionsOf(f)
       PROVE  Option(c, key, v) = c
  <2>1. key \notin TokenOptions \cup UserOptions
        /\ key \notin {"adbc.spark.user_agent", "adbc.spark.session_id", "adbc.spark.tls.enabled"}
    BY <1>1, <1>10 DEF Fields
  <2> QED
    BY <1>10, <2>1 DEF Option
<1> QED
  BY <1>1, <1>3, <1>4, <1>5, <1>6, <1>7, <1>8, <1>9, <1>10

\* One field is written.
LEMMA FieldOverlaid ==
  ASSUME NEW c, NEW d, NEW base, NEW opts, NEW done, NEW key, NEW f \in Fields,
         Overlaid(c, base, opts, done), key \in OptionsOf(f),
         NEW v \in AskedAt(opts, f, done \cup {key}), WithField(d, c, f, v)
  PROVE  Overlaid(d, base, opts, done \cup {key})
<1>1. \A g \in Fields \ {f} : AskedAt(opts, g, done \cup {key}) = AskedAt(opts, g, done)
  <2>1. \A g \in Fields \ {f} : key \notin OptionsOf(g)
    BY OptionKeys
  <2>2. \A g : key \notin OptionsOf(g) => AskedAt(opts, g, done \cup {key}) = AskedAt(opts, g, done)
    BY AskedOneMore, Zenon
  <2> QED
    BY <2>1, <2>2, Zenon
<1>2. \A h \in AllHeaders : AskedHeaderAt(opts, h, done \cup {key}) = AskedHeaderAt(opts, h, done)
  <2>1. key \notin DOMAIN HeaderOptions
    BY OptionKeys
  <2>2. \A h : (key \in DOMAIN HeaderOptions => HeaderOptions[key] # h) =>
               AskedHeaderAt(opts, h, done \cup {key}) = AskedHeaderAt(opts, h, done)
    BY AskedOneMore, Zenon
  <2> QED
    BY <2>1, <2>2, Zenon
<1>3. \A h \in AllHeaders : HeaderOf(d, h) = HeaderOf(c, h)
  BY DEF HeaderOf, WithField
<1>4. ASSUME NEW g \in Fields
      PROVE  IF AskedAt(opts, g, done \cup {key}) = {} THEN d[g] = base[g]
             ELSE d[g] \in AskedAt(opts, g, done \cup {key})
  BY <1>1 DEF Overlaid, WithField
<1> QED
  BY <1>2, <1>3, <1>4 DEF Overlaid, WithField

\* One header is written.
LEMMA HeaderOverlaid ==
  ASSUME NEW c, IsConfig(c), NEW base, NEW opts, NEW done, NEW key \in DOMAIN HeaderOptions,
         Overlaid(c, base, opts, done)
  PROVE  LET d == SetHeader(c, HeaderOptions[key], opts[key])
         IN  IsConfig(d) /\ Overlaid(d, base, opts, done \cup {key})
<1> DEFINE hdr == HeaderOptions[key]
           d == SetHeader(c, hdr, opts[key])
           new == [h \in DOMAIN c.Headers \cup {hdr} |-> IF h = hdr THEN opts[key] ELSE c.Headers[h]]
<1>1. d = [c EXCEPT !.Headers = new]
  BY DEF SetHeader
<1>2. HeaderOf([Headers |-> new], hdr) = {opts[key]}
      /\ \A h \in AllHeaders \ {hdr} : HeaderOf([Headers |-> new], h) = HeaderOf(c, h)
  BY DEF HeaderOf
<1> HIDE DEF new, d
<1>3. IsConfig(d) /\ d.Headers = new /\ d.Host = c.Host /\ d.Port = c.Port
      /\ \A f \in Fields : d[f] = c[f]
  BY <1>1, ConfigHeaders
<1>4. HeaderOf(d, hdr) = {opts[key]} /\ \A h \in AllHeaders \ {hdr} : HeaderOf(d, h) = HeaderOf(c, h)
  BY <1>2, <1>3 DEF HeaderOf
<1>5. \A f \in Fields : AskedAt(opts, f, done \cup {key}) = AskedAt(opts, f, done)
  <2>1. \A f \in Fields : key \notin OptionsOf(f)
    BY OptionKeys
  <2>2. \A f : key \notin OptionsOf(f) => AskedAt(opts, f, done \cup {key}) = AskedAt(opts, f, done)
    BY AskedOneMore, Zenon
  <2> QED
    BY <2>1, <2>2, Zenon
<1>6. \A h \in AllHeaders \ {hdr} : AskedHeaderAt(opts, h, done \cup {key}) = AskedHeaderAt(opts, h, done)
  BY AskedOneMore
<1>7. AskedHeaderAt(opts, hdr, done \cup {key}) = {opts[key]}
  BY OptionKeys DEF AskedHeaderAt, ValuesAt
<1> HIDE DEF hdr
<1>8. Overlaid(d, base, opts, done \cup {key})
  BY <1>3, <1>4, <1>5, <1>6, <1>7 DEF Overlaid
<1> QED
  BY <1>3, <1>8 DEF d, hdr

LEMMA OptionOverlaid ==
  ASSUME NEW c, IsConfig(c), NEW base, NEW opts, NEW done, NEW key,
         Overlaid(c, base, opts, done), Option(c, key, opts[key]) # Fail
  PROVE  /\ IsConfig(Option(c, key, opts[key]))
         /\ Overlaid(Option(c, key, opts[key]), base, opts, done \cup {key})
<1> DEFINE v == opts[key]
           d == Option(c, key, v)
<1>1. CASE key \in OptionsOf("Token")
  <2>1. d = [c EXCEPT !.Token = v]
    BY <1>1, OptionIs
  <2>2. WithField(d, c, "Token", v)
    BY <2>1, ConfigFields
  <2>3. v \in AskedAt(opts, "Token", done \cup {key}) /\ "Token" \in Fields
    BY <1>1, AskedOneMore DEF AskedAt, Fields
  <2> HIDE DEF d, v
  <2>4. Overlaid(d, base, opts, done \cup {key})
    BY <1>1, <2>2, <2>3, FieldOverlaid
  <2> QED
    BY <2>2, <2>4 DEF d, v, WithField
<1>2. CASE key \in OptionsOf("UserID")
  <2>1. d = [c EXCEPT !.UserID = v]
    BY <1>2, OptionIs
  <2>2. WithField(d, c, "UserID", v)
    BY <2>1, ConfigFields
  <2>3. v \in AskedAt(opts, "UserID", done \cup {key}) /\ "UserID" \in Fields
    BY <1>2, AskedOneMore DEF AskedAt, Fields
  <2> HIDE DEF d, v
  <2>4. Overlaid(d, base, opts, done \cup {key})
    BY <1>2, <2>2, <2>3, FieldOverlaid
  <2> QED
    BY <2>2, <2>4 DEF d, v, WithField
<1>3. CASE key \in OptionsOf("UserAgent")
  <2>1. d = [c EXCEPT !.UserAgent = v]
    BY <1>3, OptionIs
  <2>2. WithField(d, c, "UserAgent", v)
    BY <2>1, ConfigFields
  <2>3. v \in AskedAt(opts, "UserAgent", done \cup {key}) /\ "UserAgent" \in Fields
    BY <1>3, AskedOneMore DEF AskedAt, Fields
  <2> HIDE DEF d, v
  <2>4. Overlaid(d, base, opts, done \cup {key})
    BY <1>3, <2>2, <2>3, FieldOverlaid
  <2> QED
    BY <2>2, <2>4 DEF d, v, WithField
<1>4. CASE key \in OptionsOf("SessionID")
  <2>1. d = [c EXCEPT !.SessionID = v]
    BY <1>4, OptionIs
  <2>2. WithField(d, c, "SessionID", v)
    BY <2>1, ConfigFields
  <2>3. v \in AskedAt(opts, "SessionID", done \cup {key}) /\ "SessionID" \in Fields
    BY <1>4, AskedOneMore DEF AskedAt, Fields
  <2> HIDE DEF d, v
  <2>4. Overlaid(d, base, opts, done \cup {key})
    BY <1>4, <2>2, <2>3, FieldOverlaid
  <2> QED
    BY <2>2, <2>4 DEF d, v, WithField
<1>5. CASE key \in OptionsOf("UseTLS")
  <2>1. d = SetTLS(c, v)
    BY <1>5, OptionIs
  <2>2. v \in DOMAIN ParseBool /\ d = [c EXCEPT !.UseTLS = ParseBool[v]]
    BY <2>1, SetTLSIs
  <2>3. WithField(d, c, "UseTLS", ParseBool[v])
    BY <2>2, ConfigFields
  <2>4. ParseBool[v] \in AskedAt(opts, "UseTLS", done \cup {key}) /\ "UseTLS" \in Fields
    BY <1>5, <2>2, AskedOneMore DEF AskedAt, Fields
  <2> HIDE DEF d, v
  <2>5. Overlaid(d, base, opts, done \cup {key})
    BY <1>5, <2>3, <2>4, FieldOverlaid
  <2> QED
    BY <2>3, <2>5 DEF d, v, WithField
<1>6. CASE key \in DOMAIN HeaderOptions
  <2>1. d = SetHeader(c, HeaderOptions[key], v)
    BY <1>6, OptionIs
  <2> QED
    BY <1>6, <2>1, HeaderOverlaid
<1>7. CASE key \notin DOMAIN HeaderOptions /\ \A f \in Fields : key \notin OptionsOf(f)
  <2>1. d = c
    BY <1>7, OptionIs
  <2> HIDE DEF d, v
  <2>2. \A f \in Fields : AskedAt(opts, f, done \cup {key}) = AskedAt(opts, f, done)
    <3>1. \A f : key \notin OptionsOf(f) => AskedAt(opts, f, done \cup {key}) = AskedAt(opts, f, done)
      BY AskedOneMore
    <3> QED
      BY <1>7, <3>1
  <2>3. \A h \in AllHeaders : AskedHeaderAt(opts, h, done \cup {key}) = AskedHeaderAt(opts, h, done)
    <3>1. \A h : (key \in DOMAIN HeaderOptions => HeaderOptions[key] # h) =>
               AskedHeaderAt(opts, h, done \cup {key}) = AskedHeaderAt(opts, h, done)
      BY AskedOneMore
    <3> QED
      BY <1>7, <3>1
  <2> QED
    BY <2>1, <2>2, <2>3 DEF Overlaid, d, v
<1> QED
  BY <1>1, <1>2, <1>3, <1>4, <1>5, <1>6, <1>7 DEF Fields

-----------------------------------------------------------------------------
(* The inductive invariant of SetOptions.                                  *)

\* The Config that this call's options are written over, and the options that
\* it has written.
Base == IF Address = None THEN before ELSE ParseConnectionString(Render(Address))
Done == DOMAIN call.opts \ todo

\* Every Config allocated is one, and dbCfg and cfg point at them.
TypeInv ==
    /\ configs \in Seq({configs[n] : n \in DOMAIN configs})
    /\ \A n \in DOMAIN configs : IsConfig(configs[n])
    /\ dbCfg \in 0..Len(configs) /\ cfg \in 0..Len(configs) /\ calls \in 0..MaxCalls
    /\ outcome # "none" => calls > 0 /\ call \in Calls[calls]

\* The Config being written is its base with the options written so far over
\* it.
WritesOver ==
    outcome \in {"running", "OK"} =>
        /\ cfg > 0 /\ todo \subseteq DOMAIN call.opts
        /\ Overlaid(configs[cfg], Base, call.opts, Done)

\* Options are written straight into the database's Config exactly when the
\* call has no connection string; a parsed one replaces it only when every
\* option was good.
WritesInto ==
    /\ outcome = "running" => IF Address # None THEN dbCfg # cfg ELSE dbCfg = cfg
    /\ outcome = "running" /\ Address # None /\ todo = DOMAIN call.opts => configs[cfg] = Base
    /\ outcome = "OK" => dbCfg = cfg /\ todo = {}
    /\ outcome = "bad uri" => Address # None /\ Base = Fail

\* The inductive invariant of SetOptions.
ConfigInv == TypeInv /\ WritesOver /\ WritesInto /\ FailedCallKeepsConfig

\* Sequences, when nothing is known of their elements.
LEMMA SelfTyped ==
  ASSUME NEW T, NEW s \in Seq(T)
  PROVE  s \in Seq({s[n] : n \in DOMAIN s})
<1>1. s \in [1..Len(s) -> T] /\ Len(s) \in Nat /\ DOMAIN s = 1..Len(s)
  OBVIOUS
<1> DEFINE R == {s[n] : n \in DOMAIN s}
<1>2. \A n \in 1..Len(s) : s[n] \in R
  BY <1>1
<1> HIDE DEF R
<1>3. s \in Seq(R)
  BY <1>1, <1>2
<1> QED
  BY <1>3 DEF R

LEMMA AppendIs ==
  ASSUME NEW T, NEW s \in Seq(T), NEW e
  PROVE  LET r == Append(s, e) IN
         /\ r \in Seq({r[n] : n \in DOMAIN r}) /\ Len(r) = Len(s) + 1 /\ r[Len(s) + 1] = e
         /\ DOMAIN r = 1..Len(s) + 1 /\ DOMAIN s = 1..Len(s)
         /\ \A n \in 1..Len(s) : r[n] = s[n]
<1> DEFINE r == Append(s, e)
<1>1. s \in Seq(T \cup {e}) /\ Len(s) \in Nat
  BY SeqOfMore
<1>2. r \in Seq(T \cup {e}) /\ Len(r) = Len(s) + 1 /\ r[Len(s) + 1] = e
      /\ \A n \in 1..Len(s) : r[n] = s[n]
  BY <1>1
<1>3. r \in Seq({r[n] : n \in DOMAIN r})
  BY <1>2, SelfTyped
<1>4. DOMAIN r = 1..Len(r) /\ DOMAIN s = 1..Len(s)
  BY <1>1, <1>2
<1> QED
  BY <1>2, <1>3, <1>4

LEMMA ReplaceIs ==
  ASSUME NEW T, NEW s \in Seq(T), NEW m \in 1..Len(s), NEW e
  PROVE  LET r == [s EXCEPT ![m] = e] IN
         /\ r \in Seq({r[n] : n \in DOMAIN r}) /\ Len(r) = Len(s) /\ DOMAIN r = DOMAIN s
         /\ r[m] = e /\ \A n \in DOMAIN s : n # m => r[n] = s[n]
<1> DEFINE r == [s EXCEPT ![m] = e]
<1>1. s \in Seq(T \cup {e}) /\ Len(s) \in Nat
  BY SeqOfMore
<1>2. r \in Seq(T \cup {e}) /\ Len(r) = Len(s) /\ DOMAIN r = DOMAIN s
  BY <1>1
<1>4. r[m] = e /\ \A n \in DOMAIN s : n # m => r[n] = s[n]
  BY <1>1
<1> HIDE DEF r
<1>3. r \in Seq({r[n] : n \in DOMAIN r})
  BY <1>2, SelfTyped
<1> QED
  BY <1>2, <1>3, <1>4 DEF r

\* What some options ask, all of them ask; of a header with several options,
\* one is enough.
LEMMA AskedWhenDone ==
  ASSUME NEW opts
  PROVE  /\ \A f : \A done \in SUBSET DOMAIN opts : AskedAt(opts, f, done) \subseteq AskedAt(opts, f, DOMAIN opts)
         /\ \A h : \A done \in SUBSET DOMAIN opts : AskedHeaderAt(opts, h, done) # {} =>
               AskedHeaderAt(opts, h, done) = AskedHeaderAt(opts, h, DOMAIN opts)
<1>1. \A keys : \A done \in SUBSET DOMAIN opts : ValuesAt(opts, keys, done) \subseteq ValuesAt(opts, keys, DOMAIN opts)
  BY DEF ValuesAt
<1>2. ASSUME NEW done \in SUBSET DOMAIN opts, NEW f
      PROVE  AskedAt(opts, f, done) \subseteq AskedAt(opts, f, DOMAIN opts)
  BY <1>1 DEF AskedAt
<1>3. ASSUME NEW done \in SUBSET DOMAIN opts, NEW h, AskedHeaderAt(opts, h, done) # {}
      PROVE  AskedHeaderAt(opts, h, done) = AskedHeaderAt(opts, h, DOMAIN opts)
  BY <1>3, OptionKeys DEF AskedHeaderAt, ValuesAt
<1> QED
  BY <1>2, <1>3

\* The property's Asked is about all options of the call.
LEMMA AskedIs ==
  /\ \A f \in Fields : Asked(f) = AskedAt(call.opts, f, DOMAIN call.opts)
  /\ \A h : AskedHeader(h) = AskedHeaderAt(call.opts, h, DOMAIN call.opts)
<1>1. \A keys : Values(keys) = ValuesAt(call.opts, keys, DOMAIN call.opts)
  BY DEF Values, ValuesAt
<1> QED
  BY <1>1 DEF Asked, AskedAt, AskedHeader, AskedHeaderAt

\* A new database satisfies the invariant.
LEMMA InitConfig == Init => ConfigInv
<1> SUFFICES ASSUME Init PROVE ConfigInv
  OBVIOUS
<1>1. MaxCalls \in Nat
  BY CallsAssumption DEF MaxCalls
<1>2. configs \in Seq({}) /\ Len(configs) = 0 /\ DOMAIN configs = {}
  BY DEF Init
<1>3. configs \in Seq({configs[n] : n \in DOMAIN configs})
  BY <1>2, SelfTyped
<1>4. TypeInv
  BY <1>1, <1>2, <1>3 DEF TypeInv, Init
<1> QED
  BY <1>4 DEF ConfigInv, WritesOver, WritesInto, FailedCallKeepsConfig, Init

\* The call being made is one of those offered.
LEMMA CallIsOfCalls ==
  ASSUME TypeInv, NEW k, k \in Offered, calls' = calls + 1
  PROVE  calls' \in 0..MaxCalls /\ calls' > 0 /\ k \in Calls[calls']
<1>1. MaxCalls \in Nat
  BY CallsAssumption DEF MaxCalls
<1> QED
  BY <1>1 DEF TypeInv, Offered

\* Its connection string is an address.
LEMMA UriIsAddress ==
  ASSUME NEW n \in 1..MaxCalls, NEW k \in Calls[n], firstNonEmpty(k) # None
  PROVE  IsAddress(firstNonEmpty(k))
<1>1. DOMAIN Calls = 1..MaxCalls
  BY CallsAssumption DEF MaxCalls
<1>2. firstNonEmpty(k) \in {k.uri, k.sparkURI} \ {None}
  BY DEF firstNonEmpty
<1> QED
  BY <1>1, <1>2, CallsAssumption

\* Every field of an overlaid Config is asked for, or is as it was.
LEMMA OverlaidKeeps ==
  ASSUME NEW c, NEW base, NEW opts, NEW done \in SUBSET DOMAIN opts, Overlaid(c, base, opts, done)
  PROVE  /\ c.Host = base.Host /\ c.Port = base.Port
         /\ \A f \in Fields : c[f] \in AskedAt(opts, f, DOMAIN opts) \cup {base[f]}
         /\ \A h \in AllHeaders :
               HeaderOf(c, h) \in {HeaderOf(base, h), AskedHeaderAt(opts, h, DOMAIN opts)}
<1>1. \A f \in Fields : AskedAt(opts, f, done) \subseteq AskedAt(opts, f, DOMAIN opts)
  BY AskedWhenDone
<1>2. \A h \in AllHeaders : AskedHeaderAt(opts, h, done) # {} =>
         AskedHeaderAt(opts, h, done) = AskedHeaderAt(opts, h, DOMAIN opts)
  BY AskedWhenDone
<1>3. \A f \in Fields : c[f] \in AskedAt(opts, f, DOMAIN opts) \cup {base[f]}
  BY <1>1 DEF Overlaid
<1>4. \A h \in AllHeaders :
         HeaderOf(c, h) \in {HeaderOf(base, h), AskedHeaderAt(opts, h, DOMAIN opts)}
  BY <1>2 DEF Overlaid
<1> QED
  BY <1>3, <1>4 DEF Overlaid

\* Each step keeps the invariant: the call that starts or is refused at once,
LEMMA SetOptionsKeeps ==
  ASSUME ConfigInv, SetOptions
  PROVE  ConfigInv'
<1>1. PICK k \in Offered :
         LET uri == firstNonEmpty(k) IN
         /\ outcome # "running"
         /\ call' = k /\ before' = Current /\ calls' = calls + 1
         /\ IF uri = None
            THEN IF dbCfg = 0 THEN Refuse("no uri")
                 ELSE cfg' = dbCfg /\ StartOptions(k) /\ UNCHANGED <<configs, dbCfg>>
            ELSE LET new == ParseConnectionString(Render(uri)) IN
                 IF new = Fail THEN Refuse("bad uri")
                 ELSE AllocateConfig(new) /\ StartOptions(k)
  BY DEF SetOptions
<1>2. TypeInv
  BY DEF ConfigInv
<1>3. calls' \in 0..MaxCalls /\ calls' > 0 /\ call' \in Calls[calls']
  BY <1>1, <1>2, CallIsOfCalls
<1>4. Address' = firstNonEmpty(k)
  BY <1>1 DEF Address
<1>5. CASE firstNonEmpty(k) = None /\ dbCfg = 0
  <2>1. outcome' = "no uri" /\ UNCHANGED <<configs, dbCfg, cfg, todo>> /\ before' = None
    BY <1>1, <1>5 DEF Refuse, Current
  <2>2. TypeInv'
    BY <1>2, <1>3, <2>1 DEF TypeInv
  <2>3. Current' = before'
    BY <1>1, <2>1 DEF Current
  <2> QED
    BY <2>1, <2>2, <2>3 DEF ConfigInv, WritesOver, WritesInto, FailedCallKeepsConfig
<1>6. CASE firstNonEmpty(k) = None /\ dbCfg # 0
  <2>1. /\ outcome' = "running" /\ todo' = DOMAIN k.opts /\ cfg' = dbCfg
        /\ UNCHANGED <<configs, dbCfg>> /\ before' = configs[dbCfg]
    BY <1>1, <1>6 DEF StartOptions, Current
  <2>2. TypeInv'
    BY <1>2, <1>3, <2>1 DEF TypeInv
  <2>3. Current' = before' /\ Base' = before' /\ configs'[cfg'] = before' /\ Done' = {}
    BY <1>1, <1>4, <1>6, <2>1 DEF Current, Base, Done
  <2>4. Overlaid(before', before', k.opts, {})
    BY NothingOverlaid
  <2>5. WritesOver'
    BY <1>1, <1>2, <1>6, <2>1, <2>3, <2>4 DEF WritesOver, TypeInv
  <2>6. WritesInto'
    BY <1>4, <1>6, <2>1 DEF WritesInto
  <2>7. FailedCallKeepsConfig'
    BY <2>3 DEF FailedCallKeepsConfig
  <2> QED
    BY <2>2, <2>5, <2>6, <2>7 DEF ConfigInv
<1>7. ASSUME firstNonEmpty(k) # None, ParseConnectionString(Render(firstNonEmpty(k))) = Fail
      PROVE  ConfigInv'
  <2>1. outcome' = "bad uri" /\ UNCHANGED <<configs, dbCfg, cfg, todo>>
    BY <1>1, <1>7 DEF Refuse
  <2>2. TypeInv'
    BY <1>2, <1>3, <2>1 DEF TypeInv
  <2>3. Current' = before' /\ Base' = Fail
    BY <1>1, <1>4, <1>7, <2>1 DEF Current, Base
  <2> QED
    BY <1>4, <1>7, <2>1, <2>2, <2>3 DEF ConfigInv, WritesOver, WritesInto, FailedCallKeepsConfig
<1>8. ASSUME firstNonEmpty(k) # None, ParseConnectionString(Render(firstNonEmpty(k))) # Fail
      PROVE  ConfigInv'
  <2> DEFINE new == ParseConnectionString(Render(firstNonEmpty(k)))
  <2>1. /\ outcome' = "running" /\ todo' = DOMAIN k.opts /\ configs' = Append(configs, new)
        /\ cfg' = Len(configs') /\ dbCfg' = dbCfg
    BY <1>1, <1>8 DEF StartOptions, AllocateConfig
  <2>2. IsConfig(new)
    <3>1. IsAddress(firstNonEmpty(k))
      BY <1>1, <1>3, <1>8, UriIsAddress
    <3>2. Render(firstNonEmpty(k)) \in Seq(Tokens)
      BY <3>1, RenderType
    <3> QED
      BY <1>8, <3>2, ParseType
  <2>3. Base' = new
    BY <1>4, <1>8 DEF Base
  <2> HIDE DEF new
  <2>4. /\ configs' \in Seq({configs'[n] : n \in DOMAIN configs'}) /\ Len(configs') = Len(configs) + 1
        /\ DOMAIN configs' = 1..Len(configs) + 1 /\ DOMAIN configs = 1..Len(configs)
        /\ configs'[Len(configs) + 1] = new
        /\ \A n \in 1..Len(configs) : configs'[n] = configs[n]
    <3> DEFINE R == {configs[n] : n \in DOMAIN configs}
    <3>1. configs \in Seq(R)
      BY <1>2 DEF TypeInv
    <3> HIDE DEF R
    <3>2. /\ Append(configs, new) \in Seq({Append(configs, new)[n] : n \in DOMAIN Append(configs, new)})
          /\ Len(Append(configs, new)) = Len(configs) + 1
          /\ Append(configs, new)[Len(configs) + 1] = new
          /\ DOMAIN Append(configs, new) = 1..Len(configs) + 1 /\ DOMAIN configs = 1..Len(configs)
          /\ \A n \in 1..Len(configs) : Append(configs, new)[n] = configs[n]
      BY <3>1, AppendIs
    <3> QED
      BY <2>1, <3>2
  <2>5. Len(configs) \in Nat /\ dbCfg \in 0..Len(configs)
    BY <1>2 DEF TypeInv
  <2>6. TypeInv'
    <3>1. \A n \in DOMAIN configs' : IsConfig(configs'[n])
      <4>1. \A n \in 1..Len(configs) : IsConfig(configs'[n])
        BY <1>2, <2>4 DEF TypeInv
      <4>2. \A n \in DOMAIN configs' : n \in 1..Len(configs) \/ n = Len(configs) + 1
        BY <2>4, <2>5
      <4> QED
        BY <2>2, <2>4, <4>1, <4>2, Zenon
    <3>2. dbCfg' \in 0..Len(configs') /\ cfg' \in 0..Len(configs')
      BY <2>1, <2>4, <2>5
    <3> QED
      BY <1>3, <2>4, <3>1, <3>2, Zenon DEF TypeInv
  <2>7. Current' = before' /\ configs'[cfg'] = new /\ cfg' > 0 /\ dbCfg' # cfg'
    <3>1. cfg' = Len(configs) + 1 /\ dbCfg' = dbCfg /\ before' = Current
      BY <1>1, <2>1, <2>4
    <3>2. dbCfg # 0 => configs'[dbCfg] = configs[dbCfg]
      BY <2>4, <2>5
    <3>3. Current' = Current
      BY <3>1, <3>2 DEF Current
    <3> QED
      BY <2>4, <2>5, <3>1, <3>3
  <2>8. Done' = {}
    BY <1>1, <2>1 DEF Done
  <2>9. Overlaid(new, new, k.opts, {})
    BY NothingOverlaid
  <2>10. WritesOver'
    BY <1>1, <2>1, <2>3, <2>7, <2>8, <2>9 DEF WritesOver
  <2>11. WritesInto'
    BY <1>4, <1>8, <2>1, <2>3, <2>7 DEF WritesInto
  <2>12. FailedCallKeepsConfig'
    BY <1>4, <1>8, <2>7 DEF FailedCallKeepsConfig
  <2> QED
    BY <2>6, <2>10, <2>11, <2>12 DEF ConfigInv
<1> QED
  BY <1>5, <1>6, <1>7, <1>8

\* one option of the map, good or bad,
LEMMA ApplyOptionKeeps ==
  ASSUME ConfigInv, ApplyOption
  PROVE  ConfigInv'
<1>1. PICK key \in todo :
         LET new == Option(configs[cfg], key, call.opts[key]) IN
         /\ outcome = "running"
         /\ todo' = todo \ {key}
         /\ IF new = Fail
            THEN /\ outcome' = IF key \in UnknownOptions THEN "unknown option"
                               ELSE "bad boolean"
                 /\ UNCHANGED configs
            ELSE configs' = [configs EXCEPT ![cfg] = new] /\ UNCHANGED outcome
         /\ UNCHANGED <<dbCfg, cfg, call, before, calls>>
  BY DEF ApplyOption
<1> DEFINE new == Option(configs[cfg], key, call.opts[key])
<1>2. TypeInv /\ WritesOver /\ WritesInto /\ FailedCallKeepsConfig
  BY DEF ConfigInv
<1>3. Address' = Address /\ Base' = Base
  BY <1>1 DEF Address, Base
<1>4. \A f \in Fields : Asked(f)' = Asked(f)
  BY <1>1 DEF Asked, Values
<1>5. \A h : AskedHeader(h)' = AskedHeader(h)
  BY <1>1 DEF AskedHeader, Values
<1>6. CASE new = Fail
  <2>1. outcome' \in {"unknown option", "bad boolean"} /\ UNCHANGED configs
    BY <1>1, <1>6
  <2>2. TypeInv'
    BY <1>1, <1>2, <2>1 DEF TypeInv
  <2>3. Current' = Current
    BY <1>1, <2>1 DEF Current
  <2>4. FailedCallKeepsConfig'
    BY <1>1, <1>2, <1>3, <1>4, <1>5, <2>3 DEF FailedCallKeepsConfig
  <2> QED
    BY <2>1, <2>2, <2>4 DEF ConfigInv, WritesOver, WritesInto
<1>7. CASE new # Fail
  <2>1. configs' = [configs EXCEPT ![cfg] = new] /\ outcome' = "running"
    BY <1>1, <1>7
  <2>2. cfg \in 1..Len(configs) /\ Len(configs) \in Nat /\ DOMAIN configs = 1..Len(configs)
    <3> HIDE DEF new
    <3>1. cfg \in 0..Len(configs) /\ Len(configs) \in Nat
      BY <1>2 DEF TypeInv
    <3>3. cfg > 0
      BY <1>1, <1>2 DEF WritesOver
    <3>2. DOMAIN configs = 1..Len(configs)
      BY <1>2 DEF TypeInv
    <3> QED
      BY <3>1, <3>2, <3>3
  <2>3. IsConfig(configs[cfg]) /\ Overlaid(configs[cfg], Base, call.opts, Done)
    BY <1>1, <1>2, <2>2 DEF TypeInv, WritesOver
  <2>4. IsConfig(new) /\ Overlaid(new, Base, call.opts, Done \cup {key})
    BY <1>7, <2>3, OptionOverlaid
  <2>5. todo \subseteq DOMAIN call.opts
    BY <1>1, <1>2 DEF WritesOver
  <2>6. Done' = Done \cup {key} /\ Done' \subseteq DOMAIN call.opts
    BY <1>1, <2>5 DEF Done
  <2> HIDE DEF new
  <2>7. /\ configs' \in Seq({configs'[n] : n \in DOMAIN configs'}) /\ Len(configs') = Len(configs)
        /\ DOMAIN configs' = DOMAIN configs
        /\ configs'[cfg] = new /\ \A n \in DOMAIN configs : n # cfg => configs'[n] = configs[n]
    <3> DEFINE R == {configs[n] : n \in DOMAIN configs}
               s == [configs EXCEPT ![cfg] = new]
    <3>1. configs \in Seq(R)
      BY <1>2 DEF TypeInv
    <3> HIDE DEF R
    <3>2. /\ s \in Seq({s[n] : n \in DOMAIN s}) /\ Len(s) = Len(configs) /\ DOMAIN s = DOMAIN configs
          /\ s[cfg] = new /\ \A n \in DOMAIN configs : n # cfg => s[n] = configs[n]
      BY <2>2, <3>1, ReplaceIs
    <3> HIDE DEF s
    <3>3. configs' = s
      BY <2>1 DEF s
    <3> QED
      BY <3>2, <3>3
  <2>8. TypeInv'
    BY <1>1, <1>2, <2>1, <2>2, <2>4, <2>7 DEF TypeInv
  <2>9. WritesOver'
    BY <1>1, <1>3, <2>1, <2>2, <2>4, <2>5, <2>6, <2>7 DEF WritesOver
  <2>10. WritesInto'
    BY <1>1, <1>2, <1>3, <2>1, <2>5 DEF WritesInto
  <2>11. CASE Address # None
    <3>1. dbCfg # cfg /\ dbCfg \in 0..Len(configs)
      BY <1>1, <1>2, <2>11 DEF WritesInto, TypeInv
    <3>2. Current' = Current
      <4>1. dbCfg # 0 => configs'[dbCfg] = configs[dbCfg]
        BY <2>2, <2>7, <3>1
      <4> QED
        BY <1>1, <4>1 DEF Current
    <3>3. FailedCallKeepsConfig'
      BY <1>1, <1>2, <1>3, <2>11, <3>2 DEF FailedCallKeepsConfig
    <3> QED
      BY <2>8, <2>9, <2>10, <3>3 DEF ConfigInv
  <2>12. CASE Address = None
    <3>1. dbCfg = cfg /\ dbCfg # 0
      <4>1. dbCfg = cfg
        BY <1>1, <1>2, <2>12 DEF WritesInto
      <4> QED
        BY <2>2, <4>1
    <3>2. Current' = new /\ Base = before
      BY <1>1, <2>7, <2>12, <3>1 DEF Current, Base
    <3>3. before # None
      <4>1. Current # None
        BY <2>3, <3>1 DEF Current, IsConfig, None
      <4> QED
        BY <1>1, <1>2, <2>12, <4>1 DEF FailedCallKeepsConfig
    <3>4. /\ new.Host = before.Host /\ new.Port = before.Port
          /\ \A f \in Fields : new[f] \in AskedAt(call.opts, f, DOMAIN call.opts) \cup {before[f]}
          /\ \A h \in AllHeaders : HeaderOf(new, h) \in
                {HeaderOf(before, h), AskedHeaderAt(call.opts, h, DOMAIN call.opts)}
      BY <2>4, <2>6, <3>2, OverlaidKeeps
    <3>5. FailedCallKeepsConfig'
      BY <1>1, <1>3, <1>4, <1>5, <2>12, <3>2, <3>3, <3>4, AskedIs DEF FailedCallKeepsConfig
    <3> QED
      BY <2>8, <2>9, <2>10, <3>5 DEF ConfigInv
  <2> QED
    BY <2>11, <2>12
<1> QED
  BY <1>6, <1>7

\* and the end, when the parsed Config becomes the database's.
LEMMA AssignConfigKeeps ==
  ASSUME ConfigInv, AssignConfig
  PROVE  ConfigInv'
<1>1. /\ outcome = "running" /\ todo = {} /\ dbCfg' = cfg /\ outcome' = "OK"
      /\ UNCHANGED <<configs, cfg, todo, call, before, calls>>
  BY DEF AssignConfig
<1>2. Base' = Base /\ Done' = Done
  BY <1>1 DEF Base, Done, Address
<1> QED
  BY <1>1, <1>2 DEF ConfigInv, TypeInv, WritesOver, WritesInto, FailedCallKeepsConfig

LEMMA StutterKeeps ==
  ASSUME ConfigInv, UNCHANGED vars
  PROVE  ConfigInv'
<1>1. UNCHANGED <<configs, dbCfg, cfg, todo, outcome, call, before, calls>>
  BY DEF vars
<1>2. Base' = Base /\ Done' = Done /\ Address' = Address /\ Current' = Current
  BY <1>1 DEF Base, Done, Address, Current
<1>3. FailedCallKeepsConfig'
  <2>1. \A f \in Fields : Asked(f)' = Asked(f)
    BY <1>1 DEF Asked, Values
  <2>2. \A h : AskedHeader(h)' = AskedHeader(h)
    BY <1>1 DEF AskedHeader, Values
  <2> QED
    BY <1>1, <1>2, <2>1, <2>2 DEF ConfigInv, FailedCallKeepsConfig
<1>4. TypeInv' /\ WritesOver' /\ WritesInto'
  BY <1>1, <1>2 DEF ConfigInv, TypeInv, WritesOver, WritesInto
<1> QED
  BY <1>3, <1>4 DEF ConfigInv

\* SetOptions, called any number of times with any strings and options: the
\* Config it writes into is always the base overlaid with the options taken so
\* far, into the database's own only without a connection string
\* (database.go:44).
THEOREM ConfigInvariant == Spec => []ConfigInv
<1>1. ConfigInv /\ [Next]_vars => ConfigInv'
  BY SetOptionsKeeps, ApplyOptionKeeps, AssignConfigKeeps, StutterKeeps DEF Next
<1> QED
  BY InitConfig, <1>1, PTL DEF Spec

\* A call with a connection string that is refused, for the string or for any
\* of its options, leaves the database's Config as it was (database.go:49-63,
\* 109).
THEOREM RefusedCallKeepsConfig == Spec => []FailedCallKeepsConfig
<1>1. ConfigInv => FailedCallKeepsConfig
  BY DEF ConfigInv
<1> QED
  BY ConfigInvariant, <1>1, PTL

\* The invariant at the end of a call is the property.
LEMMA PrecedenceFollows ==
  ASSUME ConfigInv, outcome = "OK"
  PROVE  OptionsTakePrecedence
<1> DEFINE opts == call.opts
<1>1. Done = DOMAIN opts /\ dbCfg = cfg /\ cfg > 0 /\ Current = configs[cfg]
  BY DEF ConfigInv, WritesInto, WritesOver, Done, Current
<1>2. Overlaid(Current, Base, opts, DOMAIN opts)
  BY <1>1 DEF ConfigInv, WritesOver
<1>3. \A f \in Fields : IF Asked(f) = {} THEN Current[f] = Base[f] ELSE Current[f] \in Asked(f)
  BY <1>2, AskedIs DEF Overlaid
<1>4. \A h \in AllHeaders : HeaderOf(Current, h) = IF AskedHeader(h) = {} THEN HeaderOf(Base, h)
                                                  ELSE AskedHeader(h)
  BY <1>2, AskedIs DEF Overlaid
<1>5. \A h : AskedHeader(h) # {} => h \in AllHeaders
  BY OptionKeys DEF AskedHeader, Values
<1>6. \A h : AskedHeader(h) \subseteq Values(DOMAIN HeaderOptions)
  BY DEF AskedHeader, Values
<1>7. ASSUME NEW h \in AllHeaders, AskedHeader(h) # {},
             \A o \in DOMAIN Current.Headers : ToLower(o) = ToLower(h) => AskedHeader(o) # {}
      PROVE  Candidates(Current, ToLower(h)) \subseteq Values(DOMAIN HeaderOptions)
  <2> DEFINE given == {Current.Headers[o] : o \in {o \in DOMAIN Current.Headers : ToLower(o) = ToLower(h)}}
  <2>1. h \in DOMAIN Current.Headers
    BY <1>4, <1>7 DEF HeaderOf
  <2>2. given # {}
    BY <2>1
  <2>3. ASSUME NEW o \in DOMAIN Current.Headers, ToLower(o) = ToLower(h)
        PROVE  Current.Headers[o] \in Values(DOMAIN HeaderOptions)
    <3>1. AskedHeader(o) # {} /\ o \in AllHeaders
      BY <1>5, <1>7, <2>3
    <3>2. HeaderOf(Current, o) = AskedHeader(o)
      BY <1>4, <3>1
    <3>3. Current.Headers[o] \in AskedHeader(o)
      BY <2>3, <3>2 DEF HeaderOf
    <3> QED
      BY <1>6, <3>3
  <2>4. given \subseteq Values(DOMAIN HeaderOptions)
    BY <2>3
  <2>5. Candidates(Current, ToLower(h)) = given
    BY <2>2 DEF Candidates
  <2> QED
    BY <2>4, <2>5
<1>8. Current.Host = Base.Host /\ Current.Port = Base.Port
  BY <1>2 DEF Overlaid
<1>9. \A f \in Fields : Current[f] \in IF Asked(f) = {} THEN {Base[f]} \cup Inferred(f)
                                         ELSE Asked(f)
  BY <1>3
<1> QED
  BY <1>4, <1>7, <1>8, <1>9 DEF OptionsTakePrecedence, Base

\* When SetOptions succeeds, every field is what an option asked, or what the
\* string (or the earlier Config) has where no option asks (or, for TLS with a
\* token, what the token implies), in whatever order the map was walked
\* (database.go:65-107).
THEOREM LastWordIsTheOption == Spec => []OptionsTakePrecedence
<1>1. ConfigInv => OptionsTakePrecedence
  BY PrecedenceFollows DEF OptionsTakePrecedence
<1> QED
  BY ConfigInvariant, <1>1, PTL

-----------------------------------------------------------------------------
(* 8. Where an address is cut.                                             *)

\* Length and elements of a slice.
LEMMA SubSeqIs ==
  ASSUME NEW T, NEW s \in Seq(T), NEW m \in Nat, NEW n \in Nat, m >= 1, n <= Len(s), m <= n + 1
  PROVE  /\ SubSeq(s, m, n) \in Seq(T) /\ Len(SubSeq(s, m, n)) = n + 1 - m
         /\ \A k \in 1..(n + 1 - m) : SubSeq(s, m, n)[k] = s[m + k - 1]
<1>1. SubSeq(s, m, n) \in Seq(T) /\ Len(SubSeq(s, m, n)) = n + 1 - m
  OBVIOUS
<1>2. \A k \in 1..(n + 1 - m) : SubSeq(s, m, n)[k] = s[m + k - 1]
  OBVIOUS
<1> QED
  BY <1>1, <1>2

\* Sequences with the same elements are equal.
LEMMA SeqsEqual ==
  ASSUME NEW T, NEW s \in Seq(T), NEW r \in Seq(T), Len(s) = Len(r),
         \A k \in 1..Len(s) : s[k] = r[k]
  PROVE  s = r
OBVIOUS

\* s is x, the separator and y.
LEMMA Around ==
  ASSUME NEW T, NEW x \in Seq(T), NEW sep \in Seq(T), NEW y \in Seq(T)
  PROVE  LET s == x \o (sep \o y) IN
         /\ s \in Seq(T) /\ Len(s) = Len(x) + Len(sep) + Len(y)
         /\ \A k \in 1..Len(x) : s[k] = x[k]
         /\ \A k \in 1..Len(sep) : s[Len(x) + k] = sep[k]
         /\ \A k \in 1..Len(y) : s[Len(x) + Len(sep) + k] = y[k]
<1> DEFINE r == sep \o y
           s == x \o r
<1>1. /\ r \in Seq(T) /\ Len(r) = Len(sep) + Len(y)
      /\ \A k \in 1..Len(sep) : r[k] = sep[k]
      /\ \A k \in 1..Len(y) : r[Len(sep) + k] = y[k]
  BY Concatenated
<1> HIDE DEF r
<1>2. /\ s \in Seq(T) /\ Len(s) = Len(x) + Len(r)
      /\ \A k \in 1..Len(x) : s[k] = x[k]
      /\ \A k \in 1..Len(r) : s[Len(x) + k] = r[k]
  <2>1. r \in Seq(T)
    BY <1>1
  <2> QED
    BY <2>1, Concatenated
<1> HIDE DEF s
<1>3. Len(x) \in Nat /\ Len(sep) \in Nat /\ Len(y) \in Nat
  OBVIOUS
<1>4. Len(s) = Len(x) + Len(sep) + Len(y)
  BY <1>1, <1>2, <1>3
<1>5. ASSUME NEW k \in 1..Len(sep) PROVE s[Len(x) + k] = sep[k]
  BY <1>1, <1>2, <1>3
<1>6. ASSUME NEW k \in 1..Len(y) PROVE s[Len(x) + Len(sep) + k] = y[k]
  <2>1. Len(sep) + k \in 1..Len(r) /\ Len(x) + (Len(sep) + k) = Len(x) + Len(sep) + k
    BY <1>1, <1>3
  <2> QED
    BY <1>1, <1>2, <2>1
<1> QED
  BY <1>2, <1>4, <1>5, <1>6 DEF s, r

\* Its three slices.
LEMMA AroundParts ==
  ASSUME NEW T, NEW x \in Seq(T), NEW sep \in Seq(T), NEW y \in Seq(T)
  PROVE  LET s == x \o (sep \o y) IN
         /\ SubSeq(s, 1, Len(x)) = x
         /\ SubSeq(s, Len(x) + 1, Len(x) + Len(sep)) = sep
         /\ SubSeq(s, Len(x) + Len(sep) + 1, Len(s)) = y
<1> DEFINE s == x \o (sep \o y)
<1>1. /\ s \in Seq(T) /\ Len(s) = Len(x) + Len(sep) + Len(y)
      /\ \A k \in 1..Len(x) : s[k] = x[k]
      /\ \A k \in 1..Len(sep) : s[Len(x) + k] = sep[k]
      /\ \A k \in 1..Len(y) : s[Len(x) + Len(sep) + k] = y[k]
  BY Around
<1> HIDE DEF s
<1>2. Len(x) \in Nat /\ Len(sep) \in Nat /\ Len(y) \in Nat
  OBVIOUS
<1>3. SubSeq(s, 1, Len(x)) = x
  <2> DEFINE u == SubSeq(s, 1, Len(x))
  <2>1. u \in Seq(T) /\ Len(u) = Len(x) /\ \A k \in 1..Len(x) : u[k] = s[k]
    BY <1>1, <1>2, SubSeqIs
  <2> HIDE DEF u
  <2>2. u = x
    BY <1>1, <2>1, SeqsEqual
  <2> QED
    BY <2>2 DEF u
<1>4. SubSeq(s, Len(x) + 1, Len(x) + Len(sep)) = sep
  <2> DEFINE u == SubSeq(s, Len(x) + 1, Len(x) + Len(sep))
  <2>1. u \in Seq(T) /\ Len(u) = Len(sep) /\ \A k \in 1..Len(sep) : u[k] = s[Len(x) + 1 + k - 1]
    BY <1>1, <1>2, SubSeqIs
  <2> HIDE DEF u
  <2>2. \A k \in 1..Len(sep) : s[Len(x) + k] = sep[k] /\ Len(x) + 1 + k - 1 = Len(x) + k
    BY <1>1, <1>2
  <2>3. \A k \in 1..Len(sep) : u[k] = sep[k]
    BY <2>1, <2>2, Zenon
  <2>4. u = sep
    BY <2>1, <2>3, SeqsEqual
  <2> QED
    BY <2>4 DEF u
<1>5. SubSeq(s, Len(x) + Len(sep) + 1, Len(s)) = y
  <2> DEFINE u == SubSeq(s, Len(x) + Len(sep) + 1, Len(s))
  <2>1. u \in Seq(T) /\ Len(u) = Len(y)
        /\ \A k \in 1..Len(y) : u[k] = s[Len(x) + Len(sep) + 1 + k - 1]
    BY <1>1, <1>2, SubSeqIs
  <2> HIDE DEF u
  <2>2. \A k \in 1..Len(y) : /\ s[Len(x) + Len(sep) + k] = y[k]
                             /\ Len(x) + Len(sep) + 1 + k - 1 = Len(x) + Len(sep) + k
    BY <1>1, <1>2
  <2>3. \A k \in 1..Len(y) : u[k] = y[k]
    BY <2>1, <2>2, Zenon
  <2>4. u = y
    BY <2>1, <2>3, SeqsEqual
  <2> QED
    BY <2>4 DEF u
<1> QED
  BY <1>3, <1>4, <1>5 DEF s

\* Cut at a separator, with x before it and y after it.
CutTo(x, y) == [found |-> TRUE, before |-> x, after |-> y]

\* Cut finds the separator when its first token is not in x.
LEMMA CutIs ==
  ASSUME NEW T, NEW x \in Seq(T), NEW sep \in Seq(T), NEW y \in Seq(T), sep # <<>>,
         \A k \in 1..Len(x) : x[k] # sep[1]
  PROVE  Cut(x \o (sep \o y), sep) = CutTo(x, y)
<1> DEFINE s == x \o (sep \o y)
           m == Len(x) + 1
           O == Occurrences(s, sep)
<1>1. Len(x) \in Nat /\ Len(sep) \in Nat /\ Len(y) \in Nat /\ Len(sep) >= 1
  OBVIOUS
<1>2. /\ s \in Seq(T) /\ Len(s) = Len(x) + Len(sep) + Len(y)
      /\ \A k \in 1..Len(x) : s[k] = x[k]
      /\ SubSeq(s, 1, Len(x)) = x
      /\ SubSeq(s, Len(x) + 1, Len(x) + Len(sep)) = sep
      /\ SubSeq(s, Len(x) + Len(sep) + 1, Len(s)) = y
  <2>1. /\ SubSeq(s, 1, Len(x)) = x
        /\ SubSeq(s, Len(x) + 1, Len(x) + Len(sep)) = sep
        /\ SubSeq(s, Len(x) + Len(sep) + 1, Len(s)) = y
    BY AroundParts
  <2>2. /\ s \in Seq(T) /\ Len(s) = Len(x) + Len(sep) + Len(y)
        /\ \A k \in 1..Len(x) : s[k] = x[k]
        /\ \A k \in 1..Len(sep) : s[Len(x) + k] = sep[k]
        /\ \A k \in 1..Len(y) : s[Len(x) + Len(sep) + k] = y[k]
    BY Around
  <2> HIDE DEF s
  <2> QED
    BY <2>1, <2>2
<1> HIDE DEF s
<1>3. m \in O
  <2>1. m \in 1..(Len(s) + 1 - Len(sep)) /\ m + Len(sep) - 1 = Len(x) + Len(sep)
    BY <1>1, <1>2
  <2> QED
    BY <1>2, <2>1 DEF Occurrences
<1>4. ASSUME NEW k \in O PROVE m <= k
  <2>1. k \in 1..(Len(s) + 1 - Len(sep)) /\ SubSeq(s, k, k + Len(sep) - 1) = sep
    BY DEF Occurrences
  <2>2. SubSeq(s, k, k + Len(sep) - 1)[1] = s[k]
    <3>1. k \in Nat /\ k + Len(sep) - 1 \in Nat /\ k >= 1 /\ k + Len(sep) - 1 <= Len(s)
          /\ k <= k + Len(sep) - 1 + 1 /\ 1 \in 1..(k + Len(sep) - 1 + 1 - k) /\ k + 1 - 1 = k
      BY <1>1, <1>2, <2>1
    <3> HIDE DEF O
    <3>2. \A n \in 1..(k + Len(sep) - 1 + 1 - k) : SubSeq(s, k, k + Len(sep) - 1)[n] = s[k + n - 1]
      BY <1>2, <3>1, SubSeqIs
    <3> QED
      BY <3>1, <3>2
  <2>3. sep[1] = s[k]
    BY <2>1, <2>2, Zenon
  <2>4. k \notin 1..Len(x)
    BY <1>2, <2>3, Zenon
  <2>5. k \in Nat /\ k >= 1 /\ Len(x) \in Nat
    BY <1>1, <2>1
  <2> HIDE DEF O
  <2> QED
    BY <2>4, <2>5
<1>5. Min(O) = m
  <2>1. O \in SUBSET Nat
    BY DEF Occurrences
  <2> HIDE DEF O
  <2>2. Min(O) \in O /\ \A k \in O : Min(O) <= k
    BY <1>3, <2>1, MinOf
  <2>3. Min(O) \in Nat
    BY <2>1, <2>2
  <2>4. m \in Nat
    BY <1>1
  <2> QED
    BY <1>3, <1>4, <2>2, <2>3, <2>4
<1>6. Cut(s, sep) = CutAt(s, m, Len(sep))
  BY <1>3, <1>5 DEF Cut
<1>7. m - 1 = Len(x) /\ m + Len(sep) = Len(x) + Len(sep) + 1
  BY <1>1
<1> QED
  BY <1>2, <1>6, <1>7 DEF CutAt, CutTo, s

\* Without one token of the separator nothing is cut.
LEMMA NotCutIs ==
  ASSUME NEW T, NEW s \in Seq(T), NEW sep \in Seq(T), NEW n \in 1..Len(sep),
         \A k \in 1..Len(s) : s[k] # sep[n]
  PROVE  Occurrences(s, sep) = {} /\ Cut(s, sep) = NotCut(s) /\ CutLast(s, sep) = NotCut(s)
<1>1. ASSUME NEW k \in 1..(Len(s) + 1 - Len(sep)) PROVE SubSeq(s, k, k + Len(sep) - 1) # sep
  <2>1. k \in Nat /\ k + Len(sep) - 1 \in Nat /\ k >= 1 /\ k + Len(sep) - 1 <= Len(s)
        /\ k <= k + Len(sep) - 1 + 1 /\ n \in 1..(k + Len(sep) - 1 + 1 - k) /\ k + n - 1 \in 1..Len(s)
    OBVIOUS
  <2>2. \A l \in 1..(k + Len(sep) - 1 + 1 - k) : SubSeq(s, k, k + Len(sep) - 1)[l] = s[k + l - 1]
    BY <2>1, SubSeqIs
  <2> QED
    BY <2>1, <2>2
<1> QED
  BY <1>1 DEF Occurrences, Cut, CutLast

\* CutLast finds a separator of one token when it is not in y.
LEMMA CutLastOf ==
  ASSUME NEW T, NEW x \in Seq(T), NEW sep \in Seq(T), NEW y \in Seq(T)
  PROVE  (Len(sep) = 1 /\ \A k \in 1..Len(y) : y[k] # sep[1]) =>
            CutLast(x \o (sep \o y), sep) = CutTo(x, y)
<1> DEFINE s == x \o (sep \o y)
           m == Len(x) + 1
           O == Occurrences(s, sep)
<1>1. Len(x) \in Nat /\ Len(y) \in Nat
  OBVIOUS
<1>2. /\ s \in Seq(T) /\ Len(s) = Len(x) + Len(sep) + Len(y)
      /\ \A k \in 1..Len(y) : s[Len(x) + Len(sep) + k] = y[k]
      /\ SubSeq(s, 1, Len(x)) = x
      /\ SubSeq(s, Len(x) + 1, Len(x) + Len(sep)) = sep
      /\ SubSeq(s, Len(x) + Len(sep) + 1, Len(s)) = y
  <2>1. /\ SubSeq(s, 1, Len(x)) = x
        /\ SubSeq(s, Len(x) + 1, Len(x) + Len(sep)) = sep
        /\ SubSeq(s, Len(x) + Len(sep) + 1, Len(s)) = y
    BY AroundParts
  <2>2. /\ s \in Seq(T) /\ Len(s) = Len(x) + Len(sep) + Len(y)
        /\ \A k \in 1..Len(x) : s[k] = x[k]
        /\ \A k \in 1..Len(sep) : s[Len(x) + k] = sep[k]
        /\ \A k \in 1..Len(y) : s[Len(x) + Len(sep) + k] = y[k]
    BY Around
  <2> HIDE DEF s
  <2> QED
    BY <2>1, <2>2
<1> HIDE DEF s
<1> SUFFICES ASSUME Len(sep) = 1, \A k \in 1..Len(y) : y[k] # sep[1]
             PROVE  CutLast(s, sep) = CutTo(x, y)
  BY DEF s
<1>3. m \in O
  <2>1. m \in 1..(Len(s) + 1 - Len(sep)) /\ m + Len(sep) - 1 = Len(x) + Len(sep)
    BY <1>1, <1>2
  <2> QED
    BY <1>2, <2>1 DEF Occurrences
<1>4. ASSUME NEW k \in O PROVE k <= m
  <2>1. k \in 1..Len(s) /\ SubSeq(s, k, k) = sep
    BY <1>1, <1>2 DEF Occurrences
  <2>2. SubSeq(s, k, k)[1] = s[k]
    BY <1>2, <2>1
  <2>3. s[k] = sep[1]
    BY <1>1, <2>1, <2>2
  <2>4. SUFFICES ASSUME k > m PROVE FALSE
    BY <1>1, <2>1
  <2>5. k - m \in 1..Len(y) /\ Len(x) + Len(sep) + (k - m) = k
    BY <1>1, <1>2, <2>1, <2>4
  <2> QED
    BY <1>2, <2>3, <2>5
<1>5. Max(O) = m
  <2>1. O \in SUBSET (1..Len(s)) /\ Len(s) \in Nat
    BY <1>1, <1>2 DEF Occurrences
  <2> HIDE DEF O
  <2>2. Max(O) \in O /\ Max(O) \in 1..Len(s) /\ \A k \in O : k <= Max(O)
    BY <1>3, <2>1, MaxOf
  <2> QED
    BY <1>1, <1>3, <1>4, <2>2
<1>6. CutLast(s, sep) = CutAt(s, m, Len(sep))
  BY <1>3, <1>5 DEF CutLast
<1>7. m - 1 = Len(x) /\ m + Len(sep) = Len(x) + Len(sep) + 1
  BY <1>1
<1> QED
  BY <1>2, <1>6, <1>7 DEF CutAt, CutTo, s

\* The same, for a given token.
LEMMA CutLastIs ==
  ASSUME NEW T, NEW x \in Seq(T), NEW w \in T, NEW y \in Seq(T),
         \A k \in 1..Len(y) : y[k] # w
  PROVE  CutLast(x \o (<<w>> \o y), <<w>>) = CutTo(x, y)
<1> DEFINE sep == <<w>>
<1>1. Len(sep) = 1 /\ sep \in Seq(T) /\ sep[1] = w
  OBVIOUS
<1> HIDE DEF sep
<1>2. CutLast(x \o (sep \o y), sep) = CutTo(x, y)
  BY <1>1, CutLastOf, Zenon
<1> QED
  BY <1>2 DEF sep

\* The parts of an address: the parameter string, host with port, and what
\* each of the two means.
TextOf(a) == IF a.params = <<>> THEN <<>> ELSE Join(a.params)
HostPort(a) == a.host \o a.port
HostOf(a) == IF IsPrefix(<<"[">>, a.host) THEN Tail(Front(a.host)) ELSE a.host
PortOf(a) == IF Len(a.port) = 2 THEN <<a.port[2]>> ELSE <<>>

LEMMA ElementOf ==
  ASSUME NEW T, NEW s \in Seq(T), NEW k \in 1..Len(s)
  PROVE  s[k] \in T
OBVIOUS

LEMMA LenIsNat ==
  ASSUME NEW T, NEW s \in Seq(T)
  PROVE  Len(s) \in Nat
OBVIOUS

LEMMA OneIs ==
  ASSUME NEW T, NEW w \in T
  PROVE  <<w>> \in Seq(T) /\ Len(<<w>>) = 1 /\ <<w>>[1] = w
OBVIOUS

LEMMA PrefixOfOne ==
  ASSUME NEW T, NEW s \in Seq(T), NEW w
  PROVE  IsPrefix(<<w>>, s) <=> (Len(s) >= 1 /\ s[1] = w)
<1> DEFINE U == T \cup {w}
           q == <<w>>
<1>1. q \in Seq(U) /\ Len(q) = 1 /\ q[1] = w
  BY OneIs
<1>2. s \in Seq(U) /\ Len(s) \in Nat
  BY SeqOfMore
<1> HIDE DEF U, q
<1>3. /\ SubSeq(q, 1, 1) \in Seq(U) /\ Len(SubSeq(q, 1, 1)) = 1 /\ SubSeq(q, 1, 1)[1] = q[1]
  BY <1>1
<1>4. ASSUME Len(s) >= 1
      PROVE  SubSeq(s, 1, 1) \in Seq(U) /\ Len(SubSeq(s, 1, 1)) = 1 /\ SubSeq(s, 1, 1)[1] = s[1]
  BY <1>2, <1>4
<1>5. ASSUME Len(s) >= 1, s[1] = w PROVE SubSeq(q, 1, 1) = SubSeq(s, 1, 1)
  BY <1>1, <1>3, <1>4, <1>5, SeqsEqual
<1>6. ASSUME Len(s) >= 1, SubSeq(q, 1, 1) = SubSeq(s, 1, 1) PROVE s[1] = w
  BY <1>1, <1>3, <1>4, <1>6
<1>7. IsPrefix(q, s) <=> (Len(s) >= 1 /\ s[1] = w)
  BY <1>1, <1>2, <1>5, <1>6 DEF IsPrefix
<1> QED
  BY <1>7 DEF q

\* Words are not punctuation.
LEMMA WordsAreNot ==
  /\ \A w \in Words : w \notin Punctuation /\ w # "no key"
  /\ \A w \in Words : w # "/" /\ w # ":" /\ w # ";" /\ w # "=" /\ w # "[" /\ w # "]"
<1>1. \A w \in Words : w \notin Punctuation /\ w # "no key"
  BY WordsAssumption
<1> QED
  BY <1>1 DEF Punctuation

\* The tokens of a host: no slash and no semicolon.
LEMMA HostTokens ==
  ASSUME NEW a, IsAddress(a)
  PROVE  /\ a.host \in Seq(Tokens)
         /\ \A k \in 1..Len(a.host) : a.host[k] # "/" /\ a.host[k] # ";"
         /\ ~IsPrefix(<<"[">>, a.host) => a.host \in Seq(Words)
         /\ IsPrefix(<<"[">>, a.host) =>
               /\ Len(a.host) > 1 /\ a.host[Len(a.host)] = "]"
               /\ \A k \in 2..Len(a.host) - 1 : a.host[k] \in Words \cup {":"}
<1> DEFINE h == a.host
<1>1. h \in Seq(Tokens) /\ (IsName(h) \/ IsLiteral(h))
  BY DEF IsAddress
<1> HIDE DEF h
<1>2. CASE IsName(h)
  <2>1. h \in Seq(Words)
    BY <1>2 DEF IsName
  <2>2. ASSUME NEW k \in 1..Len(h) PROVE h[k] # "/" /\ h[k] # ";" /\ h[k] # "["
    <3>1. h[k] \in Words
      BY <2>1, ElementOf
    <3> QED
      BY <3>1, WordsAreNot, Zenon
  <2>3. ~IsPrefix(<<"[">>, h)
    <3>1. Len(h) >= 1 => 1 \in 1..Len(h)
      BY <2>1
    <3>2. IsPrefix(<<"[">>, h) <=> (Len(h) >= 1 /\ h[1] = "[")
      BY <2>1, PrefixOfOne
    <3> QED
      BY <2>2, <3>1, <3>2, Zenon
  <2> QED
    BY <1>1, <2>1, <2>2, <2>3 DEF h
<1>3. CASE IsLiteral(h)
  <2> DEFINE u == SubSeq(h, 2, Len(h) - 1)
  <2>1. Len(h) > 1 /\ h[1] = "[" /\ h[Len(h)] = "]" /\ u \in Seq(Words \cup {":"}) /\ Len(h) \in Nat
    BY <1>1, <1>3 DEF IsLiteral
  <2>2. Len(u) = Len(h) - 2 /\ \A k \in 1..Len(h) - 2 : u[k] = h[k + 1]
    <3>1. Len(h) \in Nat /\ Len(h) > 1
      BY <2>1
    <3>2. 2 \in Nat /\ Len(h) - 1 \in Nat /\ 2 >= 1 /\ Len(h) - 1 <= Len(h) /\ 2 <= Len(h) - 1 + 1
          /\ Len(h) - 1 + 1 - 2 = Len(h) - 2
      BY <3>1
    <3>3. /\ Len(u) = Len(h) - 1 + 1 - 2
          /\ \A k \in 1..(Len(h) - 1 + 1 - 2) : u[k] = h[2 + k - 1]
      BY <1>1, <3>2, SubSeqIs
    <3>4. \A k \in 1..Len(h) - 2 : 2 + k - 1 = k + 1
      BY <3>1
    <3> HIDE DEF u
    <3> QED
      BY <3>2, <3>3, <3>4
  <2> HIDE DEF u
  <2>3. ASSUME NEW k \in 2..Len(h) - 1 PROVE h[k] \in Words \cup {":"}
    <3>1. k - 1 \in 1..Len(u) /\ h[k] = u[k - 1]
      BY <2>1, <2>2
    <3> QED
      BY <2>1, <3>1
  <2>4. ASSUME NEW k \in 1..Len(h) PROVE h[k] # "/" /\ h[k] # ";"
    <3>1. CASE k \in 2..Len(h) - 1
      BY <2>3, <3>1, WordsAreNot
    <3>2. CASE k \notin 2..Len(h) - 1
      <4>1. k = 1 \/ k = Len(h)
        BY <2>1, <3>2
      <4> QED
        BY <2>1, <4>1
    <3> QED
      BY <3>1, <3>2
  <2>5. IsPrefix(<<"[">>, h)
    BY <1>1, <2>1, PrefixOfOne
  <2> QED
    BY <1>1, <2>1, <2>3, <2>4, <2>5 DEF h
<1> QED
  BY <1>1, <1>2, <1>3

\* The tokens of a port.
LEMMA PortTokens ==
  ASSUME NEW a, IsAddress(a)
  PROVE  /\ a.port \in Seq(Tokens) /\ Len(a.port) \in 0..2
         /\ \A k \in 1..Len(a.port) : a.port[k] \in Words \cup {":"}
         /\ Len(a.port) > 0 => a.port[1] = ":"
         /\ Len(a.port) > 1 => a.port[2] \in Words
<1>1. a.port \in Seq(Words \cup {":"}) /\ Len(a.port) <= 2
  BY DEF IsAddress
<1>2. a.port \in Seq(Tokens)
  BY AddressParts
<1> DEFINE q == a.port
<1>3. Len(q) \in 0..2 /\ \A k \in 1..Len(q) : q[k] \in Words \cup {":"}
  <2> HIDE DEF q
  <2> DEFINE W == Words \cup {":"}
  <2>1. q \in Seq(W) /\ Len(q) <= 2
    BY <1>1 DEF q
  <2> HIDE DEF W
  <2>2. \A k \in 1..Len(q) : q[k] \in W
    BY <2>1, ElementOf
  <2>3. Len(q) \in 0..2
    <3>1. \A n \in Nat : n <= 2 => n \in 0..2
      OBVIOUS
    <3>2. Len(q) \in Nat /\ Len(q) <= 2
      BY <2>1, LenIsNat
    <3> QED
      BY <3>1, <3>2, Zenon
  <2> QED
    BY <2>2, <2>3 DEF W
<1> QED
  BY <1>2, <1>3 DEF IsAddress

\* Neither is in host and port together.
LEMMA HostPortTokens ==
  ASSUME NEW a, IsAddress(a)
  PROVE  /\ HostPort(a) \in Seq(Tokens) /\ Len(HostPort(a)) = Len(a.host) + Len(a.port)
         /\ \A k \in 1..Len(HostPort(a)) : HostPort(a)[k] # "/" /\ HostPort(a)[k] # ";"
         /\ HostPort(a) = <<>> <=> a.host = <<>> /\ a.port = <<>>
<1> DEFINE h == a.host
           q == a.port
           s == h \o q
<1>1. h \in Seq(Tokens) /\ q \in Seq(Tokens)
  BY HostTokens, PortTokens
<1>5. /\ \A k \in 1..Len(h) : h[k] # "/" /\ h[k] # ";"
      /\ \A k \in 1..Len(q) : q[k] # "/" /\ q[k] # ";"
  BY HostTokens, PortTokens, WordsAreNot
<1> HIDE DEF h, q
<1>2. /\ s \in Seq(Tokens) /\ Len(s) = Len(h) + Len(q)
      /\ \A k \in 1..Len(h) : s[k] = h[k]
      /\ \A k \in 1..Len(q) : s[Len(h) + k] = q[k]
  BY <1>1, Concatenated
<1>3. s = <<>> <=> h = <<>> /\ q = <<>>
  BY <1>1
<1> HIDE DEF s
<1>4. ASSUME NEW k \in 1..Len(s) PROVE s[k] # "/" /\ s[k] # ";"
  <2>1. CASE k \in 1..Len(h)
    BY <1>2, <1>5, <2>1
  <2>2. CASE k \notin 1..Len(h)
    <3>1. k - Len(h) \in 1..Len(q) /\ Len(h) + (k - Len(h)) = k
      BY <1>1, <1>2, <2>2
    <3> QED
      BY <1>2, <1>5, <3>1
  <2> QED
    BY <2>1, <2>2
<1> QED
  BY <1>2, <1>3, <1>4 DEF HostPort, h, q, s

LEMMA SuffixSlash ==
  ASSUME NEW T, NEW s \in Seq(T)
  PROVE  IsSuffix(Slash, s) <=> (Len(s) >= 1 /\ s[Len(s)] = "/")
<1>1. Reverse(Slash) = <<"/">>
  BY DEF Reverse, Slash
<1>2. Reverse(s) \in Seq(T) /\ Len(Reverse(s)) = Len(s)
  BY DEF Reverse
<1>3. Len(s) >= 1 => Reverse(s)[1] = s[Len(s)]
  BY DEF Reverse
<1> QED
  BY <1>1, <1>2, <1>3, PrefixOfOne DEF IsSuffix

\* So that nothing is trimmed from them.
LEMMA HostPortIsTrimmed ==
  ASSUME NEW a, IsAddress(a)
  PROVE  TrimSuffix(HostPort(a)) = HostPort(a)
<1>1. HostPort(a) \in Seq(Tokens) /\ \A k \in 1..Len(HostPort(a)) : HostPort(a)[k] # "/"
  BY HostPortTokens
<1> DEFINE s == HostPort(a)
<1> HIDE DEF s
<1>2. ~IsSuffix(Slash, s)
  <2>1. s \in Seq(Tokens) /\ \A k \in 1..Len(s) : s[k] # "/"
    BY <1>1 DEF s
  <2>2. Len(s) >= 1 => Len(s) \in 1..Len(s)
    BY <2>1
  <2> QED
    BY <2>1, <2>2, SuffixSlash
<1> QED
  BY <1>2 DEF TrimSuffix, s

\* What follows the scheme is host and port, the form and the parameters.
LEMMA RestIs ==
  ASSUME NEW a, IsAddress(a)
  PROVE  /\ HostPort(a) \in Seq(Tokens) /\ a.form \in Seq(Tokens) /\ TextOf(a) \in Seq(Tokens)
         /\ RestOf(a) = HostPort(a) \o (a.form \o TextOf(a))
<1>1. HostPort(a) \in Seq(Tokens) /\ a.form \in Seq(Tokens) /\ TextOf(a) \in Seq(Tokens)
  <2>1. HostPort(a) \in Seq(Tokens) /\ a.form \in Seq(Tokens)
    BY HostPortTokens, AddressParts
  <2>2. <<>> \in Seq(Tokens)
    OBVIOUS
  <2>3. a.params # <<>> => Join(a.params) \in Seq(Tokens)
    BY AddressParts
  <2>4. TextOf(a) \in Seq(Tokens)
    BY <2>2, <2>3, Zenon DEF TextOf
  <2> QED
    BY <2>1, <2>4
<1>2. RestOf(a) = (HostPort(a) \o a.form) \o TextOf(a)
  BY Zenon DEF RestOf, HostPort, TextOf
<1>3. \A s, r, q \in Seq(Tokens) : (s \o r) \o q = s \o (r \o q)
  BY ConcatAssoc
<1> QED
  BY <1>1, <1>2, <1>3, Zenon

\* No x is followed by a y; s ends in an x.
NoPair(s, x, y) == \A k \in 1..(Len(s) - 1) : ~(s[k] = x /\ s[k + 1] = y)
EndsIn(s, x) == Len(s) >= 1 /\ s[Len(s)] = x

\* A written parameter has no semicolon.
LEMMA WrittenTokens ==
  ASSUME NEW p \in Parameters
  PROVE  Written(p) \in Seq(Tokens) /\ \A k \in 1..Len(Written(p)) : Written(p)[k] # ";"
<1>1. Written(p) \in Seq(Tokens)
  <2>1. <<>> \in Seq(Tokens)
    OBVIOUS
  <2> QED
    BY <2>1, JoinedKeeps
<1> DEFINE T == Tokens \ {";"}
<1>2. Written(p) \in Seq(T)
  <2>1. Equals \in Seq(T)
    <3>1. "=" \in T
      BY DEF Tokens, Punctuation
    <3> HIDE DEF T
    <3> QED
      BY <3>1, SeqOfOne DEF Equals
  <2>2. CASE p \in [key : Seq(Tokens \ {";", "="}), value : Seq(Tokens \ {";"}) \cap DOMAIN Meant]
    <3>1. p.key \in Seq(Tokens \ {";", "="}) /\ p.value \in Seq(T) /\ "key" \in DOMAIN p
      BY <2>2
    <3>2. p.key \in Seq(T)
      <4>1. Tokens \ {";", "="} \subseteq T
        OBVIOUS
      <4> HIDE DEF T
      <4> QED
        BY <3>1, <4>1, SeqOfMore
    <3> HIDE DEF T
    <3>3. p.key \o Equals \in Seq(T)
      BY <2>1, <3>2, Concatenated, Zenon
    <3>4. p.key \o Equals \o p.value \in Seq(T)
      BY <3>1, <3>3, Concatenated, Zenon
    <3> QED
      BY <3>1, <3>4 DEF Written
  <2>3. CASE p \in [word : Seq(Tokens \ {";", "="})]
    <3>1. p.word \in Seq(Tokens \ {";", "="}) /\ "key" \notin DOMAIN p
      BY <2>3
    <3>2. p.word \in Seq(T)
      <4>1. Tokens \ {";", "="} \subseteq T
        OBVIOUS
      <4> HIDE DEF T
      <4> QED
        BY <3>1, <4>1, SeqOfMore
    <3> QED
      BY <3>1, <3>2 DEF Written
  <2> QED
    BY <2>2, <2>3 DEF Parameters
<1>3. ASSUME NEW k \in 1..Len(Written(p)) PROVE Written(p)[k] \in T
  <2> HIDE DEF T
  <2> QED
    BY <1>2, ElementOf
<1> QED
  BY <1>1, <1>3

\* Joining with y makes the pair x, y only where x was the end.
LEMMA NoPairAround ==
  ASSUME NEW T, NEW s \in Seq(T), NEW w \in Seq(T), NEW x, NEW y \in T, x # y,
         \A k \in 1..Len(w) : w[k] # y, NoPair(s, x, y), ~EndsIn(s, x)
  PROVE  LET r == s \o (<<y>> \o w) IN NoPair(r, x, y) /\ (EndsIn(r, x) => EndsIn(w, x))
<1> DEFINE sep == <<y>>
           r == s \o (sep \o w)
<1>1. sep \in Seq(T) /\ Len(sep) = 1 /\ sep[1] = y
  BY OneIs
<1> HIDE DEF sep
<1>2. /\ r \in Seq(T) /\ Len(r) = Len(s) + Len(sep) + Len(w)
      /\ \A k \in 1..Len(s) : r[k] = s[k]
      /\ \A k \in 1..Len(sep) : r[Len(s) + k] = sep[k]
      /\ \A k \in 1..Len(w) : r[Len(s) + Len(sep) + k] = w[k]
  <2>1. sep \in Seq(T)
    BY <1>1
  <2> QED
    BY <2>1, Around, SMTT(60)
<1> HIDE DEF r
<1>3. Len(s) \in Nat /\ Len(w) \in Nat
  BY LenIsNat
<1>4. Len(r) = Len(s) + 1 + Len(w) /\ r[Len(s) + 1] = y
      /\ \A k \in 1..Len(w) : r[Len(s) + 1 + k] = w[k]
  BY <1>1, <1>2, <1>3
<1>5. ASSUME NEW k \in 1..(Len(r) - 1), r[k] = x, r[k + 1] = y PROVE FALSE
  <2>1. CASE k < Len(s)
    <3>1. k \in 1..(Len(s) - 1) /\ k \in 1..Len(s) /\ k + 1 \in 1..Len(s)
      BY <1>3, <2>1
    <3> QED
      BY <1>2, <1>5, <3>1 DEF NoPair
  <2>2. CASE k = Len(s)
    <3>1. k \in 1..Len(s) /\ Len(s) >= 1
      BY <1>3, <2>2
    <3>2. s[Len(s)] = x
      BY <1>2, <1>5, <2>2, <3>1
    <3> QED
      BY <3>1, <3>2 DEF EndsIn
  <2>3. CASE k > Len(s)
    <3>1. k - Len(s) \in 1..Len(w) /\ Len(s) + 1 + (k - Len(s)) = k + 1
      BY <1>3, <1>4, <2>3
    <3>2. r[k + 1] = w[k - Len(s)]
      BY <1>4, <3>1
    <3> QED
      BY <1>5, <3>1, <3>2
  <2> QED
    BY <1>3, <2>1, <2>2, <2>3
<1>6. ASSUME EndsIn(r, x) PROVE EndsIn(w, x)
  <2>1. CASE Len(w) = 0
    <3>1. Len(r) = Len(s) + 1
      BY <1>3, <1>4, <2>1
    <3> QED
      BY <1>4, <1>6, <3>1 DEF EndsIn
  <2>2. CASE Len(w) # 0
    <3>1. Len(w) \in 1..Len(w) /\ Len(s) + 1 + Len(w) = Len(r) /\ Len(w) >= 1
      BY <1>3, <1>4, <2>2
    <3> QED
      BY <1>4, <1>6, <3>1 DEF EndsIn
  <2> QED
    BY <2>1, <2>2
<1> QED
  BY <1>5, <1>6 DEF NoPair, r, sep

\* A further parameter is joined with a semicolon.
LEMMA JoinedIs ==
  ASSUME NEW s \in Seq(Tokens), NEW p \in Parameters
  PROVE  Joined(s, p) = s \o (Semi \o Written(p))
<1>1. Written(p) \in Seq(Tokens) /\ Semi \in Seq(Tokens)
  BY WrittenTokens, Separators
<1>2. Joined(s, p) = (s \o Semi) \o Written(p)
  BY Zenon DEF Joined
<1>3. \A r1, r2, r3 \in Seq(Tokens) : (r1 \o r2) \o r3 = r1 \o (r2 \o r3)
  BY ConcatAssoc
<1> QED
  BY <1>1, <1>2, <1>3, Zenon

\* It makes no "/;" when the earlier string does not end in a slash.
LEMMA JoinedHasNone ==
  ASSUME NEW s \in Seq(Tokens), NEW p \in Parameters, NoPair(s, "/", ";"), ~EndsIn(s, "/")
  PROVE  /\ NoPair(Joined(s, p), "/", ";")
         /\ EndsIn(Joined(s, p), "/") => EndsIn(Written(p), "/")
<1> DEFINE w == Written(p)
<1>1. w \in Seq(Tokens) /\ \A k \in 1..Len(w) : w[k] # ";"
  BY WrittenTokens
<1>2. ";" \in Tokens /\ "/" # ";"
  BY DEF Tokens, Punctuation
<1> HIDE DEF w
<1>3. LET r == s \o (<<";">> \o w)
      IN  NoPair(r, "/", ";") /\ (EndsIn(r, "/") => EndsIn(w, "/"))
  BY <1>1, <1>2, NoPairAround, Zenon
<1>4. Joined(s, p) = s \o (<<";">> \o w)
  BY JoinedIs, Zenon DEF Semi, w
<1> QED
  BY <1>3, <1>4, Zenon DEF w

\* The parameter string has no "/;" when no value but the last ends in a
\* slash: what Plain asks of an address of the form "host;params".
LEMMA JoinHasNone ==
  ASSUME NEW ps \in Seq(Parameters), ps # <<>>,
         \A k \in 1..(Len(ps) - 1) : ~EndsIn(Written(ps[k]), "/")
  PROVE  NoPair(Join(ps), "/", ";")
<1>1. PICK v \in [0..Len(ps) - 1 -> Seq(Tokens)] :
        /\ v[0] = Written(ps[1]) /\ v[Len(ps) - 1] = Join(ps)
        /\ \A k \in 1..Len(ps) - 1 : v[k] = Joined(v[k - 1], Tail(ps)[k])
  <2>1. JoinedTrace(Seq(Tokens), Written(ps[1]), Len(ps) - 1, Tail(ps))
    BY JoinIsTraced
  <2>2. Join(ps) = JoinedAll(Written(ps[1]), Tail(ps))
    <3>1. Head(ps) = ps[1]
      OBVIOUS
    <3> QED
      BY <3>1, Zenon DEF Join, JoinedAll
  <2> QED
    BY <2>1, <2>2 DEF JoinedTrace
<1>2. /\ Len(ps) \in Nat /\ Len(ps) >= 1
      /\ \A k \in 1..Len(ps) - 1 : Tail(ps)[k] = ps[k + 1] /\ ps[k + 1] \in Parameters
      /\ ps[1] \in Parameters
  OBVIOUS
<1> DEFINE Free(s) == NoPair(s, "/", ";")
           Ends(s) == EndsIn(s, "/")
           D == {k \in Nat : k <= Len(ps) - 1 =>
                     Free(v[k]) /\ (Ends(v[k]) => Ends(Written(ps[k + 1])))}
<1>3. Free(Written(ps[1]))
  <2>1. Written(ps[1]) \in Seq(Tokens) /\ \A k \in 1..Len(Written(ps[1])) : Written(ps[1])[k] # ";"
    BY <1>2, WrittenTokens
  <2>2. \A n \in Nat : \A k \in 1..n - 1 : k + 1 \in 1..n
    OBVIOUS
  <2>3. Len(Written(ps[1])) \in Nat
    BY <2>1, LenIsNat
  <2> QED
    BY <2>1, <2>2, <2>3, Zenon DEF NoPair
<1>4. \A s \in Seq(Tokens), p \in Parameters : Free(s) /\ ~Ends(s) =>
          Free(Joined(s, p)) /\ (Ends(Joined(s, p)) => Ends(Written(p)))
  BY JoinedHasNone
<1>5. \A k \in 1..(Len(ps) - 1) : ~Ends(Written(ps[k]))
  OBVIOUS
<1> HIDE DEF Free, Ends
<1>6. 0 \in D
  BY <1>1, <1>3
<1>7. ASSUME NEW k \in Nat, k \in D PROVE k + 1 \in D
  <2>1. SUFFICES ASSUME k + 1 <= Len(ps) - 1
                 PROVE  /\ Free(v[k + 1])
                        /\ Ends(v[k + 1]) => Ends(Written(ps[k + 1 + 1]))
    OBVIOUS
  <2>2. Free(v[k]) /\ (Ends(v[k]) => Ends(Written(ps[k + 1])))
    BY <1>2, <1>7, <2>1
  <2>3. k + 1 \in 1..Len(ps) - 1 /\ k + 1 - 1 = k /\ k \in 0..Len(ps) - 1
    BY <1>2, <2>1
  <2>4. ~Ends(v[k]) /\ v[k] \in Seq(Tokens)
    BY <1>1, <1>5, <2>2, <2>3
  <2>5. v[k + 1] = Joined(v[k], ps[k + 1 + 1]) /\ ps[k + 1 + 1] \in Parameters
    BY <1>1, <1>2, <2>3
  <2> QED
    BY <1>4, <2>2, <2>4, <2>5
<1> HIDE DEF D
<1>8. \A k \in Nat : k \in D
  BY <1>6, <1>7, NatSetInduction
<1>9. Len(ps) - 1 \in Nat /\ Len(ps) - 1 <= Len(ps) - 1
  BY <1>2
<1>10. Free(Join(ps))
  BY <1>1, <1>8, <1>9 DEF D
<1> QED
  BY <1>10 DEF Free

LEMMA SlashSemiIs ==
  /\ Slash \o Semi \in Seq(Tokens) /\ Len(Slash \o Semi) = 2
  /\ (Slash \o Semi)[1] = "/" /\ (Slash \o Semi)[2] = ";"
<1>1. ";" \in Tokens /\ "/" \in Tokens
  BY DEF Tokens, Punctuation
<1>2. /\ Slash \in Seq(Tokens) /\ Len(Slash) = 1 /\ Slash[1] = "/"
      /\ Semi \in Seq(Tokens) /\ Len(Semi) = 1 /\ Semi[1] = ";"
  BY <1>1, OneIs, Zenon DEF Slash, Semi
<1>3. /\ Slash \o Semi \in Seq(Tokens) /\ Len(Slash \o Semi) = Len(Slash) + Len(Semi)
      /\ \A k \in 1..Len(Slash) : (Slash \o Semi)[k] = Slash[k]
      /\ \A k \in 1..Len(Semi) : (Slash \o Semi)[Len(Slash) + k] = Semi[k]
  <2>1. Slash \in Seq(Tokens) /\ Semi \in Seq(Tokens)
    BY <1>2
  <2> QED
    BY <2>1, Concatenated
<1>4. 1 \in 1..1 /\ 1 + 1 = 2
  OBVIOUS
<1> QED
  BY <1>2, <1>3, <1>4, Zenon

\* A separator of two tokens is not cut at when the pair is not there.
LEMMA NoOccurrence ==
  ASSUME NEW T, NEW s \in Seq(T), NEW sep \in Seq(T), Len(sep) = 2, NoPair(s, sep[1], sep[2])
  PROVE  Cut(s, sep) = NotCut(s)
<1>1. ASSUME NEW k \in 1..(Len(s) + 1 - Len(sep)) PROVE SubSeq(s, k, k + Len(sep) - 1) # sep
  <2>1. k \in 1..(Len(s) - 1) /\ k + Len(sep) - 1 = k + 1 /\ Len(s) \in Nat /\ k + 1 \in Nat
        /\ k \in Nat /\ k >= 1 /\ k + 1 <= Len(s) /\ k <= k + 1 + 1
    OBVIOUS
  <2>2. \A l \in 1..(k + 1 + 1 - k) : SubSeq(s, k, k + 1)[l] = s[k + l - 1]
    BY <2>1, SubSeqIs
  <2>3. SubSeq(s, k, k + 1)[1] = s[k] /\ SubSeq(s, k, k + 1)[2] = s[k + 1]
    <3>1. 1 \in 1..(k + 1 + 1 - k) /\ 2 \in 1..(k + 1 + 1 - k) /\ k + 1 - 1 = k /\ k + 2 - 1 = k + 1
      BY <2>1
    <3> QED
      BY <2>2, <3>1
  <2>4. ~(s[k] = sep[1] /\ s[k + 1] = sep[2])
    BY <2>1 DEF NoPair
  <2> QED
    BY <2>1, <2>3, <2>4
<1>2. Occurrences(s, sep) = {}
  BY <1>1 DEF Occurrences
<1> QED
  BY <1>2 DEF Cut

LEMMA SmallNumbers ==
  1 \in 1..1 /\ 2 \in 1..2 /\ 1 >= 1 /\ 2 >= 1
OBVIOUS

\* A token in neither part is not in the whole.
LEMMA NoneInEither ==
  ASSUME NEW T, NEW s \in Seq(T), NEW r \in Seq(T), NEW x,
         \A k \in 1..Len(s) : s[k] # x, \A k \in 1..Len(r) : r[k] # x
  PROVE  s \o r \in Seq(T) /\ \A k \in 1..Len(s \o r) : (s \o r)[k] # x
<1> DEFINE q == s \o r
<1>1. /\ q \in Seq(T) /\ Len(q) = Len(s) + Len(r)
      /\ \A k \in 1..Len(s) : q[k] = s[k]
      /\ \A k \in 1..Len(r) : q[Len(s) + k] = r[k]
  BY Concatenated
<1>2. Len(s) \in Nat /\ Len(r) \in Nat
  BY LenIsNat
<1> HIDE DEF q
<1>3. ASSUME NEW k \in 1..Len(q) PROVE q[k] # x
  <2>1. CASE k <= Len(s)
    BY <1>1, <1>2, <2>1
  <2>2. CASE k > Len(s)
    <3>1. k - Len(s) \in 1..Len(r) /\ Len(s) + (k - Len(s)) = k
      BY <1>1, <1>2, <2>2
    <3> QED
      BY <1>1, <3>1
  <2> QED
    BY <1>2, <2>1, <2>2
<1> QED
  BY <1>1, <1>3 DEF q

\* A pair is not made by what has no x before a y.
LEMMA NoPairBefore ==
  ASSUME NEW T, NEW s \in Seq(T), NEW r \in Seq(T), NEW x, NEW y \in T, x # y,
         \A k \in 1..Len(s) : s[k] # x, NoPair(r, x, y)
  PROVE  NoPair(s \o (<<y>> \o r), x, y)
<1> DEFINE sep == <<y>>
           q == s \o (sep \o r)
<1>1. sep \in Seq(T) /\ Len(sep) = 1 /\ sep[1] = y
  BY OneIs
<1> HIDE DEF sep
<1>2. /\ q \in Seq(T) /\ Len(q) = Len(s) + Len(sep) + Len(r)
      /\ \A k \in 1..Len(s) : q[k] = s[k]
      /\ \A k \in 1..Len(sep) : q[Len(s) + k] = sep[k]
      /\ \A k \in 1..Len(r) : q[Len(s) + Len(sep) + k] = r[k]
  <2>1. sep \in Seq(T)
    BY <1>1
  <2> QED
    BY <2>1, Around, SMTT(60)
<1> HIDE DEF q
<1>3. Len(s) \in Nat /\ Len(r) \in Nat
  BY LenIsNat
<1>4. /\ Len(q) = Len(s) + 1 + Len(r) /\ q[Len(s) + 1] = y
      /\ \A k \in 1..Len(r) : q[Len(s) + 1 + k] = r[k]
  BY <1>1, <1>2, <1>3
<1>5. ASSUME NEW k \in 1..(Len(q) - 1), q[k] = x, q[k + 1] = y PROVE FALSE
  <2>1. CASE k <= Len(s)
    BY <1>2, <1>3, <1>5, <2>1
  <2>2. CASE k = Len(s) + 1
    BY <1>4, <1>5, <2>2
  <2>3. CASE k > Len(s) + 1
    <3> DEFINE l == k - (Len(s) + 1)
    <3>1. /\ l \in 1..(Len(r) - 1) /\ l \in 1..Len(r) /\ l + 1 \in 1..Len(r)
          /\ Len(s) + 1 + l = k /\ Len(s) + 1 + (l + 1) = k + 1
      BY <1>3, <1>4, <2>3
    <3> HIDE DEF l
    <3>2. r[l] = x /\ r[l + 1] = y
      BY <1>4, <1>5, <3>1
    <3> QED
      BY <3>1, <3>2 DEF NoPair
  <2> QED
    BY <1>3, <2>1, <2>2, <2>3
<1> QED
  BY <1>5 DEF NoPair, q, sep

LEMMA OneSeparators ==
  /\ Slash = <<"/">> /\ Slash \in Seq(Tokens) /\ Len(Slash) = 1 /\ Slash[1] = "/"
  /\ Semi = <<";">> /\ Semi \in Seq(Tokens) /\ Len(Semi) = 1 /\ Semi[1] = ";"
  /\ Equals = <<"=">> /\ Equals \in Seq(Tokens) /\ Len(Equals) = 1 /\ Equals[1] = "="
  /\ "/" \in Tokens /\ ";" \in Tokens /\ "=" \in Tokens /\ ":" \in Tokens
  /\ "[" \in Tokens /\ "]" \in Tokens
<1>1. "/" \in Tokens /\ ";" \in Tokens /\ "=" \in Tokens /\ ":" \in Tokens
      /\ "[" \in Tokens /\ "]" \in Tokens
  BY DEF Tokens, Punctuation
<1> QED
  BY <1>1, OneIs, Zenon DEF Slash, Semi, Equals

LEMMA NotEmpty ==
  ASSUME NEW T, NEW s \in Seq(T), Len(s) >= 1
  PROVE  s # <<>> /\ 1 \in 1..Len(s)
OBVIOUS

\* A sequence is its first element and the rest.
LEMMA HeadAndTail ==
  ASSUME NEW T, NEW s \in Seq(T), s # <<>>
  PROVE  s[1] \in T /\ Tail(s) \in Seq(T) /\ s = <<s[1]>> \o Tail(s)
         /\ Len(s) = 1 + Len(Tail(s)) /\ \A k \in 1..Len(Tail(s)) : Tail(s)[k] = s[k + 1]
<1> DEFINE q == <<s[1]>>
<1>1. /\ s[1] \in T /\ Tail(s) \in Seq(T) /\ Len(s) = 1 + Len(Tail(s)) /\ Len(s) \in Nat
      /\ \A k \in 1..Len(Tail(s)) : Tail(s)[k] = s[k + 1]
  OBVIOUS
<1>2. q \in Seq(T) /\ Len(q) = 1 /\ q[1] = s[1]
  BY <1>1, OneIs
<1> HIDE DEF q
<1>3. /\ q \o Tail(s) \in Seq(T) /\ Len(q \o Tail(s)) = Len(q) + Len(Tail(s))
      /\ \A k \in 1..Len(q) : (q \o Tail(s))[k] = q[k]
      /\ \A k \in 1..Len(Tail(s)) : (q \o Tail(s))[Len(q) + k] = Tail(s)[k]
  <2> DEFINE r == Tail(s)
  <2>1. r \in Seq(T) /\ q \in Seq(T)
    BY <1>1, <1>2
  <2> HIDE DEF r
  <2>2. /\ q \o r \in Seq(T) /\ Len(q \o r) = Len(q) + Len(r)
        /\ \A k \in 1..Len(q) : (q \o r)[k] = q[k]
        /\ \A k \in 1..Len(r) : (q \o r)[Len(q) + k] = r[k]
    BY <2>1, Concatenated
  <2> QED
    BY <2>2 DEF r
<1>4. ASSUME NEW k \in 1..Len(s) PROVE s[k] = (q \o Tail(s))[k]
  <2>1. CASE k = 1
    BY <1>2, <1>3, <2>1
  <2>2. CASE k # 1
    <3>1. k - 1 \in 1..Len(Tail(s)) /\ (k - 1) + 1 = k /\ 1 + (k - 1) = k
      BY <1>1, <2>2
    <3> QED
      BY <1>1, <1>2, <1>3, <3>1
  <2> QED
    BY <2>1, <2>2
<1>5. Len(s) = Len(q \o Tail(s))
  BY <1>1, <1>2, <1>3
<1>6. s = q \o Tail(s)
  BY <1>3, <1>4, <1>5, SeqsEqual
<1> QED
  BY <1>1, <1>6 DEF q

\* The four forms: "/;", ";", nothing, and a path without parameters.
LEMMA FormIs ==
  ASSUME NEW a, IsAddress(a)
  PROVE  \/ a.form = Slash \o Semi
         \/ a.form = Semi
         \/ a.form = <<>> /\ TextOf(a) = <<>>
         \/ /\ TextOf(a) = <<>> /\ a.form = Slash \o Tail(a.form) /\ Tail(a.form) \in Seq(Tokens)
            /\ a.form \in Seq(Tokens \ {";"})
<1>1. SUFFICES ASSUME a.form # Slash \o Semi, a.form # Semi, a.form # <<>>
               PROVE  /\ TextOf(a) = <<>> /\ a.form = Slash \o Tail(a.form)
                      /\ Tail(a.form) \in Seq(Tokens)
                      /\ a.form \in Seq(Tokens \ {";"})
  BY DEF TextOf, IsAddress
<1>2. a.params = <<>>
  BY <1>1 DEF IsAddress
<1>3. a.form \in Seq(Tokens \ {";"}) /\ a.form[1] \in {"/", ";"}
  BY <1>1 DEF IsAddress
<1> DEFINE T == Tokens \ {";"}
           f == a.form
<1>4. f \in Seq(T) /\ f # <<>>
  BY <1>1, <1>3
<1>5. T \subseteq Tokens
  OBVIOUS
<1> HIDE DEF T, f
<1>6. f[1] \in T /\ Tail(f) \in Seq(T) /\ f = <<f[1]>> \o Tail(f)
  BY <1>4, HeadAndTail, Zenon
<1>7. Tail(f) \in Seq(Tokens)
  BY <1>5, <1>6, SeqOfMore
<1>8. f[1] = "/"
  BY <1>3, <1>6, Zenon DEF T, f
<1> QED
  BY <1>2, <1>3, <1>6, <1>7, <1>8, Zenon DEF TextOf, Slash, f

\* Without a semicolon there are no parameters.
LEMMA NotCutWithout ==
  ASSUME NEW r \in Seq(Tokens), \A k \in 1..Len(r) : r[k] # ";"
  PROVE  Cut(r, Slash \o Semi) = NotCut(r) /\ Cut(r, Semi) = NotCut(r)
<1> DEFINE sep == Slash \o Semi
<1>1. sep \in Seq(Tokens) /\ Len(sep) = 2 /\ sep[2] = ";" /\ Semi \in Seq(Tokens)
      /\ Len(Semi) = 1 /\ Semi[1] = ";"
  BY SlashSemiIs, OneSeparators, Zenon
<1> HIDE DEF sep
<1>3. 2 \in 1..Len(sep) /\ \A k \in 1..Len(r) : r[k] # sep[2]
  BY <1>1, SmallNumbers, Zenon
<1>4. 1 \in 1..Len(Semi) /\ \A k \in 1..Len(r) : r[k] # Semi[1]
  BY <1>1, SmallNumbers, Zenon
<1>5. Cut(r, sep) = NotCut(r)
  BY <1>1, <1>3, NotCutIs, Zenon
<1>6. Cut(r, Semi) = NotCut(r)
  BY <1>1, <1>4, NotCutIs, Zenon
<1> QED
  BY <1>5, <1>6 DEF sep

\* HostAndParams finds the host and port, and the parameters.
HostAndParamsAre(a) ==
    HostAndParams(RestOf(a)).before = HostPort(a) /\ HostAndParams(RestOf(a)).after = TextOf(a)

\* The fields of a cut.
LEMMA FoundIs ==
  ASSUME NEW x, NEW y, NEW s
  PROVE  /\ CutTo(x, y).found /\ CutTo(x, y).before = x /\ CutTo(x, y).after = y
         /\ [CutTo(x, y) EXCEPT !.after = <<>>].before = x
         /\ [CutTo(x, y) EXCEPT !.after = <<>>].after = <<>>
         /\ ~NotCut(s).found /\ NotCut(s).before = s /\ NotCut(s).after = <<>>
         /\ [NotCut(s) EXCEPT !.after = <<>>].before = s
         /\ [NotCut(s) EXCEPT !.after = <<>>].after = <<>>
BY DEF CutTo, NotCut

\* HostPort has neither "/" nor ";".
LEMMA CutAfterHostPort ==
  ASSUME NEW a, IsAddress(a), NEW sep \in Seq(Tokens), Len(sep) >= 1, sep[1] \in {"/", ";"},
         NEW y \in Seq(Tokens)
  PROVE  Cut(HostPort(a) \o (sep \o y), sep) = CutTo(HostPort(a), y)
<1> DEFINE h == HostPort(a)
<1>1. h \in Seq(Tokens) /\ \A k \in 1..Len(h) : h[k] # "/" /\ h[k] # ";"
  BY HostPortTokens
<1> HIDE DEF h
<1>2. \A k \in 1..Len(h) : h[k] # sep[1]
  BY <1>1, Zenon
<1>3. sep # <<>>
  BY NotEmpty
<1>4. h \in Seq(Tokens)
  BY <1>1
<1>5. Cut(h \o (sep \o y), sep) = CutTo(h, y)
  BY <1>2, <1>3, <1>4, CutIs
<1> QED
  BY <1>5 DEF h

\* Nothing may follow.
LEMMA EmptyText ==
  ASSUME NEW s \in Seq(Tokens)
  PROVE  s \o <<>> = s /\ <<>> \in Seq(Tokens)
OBVIOUS

\* The documented form, "host/;params".
LEMMA WithSlashSemi ==
  ASSUME NEW a, IsAddress(a), a.form = Slash \o Semi
  PROVE  HostAndParamsAre(a)
<1> DEFINE sep == Slash \o Semi
<1>1. sep \in Seq(Tokens) /\ Len(sep) >= 1 /\ sep[1] \in {"/", ";"}
  BY SmallNumbers, SlashSemiIs, Zenon
<1>2. RestOf(a) = HostPort(a) \o (sep \o TextOf(a)) /\ TextOf(a) \in Seq(Tokens)
  BY RestIs, Zenon
<1> HIDE DEF sep
<1>3. Cut(RestOf(a), sep) = CutTo(HostPort(a), TextOf(a))
  BY <1>1, <1>2, CutAfterHostPort
<1>4. CutTo(HostPort(a), TextOf(a)).found
  BY FoundIs
<1>5. HostAndParams(RestOf(a)) = CutTo(HostPort(a), TextOf(a))
  BY <1>3, <1>4, Zenon DEF HostAndParams, sep
<1> DEFINE h == HostPort(a)
           y == TextOf(a)
<1>6. HostAndParams(RestOf(a)) = CutTo(h, y)
  BY <1>5
<1> HIDE DEF h, y
<1>7. CutTo(h, y).before = h /\ CutTo(h, y).after = y
  BY FoundIs
<1> QED
  BY <1>6, <1>7, Zenon DEF HostAndParamsAre, h, y

\* The form without the slash.
LEMMA WithSemi ==
  ASSUME NEW a, IsAddress(a), Plain(a), a.form = Semi
  PROVE  HostAndParamsAre(a)
<1> DEFINE h == HostPort(a)
           t == TextOf(a)
           r == h \o (Semi \o t)
<1>1. Semi \in Seq(Tokens) /\ Len(Semi) >= 1 /\ Semi[1] \in {"/", ";"}
  BY SmallNumbers, OneSeparators, Zenon
<1>2. RestOf(a) = r /\ t \in Seq(Tokens) /\ h \in Seq(Tokens)
  BY RestIs, Zenon
<1>3. Cut(r, Semi) = CutTo(h, t)
  BY <1>1, <1>2, CutAfterHostPort
<1>4. \A k \in 1..Len(h) : h[k] # "/" /\ h[k] # ";"
  BY HostPortTokens, Zenon
<1>5. NoPair(t, "/", ";")
  <2>1. CASE a.params = <<>>
    <3>1. t = <<>>
      BY <2>1 DEF TextOf
    <3>2. \A k : k \notin 1..Len(<<>>) - 1
      OBVIOUS
    <3> HIDE DEF t
    <3> QED
      BY <3>1, <3>2, Zenon DEF NoPair
  <2>2. CASE a.params # <<>>
    <3>1. \A k \in 1..(Len(a.params) - 1) : ~IsSuffix(Slash, Written(a.params[k]))
      BY Zenon DEF Plain
    <3>2. a.params \in Seq(Parameters)
      BY DEF IsAddress
    <3>3. ASSUME NEW k \in 1..(Len(a.params) - 1) PROVE ~EndsIn(Written(a.params[k]), "/")
      <4>1. k \in 1..Len(a.params)
        BY <3>2
      <4>2. Written(a.params[k]) \in Seq(Tokens)
        BY <3>2, <4>1, ElementOf, WrittenTokens
      <4>3. IsSuffix(Slash, Written(a.params[k])) <=> EndsIn(Written(a.params[k]), "/")
        BY <4>2, SuffixSlash, Zenon DEF EndsIn
      <4> QED
        BY <3>1, <4>3
    <3>4. NoPair(Join(a.params), "/", ";")
      BY <2>2, <3>2, <3>3, JoinHasNone, Zenon
    <3> QED
      BY <2>2, <3>4 DEF TextOf
  <2> QED
    BY <2>1, <2>2
<1> HIDE DEF h, t
<1>6. NoPair(h \o (<<";">> \o t), "/", ";")
  <2>1. "/" # ";"
    OBVIOUS
  <2> QED
    BY <1>2, <1>4, <1>5, <2>1, NoPairBefore, OneSeparators, Zenon
<1>7. Cut(r, Slash \o Semi) = NotCut(r)
  <2> DEFINE sep == Slash \o Semi
  <2>1. sep \in Seq(Tokens) /\ Len(sep) = 2 /\ sep[1] = "/" /\ sep[2] = ";"
    BY SlashSemiIs
  <2> HIDE DEF sep
  <2>2. NoPair(r, sep[1], sep[2])
    BY <1>6, <2>1, Zenon DEF Semi
  <2>3. r \in Seq(Tokens)
    BY <1>1, <1>2, Around
  <2> HIDE DEF r
  <2>4. Cut(r, sep) = NotCut(r)
    BY <2>1, <2>2, <2>3, NoOccurrence, Zenon
  <2> QED
    BY <2>4 DEF sep
<1> HIDE DEF r
<1>8. CutTo(h, t).found /\ ~NotCut(r).found
  BY FoundIs
<1>9. HostAndParams(r) = CutTo(h, t)
  BY <1>3, <1>7, <1>8, Zenon DEF HostAndParams
<1>10. HostAndParams(RestOf(a)) = CutTo(h, t)
  BY <1>2, <1>9
<1> QED
  BY <1>10, FoundIs DEF HostAndParamsAre, h, t

\* A path is dropped.
LEMMA WithPath ==
  ASSUME NEW a, IsAddress(a), TextOf(a) = <<>>, a.form = Slash \o Tail(a.form),
         Tail(a.form) \in Seq(Tokens), a.form \in Seq(Tokens \ {";"})
  PROVE  HostAndParamsAre(a)
<1> DEFINE h == HostPort(a)
           f == a.form
           r == h \o f
<1>1. RestOf(a) = r /\ h \in Seq(Tokens) /\ f \in Seq(Tokens)
  BY RestIs, EmptyText
<1>2. Slash \in Seq(Tokens) /\ Len(Slash) >= 1 /\ Slash[1] \in {"/", ";"}
  BY SmallNumbers, OneSeparators, Zenon
<1>3. Cut(h \o (Slash \o Tail(f)), Slash) = CutTo(h, Tail(f))
  BY <1>2, CutAfterHostPort
<1>4. Cut(r, Slash) = CutTo(h, Tail(f))
  BY <1>3, Zenon
<1>5. \A k \in 1..Len(h) : h[k] # ";"
  BY HostPortTokens, Zenon
<1>6. \A k \in 1..Len(f) : f[k] # ";"
  <2> DEFINE T == Tokens \ {";"}
  <2> HIDE DEF T, f
  <2>1. f \in Seq(T)
    BY DEF T, f
  <2>2. \A k \in 1..Len(f) : f[k] \in T
    BY <2>1, ElementOf
  <2> QED
    BY <2>2, Zenon DEF T
<1> HIDE DEF h, f
<1>7. r \in Seq(Tokens) /\ \A k \in 1..Len(r) : r[k] # ";"
  BY <1>1, <1>5, <1>6, NoneInEither, Zenon
<1> HIDE DEF r
<1>8. Cut(r, Slash \o Semi) = NotCut(r) /\ Cut(r, Semi) = NotCut(r)
  BY <1>7, NotCutWithout, Zenon
<1>9. ~NotCut(r).found
  BY FoundIs
<1>10. HostAndParams(r) = [CutTo(h, Tail(f)) EXCEPT !.after = <<>>]
  BY <1>4, <1>8, <1>9, Zenon DEF HostAndParams
<1>11. HostAndParams(r).before = h /\ HostAndParams(r).after = <<>>
  <2> DEFINE y == Tail(f)
  <2> HIDE DEF y
  <2>1. /\ [CutTo(h, y) EXCEPT !.after = <<>>].before = h
        /\ [CutTo(h, y) EXCEPT !.after = <<>>].after = <<>>
    BY DEF CutTo
  <2> QED
    BY <1>10, <2>1, Zenon DEF y
<1> QED
  BY <1>1, <1>11, Zenon DEF HostAndParamsAre, h

\* Host and port only.
LEMMA WithNothing ==
  ASSUME NEW a, IsAddress(a), a.form = <<>>, TextOf(a) = <<>>
  PROVE  HostAndParamsAre(a)
<1> DEFINE h == HostPort(a)
<1>1. h \in Seq(Tokens) /\ RestOf(a) = h
  <2>1. h \in Seq(Tokens) /\ RestOf(a) = h \o (<<>> \o <<>>)
    BY RestIs, Zenon
  <2>2. <<>> \o <<>> = <<>>
    OBVIOUS
  <2> QED
    BY <2>1, <2>2, EmptyText
<1>2. \A k \in 1..Len(h) : h[k] # "/" /\ h[k] # ";"
  BY HostPortTokens, Zenon
<1> HIDE DEF h
<1>3. Cut(h, Slash \o Semi) = NotCut(h) /\ Cut(h, Semi) = NotCut(h)
  BY <1>1, <1>2, NotCutWithout, Zenon
<1>4. Cut(h, Slash) = NotCut(h)
  <2>2. Slash \in Seq(Tokens) /\ 1 \in 1..Len(Slash) /\ \A k \in 1..Len(h) : h[k] # Slash[1]
    BY <1>2, SmallNumbers, OneSeparators, Zenon
  <2> QED
    BY <1>1, <2>2, NotCutIs, Zenon
<1>5. ~NotCut(h).found
  BY FoundIs
<1>6. HostAndParams(h) = [NotCut(h) EXCEPT !.after = <<>>]
  BY <1>3, <1>4, <1>5, Zenon DEF HostAndParams
<1>7. HostAndParams(h).before = h /\ HostAndParams(h).after = <<>>
  BY <1>6, FoundIs
<1> QED
  BY <1>1, <1>7, Zenon DEF HostAndParamsAre, h

\* The first cut of the parser is where it was meant, for each form of a plain
\* address.
LEMMA HostAndParamsIs ==
  ASSUME NEW a, IsAddress(a), Plain(a)
  PROVE  HostAndParamsAre(a)
<1>1. CASE a.form = Slash \o Semi
  BY <1>1, WithSlashSemi, Zenon
<1>2. CASE a.form = Semi
  BY <1>2, WithSemi, Zenon
<1>3. CASE a.form = <<>> /\ TextOf(a) = <<>>
  BY <1>3, WithNothing, Zenon
<1>4. CASE /\ TextOf(a) = <<>> /\ a.form = Slash \o Tail(a.form) /\ Tail(a.form) \in Seq(Tokens)
           /\ a.form \in Seq(Tokens \ {";"})
  BY <1>4, WithPath, Zenon
<1> QED
  BY <1>1, <1>2, <1>3, <1>4, FormIs, Zenon

LEMMA LenOfSome ==
  ASSUME NEW T, NEW s \in Seq(T)
  PROVE  /\ Len(s) \in Nat
         /\ s # <<>> <=> Len(s) >= 1
         /\ s = <<>> <=> Len(s) = 0
OBVIOUS

\* A sequence is all but its last element, and that.
LEMMA FrontAndLast ==
  ASSUME NEW T, NEW s \in Seq(T), Len(s) >= 1
  PROVE  /\ Front(s) \in Seq(T) /\ Len(Front(s)) = Len(s) - 1 /\ s[Len(s)] \in T
         /\ \A k \in 1..(Len(s) - 1) : Front(s)[k] = s[k]
         /\ s = Front(s) \o <<s[Len(s)]>>
<1> DEFINE f == SubSeq(s, 1, Len(s) - 1)
           q == <<s[Len(s)]>>
<1>1. Len(s) \in Nat /\ Len(s) >= 1 /\ s[Len(s)] \in T
  OBVIOUS
<1>2. f \in Seq(T) /\ Len(f) = Len(s) - 1 /\ \A k \in 1..(Len(s) - 1) : f[k] = s[k]
  <2>1. 1 \in Nat /\ Len(s) - 1 \in Nat /\ 1 >= 1 /\ Len(s) - 1 <= Len(s) /\ 1 <= Len(s) - 1 + 1
        /\ Len(s) - 1 + 1 - 1 = Len(s) - 1
    BY <1>1
  <2>2. /\ f \in Seq(T) /\ Len(f) = Len(s) - 1 + 1 - 1
        /\ \A k \in 1..(Len(s) - 1 + 1 - 1) : f[k] = s[1 + k - 1]
    BY <2>1, SubSeqIs
  <2>3. \A k \in 1..(Len(s) - 1) : 1 + k - 1 = k
    BY <1>1
  <2> HIDE DEF f
  <2> QED
    BY <2>1, <2>2, <2>3
<1>3. q \in Seq(T) /\ Len(q) = 1 /\ q[1] = s[Len(s)]
  BY <1>1, OneIs
<1> HIDE DEF f, q
<1>4. /\ f \o q \in Seq(T) /\ Len(f \o q) = Len(f) + Len(q)
      /\ \A k \in 1..Len(f) : (f \o q)[k] = f[k]
      /\ \A k \in 1..Len(q) : (f \o q)[Len(f) + k] = q[k]
  <2>1. f \in Seq(T) /\ q \in Seq(T)
    BY <1>2, <1>3
  <2> QED
    BY <2>1, Concatenated
<1>5. Len(f \o q) = Len(s)
  BY <1>1, <1>2, <1>3, <1>4
<1>6. ASSUME NEW k \in 1..Len(s) PROVE s[k] = (f \o q)[k]
  <2>1. CASE k <= Len(s) - 1
    BY <1>1, <1>2, <1>4, <2>1
  <2>2. CASE k = Len(s)
    <3>1. Len(f) + 1 = k /\ 1 \in 1..Len(q)
      BY <1>1, <1>2, <1>3, <2>2
    <3> QED
      BY <1>3, <1>4, <2>2, <3>1
  <2>3. \A n \in Nat : \A m \in 1..n : m <= n - 1 \/ m = n
    OBVIOUS
  <2> QED
    BY <1>1, <2>1, <2>2, <2>3, Zenon
<1>7. s = f \o q
  BY <1>4, <1>5, <1>6, SeqsEqual
<1> QED
  BY <1>1, <1>2, <1>7 DEF Front, f, q

\* A port is at most a colon and a token.
LEMMA TailOfTwo ==
  ASSUME NEW T, NEW s \in Seq(T), Len(s) >= 1, Len(s) <= 2
  PROVE  Tail(s) = IF Len(s) = 2 THEN <<s[2]>> ELSE <<>>
<1>1. CASE Len(s) = 2
  <2>1. s[2] \in T
    BY <1>1
  <2> DEFINE q == <<s[2]>>
  <2>2. q \in Seq(T) /\ Len(q) = 1 /\ q[1] = s[2]
    BY <2>1, OneIs
  <2> HIDE DEF q
  <2>3. Tail(s) \in Seq(T) /\ Len(Tail(s)) = 1 /\ Tail(s)[1] = s[2]
    BY <1>1
  <2>4. Len(Tail(s)) = Len(q) /\ \A k \in 1..Len(Tail(s)) : Tail(s)[k] = q[k]
    BY <2>2, <2>3
  <2>5. Tail(s) = q
    BY <2>2, <2>3, <2>4, SeqsEqual, Zenon
  <2> QED
    BY <1>1, <2>5 DEF q
<1>2. CASE Len(s) = 1
  <2>1. Tail(s) \in Seq(T) /\ Len(Tail(s)) = 0
    <3>1. Tail(s) \in Seq(T) /\ Len(s) = 1 + Len(Tail(s))
      BY LenOfSome, HeadAndTail, Zenon
    <3>2. Len(Tail(s)) \in Nat
      BY <3>1, LenIsNat
    <3>3. \A n \in Nat : 1 = 1 + n => n = 0
      OBVIOUS
    <3> QED
      BY <1>2, <3>1, <3>2, <3>3, Zenon
  <2>2. Tail(s) = <<>>
    BY <2>1, LenOfSome, Zenon
  <2>3. 1 # 2
    OBVIOUS
  <2> QED
    BY <1>2, <2>2, <2>3, Zenon
<1>3. Len(s) = 1 \/ Len(s) = 2
  <2>1. Len(s) \in Nat
    BY LenIsNat
  <2>2. \A n \in Nat : n >= 1 /\ n <= 2 => n = 1 \/ n = 2
    OBVIOUS
  <2> QED
    BY <2>1, <2>2, Zenon
<1> QED
  BY <1>1, <1>2, <1>3, Zenon

\* What the port is read as.
LEMMA PortIs ==
  ASSUME NEW a, IsAddress(a)
  PROVE  /\ PortOf(a) = IF IsPrefix(<<":">>, a.port) THEN Tail(a.port) ELSE <<>>
         /\ a.port = <<>> => PortOf(a) = <<>>
         /\ a.port # <<>> => /\ a.port = <<":">> \o Tail(a.port) /\ PortOf(a) = Tail(a.port)
                             /\ Tail(a.port) \in Seq(Tokens)
                             /\ \A k \in 1..Len(Tail(a.port)) : Tail(a.port)[k] # ":"
<1> DEFINE q == a.port
           x == ":"
<1>1. /\ q \in Seq(Tokens) /\ Len(q) \in 0..2
      /\ Len(q) > 0 => q[1] = x
      /\ Len(q) > 1 => q[2] # x
  BY PortTokens, WordsAreNot
<1>2. PortOf(a) = IF Len(q) = 2 THEN <<q[2]>> ELSE <<>>
  BY Zenon DEF PortOf
<1> HIDE DEF q, x
<1>3. IsPrefix(<<x>>, q) <=> Len(q) >= 1
  BY <1>1, PrefixOfOne
<1>4. ASSUME q # <<>>
      PROVE  /\ q = <<x>> \o Tail(q) /\ PortOf(a) = Tail(q) /\ Tail(q) \in Seq(Tokens)
             /\ \A k \in 1..Len(Tail(q)) : Tail(q)[k] # x
  <2>1. Len(q) >= 1 /\ Len(q) <= 2 /\ Len(q) \in Nat /\ q[1] = x
    <3>1. Len(q) >= 1 /\ Len(q) \in Nat
      BY <1>1, <1>4, LenOfSome, Zenon
    <3>2. \A n \in 0..2 : n <= 2
      OBVIOUS
    <3>3. \A n \in Nat : n >= 1 => n > 0
      OBVIOUS
    <3> QED
      BY <1>1, <3>1, <3>2, <3>3, Zenon
  <2>2. PortOf(a) = Tail(q)
    BY <1>1, <1>2, <2>1, TailOfTwo, Zenon
  <2>3. /\ Tail(q) \in Seq(Tokens) /\ q = <<q[1]>> \o Tail(q) /\ Len(q) = 1 + Len(Tail(q))
        /\ \A k \in 1..Len(Tail(q)) : Tail(q)[k] = q[k + 1]
    BY <1>1, <1>4, HeadAndTail, Zenon
  <2>4. ASSUME NEW k \in 1..Len(Tail(q)) PROVE Tail(q)[k] # x
    <3>1. k = 1 /\ k + 1 = 2 /\ Len(q) > 1
      <4>1. Len(Tail(q)) \in Nat
        BY <2>3, LenIsNat
      <4> QED
        BY <2>1, <2>3, <4>1
    <3>2. Tail(q)[k] = q[2]
      BY <2>3, <3>1
    <3> QED
      BY <1>1, <3>1, <3>2
  <2> QED
    BY <2>1, <2>2, <2>3, <2>4, Zenon
<1>5. ASSUME q = <<>> PROVE PortOf(a) = <<>> /\ ~(Len(q) >= 1)
  <2>1. Len(q) = 0
    BY <1>5
  <2>2. 0 # 2 /\ ~(0 >= 1)
    OBVIOUS
  <2> QED
    BY <1>2, <2>1, <2>2, Zenon
<1>6. Len(q) >= 1 \/ q = <<>>
  BY <1>1
<1>7. PortOf(a) = IF IsPrefix(<<x>>, q) THEN Tail(q) ELSE <<>>
  <2>1. CASE q = <<>>
    BY <1>3, <1>5, <2>1, Zenon
  <2>2. CASE q # <<>>
    BY <1>3, <1>4, <1>6, <2>2, Zenon
  <2> QED
    BY <2>1, <2>2
<1> QED
  BY <1>4, <1>5, <1>7, Zenon DEF q, x

\* splitHostPort finds the host and the port.
SplitsAsMeant(a) ==
    splitHostPort(HostPort(a)) = [host |-> HostOf(a), port |-> PortOf(a)]

\* It does for a host in brackets,
LEMMA LiteralSplits ==
  ASSUME NEW a, IsAddress(a), IsPrefix(<<"[">>, a.host)
  PROVE  SplitsAsMeant(a)
<1> DEFINE h == a.host
           q == a.port
           x == "["
           y == "]"
           f == Front(h)
<1>1. /\ h \in Seq(Tokens) /\ Len(h) > 1 /\ h[Len(h)] = y /\ q \in Seq(Tokens)
      /\ \A k \in 2..Len(h) - 1 : h[k] # y
  BY HostTokens, PortTokens, WordsAreNot
<1>2. x # y /\ y \in Tokens /\ IsPrefix(<<x>>, h)
  BY OneSeparators
<1> HIDE DEF x, y, h, q
<1>3. h[1] = x
  BY <1>1, <1>2, PrefixOfOne
<1>4. Len(h) >= 1 /\ Len(h) \in Nat
  BY <1>1
<1>5. /\ f \in Seq(Tokens) /\ Len(f) = Len(h) - 1 /\ h = f \o <<h[Len(h)]>>
      /\ \A k \in 1..(Len(h) - 1) : f[k] = h[k]
  BY <1>1, <1>4, FrontAndLast, Zenon
<1> HIDE DEF f
<1>6. ASSUME NEW k \in 1..Len(f) PROVE f[k] # y
  <2>1. f[k] = h[k] /\ (k = 1 \/ k \in 2..Len(h) - 1)
    BY <1>4, <1>5
  <2> QED
    BY <1>1, <1>2, <1>3, <2>1
<1> DEFINE sep == <<y>>
<1>7. sep \in Seq(Tokens) /\ Len(sep) = 1 /\ sep[1] = y
  BY <1>2, OneIs
<1>8. h = f \o sep
  BY <1>1, <1>5, Zenon
<1> HIDE DEF sep
<1>9. h \o q = f \o (sep \o q)
  <2>1. \A s, r, t \in Seq(Tokens) : (s \o r) \o t = s \o (r \o t)
    BY ConcatAssoc
  <2> QED
    BY <1>1, <1>5, <1>7, <1>8, <2>1, Zenon
<1>10. Cut(h \o q, sep) = CutTo(f, q)
  <2>1. sep # <<>> /\ \A k \in 1..Len(f) : f[k] # sep[1]
    BY <1>6, <1>7, NotEmpty
  <2>2. Cut(f \o (sep \o q), sep) = CutTo(f, q)
    BY <1>1, <1>5, <1>7, <2>1, CutIs, Zenon
  <2> QED
    BY <1>9, <2>2, Zenon
<1>11. IsPrefix(<<x>>, h \o q)
  <2>1. /\ h \o q \in Seq(Tokens) /\ Len(h \o q) = Len(h) + Len(q)
        /\ \A k \in 1..Len(h) : (h \o q)[k] = h[k]
    <3>1. h \in Seq(Tokens) /\ q \in Seq(Tokens)
      BY <1>1
    <3> QED
      BY <3>1, Concatenated
  <2>2. Len(q) \in Nat
    BY <1>1, LenIsNat
  <2>3. Len(h \o q) >= 1 /\ (h \o q)[1] = h[1]
    BY <1>1, <1>4, <2>1, <2>2
  <2> QED
    BY <1>3, <2>1, <2>3, PrefixOfOne
<1>12. CutTo(f, q).found /\ CutTo(f, q).before = f /\ CutTo(f, q).after = q
  BY FoundIs
<1>13. splitHostPort(h \o q) =
          [host |-> Tail(f), port |-> IF IsPrefix(<<":">>, q) THEN Tail(q) ELSE <<>>]
  <2>1. splitHostPort(h \o q) =
          LET c == Cut(h \o q, sep) IN
          IF ~c.found THEN [host |-> h \o q, port |-> <<>>]
          ELSE [host |-> Tail(c.before), port |-> IF IsPrefix(<<":">>, c.after) THEN Tail(c.after) ELSE <<>>]
    BY <1>11, Zenon DEF splitHostPort, x, y, sep
  <2> QED
    BY <1>10, <1>12, <2>1, Zenon
<1>14. PortOf(a) = IF IsPrefix(<<":">>, q) THEN Tail(q) ELSE <<>>
  BY PortIs, Zenon DEF q
<1>15. HostOf(a) = Tail(f)
  BY Zenon DEF HostOf, f, h
<1> QED
  BY <1>13, <1>14, <1>15, Zenon DEF SplitsAsMeant, HostPort, h, q

\* for a name,
LEMMA NameSplits ==
  ASSUME NEW a, IsAddress(a), ~IsPrefix(<<"[">>, a.host)
  PROVE  SplitsAsMeant(a)
<1> DEFINE h == a.host
           q == a.port
           x == "["
           y == ":"
<1>1. h \in Seq(Tokens) /\ q \in Seq(Tokens) /\ x # y /\ y \in Tokens
  BY HostTokens, PortTokens, OneSeparators
<1>2. \A k \in 1..Len(h) : h[k] # x /\ h[k] # y
  <2>1. h \in Seq(Words)
    BY HostTokens
  <2> HIDE DEF h, x, y
  <2>2. \A k \in 1..Len(h) : h[k] \in Words
    BY <2>1, ElementOf
  <2> QED
    BY <2>2, WordsAreNot, Zenon DEF x, y
<1>3. /\ q = <<>> => PortOf(a) = <<>>
      /\ q # <<>> => /\ q = <<y>> \o Tail(q) /\ PortOf(a) = Tail(q)
                     /\ Tail(q) \in Seq(Tokens)
                     /\ \A k \in 1..Len(Tail(q)) : Tail(q)[k] # y
  BY PortIs, Zenon
<1>4. \A k \in 1..Len(q) : q[k] # x
  BY PortTokens, WordsAreNot
<1>5. HostOf(a) = h
  BY Zenon DEF HostOf
<1> HIDE DEF x, y, h, q
<1>6. ~IsPrefix(<<x>>, h \o q)
  <2>1. h \o q \in Seq(Tokens) /\ \A k \in 1..Len(h \o q) : (h \o q)[k] # x
    BY <1>1, <1>2, <1>4, NoneInEither, Zenon
  <2> DEFINE s == h \o q
  <2> HIDE DEF s
  <2>2. IsPrefix(<<x>>, s) <=> (Len(s) >= 1 /\ s[1] = x)
    BY <2>1, PrefixOfOne, Zenon DEF s
  <2>3. Len(s) >= 1 => 1 \in 1..Len(s)
    BY <2>1, NotEmpty DEF s
  <2> QED
    BY <2>1, <2>2, <2>3, Zenon DEF s
<1>7. splitHostPort(h \o q) =
          [host |-> CutLast(h \o q, <<y>>).before, port |-> CutLast(h \o q, <<y>>).after]
  BY <1>6, Zenon DEF splitHostPort, x, y
<1>8. CASE q = <<>>
  <2>1. h \o q = h
    BY <1>1, <1>8, EmptyText
  <2> DEFINE sep == <<y>>
  <2>2. sep \in Seq(Tokens) /\ Len(sep) = 1 /\ sep[1] = y
    BY <1>1, OneIs
  <2> HIDE DEF sep
  <2>3. 1 \in 1..Len(sep) /\ \A k \in 1..Len(h) : h[k] # sep[1]
    BY <1>2, <2>2, SmallNumbers, Zenon
  <2>4. CutLast(h, sep) = NotCut(h)
    BY <1>1, <2>2, <2>3, NotCutIs, Zenon
  <2>5. CutLast(h \o q, <<y>>) = NotCut(h)
    BY <2>1, <2>4, Zenon DEF sep
  <2>6. NotCut(h).before = h /\ NotCut(h).after = <<>>
    BY FoundIs
  <2> QED
    BY <1>3, <1>5, <1>7, <1>8, <2>5, <2>6, Zenon DEF SplitsAsMeant, HostPort, h, q
<1>9. CASE q # <<>>
  <2> DEFINE t == Tail(q)
  <2>1. /\ q = <<y>> \o t /\ PortOf(a) = t /\ t \in Seq(Tokens)
        /\ \A k \in 1..Len(t) : t[k] # y
    BY <1>3, <1>9
  <2> HIDE DEF t
  <2>2. CutLast(h \o (<<y>> \o t), <<y>>) = CutTo(h, t)
    BY <1>1, <2>1, CutLastIs, Zenon
  <2>3. CutTo(h, t).before = h /\ CutTo(h, t).after = t
    BY FoundIs
  <2> QED
    BY <1>5, <1>7, <2>1, <2>2, <2>3, Zenon DEF SplitsAsMeant, HostPort, h, q
<1> QED
  BY <1>8, <1>9

\* and so for both.
LEMMA HostPortSplits ==
  ASSUME NEW a, IsAddress(a)
  PROVE  SplitsAsMeant(a)
BY LiteralSplits, NameSplits, Zenon

-----------------------------------------------------------------------------
(* 9. Splitting what was joined.                                           *)

\* Appending is joining one element.
LEMMA AppendOne ==
  ASSUME NEW T, NEW s \in Seq(T), NEW w \in T
  PROVE  /\ Append(s, w) \in Seq(T) /\ Len(Append(s, w)) = Len(s) + 1
         /\ Append(s, w)[Len(s) + 1] = w /\ \A k \in 1..Len(s) : Append(s, w)[k] = s[k]
         /\ Append(s, w) = s \o <<w>>
<1>1. /\ Append(s, w) \in Seq(T) /\ Len(Append(s, w)) = Len(s) + 1
      /\ Append(s, w)[Len(s) + 1] = w /\ \A k \in 1..Len(s) : Append(s, w)[k] = s[k]
  OBVIOUS
<1> DEFINE q == <<w>>
           r == Append(s, w)
<1>2. q \in Seq(T) /\ Len(q) = 1 /\ q[1] = w
  BY OneIs
<1>3. /\ r \in Seq(T) /\ Len(r) = Len(s) + 1
      /\ r[Len(s) + 1] = w /\ \A k \in 1..Len(s) : r[k] = s[k]
  BY <1>1
<1> HIDE DEF q, r
<1>4. /\ s \o q \in Seq(T) /\ Len(s \o q) = Len(s) + Len(q)
      /\ \A k \in 1..Len(s) : (s \o q)[k] = s[k]
      /\ \A k \in 1..Len(q) : (s \o q)[Len(s) + k] = q[k]
  <2>1. q \in Seq(T)
    BY <1>2
  <2> QED
    BY <2>1, Concatenated
<1>5. Len(r) = Len(s \o q)
  BY <1>2, <1>3, <1>4
<1>6. ASSUME NEW k \in 1..Len(r) PROVE r[k] = (s \o q)[k]
  <2>1. k \in 1..Len(s) \/ k = Len(s) + 1
    <3>1. \A n \in Nat : \A m \in 1..n + 1 : m \in 1..n \/ m = n + 1
      OBVIOUS
    <3>2. Len(s) \in Nat
      BY LenIsNat
    <3> QED
      BY <1>3, <3>1, <3>2, Zenon
  <2> QED
    BY <1>2, <1>3, <1>4, <2>1, SmallNumbers, Zenon
<1>7. r = s \o q
  BY <1>3, <1>4, <1>5, <1>6, SeqsEqual, Zenon
<1> QED
  BY <1>1, <1>7 DEF q, r

\* Split of one more token.
LEMMA SplitStep ==
  ASSUME NEW T, NEW s \in Seq(T), NEW w \in T
  PROVE  Split(Append(s, w)) = Further(Split(s), w)
<1> DEFINE r == Append(s, w)
           n == Len(s)
<1>1. /\ r \in Seq(T) /\ Len(r) = n + 1 /\ r[n + 1] = w /\ \A k \in 1..n : r[k] = s[k]
      /\ n \in Nat
  BY AppendOne, LenIsNat
<1> HIDE DEF r
<1>2. PICK u \in [0..n -> Parts(T)] :
         /\ u[0] = <<<<>>>> /\ u[n] = Split(s)
         /\ \A k \in 1..n : u[k] = Further(u[k - 1], s[k])
  BY SplitIsTraced
<1>3. PICK v \in [0..Len(r) -> Parts(T)] :
         /\ v[0] = <<<<>>>> /\ v[Len(r)] = Split(r)
         /\ \A k \in 1..Len(r) : v[k] = Further(v[k - 1], r[k])
  BY <1>1, SplitIsTraced
<1> HIDE DEF n
<1> DEFINE D == {k \in Nat : k <= n => u[k] = v[k]}
<1>4. 0 \in D
  BY <1>2, <1>3
<1>5. ASSUME NEW k \in Nat, k \in D PROVE k + 1 \in D
  <2>1. SUFFICES ASSUME k + 1 <= n PROVE u[k + 1] = v[k + 1]
    OBVIOUS
  <2>2. k + 1 \in 1..n /\ k + 1 \in 1..n + 1 /\ k + 1 - 1 = k /\ k <= n
    BY <1>1, <2>1
  <2> QED
    BY <1>1, <1>2, <1>3, <1>5, <2>2
<1> HIDE DEF D
<1>6. n \in D
  BY <1>1, <1>4, <1>5, NatSetInduction
<1>7. u[n] = v[n]
  BY <1>1, <1>6 DEF D
<1>8. n + 1 \in 1..n + 1 /\ n + 1 - 1 = n
  BY <1>1
<1> QED
  BY <1>1, <1>2, <1>3, <1>7, <1>8 DEF r

\* The last part continued.
Grown(q, r) == Front(q) \o <<Last(q) \o r>>

\* Split's parts are those before the last, and the last.
LEMMA PartsAre ==
  ASSUME NEW T, NEW q \in Parts(T)
  PROVE  /\ Front(q) \in Seq(Seq(T)) /\ Last(q) \in Seq(T)
         /\ q = Front(q) \o <<Last(q)>>
<1>1. q \in Seq(Seq(T)) /\ Len(q) >= 1
  BY DEF Parts
<1>2. /\ Front(q) \in Seq(Seq(T)) /\ q[Len(q)] \in Seq(T)
      /\ q = Front(q) \o <<q[Len(q)]>>
  BY <1>1, FrontAndLast, Zenon
<1> QED
  BY <1>2, Zenon DEF Last

LEMMA FrontOfLonger ==
  ASSUME NEW T, NEW s \in Seq(T), NEW e \in T
  PROVE  Front(s \o <<e>>) = s /\ Last(s \o <<e>>) = e
<1> DEFINE q == <<e>>
           r == s \o q
<1>1. q \in Seq(T) /\ Len(q) = 1 /\ q[1] = e
  BY OneIs
<1> HIDE DEF q
<1>2. /\ r \in Seq(T) /\ Len(r) = Len(s) + Len(q)
      /\ \A k \in 1..Len(s) : r[k] = s[k]
      /\ \A k \in 1..Len(q) : r[Len(s) + k] = q[k]
  <2>1. q \in Seq(T)
    BY <1>1
  <2> QED
    BY <2>1, Concatenated
<1>3. Len(s) \in Nat
  BY LenIsNat
<1> HIDE DEF r
<1>4. Len(r) = Len(s) + 1 /\ r[Len(r)] = e /\ Len(r) >= 1 /\ Len(r) - 1 = Len(s)
  BY <1>1, <1>2, <1>3
<1>5. /\ Front(r) \in Seq(T) /\ Len(Front(r)) = Len(r) - 1
      /\ \A k \in 1..(Len(r) - 1) : Front(r)[k] = r[k]
  BY <1>2, <1>4, FrontAndLast, Zenon
<1>6. Len(Front(r)) = Len(s) /\ \A k \in 1..Len(Front(r)) : Front(r)[k] = s[k]
  BY <1>2, <1>4, <1>5, Zenon
<1>7. Front(r) = s
  BY <1>5, <1>6, SeqsEqual, Zenon
<1> QED
  BY <1>4, <1>7, Zenon DEF Last, r, q

\* A token that is no semicolon continues the last part.
LEMMA GrownByOne ==
  ASSUME NEW T, NEW q \in Parts(T), NEW r \in Seq(T), NEW w \in T, <<w>> # Semi
  PROVE  Further(Grown(q, r), w) = Grown(q, Append(r, w))
<1> DEFINE f == Front(q)
           l == Last(q)
           e == l \o r
<1>1. f \in Seq(Seq(T)) /\ l \in Seq(T)
  BY PartsAre
<1> HIDE DEF f, l
<1>2. e \in Seq(T)
  BY <1>1, Concatenated, Zenon
<1>3. Append(e, w) = l \o Append(r, w)
  <2> DEFINE o == <<w>>
  <2>1. o \in Seq(T)
    BY OneIs
  <2>2. Append(e, w) = e \o o /\ Append(r, w) = r \o o
    BY <1>2, AppendOne, Zenon
  <2> HIDE DEF o
  <2>3. \A s1, s2, s3 \in Seq(T) : (s1 \o s2) \o s3 = s1 \o (s2 \o s3)
    BY ConcatAssoc
  <2> QED
    <3>1. (l \o r) \o o = l \o (r \o o)
      BY <1>1, <2>1, <2>3, Zenon
    <3> QED
      BY <2>2, <3>1, Zenon
<1> HIDE DEF e
<1>4. Front(f \o <<e>>) = f /\ Last(f \o <<e>>) = e
  BY <1>1, <1>2, FrontOfLonger, Zenon
<1>5. Further(f \o <<e>>, w) = f \o <<Append(e, w)>>
  BY <1>4, Zenon DEF Further
<1> QED
  BY <1>3, <1>5, Zenon DEF Grown, f, l, e

\* So does a string without semicolons, by induction over its length.
LEMMA SplitGrows ==
  ASSUME NEW T, NEW s \in Seq(T), NEW r \in Seq(T), \A k \in 1..Len(r) : <<r[k]>> # Semi
  PROVE  Split(s \o r) = Grown(Split(s), r)
<1> DEFINE Free(t) == \A k \in 1..Len(t) : <<t[k]>> # Semi
           D == {n \in Nat : \A t \in Seq(T) : Len(t) = n /\ Free(t) =>
                                 Split(s \o t) = Grown(Split(s), t)}
<1>1. Split(s) \in Parts(T)
  <2>1. Len(s) \in 0..Len(s)
    OBVIOUS
  <2> QED
    BY <2>1, SplitIsTraced
<1>2. ASSUME NEW t \in Seq(T), Len(t) = 0 PROVE Split(s \o t) = Grown(Split(s), t)
  <2>1. t = <<>>
    BY <1>2
  <2>2. s \o <<>> = s
    OBVIOUS
  <2>3. Last(Split(s)) \in Seq(T)
    BY <1>1, PartsAre
  <2>4. \A x \in Seq(T) : x \o <<>> = x
    OBVIOUS
  <2>5. Last(Split(s)) \o <<>> = Last(Split(s))
    BY <2>3, <2>4
  <2>6. Split(s) = Front(Split(s)) \o <<Last(Split(s))>>
    BY <1>1, PartsAre, Zenon
  <2> QED
    BY <2>1, <2>2, <2>5, <2>6, Zenon DEF Grown
<1>3. 0 \in D
  BY <1>2, Zenon
<1>4. ASSUME NEW n \in Nat, n \in D, NEW t \in Seq(T), Len(t) = n + 1, Free(t)
      PROVE  Split(s \o t) = Grown(Split(s), t)
  <2> DEFINE f == Front(t)
             w == t[Len(t)]
  <2>1. Len(t) >= 1 /\ Len(t) - 1 = n /\ Len(t) \in 1..Len(t) /\ \A k \in 1..n : k \in 1..Len(t)
    BY <1>4
  <2>2. /\ f \in Seq(T) /\ Len(f) = n /\ w \in T /\ t = f \o <<w>>
        /\ \A k \in 1..n : f[k] = t[k]
    BY <2>1, FrontAndLast, Zenon
  <2>3. <<w>> # Semi /\ Free(f)
    BY <1>4, <2>1, <2>2, Zenon
  <2> HIDE DEF f, w
  <2>4. Split(s \o f) = Grown(Split(s), f)
    BY <1>4, <2>2, <2>3, Zenon
  <2>5. t = Append(f, w)
    BY <2>2, AppendOne, Zenon
  <2>6. s \o t = Append(s \o f, w)
    <3> DEFINE o == <<w>>
    <3>1. o \in Seq(T)
      BY <2>2, OneIs
    <3>2. s \o f \in Seq(T)
      BY <2>2, Concatenated, Zenon
    <3>3. Append(s \o f, w) = (s \o f) \o o /\ t = f \o o
      BY <2>2, <3>2, AppendOne, Zenon
    <3> HIDE DEF o
    <3>4. \A s1, s2, s3 \in Seq(T) : (s1 \o s2) \o s3 = s1 \o (s2 \o s3)
      BY ConcatAssoc, SMTT(40)
    <3> QED
      <4>1. (s \o f) \o o = s \o (f \o o)
        BY <2>2, <3>1, <3>4, ZenonT(60)
      <4> QED
        BY <3>3, <4>1, ZenonT(60)
  <2>7. Split(Append(s \o f, w)) = Further(Split(s \o f), w)
    <3>1. s \o f \in Seq(T)
      BY <2>2, Concatenated, Zenon
    <3> QED
      BY <2>2, <3>1, SplitStep, Zenon
  <2>8. Further(Grown(Split(s), f), w) = Grown(Split(s), Append(f, w))
    BY <1>1, <2>2, <2>3, GrownByOne, Zenon
  <2> QED
    BY <2>4, <2>5, <2>6, <2>7, <2>8, Zenon
<1>5. ASSUME NEW n \in Nat, n \in D PROVE n + 1 \in D
  <2>1. n + 1 \in Nat
    OBVIOUS
  <2>2. \A t \in Seq(T) : Len(t) = n + 1 /\ Free(t) => Split(s \o t) = Grown(Split(s), t)
    BY <1>4, <1>5, Zenon
  <2> QED
    BY <2>1, <2>2, Zenon
<1> HIDE DEF D
<1>6. \A n \in Nat : n \in D
  BY <1>3, <1>5, NatSetInduction
<1>7. Len(r) \in Nat
  BY LenIsNat
<1> QED
  BY <1>6, <1>7, Zenon DEF D

\* The empty string is one empty part.
LEMMA SplitEmpty ==
  Split(<<>>) = <<<<>>>>
<1>1. <<>> \in Seq(Tokens) /\ Len(<<>>) = 0
  OBVIOUS
<1> QED
  BY <1>1, SplitIsTraced

LEMMA EmptyBefore ==
  ASSUME NEW T, NEW s \in Seq(T)
  PROVE  <<>> \o s = s /\ <<>> \in Seq(T)
OBVIOUS

\* A written parameter is one part.
LEMMA WrittenIsOnePart ==
  ASSUME NEW p \in Parameters
  PROVE  /\ Written(p) \in Seq(Tokens)
         /\ \A k \in 1..Len(Written(p)) : <<Written(p)[k]>> # Semi
<1> DEFINE w == Written(p)
<1>1. w \in Seq(Tokens) /\ \A k \in 1..Len(w) : w[k] # ";"
  BY WrittenTokens, Zenon
<1> HIDE DEF w
<1>2. \A x : <<x>> = <<";">> => x = ";"
  OBVIOUS
<1> QED
  BY <1>1, <1>2, Zenon DEF Semi, w

LEMMA SplitOfWritten ==
  ASSUME NEW p \in Parameters
  PROVE  Split(Written(p)) = <<Written(p)>>
<1> DEFINE w == Written(p)
           e == <<>>
           z == <<>>
<1>1. w \in Seq(Tokens) /\ \A k \in 1..Len(w) : <<w[k]>> # Semi
  BY WrittenIsOnePart, Zenon
<1> HIDE DEF w
<1>2. e \o w = w /\ e \in Seq(Tokens) /\ Split(e) = <<e>>
  BY <1>1, EmptyBefore, SplitEmpty, Zenon
<1>3. z \in Seq(Seq(Tokens)) /\ z \o <<e>> = <<e>> /\ z \o <<w>> = <<w>>
  <2>1. <<e>> \in Seq(Seq(Tokens)) /\ <<w>> \in Seq(Seq(Tokens))
    BY <1>1, <1>2, OneIs, Zenon
  <2> QED
    BY <2>1, EmptyBefore, Zenon
<1> HIDE DEF e, z
<1>4. Split(e \o w) = Grown(Split(e), w)
  BY <1>1, <1>2, SplitGrows, Zenon
<1>5. Front(z \o <<e>>) = z /\ Last(z \o <<e>>) = e
  BY <1>2, <1>3, FrontOfLonger, Zenon
<1>6. Front(<<e>>) = z /\ Last(<<e>>) = e
  BY <1>3, <1>5, Zenon
<1>7. Grown(<<e>>, w) = z \o <<e \o w>>
  BY <1>6, Zenon DEF Grown
<1>8. Split(w) = <<w>>
  BY <1>2, <1>3, <1>4, <1>7, Zenon
<1> QED
  BY <1>8, Zenon DEF w

\* A further parameter is a further part.
LEMMA SplitOfJoined ==
  ASSUME NEW s \in Seq(Tokens), NEW p \in Parameters
  PROVE  Split(Joined(s, p)) = Append(Split(s), Written(p)) /\ Split(s) \in Parts(Tokens)
<1> DEFINE w == Written(p)
           e == <<>>
           Q == Split(s)
<1>1. w \in Seq(Tokens) /\ \A k \in 1..Len(w) : <<w[k]>> # Semi
  BY WrittenIsOnePart, Zenon
<1>2. Joined(s, p) = s \o (Semi \o w) /\ Semi \in Seq(Tokens) /\ Semi = <<";">> /\ ";" \in Tokens
  BY JoinedIs, OneSeparators, Zenon
<1>3. Q \in Parts(Tokens)
  <2>1. Len(s) \in 0..Len(s)
    OBVIOUS
  <2> QED
    BY <2>1, SplitIsTraced
<1>4. Q \in Seq(Seq(Tokens)) /\ e \in Seq(Tokens)
  BY <1>3 DEF Parts
<1> HIDE DEF w
<1>5. Append(s, ";") \in Seq(Tokens) /\ Append(s, ";") = s \o Semi
  BY <1>2, AppendOne, Zenon
<1>6. Joined(s, p) = Append(s, ";") \o w
  <2>1. \A s1, s2, s3 \in Seq(Tokens) : (s1 \o s2) \o s3 = s1 \o (s2 \o s3)
    BY ConcatAssoc
  <2>2. (s \o Semi) \o w = s \o (Semi \o w)
    BY <1>1, <1>2, <2>1, Zenon
  <2> QED
    BY <1>2, <1>5, <2>2, Zenon
<1>7. Split(Append(s, ";")) = Further(Q, ";")
  BY <1>2, SplitStep, Zenon
<1>8. Further(Q, ";") = Append(Q, e)
  BY <1>2, Zenon DEF Further
<1> HIDE DEF Q
<1>9. Split(Append(s, ";") \o w) = Grown(Append(Q, e), w)
  <2>1. Split(Append(s, ";") \o w) = Grown(Split(Append(s, ";")), w)
    BY <1>1, <1>5, SplitGrows, Zenon
  <2> QED
    BY <1>7, <1>8, <2>1, Zenon
<1>10. e \o w = w
  BY <1>1, EmptyBefore, Zenon
<1> HIDE DEF e
<1>11. Append(Q, e) = Q \o <<e>> /\ Append(Q, w) = Q \o <<w>>
  <2>1. \A x \in Seq(Tokens) : Append(Q, x) = Q \o <<x>>
    <3> DEFINE T == Seq(Tokens)
    <3>1. Q \in Seq(T)
      BY <1>4
    <3> HIDE DEF T
    <3>2. \A x \in T : Append(Q, x) = Q \o <<x>>
      BY <3>1, AppendOne
    <3> QED
      BY <3>2 DEF T
  <2> QED
    BY <1>1, <1>4, <2>1, Zenon
<1>12. Front(Q \o <<e>>) = Q /\ Last(Q \o <<e>>) = e
  BY <1>4, FrontOfLonger, Zenon
<1>13. Grown(Append(Q, e), w) = Q \o <<e \o w>>
  BY <1>11, <1>12, Zenon DEF Grown
<1>14. Split(Joined(s, p)) = Append(Q, w)
  BY <1>6, <1>9, <1>10, <1>11, <1>13, Zenon
<1> QED
  BY <1>3, <1>14, Zenon DEF Q, w

\* q is what is written for the first k parameters.
PiecesOf(q, ps, k) ==
    q \in Seq(Seq(Tokens)) /\ Len(q) = k /\ \A m \in 1..k : q[m] = Written(ps[m])

\* The next part is the next parameter.
LEMMA PiecesOfMore ==
  ASSUME NEW ps, NEW k \in Nat, NEW q, PiecesOf(q, ps, k), Written(ps[k + 1]) \in Seq(Tokens)
  PROVE  PiecesOf(Append(q, Written(ps[k + 1])), ps, k + 1)
<1> DEFINE T == Seq(Tokens)
           w == Written(ps[k + 1])
           r == Append(q, w)
<1>1. q \in Seq(T) /\ Len(q) = k /\ w \in T /\ \A m \in 1..k : q[m] = Written(ps[m])
  BY DEF PiecesOf
<1> HIDE DEF T, w
<1>2. /\ r \in Seq(T) /\ Len(r) = k + 1 /\ r[k + 1] = w /\ \A m \in 1..k : r[m] = q[m]
  <2>1. /\ r \in Seq(T) /\ Len(r) = Len(q) + 1 /\ r[Len(q) + 1] = w /\ \A m \in 1..Len(q) : r[m] = q[m]
    BY <1>1, AppendOne
  <2> QED
    BY <1>1, <2>1, Zenon
<1> HIDE DEF r
<1>3. ASSUME NEW m \in 1..k + 1 PROVE r[m] = Written(ps[m])
  <2>1. m \in 1..k \/ m = k + 1
    OBVIOUS
  <2> QED
    BY <1>1, <1>2, <2>1, Zenon DEF w
<1> QED
  BY <1>2, <1>3, Zenon DEF PiecesOf, T, r, w

\* Splitting a joined parameter string gives the parameters back.
LEMMA SplitOfJoin ==
  ASSUME NEW ps \in Seq(Parameters), ps # <<>>
  PROVE  PiecesOf(Split(Join(ps)), ps, Len(ps))
<1>1. PICK v \in [0..Len(ps) - 1 -> Seq(Tokens)] :
        /\ v[0] = Written(ps[1]) /\ v[Len(ps) - 1] = Join(ps)
        /\ \A k \in 1..Len(ps) - 1 : v[k] = Joined(v[k - 1], Tail(ps)[k])
  <2>1. JoinedTrace(Seq(Tokens), Written(ps[1]), Len(ps) - 1, Tail(ps))
    BY JoinIsTraced
  <2>2. Join(ps) = JoinedAll(Written(ps[1]), Tail(ps))
    <3>1. Head(ps) = ps[1]
      OBVIOUS
    <3> QED
      BY <3>1, Zenon DEF Join, JoinedAll
  <2> QED
    BY <2>1, <2>2 DEF JoinedTrace
<1>2. /\ Len(ps) \in Nat /\ Len(ps) >= 1
      /\ \A k \in 1..Len(ps) - 1 : Tail(ps)[k] = ps[k + 1] /\ ps[k + 1] \in Parameters
      /\ ps[1] \in Parameters
  OBVIOUS
<1> DEFINE D == {k \in Nat : k <= Len(ps) - 1 => PiecesOf(Split(v[k]), ps, k + 1)}
<1>3. 0 \in D
  <2> DEFINE w == Written(ps[1])
  <2>1. w \in Seq(Tokens) /\ Split(w) = <<w>>
    BY <1>2, SplitOfWritten, WrittenTokens
  <2> HIDE DEF w
  <2>2. <<w>> \in Seq(Seq(Tokens)) /\ Len(<<w>>) = 1 /\ <<w>>[1] = w
    BY <2>1, OneIs, Zenon
  <2>3. 0 + 1 = 1 /\ \A m \in 1..1 : m = 1
    OBVIOUS
  <2>4. PiecesOf(Split(v[0]), ps, 0 + 1)
    BY <1>1, <2>1, <2>2, <2>3, Zenon DEF PiecesOf, w
  <2> QED
    BY <2>4
<1>4. ASSUME NEW k \in Nat, k \in D PROVE k + 1 \in D
  <2>1. SUFFICES ASSUME k + 1 <= Len(ps) - 1
                 PROVE  PiecesOf(Split(v[k + 1]), ps, k + 1 + 1)
    OBVIOUS
  <2>2. PiecesOf(Split(v[k]), ps, k + 1)
    BY <1>2, <1>4, <2>1
  <2>3. k + 1 \in 1..Len(ps) - 1 /\ k + 1 - 1 = k /\ k \in 0..Len(ps) - 1
    BY <1>2, <2>1
  <2>4. v[k] \in Seq(Tokens) /\ v[k + 1] = Joined(v[k], ps[k + 1 + 1]) /\ ps[k + 1 + 1] \in Parameters
    BY <1>1, <1>2, <2>3
  <2>5. Split(v[k + 1]) = Append(Split(v[k]), Written(ps[k + 1 + 1]))
    BY <2>4, SplitOfJoined
  <2>6. Written(ps[k + 1 + 1]) \in Seq(Tokens) /\ k + 1 \in Nat
    <3>1. k + 1 \in Nat
      OBVIOUS
    <3> QED
      BY <2>4, <3>1, WrittenTokens, Zenon
  <2> QED
    BY <2>2, <2>5, <2>6, PiecesOfMore, Zenon
<1> HIDE DEF D
<1>5. \A k \in Nat : k \in D
  BY <1>3, <1>4, NatSetInduction
<1>6. Len(ps) - 1 \in Nat /\ Len(ps) - 1 <= Len(ps) - 1 /\ Len(ps) - 1 + 1 = Len(ps)
  BY <1>2
<1>7. PiecesOf(Split(v[Len(ps) - 1]), ps, Len(ps) - 1 + 1)
  BY <1>5, <1>6 DEF D
<1> QED
  BY <1>1, <1>6, <1>7, Zenon

-----------------------------------------------------------------------------
(* 10. The parameters, one by one.                                         *)

\* The two kinds of parameter: "key=value" and a word.
KeyedParameters == [key : Seq(Tokens \ {";", "="}), value : Seq(Tokens \ {";"}) \cap DOMAIN Meant]
PlainWords == [word : Seq(Tokens \ {";", "="})]

LEMMA ParameterKinds ==
  ASSUME NEW p \in Parameters
  PROVE  \/ p \in KeyedParameters /\ "key" \in DOMAIN p
         \/ p \in PlainWords /\ "key" \notin DOMAIN p
<1>1. p \in KeyedParameters \/ p \in PlainWords
  BY Zenon DEF Parameters, KeyedParameters, PlainWords
<1>2. p \in KeyedParameters => "key" \in DOMAIN p
  BY DEF KeyedParameters
<1>3. p \in PlainWords => "key" \notin DOMAIN p
  BY DEF PlainWords
<1> QED
  BY <1>1, <1>2, <1>3

LEMMA NoEqualsIn ==
  ASSUME NEW s \in Seq(Tokens \ {";", "="})
  PROVE  s \in Seq(Tokens) /\ \A k \in 1..Len(s) : s[k] # "="
<1> DEFINE T == Tokens \ {";", "="}
<1>1. T \subseteq Tokens
  OBVIOUS
<1>2. \A x \in T : x # "="
  OBVIOUS
<1> HIDE DEF T
<1>3. s \in Seq(T)
  BY DEF T
<1>4. s \in Seq(Tokens) /\ \A k \in 1..Len(s) : s[k] \in T
  BY <1>1, <1>3, SeqOfMore, ElementOf
<1> QED
  BY <1>2, <1>4, Zenon

LEMMA NoSemiIn ==
  ASSUME NEW s \in Seq(Tokens \ {";"})
  PROVE  s \in Seq(Tokens)
<1> DEFINE T == Tokens \ {";"}
<1>1. T \subseteq Tokens
  OBVIOUS
<1> HIDE DEF T
<1>2. s \in Seq(T)
  BY DEF T
<1> QED
  BY <1>1, <1>2, SeqOfMore

LEMMA LenAround ==
  ASSUME NEW T, NEW x \in Seq(T), NEW sep \in Seq(T), NEW y \in Seq(T)
  PROVE  /\ x \o (sep \o y) \in Seq(T)
         /\ Len(x \o (sep \o y)) = Len(x) + Len(sep) + Len(y)
BY Around

\* A written "key=value" is cut at its first "=", lowered and unescaped.
LEMMA ParamOfKey ==
  ASSUME NEW p \in KeyedParameters, NEW c, c # Fail
  PROVE  Param(c, Written(p)) = applyParam(c, ToLower(p.key), PathUnescape(p.value))
<1> DEFINE x == p.key
           y == p.value
           w == Written(p)
<1>1. /\ x \in Seq(Tokens \ {";", "="}) /\ y \in Seq(Tokens \ {";"}) /\ "key" \in DOMAIN p
  BY DEF KeyedParameters
<1>2. x \in Seq(Tokens) /\ y \in Seq(Tokens) /\ \A k \in 1..Len(x) : x[k] # "="
  BY <1>1, NoEqualsIn, NoSemiIn, Zenon
<1>3. w = (x \o Equals) \o y
  BY <1>1, Zenon DEF Written
<1> HIDE DEF x, y, w
<1>4. Equals \in Seq(Tokens) /\ Len(Equals) = 1 /\ \A k \in 1..Len(x) : x[k] # Equals[1]
  BY <1>2, OneSeparators, Zenon
<1>5. w = x \o (Equals \o y)
  <2>1. \A s, r, t \in Seq(Tokens) : (s \o r) \o t = s \o (r \o t)
    BY ConcatAssoc
  <2>2. (x \o Equals) \o y = x \o (Equals \o y)
    BY <1>2, <1>4, <2>1, Zenon
  <2> QED
    BY <1>3, <2>2, Zenon
<1>6. Equals # <<>>
  BY <1>4, SmallNumbers, NotEmpty, Zenon
<1>7. Cut(w, Equals) = CutTo(x, y)
  <2>1. Cut(x \o (Equals \o y), Equals) = CutTo(x, y)
    BY <1>2, <1>4, <1>6, CutIs, Zenon
  <2> QED
    BY <1>5, <2>1, Zenon
<1>8. w # <<>>
  <2>1. x \in Seq(Tokens) /\ y \in Seq(Tokens) /\ Equals \in Seq(Tokens) /\ Len(Equals) = 1
    BY <1>2, <1>4
  <2>2. Len(w) = Len(x) + Len(Equals) + Len(y) /\ w \in Seq(Tokens)
    <3>1. /\ x \o (Equals \o y) \in Seq(Tokens)
          /\ Len(x \o (Equals \o y)) = Len(x) + Len(Equals) + Len(y)
      <4>1. \A s, r, t \in Seq(Tokens) : /\ s \o (r \o t) \in Seq(Tokens)
                /\ Len(s \o (r \o t)) = Len(s) + Len(r) + Len(t)
        BY LenAround
      <4> QED
        BY <2>1, <4>1, Zenon
    <3> QED
      BY <1>5, <3>1, Zenon
  <2>3. Len(x) \in Nat /\ Len(y) \in Nat
    BY <2>1, LenIsNat
  <2>4. Len(w) >= 1
    BY <2>1, <2>2, <2>3
  <2> QED
    BY <2>2, <2>4, NotEmpty
<1>9. CutTo(x, y).found /\ CutTo(x, y).before = x /\ CutTo(x, y).after = y
  BY FoundIs
<1>10. Param(c, w) = applyParam(c, ToLower(x), PathUnescape(y))
  BY <1>7, <1>8, <1>9, Zenon DEF Param
<1> QED
  BY <1>10, Zenon DEF w, x, y

\* An empty parameter is skipped, and a word without "=" refused.
LEMMA ParamOfWord ==
  ASSUME NEW p \in PlainWords, NEW c
  PROVE  /\ p.word = <<>> => Param(c, Written(p)) = c
         /\ p.word # <<>> => Param(c, Written(p)) = Fail
<1> DEFINE w == p.word
<1>1. w \in Seq(Tokens \ {";", "="}) /\ "key" \notin DOMAIN p
  BY DEF PlainWords
<1>2. w \in Seq(Tokens) /\ \A k \in 1..Len(w) : w[k] # "="
  BY <1>1, NoEqualsIn, Zenon
<1>3. Written(p) = w
  BY <1>1, Zenon DEF Written
<1> HIDE DEF w
<1>4. Equals \in Seq(Tokens) /\ 1 \in 1..Len(Equals) /\ \A k \in 1..Len(w) : w[k] # Equals[1]
  BY <1>2, OneSeparators, SmallNumbers, Zenon
<1>5. Cut(w, Equals) = NotCut(w)
  BY <1>2, <1>4, NotCutIs, Zenon
<1>6. ~NotCut(w).found
  BY FoundIs
<1>7. w # <<>> => Param(c, w) = Fail
  BY <1>5, <1>6, Zenon DEF Param
<1>8. w = <<>> => Param(c, w) = c
  BY Zenon DEF Param
<1> QED
  BY <1>3, <1>7, <1>8, Zenon DEF w

\* After a refused parameter the parser has failed.
LEMMA FailStays ==
  ASSUME NEW kv
  PROVE  Param(Fail, kv) = Fail
BY Zenon DEF Param

\* What ToLower does to each token.
LEMMA LowerOf ==
  ASSUME NEW T, NEW s \in Seq(T)
  PROVE  /\ ToLower(s) \in Seq(T \cup {"token", "sc", "x-a"}) /\ Len(ToLower(s)) = Len(s)
         /\ \A k \in 1..Len(s) : ToLower(s)[k] =
               IF s[k] \in {"Token", "SC", "X-A"} THEN Lowered[s[k]] ELSE s[k]
         /\ Lowered["Token"] = "token" /\ Lowered["SC"] = "sc" /\ Lowered["X-A"] = "x-a"
<1> DEFINE U == T \cup {"token", "sc", "x-a"}
           D == {"Token", "SC", "X-A"}
<1>1. DOMAIN Lowered = D /\ \A w \in D : Lowered[w] \in U
  BY DEF Lowered
<1>2. Lowered["Token"] = "token" /\ Lowered["SC"] = "sc" /\ Lowered["X-A"] = "x-a"
  BY DEF Lowered
<1>3. T \subseteq U
  OBVIOUS
<1> HIDE DEF U, D
<1>4. Len(s) \in Nat /\ DOMAIN s = 1..Len(s) /\ \A k \in 1..Len(s) : s[k] \in U
  BY <1>3
<1> DEFINE e(k) == IF s[k] \in D THEN Lowered[s[k]] ELSE s[k]
<1>5. \A k \in 1..Len(s) : e(k) \in U
  BY <1>1, <1>4
<1>6. ToLower(s) = [k \in 1..Len(s) |-> e(k)]
  BY <1>1, <1>4, Zenon DEF ToLower
<1> HIDE DEF e
<1>7. [k \in 1..Len(s) |-> e(k)] \in Seq(U) /\ Len([k \in 1..Len(s) |-> e(k)]) = Len(s)
  BY <1>4, <1>5
<1>8. \A k \in 1..Len(s) : [l \in 1..Len(s) |-> e(l)][k] = e(k)
  OBVIOUS
<1> QED
  BY <1>2, <1>6, <1>7, <1>8, Zenon DEF e, U, D

\* What PathUnescape does to each token.
LEMMA EscapesOf ==
  ASSUME NEW T, NEW s \in Seq(T)
  PROVE  /\ Len(PathUnescape(s)) = Len(s)
         /\ PathUnescape(s) \in Seq(T \cup {";", "/"})
         /\ \A k \in 1..Len(s) : PathUnescape(s)[k] \in {s[k], ";", "/"}
         /\ (\A k \in 1..Len(s) : s[k] \notin {"%3B", "%2F"}) => PathUnescape(s) = s
<1> DEFINE U == T \cup {";", "/"}
           D == {"%3B", "%2F"}
           V == {";", "/"}
<1>1. DOMAIN Escapes = D /\ \A w \in D : Escapes[w] \in V
  BY DEF Escapes
<1>2. T \subseteq U /\ V \subseteq U
  OBVIOUS
<1>3. \A x : \A z \in {x} \cup V : z \in {x, ";", "/"}
  OBVIOUS
<1> HIDE DEF U, D, V
<1>4. Len(s) \in Nat /\ DOMAIN s = 1..Len(s) /\ s \in Seq(U) /\ \A k \in 1..Len(s) : s[k] \in U
  BY <1>2
<1> DEFINE e(k) == IF s[k] \in D THEN Escapes[s[k]] ELSE s[k]
           r == [k \in 1..Len(s) |-> e(k)]
<1>5. \A k \in 1..Len(s) : e(k) \in U /\ e(k) \in {s[k]} \cup V
  BY <1>1, <1>2, <1>4
<1>6. PathUnescape(s) = IF Contains(s, "%") THEN s ELSE r
  BY <1>1, <1>4, Zenon DEF PathUnescape
<1>7. (\A k \in 1..Len(s) : s[k] \notin D) => \A k \in 1..Len(s) : e(k) = s[k]
  BY Zenon
<1> HIDE DEF e
<1>8. r \in Seq(U) /\ Len(r) = Len(s) /\ \A k \in 1..Len(s) : r[k] = e(k)
  BY <1>4, <1>5
<1> HIDE DEF r
<1>9. (\A k \in 1..Len(s) : s[k] \notin D) => r = s
  <2>1. SUFFICES ASSUME \A k \in 1..Len(s) : s[k] \notin D PROVE r = s
    OBVIOUS
  <2>2. \A k \in 1..Len(r) : r[k] = s[k]
    BY <1>7, <1>8, <2>1
  <2> QED
    BY <1>4, <1>8, <2>2, SeqsEqual
<1>10. \A k \in 1..Len(s) : s[k] \in {s[k]} \cup V
  OBVIOUS
<1>11. /\ Len(PathUnescape(s)) = Len(s) /\ PathUnescape(s) \in Seq(U)
       /\ \A k \in 1..Len(s) : PathUnescape(s)[k] \in {s[k]} \cup V
       /\ (\A k \in 1..Len(s) : s[k] \notin D) => PathUnescape(s) = s
  <2>1. CASE Contains(s, "%")
    BY <1>4, <1>6, <1>10, <2>1, Zenon
  <2>2. CASE ~Contains(s, "%")
    BY <1>5, <1>6, <1>8, <1>9, <2>2, Zenon
  <2> QED
    BY <2>1, <2>2
<1> QED
  BY <1>3, <1>11, Zenon DEF U, D

\* A string of one token.
LEMMA SingleIs ==
  ASSUME NEW T, NEW s \in Seq(T), NEW w
  PROVE  s = <<w>> <=> Len(s) = 1 /\ s[1] = w
<1> DEFINE U == T \cup {w}
           q == <<w>>
<1>1. q \in Seq(U) /\ Len(q) = 1 /\ q[1] = w
  BY OneIs
<1>2. s \in Seq(U)
  BY SeqOfMore
<1> HIDE DEF U, q
<1>3. ASSUME Len(s) = 1, s[1] = w PROVE s = q
  <2>1. \A k \in 1..1 : k = 1
    OBVIOUS
  <2>2. Len(s) = Len(q) /\ \A k \in 1..Len(s) : s[k] = q[k]
    BY <1>1, <1>3, <2>1, Zenon
  <2> QED
    BY <1>1, <1>2, <2>2, SeqsEqual, Zenon
<1> QED
  BY <1>1, <1>3, Zenon DEF q

\* No escape makes or breaks a boolean.
LEMMA BooleansUnescaped ==
  ASSUME NEW s \in Seq(Tokens)
  PROVE  PathUnescape(s) \in DOMAIN ParseBool <=> s \in DOMAIN ParseBool
<1> DEFINE u == PathUnescape(s)
           U == Tokens \cup {";", "/"}
<1>1. /\ Len(u) = Len(s) /\ u \in Seq(U)
      /\ \A k \in 1..Len(s) : u[k] \in {s[k], ";", "/"}
      /\ (\A k \in 1..Len(s) : s[k] \notin {"%3B", "%2F"}) => u = s
  BY EscapesOf, Zenon
<1> HIDE DEF u, U
<1>2. ASSUME NEW w, w # ";", w # "/", w # "%3B", w # "%2F" PROVE u = <<w>> <=> s = <<w>>
  <2>1. u = <<w>> <=> Len(u) = 1 /\ u[1] = w
    BY <1>1, SingleIs, Zenon
  <2>2. s = <<w>> <=> Len(s) = 1 /\ s[1] = w
    BY SingleIs, Zenon
  <2>3. Len(s) = 1 => u[1] \in {s[1], ";", "/"}
    BY <1>1, SmallNumbers, Zenon
  <2>4. \A k \in 1..1 : k = 1
    OBVIOUS
  <2>5. Len(s) = 1 /\ s[1] = w => u = s
    BY <1>1, <1>2, <2>4, Zenon
  <2> QED
    BY <1>1, <1>2, <2>1, <2>2, <2>3, <2>5, Zenon
<1>3. /\ u = <<"true">> <=> s = <<"true">>
      /\ u = <<"1">> <=> s = <<"1">>
      /\ u = <<"false">> <=> s = <<"false">>
  <2>1. /\ "true" # ";" /\ "true" # "/" /\ "true" # "%3B" /\ "true" # "%2F"
        /\ "1" # ";" /\ "1" # "/" /\ "1" # "%3B" /\ "1" # "%2F"
        /\ "false" # ";" /\ "false" # "/" /\ "false" # "%3B" /\ "false" # "%2F"
    OBVIOUS
  <2> QED
    BY <1>2, <2>1, Zenon
<1>4. DOMAIN ParseBool = {<<"true">>, <<"1">>, <<"false">>}
  BY DEF ParseBool
<1> QED
  BY <1>3, <1>4, Zenon DEF u

\* A key is never the one of a word.
LEMMA KeyIsSaid ==
  ASSUME NEW p \in KeyedParameters
  PROVE  ToLower(p.key) # NoKey
<1> DEFINE x == p.key
<1>1. x \in Seq(Tokens)
  <2>1. x \in Seq(Tokens \ {";", "="})
    BY DEF KeyedParameters
  <2> QED
    BY <2>1, NoEqualsIn, Zenon
<1> HIDE DEF x
<1>2. /\ ToLower(x) \in Seq(Tokens \cup {"token", "sc", "x-a"}) /\ Len(ToLower(x)) = Len(x)
      /\ \A k \in 1..Len(x) : ToLower(x)[k] =
            IF x[k] \in {"Token", "SC", "X-A"} THEN Lowered[x[k]] ELSE x[k]
      /\ Lowered["Token"] = "token" /\ Lowered["SC"] = "sc" /\ Lowered["X-A"] = "x-a"
  BY <1>1, LowerOf, Zenon
<1>3. SUFFICES ASSUME ToLower(x) = NoKey PROVE FALSE
  BY DEF x
<1>4. Len(ToLower(x)) = 1 /\ ToLower(x)[1] = "no key"
  <2> DEFINE l == ToLower(x)
             U == Tokens \cup {"token", "sc", "x-a"}
  <2>1. l \in Seq(U) /\ l = <<"no key">>
    BY <1>2, <1>3, Zenon DEF NoKey
  <2> HIDE DEF l, U
  <2>2. Len(l) = 1 /\ l[1] = "no key"
    BY <2>1, SingleIs, Zenon
  <2> QED
    BY <2>2 DEF l
<1>5. x[1] \in Tokens
  BY <1>1, <1>2, <1>4, SmallNumbers, ElementOf, Zenon
<1>6. "no key" \notin Tokens
  BY WordsAssumption DEF Tokens, Punctuation
<1>7. ToLower(x)[1] = IF x[1] \in {"Token", "SC", "X-A"} THEN Lowered[x[1]] ELSE x[1]
  BY <1>2, <1>4, SmallNumbers, Zenon
<1>8. "token" # "no key" /\ "sc" # "no key" /\ "x-a" # "no key"
  OBVIOUS
<1> QED
  BY <1>2, <1>4, <1>5, <1>6, <1>7, <1>8, Zenon

\* What the first k parameters say.
KeyedTo(a, keys, k) == {m \in 1..k : Key(a, m) \in keys}
\* The last value said for one of some keys, or the default.
SaidTo(a, keys, default, k) ==
    IF KeyedTo(a, keys, k) = {} THEN default
    ELSE Meant[a.params[Max(KeyedTo(a, keys, k))].value]
\* The keys that are headers.
NamesTo(a, k) == {Key(a, m) : m \in 1..k} \ (KnownKeys \cup {NoKey})
\* TLS unless something is said, from the scheme.
TLSDefault(a) == IF a.scheme \in TLSSchemes THEN <<"true">> ELSE <<"false">>

\* A Config from its fields.
ConfigOf(host, port, tls, token, user, agent, session, headers) ==
    [Host |-> host, Port |-> port, UseTLS |-> tls, Token |-> token, UserID |-> user,
     UserAgent |-> agent, SessionID |-> session, Headers |-> headers]

\* The headers, and the whole Config, that the parser reads in the first k
\* parameters.
HeadersTo(a, k) == [h \in NamesTo(a, k) |-> SaidTo(a, {h}, <<>>, k)]
ReadTo(a, k) ==
    ConfigOf(HostOf(a), IF Len(a.port) = 2 THEN a.port[2] ELSE "15002",
             ParseBool[SaidTo(a, TLSKeys, TLSDefault(a), k)],
             SaidTo(a, {<<"token">>}, <<>>, k), SaidTo(a, UserKeys, <<>>, k),
             SaidTo(a, AgentKeys, <<"adbc-driver-spark">>, k), SaidTo(a, SessionKeys, <<>>, k),
             HeadersTo(a, k))

ReadAs(a) == ReadTo(a, Len(a.params))

\* The parameters that the parser accepts.
Accepted(a, m) == /\ Key(a, m) = NoKey => a.params[m].word = <<>>
                  /\ Key(a, m) \in TLSKeys => a.params[m].value \in DOMAIN ParseBool
AcceptedTo(a, k) == \A m \in 1..k : Accepted(a, m)

\* One more parameter is the last one said.
LEMMA SaidStep ==
  ASSUME NEW a, NEW keys, NEW default, NEW k \in Nat \ {0}
  PROVE  SaidTo(a, keys, default, k) = IF Key(a, k) \in keys THEN Meant[a.params[k].value]
                                       ELSE SaidTo(a, keys, default, k - 1)
<1> DEFINE K(n) == KeyedTo(a, keys, n)
<1>1. /\ k \in 1..k /\ k - 1 \in Nat
      /\ \A m \in 1..k : m \in 1..k - 1 \/ m = k
      /\ \A m \in 1..k - 1 : m \in 1..k
  OBVIOUS
<1>2. CASE Key(a, k) \in keys
  <2>1. k \in K(k) /\ K(k) \in SUBSET (1..k)
    BY <1>1, <1>2 DEF KeyedTo
  <2> HIDE DEF K
  <2>2. Max(K(k)) \in 1..k /\ \A y \in K(k) : y <= Max(K(k))
    <3>1. K(k) # {} /\ k \in Nat
      BY <2>1
    <3> QED
      BY <2>1, <3>1, MaxOf
  <2>3. k <= Max(K(k))
    BY <2>1, <2>2
  <2>4. Max(K(k)) = k
    BY <2>2, <2>3
  <2> QED
    BY <1>2, <2>1, <2>4, Zenon DEF SaidTo, K
<1>3. CASE Key(a, k) \notin keys
  <2>1. K(k) = K(k - 1)
    BY <1>1, <1>3, Zenon DEF KeyedTo
  <2> QED
    BY <1>3, <2>1, Zenon DEF SaidTo
<1> QED
  BY <1>2, <1>3

\* At first nothing is said.
LEMMA SaidAtFirst ==
  ASSUME NEW a, NEW keys, NEW default
  PROVE  SaidTo(a, keys, default, 0) = default
<1>1. \A m : m \notin 1..0
  OBVIOUS
<1>2. KeyedTo(a, keys, 0) = {}
  BY <1>1, Zenon DEF KeyedTo
<1> QED
  BY <1>2, Zenon DEF SaidTo

\* A parameter that is no known key adds a header.
LEMMA NamesStep ==
  ASSUME NEW a, NEW k \in Nat \ {0}
  PROVE  /\ Key(a, k) \in KnownKeys \cup {NoKey} => NamesTo(a, k) = NamesTo(a, k - 1)
         /\ Key(a, k) \notin KnownKeys \cup {NoKey} => NamesTo(a, k) = NamesTo(a, k - 1) \cup {Key(a, k)}
<1>1. /\ k \in 1..k /\ k - 1 \in Nat
      /\ \A m \in 1..k : m \in 1..k - 1 \/ m = k
      /\ \A m \in 1..k - 1 : m \in 1..k
  OBVIOUS
<1> DEFINE E == KnownKeys \cup {NoKey}
<1> HIDE DEF E
<1>2. Key(a, k) \in E => {Key(a, m) : m \in 1..k} \ E = {Key(a, m) : m \in 1..k - 1} \ E
  BY <1>1, Zenon
<1>3. Key(a, k) \notin E => {Key(a, m) : m \in 1..k} \ E
                               = ({Key(a, m) : m \in 1..k - 1} \ E) \cup {Key(a, k)}
  BY <1>1
<1> QED
  BY <1>2, <1>3, Zenon DEF NamesTo, E

\* No key is of two fields.
LEMMA KeysAreDisjoint ==
  /\ UserKeys \cap AgentKeys = {} /\ UserKeys \cap SessionKeys = {} /\ UserKeys \cap TLSKeys = {}
  /\ AgentKeys \cap SessionKeys = {} /\ AgentKeys \cap TLSKeys = {} /\ SessionKeys \cap TLSKeys = {}
  /\ <<"token">> \notin UserKeys \cup AgentKeys \cup SessionKeys \cup TLSKeys
  /\ NoKey \notin UserKeys \cup AgentKeys \cup SessionKeys \cup TLSKeys \cup {<<"token">>}
BY DEF UserKeys, AgentKeys, SessionKeys, TLSKeys, NoKey

\* Assigning one field of a Config.
LEMMA ConfigChanges ==
  ASSUME NEW c1, NEW c2, NEW c3, NEW c4, NEW c5, NEW c6, NEW c7, NEW c8, NEW v
  PROVE  LET c == ConfigOf(c1, c2, c3, c4, c5, c6, c7, c8) IN
         /\ [c EXCEPT !.UseTLS = v] = ConfigOf(c1, c2, v, c4, c5, c6, c7, c8)
         /\ [c EXCEPT !.Token = v] = ConfigOf(c1, c2, c3, v, c5, c6, c7, c8)
         /\ [c EXCEPT !.UserID = v] = ConfigOf(c1, c2, c3, c4, v, c6, c7, c8)
         /\ [c EXCEPT !.UserAgent = v] = ConfigOf(c1, c2, c3, c4, c5, v, c7, c8)
         /\ [c EXCEPT !.SessionID = v] = ConfigOf(c1, c2, c3, c4, c5, c6, v, c8)
         /\ [c EXCEPT !.Headers = v] = ConfigOf(c1, c2, c3, c4, c5, c6, c7, v)
         /\ c.Headers = c8 /\ IsConfig(c)
BY DEF ConfigOf, IsConfig

\* The headers with one more.
HeadersAfter(c, key, v) == [h \in DOMAIN c \cup {key} |-> IF h = key THEN v ELSE c[h]]

\* The last value said of a header is the one it has.
LEMMA HeadersStep ==
  ASSUME NEW a, NEW k \in Nat \ {0}
  PROVE  /\ Key(a, k) \in KnownKeys \cup {NoKey} => HeadersTo(a, k) = HeadersTo(a, k - 1)
         /\ Key(a, k) \notin KnownKeys \cup {NoKey} =>
               HeadersTo(a, k) = HeadersAfter(HeadersTo(a, k - 1), Key(a, k), Meant[a.params[k].value])
<1> DEFINE key == Key(a, k)
           v == Meant[a.params[k].value]
           E == KnownKeys \cup {NoKey}
           N(n) == NamesTo(a, n)
           S(h, n) == SaidTo(a, {h}, <<>>, n)
<1>1. \A h : S(h, k) = IF key \in {h} THEN v ELSE S(h, k - 1)
  BY SaidStep
<1>2. \A h : S(h, k) = IF key = h THEN v ELSE S(h, k - 1)
  BY <1>1
<1>3. /\ key \in E => N(k) = N(k - 1)
      /\ key \notin E => N(k) = N(k - 1) \cup {key}
  BY NamesStep
<1>4. \A n : \A h \in N(n) : h \notin E
  BY Zenon DEF NamesTo
<1>5. \A n : HeadersTo(a, n) = [h \in N(n) |-> S(h, n)]
  BY Zenon DEF HeadersTo
<1> HIDE DEF key, v, E, N, S
<1>6. ASSUME key \in E PROVE HeadersTo(a, k) = HeadersTo(a, k - 1)
  <2>1. \A h \in N(k - 1) : S(h, k) = S(h, k - 1)
    BY <1>2, <1>4, <1>6
  <2> QED
    BY <1>3, <1>5, <1>6, <2>1
<1>7. ASSUME key \notin E PROVE HeadersTo(a, k) = HeadersAfter(HeadersTo(a, k - 1), key, v)
  <2>1. N(k) = N(k - 1) \cup {key}
    BY <1>3, <1>7
  <2> DEFINE M == N(k - 1)
  <2>2. HeadersTo(a, k - 1) = [h \in M |-> S(h, k - 1)] /\ HeadersTo(a, k) = [h \in M \cup {key} |-> S(h, k)]
    BY <1>5, <2>1
  <2> HIDE DEF M
  <2>3. HeadersAfter([h \in M |-> S(h, k - 1)], key, v)
           = [h \in M \cup {key} |-> IF h = key THEN v ELSE S(h, k - 1)]
    BY DEF HeadersAfter
  <2>4. \A h \in M \cup {key} : S(h, k) = IF h = key THEN v ELSE S(h, k - 1)
    BY <1>2
  <2>5. [h \in M \cup {key} |-> S(h, k)] = [h \in M \cup {key} |-> IF h = key THEN v ELSE S(h, k - 1)]
    BY <2>4
  <2> QED
    BY <2>2, <2>3, <2>5
<1> QED
  BY <1>6, <1>7, Zenon DEF key, v, E

\* The keys that applyParam knows.
LEMMA KnownKeysAre ==
  ASSUME NEW key
  PROVE  key \in KnownKeys <=> \/ key \in UserKeys \/ key = <<"token">> \/ key \in AgentKeys
                               \/ key \in SessionKeys \/ key \in TLSKeys
BY Zenon DEF KnownKeys

\* The k-th parameter, as applyParam writes it, takes ReadTo from k - 1 to k.
LEMMA ReadStep ==
  ASSUME NEW a, NEW k \in Nat \ {0}
  PROVE  LET c   == ReadTo(a, k - 1)
             key == Key(a, k)
             v   == Meant[a.params[k].value]
         IN  /\ key = NoKey => ReadTo(a, k) = c
             /\ key # NoKey /\ (key \in TLSKeys => v \in DOMAIN ParseBool) =>
                    applyParam(c, key, v) = ReadTo(a, k)
             /\ key \in TLSKeys /\ v \notin DOMAIN ParseBool => applyParam(c, key, v) = Fail
<1> DEFINE c   == ReadTo(a, k - 1)
           key == Key(a, k)
           v   == Meant[a.params[k].value]
           host == HostOf(a)
           port == IF Len(a.port) = 2 THEN a.port[2] ELSE "15002"
           d   == TLSDefault(a)
           T(n) == SaidTo(a, TLSKeys, d, n)
           K(n) == SaidTo(a, {<<"token">>}, <<>>, n)
           U(n) == SaidTo(a, UserKeys, <<>>, n)
           G(n) == SaidTo(a, AgentKeys, <<"adbc-driver-spark">>, n)
           S(n) == SaidTo(a, SessionKeys, <<>>, n)
           H(n) == HeadersTo(a, n)
<1>1. \A n : ReadTo(a, n) = ConfigOf(host, port, ParseBool[T(n)], K(n), U(n), G(n), S(n), H(n))
  BY Zenon DEF ReadTo
<1>2. /\ T(k) = IF key \in TLSKeys THEN v ELSE T(k - 1)
      /\ K(k) = IF key \in {<<"token">>} THEN v ELSE K(k - 1)
      /\ U(k) = IF key \in UserKeys THEN v ELSE U(k - 1)
      /\ G(k) = IF key \in AgentKeys THEN v ELSE G(k - 1)
      /\ S(k) = IF key \in SessionKeys THEN v ELSE S(k - 1)
  <2>1. \A keys, default : SaidTo(a, keys, default, k) =
                              IF key \in keys THEN v ELSE SaidTo(a, keys, default, k - 1)
    BY SaidStep
  <2>2. T(k) = IF key \in TLSKeys THEN v ELSE T(k - 1)
    BY <2>1, Zenon
  <2>3. K(k) = IF key \in {<<"token">>} THEN v ELSE K(k - 1)
    BY <2>1, Zenon
  <2>4. U(k) = IF key \in UserKeys THEN v ELSE U(k - 1)
    BY <2>1, Zenon
  <2>5. G(k) = IF key \in AgentKeys THEN v ELSE G(k - 1)
    BY <2>1, Zenon
  <2>6. S(k) = IF key \in SessionKeys THEN v ELSE S(k - 1)
    BY <2>1, Zenon
  <2> QED
    BY <2>2, <2>3, <2>4, <2>5, <2>6, Zenon
<1>3. /\ key \in KnownKeys \cup {NoKey} => H(k) = H(k - 1)
      /\ key \notin KnownKeys \cup {NoKey} => H(k) = HeadersAfter(H(k - 1), key, v)
  BY HeadersStep, Zenon
<1>4. c = ConfigOf(host, port, ParseBool[T(k - 1)], K(k - 1), U(k - 1), G(k - 1), S(k - 1), H(k - 1))
  BY <1>1, Zenon
<1> HIDE DEF c, key, v, host, port, T, K, U, G, S, H
<1>5. \A x : /\ [c EXCEPT !.UseTLS = x] = ConfigOf(host, port, x, K(k - 1), U(k - 1), G(k - 1), S(k - 1), H(k - 1))
             /\ [c EXCEPT !.Token = x] = ConfigOf(host, port, ParseBool[T(k - 1)], x, U(k - 1), G(k - 1), S(k - 1), H(k - 1))
             /\ [c EXCEPT !.UserID = x] = ConfigOf(host, port, ParseBool[T(k - 1)], K(k - 1), x, G(k - 1), S(k - 1), H(k - 1))
             /\ [c EXCEPT !.UserAgent = x] = ConfigOf(host, port, ParseBool[T(k - 1)], K(k - 1), U(k - 1), x, S(k - 1), H(k - 1))
             /\ [c EXCEPT !.SessionID = x] = ConfigOf(host, port, ParseBool[T(k - 1)], K(k - 1), U(k - 1), G(k - 1), x, H(k - 1))
             /\ [c EXCEPT !.Headers = x] = ConfigOf(host, port, ParseBool[T(k - 1)], K(k - 1), U(k - 1), G(k - 1), S(k - 1), x)
             /\ c.Headers = H(k - 1)
  <2> DEFINE c3 == ParseBool[T(k - 1)]
             c4 == K(k - 1)
             c5 == U(k - 1)
             c6 == G(k - 1)
             c7 == S(k - 1)
             c8 == H(k - 1)
  <2>1. c = ConfigOf(host, port, c3, c4, c5, c6, c7, c8)
    BY <1>4
  <2> HIDE DEF c3, c4, c5, c6, c7, c8
  <2>2. \A x : /\ [c EXCEPT !.UseTLS = x] = ConfigOf(host, port, x, c4, c5, c6, c7, c8)
               /\ [c EXCEPT !.Token = x] = ConfigOf(host, port, c3, x, c5, c6, c7, c8)
               /\ [c EXCEPT !.UserID = x] = ConfigOf(host, port, c3, c4, x, c6, c7, c8)
               /\ [c EXCEPT !.UserAgent = x] = ConfigOf(host, port, c3, c4, c5, x, c7, c8)
               /\ [c EXCEPT !.SessionID = x] = ConfigOf(host, port, c3, c4, c5, c6, x, c8)
               /\ [c EXCEPT !.Headers = x] = ConfigOf(host, port, c3, c4, c5, c6, c7, x)
    BY <2>1 DEF ConfigOf
  <2>3. c.Headers = c8
    BY <2>1 DEF ConfigOf
  <2> QED
    BY <2>2, <2>3, Zenon DEF c3, c4, c5, c6, c7, c8
<1> DEFINE M == ConfigOf(host, port, ParseBool[T(k)], K(k), U(k), G(k), S(k), H(k))
<1>6. ReadTo(a, k) = M
  BY <1>1
<1>7. ASSUME key = NoKey PROVE M = c
  <2>1. key \notin TLSKeys /\ key \notin {<<"token">>} /\ key \notin UserKeys /\ key \notin AgentKeys
        /\ key \notin SessionKeys
    BY <1>7, KeysAreDisjoint
  <2>2. T(k) = T(k - 1) /\ K(k) = K(k - 1) /\ U(k) = U(k - 1) /\ G(k) = G(k - 1) /\ S(k) = S(k - 1)
        /\ H(k) = H(k - 1)
    BY <1>2, <1>3, <1>7, <2>1, Zenon
  <2> QED
    BY <1>4, <2>2, Zenon
<1>8. ASSUME key \in UserKeys PROVE applyParam(c, key, v) = M
  <2>1. key \notin TLSKeys /\ key \notin {<<"token">>} /\ key \notin AgentKeys /\ key \notin SessionKeys
    BY <1>8, KeysAreDisjoint
  <2>2. T(k) = T(k - 1) /\ K(k) = K(k - 1) /\ U(k) = v /\ G(k) = G(k - 1) /\ S(k) = S(k - 1)
        /\ H(k) = H(k - 1)
    BY <1>2, <1>3, <1>8, <2>1, KnownKeysAre, Zenon
  <2>3. applyParam(c, key, v) = [c EXCEPT !.UserID = v]
    BY <1>8, <2>1 DEF applyParam
  <2> QED
    BY <1>5, <2>2, <2>3, Zenon
<1>9. ASSUME key = <<"token">> PROVE applyParam(c, key, v) = M
  <2>1. key \notin TLSKeys /\ key \in {<<"token">>} /\ key \notin UserKeys /\ key \notin AgentKeys
        /\ key \notin SessionKeys
    BY <1>9, KeysAreDisjoint
  <2>2. T(k) = T(k - 1) /\ K(k) = v /\ U(k) = U(k - 1) /\ G(k) = G(k - 1) /\ S(k) = S(k - 1)
        /\ H(k) = H(k - 1)
    BY <1>2, <1>3, <1>9, <2>1, KnownKeysAre, Zenon
  <2>3. applyParam(c, key, v) = [c EXCEPT !.Token = v]
    BY <1>9, <2>1 DEF applyParam
  <2> QED
    BY <1>5, <2>2, <2>3, Zenon
<1>10. ASSUME key \in AgentKeys PROVE applyParam(c, key, v) = M
  <2>1. key \notin TLSKeys /\ key \notin {<<"token">>} /\ key \notin UserKeys /\ key \notin SessionKeys
    BY <1>10, KeysAreDisjoint
  <2>2. T(k) = T(k - 1) /\ K(k) = K(k - 1) /\ U(k) = U(k - 1) /\ G(k) = v /\ S(k) = S(k - 1)
        /\ H(k) = H(k - 1)
    BY <1>2, <1>3, <1>10, <2>1, KnownKeysAre, Zenon
  <2>3. applyParam(c, key, v) = [c EXCEPT !.UserAgent = v]
    BY <1>10, <2>1 DEF applyParam
  <2> QED
    BY <1>5, <2>2, <2>3, Zenon
<1>11. ASSUME key \in SessionKeys PROVE applyParam(c, key, v) = M
  <2>1. key \notin TLSKeys /\ key \notin {<<"token">>} /\ key \notin UserKeys /\ key \notin AgentKeys
    BY <1>11, KeysAreDisjoint
  <2>2. T(k) = T(k - 1) /\ K(k) = K(k - 1) /\ U(k) = U(k - 1) /\ G(k) = G(k - 1) /\ S(k) = v
        /\ H(k) = H(k - 1)
    BY <1>2, <1>3, <1>11, <2>1, KnownKeysAre, Zenon
  <2>3. applyParam(c, key, v) = [c EXCEPT !.SessionID = v]
    BY <1>11, <2>1 DEF applyParam
  <2> QED
    BY <1>5, <2>2, <2>3, Zenon
<1>12. ASSUME key \in TLSKeys
       PROVE  /\ v \in DOMAIN ParseBool => applyParam(c, key, v) = M
              /\ v \notin DOMAIN ParseBool => applyParam(c, key, v) = Fail
  <2>1. key \notin {<<"token">>} /\ key \notin UserKeys /\ key \notin AgentKeys /\ key \notin SessionKeys
    BY <1>12, KeysAreDisjoint
  <2>2. T(k) = v /\ K(k) = K(k - 1) /\ U(k) = U(k - 1) /\ G(k) = G(k - 1) /\ S(k) = S(k - 1)
        /\ H(k) = H(k - 1)
    BY <1>2, <1>3, <1>12, <2>1, KnownKeysAre, Zenon
  <2>3. applyParam(c, key, v) = SetTLS(c, v)
    BY <1>12, <2>1 DEF applyParam
  <2>4. v \in DOMAIN ParseBool => SetTLS(c, v) = [c EXCEPT !.UseTLS = ParseBool[v]]
    BY SetTLSIs, Zenon
  <2>5. v \notin DOMAIN ParseBool => SetTLS(c, v) = Fail
    BY SetTLSIs, Zenon
  <2> QED
    BY <1>5, <2>2, <2>3, <2>4, <2>5, Zenon
<1>13. ASSUME key \notin KnownKeys \cup {NoKey} PROVE applyParam(c, key, v) = M
  <2>1. key \notin TLSKeys /\ key \notin {<<"token">>} /\ key \notin UserKeys /\ key \notin AgentKeys
        /\ key \notin SessionKeys
    BY <1>13, KnownKeysAre, Zenon
  <2>2. T(k) = T(k - 1) /\ K(k) = K(k - 1) /\ U(k) = U(k - 1) /\ G(k) = G(k - 1) /\ S(k) = S(k - 1)
        /\ H(k) = HeadersAfter(H(k - 1), key, v)
    BY <1>2, <1>3, <1>13, <2>1, Zenon
  <2>3. applyParam(c, key, v) = SetHeader(c, key, v)
    BY <2>1 DEF applyParam
  <2>4. SetHeader(c, key, v) = [c EXCEPT !.Headers = HeadersAfter(c.Headers, key, v)]
    BY Zenon DEF SetHeader, HeadersAfter
  <2> QED
    BY <1>5, <2>2, <2>3, <2>4, Zenon
<1>14. /\ key = NoKey => M = c
       /\ key # NoKey /\ (key \in TLSKeys => v \in DOMAIN ParseBool) => applyParam(c, key, v) = M
       /\ key \in TLSKeys /\ v \notin DOMAIN ParseBool => applyParam(c, key, v) = Fail
  BY <1>7, <1>8, <1>9, <1>10, <1>11, <1>12, <1>13, KnownKeysAre, Zenon
<1> QED
  BY <1>6, <1>14, Zenon DEF c, key, v

LEMMA ReadIsConfig ==
  ASSUME NEW a, NEW k
  PROVE  IsConfig(ReadTo(a, k)) /\ ReadTo(a, k) # Fail
<1>1. IsConfig(ReadTo(a, k))
  BY ConfigChanges, Zenon DEF ReadTo
<1> QED
  BY <1>1, ConfigIsNotFail

\* One iteration of the parser's loop: the parameter is taken, or refused.
LEMMA ParamStep ==
  ASSUME NEW a, IsAddress(a), NEW k \in 1..Len(a.params)
  PROVE  Param(ReadTo(a, k - 1), Written(a.params[k])) =
            IF Accepted(a, k) THEN ReadTo(a, k) ELSE Fail
<1> DEFINE p == a.params[k]
           c == ReadTo(a, k - 1)
<1>1. a.params \in Seq(Parameters)
  BY DEF IsAddress
<1>2. p \in Parameters /\ k \in Nat \ {0}
  BY <1>1
<1>3. Key(a, k) = IF "key" \in DOMAIN p THEN ToLower(p.key) ELSE NoKey
  BY Zenon DEF Key
<1>4. c # Fail
  BY ReadIsConfig
<1>5. /\ Key(a, k) = NoKey => ReadTo(a, k) = c
      /\ Key(a, k) # NoKey /\ (Key(a, k) \in TLSKeys => Meant[p.value] \in DOMAIN ParseBool) =>
              applyParam(c, Key(a, k), Meant[p.value]) = ReadTo(a, k)
      /\ Key(a, k) \in TLSKeys /\ Meant[p.value] \notin DOMAIN ParseBool =>
              applyParam(c, Key(a, k), Meant[p.value]) = Fail
  BY <1>2, ReadStep, Zenon
<1>6. Accepted(a, k) <=> /\ Key(a, k) = NoKey => p.word = <<>>
                         /\ Key(a, k) \in TLSKeys => p.value \in DOMAIN ParseBool
  BY Zenon DEF Accepted
<1>7. NoKey \notin TLSKeys
  BY KeysAreDisjoint
<1> HIDE DEF p, c
<1>8. CASE p \in KeyedParameters /\ "key" \in DOMAIN p
  <2>1. Key(a, k) = ToLower(p.key) /\ Key(a, k) # NoKey
    BY <1>3, <1>8, KeyIsSaid, Zenon
  <2>2. p.value \in Seq(Tokens) /\ p.value \in DOMAIN Meant
    <3>1. p.value \in Seq(Tokens \ {";"}) /\ p.value \in DOMAIN Meant
      BY <1>8 DEF KeyedParameters
    <3> QED
      BY <3>1, NoSemiIn
  <2>3. Meant[p.value] = PathUnescape(p.value)
    BY <2>2, WordsAssumption, Zenon
  <2>4. PathUnescape(p.value) \in DOMAIN ParseBool <=> p.value \in DOMAIN ParseBool
    BY <2>2, BooleansUnescaped, Zenon
  <2>5. Param(c, Written(p)) = applyParam(c, ToLower(p.key), PathUnescape(p.value))
    BY <1>4, <1>8, ParamOfKey, Zenon
  <2>6. Param(c, Written(p)) = applyParam(c, Key(a, k), Meant[p.value])
    BY <2>1, <2>3, <2>5, Zenon
  <2>7. Meant[p.value] \in DOMAIN ParseBool <=> p.value \in DOMAIN ParseBool
    BY <2>3, <2>4, Zenon
  <2> QED
    BY <1>5, <1>6, <2>1, <2>6, <2>7, Zenon DEF p, c
<1>9. CASE p \in PlainWords /\ "key" \notin DOMAIN p
  <2>1. Key(a, k) = NoKey
    BY <1>3, <1>9, Zenon
  <2>2. /\ p.word = <<>> => Param(c, Written(p)) = c
        /\ p.word # <<>> => Param(c, Written(p)) = Fail
    BY <1>9, ParamOfWord, Zenon
  <2> QED
    BY <1>5, <1>6, <1>7, <2>1, <2>2, Zenon DEF p, c
<1> QED
  BY <1>2, <1>8, <1>9, ParameterKinds, Zenon

\* What is read of the first k parameters.
ResultTo(a, k) == IF AcceptedTo(a, k) THEN ReadTo(a, k) ELSE Fail

\* The loop keeps to it.
LEMMA ResultStep ==
  ASSUME NEW a, IsAddress(a), NEW k \in 1..Len(a.params)
  PROVE  Param(ResultTo(a, k - 1), Written(a.params[k])) = ResultTo(a, k)
<1>1. AcceptedTo(a, k) <=> AcceptedTo(a, k - 1) /\ Accepted(a, k)
  <2>1. k \in 1..k /\ \A m \in 1..k : m \in 1..k - 1 \/ m = k
    OBVIOUS
  <2>2. \A m \in 1..k - 1 : m \in 1..k
    OBVIOUS
  <2> QED
    BY <2>1, <2>2, Zenon DEF AcceptedTo
<1>2. Param(Fail, Written(a.params[k])) = Fail
  BY FailStays
<1>3. Param(ReadTo(a, k - 1), Written(a.params[k])) =
         IF Accepted(a, k) THEN ReadTo(a, k) ELSE Fail
  BY ParamStep, Zenon
<1> QED
  BY <1>1, <1>2, <1>3, Zenon DEF ResultTo

\* The fold over the parts of the parameter string, from a Config that is
\* what no parameter says.
LEMMA ParamsRead ==
  ASSUME NEW a, IsAddress(a), NEW scheme, NEW hp, BaseFor(scheme, hp) = ReadTo(a, 0)
  PROVE  ParamAll(BaseFor(scheme, hp), Split(TextOf(a))) = ResultTo(a, Len(a.params))
<1> DEFINE q == Split(TextOf(a))
           n == Len(q)
           b == BaseFor(scheme, hp)
           l == Len(a.params)
<1>1. TextOf(a) \in Seq(Tokens) /\ a.params \in Seq(Parameters)
  BY RestIs, Zenon DEF IsAddress
<1>2. q \in Seq(Seq(Tokens)) /\ l \in Nat
  BY <1>1, SplitType, LenIsNat, Zenon
<1>3. n \in Nat /\ DOMAIN q = 1..n
  BY <1>2
<1>4. PICK P : b \in Configs({hp.host}, P, ValuesIn(q), NamesIn(q))
  BY BaseType
<1> DEFINE A == Configs({hp.host}, P, ValuesIn(q), NamesIn(q)) \cup {Fail}
<1> HIDE DEF q, n, b
<1>5. ParamTrace(A, b, n, q)
  BY <1>3, <1>4, ParamsAreTraced
<1> HIDE DEF A
<1>6. PICK v \in [0..n -> A] : /\ v[0] = b /\ v[n] = ParamAll(b, q)
                               /\ \A k \in 1..n : v[k] = Param(v[k - 1], q[k])
  BY <1>5 DEF ParamTrace
<1>7. b = ReadTo(a, 0)
  BY DEF b
<1>8. ResultTo(a, 0) = b
  <2>1. \A m : m \notin 1..0
    OBVIOUS
  <2>2. AcceptedTo(a, 0)
    BY <2>1, Zenon DEF AcceptedTo
  <2> QED
    BY <1>7, <2>2, Zenon DEF ResultTo
<1>9. CASE a.params = <<>>
  <2>1. q = <<<<>>>>
    BY <1>9, SplitEmpty, Zenon DEF TextOf, q
  <2>2. n = 1 /\ q[1] = <<>> /\ l = 0
    BY <1>9, <2>1 DEF n
  <2>3. 1 \in 1..1 /\ 1 - 1 = 0
    OBVIOUS
  <2>4. v[1] = Param(b, <<>>)
    BY <1>6, <2>2, <2>3, Zenon
  <2>5. Param(b, <<>>) = b
    BY Zenon DEF Param
  <2> QED
    BY <1>6, <1>8, <2>2, <2>4, <2>5, Zenon DEF q, b
<1>10. CASE a.params # <<>>
  <2>1. PiecesOf(q, a.params, l)
    BY <1>1, <1>10, SplitOfJoin, Zenon DEF TextOf, q
  <2>2. n = l /\ \A k \in 1..l : q[k] = Written(a.params[k])
    BY <2>1, Zenon DEF PiecesOf, n
  <2> DEFINE D == {k \in Nat : k <= l => v[k] = ResultTo(a, k)}
  <2> HIDE DEF l
  <2>3. 0 \in D
    BY <1>6, <1>8
  <2>4. ASSUME NEW k \in Nat, k \in D PROVE k + 1 \in D
    <3>1. SUFFICES ASSUME k + 1 <= l PROVE v[k + 1] = ResultTo(a, k + 1)
      OBVIOUS
    <3>2. k + 1 \in 1..l /\ k + 1 - 1 = k /\ k <= l
      BY <1>2, <3>1
    <3>3. v[k + 1] = Param(v[k], Written(a.params[k + 1]))
      BY <1>6, <2>2, <3>2
    <3>4. Param(ResultTo(a, k), Written(a.params[k + 1])) = ResultTo(a, k + 1)
      BY <3>2, ResultStep DEF l
    <3> QED
      BY <2>4, <3>2, <3>3, <3>4
  <2> HIDE DEF D
  <2>5. l \in D
    BY <1>2, <2>3, <2>4, NatSetInduction
  <2>6. v[l] = ResultTo(a, l)
    BY <1>2, <2>5 DEF D
  <2> QED
    BY <1>6, <2>2, <2>6, Zenon DEF q, b, l
<1> QED
  BY <1>9, <1>10

-----------------------------------------------------------------------------
(* 11. The whole string.                                                   *)

\* A word that no upper-case word is written for.
LEMMA LowerIs ==
  ASSUME NEW T, NEW s \in Seq(T), NEW w
  PROVE  /\ w \notin {"token", "sc", "x-a", "Token", "SC", "X-A"} => (ToLower(s) = <<w>> <=> s = <<w>>)
         /\ ToLower(s) = <<"sc">> <=> s = <<"sc">> \/ s = <<"SC">>
         /\ ToLower(s) = <<>> <=> s = <<>>
<1> DEFINE l == ToLower(s)
           U == T \cup {"token", "sc", "x-a"}
           D == {"Token", "SC", "X-A"}
<1>1. /\ l \in Seq(U) /\ Len(l) = Len(s)
      /\ \A k \in 1..Len(s) : l[k] = IF s[k] \in D THEN Lowered[s[k]] ELSE s[k]
      /\ Lowered["Token"] = "token" /\ Lowered["SC"] = "sc" /\ Lowered["X-A"] = "x-a"
  BY LowerOf, Zenon
<1> HIDE DEF l, U
<1>2. \A x : /\ l = <<x>> <=> Len(l) = 1 /\ l[1] = x
             /\ s = <<x>> <=> Len(s) = 1 /\ s[1] = x
  <2>1. ASSUME NEW x PROVE l = <<x>> <=> Len(l) = 1 /\ l[1] = x
    <3>1. l \in Seq(U)
      BY <1>1
    <3> QED
      BY <3>1, SingleIs, Zenon
  <2>2. ASSUME NEW x PROVE s = <<x>> <=> Len(s) = 1 /\ s[1] = x
    BY SingleIs, Zenon
  <2> QED
    BY <2>1, <2>2, Zenon
<1>3. Len(s) = 1 => l[1] = IF s[1] \in D THEN Lowered[s[1]] ELSE s[1]
  BY <1>1, SmallNumbers, Zenon
<1> DEFINE e == s[1]
           f == l[1]
           n == Len(s)
<1> HIDE DEF e, f, n
<1>4. n = 1 => f = IF e = "Token" THEN "token" ELSE IF e = "SC" THEN "sc"
                   ELSE IF e = "X-A" THEN "x-a" ELSE e
  BY <1>1, <1>3 DEF e, f, n
<1>5. n = 1 /\ w \notin {"token", "sc", "x-a", "Token", "SC", "X-A"} => (f = w <=> e = w)
  BY <1>4
<1>6. n = 1 => (f = "sc" <=> e = "sc" \/ e = "SC")
  BY <1>4
<1>7. l = <<w>> <=> n = 1 /\ f = w
  BY <1>1, <1>2, Zenon DEF n, f
<1>8. s = <<w>> <=> n = 1 /\ e = w
  BY <1>2, Zenon DEF n, e
<1>9. l = <<"sc">> <=> n = 1 /\ f = "sc"
  BY <1>1, <1>2, Zenon DEF n, f
<1>10. /\ s = <<"sc">> <=> n = 1 /\ e = "sc"
       /\ s = <<"SC">> <=> n = 1 /\ e = "SC"
  BY <1>2, Zenon DEF n, e
<1>11. l = <<>> <=> s = <<>>
  BY <1>1, LenOfSome, Zenon
<1> QED
  BY <1>5, <1>6, <1>7, <1>8, <1>9, <1>10, <1>11, Zenon DEF l

\* Only SC is a scheme in capitals here, and it is sc.
LEMMA SchemeIs ==
  ASSUME NEW T, NEW s \in Seq(T)
  PROVE  /\ ToLower(s) \in {<<>>, <<"sc">>, <<"grpc">>, <<"grpcs">>, <<"sc+tls">>} <=>
               s \in {<<>>, <<"sc">>, <<"SC">>, <<"grpc">>, <<"grpcs">>, <<"sc+tls">>}
         /\ ToLower(s) \in {<<"grpcs">>, <<"sc+tls">>} <=> s \in {<<"grpcs">>, <<"sc+tls">>}
<1> DEFINE D == {"token", "sc", "x-a", "Token", "SC", "X-A"}
<1>1. "grpc" \notin D /\ "grpcs" \notin D /\ "sc+tls" \notin D
  OBVIOUS
<1>2. \A w : w \notin D => (ToLower(s) = <<w>> <=> s = <<w>>)
  BY LowerIs, Zenon
<1>3. ToLower(s) = <<"sc">> <=> s = <<"sc">> \/ s = <<"SC">>
  BY LowerIs, Zenon
<1>4. ToLower(s) = <<>> <=> s = <<>>
  BY LowerIs, Zenon
<1> HIDE DEF D
<1>5. /\ ToLower(s) = <<"grpc">> <=> s = <<"grpc">>
      /\ ToLower(s) = <<"grpcs">> <=> s = <<"grpcs">>
      /\ ToLower(s) = <<"sc+tls">> <=> s = <<"sc+tls">>
  BY <1>1, <1>2, Zenon
<1> QED
  BY <1>3, <1>4, <1>5, Zenon

\* What stands before the "://", and after it.
LEMMA SchemeIsCut ==
  ASSUME NEW a, IsAddress(a), Plain(a)
  PROVE  LET cut == Cut(Render(a), Scheme) IN
         /\ (IF cut.found THEN ToLower(cut.before) ELSE <<>>) = ToLower(a.scheme)
         /\ (IF cut.found THEN cut.after ELSE Render(a)) = RestOf(a)
<1>1. a.scheme \in Seq(Words) /\ Scheme \in Seq(Tokens) /\ RestOf(a) \in Seq(Tokens)
      /\ a.scheme \in Seq(Tokens)
  BY RenderType, Separators, AddressParts DEF IsAddress
<1>2. CASE a.scheme = <<>>
  <2>1. Render(a) = RestOf(a) /\ Occurrences(Render(a), Scheme) = {}
    BY <1>2, Zenon DEF Render, Plain
  <2>2. Cut(Render(a), Scheme) = NotCut(Render(a))
    BY <2>1, Zenon DEF Cut
  <2>3. ~Cut(Render(a), Scheme).found
    BY <2>2, FoundIs, Zenon
  <2>4. ToLower(a.scheme) = <<>>
    BY <1>1, <1>2, LowerIs, Zenon
  <2> QED
    BY <2>1, <2>3, <2>4, Zenon
<1>3. CASE a.scheme # <<>>
  <2> DEFINE x == a.scheme
             y == RestOf(a)
             sep == Scheme
  <2>1. sep # <<>> /\ sep[1] = ":"
    BY DEF Scheme
  <2>2. \A w \in Words : w # ":"
    BY WordsAssumption DEF Punctuation
  <2>3. \A k \in 1..Len(x) : x[k] # sep[1]
    <3>1. \A k \in 1..Len(x) : x[k] \in Words
      BY <1>1, ElementOf
    <3> QED
      BY <2>1, <2>2, <3>1, Zenon
  <2>4. Render(a) = x \o (sep \o y)
    BY <1>3, RenderType, Zenon
  <2> HIDE DEF x, y, sep
  <2>5. x \in Seq(Tokens) /\ y \in Seq(Tokens) /\ sep \in Seq(Tokens)
    BY <1>1 DEF x, y, sep
  <2>6. Cut(x \o (sep \o y), sep) = CutTo(x, y)
    BY <2>1, <2>3, <2>5, CutIs, Zenon
  <2>7. CutTo(x, y).found /\ CutTo(x, y).before = x /\ CutTo(x, y).after = y
    BY FoundIs
  <2> QED
    BY <2>4, <2>6, <2>7, Zenon DEF x, y, sep
<1> QED
  BY <1>2, <1>3

\* The Config once the scheme, host and port are read.
Started(c, host, port, tls) == [c EXCEPT !.UseTLS = tls, !.Host = host, !.Port = port]

LEMMA ThreeChanges ==
  ASSUME NEW c1, NEW c2, NEW c3, NEW c4, NEW c5, NEW c6, NEW c7, NEW c8, NEW h, NEW p, NEW t
  PROVE  Started(ConfigOf(c1, c2, c3, c4, c5, c6, c7, c8), h, p, t) = ConfigOf(h, p, t, c4, c5, c6, c7, c8)
<1> DEFINE R == [Host : {h}, Port : {p}, UseTLS : {t}, Token : {c4}, UserID : {c5}, UserAgent : {c6},
                 SessionID : {c7}, Headers : {c8}]
           x == Started(ConfigOf(c1, c2, c3, c4, c5, c6, c7, c8), h, p, t)
<1>1. x \in R
  BY DEF ConfigOf, Started
<1> HIDE DEF x
<1>2. x = ConfigOf(h, p, t, c4, c5, c6, c7, c8)
  BY <1>1 DEF ConfigOf
<1> QED
  BY <1>2 DEF x

\* The Config before the first parameter.
LEMMA BaseIsRead ==
  ASSUME NEW a, IsAddress(a), NEW scheme,
         scheme \in {<<"grpcs">>, <<"sc+tls">>} <=> a.scheme \in {<<"grpcs">>, <<"sc+tls">>}
  PROVE  BaseFor(scheme, [host |-> HostOf(a), port |-> PortOf(a)]) = ReadTo(a, 0)
<1> DEFINE h == HostOf(a)
           q == PortOf(a)
           hp == [host |-> h, port |-> q]
           t == IF scheme \in {<<"grpcs">>, <<"sc+tls">>} THEN "true" ELSE "false"
           p == IF Len(a.port) = 2 THEN a.port[2] ELSE "15002"
           E == [o \in {} |-> <<>>]
<1>1. t = ParseBool[TLSDefault(a)]
  <2>1. ParseBool[<<"true">>] = "true" /\ ParseBool[<<"false">>] = "false"
    BY DEF ParseBool
  <2> QED
    BY <2>1, Zenon DEF TLSDefault, TLSSchemes
<1>2. p = IF q = <<>> THEN "15002" ELSE q[1]
  <2>1. \A w : <<w>> # <<>> /\ <<w>>[1] = w
    OBVIOUS
  <2> QED
    BY <2>1, Zenon DEF PortOf
<1>3. HeadersTo(a, 0) = E
  <2>1. NamesTo(a, 0) = {}
    <3>1. \A m : m \notin 1..0
      OBVIOUS
    <3> QED
      BY <3>1, Zenon DEF NamesTo
  <2> QED
    BY <2>1, Zenon DEF HeadersTo
<1>4. ReadTo(a, 0) = ConfigOf(h, p, t, <<>>, <<>>, <<"adbc-driver-spark">>, <<>>, E)
  <2>1. \A keys, default : SaidTo(a, keys, default, 0) = default
    BY SaidAtFirst
  <2>2. /\ SaidTo(a, TLSKeys, TLSDefault(a), 0) = TLSDefault(a)
        /\ SaidTo(a, {<<"token">>}, <<>>, 0) = <<>> /\ SaidTo(a, UserKeys, <<>>, 0) = <<>>
        /\ SaidTo(a, AgentKeys, <<"adbc-driver-spark">>, 0) = <<"adbc-driver-spark">>
        /\ SaidTo(a, SessionKeys, <<>>, 0) = <<>>
    BY <2>1, Zenon
  <2> QED
    BY <1>1, <1>3, <2>2, Zenon DEF ReadTo
<1>5. BaseFor(scheme, hp) = ConfigOf(h, p, t, <<>>, <<>>, <<"adbc-driver-spark">>, <<>>, E)
  <2>1. hp.host = h /\ hp.port = q
    OBVIOUS
  <2>2. Default.Port = "15002"
    BY DEF Default
  <2>3. BaseFor(scheme, hp) = Started(Default, hp.host, IF hp.port = <<>> THEN Default.Port ELSE hp.port[1], t)
    BY DEF BaseFor, Started
  <2>4. (IF hp.port = <<>> THEN Default.Port ELSE hp.port[1]) = p
    BY <1>2, <2>1, <2>2, Zenon
  <2>5. BaseFor(scheme, hp) = Started(Default, h, p, t)
    BY <2>1, <2>3, <2>4, Zenon
  <2>6. Default = ConfigOf(<<>>, "15002", "false", <<>>, <<>>, <<"adbc-driver-spark">>, <<>>, E)
    BY Zenon DEF Default, ConfigOf
  <2> DEFINE c == Default
             c1 == <<>>
             c2 == "15002"
             c3 == "false"
             c6 == <<"adbc-driver-spark">>
  <2> HIDE DEF h, t, p, q, hp, E, c, c1, c2, c3, c6
  <2>7. c = ConfigOf(c1, c2, c3, c1, c1, c6, c1, E)
    BY <2>6, Zenon DEF c, c1, c2, c3, c6
  <2>8. Started(c, h, p, t) = ConfigOf(h, p, t, c1, c1, c6, c1, E)
    <3>1. Started(ConfigOf(c1, c2, c3, c1, c1, c6, c1, E), h, p, t) = ConfigOf(h, p, t, c1, c1, c6, c1, E)
      BY ThreeChanges
    <3> QED
      BY <2>7, <3>1, Zenon
  <2> QED
    BY <2>5, <2>8, Zenon DEF c, c1, c6
<1> HIDE DEF t, p, E
<1> QED
  BY <1>4, <1>5, Zenon DEF h, q, hp

\* All the parameters: what is read is what is meant, in all but the disputed
\* fields.
LEMMA ReadsMeaning ==
  ASSUME NEW a, IsAddress(a)
  PROVE  /\ \A f \in DOMAIN Meaning(a) \ Disputed(a) : ReadAs(a)[f] = Meaning(a)[f]
         /\ AcceptedTo(a, Len(a.params)) <=>
               /\ \A m \in DOMAIN a.params : Key(a, m) = NoKey => a.params[m].word = <<>>
               /\ \A m \in Keyed(a, TLSKeys) : a.params[m].value \in DOMAIN ParseBool
<1> DEFINE l == Len(a.params)
<1>1. DOMAIN a.params = 1..l
  <2>1. a.params \in Seq(Parameters)
    BY DEF IsAddress
  <2> QED
    BY <2>1
<1> HIDE DEF l
<1>2. \A keys : KeyedTo(a, keys, l) = Keyed(a, keys)
  BY <1>1, Zenon DEF KeyedTo, Keyed
<1>3. \A keys, default : SaidTo(a, keys, default, l) = LastSaid(a, keys, default)
  <2> SUFFICES ASSUME NEW keys, NEW default
               PROVE  SaidTo(a, keys, default, l) = LastSaid(a, keys, default)
    BY Zenon
  <2> DEFINE K == Keyed(a, keys)
  <2>1. KeyedTo(a, keys, l) = K
    BY <1>2, Zenon
  <2>2. LastSaid(a, keys, default) = IF K = {} THEN default ELSE Meant[a.params[Max(K)].value]
    BY Zenon DEF LastSaid
  <2> HIDE DEF K
  <2>3. SaidTo(a, keys, default, l) = IF K = {} THEN default ELSE Meant[a.params[Max(K)].value]
    BY <2>1 DEF SaidTo
  <2> QED
    BY <2>2, <2>3, Zenon
<1>4. NamesTo(a, l) = HeaderNames(a)
  BY <1>1, Zenon DEF NamesTo, HeaderNames
<1>5. HeadersTo(a, l) = [h \in HeaderNames(a) |-> LastSaid(a, {h}, <<>>)]
  BY <1>3, <1>4, Zenon DEF HeadersTo
<1>6. ASSUME NEW f \in DOMAIN Meaning(a) \ Disputed(a) PROVE ReadAs(a)[f] = Meaning(a)[f]
  <2> DEFINE M == Meaning(a)
             R == ReadAs(a)
             t == LastSaid(a, TLSKeys, TLSDefault(a))
             g == LastSaid(a, AgentKeys, <<"adbc-driver-spark">>)
  <2>1. DOMAIN M = {"Host", "Port", "UseTLS", "Token", "UserID", "UserAgent", "SessionID", "Headers"}
    BY DEF Meaning
  <2>2. /\ R.Host = M.Host /\ R.Port = M.Port /\ R.Token = M.Token /\ R.UserID = M.UserID
        /\ R.SessionID = M.SessionID /\ R.Headers = M.Headers
        /\ R.UseTLS = ParseBool[t] /\ R.UserAgent = g
    BY <1>3, <1>5, Zenon DEF ReadAs, ReadTo, ConfigOf, Meaning, HostOf, l
  <2>3. CASE f = "UseTLS"
    <3>1. \/ ~HasToken(a) \/ Keyed(a, TLSKeys) # {} \/ a.scheme \in TLSSchemes
      BY <1>6, <2>3, Zenon DEF Disputed
    <3>2. M.UseTLS = ParseBool[LastSaid(a, TLSKeys,
                         IF a.scheme \in TLSSchemes \/ HasToken(a) THEN <<"true">> ELSE <<"false">>)]
      BY Zenon DEF Meaning
    <3>3. ParseBool[t] = M.UseTLS
      <4>1. CASE Keyed(a, TLSKeys) # {}
        BY <3>2, <4>1, Zenon DEF LastSaid, t
      <4>2. CASE Keyed(a, TLSKeys) = {}
        BY <3>1, <3>2, <4>2, Zenon DEF LastSaid, TLSDefault, t
      <4> QED
        BY <4>1, <4>2, Zenon
    <3> QED
      BY <2>2, <2>3, <3>3, Zenon
  <2>4. CASE f = "UserAgent"
    <3>1. Keyed(a, AgentKeys) # {}
      BY <1>6, <2>4, Zenon DEF Disputed
    <3>2. M.UserAgent = LastSaid(a, AgentKeys, <<"adbc-driver-spark/<version>">>)
      BY Zenon DEF Meaning
    <3>3. g = M.UserAgent
      BY <3>1, <3>2, Zenon DEF LastSaid, g
    <3> QED
      BY <2>2, <2>4, <3>3, Zenon
  <2> HIDE DEF M, R
  <2>5. f \in {"Host", "Port", "UseTLS", "Token", "UserID", "UserAgent", "SessionID", "Headers"}
    BY <2>1, <1>6, Zenon DEF M
  <2> QED
    BY <2>2, <2>3, <2>4, <2>5, Zenon DEF M, R
<1>7. AcceptedTo(a, l) <=>
         /\ \A m \in DOMAIN a.params : Key(a, m) = NoKey => a.params[m].word = <<>>
         /\ \A m \in Keyed(a, TLSKeys) : a.params[m].value \in DOMAIN ParseBool
  BY <1>1, Zenon DEF AcceptedTo, Accepted, Keyed
<1> QED
  BY <1>6, <1>7, Zenon DEF l

\* Which addresses the parser's guards refuse.
LEMMA RefusedAre ==
  ASSUME NEW a, IsAddress(a)
  PROVE  LET q == PortOf(a) IN
         /\ q # <<>> /\ (Len(q) # 1 \/ q[1] \notin Numerals) <=>
               Len(a.port) = 2 /\ a.port[2] \notin Numerals
         /\ HostPort(a) = <<>> <=> a.host = <<>> /\ a.port = <<>>
         /\ Render(a) = <<>> => HostPort(a) = <<>>
<1>1. HostPort(a) = <<>> <=> a.host = <<>> /\ a.port = <<>>
  BY HostPortTokens, Zenon
<1>2. \A w : <<w>> # <<>> /\ Len(<<w>>) = 1 /\ <<w>>[1] = w
  OBVIOUS
<1>3. PortOf(a) # <<>> /\ (Len(PortOf(a)) # 1 \/ PortOf(a)[1] \notin Numerals) <=>
         Len(a.port) = 2 /\ a.port[2] \notin Numerals
  <2>1. CASE Len(a.port) = 2
    BY <1>2, <2>1, Zenon DEF PortOf
  <2>2. CASE Len(a.port) # 2
    BY <2>2, Zenon DEF PortOf
  <2> QED
    BY <2>1, <2>2
<1>4. ASSUME Render(a) = <<>> PROVE HostPort(a) = <<>>
  <2> DEFINE h == HostPort(a)
             r == a.form \o TextOf(a)
             x == a.scheme
             y == RestOf(a)
  <2>1. h \in Seq(Tokens) /\ a.form \in Seq(Tokens) /\ TextOf(a) \in Seq(Tokens) /\ y = h \o r
    BY RestIs, Zenon
  <2>2. r \in Seq(Tokens)
    BY <2>1
  <2>3. x \in Seq(Tokens) /\ Scheme \in Seq(Tokens) /\ y \in Seq(Tokens)
    BY AddressParts, Separators, RenderType, Zenon
  <2>4. x # <<>> => Render(a) = x \o (Scheme \o y)
    BY RenderType, Zenon
  <2>5. x = <<>> => Render(a) = y
    BY Zenon DEF Render
  <2> HIDE DEF h, r, x, y
  <2>6. Len(x \o (Scheme \o y)) = Len(x) + Len(Scheme) + Len(y) /\ x \o (Scheme \o y) \in Seq(Tokens)
    <3>1. \A u, v, z \in Seq(Tokens) : /\ Len(u \o (v \o z)) = Len(u) + Len(v) + Len(z)
                                       /\ u \o (v \o z) \in Seq(Tokens)
      BY LenAround
    <3> QED
      BY <2>3, <3>1, Zenon
  <2>7. x = <<>>
    <3>1. SUFFICES ASSUME x # <<>> PROVE FALSE
      OBVIOUS
    <3>2. Len(x) >= 1
      BY <2>3, <3>1, LenOfSome, Zenon
    <3>3. Len(x \o (Scheme \o y)) = 0
      BY <1>4, <2>4, <2>6, <3>1, LenOfSome, Zenon
    <3>4. Len(x) \in Nat /\ Len(Scheme) \in Nat /\ Len(y) \in Nat
      BY <2>3, LenIsNat, Zenon
    <3> QED
      BY <2>6, <3>2, <3>3, <3>4
  <2>8. h \o r = <<>>
    BY <1>4, <2>1, <2>5, <2>7, Zenon
  <2>9. Len(h) + Len(r) = 0
    BY <2>1, <2>2, <2>8
  <2>10. Len(h) \in Nat /\ Len(r) \in Nat
    BY <2>1, <2>2, LenIsNat, Zenon
  <2>11. Len(h) = 0
    BY <2>9, <2>10
  <2>12. h = <<>>
    BY <2>1, <2>11, LenOfSome, Zenon
  <2> QED
    BY <2>12 DEF h
<1> QED
  BY <1>1, <1>3, <1>4, Zenon

\* ParseConnectionString of a plain address, as a function.
LEMMA ParsesAsRead ==
  ASSUME NEW a, IsAddress(a), Plain(a)
  PROVE  ParseConnectionString(Render(a)) = IF Valid(a) THEN ReadAs(a) ELSE Fail
<1> DEFINE s      == Render(a)
           cut    == Cut(s, Scheme)
           scheme == IF cut.found THEN ToLower(cut.before) ELSE <<>>
           r      == IF cut.found THEN cut.after ELSE s
           hp     == splitHostPort(TrimSuffix(HostAndParams(r).before))
           t      == HostAndParams(r).after
           Known  == {<<>>, <<"sc">>, <<"grpc">>, <<"grpcs">>, <<"sc+tls">>}
           Bad    == \/ s = <<>> \/ scheme \notin Known
                     \/ TrimSuffix(HostAndParams(r).before) = <<>>
                     \/ hp.port # <<>> /\ (Len(hp.port) # 1 \/ hp.port[1] \notin Numerals)
<1>1. ParseConnectionString(s) = IF Bad THEN Fail ELSE ParamAll(BaseFor(scheme, hp), Split(t))
  BY Zenon DEF ParseConnectionString, ParamAll, BaseFor
<1>2. scheme = ToLower(a.scheme) /\ r = RestOf(a)
  BY SchemeIsCut, Zenon
<1> HIDE DEF scheme, r, cut
<1>3. HostAndParams(r).before = HostPort(a) /\ HostAndParams(r).after = TextOf(a)
  BY <1>2, HostAndParamsIs, Zenon DEF HostAndParamsAre
<1>4. TrimSuffix(HostAndParams(r).before) = HostPort(a)
  BY <1>3, HostPortIsTrimmed, Zenon
<1>5. hp = [host |-> HostOf(a), port |-> PortOf(a)] /\ t = TextOf(a)
  BY <1>3, <1>4, HostPortSplits, Zenon DEF SplitsAsMeant
<1>6. a.scheme \in Seq(Words)
  BY DEF IsAddress
<1>7. /\ scheme \in Known <=>
            a.scheme \in {<<>>, <<"sc">>, <<"SC">>, <<"grpc">>, <<"grpcs">>, <<"sc+tls">>}
      /\ scheme \in {<<"grpcs">>, <<"sc+tls">>} <=> a.scheme \in {<<"grpcs">>, <<"sc+tls">>}
  BY <1>2, <1>6, SchemeIs, Zenon
<1> DEFINE l == Len(a.params)
<1>8. BaseFor(scheme, hp) = ReadTo(a, 0)
  BY <1>5, <1>7, BaseIsRead, Zenon
<1>9. ParamAll(BaseFor(scheme, hp), Split(t)) = ResultTo(a, l)
  BY <1>5, <1>8, ParamsRead, Zenon
<1>10. hp.port = PortOf(a)
  BY <1>5
<1>11. Bad <=> \/ a.scheme \notin {<<>>, <<"sc">>, <<"SC">>, <<"grpc">>, <<"grpcs">>, <<"sc+tls">>}
               \/ a.host = <<>> /\ a.port = <<>>
               \/ Len(a.port) = 2 /\ a.port[2] \notin Numerals
  <2>1. hp.port # <<>> /\ (Len(hp.port) # 1 \/ hp.port[1] \notin Numerals) <=>
           Len(a.port) = 2 /\ a.port[2] \notin Numerals
    BY <1>10, RefusedAre, Zenon
  <2>2. TrimSuffix(HostAndParams(r).before) = <<>> <=> a.host = <<>> /\ a.port = <<>>
    BY <1>4, RefusedAre, Zenon
  <2>3. s = <<>> => a.host = <<>> /\ a.port = <<>>
    BY RefusedAre, Zenon
  <2> HIDE DEF s, hp, Known
  <2> QED
    BY <1>7, <2>1, <2>2, <2>3, Zenon DEF Known
<1>12. Valid(a) <=> ~Bad /\ AcceptedTo(a, l)
  <2>1. a.host # <<>>
    BY Zenon DEF Plain
  <2> QED
    BY <1>11, <2>1, ReadsMeaning, Zenon DEF Valid
<1>13. ReadTo(a, l) = ReadAs(a)
  BY Zenon DEF ReadAs
<1> HIDE DEF Bad, hp, t, l
<1>14. ParseConnectionString(s) = IF Valid(a) THEN ReadAs(a) ELSE Fail
  BY <1>1, <1>9, <1>12, <1>13, Zenon DEF ResultTo
<1> QED
  BY <1>14, Zenon DEF s

\* A host that is a name, and a port, are dialled as they are.
LEMMA DialledIs ==
  ASSUME NEW T, NEW x \in Seq(T), NEW w \in T, NEW y \in T, w # y,
         \A k \in 1..Len(x) : x[k] # w
  PROVE  Occurrences(x \o <<w, y>>, <<w>>) = {Len(x) + 1}
<1> DEFINE s == x \o <<w, y>>
           q == <<w>>
<1>1. q \in Seq(T) /\ Len(q) = 1 /\ q[1] = w
  BY OneIs
<1>2. <<w, y>> \in Seq(T) /\ Len(<<w, y>>) = 2 /\ <<w, y>>[1] = w /\ <<w, y>>[2] = y
  OBVIOUS
<1> DEFINE p == <<w, y>>
<1> HIDE DEF p
<1>3. /\ s \in Seq(T) /\ Len(s) = Len(x) + 2
      /\ \A k \in 1..Len(x) : s[k] = x[k]
      /\ s[Len(x) + 1] = w /\ s[Len(x) + 2] = y
  <2>1. p \in Seq(T) /\ Len(p) = 2 /\ p[1] = w /\ p[2] = y
    BY <1>2 DEF p
  <2>2. /\ x \o p \in Seq(T) /\ Len(x \o p) = Len(x) + Len(p)
        /\ \A k \in 1..Len(x) : (x \o p)[k] = x[k]
        /\ \A k \in 1..Len(p) : (x \o p)[Len(x) + k] = p[k]
    <3>1. p \in Seq(T)
      BY <2>1
    <3> QED
      BY <3>1, Concatenated
  <2>3. 1 \in 1..2 /\ 2 \in 1..2
    OBVIOUS
  <2> QED
    BY <2>1, <2>2, <2>3, Zenon DEF p
<1> DEFINE n == Len(x)
<1>4. n \in Nat
  OBVIOUS
<1> HIDE DEF s, q, n
<1>5. ASSUME NEW k \in 1..n + 2
      PROVE  SubSeq(s, k, k + Len(q) - 1) = q <=> s[k] = w
  <2>1. k \in Nat /\ k >= 1 /\ k <= n + 2 /\ k <= k + 1 /\ k + 1 - k = 1 /\ k + Len(q) - 1 = k
    BY <1>1, <1>4
  <2> DEFINE u == SubSeq(s, k, k)
  <2>2. u \in Seq(T) /\ Len(u) = k + 1 - k /\ \A m \in 1..k + 1 - k : u[m] = s[k + m - 1]
    BY <1>3, <2>1, SubSeqIs DEF n
  <2>3. u[1] = s[k]
    BY <2>1, <2>2
  <2> HIDE DEF u
  <2>4. u = <<w>> <=> Len(u) = 1 /\ u[1] = w
    BY <2>2, SingleIs, Zenon
  <2> QED
    BY <2>1, <2>2, <2>3, <2>4, Zenon DEF u, q
<1>6. \A k \in 1..n + 2 : s[k] = w <=> k = n + 1
  <2>1. \A k \in 1..n + 2 : k \in 1..n \/ k = n + 1 \/ k = n + 2
    BY <1>4
  <2>2. \A k \in 1..n : k # n + 1
    BY <1>4
  <2>3. n + 2 # n + 1
    BY <1>4
  <2>4. \A k \in 1..n : s[k] # w
    BY <1>3, Zenon DEF n
  <2> QED
    BY <1>3, <2>1, <2>2, <2>3, <2>4, Zenon DEF n
<1>7. Len(s) + 1 - Len(q) = n + 2 /\ n + 1 \in 1..n + 2
  BY <1>1, <1>3, <1>4 DEF n
<1>8. Occurrences(s, q) = {k \in 1..n + 2 : SubSeq(s, k, k + Len(q) - 1) = q}
  BY <1>7, Zenon DEF Occurrences
<1>9. Occurrences(s, q) = {n + 1}
  BY <1>5, <1>6, <1>7, <1>8, Zenon
<1> QED
  BY <1>9, Zenon DEF s, q, n, p

\* A target without further colons or brackets is split where it was joined.
LEMMA DialledAsGiven ==
  ASSUME NEW T, NEW x \in Seq(T), NEW p \in T, ":" \in T, p # ":",
         \A k \in 1..Len(x) : x[k] # ":" /\ x[k] # "["
  PROVE  Dialled(x \o <<":", p>>) = [host |-> x, port |-> <<p>>]
<1> DEFINE w == ":"
           b == "["
<1>1. w # b
  OBVIOUS
<1> HIDE DEF w, b
<1>2. w \in T /\ p # w /\ \A k \in 1..Len(x) : x[k] # w /\ x[k] # b
  BY DEF w, b
<1> DEFINE s == x \o <<w, p>>
<1>3. Occurrences(s, <<w>>) = {Len(x) + 1}
  BY <1>2, DialledIs, Zenon
<1>4. Cardinality(Occurrences(s, <<w>>)) = 1
  BY <1>3, FS_Singleton, Zenon
<1> DEFINE u == <<w>>
           v == <<p>>
<1>5. u \in Seq(T) /\ v \in Seq(T) /\ Len(u) = 1 /\ Len(v) = 1 /\ u[1] = w /\ v[1] = p
  BY <1>2, OneIs
<1>6. <<w, p>> = u \o v
  BY <1>2
<1>7. s = x \o (u \o v)
  BY <1>6
<1> HIDE DEF u, v, s
<1>8. \A k \in 1..Len(v) : v[k] # w
  <2>1. \A k \in 1..1 : k = 1
    OBVIOUS
  <2> QED
    BY <1>2, <1>5, <2>1, Zenon
<1>9. CutLast(s, u) = CutTo(x, v)
  BY <1>2, <1>5, <1>7, <1>8, CutLastIs, Zenon DEF u
<1>10. CutTo(x, v).before = x /\ CutTo(x, v).after = v
  BY FoundIs
<1>11. ~IsPrefix(<<b>>, s)
  <2>1. \A k \in 1..Len(u) : u[k] # b
    <3>1. \A k \in 1..1 : k = 1
      OBVIOUS
    <3> QED
      BY <1>1, <1>5, <3>1, Zenon
  <2>2. x \in Seq(T) /\ u \in Seq(T) /\ v \in Seq(T)
    BY <1>5
  <2>3. /\ s \in Seq(T) /\ Len(s) = Len(x) + Len(u) + Len(v)
        /\ \A k \in 1..Len(x) : s[k] = x[k]
        /\ \A k \in 1..Len(u) : s[Len(x) + k] = u[k]
    <3>1. /\ x \o (u \o v) \in Seq(T) /\ Len(x \o (u \o v)) = Len(x) + Len(u) + Len(v)
          /\ \A k \in 1..Len(x) : (x \o (u \o v))[k] = x[k]
          /\ \A k \in 1..Len(u) : (x \o (u \o v))[Len(x) + k] = u[k]
      BY <2>2, Around
    <3> QED
      BY <1>7, <3>1, Zenon
  <2>4. Len(x) \in Nat
    BY LenIsNat
  <2>5. (s[1] = x[1] /\ 1 \in 1..Len(x)) \/ s[1] = u[1]
    <3>1. Len(x) = 0 \/ 1 \in 1..Len(x)
      BY <2>4
    <3>2. 0 + 1 = 1
      OBVIOUS
    <3> QED
      BY <1>5, <2>3, <3>1, <3>2, SmallNumbers, Zenon
  <2>6. s[1] # b
    BY <1>2, <1>5, <2>1, <2>5, SmallNumbers, Zenon
  <2> QED
    BY <2>3, <2>6, PrefixOfOne, Zenon
<1>12. splitHostPort(s) = [host |-> x, port |-> v]
  BY <1>9, <1>10, <1>11, Zenon DEF splitHostPort, w, b, u
<1>13. Dialled(s) = splitHostPort(s)
  BY <1>4, Zenon DEF Dialled, w
<1> QED
  BY <1>12, <1>13, Zenon DEF s, v, w

\* A host has no bracket once it is read.
LEMMA HostIs ==
  ASSUME NEW a, IsAddress(a)
  PROVE  HostOf(a) \in Seq(Tokens) /\ \A k \in 1..Len(HostOf(a)) : HostOf(a)[k] # "["
<1> DEFINE h == a.host
           W == Words \cup {":"}
           b == "["
<1>1. \A w \in W : w # b
  BY WordsAreNot
<1>2. Words \subseteq W /\ b \in {b}
  OBVIOUS
<1>3. h \in Seq(Tokens)
  BY HostTokens
<1>4. CASE IsPrefix(<<b>>, h)
  <2> DEFINE f == Front(h)
             t == Tail(f)
  <2>1. Len(h) > 1 /\ \A k \in 2..Len(h) - 1 : h[k] \in W
    BY <1>4, HostTokens
  <2>2. HostOf(a) = t
    BY <1>4, Zenon DEF HostOf
  <2> HIDE DEF W, b, h
  <2>3. Len(h) >= 1 /\ Len(h) \in Nat
    BY <1>3, <2>1
  <2>4. /\ f \in Seq(Tokens) /\ Len(f) = Len(h) - 1
        /\ \A k \in 1..(Len(h) - 1) : f[k] = h[k]
    BY <1>3, <2>3, FrontAndLast, Zenon
  <2> HIDE DEF f
  <2>5. f # <<>>
    <3>1. Len(f) >= 1
      BY <2>1, <2>3, <2>4
    <3> QED
      BY <2>4, <3>1, NotEmpty, Zenon
  <2>6. /\ t \in Seq(Tokens) /\ Len(f) = 1 + Len(t)
        /\ \A k \in 1..Len(t) : t[k] = f[k + 1]
    BY <2>4, <2>5, HeadAndTail, Zenon
  <2> HIDE DEF t
  <2>7. Len(t) \in Nat
    BY <2>6, LenIsNat
  <2>8. ASSUME NEW k \in 1..Len(t) PROVE t[k] # b
    <3>1. t[k] = h[k + 1] /\ k + 1 \in 2..Len(h) - 1
      BY <2>3, <2>4, <2>6, <2>7
    <3> QED
      BY <1>1, <2>1, <3>1
  <2> QED
    BY <2>2, <2>6, <2>8, Zenon DEF b
<1>5. CASE ~IsPrefix(<<b>>, h)
  <2>1. h \in Seq(Words)
    BY <1>5, HostTokens
  <2>2. HostOf(a) = h
    BY <1>5, Zenon DEF HostOf
  <2> HIDE DEF W, b, h
  <2>3. \A k \in 1..Len(h) : h[k] \in Words
    BY <2>1, ElementOf
  <2> QED
    BY <1>1, <1>2, <1>3, <2>2, <2>3, Zenon DEF b
<1> QED
  BY <1>4, <1>5

\* Endpoint of a host that is a name is dialled as that host and port.
LEMMA NamesAreDialled ==
  ASSUME NEW a, IsAddress(a), ~Contains(ReadAs(a).Host, ":")
  PROVE  Dialled(Endpoint(ReadAs(a))) = [host |-> ReadAs(a).Host, port |-> <<ReadAs(a).Port>>]
<1> DEFINE x == HostOf(a)
           p == IF Len(a.port) = 2 THEN a.port[2] ELSE "15002"
           T == Tokens \cup {p}
<1>1. ReadAs(a).Host = x /\ ReadAs(a).Port = p
  BY Zenon DEF ReadAs, ReadTo, ConfigOf, HostOf
<1>2. x \in Seq(Tokens) /\ \A k \in 1..Len(x) : x[k] # "["
  BY HostIs, Zenon
<1>3. \A k \in 1..Len(x) : x[k] # ":"
  BY <1>1, Zenon DEF Contains
<1>4. p # ":"
  <2>1. Len(a.port) = 2 => a.port[2] \in Words
    BY PortTokens
  <2>2. "15002" # ":"
    OBVIOUS
  <2> QED
    BY <2>1, <2>2, WordsAreNot
<1>5. p \in T /\ ":" \in T /\ Tokens \subseteq T
  BY OneSeparators
<1> HIDE DEF T
<1>6. x \in Seq(T)
  <2> HIDE DEF x
  <2> QED
    BY <1>2, <1>5, SeqOfMore
<1> HIDE DEF x, p
<1>7. Dialled(x \o <<":", p>>) = [host |-> x, port |-> <<p>>]
  BY <1>2, <1>3, <1>4, <1>5, <1>6, DialledAsGiven, Zenon
<1> QED
  BY <1>1, <1>7, Zenon DEF Endpoint

\* The invariant, with the parser, gives the property.
LEMMA MeaningFollows ==
  ASSUME ConfigInv
  PROVE  StringMeansWhatItSays
<1> DEFINE a == Address
           c == configs[cfg]
<1>1. outcome # "none" => calls \in 1..MaxCalls /\ call \in Calls[calls]
  <2>1. MaxCalls \in Nat
    BY CallsAssumption DEF MaxCalls
  <2> QED
    BY <2>1 DEF ConfigInv, TypeInv
<1>2. outcome # "none" /\ a # None => IsAddress(a)
  BY <1>1, UriIsAddress, Zenon DEF Address
<1>3. /\ outcome = "bad uri" => a # None /\ Base = Fail
      /\ outcome = "running" /\ a # None /\ todo = DOMAIN call.opts => c = Base
  BY DEF ConfigInv, WritesInto
<1>4. a # None => Base = ParseConnectionString(Render(a))
  BY Zenon DEF Base
<1>5. "bad uri" # "none" /\ "running" # "none"
  OBVIOUS
<1> HIDE DEF a, c
<1>6. ASSUME IsAddress(a), Plain(a)
      PROVE  /\ ParseConnectionString(Render(a)) = IF Valid(a) THEN ReadAs(a) ELSE Fail
             /\ ReadAs(a) # Fail
  <2>1. ReadAs(a) # Fail
    <3>1. a.params \in Seq(Parameters)
      BY <1>6, Zenon DEF IsAddress
    <3>2. Len(a.params) \in Nat
      BY <3>1
    <3> QED
      BY <1>6, <3>2, ReadIsConfig, Zenon DEF ReadAs
  <2> QED
    BY <1>6, <2>1, ParsesAsRead, Zenon
<1>7. ASSUME outcome = "bad uri", Plain(a) PROVE ~Valid(a)
  BY <1>2, <1>3, <1>4, <1>5, <1>6, <1>7, Zenon
<1>8. ASSUME outcome = "running", todo = DOMAIN call.opts, a # None, Plain(a)
      PROVE  /\ Valid(a)
             /\ \A f \in DOMAIN Meaning(a) \ Disputed(a) : c[f] = Meaning(a)[f]
             /\ ~Contains(c.Host, ":") =>
                    Dialled(Endpoint(c)) = [host |-> c.Host, port |-> <<c.Port>>]
  <2>1. c # Fail
    <3>1. cfg \in 1..Len(configs) /\ DOMAIN configs = 1..Len(configs)
      BY <1>8 DEF ConfigInv, TypeInv, WritesOver
    <3>2. IsConfig(c)
      BY <3>1 DEF ConfigInv, TypeInv, c
    <3> QED
      BY <3>2, ConfigIsNotFail
  <2>2. IsAddress(a)
    BY <1>2, <1>5, <1>8, Zenon
  <2>3. Valid(a) /\ c = ReadAs(a)
    BY <1>3, <1>4, <1>6, <1>8, <2>1, <2>2, Zenon
  <2> QED
    BY <2>2, <2>3, NamesAreDialled, ReadsMeaning, Zenon
<1> QED
  BY <1>7, <1>8, Zenon DEF StringMeansWhatItSays, a, c

\* Of the addresses that can be read as meant (Plain: a host is given, and no
\* slash or "://" stands where it would be taken for a separator),
\* ParseConnectionString refuses exactly the invalid ones, and reads every
\* other as the documents have it: each field the last value said for it under
\* any of its names, escapes undone, defaults from the scheme.  Nothing is said
\* of TLS where a token alone should bring it, nor of the default user agent.
\* Endpoint, for a host without a colon, is dialled as that host and port
\* (config.go:59-185).
THEOREM StringsMeanWhatTheySay == Spec => []StringMeansWhatItSays
<1>1. ConfigInv => StringMeansWhatItSays
  BY MeaningFollows
<1> QED
  BY ConfigInvariant, <1>1, PTL

=============================================================================
