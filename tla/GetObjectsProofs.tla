--------------------------- MODULE GetObjectsProofs ---------------------------
(***************************************************************************)
(* Proofs about GetObjects, for any catalogs, objects, columns, filters    *)
(* and bounds: the filters hold, an undisturbed call does not fail, a      *)
(* failure hides nothing but what is below it, and without one the result  *)
(* is complete.                                                            *)
(***************************************************************************)
EXTENDS GetObjects, SequenceTheorems, TLAPS

\* Whatever a path can be made of.
Names == Catalogs \cup (UNION {f.matches : f \in CatalogFilters})
         \cup {o[2] : o \in Objects} \cup {o[3] : o \in Objects} \cup Columns
Paths == Seq(Names)

\* q lies above p in the tree.
Above(q, p) == Len(q) < Len(p) /\ \A i \in 1..Len(q) : q[i] = p[i]

-----------------------------------------------------------------------------
(* Paths.                                                                  *)

LEMMA Lengths ==
  ASSUME NEW n \in 1..4
  PROVE  /\ n > 1 /\ n # 2 => n > 2
         /\ n > 3 => n = 4
         /\ n > 2 => 3 \in 0..n
  OBVIOUS

LEMMA Singles ==
  ASSUME NEW c \in Names
  PROVE  <<c>> \in Paths /\ Len(<<c>>) = 1 /\ <<c>>[1] = c
  BY DEF Paths

LEMMA Pairs ==
  ASSUME NEW c \in Names, NEW s \in Names
  PROVE  /\ <<c, s>> \in Paths /\ Len(<<c, s>>) = 2
         /\ <<c, s>>[1] = c /\ <<c, s>>[2] = s
  BY DEF Paths

LEMMA ObjectsArePaths ==
  ASSUME NEW o \in Objects
  PROVE  /\ o \in Paths /\ Len(o) = 3
         /\ o[1] \in Catalogs /\ o[2] \in Names /\ o[3] \in Names
<1>1. /\ o = <<o[1], o[2], o[3]>> /\ o[1] \in Catalogs
  BY ObjectPaths
<1>2. o[1] \in Names /\ o[2] \in Names /\ o[3] \in Names
  BY <1>1 DEF Names
<1> DEFINE t == <<o[1], o[2], o[3]>>
<1>3. t \in Paths /\ Len(t) = 3
  BY <1>2 DEF Paths
<1> QED
  BY <1>1, <1>2, <1>3

LEMMA Appended ==
  ASSUME NEW p \in Paths, NEW x \in Names
  PROVE  /\ Append(p, x) \in Paths /\ Len(Append(p, x)) = Len(p) + 1
         /\ \A i \in 1..Len(p) : Append(p, x)[i] = p[i]
         /\ Append(p, x)[Len(p) + 1] = x
  BY DEF Paths

LEMMA SamePath ==
  ASSUME NEW p \in Paths, NEW q \in Paths, Len(p) = Len(q),
         \A i \in 1..Len(p) : p[i] = q[i]
  PROVE  p = q
  BY SeqEqual DEF Paths

LEMMA Prefixes ==
  ASSUME NEW p \in Paths, NEW n \in 0..Len(p)
  PROVE  /\ Prefix(p, n) \in Paths /\ Len(Prefix(p, n)) = n
         /\ \A i \in 1..n : Prefix(p, n)[i] = p[i]
<1>1. \A i \in 1..n : p[i] \in Names
  BY ElementOfSeq DEF Paths
<1>2. /\ SubSeq(p, 1, n) \in Seq(Names)
      /\ Len(SubSeq(p, 1, n)) = IF 1 <= n THEN n - 1 + 1 ELSE 0
      /\ \A i \in 1..(n - 1 + 1) : SubSeq(p, 1, n)[i] = p[1 + i - 1]
  BY <1>1, SubSeqProperties
<1> QED
  BY <1>2, LenProperties DEF Paths, Prefix

LEMMA IsPrefixOf ==
  ASSUME NEW p \in Paths, NEW n \in 0..Len(p), NEW q \in Paths, Len(q) = n,
         \A i \in 1..n : q[i] = p[i]
  PROVE  Prefix(p, n) = q
<1>1. /\ Prefix(p, n) \in Paths /\ Len(Prefix(p, n)) = n
      /\ \A i \in 1..n : Prefix(p, n)[i] = p[i]
  BY Prefixes
<1>2. \A i \in 1..Len(q) : q[i] = Prefix(p, n)[i]
  BY <1>1
<1> QED
  BY <1>1, <1>2, SamePath

LEMMA WholeObject ==
  ASSUME NEW p \in Paths, Len(p) = 3
  PROVE  Prefix(p, 3) = p
<1>1. 3 \in 0..Len(p) /\ \A i \in 1..3 : p[i] = p[i]
  OBVIOUS
<1> QED
  BY <1>1, IsPrefixOf

-----------------------------------------------------------------------------
(* What is expected, by the places of a path.                              *)

\* A path of objects that the filters let through, down to the depth.
Shaped(p) ==
    /\ Len(p) \in 1..4 /\ Len(p) <= depth
    /\ p[1] \in catalog.matches /\ p[1] \in Catalogs
    /\ Len(p) >= 2 => p[2] \in SchemaFilter /\ \E o \in Objects : o[1] = p[1] /\ o[2] = p[2]
    /\ Len(p) >= 3 => /\ Prefix(p, 3) \in Objects /\ p[3] \in TableFilter
                      /\ tableTypeAllowed(Prefix(p, 3))
    /\ Len(p) = 4 => p[4] \in Columns \cap ColumnFilter

Wanted == {o \in Objects : o[1] \in catalog.matches /\ o[2] \in SchemaFilter}
Full   == {o \in Wanted : o[3] \in TableFilter /\ tableTypeAllowed(o)}

LEMMA ExpectedCases ==
  ASSUME NEW p
  PROVE  p \in Expected(Objects) <=>
         /\ Len(p) <= depth
         /\ \/ \E c \in catalog.matches \cap Catalogs : p = <<c>>
            \/ \E o \in Wanted : p = Prefix(o, 2)
            \/ p \in Full
            \/ \E o \in Full : \E col \in Columns \cap ColumnFilter : p = Append(o, col)
  BY DEF Expected, Wanted, Full, Matched

LEMMA ExpectedIsShaped ==
  ASSUME NEW p \in Expected(Objects)
  PROVE  p \in Paths /\ Shaped(p)
<1>1. Len(p) <= depth
  BY ExpectedCases
<1>2. ASSUME NEW c \in catalog.matches \cap Catalogs, p = <<c>>
      PROVE  p \in Paths /\ Shaped(p)
  <2>1. c \in Names
    BY DEF Names
  <2> QED
    BY <1>1, <1>2, <2>1, Singles DEF Shaped
<1>3. ASSUME NEW o \in Wanted, p = Prefix(o, 2)
      PROVE  p \in Paths /\ Shaped(p)
  <2>1. o \in Objects /\ o[1] \in catalog.matches /\ o[2] \in SchemaFilter
    BY DEF Wanted
  <2>2. p \in Paths /\ Len(p) = 2 /\ p[1] = o[1] /\ p[2] = o[2] /\ o[1] \in Catalogs
    <3>1. o \in Paths /\ 2 \in 0..Len(o) /\ o[1] \in Catalogs
      BY <2>1, ObjectsArePaths
    <3>2. /\ Prefix(o, 2) \in Paths /\ Len(Prefix(o, 2)) = 2
          /\ \A i \in 1..2 : Prefix(o, 2)[i] = o[i]
      BY <3>1, Prefixes
    <3> QED
      BY <1>3, <3>1, <3>2
  <2> QED
    BY <1>1, <2>1, <2>2 DEF Shaped
<1>4. ASSUME p \in Full
      PROVE  p \in Paths /\ Shaped(p)
  <2>1. /\ p \in Objects /\ p[1] \in catalog.matches /\ p[2] \in SchemaFilter
        /\ p[3] \in TableFilter /\ tableTypeAllowed(p)
    BY <1>4 DEF Full, Wanted
  <2>2. p \in Paths /\ Len(p) = 3 /\ p[1] \in Catalogs /\ Prefix(p, 3) = p
    BY <2>1, ObjectsArePaths, WholeObject
  <2> QED
    BY <1>1, <2>1, <2>2 DEF Shaped
<1>5. ASSUME NEW o \in Full, NEW col \in Columns \cap ColumnFilter, p = Append(o, col)
      PROVE  p \in Paths /\ Shaped(p)
  <2>1. /\ o \in Objects /\ o[1] \in catalog.matches /\ o[2] \in SchemaFilter
        /\ o[3] \in TableFilter /\ tableTypeAllowed(o) /\ col \in Names
    BY DEF Full, Wanted, Names
  <2>2. o \in Paths /\ Len(o) = 3 /\ o[1] \in Catalogs
    BY <2>1, ObjectsArePaths
  <2>3. /\ p \in Paths /\ Len(p) = 4 /\ p[4] = col
        /\ \A i \in 1..3 : p[i] = o[i]
    <3>1. /\ Append(o, col) \in Paths /\ Len(Append(o, col)) = Len(o) + 1
          /\ \A i \in 1..Len(o) : Append(o, col)[i] = o[i]
          /\ Append(o, col)[Len(o) + 1] = col
      BY <2>1, <2>2, Appended
    <3>2. Len(o) + 1 = 4
      BY <2>2
    <3> QED
      BY <1>5, <2>2, <3>1, <3>2
  <2>4. Prefix(p, 3) = o
    <3>1. 3 \in 0..Len(p) /\ \A i \in 1..3 : o[i] = p[i]
      BY <2>3
    <3> QED
      BY <2>2, <2>3, <3>1, IsPrefixOf
  <2> QED
    BY <1>1, <2>1, <2>2, <2>3, <2>4 DEF Shaped
<1> QED
  BY <1>2, <1>3, <1>4, <1>5, ExpectedCases

LEMMA ShapedIsExpected ==
  ASSUME NEW p \in Paths, Shaped(p)
  PROVE  p \in Expected(Objects)
<1>1. Len(p) \in 1..4 /\ Len(p) <= depth
  BY DEF Shaped
<1>2. CASE Len(p) = 1
  <2>1. p[1] \in catalog.matches \cap Catalogs /\ p[1] \in Names
    BY DEF Shaped, Names
  <2>2. p = <<p[1]>>
    <3> DEFINE q == <<p[1]>>
    <3>1. q \in Paths /\ Len(q) = 1 /\ q[1] = p[1]
      BY <2>1, Singles
    <3>2. \A i \in 1..Len(p) : p[i] = q[i]
      BY <1>2, <3>1
    <3> HIDE DEF q
    <3>3. p = q
      BY <1>2, <3>1, <3>2, SamePath
    <3> QED
      BY <3>3 DEF q
  <2> QED
    BY <1>1, <2>1, <2>2, ExpectedCases
<1>3. CASE Len(p) = 2
  <2>1. PICK o \in Objects : o[1] = p[1] /\ o[2] = p[2]
    BY <1>3 DEF Shaped
  <2>2. o \in Wanted
    BY <1>3, <2>1 DEF Shaped, Wanted
  <2>3. p = Prefix(o, 2)
    <3>1. o \in Paths /\ 2 \in 0..Len(o) /\ \A i \in 1..2 : p[i] = o[i]
      BY <2>1, ObjectsArePaths
    <3> QED
      BY <1>3, <3>1, IsPrefixOf
  <2> QED
    BY <1>1, <2>2, <2>3, ExpectedCases
<1>4. CASE Len(p) = 3
  <2>1. Prefix(p, 3) = p
    BY <1>4, WholeObject
  <2>2. p \in Full
    BY <1>4, <2>1 DEF Shaped, Full, Wanted
  <2> QED
    BY <1>1, <2>2, ExpectedCases
<1>5. CASE Len(p) = 4
  <2> DEFINE o == Prefix(p, 3)
  <2>1. o \in Paths /\ Len(o) = 3 /\ \A i \in 1..3 : o[i] = p[i]
    <3>1. 3 \in 0..Len(p)
      BY <1>5
    <3> QED
      BY <3>1, Prefixes
  <2>2. o \in Full /\ p[4] \in Columns \cap ColumnFilter /\ p[4] \in Names
    BY <1>5, <2>1 DEF Shaped, Full, Wanted, Names
  <2>3. p = Append(o, p[4])
    <3> HIDE DEF o
    <3>1. /\ Append(o, p[4]) \in Paths /\ Len(Append(o, p[4])) = 4
          /\ \A i \in 1..3 : Append(o, p[4])[i] = o[i]
          /\ Append(o, p[4])[4] = p[4]
      <4>1. /\ Append(o, p[4]) \in Paths /\ Len(Append(o, p[4])) = Len(o) + 1
            /\ \A i \in 1..Len(o) : Append(o, p[4])[i] = o[i]
            /\ Append(o, p[4])[Len(o) + 1] = p[4]
        BY <2>1, <2>2, Appended
      <4>2. Len(o) = 3 /\ Len(o) + 1 = 4
        BY <2>1
      <4> QED
        BY <4>1, <4>2
    <3>2. \A i \in 1..Len(p) : p[i] = Append(o, p[4])[i]
      BY <1>5, <2>1, <3>1
    <3> QED
      BY <1>5, <3>1, <3>2, SamePath
  <2> QED
    BY <1>1, <2>2, <2>3, ExpectedCases
<1> QED
  BY <1>1, <1>2, <1>3, <1>4, <1>5

-----------------------------------------------------------------------------
(* The inductive invariant.                                                *)

Walking == {"namespaces in", "namespaces", "tables", "columns"}

\* What was asked and failed is about a path; the fallback for a catalog's
\* namespaces is asked only after a failure.
Typed ==
    /\ depth \in 1..4 /\ catalog \in CatalogFilters /\ current \in Catalogs
    /\ tables \subseteq Objects /\ changes \in Nat
    /\ changes = 0 => tables = Objects
    /\ pc \in Walking \cup {"catalogs", "walk", "done"}
    /\ outcome = "none" <=> pc # "done"
    /\ \A f \in failed : f[2] \in Paths
    /\ outcome = "error" => \E f \in failed : f[1] = "tables"

\* A path that was reported: made of names, as deep as was asked for, through
\* the filters, and with a table that exists or existed.
Sound(p) ==
    /\ p \in Paths /\ Len(p) \in 1..4 /\ Len(p) <= depth
    /\ Len(p) >= 2 => p[2] \in SchemaFilter
    /\ Len(p) >= 3 => /\ Prefix(p, 3) \in Objects /\ p[3] \in TableFilter
                      /\ tableTypeAllowed(Prefix(p, 3))
    /\ Len(p) >= 4 => p[4] \in ColumnFilter

\* The walk's own places: what is still to be asked for was reported and is
\* above the depth, and the path at hand is as long as the question wants.
PlacesOK ==
    /\ todo \subseteq reported /\ \A p \in todo : Len(p) < depth
    /\ pc = "catalogs" => path = <<>> /\ reported = {}
    /\ pc \in Walking => path \in reported /\ Len(path) < depth
    /\ pc \in {"namespaces in", "namespaces"} => Len(path) = 1
    /\ pc = "tables" => Len(path) = 2
    /\ pc = "columns" => Len(path) = 3
    /\ pc = "namespaces" => <<"namespaces in", path>> \in failed
    /\ outcome = "ok" => todo = {}

Excused(f, p) ==
    /\ Above(f[2], p)
    /\ f[1] = "catalogs" => p[1] # Default
    /\ f[1] = "namespaces in" => p[1] # current

\* What the walk will still come to.
Pending == todo \cup (IF pc \in Walking THEN {path} ELSE {})

\* Of a path that is expected: it was reported, or lost to a failure above it,
\* or something above it is still to be asked about.
Covered(p) ==
    \/ p \in reported
    \/ \E f \in failed : Excused(f, p)
    \/ pc = "catalogs"
    \/ \E q \in Pending : Above(q, p)

AllCovered == changes = 0 /\ outcome # "error" =>
                  \A p \in Expected(Objects) : Covered(p)

\* Without a failure only what is expected was reported.
AllExpected == changes = 0 /\ failed = {} /\ catalog.matches \subseteq Catalogs =>
                   \A p \in reported : Shaped(p)

IInv == /\ Typed /\ (\A p \in reported : Sound(p)) /\ PlacesOK
        /\ AllCovered /\ AllExpected

LEMMA InitIInv == Init => IInv
<1> SUFFICES ASSUME Init PROVE IInv
  OBVIOUS
<1>1. Typed
  BY DEF Init, Typed, Walking
<1>2. \A p \in reported : Sound(p)
  BY DEF Init
<1>3. PlacesOK
  BY DEF Init, PlacesOK, Walking
<1>4. AllCovered
  BY DEF Init, AllCovered, Covered
<1>5. AllExpected
  BY DEF Init, AllExpected
<1> QED
  BY <1>1, <1>2, <1>3, <1>4, <1>5 DEF IInv

\* What the definitions say of a path stays as the caller asked.
LEMMA AsAsked ==
  ASSUME UNCHANGED inputs
  PROVE  /\ Expected(Objects)' = Expected(Objects)
         /\ \A p : Sound(p)' <=> Sound(p)
         /\ \A p : Shaped(p)' <=> Shaped(p)
         /\ \A f, p : Excused(f, p)' <=> Excused(f, p)
<1>1. depth' = depth /\ catalog' = catalog /\ current' = current
  BY DEF inputs
<1>2. Expected(Objects)' = Expected(Objects)
  BY <1>1 DEF Expected, Matched
<1>3. \A p : Sound(p)' <=> Sound(p)
  BY <1>1 DEF Sound
<1>4. \A p : Shaped(p)' <=> Shaped(p)
  BY <1>1 DEF Shaped
<1>5. \A f, p : Excused(f, p)' <=> Excused(f, p)
  BY <1>1 DEF Excused
<1> QED
  BY <1>2, <1>3, <1>4, <1>5

\* A step that takes nothing back, and leaves what was pending pending or
\* covers what is below it.
LEMMA StillCovered ==
  ASSUME IInv, UNCHANGED inputs, reported \subseteq reported', failed \subseteq failed',
         changes' = 0 => changes = 0, outcome' # "error" => outcome # "error",
         changes' = 0 /\ outcome' # "error" => \A p \in Expected(Objects) :
             /\ pc = "catalogs" => Covered(p)'
             /\ \A q \in Pending : Above(q, p) => q \in Pending' \/ Covered(p)'
  PROVE  AllCovered'
<1> SUFFICES ASSUME changes' = 0, outcome' # "error", NEW p \in Expected(Objects)
             PROVE  Covered(p)'
  BY AsAsked DEF AllCovered
<1>1. Covered(p)
  BY DEF IInv, AllCovered
<1>2. CASE p \in reported
  BY <1>2 DEF Covered
<1>3. CASE \E f \in failed : Excused(f, p)
  BY <1>3, AsAsked DEF Covered
<1>4. CASE pc = "catalogs"
  BY <1>4
<1>5. CASE \E q \in Pending : Above(q, p)
  <2>1. PICK q \in Pending : Above(q, p)
    BY <1>5
  <2>2. q \in Pending' \/ Covered(p)'
    BY <2>1
  <2>3. Above(q, p)'
    BY <2>1 DEF Above
  <2> QED
    BY <2>2, <2>3 DEF Covered
<1> QED
  BY <1>1, <1>2, <1>3, <1>4, <1>5 DEF Covered

\* What a report covers: the path itself, and what is below one of its
\* objects that is to be asked about.
LEMMA ReportCovers ==
  ASSUME NEW objects, Report(objects), NEW p,
         p \in objects \/ \E q \in objects : Len(q) < depth /\ Above(q, p)
  PROVE  Covered(p)'
<1>1. CASE p \in objects
  BY <1>1 DEF Report, Covered
<1>2. ASSUME NEW q \in objects, Len(q) < depth, Above(q, p)
      PROVE  Covered(p)'
  <2>1. q \in Pending' /\ Above(q, p)'
    BY <1>2 DEF Report, Pending, Above
  <2> QED
    BY <2>1 DEF Covered
<1> QED
  BY <1>1, <1>2

\* A question is answered, or given up: everything but the report.
LEMMA ReportKeeps ==
  ASSUME IInv, NEW objects, Report(objects), UNCHANGED <<inputs, world, outcome>>,
         pc \in Walking \cup {"catalogs"}, pc' = "walk",
         failed \subseteq failed', \A f \in failed' : f[2] \in Paths,
         \A p \in objects : Sound(p),
         changes = 0 /\ failed' = {} /\ catalog.matches \subseteq Catalogs =>
             \A p \in objects : Shaped(p),
         changes = 0 => \A p \in Expected(Objects) :
             pc = "catalogs" \/ Above(path, p) => Covered(p)'
  PROVE  IInv'
<1>1. depth' = depth /\ catalog' = catalog /\ reported' = reported \cup objects
      /\ todo' = todo \cup {o \in objects : Len(o) < depth}
  BY DEF Report, inputs
<1>2. Typed'
  BY DEF IInv, Typed, inputs, world, Walking
<1>3. \A p \in reported' : Sound(p)'
  BY <1>1, AsAsked DEF IInv
<1>4. PlacesOK'
  <2>1. outcome' = "none"
    BY DEF IInv, Typed, Walking
  <2> QED
    BY <1>1, <2>1 DEF IInv, PlacesOK, Walking
<1>5. AllCovered'
  <2>1. \A q \in Pending : q \in Pending' \/ q = path
    BY <1>1 DEF Pending, Walking
  <2>2. changes' = changes
    BY DEF world
  <2> QED
    BY <1>1, <2>1, <2>2, StillCovered
<1>6. AllExpected'
  BY <1>1, AsAsked DEF IInv, AllExpected, world
<1> QED
  BY <1>2, <1>3, <1>4, <1>5, <1>6 DEF IInv

-----------------------------------------------------------------------------
(* The actions: the server and the context.                                *)

LEMMA QuietKeeps ==
  ASSUME IInv,
         UNCHANGED <<inputs, pc, todo, path, reported, outcome, failed>>,
         tables' \subseteq Objects, changes' \in Nat,
         changes' = 0 => changes = 0 /\ tables' = tables
  PROVE  IInv'
<1>1. depth' = depth /\ catalog' = catalog /\ current' = current
  BY DEF inputs
<1>2. Typed'
  BY <1>1 DEF IInv, Typed
<1>3. \A p \in reported' : Sound(p)'
  BY AsAsked DEF IInv
<1>4. PlacesOK'
  BY <1>1 DEF IInv, PlacesOK
<1>5. AllCovered'
  <2>1. Pending' = Pending
    BY DEF Pending
  <2>2. pc = "catalogs" => \A p : Covered(p)'
    BY DEF Covered
  <2> QED
    BY <2>1, <2>2, StillCovered
<1>6. AllExpected'
  BY <1>1, AsAsked DEF IInv, AllExpected
<1> QED
  BY <1>2, <1>3, <1>4, <1>5, <1>6 DEF IInv

LEMMA ChangeTablesKeeps == ASSUME IInv, ChangeTables PROVE IInv'
<1>1. changes \in Nat /\ tables \subseteq Objects
  BY DEF IInv, Typed
<1>2. /\ UNCHANGED <<inputs, pc, todo, path, reported, outcome, failed>>
      /\ tables' \subseteq Objects /\ changes' = changes + 1
  BY <1>1 DEF ChangeTables
<1>3. changes' \in Nat /\ changes' # 0
  BY <1>1, <1>2
<1> QED
  BY <1>2, <1>3, QuietKeeps

LEMMA EndContextKeeps == ASSUME IInv, EndContext PROVE IInv'
<1>1. changes \in Nat /\ tables \subseteq Objects
  BY DEF IInv, Typed
<1> QED
  BY <1>1, QuietKeeps DEF EndContext

-----------------------------------------------------------------------------
(* listCatalogs.                                                           *)

LEMMA AtCatalogs ==
  ASSUME IInv, pc = "catalogs"
  PROVE  /\ path = <<>> /\ <<>> \in Paths /\ outcome = "none" /\ depth \in 1..4
         /\ \A p \in Paths : Len(p) >= 1 => Above(path, p)
         /\ \A c \in catalog.matches : c \in Names
         /\ Default \in Names /\ Default \in Catalogs
<1>1. path = <<>> /\ outcome = "none" /\ depth \in 1..4 /\ catalog \in CatalogFilters
  BY DEF IInv, PlacesOK, Typed, Walking
<1>2. <<>> \in Paths /\ Len(<<>>) = 0
  BY DEF Paths
<1>3. \A p \in Paths : Len(p) >= 1 => Above(path, p)
  BY <1>1, <1>2 DEF Above
<1>4. \A c \in catalog.matches : c \in Names
  BY <1>1 DEF Names
<1>5. Default \in Names /\ Default \in Catalogs
  BY DefaultIsCatalog DEF Names
<1> QED
  BY <1>1, <1>2, <1>3, <1>4, <1>5

\* A failed question, with its path.
LEMMA Noted ==
  ASSUME NEW q, NEW fs, <<q, path>> \in fs
  PROVE  \E f \in fs : f[1] = q /\ f[2] = path
<1>1. <<q, path>>[1] = q /\ <<q, path>>[2] = path
  OBVIOUS
<1> QED
  BY <1>1, Zenon

\* A catalog as the root of a path.
LEMMA Roots ==
  ASSUME NEW c \in Names, depth \in 1..4
  PROVE  /\ Sound(<<c>>)
         /\ c \in catalog.matches \cap Catalogs => Shaped(<<c>>)
         /\ \A p \in Paths : p[1] = c /\ Len(p) \in 1..4 =>
                p = <<c>> \/ Above(<<c>>, p)
<1> DEFINE r == <<c>>
<1>1. r \in Paths /\ Len(r) = 1 /\ r[1] = c
  BY Singles
<1> HIDE DEF r
<1>2. Sound(r)
  BY <1>1 DEF Sound
<1>3. c \in catalog.matches \cap Catalogs => Shaped(r)
  BY <1>1 DEF Shaped
<1>4. ASSUME NEW p \in Paths, p[1] = c, Len(p) \in 1..4
      PROVE  p = r \/ Above(r, p)
  <2>1. CASE Len(p) = 1
    <3>1. \A i \in 1..Len(p) : p[i] = r[i]
      BY <1>1, <1>4, <2>1
    <3> QED
      BY <1>1, <2>1, <3>1, SamePath
  <2>2. CASE Len(p) # 1
    BY <1>1, <1>4, <2>2 DEF Above
  <2> QED
    BY <2>1, <2>2
<1> QED
  BY <1>2, <1>3, <1>4 DEF r

\* An expected path is under its own catalog, if that was reported.
LEMMA RootCovers ==
  ASSUME depth \in 1..4, NEW objects, Report(objects),
         NEW p \in Expected(Objects), p[1] \in Names, <<p[1]>> \in objects
  PROVE  Covered(p)'
<1>1. p \in Paths /\ Len(p) \in 1..4 /\ Len(p) <= depth
  BY ExpectedIsShaped DEF Shaped
<1>2. p = <<p[1]>> \/ Above(<<p[1]>>, p)
  BY <1>1, Roots
<1>3. Len(<<p[1]>>) = 1
  OBVIOUS
<1>4. Above(<<p[1]>>, p) => Len(<<p[1]>>) < depth
  BY <1>1, <1>3 DEF Above
<1> QED
  BY <1>2, <1>4, ReportCovers

LEMMA ExactKeeps == ASSUME IInv, ListExactCatalog PROVE IInv'
<1> DEFINE objects == {<<c>> : c \in catalog.matches}
<1>1. /\ pc = "catalogs" /\ Report(objects) /\ pc' = "walk"
      /\ UNCHANGED <<inputs, world, outcome, failed>>
  BY DEF ListExactCatalog, Ask
<1>2. /\ outcome = "none" /\ depth \in 1..4 /\ \A c \in catalog.matches : c \in Names
  BY <1>1, AtCatalogs
<1>3. \A p \in objects : Sound(p)
  BY <1>2, Roots
<1>4. catalog.matches \subseteq Catalogs => \A p \in objects : Shaped(p)
  BY <1>2, Roots
<1>5. ASSUME NEW p \in Expected(Objects) PROVE Covered(p)'
  <2>1. p[1] \in catalog.matches /\ p[1] \in Names
    BY <1>2, ExpectedIsShaped DEF Shaped
  <2>2. <<p[1]>> \in objects
    BY <2>1
  <2> QED
    BY <1>1, <1>2, <2>1, <2>2, RootCovers
<1>6. \A f \in failed' : f[2] \in Paths
  BY <1>1 DEF IInv, Typed
<1> HIDE DEF objects
<1> QED
  BY <1>1, <1>3, <1>4, <1>5, <1>6, ReportKeeps

LEMMA CatalogsKeeps == ASSUME IInv, ListCatalogs PROVE IInv'
<1> DEFINE objects == {<<c>> : c \in Matched(catalog, Catalogs)}
<1>1. /\ pc = "catalogs" /\ Report(objects) /\ pc' = "walk"
      /\ UNCHANGED <<inputs, world, outcome, failed>>
  BY DEF ListCatalogs, Answer, Ask
<1>2. /\ outcome = "none" /\ depth \in 1..4 /\ \A c \in catalog.matches : c \in Names
  BY <1>1, AtCatalogs
<1>3. \A p \in objects : Sound(p) /\ Shaped(p)
  BY <1>2, Roots DEF Matched
<1>4. ASSUME NEW p \in Expected(Objects) PROVE Covered(p)'
  <2>1. p[1] \in Matched(catalog, Catalogs) /\ p[1] \in Names
    BY <1>2, ExpectedIsShaped DEF Shaped, Matched
  <2>2. <<p[1]>> \in objects
    BY <2>1
  <2> QED
    BY <1>1, <1>2, <2>1, <2>2, RootCovers
<1>5. \A f \in failed' : f[2] \in Paths
  BY <1>1 DEF IInv, Typed
<1> HIDE DEF objects
<1> QED
  BY <1>1, <1>3, <1>4, <1>5, ReportKeeps

LEMMA DefaultKeeps == ASSUME IInv, ListDefaultCatalog PROVE IInv'
<1> DEFINE objects == {<<Default>>}
<1>1. /\ pc = "catalogs" /\ Report(objects) /\ pc' = "walk"
      /\ UNCHANGED <<inputs, world, outcome>>
      /\ failed' = failed \cup {<<"catalogs", path>>}
  BY DEF ListDefaultCatalog, Failure, Ask
<1>2. /\ path = <<>> /\ <<>> \in Paths /\ outcome = "none" /\ depth \in 1..4
      /\ \A p \in Paths : Len(p) >= 1 => Above(path, p)
      /\ Default \in Names /\ Default \in Catalogs
  BY <1>1, AtCatalogs
<1>3. \A p \in objects : Sound(p)
  BY <1>2, Roots
<1>4. failed' # {}
  BY <1>1
<1>5. ASSUME NEW p \in Expected(Objects) PROVE Covered(p)'
  <2>1. p \in Paths /\ Len(p) >= 1
    BY ExpectedIsShaped DEF Shaped
  <2>2. CASE p[1] = Default
    BY <1>1, <1>2, <2>2, RootCovers
  <2>3. CASE p[1] # Default
    <3>1. PICK f \in failed' : f[1] = "catalogs" /\ f[2] = path
      BY <1>1, Noted
    <3>2. Excused(f, p)
      BY <1>2, <2>1, <2>3, <3>1 DEF Excused
    <3>3. Excused(f, p)'
      BY <1>1, <3>2, AsAsked
    <3> QED
      BY <3>1, <3>3 DEF Covered
  <2> QED
    BY <2>2, <2>3
<1>6. \A f \in failed' : f[2] \in Paths
  BY <1>1, <1>2 DEF IInv, Typed
<1> HIDE DEF objects
<1> QED
  BY <1>1, <1>3, <1>4, <1>5, <1>6, ReportKeeps

-----------------------------------------------------------------------------
(* The walk.                                                               *)

LEMMA VisitKeeps == ASSUME IInv, Visit PROVE IInv'
<1>1. PICK p \in todo :
        /\ pc = "walk" /\ path' = p /\ todo' = todo \ {p}
        /\ pc' = <<"namespaces in", "tables", "columns">>[Len(p)]
        /\ UNCHANGED <<inputs, world, reported, outcome, failed, failures>>
  BY DEF Visit
<1>2. p \in reported /\ Len(p) < depth /\ depth \in 1..4 /\ Len(p) \in 1..3
  <2>1. p \in reported /\ Len(p) < depth /\ depth \in 1..4
    BY <1>1 DEF IInv, PlacesOK, Typed
  <2>2. Len(p) \in 1..4
    BY <2>1 DEF IInv, Sound
  <2> QED
    BY <2>1, <2>2
<1>3. /\ Len(p) = 1 => pc' = "namespaces in"
      /\ Len(p) = 2 => pc' = "tables"
      /\ Len(p) = 3 => pc' = "columns"
  <2> DEFINE qs == <<"namespaces in", "tables", "columns">>
  <2>1. qs[1] = "namespaces in" /\ qs[2] = "tables" /\ qs[3] = "columns"
    OBVIOUS
  <2>2. pc' = qs[Len(p)]
    BY <1>1
  <2> HIDE DEF qs
  <2> QED
    BY <2>1, <2>2
<1>4. /\ depth' = depth /\ catalog' = catalog /\ current' = current
      /\ tables' = tables /\ changes' = changes
  BY <1>1 DEF inputs, world
<1>5. \/ Len(p) = 1 /\ pc' = "namespaces in"
      \/ Len(p) = 2 /\ pc' = "tables"
      \/ Len(p) = 3 /\ pc' = "columns"
  <2>1. Len(p) = 1 \/ Len(p) = 2 \/ Len(p) = 3
    BY <1>2
  <2> QED
    BY <1>3, <2>1
<1>6. pc' \in Walking
  BY <1>5 DEF Walking
<1>7. Typed'
  BY <1>1, <1>4, <1>6 DEF IInv, Typed, Walking
<1>8. \A q \in reported' : Sound(q)'
  BY <1>1, AsAsked DEF IInv
<1>9. PlacesOK'
  BY <1>1, <1>2, <1>4, <1>5, <1>6 DEF IInv, PlacesOK
<1>10. AllCovered'
  <2>1. \A q \in Pending : q \in Pending'
    BY <1>1, <1>6 DEF Pending, Walking
  <2> QED
    BY <1>1, <1>4, <2>1, StillCovered
<1>11. AllExpected'
  BY <1>1, <1>4, AsAsked DEF IInv, AllExpected
<1> QED
  BY <1>7, <1>8, <1>9, <1>10, <1>11 DEF IInv

LEMMA FinishKeeps == ASSUME IInv, Finish PROVE IInv'
<1>1. /\ pc = "walk" /\ todo = {} /\ pc' = "done" /\ outcome' = "ok"
      /\ UNCHANGED <<inputs, world, todo, path, reported, failed>>
  BY DEF Finish
<1>2. Typed'
  BY <1>1 DEF IInv, Typed, inputs, world, Walking
<1>3. \A q \in reported' : Sound(q)'
  BY <1>1, AsAsked DEF IInv
<1>4. PlacesOK'
  BY <1>1 DEF IInv, PlacesOK, Walking
<1>5. AllCovered'
  <2>1. Pending = {} /\ outcome = "none" /\ changes' = changes
    BY <1>1 DEF Pending, Walking, IInv, Typed, world
  <2> QED
    BY <1>1, <2>1, StillCovered
<1>6. AllExpected'
  BY <1>1, AsAsked DEF IInv, AllExpected, inputs, world
<1> QED
  BY <1>2, <1>3, <1>4, <1>5, <1>6 DEF IInv

\* A failed question excuses what is below its path; the one about the
\* catalogs or about a catalog's namespaces only with the fallback.
LEMMA FailureExcuses ==
  ASSUME UNCHANGED inputs, NEW f \in failed', f[2] = path, NEW p, Above(path, p),
         f[1] # "catalogs", f[1] = "namespaces in" => p[1] # current
  PROVE  Covered(p)'
<1>1. Excused(f, p)
  BY DEF Excused
<1>2. Excused(f, p)'
  BY <1>1, AsAsked
<1> QED
  BY <1>2 DEF Covered

\* The question is given up: nothing is reported, and what is below its path
\* is excused.
LEMMA GivenUp ==
  ASSUME IInv, NEW q \in {"namespaces", "columns"}, Failure(q), pc' = "walk",
         UNCHANGED <<todo, path, reported, outcome>>
  PROVE  IInv'
<1>1. /\ pc = q /\ UNCHANGED <<inputs, world>>
      /\ failed' = failed \cup {<<q, path>>}
  BY DEF Failure, Ask
<1>2. path \in Paths
  BY <1>1 DEF IInv, PlacesOK, Sound, Walking
<1>3. Report({})
  BY DEF Report
<1>4. \A f \in failed' : f[2] \in Paths
  BY <1>1, <1>2 DEF IInv, Typed
<1>5. ASSUME NEW p \in Expected(Objects), Above(path, p) PROVE Covered(p)'
  <2>1. PICK f \in failed' : f[1] = q /\ f[2] = path
    BY <1>1, Noted
  <2> QED
    BY <1>1, <1>5, <2>1, FailureExcuses
<1> QED
  BY <1>1, <1>3, <1>4, <1>5, ReportKeeps DEF Walking

LEMMA NoSchemasKeeps == ASSUME IInv, NoSchemas PROVE IInv'
  BY GivenUp DEF NoSchemas

LEMMA SkipColumnsKeeps == ASSUME IInv, SkipColumns PROVE IInv'
  BY GivenUp DEF SkipColumns

LEMMA FallBackKeeps == ASSUME IInv, FallBack PROVE IInv'
<1>1. /\ pc = "namespaces in" /\ pc' = "namespaces"
      /\ UNCHANGED <<inputs, world, todo, path, reported, outcome>>
      /\ failed' = failed \cup {<<"namespaces in", path>>}
  BY DEF FallBack, Failure, Ask
<1>2. path \in Paths /\ failed' # {} /\ depth' = depth
  BY <1>1 DEF IInv, PlacesOK, Sound, Walking, inputs
<1>3. \A f \in failed' : f[2] \in Paths
  <2>1. <<"namespaces in", path>>[2] = path
    OBVIOUS
  <2> QED
    BY <1>1, <1>2, <2>1, Zenon DEF IInv, Typed
<1>4. Typed'
  BY <1>1, <1>3 DEF IInv, Typed, inputs, world, Walking
<1>5. \A p \in reported' : Sound(p)'
  BY <1>1, AsAsked DEF IInv
<1>6. PlacesOK'
  BY <1>1, <1>2 DEF IInv, PlacesOK, Walking
<1>7. AllCovered'
  <2>1. Pending' = Pending /\ changes' = changes
    BY <1>1 DEF Pending, Walking, world
  <2> QED
    BY <1>1, <2>1, StillCovered
<1>8. AllExpected'
  BY <1>2 DEF AllExpected
<1> QED
  BY <1>4, <1>5, <1>6, <1>7, <1>8 DEF IInv

LEMMA FailTablesKeeps == ASSUME IInv, FailTables PROVE IInv'
<1>1. /\ pc = "tables" /\ pc' = "done" /\ outcome' = "error"
      /\ UNCHANGED <<inputs, world, todo, path, reported>>
      /\ failed' = failed \cup {<<"tables", path>>}
  BY DEF FailTables, Failure, Ask
<1>2. /\ path \in Paths /\ failed' # {} /\ depth' = depth
      /\ \E f \in failed' : f[1] = "tables"
  <2>1. path \in Paths
    BY <1>1 DEF IInv, PlacesOK, Sound, Walking
  <2>2. \E f \in failed' : f[1] = "tables" /\ f[2] = path
    BY <1>1, Noted
  <2> QED
    BY <1>1, <2>1, <2>2 DEF inputs
<1>3. Typed'
  BY <1>1, <1>2 DEF IInv, Typed, inputs, world, Walking
<1>4. \A p \in reported' : Sound(p)'
  BY <1>1, AsAsked DEF IInv
<1>5. PlacesOK'
  BY <1>1, <1>2 DEF IInv, PlacesOK, Walking
<1>6. AllCovered'
  BY <1>1 DEF AllCovered
<1>7. AllExpected'
  BY <1>2 DEF AllExpected
<1> QED
  BY <1>3, <1>4, <1>5, <1>6, <1>7 DEF IInv

-----------------------------------------------------------------------------
(* The answers.                                                            *)

\* Where a question about a path is asked.
LEMMA AtPath ==
  ASSUME IInv, pc \in Walking
  PROVE  /\ path \in reported /\ Sound(path) /\ path \in Paths /\ Len(path) < depth
         /\ depth \in 1..4 /\ tables \subseteq Objects /\ outcome = "none"
         /\ changes = 0 => tables = Objects
         /\ \A f \in failed : f[2] \in Paths
<1>1. path \in reported /\ Len(path) < depth
  BY DEF IInv, PlacesOK
<1>2. Sound(path) /\ path \in Paths
  BY <1>1 DEF IInv, Sound
<1> QED
  BY <1>1, <1>2 DEF IInv, Typed, Walking

\* A schema below its catalog.
LEMMA Branches ==
  ASSUME NEW c \in Names, NEW s \in Names, NEW p \in Paths, p[1] = c, p[2] = s,
         Len(p) \in 2..4
  PROVE  p = <<c, s>> \/ Above(<<c, s>>, p)
<1> DEFINE b == <<c, s>>
<1>1. b \in Paths /\ Len(b) = 2 /\ b[1] = c /\ b[2] = s
  BY Pairs
<1> HIDE DEF b
<1>2. \A i \in 1..2 : b[i] = p[i]
  BY <1>1
<1>3. CASE Len(p) = 2
  <2>1. \A i \in 1..Len(p) : p[i] = b[i]
    BY <1>2, <1>3
  <2>2. p = b
    BY <1>1, <1>3, <2>1, SamePath
  <2> QED
    BY <2>2 DEF b
<1>4. CASE Len(p) # 2
  <2>1. Len(p) > 2
    BY <1>4
  <2>2. Len(b) < Len(p) /\ \A i \in 1..Len(b) : b[i] = p[i]
    BY <1>1, <1>2, <2>1
  <2>3. Above(b, p)
    BY <2>2 DEF Above
  <2> QED
    BY <2>3 DEF b
<1> QED
  BY <1>3, <1>4

LEMMA SchemasKeeps == ASSUME IInv, ListSchemas PROVE IInv'
<1> DEFINE of == IF pc = "namespaces" THEN current ELSE path[1]
           objects == {<<path[1], s>> : s \in Schemas(of) \cap SchemaFilter}
<1>1. /\ pc \in {"namespaces in", "namespaces"} /\ Report(objects) /\ pc' = "walk"
      /\ UNCHANGED <<inputs, world, outcome, failed>>
  BY DEF ListSchemas, Answer, Ask
<1>2. pc \in Walking
  BY <1>1 DEF Walking
<1>3. /\ path \in reported /\ Sound(path) /\ path \in Paths /\ Len(path) < depth
      /\ depth \in 1..4 /\ tables \subseteq Objects /\ outcome = "none"
      /\ changes = 0 => tables = Objects
      /\ \A f \in failed : f[2] \in Paths
  BY <1>2, AtPath
<1>4. Len(path) = 1
  BY <1>1 DEF IInv, PlacesOK
<1>5. pc = "namespaces" => <<"namespaces in", path>> \in failed
  BY <1>1 DEF IInv, PlacesOK
<1>6. path[1] \in Names
  <2>1. 1 \in 1..Len(path)
    BY <1>4
  <2> QED
    BY <1>3, <2>1, ElementOfSeq DEF Paths
<1>7. \A s \in Schemas(of) : s \in Names /\ \E o \in tables : o[1] = of /\ o[2] = s
  BY <1>3, ObjectsArePaths DEF Schemas
<1>8. ASSUME NEW p \in objects PROVE Sound(p)
  <2>1. PICK s \in Schemas(of) \cap SchemaFilter : p = <<path[1], s>>
    OBVIOUS
  <2>2. p \in Paths /\ Len(p) = 2 /\ p[2] = s
    BY <1>6, <1>7, <2>1, Pairs
  <2> QED
    <3>1. p[2] \in SchemaFilter /\ Len(p) = 2 /\ 2 <= depth
      BY <1>3, <1>4, <2>1, <2>2
    <3> QED
      BY <2>2, <3>1 DEF Sound
<1>9. ASSUME changes = 0, failed' = {}, catalog.matches \subseteq Catalogs,
             NEW p \in objects
      PROVE  Shaped(p)
  <2>1. PICK s \in Schemas(of) \cap SchemaFilter : p = <<path[1], s>>
    OBVIOUS
  <2>2. p \in Paths /\ Len(p) = 2 /\ p[1] = path[1] /\ p[2] = s
    BY <1>6, <1>7, <2>1, Pairs
  <2>3. of = path[1]
    BY <1>1, <1>5, <1>9
  <2>4. \E o \in Objects : o[1] = p[1] /\ o[2] = p[2]
    BY <1>3, <1>7, <2>1, <2>2, <2>3
  <2>5. Shaped(path)
    BY <1>1, <1>3, <1>9 DEF IInv, AllExpected
  <2> QED
    <3>1. p[2] \in SchemaFilter /\ Len(p) = 2 /\ 2 <= depth
      BY <1>3, <1>4, <2>1, <2>2
    <3>2. p[1] \in catalog.matches /\ p[1] \in Catalogs
      BY <2>2, <2>5 DEF Shaped
    <3> QED
      BY <2>4, <3>1, <3>2 DEF Shaped
<1>10. ASSUME changes = 0, NEW p \in Expected(Objects), Above(path, p)
      PROVE  Covered(p)'
  <2>1. p \in Paths /\ Shaped(p)
    BY ExpectedIsShaped
  <2>2. Len(p) \in 2..4 /\ Len(p) <= depth /\ p[1] = path[1]
    <3>1. Len(p) \in 1..4 /\ Len(p) <= depth
      BY <2>1 DEF Shaped
    <3>2. 1 < Len(p) /\ \A i \in 1..1 : path[i] = p[i]
      BY <1>4, <1>10 DEF Above
    <3> QED
      BY <3>1, <3>2
  <2>3. CASE of = path[1]
    <3>1. PICK o \in tables : o[1] = p[1] /\ o[2] = p[2]
      BY <1>3, <1>10, <2>1, <2>2 DEF Shaped
    <3>2. p[2] \in Schemas(of) \cap SchemaFilter /\ p[2] \in Names
      BY <1>7, <2>1, <2>2, <2>3, <3>1 DEF Schemas, Shaped
    <3>3. <<path[1], p[2]>> \in objects /\ Len(<<path[1], p[2]>>) = 2
      BY <3>2
    <3>4. p = <<path[1], p[2]>> \/ Above(<<path[1], p[2]>>, p)
      BY <1>6, <2>1, <2>2, <3>2, Branches
    <3>5. Above(<<path[1], p[2]>>, p) => Len(<<path[1], p[2]>>) < depth
      BY <1>3, <2>2, <3>3 DEF Above
    <3> HIDE DEF objects
    <3> QED
      BY <1>1, <3>3, <3>4, <3>5, ReportCovers
  <2>4. CASE of # path[1]
    <3>1. /\ <<"namespaces in", path>> \in failed' /\ current # p[1]
      BY <1>1, <1>5, <2>2, <2>4
    <3>2. PICK f \in failed' : f[1] = "namespaces in" /\ f[2] = path
      BY <3>1, Noted
    <3> QED
      BY <1>1, <1>10, <3>1, <3>2, FailureExcuses
  <2> QED
    BY <2>3, <2>4
<1> HIDE DEF objects
<1> QED
  BY <1>1, <1>2, <1>3, <1>8, <1>9, <1>10, ReportKeeps DEF Walking

LEMMA TablesKeeps == ASSUME IInv, ListTables PROVE IInv'
<1> DEFINE objects == {o \in Tables(path[1], path[2]) :
                           o[3] \in TableFilter /\ tableTypeAllowed(o)}
<1>1. /\ pc = "tables" /\ Report(objects) /\ pc' = "walk"
      /\ UNCHANGED <<inputs, world, outcome, failed>>
  BY DEF ListTables, Answer, Ask
<1>2. pc \in Walking
  BY <1>1 DEF Walking
<1>3. /\ path \in reported /\ Sound(path) /\ path \in Paths /\ Len(path) < depth
      /\ depth \in 1..4 /\ tables \subseteq Objects /\ outcome = "none"
      /\ changes = 0 => tables = Objects
      /\ \A f \in failed : f[2] \in Paths
  BY <1>2, AtPath
<1>4. Len(path) = 2 /\ path[2] \in SchemaFilter
  BY <1>1, <1>3 DEF IInv, PlacesOK, Sound
<1>5. ASSUME NEW o \in objects
      PROVE  /\ o \in Objects /\ o[1] = path[1] /\ o[2] = path[2]
             /\ o[3] \in TableFilter /\ tableTypeAllowed(o)
             /\ o \in Paths /\ Len(o) = 3 /\ Prefix(o, 3) = o /\ o[1] \in Catalogs
  <2>1. /\ o \in Objects /\ o[1] = path[1] /\ o[2] = path[2]
        /\ o[3] \in TableFilter /\ tableTypeAllowed(o)
    BY <1>3 DEF Tables
  <2>2. o \in Paths /\ Len(o) = 3 /\ o[1] \in Catalogs
    BY <2>1, ObjectsArePaths
  <2> QED
    BY <2>1, <2>2, WholeObject
<1> HIDE DEF objects
<1>6. \A o \in objects : Sound(o)
  BY <1>3, <1>4, <1>5 DEF Sound
<1>7. ASSUME changes = 0, failed' = {}, catalog.matches \subseteq Catalogs,
             NEW o \in objects
      PROVE  Shaped(o)
  <2>1. Shaped(path)
    BY <1>1, <1>3, <1>7 DEF IInv, AllExpected
  <2> QED
    BY <1>3, <1>4, <1>5, <2>1 DEF Shaped
<1>8. ASSUME changes = 0, NEW p \in Expected(Objects), Above(path, p)
      PROVE  Covered(p)'
  <2>1. p \in Paths /\ Shaped(p)
    BY ExpectedIsShaped
  <2>2. Len(p) \in 3..4 /\ Len(p) <= depth /\ p[1] = path[1] /\ p[2] = path[2]
    BY <1>4, <1>8, <2>1 DEF Above, Shaped
  <2>3. PICK o : o = Prefix(p, 3)
    OBVIOUS
  <2>4. /\ o \in Objects /\ p[3] \in TableFilter /\ tableTypeAllowed(o)
        /\ o \in tables
    BY <1>3, <1>8, <2>1, <2>2, <2>3 DEF Shaped
  <2>5. /\ o \in Paths /\ Len(o) = 3 /\ \A i \in 1..3 : o[i] = p[i]
    <3>1. Len(p) \in 1..4
      BY <2>1 DEF Shaped
    <3>2. Len(p) > 2
      BY <1>4, <1>8 DEF Above
    <3>3. 3 \in 0..Len(p)
      BY <3>1, <3>2, Lengths
    <3>4. /\ Prefix(p, 3) \in Paths /\ Len(Prefix(p, 3)) = 3
          /\ \A i \in 1..3 : Prefix(p, 3)[i] = p[i]
      BY <2>1, <3>3, Prefixes
    <3> QED
      BY <2>3, <3>4
  <2>6. o \in objects
    BY <2>2, <2>4, <2>5 DEF objects, Tables
  <2>7. p = o \/ (Len(o) < depth /\ Above(o, p))
    <3>1. CASE Len(p) = 3
      BY <2>1, <2>3, <3>1, WholeObject
    <3>2. CASE Len(p) = 4
      BY <1>3, <2>2, <2>5, <3>2 DEF Above
    <3> QED
      BY <2>2, <3>1, <3>2
  <2> QED
    BY <1>1, <2>6, <2>7, ReportCovers
<1> QED
  BY <1>1, <1>2, <1>3, <1>6, <1>7, <1>8, ReportKeeps DEF Walking

LEMMA ColumnsKeeps == ASSUME IInv, ListColumns PROVE IInv'
<1> DEFINE objects == {Append(path, col) : col \in Columns \cap ColumnFilter}
<1>1. /\ pc = "columns" /\ pc' = "walk" /\ reported' = reported \cup objects
      /\ UNCHANGED <<inputs, world, todo, outcome, failed>>
  BY DEF ListColumns, Answer, Ask
<1>2. pc \in Walking
  BY <1>1 DEF Walking
<1>3. /\ path \in reported /\ Sound(path) /\ path \in Paths /\ Len(path) < depth
      /\ depth \in 1..4 /\ tables \subseteq Objects /\ outcome = "none"
      /\ changes = 0 => tables = Objects
      /\ \A f \in failed : f[2] \in Paths
  BY <1>2, AtPath
<1>4. Len(path) = 3 /\ depth = 4
  <2>1. Len(path) = 3
    BY <1>1 DEF IInv, PlacesOK
  <2>2. depth > 3
    BY <1>3, <2>1
  <2> QED
    BY <1>3, <2>1, <2>2, Lengths
<1>5. ASSUME NEW col \in Columns
      PROVE  /\ Append(path, col) \in Paths /\ Len(Append(path, col)) = 4
             /\ Append(path, col)[4] = col
             /\ \A i \in 1..3 : Append(path, col)[i] = path[i]
             /\ Prefix(Append(path, col), 3) = path
  <2> DEFINE p == Append(path, col)
  <2>1. col \in Names
    BY DEF Names
  <2>2. /\ p \in Paths /\ Len(p) = Len(path) + 1 /\ p[Len(path) + 1] = col
        /\ \A i \in 1..Len(path) : p[i] = path[i]
    BY <1>3, <2>1, Appended
  <2> HIDE DEF p
  <2>3. /\ p \in Paths /\ Len(p) = 4 /\ p[4] = col
        /\ \A i \in 1..3 : p[i] = path[i]
    <3>1. Len(path) + 1 = 4
      BY <1>4
    <3> QED
      BY <1>4, <2>2, <3>1
  <2>4. 3 \in 0..Len(p) /\ \A i \in 1..3 : path[i] = p[i]
    BY <2>3
  <2>5. Prefix(p, 3) = path
    BY <1>3, <1>4, <2>3, <2>4, IsPrefixOf
  <2> QED
    BY <2>3, <2>5 DEF p
<1>6. ASSUME NEW p \in objects
      PROVE  Sound(p) /\ Len(p) = 4 /\ (Shaped(path) => Shaped(p))
  <2>1. PICK col \in Columns \cap ColumnFilter : p = Append(path, col)
    OBVIOUS
  <2>2. /\ p \in Paths /\ Len(p) = 4 /\ p[4] = col
        /\ \A i \in 1..3 : p[i] = path[i]
        /\ Prefix(p, 3) = path /\ Prefix(path, 3) = path
    <3>1. Prefix(path, 3) = path
      BY <1>3, <1>4, WholeObject
    <3> QED
      BY <1>5, <2>1, <3>1
  <2>3. Sound(p)
    BY <1>3, <1>4, <2>1, <2>2 DEF Sound
  <2>4. Shaped(path) => Shaped(p)
    BY <1>4, <2>1, <2>2 DEF Shaped
  <2> QED
    BY <2>2, <2>3, <2>4
<1>7. ASSUME NEW p \in Expected(Objects), Above(path, p)
      PROVE  p \in objects
  <2>1. p \in Paths /\ Shaped(p)
    BY ExpectedIsShaped
  <2>2. Len(p) = 4 /\ \A i \in 1..3 : p[i] = path[i]
    <3>1. Len(p) \in 1..4
      BY <2>1 DEF Shaped
    <3>2. 3 < Len(p)
      BY <1>4, <1>7 DEF Above
    <3>3. Len(p) = 4
      BY <3>1, <3>2, Lengths
    <3>4. \A i \in 1..3 : p[i] = path[i]
      BY <1>4, <1>7 DEF Above
    <3> QED
      BY <3>3, <3>4
  <2>3. p[4] \in Columns \cap ColumnFilter
    BY <2>1, <2>2 DEF Shaped
  <2>4. PICK q : q = Append(path, p[4])
    OBVIOUS
  <2>5. /\ q \in Paths /\ Len(q) = 4 /\ q[4] = p[4]
        /\ \A i \in 1..3 : q[i] = path[i]
    <3>1. p[4] \in Columns
      BY <2>3
    <3> QED
      BY <1>5, <2>4, <3>1
  <2>6. \A i \in 1..Len(p) : p[i] = q[i]
    BY <2>2, <2>5
  <2>7. p = q
    BY <2>1, <2>2, <2>5, <2>6, SamePath
  <2> QED
    BY <2>3, <2>4, <2>7
<1> HIDE DEF objects
<1>8. Report(objects)
  BY <1>1, <1>4, <1>6 DEF Report
<1>9. \A p \in Expected(Objects) : Above(path, p) => Covered(p)'
  BY <1>7, <1>8, ReportCovers
<1>10. changes = 0 /\ failed' = {} /\ catalog.matches \subseteq Catalogs =>
           \A p \in objects : Shaped(p)
  BY <1>1, <1>3, <1>6 DEF IInv, AllExpected
<1>11. pc # "catalogs" /\ \A p \in objects : Sound(p)
  BY <1>1, <1>6
<1> QED
  BY <1>1, <1>2, <1>3, <1>8, <1>9, <1>10, <1>11, ReportKeeps

-----------------------------------------------------------------------------
(* The theorems.                                                           *)

LEMMA NextKeeps == ASSUME IInv, [Next]_vars PROVE IInv'
<1>1. CASE UNCHANGED vars
  <2>1. changes \in Nat /\ tables \subseteq Objects
    BY DEF IInv, Typed
  <2> QED
    BY <1>1, <2>1, QuietKeeps DEF vars, world
<1>2. CASE Next
  BY <1>2, ChangeTablesKeeps, EndContextKeeps, ExactKeeps, CatalogsKeeps, DefaultKeeps,
     VisitKeeps, FinishKeeps, SchemasKeeps, FallBackKeeps, NoSchemasKeeps,
     TablesKeeps, FailTablesKeeps, ColumnsKeeps, SkipColumnsKeeps
     DEF Next, Walk
<1> QED
  BY <1>1, <1>2

LEMMA InvHolds == Spec => []IInv
<1>1. IInv /\ [Next]_vars => IInv'
  BY NextKeeps
<1> QED
  BY <1>1, InitIInv, PTL DEF Spec

\* Nothing below the catalogs is reported that a filter excludes, whichever
\* question or fallback listed it (objects.go: filterByPattern after each).
THEOREM FiltersAlwaysHold == Spec => []FiltersHold
<1>1. IInv => FiltersHold
  BY DEF IInv, Sound, FiltersHold
<1> QED
  BY <1>1, InvHolds, PTL

-----------------------------------------------------------------------------
(* Why the call fails.                                                     *)

\* A schema that was reported is one of its catalog, or the catalog could not
\* be asked and the schema is one of the current catalog; and what an error is
\* due to.
FailInv ==
    /\ ctx \in {"live", "ended"} /\ failures \in Nat
    /\ changes = 0 => \A p \in reported : Len(p) = 2 =>
           (\E o \in Objects : o[1] = p[1] /\ o[2] = p[2]) \/ AskedElsewhere(p[1])
    /\ FailsOnlyWhenDisturbed

\* A step that does not fail the call and reports no other schemas.
LEMMA FailInvStays ==
  ASSUME FailInv, UNCHANGED inputs, failed \subseteq failed', outcome' # "error",
         ctx' \in {"live", "ended"}, failures' \in Nat, changes' = 0 => changes = 0,
         changes' = 0 => \A p \in reported' \ reported : Len(p) = 2 =>
             \/ \E o \in Objects : o[1] = p[1] /\ o[2] = p[2]
             \/ AskedElsewhere(p[1])'
  PROVE  FailInv'
<1>1. current' = current
  BY DEF inputs
<1>2. \A c : AskedElsewhere(c) => AskedElsewhere(c)'
  BY <1>1 DEF AskedElsewhere
<1>3. ASSUME changes' = 0, NEW p \in reported', Len(p) = 2
      PROVE  (\E o \in Objects : o[1] = p[1] /\ o[2] = p[2]) \/ AskedElsewhere(p[1])'
  <2>1. CASE p \in reported
    BY <1>2, <1>3, <2>1 DEF FailInv
  <2>2. CASE p \notin reported
    BY <1>3, <2>2
  <2> QED
    BY <2>1, <2>2
<1>4. FailsOnlyWhenDisturbed'
  BY DEF FailsOnlyWhenDisturbed
<1>5. changes' = 0 => \A p \in reported' : Len(p) = 2 =>
          (\E o \in Objects : o[1] = p[1] /\ o[2] = p[2]) \/ AskedElsewhere(p[1])'
  BY <1>3
<1> QED
  BY <1>4, <1>5 DEF FailInv

LEMMA FailureFacts ==
  ASSUME NEW q, Failure(q), failures \in Nat
  PROVE  /\ pc = q /\ UNCHANGED <<inputs, ctx, changes>> /\ failed \subseteq failed'
         /\ failures' \in Nat
<1>1. pc = q /\ UNCHANGED <<inputs, ctx, changes>> /\ failed \subseteq failed'
  BY DEF Failure, Ask, world
<1>2. failures' = failures + 1 \/ failures' = failures
  BY DEF Failure
<1> QED
  BY <1>1, <1>2

LEMMA FailInvKept ==
  ASSUME IInv, FailInv, [Next]_vars
  PROVE  FailInv'
<1>1. /\ changes \in Nat /\ (changes = 0 => tables = Objects)
      /\ pc \in Walking => path \in reported /\ path \in Paths
      /\ pc \in {"namespaces in", "namespaces"} => Len(path) = 1
      /\ pc = "tables" => Len(path) = 2
      /\ pc = "columns" => Len(path) = 3
      /\ pc = "namespaces" => <<"namespaces in", path>> \in failed
      /\ outcome = "none" <=> pc # "done"
  BY DEF IInv, Typed, PlacesOK, Walking, Sound
<1>a. ctx \in {"live", "ended"} /\ failures \in Nat
  BY DEF FailInv
<1>2. CASE ListExactCatalog \/ ListCatalogs \/ ListDefaultCatalog
  <2>1. PICK names : Report({<<c>> : c \in names})
    <3>1. ListDefaultCatalog => Report({<<c>> : c \in {Default}})
      BY DEF ListDefaultCatalog, Report
    <3> QED
      BY <1>2, <3>1 DEF ListExactCatalog, ListCatalogs
  <2>2. \A p \in reported' \ reported : Len(p) = 1
    BY <2>1 DEF Report
  <2>3. /\ UNCHANGED <<inputs, ctx, changes>> /\ failed \subseteq failed'
        /\ outcome' # "error" /\ failures' \in Nat
    <3>1. CASE ListExactCatalog \/ ListCatalogs
      <4>1. pc = "catalogs"
        BY <3>1 DEF ListExactCatalog, ListCatalogs, Ask, Answer
      <4>2. outcome = "none"
        BY <1>1, <4>1
      <4> QED
        BY <1>a, <3>1, <4>2 DEF ListExactCatalog, ListCatalogs, Ask, Answer, world
    <3>2. CASE ListDefaultCatalog
      <4>1. Failure("catalogs") /\ outcome' = outcome
        BY <3>2 DEF ListDefaultCatalog
      <4> QED
        <5>1. /\ pc = "catalogs" /\ UNCHANGED <<inputs, ctx, changes>>
              /\ failed \subseteq failed' /\ failures' \in Nat
          BY <1>a, <4>1, FailureFacts
        <5> QED
          BY <1>1, <4>1, <5>1
    <3> QED
      BY <1>2, <3>1, <3>2
  <2> QED
    BY <1>a, <2>2, <2>3, FailInvStays
<1>3. CASE Visit \/ Finish
  <2>1. /\ UNCHANGED <<inputs, ctx, changes, failed, failures, reported>>
        /\ outcome' # "error"
    BY <1>1, <1>3 DEF Visit, Finish, world
  <2> QED
    BY <1>a, <2>1, FailInvStays
<1>4. CASE ListSchemas
  <2>1. /\ pc \in {"namespaces in", "namespaces"}
        /\ UNCHANGED <<inputs, ctx, tables, changes, failed, failures>>
        /\ outcome' # "error"
    BY <1>1, <1>4 DEF ListSchemas, Answer, Ask, world
  <2>2. path = <<path[1]>>
    <3> DEFINE p == path
    <3>1. p \in Paths /\ Len(p) = 1
      BY <1>1, <2>1 DEF Walking
    <3> HIDE DEF p
    <3>2. p = <<p[1]>>
      BY <3>1 DEF Paths
    <3> QED
      BY <3>2 DEF p
  <2>3. ASSUME NEW p \in reported' \ reported, changes = 0
        PROVE  \/ \E o \in Objects : o[1] = p[1] /\ o[2] = p[2]
               \/ AskedElsewhere(p[1])'
    <3> DEFINE listed == IF pc = "namespaces" THEN current ELSE path[1]
    <3>1. PICK s \in Schemas(listed) : p = <<path[1], s>>
      BY <1>4, <2>3 DEF ListSchemas, Report
    <3>2. PICK o \in Objects : o[1] = listed /\ o[2] = s
      BY <1>1, <2>3, <3>1 DEF Schemas
    <3>3. CASE listed = path[1]
      BY <3>1, <3>2, <3>3
    <3>4. CASE listed # path[1]
      BY <1>1, <2>1, <2>2, <3>1, <3>4 DEF AskedElsewhere, inputs
    <3> QED
      BY <3>3, <3>4
  <2> QED
    BY <1>a, <2>1, <2>3, FailInvStays
<1>5. CASE FallBack \/ NoSchemas \/ SkipColumns
  <2>1. /\ UNCHANGED <<inputs, ctx, changes, reported>> /\ failed \subseteq failed'
        /\ outcome' # "error" /\ failures' \in Nat
    <3>1. PICK q \in Walking : Failure(q)
      BY <1>5 DEF FallBack, NoSchemas, SkipColumns, Walking
    <3>2. UNCHANGED <<outcome, reported>>
      BY <1>5 DEF FallBack, NoSchemas, SkipColumns
    <3>3. outcome = "none"
      BY <1>1, <1>a, <3>1, FailureFacts DEF Walking
    <3> QED
      BY <1>a, <3>1, <3>2, <3>3, FailureFacts
  <2> QED
    BY <1>a, <2>1, FailInvStays
<1>6. CASE ListTables
  <2>1. /\ UNCHANGED <<inputs, ctx, changes, failed, failures>>
        /\ outcome' # "error"
    BY <1>1, <1>6 DEF ListTables, Answer, Ask, world
  <2>2. tables \subseteq Objects
    BY DEF IInv, Typed
  <2>3. ASSUME NEW p \in reported' \ reported PROVE Len(p) = 3
    <3>1. p \in Objects
      BY <1>6, <2>2, <2>3 DEF ListTables, Report, Tables
    <3> QED
      BY <3>1, ObjectsArePaths
  <2> QED
    BY <1>a, <2>1, <2>3, FailInvStays
<1>7. CASE FailTables
  <2>1. /\ pc = "tables" /\ path' = path /\ <<"tables", path>> \in failed'
        /\ UNCHANGED <<inputs, ctx, tables, changes, reported>>
        /\ failed \subseteq failed'
        /\ IF Answerable THEN failures' = failures + 1 ELSE failures' = failures
    BY <1>7 DEF FailTables, Failure, Ask, world
  <2>2. \A c : AskedElsewhere(c) => AskedElsewhere(c)'
    BY <2>1 DEF AskedElsewhere, inputs
  <2>3. FailsOnlyWhenDisturbed'
    <3>1. CASE Answerable
      BY <1>a, <2>1, <3>1 DEF FailsOnlyWhenDisturbed
    <3>2. CASE ~Answerable /\ ctx = "live" /\ changes = 0
      <4>1. path \in reported /\ Len(path) = 2 /\ path[2] \notin Schemas(path[1])
        BY <1>1, <2>1, <3>2 DEF Answerable, Walking
      <4>2. ~ \E o \in Objects : o[1] = path[1] /\ o[2] = path[2]
        BY <1>1, <3>2, <4>1 DEF Schemas
      <4>3. AskedElsewhere(path[1])
        BY <3>2, <4>1, <4>2 DEF FailInv
      <4> QED
        BY <2>1, <2>2, <4>3 DEF FailsOnlyWhenDisturbed
    <3>3. CASE ctx # "live" \/ changes # 0
      BY <1>1, <1>a, <2>1, <3>3 DEF FailsOnlyWhenDisturbed
    <3> QED
      BY <3>1, <3>2, <3>3
  <2> QED
    BY <1>a, <2>1, <2>2, <2>3 DEF FailInv
<1>8. CASE ListColumns
  <2>1. /\ UNCHANGED <<inputs, ctx, changes, failed, failures>>
        /\ outcome' # "error" /\ pc = "columns"
    BY <1>1, <1>8 DEF ListColumns, Answer, Ask, world
  <2>2. ASSUME NEW p \in reported' \ reported PROVE Len(p) = 4
    <3>1. PICK col \in Columns : p = Append(path, col)
      BY <1>8, <2>2 DEF ListColumns
    <3>2. col \in Names /\ path \in Paths /\ Len(path) = 3
      BY <1>1, <2>1 DEF Names, Walking
    <3> QED
      <4>1. Len(Append(path, col)) = Len(path) + 1
        BY <3>2, Appended
      <4> QED
        BY <3>1, <3>2, <4>1
  <2> QED
    BY <1>a, <2>1, <2>2, FailInvStays
<1>9. CASE ChangeTables \/ EndContext
  <2>1. /\ UNCHANGED <<inputs, failed, failures, reported>> /\ outcome' # "error"
        /\ ctx' \in {"live", "ended"} /\ (changes' = 0 => changes = 0)
    <3>1. changes \in Nat
      BY <1>1
    <3>2. CASE ChangeTables
      BY <1>a, <3>1, <3>2 DEF ChangeTables
    <3>3. CASE EndContext
      BY <1>a, <3>1, <3>3 DEF EndContext
    <3> QED
      BY <1>9, <3>2, <3>3
  <2> QED
    BY <1>a, <2>1, FailInvStays
<1>10. CASE UNCHANGED vars
  <2>1. \A c : AskedElsewhere(c)' <=> AskedElsewhere(c)
    BY <1>10 DEF vars, inputs, AskedElsewhere
  <2> QED
    BY <1>10, <2>1 DEF vars, world, FailInv, FailsOnlyWhenDisturbed
<1> QED
  BY <1>2, <1>3, <1>4, <1>5, <1>6, <1>7, <1>8, <1>9, <1>10 DEF Next, Walk

\* The call fails only by SHOW TABLES of a schema, and only when something came
\* between: for any objects and filters an undisturbed walk, on a server that
\* lists each catalog's own schemas, succeeds.
THEOREM OnlyDisturbedFails == Spec => []FailsOnlyWhenDisturbed
<1>1. Init => FailInv
  <2> SUFFICES ASSUME Init PROVE FailInv
    OBVIOUS
  <2>1. reported = {} /\ outcome = "none" /\ ctx = "live" /\ failures = 0
    BY DEF Init
  <2> QED
    BY <2>1 DEF FailInv, FailsOnlyWhenDisturbed
<1>2. IInv /\ FailInv /\ [Next]_vars => FailInv'
  BY FailInvKept
<1>3. FailInv => FailsOnlyWhenDisturbed
  BY DEF FailInv
<1> QED
  BY <1>1, <1>2, <1>3, InvHolds, PTL DEF Spec

\* An object is missing from an OK result only below a question that failed,
\* and only where the answer used instead does not have it.
THEOREM FailuresHideTheirBranch == Spec => []OnlyFailuresHide
<1>1. ASSUME IInv PROVE OnlyFailuresHide
  <2> SUFFICES ASSUME outcome = "ok", changes = 0,
                      NEW p \in Expected(tables) \ reported
               PROVE  \E f \in failed : Excuses(f, p)
    BY DEF OnlyFailuresHide
  <2>1. /\ tables = Objects /\ \A f \in failed : f[2] \in Paths
        /\ pc = "done" /\ todo = {}
    BY <1>1 DEF IInv, Typed, PlacesOK
  <2>2. p \in Expected(Objects) /\ p \in Paths
    BY <2>1, ExpectedIsShaped
  <2>3. Covered(p) /\ Pending = {} /\ pc # "catalogs"
    BY <1>1, <2>1, <2>2 DEF IInv, AllCovered, Walking, Pending
  <2>4. PICK f \in failed : Excused(f, p)
    BY <2>3 DEF Covered
  <2>5. f[2] \in Paths /\ Len(f[2]) < Len(p) /\ \A i \in 1..Len(f[2]) : f[2][i] = p[i]
    BY <2>1, <2>4 DEF Excused, Above
  <2>6. f[2] = Prefix(p, Len(f[2]))
    <3>1. Len(f[2]) \in 0..Len(p)
      BY <2>2, <2>5, LenProperties DEF Paths
    <3> QED
      BY <2>2, <2>5, <3>1, IsPrefixOf
  <2> QED
    BY <2>4, <2>5, <2>6 DEF Excused, Excuses
<1> QED
  BY <1>1, InvHolds, PTL

\* When nothing failed or changed, the result is what the filters let through,
\* down to the depth: no more and no less.
THEOREM WalkIsComplete == Spec => []Complete
<1>1. ASSUME IInv, OnlyFailuresHide PROVE Complete
  <2> SUFFICES ASSUME outcome = "ok", failed = {}, changes = 0,
                      catalog.matches \subseteq Catalogs
               PROVE  reported = Expected(tables)
    BY DEF Complete
  <2>1. tables = Objects
    BY <1>1 DEF IInv, Typed
  <2>2. Expected(tables) \subseteq reported
    BY <1>1 DEF OnlyFailuresHide
  <2>3. ASSUME NEW p \in reported PROVE p \in Expected(Objects)
    <3>1. p \in Paths /\ Shaped(p)
      BY <1>1 DEF IInv, Sound, AllExpected
    <3> QED
      BY <3>1, ShapedIsExpected
  <2> QED
    BY <2>1, <2>2, <2>3
<1> QED
  BY <1>1, InvHolds, FailuresHideTheirBranch, PTL

=============================================================================
