------------------------------ MODULE GetObjects ------------------------------
(***************************************************************************)
(* Connection.GetObjects (driver/spark/objects.go): a walk over catalogs,  *)
(* schemas, tables and columns that asks the server once for every node    *)
(* above the wanted depth and nests the answers.                           *)
(*                                                                         *)
(* Between two questions the server's objects change, the caller's context *)
(* may end, and any question may fail: for good, where the server does not *)
(* support it, or this time only.                                          *)
(*                                                                         *)
(* A name filter is the set of names it matches; LikeMatch shows that the  *)
(* clause sent to Spark drops none of them.  A reported object is the path *)
(* to it, <<catalog, schema, table, column>>, as deep as it goes.          *)
(***************************************************************************)
EXTENDS Integers, Sequences, FiniteSets

CONSTANTS
    Catalogs,       \* the server's catalogs
    Default,        \* "spark_catalog", the session catalog
    Objects,        \* paths of the tables that may exist
    Temporary,      \* those of them that are temporary views
    Columns,        \* the columns of every table
    CatalogFilters, \* what the caller may ask for: see IsExact
    SchemaFilter, TableFilter, ColumnFilter,
    Types,          \* table types asked for, or {} for all
    MaxChanges,     \* bound: changes of the server's objects
    MaxFailures     \* bound: questions that fail this time only

ASSUME ObjectBounds == MaxChanges \in Nat /\ MaxFailures \in Nat
ASSUME DefaultIsCatalog == Default \in Catalogs
ASSUME ObjectPaths ==
    \A o \in Objects : o = <<o[1], o[2], o[3]>> /\ o[1] \in Catalogs

VARIABLES
    depth,        \* 1 catalogs, 2 schemas, 3 tables, 4 columns
    catalog,      \* the caller's catalog filter
    current,      \* the current catalog of the connection
    unsupported,  \* what the server does not support: "catalogs", and
                  \* "namespaces in" the session catalog
    tables,       \* the tables that exist
    ctx,          \* "live", "ended"
    pc,           \* the question at hand, "walk" between two, "done"
    todo,         \* paths listed whose children are still to be asked for
    path,         \* the one whose children are asked for
    reported,     \* the paths appended so far
    outcome,      \* "none", "ok", "error"
    failed,       \* the questions that failed, with their paths
    failures, changes

world  == <<tables, ctx, changes>>
inputs == <<depth, catalog, current, unsupported>>
vars == <<inputs, world, pc, todo, path, reported, outcome, failed, failures>>

Questions == {"catalogs", "namespaces in", "namespaces", "tables", "columns"}

\* A filter without wildcards names one catalog, which is not looked up.
IsExact(f) == f.exact
Matched(f, names) == names \cap f.matches

Schemas(c)   == {o[2] : o \in {o \in tables : o[1] = c}}
Tables(c, s) == {o \in tables : o[1] = c /\ o[2] = s}

TypeOf(o) == IF o \in Temporary THEN "TEMPORARY" ELSE "TABLE"
tableTypeAllowed(o) == Types = {} \/ TypeOf(o) \in Types

Init ==
    /\ depth \in 1..4 /\ catalog \in CatalogFilters /\ current \in Catalogs
    /\ unsupported \in SUBSET {"catalogs", "namespaces in"}
    /\ tables = Objects /\ ctx = "live" /\ changes = 0
    /\ pc = "catalogs" /\ todo = {} /\ path = <<>> /\ reported = {}
    /\ outcome = "none" /\ failed = {} /\ failures = 0

-----------------------------------------------------------------------------
(* The server and the caller's context.                                    *)

ChangeTables == \E o \in Objects :
    /\ changes < MaxChanges /\ outcome = "none"
    /\ changes' = changes + 1
    /\ tables' = IF o \in tables THEN tables \ {o} ELSE tables \cup {o}
    /\ UNCHANGED <<inputs, ctx, pc, todo, path, reported, outcome, failed,
                   failures>>

EndContext ==
    /\ ctx = "live" /\ outcome = "none"
    /\ ctx' = "ended"
    /\ UNCHANGED <<inputs, tables, changes, pc, todo, path, reported, outcome,
                   failed, failures>>

\* What cannot be answered: the path names nothing, the server has no such
\* command, or the context has ended.
Answerable ==
    /\ ctx = "live"
    /\ pc = "catalogs" => pc \notin unsupported
    /\ pc = "namespaces in" =>
           path[1] \in Catalogs \ (IF pc \in unsupported THEN {Default} ELSE {})
    /\ pc = "tables" => path[2] \in Schemas(path[1])
    /\ pc = "columns" => path \in tables

Ask(q)   == pc = q /\ UNCHANGED <<inputs, world>>
Answer(q) == Ask(q) /\ Answerable /\ UNCHANGED <<failed, failures>>
Failure(q) ==
    /\ Ask(q)
    /\ IF Answerable THEN failures < MaxFailures /\ failures' = failures + 1
                     ELSE UNCHANGED failures
    /\ failed' = failed \cup {<<q, path>>}

\* Append objects; the children of those above the depth are asked for later.
Report(objects) ==
    /\ reported' = reported \cup objects
    /\ todo' = todo \cup {o \in objects : Len(o) < depth}

-----------------------------------------------------------------------------
(* listCatalogs.                                                           *)

ListExactCatalog ==
    /\ Ask("catalogs") /\ IsExact(catalog)
    /\ Report({<<c>> : c \in catalog.matches})
    /\ pc' = "walk"
    /\ UNCHANGED <<path, outcome, failed, failures>>

ListCatalogs ==
    /\ Answer("catalogs") /\ ~IsExact(catalog)
    /\ Report({<<c>> : c \in Matched(catalog, Catalogs)})
    /\ pc' = "walk"
    /\ UNCHANGED <<path, outcome>>

\* Any error: the default catalog, whatever the filter.
ListDefaultCatalog ==
    /\ Failure("catalogs") /\ ~IsExact(catalog)
    /\ Report({<<Default>>})
    /\ pc' = "walk"
    /\ UNCHANGED <<path, outcome>>

-----------------------------------------------------------------------------
(* The walk.                                                               *)

\* Mutant: the tables of a schema are left out of the walk.
VisitOnce ==
    /\ pc = "walk"
    /\ \E p \in todo :
          /\ path' = p /\ todo' = {q \in todo : Len(q) < Len(p)}
          /\ pc' = <<"namespaces in", "tables", "columns">>[Len(p)]
    /\ UNCHANGED <<inputs, world, reported, outcome, failed, failures>>

\* The next node to ask about: depth first, in whatever order the server
\* listed the siblings.
Visit ==
    /\ pc = "walk"
    /\ \E p \in todo :
          /\ \A q \in todo : Len(q) <= Len(p)
          /\ path' = p /\ todo' = todo \ {p}
          /\ pc' = <<"namespaces in", "tables", "columns">>[Len(p)]
    /\ UNCHANGED <<inputs, world, reported, outcome, failed, failures>>

Finish ==
    /\ pc = "walk" /\ todo = {}
    /\ pc' = "done" /\ outcome' = "ok"
    /\ UNCHANGED <<inputs, world, todo, path, reported, failed, failures>>

\* Mutant: the names are not matched on the client.
ListAllSchemas ==
    /\ Answer("namespaces in") \/ Answer("namespaces")
    /\ Report({<<path[1], s>> : s \in
           Schemas(IF pc = "namespaces" THEN current ELSE path[1])})
    /\ pc' = "walk"
    /\ UNCHANGED <<path, outcome>>

\* listSchemas: of the catalog, or else of the current catalog.
ListSchemas ==
    /\ Answer("namespaces in") \/ Answer("namespaces")
    /\ LET listed == Schemas(IF pc = "namespaces" THEN current ELSE path[1]) IN
          Report({<<path[1], s>> : s \in listed \cap SchemaFilter})
    /\ pc' = "walk"
    /\ UNCHANGED <<path, outcome>>

FallBack ==
    /\ Failure("namespaces in")
    /\ pc' = "namespaces"
    /\ UNCHANGED <<todo, path, reported, outcome>>

\* Neither form works: a catalog without schemas.
NoSchemas ==
    /\ Failure("namespaces")
    /\ pc' = "walk"
    /\ UNCHANGED <<todo, path, reported, outcome>>

\* listTables and the filter on table types.
ListTables ==
    /\ Answer("tables")
    /\ Report({o \in Tables(path[1], path[2]) :
                   o[3] \in TableFilter /\ tableTypeAllowed(o)})
    /\ pc' = "walk"
    /\ UNCHANGED <<path, outcome>>

\* An error of SHOW TABLES is the error of the call.
FailTables ==
    /\ Failure("tables")
    /\ pc' = "done" /\ outcome' = "error"
    /\ UNCHANGED <<todo, path, reported>>

\* appendColumns: SchemaOf of the table, then the filter.
ListColumns ==
    /\ Answer("columns")
    /\ reported' = reported \cup
           {Append(path, col) : col \in Columns \cap ColumnFilter}
    /\ pc' = "walk"
    /\ UNCHANGED <<todo, path, outcome>>

\* Mutant: the error is returned.
FailColumns ==
    /\ Failure("columns")
    /\ pc' = "done" /\ outcome' = "error"
    /\ UNCHANGED <<todo, path, reported>>

\* The table stays, without columns.
SkipColumns ==
    /\ Failure("columns")
    /\ pc' = "walk"
    /\ UNCHANGED <<todo, path, reported, outcome>>

-----------------------------------------------------------------------------

Walk ==
    \/ ListExactCatalog \/ ListCatalogs \/ ListDefaultCatalog
    \/ Visit \/ Finish
    \/ ListSchemas \/ FallBack \/ NoSchemas
    \/ ListTables \/ FailTables \/ ListColumns \/ SkipColumns

Next == Walk \/ ChangeTables \/ EndContext

Spec == Init /\ [][Next]_vars

-----------------------------------------------------------------------------
(* Properties.                                                             *)

Prefix(p, n) == SubSeq(p, 1, n)

TypeOK ==
    /\ depth \in 1..4 /\ catalog \in CatalogFilters /\ current \in Catalogs
    /\ unsupported \subseteq Questions /\ tables \subseteq Objects
    /\ ctx \in {"live", "ended"}
    /\ pc \in Questions \cup {"walk", "done"}
    /\ \A p \in todo : p \in reported /\ Len(p) < depth
    /\ \A p \in reported : Len(p) \in 1..depth
    /\ outcome \in {"none", "ok", "error"}
    /\ failures \in 0..MaxFailures /\ changes \in 0..MaxChanges

\* What GetObjects should find of the objects `ts`: every level filtered.
Expected(ts) ==
    LET cats == {<<c>> : c \in Matched(catalog, Catalogs)}
        wanted == {o \in ts : /\ o[1] \in catalog.matches
                              /\ o[2] \in SchemaFilter}
        full == {o \in wanted : o[3] \in TableFilter /\ tableTypeAllowed(o)}
    IN {p \in cats \cup {Prefix(o, 2) : o \in wanted} \cup full
              \cup {Append(o, col) : o \in full, col \in Columns \cap ColumnFilter}
          : Len(p) <= depth}

\* When nothing failed and nothing changed, the call reports exactly the
\* objects that pass the filters, down to the depth asked for.
Complete ==
    outcome = "ok" /\ failed = {} /\ changes = 0
    /\ catalog.matches \subseteq Catalogs
        => reported = Expected(tables)

\* Whether a question that failed may cost the result the object p: it was
\* about something above p, and the answer used instead is of another place.
Excuses(f, p) ==
    /\ Len(f[2]) < Len(p) /\ f[2] = Prefix(p, Len(f[2]))
    /\ f[1] = "catalogs" => p[1] # Default
    /\ f[1] = "namespaces in" => p[1] # current

\* An OK result lacks an object only for a reason: something above it could
\* not be asked for, and the fallback did not cover it.  No failure hides
\* another branch of the walk.
OnlyFailuresHide ==
    outcome = "ok" /\ changes = 0 =>
        \A p \in Expected(tables) \ reported : \E f \in failed : Excuses(f, p)

\* SHOW NAMESPACES IN the catalog failed, and the schemas of the current
\* catalog, another one, were taken for its own.
AskedElsewhere(c) ==
    c # current /\ \E f \in failed : f[1] = "namespaces in" /\ f[2] = <<c>>

\* GetObjects fails by SHOW TABLES of one schema, and not of itself: the
\* caller's context ended, a question failed this time only, the objects
\* changed meanwhile, or the schema is one of another catalog.
FailsOnlyWhenDisturbed ==
    outcome = "error" =>
        /\ <<"tables", path>> \in failed
        /\ \/ ctx = "ended" \/ failures > 0 \/ changes > 0
           \/ AskedElsewhere(path[1])

\* "Fall back to listing namespaces in the current catalog, then degrade to no
\* schemas rather than failing the whole GetObjects call" (objects.go): a
\* server that cannot list a catalog's namespaces does not fail the call.
DegradesToNoSchemas ==
    outcome = "error" /\ ctx = "live" /\ changes = 0 /\ failures = 0 =>
        ~ \E f \in failed : f[1] = "namespaces in" /\ f[2] = <<path[1]>>

\* "Name filters are ADBC patterns [...], which are always matched on the
\* client" (objects.go): below the catalogs nothing is reported that the
\* filters exclude, whichever fallback listed it.
FiltersHold ==
    \A p \in reported :
        /\ Len(p) >= 2 => p[2] \in SchemaFilter
        /\ Len(p) >= 3 => p[3] \in TableFilter /\ tableTypeAllowed(Prefix(p, 3))
        /\ Len(p) >= 4 => p[4] \in ColumnFilter

=============================================================================
