----------------------------- MODULE MCGetObjects -----------------------------
(* Two catalogs that share a schema name and have one of their own each, a *)
(* temporary view, and filters that match a part of each level.            *)
EXTENDS GetObjects

MCCatalogs == {"spark_catalog", "lake"}
MCObjects  == {<<"spark_catalog", "db", "t">>, <<"spark_catalog", "db", "v">>,
               <<"spark_catalog", "tmp", "t">>, <<"lake", "db", "t">>,
               <<"lake", "own", "t">>}
MCTemporary == {<<"spark_catalog", "db", "v">>}
MCFilters ==
    {[exact |-> FALSE, matches |-> MCCatalogs],
     [exact |-> FALSE, matches |-> {"lake"}],
     [exact |-> TRUE, matches |-> {"lake"}],
     [exact |-> TRUE, matches |-> {"nope"}]}
MCEveryCatalog == {[exact |-> FALSE, matches |-> MCCatalogs]}

=============================================================================
