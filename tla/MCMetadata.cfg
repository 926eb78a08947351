SPECIFICATION MetadataSpec
CONSTANTS
    Catalogs <- MCCatalogs
    Default = "spark_catalog"
    Objects <- MCObjects
    Temporary <- MCTemporary
    Columns = {"a", "b"}
    CatalogFilters <- MCFilters
    SchemaFilter = {"db", "own"}
    TableFilter = {"t", "v"}
    ColumnFilter = {"a"}
    Types = {"TABLE"}
    MaxChanges = 2
    MaxFailures = 1
    Patterns <- MCPatterns
    Names <- MCNames
    FoldOrbits <- MCFoldOrbits
    AsciiOrbits <- MCAsciiOrbits
    AlphaNum <- MCAlphaNum
    Ascii <- MCAscii
INVARIANTS Complete OnlyFailuresHide FailsOnlyWhenDisturbed FiltersHold
    IndicesInRange DecidesLike ClauseOnlyNarrows
PROPERTIES Terminates
CHECK_DEADLOCK FALSE
