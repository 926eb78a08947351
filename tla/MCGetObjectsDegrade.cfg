SPECIFICATION Spec
CONSTANTS
    Catalogs <- MCCatalogs
    Default = "spark_catalog"
    Objects <- MCObjects
    Temporary <- MCTemporary
    Columns = {"a", "b"}
    CatalogFilters <- MCEveryCatalog
    SchemaFilter = {"db", "own"}
    TableFilter = {"t", "v"}
    ColumnFilter = {"a"}
    Types = {"TABLE"}
    MaxChanges = 0
    MaxFailures = 0
INVARIANTS DegradesToNoSchemas
CHECK_DEADLOCK FALSE
