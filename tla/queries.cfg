CONSTANTS
  Catalog <- MCCatalog
  Expr <- MCExpr
  Depth <- MCDepth
  Databases <- MCDatabases
  Queries <- MCQueries
SPECIFICATION Spec
INVARIANTS TypeOK AnswersRight ErrorsJustified SchemaDescribesRows
PROPERTIES CallsReturn
