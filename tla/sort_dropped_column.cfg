CONSTANTS
  Catalog <- MCCatalog
  Expr <- MCExpr
  Depth <- MCDepth
  Databases <- MCDatabases
  Queries <- ReadmeQueries
SPECIFICATION Spec
INVARIANT AnswersRight
