\* Two requests, one server whose tools come and go, one of them with a category, and
\* one project.
SPECIFICATION Spec
CONSTANTS
  Server = {s1}
  Tool = {t1, t2}
  Tagged = {t1}
  Offers = {{}, {t1}, {t1, t2}}
  Project = {p1}
  Request = {r1, r2}
  MaxOps = 2
  None = None
SYMMETRY CatalogSymmetry
INVARIANTS
  TypeOK
  OrgListFollowsTable
  RowsFollowServer
