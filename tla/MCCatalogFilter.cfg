\* One server that never changes and whose HTTP listing gives t1 a category.
SPECIFICATION FairSpec
CONSTANTS
  Server = {s1}
  Tool = {t1, t2}
  Tagged = {t1}
  Offers = {{t1, t2}}
  Project = {p1}
  Request = {r1, r2}
  MaxOps = 0
  None = None
PROPERTY
  FullListIsFull
