\* One new organisation, one of before, two users, two cases, two requests at once.
SPECIFICATION Spec
CONSTANTS
  Orgs = {o1}
  Others = {x}
  Slugs = {s1}
  Users = {u1, u2}
  Cases = {c1, c2}
  Workers = {w1, w2}
  Rulings = {"suspended"}
  Nothing = Nothing
SYMMETRY Symmetry
INVARIANTS TypeOK WholeOrg LinkByOwner CasesOverlap StatusIsKept NothingUnseen
CHECK_DEADLOCK FALSE
