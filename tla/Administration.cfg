\* Two members, two keys, two requests at a time.
SPECIFICATION Spec
CONSTANTS
  Members = {founder, m1}
  Founder = founder
  Credentials = {c1, c2}
  ProvisionKeys = {k1, k2}
  GrantedRoles = {"owner", "manager"}
  Rows = {"tenant", "booking"}
  Values = {v1, v2}
  Requests = {q1, q2}
  MaxVersion <- Few
  Nil = Nil
SYMMETRY Symmetry
INVARIANTS ProvisionedOnce RemovalTakesTheKeys
PROPERTIES NoLostUpdate DemotionKeepsAnOwner
\* Rows run out.
CHECK_DEADLOCK FALSE
