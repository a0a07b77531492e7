\* A customer and the one that follows, two requests, two rows.
SPECIFICATION Spec
CONSTANTS
  Customers = {c1, c2}
  Conversations = {v1, v2, v3}
  Rows = {r1, r2}
  Requests = {q1, q2}
  Nil = Nil
SYMMETRY Symmetry
PROPERTIES AnonymizationLeavesNothing EmptiedDraftsStayEmpty
