\* Two calls for a person, delivered again at will, beside a session that may
\* queue a case of its own, and staff that reopens cases.
SPECIFICATION Spec
CONSTANTS
  Cases = {c1, c2, c3}
  Calls = {q1, q2}
  Sessions = {s1}
  Asks = {a1, a2}
  Messages = {m1}
  Presses = {p1, p2}
  Fields = {1}
  Required = {1}
  Alarming = {m1}
  Leads = {l1}
  Handlers = {h1}
  Nil = Nil
SYMMETRY Symmetry
INVARIANTS OneRequestedCase KeyIsNew
\* Keys and rows run out.
CHECK_DEADLOCK FALSE
