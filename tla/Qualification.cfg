\* Two sessions of a customer, one after another, two handlers at a time, keys for
\* the presses of both sessions.
SPECIFICATION Spec
CONSTANTS
  Cases = {}
  Calls = {}
  Sessions = {s1, s2}
  Asks = {}
  Messages = {m1, m2}
  Presses = {p1, p2, p3, p4}
  Fields = {1, 2}
  Required = {2}
  Alarming = {}
  Leads = {l1, l2}
  Handlers = {h1, h2}
  Nil = Nil
SYMMETRY Symmetry
INVARIANTS TypeOK OneActiveSession ConsentComesFirst MessageAnswersOnce OneOpenLead WorkflowIsActive
\* Keys and rows run out.
CHECK_DEADLOCK FALSE
