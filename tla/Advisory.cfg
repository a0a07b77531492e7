\* Two documents beside a text; two tasks with batches of one, and a model that
\* changes twice, so that a task may be older than the last change.
SPECIFICATION FairSpec
CONSTANTS
  Documents = {1, 2}
  Sources = {s1, s2}
  Editors = {e1}
  Workers = {w1, w2}
  BatchSize = 1
  MaxModel = 3
  Nil = Nil
  Texts = {t1}
  MaxRetries = 1
INVARIANTS RecordTellsTheOutcome
PROPERTIES ReindexConverges EveryHandlingEnds
\* Documents run out.
CHECK_DEADLOCK FALSE
