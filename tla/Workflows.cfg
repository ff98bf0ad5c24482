\* Two departments and two iterations; estimates at every tier boundary; three
\* pieces of text; two conversations that confirm the same fact.
SPECIFICATION MCSpec
CONSTANTS
  Departments = {warehouse, lastmile}
  MaxIterations = 2
  Volumes = {0, 1, 8, 9, 25, 92, 999, 1000, 1001, 4999, 5000, 19999, 20000, 20001}
  MaxReply = 6
  HexDigits = 2
  MaxPieces = 3
  Conversations = {c1, c2}
  Proposals = {p1, p2}
  DecisionIds = {i1, i2}
  Turns = {t1, t2}
  Deciders = {r1, r2}
  Subjects = {s1}
  Texts = {before, after}
INVARIANTS
    QuoteIsPublished
  ShownIsTheAnswer OnlyGuardedText DecisionsCountOnce
\* A ticket, a run and a decision end.
CHECK_DEADLOCK FALSE
