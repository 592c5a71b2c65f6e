SPECIFICATION FairSpec
CONSTANTS
  NoRow = NoRow
  Slot = {r1, r2}
  Body = {b1, b2}
INVARIANTS AnswerIsFinal OneSessionUnlessSlipped
PROPERTY KeyStaysUsable
