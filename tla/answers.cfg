SPECIFICATION FairSpec
CONSTANTS
  a1 = a1
  w1 = w1
  p1 = p1
  Script <- MCScript
  Answerers = {a1}
  Watchers = {w1}
  Posters = {p1}
  Answers <- MCAnswers
  PaneAnswers <- MCPaneAnswers
  MaxTouches = 1
  MaxEnds = 1
CHECK_DEADLOCK FALSE
INVARIANTS TypeOK LandsAsChosen RightQuestion SeenWhileUp
PROPERTIES AnsweredGoes
