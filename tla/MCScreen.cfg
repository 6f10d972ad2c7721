\* Four cards on one page, from hypotheses that agree, differ and are taken back.
CONSTANTS
  Texts = {"yes", "two", "other"}
  Langs = {}
  Backlog = 0
  MaxCards = 2
  CardBound = 4
  Words <- MCWords
  Width <- MCWidth
  Class <- MCClass
  Frames = 2
  VolatileTail = 1
  Threshold = 30
  RewriteWindow = 2
  HistoryLimit = 4
  ContextSize = 2
  SpeechLimit = 1
  MinWords = 3
  MaxChars = 10
  MaxLines = 2
SPECIFICATION ScreenSpec
INVARIANTS NewestOnAir GhostIsRevision EverySentenceSpoken
PROPERTIES SolidGivesWay
\* The bounded run ends with the last card.
CHECK_DEADLOCK FALSE
