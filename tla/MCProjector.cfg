\* One captions projector whose link fails and whose page is reloaded.
CONSTANTS
  Texts <- MCTexts
  Langs = {"en"}
  Backlog = 0
  CardBound = 4
  HistoryLimit = 2
  MaxCards = 2
  MaxSeq = 5
SPECIFICATION FairSpec
INVARIANTS NeverAGap ScreenAgrees
PROPERTIES EveryFrameArrives
\* The bounded run ends when the last numbered frame has been delivered.
CHECK_DEADLOCK FALSE
