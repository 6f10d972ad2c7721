\* The translate queue with late, failed and overtaken answers.
CONSTANTS
  Texts = {"a"}
  Langs = {"en", "de"}
  DstLangs <- MCDstLangs
  MaxInflight = 2
  MaxSpeculations = 1
  Backlog = 1
  CardBound = 3
SPECIFICATION TranslateFairSpec
INVARIANTS CommitsAreTranslated
PROPERTIES QueueDrains
\* A closed session stops.
CHECK_DEADLOCK FALSE
