SPECIFICATION FairSpec
CONSTANTS
  RagEnabled = {TRUE, FALSE}
  Overloaded = {TRUE, FALSE}
INVARIANTS CleanMeansComplete QaReviewsDeliveredText TraceNamesTheAuthor 
PROPERTIES RunEnds
