CONSTANTS
  Offers <- AllOffers
  LocalCands <- Found
  Trickled <- TrickledLines
  MaxLocal = 1
  MaxRemote = 2
SPECIFICATION Spec
INVARIANTS CandidatesCredentialed FeedbackComplete PayloadTypesAgree PayloadListReadable AnswerReadsBack
