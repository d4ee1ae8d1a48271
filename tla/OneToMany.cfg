CONSTANTS
  Peers = {1, 2}
  Conns = {1, 2}
  Descriptions <- SomeDescriptions
  Feedback <- SomeFeedback
  Rates = {1}
  MaxPackets = 2
SPECIFICATION FairSpec
INVARIANTS EverySubscriberGetsAll UnsafeOnlyWhenClosing FeedbackFindsSource FeedbackIsOurs
PROPERTY CallsReturn
