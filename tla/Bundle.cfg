CONSTANTS
  RemoteSdps <- BundleSdps
  Roles = {"offerer", "answerer"}
  Trickle = {TRUE, FALSE}
  SslOutcomes <- SslAll
SPECIFICATION FairSpec
INVARIANTS TypeOK NoSilentFailure
PROPERTIES FailureReachesConnection DestructorReturns
