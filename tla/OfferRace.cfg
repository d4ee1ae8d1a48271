CONSTANTS
  RemoteSdps <- BundleSdps
  Roles = {"offerer"}
  Trickle = {FALSE}
  SslOutcomes <- SslShort
SPECIFICATION Spec
INVARIANT CandidatesReachIce
