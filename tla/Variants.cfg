CONSTANTS
  RemoteSdps <- VariantSdps
  Roles = {"answerer"}
  Trickle = {FALSE}
  SslOutcomes <- SslKeyed
SPECIFICATION Spec
INVARIANTS ReadyMeansAllKeyed AnswererCandidatesReachIce
PROPERTY GlobalStateAdvances
