SPECIFICATION FairSpec
CONSTANTS
  None = None
  Torn = Torn
  k1 = k1
  k2 = k2
  s1 = s1
  g1 = g1
  g2 = g2
  c1 = c1
  Keys <- MCKeys
  Signers <- MCSigners
  Generators <- MCGenerators
  Clients <- MCClients
INVARIANTS
  SignedStaysVerifiable
  RefusedWhenRenewed
PROPERTY OnlyRotationBlocks
CHECK_DEADLOCK FALSE
