SPECIFICATION Spec
CONSTANTS
  c1 = c1
  c2 = c2
  o1 = o1
  o2 = o2
  q1 = q1
  q2 = q2
  w1 = w1
  w2 = w2
  Nobody = Nobody
  Challenges <- MCChallenges
  Connecting <- MCConnecting
  Owners <- MCOwners
  Codes <- MCCodes
  Claims <- MCClaims
  Conns <- MCConns
  MaxAttempts = 1
SYMMETRY MCSymmetry
INVARIANTS
  SingleDelivery
  BoundCanConnect
  RevokedIsCut
CHECK_DEADLOCK FALSE
