SPECIFICATION AuthSpec
CONSTANTS
  s1 = s1
  s2 = s2
  b1 = b1
  b2 = b2
  NoSession = NoSession
  Sessions <- MCSessions
  Browsers <- MCBrowsers
PROPERTIES
  RevokedBrowserCloses
  ClosedForCause
