SPECIFICATION Spec
CONSTANTS
  h1 = h1
  h2 = h2
  h3 = h3
  Host <- MCHost
  Addr = {a, b}
  Life = 1
  MaxTime = 4

PROPERTIES ExpiryIsComplete
