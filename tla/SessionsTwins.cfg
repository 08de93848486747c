\* Expected to fail: two pages of one browser rotate the same token.
SPECIFICATION Spec
CONSTANTS
  Browser = {b1}
  Tab = {p1, p2}
  BrowserOf <- OneBrowser
  Token = {t1, t2, t3}
  Request = {r1, r2, r3}
  MaxEnds = 0
  Lossy = FALSE
  None = None
INVARIANTS
  OneLiveTokenPerFamily
CHECK_DEADLOCK FALSE
