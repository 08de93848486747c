\* Two pages of a browser, losses, one end of all sessions; a token per request.
SPECIFICATION FairSpec
CONSTANTS
  Browser = {b1}
  Tab = {p1, p2}
  BrowserOf <- OneBrowser
  Token = {t1, t2, t3}
  Request = {r1, r2, r3}
  MaxEnds = 1
  Lossy = TRUE
  None = None
INVARIANTS
  OldTokensDead
  CookieStaysGood
PROPERTIES
  DeadFamiliesStayDead
  RefreshesSettle
\* The tokens and requests of the instance run out.
CHECK_DEADLOCK FALSE
