SPECIFICATION AuthSpec
CONSTANTS
  Handlers = {h1, h2}
  MaxLogins = 3
  Emails = {e1, e2}
  Subs = {s1, s2}
  NoSub = NoSub
  Requests = {r1, r2}
  MaxKeys = 3
SYMMETRY AuthSymmetry
CONSTRAINT SessionsOfOneUser
INVARIANTS OverlapBoundsExchanges LoggedOutHasNoToken OneRowEach
PROPERTIES SpentStaysSpent RevokedNotAccepted KeysStayDead
