SPECIFICATION MCSpec
CONSTANTS
  Users = {a, b}
  Root = a
  NoOne = NoOne
  Sessions = {s1, s2, s3}
  Resets = {r1, r2}
  Inactive = {"disabled"}
  MaxPasswords = 1
  Clients = {"app", "agent", "server"}
  Meta <- MCMeta
  Asked <- MCAsked
  Codes = {x1}
  Admins = {a}
  Presented <- MCAsked
  Calls = {k1, k2}
  Tickets = {t1, t2}
  MaxTokens = 2
  SessionLife = 1
  OAuthLife = 1
  MaxIssued = 2
  MaxTime = 4
INVARIANTS
  AdminRemains CredentialsAreRightful
  TokensAreEarned CallsAreHonest ServedAsEntitled
CHECK_DEADLOCK FALSE
