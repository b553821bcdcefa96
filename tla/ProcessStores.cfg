SPECIFICATION StoresSpec
CONSTANTS
  Keys = {k1, k2, k3, k4}
  MaxKeys = 3
  MaxTtl = 2
  Stakers = {s1, s2}
  astr = astr
  Assets = {astr, other}
  Rates <- MCRates
  MaxAmount = 2
  MaxTerm = 2
  MaxItems = 2
  MaxStakes = 3
  GET = GET
  POST = POST
  Methods <- MethodSet
  NoUser = NoUser
  NoPolicy = NoPolicy
  Ips = {ip1}
  Users = {u1, u2}
  IpPolicy <- TokensPerIp
  UserPolicy <- WindowPerUser
  Endpoints <- OnlyPostLimited
  Whitelist = {u2}
  Second = 2
  MaxIdle = 3
  MaxTime = 4
  Uploads = {f1}
  NumParts = 2
  Connections = {c1, c2, c3}
  MaxSends = 4
  MaxCompletes = 2
  Scalars <- MCScalars
  FieldNames <- MCFieldNames
  Bodies <- MCBodies
  MaxBodies = 3
  Jobs = {j1, j2}
  Retries = {0, 1}
  DefaultRetries = 3
  MaxStalled = 1
INVARIANTS PortfoliosRight LimitsRight UploadsRight CacheTellsApart RunsBounded StatusTellsEffects
PROPERTIES ReadsProtect CancelSticks DefaultJobsEnd
