SPECIFICATION LimiterSpec
CONSTANTS
  GET = GET
  POST = POST
  Methods <- MethodSet
  NoUser = NoUser
  NoPolicy = NoPolicy
  Ips = {ip1}
  Users = {u1}
  IpPolicy <- TokensPerIp
  UserPolicy <- WindowPerUser
  Endpoints <- BothLimited
  Whitelist = {}
  Second = 2
  MaxIdle = 4
  MaxTime = 4
INVARIANTS BurstLimit
