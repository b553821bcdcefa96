--------------------------- MODULE MCRateLimiter ---------------------------
(* Policies for the instances of RateLimiter that TLC checks. *)
EXTENDS RateLimiter

CONSTANTS GET, POST

MethodSet == {GET, POST}
TokensPerIp == [limit |-> 2, windowMs |-> 3, algorithm |-> "token-bucket", scope |-> "ip"]
WindowPerUser == [limit |-> 2, windowMs |-> 3, algorithm |-> "sliding-window", scope |-> "user"]
ExpensivePerUser == [limit |-> 1, windowMs |-> 2, algorithm |-> "sliding-window", scope |-> "user"]
CheapTokens == [limit |-> 2, windowMs |-> 4, algorithm |-> "token-bucket", scope |-> "user"]
ExpensiveTokens == [limit |-> 1, windowMs |-> 4, algorithm |-> "token-bucket", scope |-> "user"]

On(methods, policy) == [methods |-> methods, policy |-> policy]
OnlyPostLimited == <<On({POST}, ExpensivePerUser)>>
\* A selector with a method before one without.
BothLimited == <<On({POST}, ExpensiveTokens), On(MethodSet, CheapTokens)>>
=============================================================================
