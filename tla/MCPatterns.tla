----------------------------- MODULE MCPatterns -----------------------------
(* Small instances of Patterns: c1 is of tenant A, c2 has no tenant and a  *)
(* session id that is also the name of tenant A.                           *)
EXTENDS Patterns, TLC

CONSTANTS c1, c2

MCTenant  == [c \in Calls |-> IF c = c2 THEN NoTenant ELSE "A"]
MCSession == [c \in Calls |-> IF c = c2 THEN "A" ELSE "s"]

Inj == [kind |-> "inject"]
Red == [kind |-> "redact"]
Blk == [kind |-> "block_if"]
Req(ids) == [kind |-> "require_tenant", allowed |-> ids]
Try(attempts) == [kind |-> "retry", attempts |-> attempts, backoff |-> 1]
Lim(limit, ticks, per, exceeded) ==
    [kind |-> "rate_limit", limit |-> limit, window |-> ticks,
     per |-> per, exceeded |-> exceeded]

(* The limiter inside retry, outside of it; guards and edits inside retry; *)
(* no attempt allowed; each decorator several times, a retry in a retry    *)
(* and a limiter at either.                                                *)
MCHooks ==
    { <<Inj, Try(3), Lim(2, 2, "tenant", "block"), Red>>,
      <<Red, Lim(1, 2, "tenant", "degrade"), Try(2), Inj>>,
      <<Req({"A"}), Try(3), Blk, Inj>>,
      <<Lim(1, 2, "session", "block"), Try(0)>>,
      <<Lim(1, 2, "tenant", "degrade"), Inj, Try(2), Inj, Try(2), Lim(3, 1, "session", "block"), Red>> }

RetryHooks == { <<Try(2)>> }
=============================================================================
