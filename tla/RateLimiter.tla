----------------------------- MODULE RateLimiter -----------------------------
(***************************************************************************)
(* The rate limiter of index.ts, for one address: a counter in Redis with  *)
(* a time to live, and the in-memory counter that stands in when a Redis   *)
(* call fails.  Times are in seconds; a request is [time, redis], where    *)
(* redis says what the Redis calls of the request do:                      *)
(*   "up"      INCR and EXPIRE succeed                                     *)
(*   "down"    INCR fails                                                  *)
(*   "lost"    INCR is executed, its answer does not arrive                *)
(*   "half"    INCR succeeds, an EXPIRE after it fails                     *)
(***************************************************************************)
EXTENDS Naturals, Sequences

CONSTANT RATE_LIMIT_PER_MIN
ASSUME LimitAssumption == RATE_LIMIT_PER_MIN \in Nat \ {0}

WINDOW == 60
Never == 0     \* the expiry of a Redis key without a time to live

\* until: when the Redis key expires; t: e.t of the in-memory entry.
NoHits == [count |-> 0, until |-> 0, n |-> 0, t |-> 0]

\* No window is open: the key does not exist, or has expired.
Fresh(h, now) == h.count = 0 \/ (h.until # Never /\ now >= h.until)

\* Mutant: EXPIRE follows no INCR.
IncrOnly(h, now, expires) ==
    LET fresh == Fresh(h, now) IN
    [h EXCEPT !.count = IF fresh THEN 1 ELSE @ + 1, !.until = IF fresh THEN Never ELSE @]

\* INCR, and EXPIRE on the first of a window.
Incr(h, now, expires) ==
    LET fresh == Fresh(h, now) IN
    [h EXCEPT !.count = IF fresh THEN 1 ELSE @ + 1,
              !.until = IF ~fresh THEN @ ELSE IF expires THEN now + WINDOW ELSE Never]

\* Mutant: one request too many in each window.
InMemoryLate(h, now) ==
    IF h.t = 0 \/ now > h.t
    THEN [hits |-> [h EXCEPT !.n = 1, !.t = now + WINDOW], served |-> TRUE]
    ELSE IF h.n > RATE_LIMIT_PER_MIN THEN [hits |-> h, served |-> FALSE]
    ELSE [hits |-> [h EXCEPT !.n = @ + 1], served |-> TRUE]

\* The hits map; a request over the limit is not counted.
InMemory(h, now) ==
    IF h.t = 0 \/ now > h.t
    THEN [hits |-> [h EXCEPT !.n = 1, !.t = now + WINDOW], served |-> TRUE]
    ELSE IF h.n >= RATE_LIMIT_PER_MIN THEN [hits |-> h, served |-> FALSE]
    ELSE [hits |-> [h EXCEPT !.n = @ + 1], served |-> TRUE]

\* A Redis call that throws, INCR or the EXPIRE after a window's first INCR,
\* lets the request fall through to memory.  If INCR was executed although it
\* threw, both counters count the request, and no EXPIRE follows.
Limit(h, x) ==
    LET r == Incr(h, x.time, x.redis = "up") IN
    IF x.redis = "down" THEN InMemory(h, x.time)
    ELSE IF x.redis = "lost" \/ (x.redis = "half" /\ r.count = 1) THEN InMemory(r, x.time)
    ELSE [hits |-> r, served |-> r.count <= RATE_LIMIT_PER_MIN]

\* The counters after each request of xs, and the requests served by then.
Counters(xs) ==
    LET f[n \in 0 .. Len(xs)] ==
          IF n = 0 THEN [hits |-> NoHits, served |-> {}]
          ELSE LET a == Limit(f[n - 1].hits, xs[n])
               IN  [hits |-> a.hits,
                    served |-> f[n - 1].served \cup IF a.served THEN {n} ELSE {}]
    IN  f

Served(xs) == Counters(xs)[Len(xs)].served

=============================================================================
