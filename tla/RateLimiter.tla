---------------------------- MODULE RateLimiter ----------------------------
(* The per-key token bucket in front of the handlers, the address it is keyed
   by, and the client that honours its answer (internal/api/ratelimit.go,
   handleLookupBatch in internal/api/lookup.go, withRetry429 in
   plugin/app.go).  Time is in seconds and tokens are counted in the amount
   one second refills, so rate = 1 and a token is Token of these. *)
EXTENDS Naturals, Sequences

CONSTANTS Callers,        \* the addresses requests come from
          Proxies,        \* the addresses TrustedProxyCIDRs covers
          Junk,           \* a header entry that is no address
          Networks,       \* the keys of the limiter
          Addressings,    \* which networks the addresses may lie in
          Headers,        \* what a caller may write in X-Forwarded-For itself
          Routes,         \* the trusted proxies a request comes through
          Token, Budget,  \* one token, and burst in tokens
          Costs,          \* what requests may cost, in tokens
          PruneEvery,
          MaxRetry,       \* maxRetry429Attempts
          MaxTime         \* bound: seconds

Burst == Budget * Token

ASSUME LimiterConstants ==
  /\ Token \in Nat \ {0} /\ Budget \in Nat \ {0} /\ PruneEvery \in Nat \ {0}
  /\ MaxTime \in Nat /\ MaxRetry \in Nat /\ MaxRetry >= 2
  /\ Costs \subseteq Nat \ {0}
  /\ Callers \cap Proxies = {} /\ Junk \notin Callers \cup Proxies
  /\ Addressings \subseteq [Callers \cup Proxies -> Networks]
  /\ Headers \subseteq Seq(Callers \cup Proxies \cup {Junk}) /\ Routes \subseteq Seq(Proxies)

VARIABLES
  network,   \* limiterKey: an IPv4 address itself, an IPv6 address's /64
  now,
  buckets,   \* [keys seen -> tokens and the time they were worked out]
  calls,     \* AllowN calls, modulo PruneEvery
  request    \* [Callers -> the request under way]

limiterVars == <<network, now, buckets, calls, request>>

Smaller(a, b) == IF a < b THEN a ELSE b

(* ---- the address ---- *)

\* What the node sees: the last hop's address, and the header every hop but
\* the last has added the address before it to.
Arrival(c, header, route) ==
  [peer |-> IF route = <<>> THEN c ELSE route[Len(route)],
   xff  |-> IF route = <<>> THEN header
            ELSE header \o <<c>> \o SubSeq(route, 1, Len(route) - 1)]

\* A mutant of the next: the first entry from the left, which the caller writes.
ClientIP_leftmost(peer, xff) == IF peer \notin Proxies \/ xff = <<>> THEN peer ELSE xff[1]

\* clientIP: from the right, the first entry that is no trusted proxy; the
\* peer when it is not one, or when that entry is no address.
ClientIP(peer, xff) ==
  LET untrusted == {i \in DOMAIN xff : xff[i] \notin Proxies}
      first == CHOOSE i \in untrusted : \A j \in untrusted : j <= i
  IN IF peer \notin Proxies \/ xff = <<>> THEN peer
     ELSE IF untrusted = {} THEN xff[Len(xff)]
     ELSE IF xff[first] = Junk THEN peer ELSE xff[first]

ChargedKey(c, header, route) ==
  LET seen == Arrival(c, header, route) IN network[ClientIP(seen.peer, seen.xff)]

(* ---- the bucket ---- *)

\* What the bucket of k holds now: a key without one starts full.
Level(k) ==
  IF k \in DOMAIN buckets
  THEN Smaller(Burst, buckets[k].tokens + (now - buckets[k].last))
  ELSE Burst

\* A mutant of the next: the buckets are forgotten before they are full again.
Idle_short == 0

\* Long enough to have refilled completely, and a second more.
Idle == Burst + 1

Pruned ==
  [k \in {b \in DOMAIN buckets : now - buckets[b].last <= Idle} |-> buckets[k]]

\* A mutant of the next: the refill is not capped.
AllowN_uncapped(k, cost) ==
  LET tokens == IF k \in DOMAIN buckets
                THEN buckets[k].tokens + (now - buckets[k].last) ELSE Burst
      left == IF tokens >= cost THEN tokens - cost ELSE tokens
  IN /\ calls' = (calls + 1) % PruneEvery
     /\ buckets' = [b \in DOMAIN buckets \cup {k} |->
                     IF b = k THEN [tokens |-> left, last |-> now] ELSE buckets[b]]

\* AllowN: prune on every PruneEvery-th call, refill, spend all of cost or nothing.
AllowN(k, cost) ==
  LET kept == IF calls + 1 = PruneEvery THEN Pruned ELSE buckets
      tokens == IF k \in DOMAIN kept
                THEN Smaller(Burst, kept[k].tokens + (now - kept[k].last)) ELSE Burst
      left == IF tokens >= cost THEN tokens - cost ELSE tokens
  IN /\ calls' = (calls + 1) % PruneEvery
     /\ buckets' = [b \in DOMAIN kept \cup {k} |-> IF b = k THEN [tokens |-> left, last |-> now] ELSE kept[b]]

\* RetryAfterN: until the bucket holds all of cost, or is full if cost never fits.
RetryAfterN(k, cost) ==
  LET need == Smaller(Burst, cost)
  IN IF Level(k) >= need THEN 0 ELSE need - Level(k)

\* The header: whole seconds, at least one.
RetryAfterSeconds(wait) == IF wait < 1 THEN 1 ELSE wait

(* ---- the handlers and the client ---- *)

Exchanges == [pc : {"idle", "peek", "allow", "advise", "wait", "failed"},
             key : Networks, cost : {n * Token : n \in Costs \cup {1}}, batch : BOOLEAN,
             tries : 0..MaxRetry, until : Nat, promised : Nat,
             verdict : {"none", "admitted", "refused"}]

Fresh(c) == [pc |-> "idle", key |-> network[c], cost |-> Token, batch |-> FALSE,
             tries |-> 0, until |-> 0, promised |-> 0, verdict |-> "none"]

LimiterInit ==
  /\ network \in Addressings
  /\ now = 0 /\ buckets = <<>> /\ calls = 0
  /\ request = [c \in Callers |-> Fresh(c)]

Moves(c, r) == request' = [request EXCEPT ![c] = r]

\* A request of one token, or a batch charged one token an entry.
Send(c, n, batch, header, route) ==
  /\ request[c].pc = "idle" /\ (batch \/ n = 1)
  /\ Moves(c, [Fresh(c) EXCEPT !.pc = IF batch THEN "peek" ELSE "allow",
                                 !.key = ChargedKey(c, header, route),
                                 !.cost = n * Token, !.batch = batch])
  /\ UNCHANGED <<network, now, buckets, calls>>

\* The 429 and withRetry429: wait as long as told, a bounded number of times.
TurnedAway(c, wait, promised) ==
  IF request[c].tries < MaxRetry
  THEN [request[c] EXCEPT !.pc = "wait", !.verdict = "refused",
                          !.tries = @ + 1, !.promised = promised,
                          !.until = now + RetryAfterSeconds(wait)]
  ELSE [request[c] EXCEPT !.pc = "failed", !.verdict = "refused"]

\* A batch over an empty bucket is refused before its body is read.
Peek(c) ==
  /\ request[c].pc = "peek"
  /\ LET wait == RetryAfterN(request[c].key, Token)
     IN Moves(c, IF wait > 0 THEN TurnedAway(c, wait, Token)
                   ELSE [request[c] EXCEPT !.pc = "allow"])
  /\ UNCHANGED <<network, now, buckets, calls>>

\* AllowN admits the request.  What was promised to others of the key is off.
Allow(c) ==
  /\ request[c].pc = "allow"
  /\ Level(request[c].key) >= request[c].cost
  /\ AllowN(request[c].key, request[c].cost)
  /\ request' = [d \in Callers |->
       IF d = c THEN [Fresh(c) EXCEPT !.verdict = "admitted"]
       ELSE IF request[d].key = request[c].key THEN [request[d] EXCEPT !.promised = 0]
       ELSE request[d]]
  /\ UNCHANGED <<network, now>>

Deny(c) ==
  /\ request[c].pc = "allow"
  /\ Level(request[c].key) < request[c].cost
  /\ AllowN(request[c].key, request[c].cost)
  /\ Moves(c, [request[c] EXCEPT !.pc = "advise", !.verdict = "refused"])
  /\ UNCHANGED <<network, now>>

\* The wait is worked out under a second lock, after the denial.
Advise(c) ==
  /\ request[c].pc = "advise"
  /\ LET r == request[c]
     IN Moves(c, TurnedAway(c, RetryAfterN(r.key, r.cost), Smaller(Burst, r.cost)))
  /\ UNCHANGED <<network, now, buckets, calls>>

Retry(c) ==
  /\ request[c].pc = "wait" /\ now >= request[c].until
  /\ Moves(c, [request[c] EXCEPT !.pc = IF request[c].batch THEN "peek" ELSE "allow",
                                   !.verdict = "none", !.promised = 0])
  /\ UNCHANGED <<network, now, buckets, calls>>

Tick ==
  /\ now < MaxTime
  /\ now' = now + 1
  /\ UNCHANGED <<network, buckets, calls, request>>

LimiterNext ==
  \/ \E c \in Callers :
       \/ \E n \in Costs, batch \in BOOLEAN, header \in Headers, route \in Routes :
            Send(c, n, batch, header, route)
       \/ Peek(c) \/ Allow(c) \/ Deny(c) \/ Advise(c) \/ Retry(c)
  \/ Tick

LimiterSpec == LimiterInit /\ [][LimiterNext]_limiterVars

(* ---- properties ---- *)

LimiterTypeOK ==
  /\ network \in Addressings
  /\ now \in 0..MaxTime /\ calls \in 0..PruneEvery - 1
  /\ \A k \in DOMAIN buckets :
       /\ k \in Networks
       /\ buckets[k] \in [tokens : 0..Burst, last : 0..now]
  /\ request \in [Callers -> Exchanges]

\* Whatever a caller writes in the header, and whichever trusted proxies its
\* request comes through, it is charged to its own network (clientIP).
ChargedToCaller == \A c \in Callers : request[c].key = network[c]

\* A client that waits as long as it was told finds what it waited for, unless
\* another request of its network took it (RetryAfterN, setRetryAfter).
RetryIsHonest ==
  \A c \in Callers : request[c].pc = "wait" /\ now >= request[c].until =>
    Level(request[c].key) >= request[c].promised

\* A caller with its network to itself whose requests fit the budget never runs
\* out of retries (withRetry429 against AllowN and RetryAfterN).
AloneGetsThrough ==
  \A c \in Callers : request[c].pc = "failed" =>
    \/ request[c].cost > Burst
    \/ \E d \in Callers \ {c} : network[d] = network[c]

\* Forgetting idle buckets shows in no answer: the limiter is one steady budget
\* for each key (AllowN, prune).
Steady == INSTANCE TokenBudget
            WITH BudgetKeys <- Networks, BudgetCallers <- Callers, BudgetCap <- Burst,
                 BudgetCosts <- {n * Token : n \in Costs} \cup {Token},
                 level <- [k \in Networks |-> Level(k)],
                 verdict <- [c \in Callers |-> request[c].verdict]
LimiterRefinesBudget == Steady!BudgetSpec
=============================================================================
