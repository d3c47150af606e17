---------------------------- MODULE AccessProofs ----------------------------
(***************************************************************************)
(* What holds of the rate limiter, of accounts and sessions, of removal    *)
(* requests and fit reports and of lookups, for every value of their       *)
(* constants; and, since the parts of MCAccess share no state, of their    *)
(* composition.                                                            *)
(***************************************************************************)
EXTENDS MCAccess, SequenceTheorems, FiniteSetTheorems, TLAPS

-----------------------------------------------------------------------------
(* The rate limiter.                                                       *)

\* The seconds until then.
LeftTo(until) == IF until > now THEN until - now ELSE 0

\* What is promised to a waiting client is there when it may come back.
Promised(r) ==
  r.pc = "wait" =>
    /\ r.promised <= Burst /\ Level(r.key) + LeftTo(r.until) >= r.promised

\* A request over a bucket that no other caller draws on knows what is in it
\* from the waits it was told: a token after the first, all it costs after the
\* second; what is no batch knows that from the first.
Assured(r) ==
  /\ r.batch \/ r.cost = Token
  /\ r.pc = "wait" =>
       /\ r.tries \in 1..2 /\ r.promised >= Token
       /\ r.tries = 2 => r.promised >= r.cost
  /\ r.pc = "peek" => /\ r.batch /\ r.tries \in 0..2
                      /\ r.tries >= 1 => Level(r.key) >= Token
  /\ r.pc \in {"peek", "allow"} =>
       /\ r.tries \in 0..2
       /\ r.tries = 2 => Level(r.key) >= r.cost
  /\ r.pc = "allow" /\ r.tries >= 1 => Level(r.key) >= Token
  /\ r.pc = "advise" => r.tries \in 0..1 /\ (r.batch \/ r.tries = 0)
  /\ r.pc # "failed"

\* No other caller draws on the caller's bucket.
Alone(c) == \A d \in Callers \ {c} : network[d] # network[c]

\* The strengthening: a refusal about to be worded is one, and what is assured to
\* a client that is alone covers every step of its exchange.
LimiterInv ==
  /\ LimiterTypeOK /\ ChargedToCaller
  /\ \A c \in Callers : Promised(request[c])
  /\ \A c \in Callers : request[c].pc = "advise" => request[c].verdict = "refused"
  /\ \A c \in Callers : Alone(c) /\ request[c].cost <= Burst => Assured(request[c])

-----------------------------------------------------------------------------
LEMMA Amounts ==
  /\ Token \in Nat /\ Token >= 1 /\ Burst \in Nat /\ Burst >= Token
  /\ \A n \in Costs \cup {1} : n * Token \in Nat /\ n * Token >= Token
  <1>1. \A n \in Nat \ {0} : n * Token \in Nat /\ n * Token >= Token
    BY LimiterConstants
  <1>2. Burst \in Nat /\ Burst >= Token
    BY <1>1, LimiterConstants DEF Burst
  <1>3. QED
    BY <1>1, <1>2, LimiterConstants

\* What clientIP picks, when the entries from the right are proxies up to p.
LEMMA FirstUntrusted ==
  ASSUME NEW peer \in Proxies, NEW All, NEW xff \in Seq(All), NEW p \in 1..Len(xff),
         xff[p] \notin Proxies, xff[p] # Junk,
         \A i \in 1..Len(xff) : i > p => xff[i] \in Proxies
  PROVE  ClientIP(peer, xff) = xff[p]
  <1> DEFINE untrusted == {i \in DOMAIN xff : xff[i] \notin Proxies}
             last(i) == \A j \in untrusted : j <= i
  <1>1. p \in untrusted /\ last(p)
    OBVIOUS
  <1>2. \A i \in untrusted : last(i) => i = p
    <2> SUFFICES ASSUME NEW i \in untrusted, last(i) PROVE i = p
      OBVIOUS
    <2>1. i >= p /\ i <= p /\ i \in Int /\ p \in Int
      BY <1>1
    <2> QED
      BY <2>1
  <1>3. (CHOOSE i \in untrusted : last(i)) = p
    BY <1>1, <1>2
  <1>4. xff # <<>> /\ untrusted # {}
    BY <1>1
  <1> QED
    BY <1>3, <1>4 DEF ClientIP

\* A caller is charged to its own network, whatever it writes in the header and
\* whichever proxies its request comes through.
LEMMA OwnNetwork ==
  ASSUME NEW c \in Callers, NEW header \in Headers, NEW route \in Routes
  PROVE  ChargedKey(c, header, route) = network[c]
  <1> DEFINE All == Callers \cup Proxies \cup {Junk}
  <1>1. c \notin Proxies /\ c # Junk /\ header \in Seq(All) /\ route \in Seq(Proxies)
    BY LimiterConstants
  <1>2. CASE route = <<>>
    <2>1. Arrival(c, header, route).peer = c
      BY <1>2 DEF Arrival
    <2>2. ClientIP(c, Arrival(c, header, route).xff) = c
      BY <1>1 DEF ClientIP
    <2> QED
      BY <2>1, <2>2 DEF ChargedKey
  <1>3. CASE route # <<>>
    <2> DEFINE n == Len(route)  h == Len(header)
               tail == SubSeq(route, 1, n - 1)
               called == header \o <<c>>
               xff == called \o tail
    <2>1. n \in Nat /\ n >= 1 /\ n - 1 \in Int /\ 1 \in Int /\ h \in Nat /\ route[n] \in Proxies
      BY <1>1, <1>3
    <2>2. \A i \in 1..(n - 1) : route[i] \in Proxies
      BY <1>1, <2>1
    <2>3. /\ tail \in Seq(Proxies)
          /\ Len(tail) = IF 1 <= n - 1 THEN (n - 1) - 1 + 1 ELSE 0
      <3> HIDE DEF n
      <3> QED
        BY <2>1, <2>2, SubSeqProperties
    <2>4. Len(tail) = n - 1 /\ tail \in Seq(All) /\ \A i \in 1..(n - 1) : tail[i] \in Proxies
      <3> HIDE DEF tail, n
      <3>1. Len(tail) = n - 1
        BY <2>1, <2>3
      <3>2. tail \in Seq(All)
        BY <2>3
      <3> QED
        BY <2>3, <3>1, <3>2
    <2>5. called \in Seq(All) /\ Len(called) = h + 1 /\ called[h + 1] = c
      <3>1. <<c>> \in Seq(All) /\ Len(<<c>>) = 1 /\ <<c>>[1] = c
        <4>1. c \in All
          OBVIOUS
        <4> HIDE DEF All
        <4> QED
          BY <4>1
      <3>2. /\ header \o <<c>> \in Seq(All) /\ Len(header \o <<c>>) = h + Len(<<c>>)
            /\ \A i \in 1..(h + Len(<<c>>)) :
                 (header \o <<c>>)[i] = IF i <= h THEN header[i] ELSE <<c>>[i - h]
        BY <1>1, <3>1, ConcatProperties
      <3>3. (header \o <<c>>)[h + 1] = <<c>>[1]
        BY <2>1, <3>1, <3>2
      <3> QED
        BY <3>1, <3>2, <3>3
    <2>6. /\ xff \in Seq(All) /\ Len(xff) = Len(called) + Len(tail)
          /\ \A i \in 1..(Len(called) + Len(tail)) :
               xff[i] = IF i <= Len(called) THEN called[i] ELSE tail[i - Len(called)]
      <3> HIDE DEF called, tail, All
      <3> QED
        BY <2>4, <2>5, ConcatProperties
    <2> HIDE DEF called, tail, xff, All, n, h
    <2>7. h + 1 \in 1..Len(xff) /\ xff[h + 1] = c
      BY <2>1, <2>4, <2>5, <2>6
    <2>8. \A i \in 1..Len(xff) : i > h + 1 => xff[i] \in Proxies
      <3> SUFFICES ASSUME NEW i \in 1..Len(xff), i > h + 1 PROVE xff[i] \in Proxies
        OBVIOUS
      <3>1. xff[i] = tail[i - Len(called)] /\ i - Len(called) \in 1..(n - 1)
        BY <2>1, <2>4, <2>5, <2>6
      <3> QED
        BY <2>4, <3>1
    <2>9. xff[h + 1] \notin Proxies /\ xff[h + 1] # Junk
      BY <1>1, <2>7
    <2>10. ClientIP(route[n], xff) = c
      BY <2>1, <2>6, <2>7, <2>8, <2>9, FirstUntrusted
    <2>11. /\ Arrival(c, header, route).peer = route[n]
           /\ Arrival(c, header, route).xff = xff
      BY <1>3 DEF Arrival, n, xff, called, tail
    <2> QED
      BY <2>10, <2>11 DEF ChargedKey
  <1> QED
    BY <1>2, <1>3
-----------------------------------------------------------------------------
LEMMA LevelTyped ==
  ASSUME LimiterTypeOK, NEW k \in Networks
  PROVE  Level(k) \in Nat /\ Level(k) <= Burst
  BY Amounts DEF LimiterTypeOK, Level, Smaller

\* Forgetting a bucket that has been idle for so long changes no level.
LEMMA PruneKeepsLevels ==
  ASSUME LimiterTypeOK, NEW k \in Networks, NEW kept, kept \in {Pruned, buckets}
  PROVE  /\ Level(k) = IF k \in DOMAIN kept
                       THEN Smaller(Burst, kept[k].tokens + (now - kept[k].last)) ELSE Burst
         /\ DOMAIN kept \subseteq DOMAIN buckets
         /\ \A b \in DOMAIN kept : kept[b] = buckets[b]
  <1>1. CASE kept = buckets
    BY <1>1 DEF Level
  <1>2. CASE kept = Pruned
    <2>1. /\ DOMAIN kept = {b \in DOMAIN buckets : now - buckets[b].last <= Idle}
          /\ \A b \in DOMAIN kept : kept[b] = buckets[b]
      BY <1>2 DEF Pruned
    <2>2. CASE k \in DOMAIN kept
      BY <2>1, <2>2 DEF Level
    <2>3. CASE k \notin DOMAIN buckets
      BY <2>1, <2>3 DEF Level
    <2>4. CASE k \in DOMAIN buckets /\ k \notin DOMAIN kept
      <3>1. buckets[k].tokens \in Nat /\ buckets[k].last \in Nat /\ now \in Nat
        BY <2>4 DEF LimiterTypeOK
      <3>2. now - buckets[k].last > Burst
        BY <2>1, <2>4, <3>1, Amounts DEF Idle
      <3>3. Level(k) = Burst
        BY <2>4, <3>1, <3>2, Amounts DEF Level, Smaller
      <3> QED
        BY <2>1, <2>4, <3>3
    <2> QED
      BY <2>1, <2>2, <2>3, <2>4
  <1> QED
    BY <1>1, <1>2

\* AllowN takes all of the cost from the key's level, or nothing, and leaves
\* every other level as it is.
LEMMA AllowNLevels ==
  ASSUME LimiterTypeOK, NEW k \in Networks, NEW cost \in Nat, AllowN(k, cost), now' = now
  PROVE  /\ \A j \in Networks : Level(j)' =
              IF j = k /\ Level(k) >= cost THEN Level(k) - cost ELSE Level(j)
         /\ calls' \in 0..PruneEvery - 1
         /\ \A j \in DOMAIN buckets' :
              j \in Networks /\ buckets'[j] \in [tokens : 0..Burst, last : 0..now]
  <1> DEFINE kept == IF calls + 1 = PruneEvery THEN Pruned ELSE buckets
             left == IF Level(k) >= cost THEN Level(k) - cost ELSE Level(k)
  <1>1. /\ \A j \in Networks : Level(j) =
             IF j \in DOMAIN kept THEN Smaller(Burst, kept[j].tokens + (now - kept[j].last)) ELSE Burst
        /\ DOMAIN kept \subseteq DOMAIN buckets
        /\ \A b \in DOMAIN kept : kept[b] = buckets[b]
    <2>1. kept \in {Pruned, buckets}
      OBVIOUS
    <2> HIDE DEF kept
    <2>2. \A j \in Networks :
            /\ Level(j) = IF j \in DOMAIN kept
                          THEN Smaller(Burst, kept[j].tokens + (now - kept[j].last)) ELSE Burst
            /\ DOMAIN kept \subseteq DOMAIN buckets
            /\ \A b \in DOMAIN kept : kept[b] = buckets[b]
      BY <2>1, PruneKeepsLevels
    <2> QED
      BY <2>2
  <1>2. /\ calls' = (calls + 1) % PruneEvery
        /\ buckets' = [b \in DOMAIN kept \cup {k} |->
                         IF b = k THEN [tokens |-> left, last |-> now] ELSE kept[b]]
    BY <1>1 DEF AllowN
  <1>3. left \in 0..Burst /\ now \in Nat
    BY LevelTyped, Amounts DEF LimiterTypeOK
  <1> HIDE DEF kept, left
  <1>4. DOMAIN buckets' = DOMAIN kept \cup {k} /\ buckets'[k] = [tokens |-> left, last |-> now]
        /\ \A b \in DOMAIN kept : b # k => buckets'[b] = kept[b]
    BY <1>2
  <1>5. Level(k)' = left
    <2>1. left = Smaller(Burst, left + (now - now))
      BY <1>3, Amounts DEF Smaller
    <2> QED
      BY <1>4, <2>1 DEF Level, Burst
  <1>6. ASSUME NEW j \in Networks, j # k
        PROVE  Level(j)' = Level(j)
    BY <1>1, <1>4, <1>6 DEF Level, Burst
  <1>7. calls' \in 0..PruneEvery - 1
    BY <1>2, LimiterConstants DEF LimiterTypeOK
  <1>8. ASSUME NEW j \in DOMAIN buckets'
        PROVE  j \in Networks /\ buckets'[j] \in [tokens : 0..Burst, last : 0..now]
    <2>1. CASE j = k
      BY <1>3, <1>4, <2>1
    <2>2. CASE j # k
      BY <1>1, <1>4, <1>8, <2>2 DEF LimiterTypeOK
    <2> QED
      BY <2>1, <2>2
  <1>9. \A j \in Networks : Level(j)' = IF j = k THEN left ELSE Level(j)
    BY <1>5, <1>6
  <1> QED
    BY <1>7, <1>8, <1>9 DEF left
-----------------------------------------------------------------------------
LEMMA LimiterStart == LimiterInit => LimiterInv
  <1> SUFFICES ASSUME LimiterInit PROVE LimiterInv
    OBVIOUS
  <1> USE DEF LimiterInit
  <1>1. \A c \in Callers : request[c] = Fresh(c)
    OBVIOUS
  <1>2. network \in [Callers \cup Proxies -> Networks]
    BY LimiterConstants
  <1>3. DOMAIN buckets = {}
    OBVIOUS
  <1>4. Token \in {n * Token : n \in Costs \cup {1}}
    BY Amounts
  <1>5. ASSUME NEW c \in Callers
        PROVE  Fresh(c) \in Exchanges
    <2>1. network[c] \in Networks /\ 0 \in 0..MaxRetry
      BY <1>2, LimiterConstants
    <2> DEFINE prices == {n * Token : n \in Costs \cup {1}}
    <2>2. Token \in prices
      BY <1>4
    <2> HIDE DEF prices
    <2> QED
      BY <2>1, <2>2 DEF Fresh, Exchanges, prices
  <1>6. LimiterTypeOK
    BY <1>3, <1>5, LimiterConstants DEF LimiterTypeOK
  <1>7. \A c \in Callers : /\ Fresh(c).pc = "idle" /\ Fresh(c).key = network[c]
                           /\ Fresh(c).cost = Token /\ Fresh(c).batch = FALSE
    BY DEF Fresh
  <1> QED
    BY <1>1, <1>6, <1>7 DEF LimiterInv, ChargedToCaller, Promised, Assured

\* What is known of a request that is typed.
LEMMA RequestTyped ==
  ASSUME LimiterInv, NEW c \in Callers
  PROVE  /\ request[c] \in Exchanges
         /\ request[c].key \in Networks /\ request[c].key = network[c]
         /\ request[c].cost \in Nat /\ request[c].cost >= Token
         /\ request[c].tries \in 0..MaxRetry /\ request[c].until \in Nat
         /\ request[c].promised \in Nat /\ request[c].batch \in BOOLEAN
         /\ network[c] \in Networks /\ now \in Nat
  <1>1. request[c] \in Exchanges
    BY DEF LimiterInv, LimiterTypeOK
  <1>2. request[c].cost \in {n * Token : n \in Costs \cup {1}}
    BY <1>1 DEF Exchanges
  <1>3. request[c].cost \in Nat /\ request[c].cost >= Token
    BY <1>2, Amounts
  <1>4. request[c].key = network[c]
    BY DEF LimiterInv, ChargedToCaller
  <1> QED
    BY <1>1, <1>3, <1>4 DEF Exchanges, LimiterInv, LimiterTypeOK

\* A step of one request that leaves the levels of all keys as they are.
LEMMA LimiterOwnStep ==
  ASSUME LimiterInv, NEW c \in Callers, NEW r \in Exchanges,
         request' = [request EXCEPT ![c] = r], network' = network, now' = now,
         \A k \in Networks : Level(k)' = Level(k),
         calls' \in 0..PruneEvery - 1,
         \A k \in DOMAIN buckets' :
           k \in Networks /\ buckets'[k] \in [tokens : 0..Burst, last : 0..now],
         r.key = network[c], Promised(r), r.pc = "advise" => r.verdict = "refused",
         Alone(c) /\ r.cost <= Burst => Assured(r)
  PROVE  LimiterInv'
  <1>1. request'[c] = r /\ \A d \in Callers : d # c => request'[d] = request[d]
    BY DEF LimiterInv, LimiterTypeOK
  <1>2. request' \in [Callers -> Exchanges]
    BY DEF LimiterInv, LimiterTypeOK
  <1>3. LimiterTypeOK'
    BY <1>2 DEF LimiterInv, LimiterTypeOK, Burst, Exchanges
  <1>4. ChargedToCaller'
    BY <1>1 DEF LimiterInv, ChargedToCaller
  <1>5. \A d \in Callers : request'[d].key \in Networks
    BY <1>2 DEF Exchanges
  <1>6. \A d \in Callers : Promised(request'[d])
    BY <1>1 DEF LimiterInv
  <1>7. ASSUME NEW d \in Callers
        PROVE  Level(request[d].key)' = Level(request'[d].key)
    <2>1. PICK k \in Networks : k = request'[d].key
      BY <1>5
    <2>2. Level(k)' = Level(k)
      OBVIOUS
    <2>3. Level(request[d].key)' = Level(k)'
      BY <2>1 DEF Level
    <2> QED
      BY <2>1, <2>2, <2>3
  <1>8. ASSUME NEW d \in Callers
        PROVE  Promised(request[d])'
    BY <1>6, <1>7 DEF Promised, LeftTo, Burst
  <1>9. \A d \in Callers : Alone(d)' <=> Alone(d)
    BY DEF Alone
  <1>10. \A d \in Callers : Alone(d) /\ request'[d].cost <= Burst => Assured(request'[d])
    BY <1>1 DEF LimiterInv
  <1>11. ASSUME NEW d \in Callers
         PROVE  (Alone(d) /\ request[d].cost <= Burst => Assured(request[d]))'
    <2> SUFFICES ASSUME Alone(d), request'[d].cost <= Burst PROVE Assured(request[d])'
      BY <1>9 DEF Burst
    <2>1. Assured(request'[d])
      BY <1>10
    <2> QED
      BY <1>7, <2>1 DEF Assured
  <1>12. \A d \in Callers : request'[d].pc = "advise" => request'[d].verdict = "refused"
    BY <1>1 DEF LimiterInv
  <1> QED
    BY <1>3, <1>4, <1>8, <1>11, <1>12 DEF LimiterInv
\* The levels of a step that does not call AllowN.
LEMMA SameLevels ==
  ASSUME LimiterInv, UNCHANGED <<buckets, now, calls>>
  PROVE  /\ \A k \in Networks : Level(k)' = Level(k)
         /\ calls' \in 0..PruneEvery - 1
         /\ \A k \in DOMAIN buckets' :
              k \in Networks /\ buckets'[k] \in [tokens : 0..Burst, last : 0..now]
  BY DEF LimiterInv, LimiterTypeOK, Level, Burst, Smaller

LEMMA SendStep ==
  ASSUME LimiterInv, NEW c \in Callers, NEW n \in Costs, NEW batch \in BOOLEAN,
         NEW header \in Headers, NEW route \in Routes, Send(c, n, batch, header, route)
  PROVE  LimiterInv'
  <1>0. PICK r : r = [Fresh(c) EXCEPT !.pc = IF batch THEN "peek" ELSE "allow",
                                      !.key = ChargedKey(c, header, route),
                                      !.cost = n * Token, !.batch = batch]
    OBVIOUS
  <1>1. /\ request' = [request EXCEPT ![c] = r]
        /\ batch \/ n = 1
        /\ UNCHANGED <<network, now, buckets, calls>>
    BY <1>0 DEF Send, Moves
  <1>2. r = [pc |-> IF batch THEN "peek" ELSE "allow", key |-> network[c],
             cost |-> n * Token, batch |-> batch, tries |-> 0, until |-> 0,
             promised |-> 0, verdict |-> "none"]
    BY <1>0, OwnNetwork DEF Fresh
  <1>3. network[c] \in Networks /\ 0 \in 0..MaxRetry
    BY RequestTyped, LimiterConstants
  <1>4. r \in Exchanges
    <2> DEFINE prices == {m * Token : m \in Costs \cup {1}}
    <2>1. n * Token \in prices
      OBVIOUS
    <2> HIDE DEF prices
    <2>2. r.pc \in {"idle", "peek", "allow", "advise", "wait", "failed"}
      BY <1>2
    <2> QED
      BY <1>2, <1>3, <2>1, <2>2 DEF Exchanges, prices
  <1>5. r.batch \/ r.cost = Token
    BY <1>1, <1>2, Amounts
  <1>6. Promised(r) /\ (r.pc = "advise" => r.verdict = "refused") /\ Assured(r)
    BY <1>2, <1>5 DEF Promised, Assured
  <1>7. r.key = network[c]
    BY <1>2
  <1>8. /\ \A k \in Networks : Level(k)' = Level(k)
        /\ calls' \in 0..PruneEvery - 1
        /\ \A k \in DOMAIN buckets' :
             k \in Networks /\ buckets'[k] \in [tokens : 0..Burst, last : 0..now]
    BY <1>1, SameLevels
  <1> HIDE DEF LimiterInv
  <1> QED
    BY <1>1, <1>4, <1>6, <1>7, <1>8, LimiterOwnStep

\* A client that is turned away waits until what it was told to wait for is
\* there, or gives up.
LEMMA TurnedAwayStep ==
  ASSUME LimiterInv, NEW c \in Callers, NEW wait \in Nat, NEW promised \in Nat,
         promised <= Burst, promised >= Token, Level(request[c].key) + wait >= promised,
         Moves(c, TurnedAway(c, wait, promised)), UNCHANGED <<network, now, buckets, calls>>,
         Alone(c) /\ request[c].cost <= Burst =>
           /\ request[c].batch \/ request[c].cost = Token
           /\ request[c].tries \in 0..1 /\ (request[c].tries = 1 => promised >= request[c].cost)
  PROVE  LimiterInv'
  <1> DEFINE old == request[c]  r == TurnedAway(c, wait, promised)
  <1>1. request' = [request EXCEPT ![c] = r]
    BY DEF Moves
  <1>2. /\ old \in Exchanges /\ old.key \in Networks /\ old.key = network[c]
        /\ old.cost \in Nat /\ old.cost >= Token /\ old.tries \in 0..MaxRetry /\ old.until \in Nat
        /\ old.promised \in Nat /\ old.batch \in BOOLEAN /\ now \in Nat
        /\ MaxRetry \in Nat /\ MaxRetry >= 2
    BY RequestTyped, LimiterConstants
  <1>3. Level(old.key) \in Nat
    BY <1>2, LevelTyped DEF LimiterInv
  <1>4. CASE old.tries < MaxRetry
    <2>1. /\ r.pc = "wait" /\ r.verdict = "refused" /\ r.tries = old.tries + 1
          /\ r.promised = promised /\ r.until = now + RetryAfterSeconds(wait)
          /\ r.key = old.key /\ r.cost = old.cost /\ r.batch = old.batch
      BY <1>2, <1>4 DEF TurnedAway, Exchanges
    <2>2. RetryAfterSeconds(wait) \in Nat /\ RetryAfterSeconds(wait) >= wait
      BY DEF RetryAfterSeconds
    <2>3. r \in Exchanges
      <3>1. PICK q : q = r
        OBVIOUS
      <3>2. q = [old EXCEPT !.pc = "wait", !.verdict = "refused", !.tries = old.tries + 1,
                            !.promised = promised, !.until = now + RetryAfterSeconds(wait)]
        BY <1>4, <3>1 DEF TurnedAway
      <3>3. now + RetryAfterSeconds(wait) \in Nat /\ old.tries + 1 \in 0..MaxRetry
        BY <1>2, <1>4, <2>2
      <3>4. q \in Exchanges
        BY <1>2, <3>2, <3>3 DEF Exchanges
      <3> QED
        BY <3>1, <3>4
    <2> HIDE DEF r
    <2>4. Promised(r)
      BY <1>2, <1>3, <2>1, <2>2 DEF Promised, LeftTo
    <2>5. ASSUME Alone(c), r.cost <= Burst
          PROVE  Assured(r)
      BY <1>2, <2>1, <2>5, Amounts DEF Assured
    <2> QED
      BY <1>1, <1>2, <2>1, <2>3, <2>4, <2>5, SameLevels, LimiterOwnStep
  <1>5. CASE ~(old.tries < MaxRetry)
    <2>1. /\ r.pc = "failed" /\ r.verdict = "refused" /\ r \in Exchanges
          /\ r.key = old.key /\ r.cost = old.cost
      BY <1>2, <1>5 DEF TurnedAway, Exchanges
    <2>2. ~(Alone(c) /\ old.cost <= Burst)
      BY <1>2, <1>5
    <2> HIDE DEF r
    <2>3. Promised(r)
      BY <2>1 DEF Promised
    <2> QED
      BY <1>1, <1>2, <2>1, <2>2, <2>3, SameLevels, LimiterOwnStep
  <1> QED
    BY <1>4, <1>5

LEMMA PeekStep ==
  ASSUME LimiterInv, NEW c \in Callers, Peek(c)
  PROVE  LimiterInv'
  <1> DEFINE old == request[c]  wait == RetryAfterN(old.key, Token)
  <1>1. /\ old.pc = "peek" /\ UNCHANGED <<network, now, buckets, calls>>
        /\ Moves(c, IF wait > 0 THEN TurnedAway(c, wait, Token) ELSE [old EXCEPT !.pc = "allow"])
    BY DEF Peek
  <1>2. /\ old \in Exchanges /\ old.key \in Networks /\ old.key = network[c]
        /\ old.cost \in Nat /\ old.cost >= Token
    BY RequestTyped
  <1>3. Level(old.key) \in Nat
    BY <1>2, LevelTyped DEF LimiterInv
  <1>4. wait \in Nat /\ Level(old.key) + wait >= Token /\ (wait > 0 <=> Level(old.key) < Token)
    BY <1>3, Amounts DEF RetryAfterN, Smaller
  <1>5. ASSUME Alone(c), old.cost <= Burst
        PROVE  /\ old.batch /\ old.tries \in 0..2
               /\ old.tries >= 1 => Level(old.key) >= Token
               /\ old.tries = 2 => Level(old.key) >= old.cost
    BY <1>1, <1>5 DEF LimiterInv, Assured
  <1>6. CASE wait > 0
    <2> HIDE DEF wait
    <2>1. Moves(c, TurnedAway(c, wait, Token))
      BY <1>1, <1>6
    <2>2. ASSUME Alone(c), old.cost <= Burst
          PROVE  old.tries = 0 /\ old.batch
      BY <1>3, <1>4, <1>5, <1>6, <2>2, Amounts
    <2>3. Token \in Nat /\ Token <= Burst /\ Token >= Token
      BY Amounts
    <2> QED
      BY <1>1, <1>4, <2>1, <2>2, <2>3, TurnedAwayStep
  <1>7. CASE ~(wait > 0)
    <2>1. PICK r : r = [old EXCEPT !.pc = "allow"]
      OBVIOUS
    <2>2. request' = [request EXCEPT ![c] = r]
      BY <1>1, <1>7, <2>1 DEF Moves
    <2>3. /\ r \in Exchanges /\ r.pc = "allow" /\ r.key = old.key /\ r.cost = old.cost
          /\ r.batch = old.batch /\ r.tries = old.tries
      BY <1>2, <2>1 DEF Exchanges
    <2>4. Promised(r) /\ (r.pc = "advise" => r.verdict = "refused") /\ r.key = network[c]
      BY <1>2, <2>3 DEF Promised
    <2>5. ASSUME Alone(c), r.cost <= Burst
          PROVE  Assured(r)
      BY <1>3, <1>4, <1>5, <1>7, <2>3, <2>5, Amounts DEF Assured
    <2> QED
      BY <1>1, <2>2, <2>3, <2>4, <2>5, SameLevels, LimiterOwnStep
  <1> QED
    BY <1>6, <1>7

LEMMA DenyStep ==
  ASSUME LimiterInv, NEW c \in Callers, Deny(c)
  PROVE  LimiterInv'
  <1> DEFINE old == request[c]
  <1>1. /\ old.pc = "allow" /\ Level(old.key) < old.cost /\ AllowN(old.key, old.cost)
        /\ Moves(c, [old EXCEPT !.pc = "advise", !.verdict = "refused"])
        /\ network' = network /\ now' = now
    BY DEF Deny
  <1>2. /\ old \in Exchanges /\ old.key \in Networks /\ old.key = network[c]
        /\ old.cost \in Nat /\ old.cost >= Token
    BY RequestTyped
  <1>3. Level(old.key) \in Nat
    BY <1>2, LevelTyped DEF LimiterInv
  <1>4. LimiterTypeOK
    BY DEF LimiterInv
  <1>5. /\ \A j \in Networks : Level(j)' =
             IF j = old.key /\ Level(old.key) >= old.cost THEN Level(old.key) - old.cost ELSE Level(j)
        /\ calls' \in 0..PruneEvery - 1
        /\ \A j \in DOMAIN buckets' :
             j \in Networks /\ buckets'[j] \in [tokens : 0..Burst, last : 0..now]
    <2> HIDE DEF old
    <2> QED
      BY <1>1, <1>2, <1>4, AllowNLevels
  <1>6. \A j \in Networks : Level(j)' = Level(j)
    BY <1>1, <1>2, <1>3, <1>5
  <1>7. PICK r : r = [old EXCEPT !.pc = "advise", !.verdict = "refused"]
    OBVIOUS
  <1>8. request' = [request EXCEPT ![c] = r]
    BY <1>1, <1>7 DEF Moves
  <1>9. /\ r \in Exchanges /\ r.pc = "advise" /\ r.verdict = "refused" /\ r.key = old.key
        /\ r.cost = old.cost /\ r.batch = old.batch /\ r.tries = old.tries
    BY <1>2, <1>7 DEF Exchanges
  <1>10. Promised(r) /\ r.key = network[c]
    <2>1. r.pc # "wait" /\ r.key = network[c]
      BY <1>2, <1>9
    <2> QED
      BY <2>1 DEF Promised
  <1>11. ASSUME Alone(c), r.cost <= Burst
         PROVE  Assured(r)
    <2>1. /\ old.batch \/ old.cost = Token
          /\ old.tries \in 0..2 /\ (old.tries = 2 => Level(old.key) >= old.cost)
          /\ old.tries >= 1 => Level(old.key) >= Token
      BY <1>1, <1>9, <1>11 DEF LimiterInv, Assured
    <2>2. old.tries \in 0..1 /\ (old.batch \/ old.tries = 0)
      BY <1>1, <1>2, <1>3, <2>1, Amounts
    <2> QED
      BY <1>9, <2>1, <2>2 DEF Assured
  <1> QED
    BY <1>1, <1>5, <1>6, <1>8, <1>9, <1>10, <1>11, LimiterOwnStep

LEMMA AdviseStep ==
  ASSUME LimiterInv, NEW c \in Callers, Advise(c)
  PROVE  LimiterInv'
  <1> DEFINE old == request[c]  wait == RetryAfterN(old.key, old.cost)
             promised == Smaller(Burst, old.cost)
  <1>1. /\ old.pc = "advise" /\ UNCHANGED <<network, now, buckets, calls>>
        /\ Moves(c, TurnedAway(c, wait, promised))
    BY DEF Advise
  <1>2. /\ old \in Exchanges /\ old.key \in Networks
        /\ old.cost \in Nat /\ old.cost >= Token
    BY RequestTyped
  <1>3. Level(old.key) \in Nat
    BY <1>2, LevelTyped DEF LimiterInv
  <1>4. /\ wait \in Nat /\ promised \in Nat /\ promised <= Burst /\ promised >= Token
        /\ Level(old.key) + wait >= promised
    BY <1>2, <1>3, Amounts DEF RetryAfterN, Smaller
  <1>5. ASSUME Alone(c), old.cost <= Burst
        PROVE  /\ old.batch \/ old.cost = Token
               /\ old.tries \in 0..1 /\ (old.tries = 1 => promised >= old.cost)
    BY <1>1, <1>2, <1>5, Amounts DEF LimiterInv, Assured, Smaller
  <1> HIDE DEF wait, promised
  <1> QED
    BY <1>1, <1>4, <1>5, TurnedAwayStep

LEMMA RetryStep ==
  ASSUME LimiterInv, NEW c \in Callers, Retry(c)
  PROVE  LimiterInv'
  <1> DEFINE old == request[c]
  <1>1. /\ old.pc = "wait" /\ now >= old.until /\ UNCHANGED <<network, now, buckets, calls>>
        /\ Moves(c, [old EXCEPT !.pc = IF old.batch THEN "peek" ELSE "allow",
                                !.verdict = "none", !.promised = 0])
    BY DEF Retry
  <1>2. /\ old \in Exchanges /\ old.key \in Networks /\ old.key = network[c]
        /\ old.cost \in Nat /\ old.cost >= Token /\ now \in Nat /\ old.until \in Nat
        /\ old.promised \in Nat
    BY RequestTyped
  <1>3. Level(old.key) \in Nat
    BY <1>2, LevelTyped DEF LimiterInv
  <1>4. Level(old.key) >= old.promised
    BY <1>1, <1>2, <1>3 DEF LimiterInv, Promised, LeftTo
  <1>5. PICK r : r = [old EXCEPT !.pc = IF old.batch THEN "peek" ELSE "allow",
                                 !.verdict = "none", !.promised = 0]
    OBVIOUS
  <1>6. request' = [request EXCEPT ![c] = r]
    BY <1>1, <1>5 DEF Moves
  <1>7. /\ r \in Exchanges /\ r.pc = (IF old.batch THEN "peek" ELSE "allow") /\ r.key = old.key
        /\ r.cost = old.cost /\ r.batch = old.batch /\ r.tries = old.tries
    BY <1>2, <1>5 DEF Exchanges
  <1>8. Promised(r) /\ (r.pc = "advise" => r.verdict = "refused") /\ r.key = network[c]
    BY <1>2, <1>7 DEF Promised
  <1>9. ASSUME Alone(c), r.cost <= Burst
        PROVE  Assured(r)
    <2>1. /\ old.batch \/ old.cost = Token
          /\ old.tries \in 1..2 /\ old.promised >= Token
          /\ old.tries = 2 => old.promised >= old.cost
      BY <1>1, <1>7, <1>9 DEF LimiterInv, Assured
    <2> QED
      BY <1>2, <1>3, <1>4, <1>7, <2>1, Amounts DEF Assured
  <1> QED
    BY <1>1, <1>6, <1>7, <1>8, <1>9, SameLevels, LimiterOwnStep

LEMMA AllowStep ==
  ASSUME LimiterInv, NEW c \in Callers, Allow(c)
  PROVE  LimiterInv'
  <1> DEFINE old == request[c]
  <1>1. /\ old.pc = "allow" /\ Level(old.key) >= old.cost /\ AllowN(old.key, old.cost)
        /\ network' = network /\ now' = now
        /\ request' = [d \in Callers |->
             IF d = c THEN [Fresh(c) EXCEPT !.verdict = "admitted"]
             ELSE IF request[d].key = old.key THEN [request[d] EXCEPT !.promised = 0]
             ELSE request[d]]
    BY DEF Allow
  <1>2. \A d \in Callers :
          /\ request[d] \in Exchanges /\ request[d].key \in Networks /\ request[d].key = network[d]
          /\ request[d].cost \in Nat /\ request[d].cost >= Token /\ request[d].until \in Nat
          /\ request[d].promised \in Nat /\ network[d] \in Networks /\ now \in Nat
    BY RequestTyped
  <1>3. LimiterTypeOK /\ \A k \in Networks : Level(k) \in Nat /\ Level(k) <= Burst
    BY LevelTyped DEF LimiterInv
  <1>4. /\ \A j \in Networks : Level(j)' =
             IF j = old.key /\ Level(old.key) >= old.cost THEN Level(old.key) - old.cost ELSE Level(j)
        /\ calls' \in 0..PruneEvery - 1
        /\ \A j \in DOMAIN buckets' :
             j \in Networks /\ buckets'[j] \in [tokens : 0..Burst, last : 0..now]
    <2>1. old.key \in Networks /\ old.cost \in Nat
      BY <1>2
    <2> HIDE DEF old
    <2> QED
      BY <1>1, <1>3, <2>1, AllowNLevels
  <1>5. PICK mine : mine = [Fresh(c) EXCEPT !.verdict = "admitted"]
    OBVIOUS
  <1>6. mine = [pc |-> "idle", key |-> network[c], cost |-> Token, batch |-> FALSE,
                tries |-> 0, until |-> 0, promised |-> 0, verdict |-> "admitted"]
    BY <1>5 DEF Fresh
  <1>7. mine \in Exchanges
    <2> DEFINE prices == {n * Token : n \in Costs \cup {1}}
    <2>1. Token \in prices
      BY Amounts
    <2> HIDE DEF prices
    <2>2. network[c] \in Networks /\ 0 \in 0..MaxRetry
      BY <1>2, LimiterConstants
    <2> QED
      BY <1>6, <2>1, <2>2 DEF Exchanges, prices
  <1>8. request'[c] = mine
    BY <1>1, <1>5
  \* What another caller's request is after the step.
  <1>9. ASSUME NEW d \in Callers, d # c
        PROVE  /\ request'[d] \in Exchanges /\ request'[d].key = request[d].key
               /\ request'[d].pc = request[d].pc /\ request'[d].verdict = request[d].verdict
               /\ request'[d].until = request[d].until
               /\ request'[d].promised = (IF request[d].key = old.key THEN 0 ELSE request[d].promised)
               /\ request[d].key # old.key => request'[d] = request[d]
               /\ request'[d].cost = request[d].cost
    <2>1. CASE request[d].key = old.key
      <3>1. PICK r : r = [request[d] EXCEPT !.promised = 0]
        OBVIOUS
      <3>2. request'[d] = r
        BY <1>1, <1>9, <2>1, <3>1
      <3>3. /\ r \in Exchanges /\ r.key = request[d].key /\ r.pc = request[d].pc
            /\ r.verdict = request[d].verdict /\ r.until = request[d].until /\ r.promised = 0
            /\ r.cost = request[d].cost
        BY <1>2, <3>1 DEF Exchanges
      <3> QED
        BY <2>1, <3>2, <3>3
    <2>2. CASE request[d].key # old.key
      BY <1>1, <1>2, <1>9, <2>2
    <2> QED
      BY <2>1, <2>2
  <1>10. request' \in [Callers -> Exchanges]
    BY <1>1, <1>7, <1>8, <1>9
  <1>11. LimiterTypeOK'
    BY <1>1, <1>3, <1>4, <1>10 DEF LimiterTypeOK, Burst, Exchanges
  <1>12. ChargedToCaller'
    BY <1>1, <1>2, <1>6, <1>8, <1>9 DEF ChargedToCaller
  <1>13. ASSUME NEW d \in Callers
         PROVE  Level(request[d].key)' =
                  IF request'[d].key = old.key THEN Level(old.key) - old.cost ELSE Level(request'[d].key)
    <2>1. PICK k \in Networks : k = request'[d].key
      BY <1>2, <1>6, <1>8, <1>9
    <2>2. Level(k)' = IF k = old.key THEN Level(old.key) - old.cost ELSE Level(k)
      BY <1>1, <1>4
    <2>3. Level(request[d].key)' = Level(k)'
      BY <2>1 DEF Level
    <2> QED
      BY <2>1, <2>2, <2>3
  <1>14. ASSUME NEW d \in Callers
         PROVE  Promised(request[d])'
    <2>1. CASE d = c
      BY <1>6, <1>8, <2>1 DEF Promised
    <2>2. CASE d # c /\ request[d].key = old.key
      <3>1. request'[d].promised = 0 /\ request'[d].key = old.key /\ request'[d].until \in Nat
        BY <1>2, <1>9, <2>2
      <3>2. Level(request[d].key)' \in Nat
        BY <1>1, <1>2, <1>3, <1>13, <3>1
      <3>3. 0 <= Burst /\ Burst' = Burst /\ Burst \in Nat
        BY Amounts DEF Burst
      <3> QED
        BY <1>1, <1>2, <3>1, <3>2, <3>3 DEF Promised, LeftTo
    <2>3. CASE d # c /\ request[d].key # old.key
      <3>1. Promised(request[d]) /\ request'[d] = request[d]
        BY <1>9, <2>3 DEF LimiterInv
      <3>2. Level(request[d].key)' = Level(request[d].key)
        BY <1>13, <2>3, <3>1
      <3> QED
        BY <1>1, <3>1, <3>2 DEF Promised, LeftTo, Burst
    <2> QED
      BY <2>1, <2>2, <2>3
  <1>15. \A d \in Callers : request'[d].pc = "advise" => request'[d].verdict = "refused"
    BY <1>6, <1>8, <1>9 DEF LimiterInv
  <1>16. ASSUME NEW d \in Callers
         PROVE  (Alone(d) /\ request[d].cost <= Burst => Assured(request[d]))'
    <2> SUFFICES ASSUME Alone(d)', request'[d].cost <= Burst PROVE Assured(request[d])'
      BY DEF Burst
    <2>1. Alone(d)
      BY <1>1 DEF Alone
    <2>2. CASE d = c
      BY <1>6, <1>8, <2>2 DEF Assured
    <2>3. CASE d # c
      <3>1. request[d].key # old.key
        BY <1>2, <2>1, <2>3 DEF Alone
      <3>2. Assured(request[d]) /\ request'[d] = request[d]
        BY <1>9, <2>1, <2>3, <3>1 DEF LimiterInv
      <3>3. Level(request[d].key)' = Level(request[d].key)
        BY <1>13, <3>1, <3>2
      <3> QED
        BY <3>2, <3>3 DEF Assured
    <2> QED
      BY <2>2, <2>3
  <1> QED
    BY <1>11, <1>12, <1>14, <1>15, <1>16 DEF LimiterInv

\* A second refills every bucket that is not full.
LEMMA TickLevels ==
  ASSUME LimiterTypeOK, Tick, NEW k \in Networks
  PROVE  Level(k)' = IF Level(k) < Burst THEN Level(k) + 1 ELSE Burst
  <1>1. /\ now' = now + 1 /\ now \in Nat /\ buckets' = buckets /\ Burst' = Burst /\ Burst \in Nat
    BY Amounts DEF Tick, LimiterTypeOK, Burst
  <1>2. CASE k \in DOMAIN buckets
    <2>1. buckets[k].tokens \in Nat /\ buckets[k].last \in 0..now
      BY <1>2 DEF LimiterTypeOK
    <2>2. PICK t \in Nat, l \in 0..now : t = buckets[k].tokens /\ l = buckets[k].last
      BY <2>1
    <2>3. Level(k) = Smaller(Burst, t + (now - l)) /\ Level(k)' = Smaller(Burst, t + (now + 1 - l))
      BY <1>1, <1>2, <2>2 DEF Level, Smaller
    <2> QED
      BY <1>1, <2>2, <2>3 DEF Smaller
  <1>3. CASE k \notin DOMAIN buckets
    BY <1>1, <1>3 DEF Level
  <1> QED
    BY <1>2, <1>3

LEMMA TickStep ==
  ASSUME LimiterInv, Tick
  PROVE  LimiterInv'
  <1>1. /\ now' = now + 1 /\ now \in Nat /\ now < MaxTime
        /\ UNCHANGED <<network, buckets, calls, request>> /\ Burst' = Burst /\ Burst \in Nat
    BY Amounts DEF Tick, LimiterInv, LimiterTypeOK, Burst
  <1>2. LimiterTypeOK'
    <2>1. \A k \in DOMAIN buckets : /\ k \in Networks
                                    /\ buckets[k] \in [tokens : 0..Burst, last : 0..now']
      BY <1>1 DEF LimiterInv, LimiterTypeOK
    <2>2. now' \in 0..MaxTime
      BY <1>1, LimiterConstants
    <2> QED
      BY <1>1, <2>1, <2>2 DEF LimiterInv, LimiterTypeOK, Exchanges
  <1>3. ChargedToCaller'
    BY <1>1 DEF LimiterInv, ChargedToCaller
  <1>4. ASSUME NEW d \in Callers
        PROVE  /\ Level(request[d].key)' =
                    IF Level(request[d].key) < Burst THEN Level(request[d].key) + 1 ELSE Burst
               /\ Level(request[d].key) \in Nat /\ Level(request[d].key) <= Burst
    <2>1. PICK k \in Networks : k = request[d].key
      BY RequestTyped
    <2>2. /\ Level(k)' = IF Level(k) < Burst THEN Level(k) + 1 ELSE Burst
          /\ Level(k) \in Nat /\ Level(k) <= Burst
      BY TickLevels, LevelTyped DEF LimiterInv
    <2>3. Level(request[d].key)' = Level(k)'
      BY <1>1, <2>1 DEF Level
    <2> QED
      BY <2>1, <2>2, <2>3
  <1>5. \A d \in Callers : /\ request[d].until \in Nat /\ request[d].promised \in Nat
                           /\ request[d].cost \in Nat /\ request[d].cost >= Token
    BY RequestTyped
  <1>6. ASSUME NEW d \in Callers
        PROVE  Promised(request[d])'
    <2> SUFFICES ASSUME request[d].pc = "wait"
                 PROVE  /\ request[d].promised <= Burst
                        /\ Level(request[d].key)' + LeftTo(request[d].until)' >= request[d].promised
      BY <1>1 DEF Promised
    <2>1. /\ request[d].promised <= Burst
          /\ Level(request[d].key) + LeftTo(request[d].until) >= request[d].promised
      BY DEF LimiterInv, Promised
    <2>2. LeftTo(request[d].until)' = IF request[d].until > now + 1 THEN request[d].until - (now + 1) ELSE 0
      BY <1>1 DEF LeftTo
    <2>3. PICK l \in Nat, u \in Nat, q \in Nat :
            l = Level(request[d].key) /\ u = request[d].until /\ q = request[d].promised
      BY <1>4, <1>5
    <2> QED
      BY <1>1, <1>4, <2>1, <2>2, <2>3 DEF LeftTo
  <1>7. \A d \in Callers : Alone(d)' <=> Alone(d)
    BY <1>1 DEF Alone
  <1>8. ASSUME NEW d \in Callers
        PROVE  (Alone(d) /\ request[d].cost <= Burst => Assured(request[d]))'
    <2> SUFFICES ASSUME Alone(d), request[d].cost <= Burst PROVE Assured(request[d])'
      BY <1>1, <1>7
    <2>1. Assured(request[d])
      BY DEF LimiterInv
    <2>2. PICK l \in Nat, l2 \in Nat :
            /\ l = Level(request[d].key) /\ l2 = Level(request[d].key)'
            /\ l2 >= l
      BY <1>1, <1>4
    <2>3. PICK cost \in Nat : cost = request[d].cost
      BY <1>5
    <2> QED
      BY <1>1, <2>1, <2>2, <2>3, Amounts DEF Assured
  <1>9. \A d \in Callers : request'[d].pc = "advise" => request'[d].verdict = "refused"
    BY <1>1 DEF LimiterInv
  <1> QED
    BY <1>2, <1>3, <1>6, <1>8, <1>9 DEF LimiterInv

LEMMA LimiterIdles ==
  ASSUME LimiterInv, UNCHANGED limiterVars
  PROVE  LimiterInv'
  <1>1. /\ UNCHANGED <<network, now, buckets, calls, request>> /\ Burst' = Burst
    BY DEF limiterVars, Burst
  <1>2. \A d \in Callers : Level(request[d].key)' = Level(request[d].key)
    BY <1>1 DEF Level
  <1>3. LimiterTypeOK' /\ ChargedToCaller'
    BY <1>1 DEF LimiterInv, LimiterTypeOK, ChargedToCaller, Exchanges
  <1>4. \A d \in Callers : Promised(request[d])' /\ Alone(d)' = Alone(d)
    BY <1>1, <1>2 DEF LimiterInv, Promised, LeftTo, Alone
  <1>5. \A d \in Callers : (Alone(d) /\ request[d].cost <= Burst => Assured(request[d]))'
    BY <1>1, <1>2, <1>4 DEF LimiterInv, Assured
  <1> QED
    BY <1>1, <1>3, <1>4, <1>5 DEF LimiterInv

LEMMA LimiterStep ==
  ASSUME LimiterInv, [LimiterNext]_limiterVars
  PROVE  LimiterInv'
  <1>1. CASE UNCHANGED limiterVars
    BY <1>1, LimiterIdles
  <1>2. ASSUME NEW c \in Callers, NEW n \in Costs, NEW batch \in BOOLEAN,
               NEW header \in Headers, NEW route \in Routes, Send(c, n, batch, header, route)
        PROVE  LimiterInv'
    BY <1>2, SendStep
  <1>3. ASSUME NEW c \in Callers, Peek(c) \/ Allow(c) \/ Deny(c) \/ Advise(c) \/ Retry(c)
        PROVE  LimiterInv'
    BY <1>3, PeekStep, AllowStep, DenyStep, AdviseStep, RetryStep
  <1>4. CASE Tick
    BY <1>4, TickStep
  <1> QED
    BY <1>1, <1>2, <1>3, <1>4 DEF LimiterNext

\* What a client was promised is there once it has waited, and with its network
\* to itself it does not run out of retries.
LEMMA LimiterHonest ==
  ASSUME LimiterInv
  PROVE  ChargedToCaller /\ RetryIsHonest /\ AloneGetsThrough
  <1>1. ChargedToCaller
    BY DEF LimiterInv
  <1>2. RetryIsHonest
    <2> SUFFICES ASSUME NEW c \in Callers, request[c].pc = "wait", now >= request[c].until
                 PROVE  Level(request[c].key) >= request[c].promised
      BY DEF RetryIsHonest
    <2>1. /\ request[c].key \in Networks /\ request[c].until \in Nat /\ now \in Nat
          /\ request[c].promised \in Nat
      BY RequestTyped
    <2>2. Level(request[c].key) \in Nat
      BY <2>1, LevelTyped DEF LimiterInv
    <2>3. LeftTo(request[c].until) = 0
      BY <2>1 DEF LeftTo
    <2> QED
      BY <2>1, <2>2, <2>3 DEF LimiterInv, Promised
  <1>3. AloneGetsThrough
    <2> SUFFICES ASSUME NEW c \in Callers, request[c].pc = "failed", request[c].cost <= Burst
                 PROVE  \E d \in Callers \ {c} : network[d] = network[c]
      <3>1. \A c \in Callers : request[c].cost \in Nat
        BY RequestTyped
      <3> QED
        BY <3>1, Amounts DEF AloneGetsThrough
    <2>1. ~ Alone(c)
      BY DEF LimiterInv, Assured
    <2> QED
      BY <2>1 DEF Alone
  <1> QED
    BY <1>1, <1>2, <1>3

\* Whatever headers are sent and however the bucket map is pruned, requests are
\* charged to their own network, a wait that was told is enough, and a client
\* with its network to itself gets through.
THEOREM LimiterKeepsItsWord ==
  LimiterSpec => [](LimiterTypeOK /\ ChargedToCaller /\ RetryIsHonest /\ AloneGetsThrough)
  <1>1. LimiterInit => LimiterInv
    BY LimiterStart
  <1>2. LimiterInv /\ [LimiterNext]_limiterVars => LimiterInv'
    BY LimiterStep
  <1>3. LimiterInv => LimiterTypeOK /\ ChargedToCaller /\ RetryIsHonest /\ AloneGetsThrough
    BY LimiterHonest DEF LimiterInv
  <1> QED
    BY <1>1, <1>2, <1>3, PTL DEF LimiterSpec

-----------------------------------------------------------------------------
\* The budget of the abstract limiter.
budget == [k \in Networks |-> Level(k)]
answers == [c \in Callers |-> request[c].verdict]

LEMMA BudgetStart == LimiterInit => Steady!BudgetInit
  <1> SUFFICES ASSUME LimiterInit PROVE Steady!BudgetInit
    OBVIOUS
  <1>1. \A k \in Networks : Level(k) = Burst
    BY DEF LimiterInit, Level
  <1>2. \A c \in Callers : request[c].verdict = "none"
    BY DEF LimiterInit, Fresh
  <1> QED
    BY <1>1, <1>2 DEF Steady!BudgetInit

\* A step that touches no level and gives one request a verdict.
LEMMA VerdictStep ==
  ASSUME LimiterInv, NEW c \in Callers, NEW r, request' = [request EXCEPT ![c] = r],
         \A k \in Networks : Level(k)' = Level(k)
  PROVE  budget' = budget /\ answers' = [answers EXCEPT ![c] = r.verdict]
  <1>1. budget' = budget
    BY DEF budget
  <1>2. request \in [Callers -> Exchanges]
    BY DEF LimiterInv, LimiterTypeOK
  <1>3. \A d \in Callers : request'[d] = IF d = c THEN r ELSE request[d]
    BY <1>2
  <1>4. answers' = [d \in Callers |-> request'[d].verdict]
    BY DEF answers
  <1>5. [answers EXCEPT ![c] = r.verdict] =
          [d \in Callers |-> IF d = c THEN r.verdict ELSE request[d].verdict]
    BY DEF answers
  <1> QED
    BY <1>1, <1>3, <1>4, <1>5

LEMMA LimiterImplements ==
  ASSUME LimiterInv, [LimiterNext]_limiterVars
  PROVE  [Steady!BudgetNext]_Steady!budgetVars
  <1> DEFINE same == budget' = budget /\ answers' = answers
             refill == /\ budget' = [k \in Networks |-> IF budget[k] < Burst THEN budget[k] + 1 ELSE Burst]
                       /\ answers' = answers
             ask(c) == answers' = [answers EXCEPT ![c] = "none"] /\ budget' = budget
             admit(c, k, cost) == /\ budget[k] >= cost
                                  /\ budget' = [budget EXCEPT ![k] = @ - cost]
                                  /\ answers' = [answers EXCEPT ![c] = "admitted"]
             refuse(c, k, cost) == /\ budget[k] < cost
                                   /\ answers' = [answers EXCEPT ![c] = "refused"]
                                   /\ budget' = budget
             prices == {n * Token : n \in Costs} \cup {Token}
  <1>1. (\/ same \/ refill \/ \E c \in Callers : ask(c)
         \/ \E c \in Callers, k \in Networks, cost \in prices : admit(c, k, cost) \/ refuse(c, k, cost))
        => [Steady!BudgetNext]_Steady!budgetVars
    BY DEF Steady!BudgetNext, Steady!budgetVars, Steady!Refill, Steady!Ask, Steady!Admit,
           Steady!Refuse, budget, answers
  <1>2. \A k \in Networks : budget[k] = Level(k) /\ Level(k) \in Nat
    BY LevelTyped DEF budget, LimiterInv
  <1>3. \A d \in Callers : request[d].key \in Networks /\ request[d].cost \in Nat
    BY RequestTyped
  <1>4. \A d \in Callers : request[d].cost \in prices
    <2> SUFFICES ASSUME NEW d \in Callers PROVE request[d].cost \in prices
      OBVIOUS
    <2>1. request[d].cost \in {n * Token : n \in Costs \cup {1}}
      BY RequestTyped DEF Exchanges
    <2>2. PICK n \in Costs \cup {1} : request[d].cost = n * Token
      BY <2>1
    <2>3. CASE n \in Costs
      BY <2>2, <2>3
    <2>4. CASE n = 1
      <3>1. n * Token = Token
        BY <2>4, Amounts
      <3> QED
        BY <2>2, <3>1
    <2> QED
      BY <2>3, <2>4
  <1>5. Token \in prices
    OBVIOUS
  <1> HIDE DEF prices
  <1>6. CASE UNCHANGED limiterVars
    <2>1. same
      BY <1>6 DEF limiterVars, budget, answers, Level, Burst
    <2> QED
      BY <1>1, <2>1
  <1>7. CASE Tick
    <2>1. \A k \in Networks : Level(k)' = IF Level(k) < Burst THEN Level(k) + 1 ELSE Burst
      BY <1>7, TickLevels DEF LimiterInv
    <2>2. budget' = [k \in Networks |-> IF budget[k] < Burst THEN budget[k] + 1 ELSE Burst]
      BY <1>2, <2>1 DEF budget
    <2>3. answers' = answers
      BY <1>7 DEF Tick, answers
    <2> QED
      BY <1>1, <2>2, <2>3
  <1>8. ASSUME NEW c \in Callers, NEW n \in Costs, NEW batch \in BOOLEAN,
               NEW header \in Headers, NEW route \in Routes, Send(c, n, batch, header, route)
        PROVE  ask(c)
    <2>1. PICK r : r = [Fresh(c) EXCEPT !.pc = IF batch THEN "peek" ELSE "allow",
                                        !.key = ChargedKey(c, header, route),
                                        !.cost = n * Token, !.batch = batch]
      OBVIOUS
    <2>2. request' = [request EXCEPT ![c] = r] /\ UNCHANGED <<buckets, now, calls>>
      BY <1>8, <2>1 DEF Send, Moves
    <2>3. r.verdict = "none"
      BY <2>1 DEF Fresh
    <2>4. \A k \in Networks : Level(k)' = Level(k)
      BY <2>2, SameLevels
    <2>5. budget' = budget /\ answers' = [answers EXCEPT ![c] = r.verdict]
      BY <2>2, <2>4, VerdictStep
    <2> QED
      BY <2>3, <2>5
  <1>9. ASSUME NEW c \in Callers, Retry(c)
        PROVE  ask(c)
    <2>1. PICK r : r = [request[c] EXCEPT !.pc = IF request[c].batch THEN "peek" ELSE "allow",
                                          !.verdict = "none", !.promised = 0]
      OBVIOUS
    <2>2. request' = [request EXCEPT ![c] = r] /\ UNCHANGED <<buckets, now, calls>>
      BY <1>9, <2>1 DEF Retry, Moves
    <2>3. r.verdict = "none"
      BY <2>1, RequestTyped DEF Exchanges
    <2>4. \A k \in Networks : Level(k)' = Level(k)
      BY <2>2, SameLevels
    <2>5. budget' = budget /\ answers' = [answers EXCEPT ![c] = r.verdict]
      BY <2>2, <2>4, VerdictStep
    <2> QED
      BY <2>3, <2>5
  <1>10. ASSUME NEW c \in Callers, NEW r, request' = [request EXCEPT ![c] = r],
                r.verdict = answers[c], \A k \in Networks : Level(k)' = Level(k)
         PROVE  same
    <2>1. budget' = budget /\ answers' = [answers EXCEPT ![c] = r.verdict]
      BY <1>10, VerdictStep
    <2>2. [answers EXCEPT ![c] = answers[c]] = answers
      BY DEF answers
    <2> QED
      BY <1>10, <2>1, <2>2
  <1>11. ASSUME NEW c \in Callers, Peek(c)
         PROVE  same \/ refuse(c, request[c].key, Token)
    <2> DEFINE wait == RetryAfterN(request[c].key, Token)
    <2>0. \A k \in Networks : Level(k)' = Level(k)
      BY <1>11, SameLevels DEF Peek
    <2>1. CASE wait > 0
      <3>1. PICK r : r = TurnedAway(c, wait, Token)
        OBVIOUS
      <3>2. request' = [request EXCEPT ![c] = r]
        BY <1>11, <2>1, <3>1 DEF Peek, Moves
      <3>3. r.verdict = "refused"
        BY <3>1, RequestTyped DEF TurnedAway, Exchanges
      <3>4. Level(request[c].key) < Token
        BY <1>2, <1>3, <2>1, Amounts DEF RetryAfterN, Smaller
      <3>5. budget' = budget /\ answers' = [answers EXCEPT ![c] = r.verdict]
        BY <2>0, <3>2, VerdictStep
      <3> QED
        BY <1>2, <1>3, <3>3, <3>4, <3>5
    <2>2. CASE ~(wait > 0)
      <3>1. PICK r : r = [request[c] EXCEPT !.pc = "allow"]
        OBVIOUS
      <3>2. request' = [request EXCEPT ![c] = r]
        BY <1>11, <2>2, <3>1 DEF Peek, Moves
      <3>3. r.verdict = answers[c]
        BY <3>1, RequestTyped DEF Exchanges, answers
      <3> QED
        BY <1>10, <2>0, <3>2, <3>3
    <2> QED
      BY <2>1, <2>2
  <1>12. ASSUME NEW c \in Callers, Allow(c)
         PROVE  admit(c, request[c].key, request[c].cost)
    <2> DEFINE k == request[c].key  cost == request[c].cost
    <2>1. /\ Level(k) >= cost /\ AllowN(k, cost) /\ now' = now
          /\ request' = [d \in Callers |->
               IF d = c THEN [Fresh(c) EXCEPT !.verdict = "admitted"]
               ELSE IF request[d].key = k THEN [request[d] EXCEPT !.promised = 0]
               ELSE request[d]]
      BY <1>12 DEF Allow
    <2>2. LimiterTypeOK /\ k \in Networks /\ cost \in Nat
      BY <1>3 DEF LimiterInv
    <2>3. \A j \in Networks : Level(j)' =
             IF j = k /\ Level(k) >= cost THEN Level(k) - cost ELSE Level(j)
      <3> HIDE DEF k, cost
      <3> QED
        BY <2>1, <2>2, AllowNLevels
    <2>4. budget' = [budget EXCEPT ![k] = @ - cost]
      <3>1. budget' = [j \in Networks |-> IF j = k THEN Level(k) - cost ELSE Level(j)]
        BY <2>1, <2>3 DEF budget
      <3> QED
        BY <2>2, <3>1 DEF budget
    <2>5. \A d \in Callers : request'[d].verdict = IF d = c THEN "admitted" ELSE request[d].verdict
      <3>1. [Fresh(c) EXCEPT !.verdict = "admitted"].verdict = "admitted"
        BY DEF Fresh
      <3>2. \A d \in Callers : [request[d] EXCEPT !.promised = 0].verdict = request[d].verdict
        BY RequestTyped DEF Exchanges
      <3> QED
        BY <2>1, <3>1, <3>2
    <2>6. answers' = [answers EXCEPT ![c] = "admitted"]
      BY <2>5 DEF answers
    <2> QED
      BY <1>2, <2>1, <2>2, <2>4, <2>6
  <1>13. ASSUME NEW c \in Callers, Deny(c)
         PROVE  refuse(c, request[c].key, request[c].cost)
    <2> DEFINE k == request[c].key  cost == request[c].cost
    <2>1. Level(k) < cost /\ AllowN(k, cost) /\ now' = now
      BY <1>13 DEF Deny
    <2>2. LimiterTypeOK /\ k \in Networks /\ cost \in Nat /\ Level(k) \in Nat
      BY <1>2, <1>3 DEF LimiterInv
    <2>3. \A j \in Networks : Level(j)' =
             IF j = k /\ Level(k) >= cost THEN Level(k) - cost ELSE Level(j)
      <3> HIDE DEF k, cost
      <3> QED
        BY <2>1, <2>2, AllowNLevels
    <2>4. \A j \in Networks : Level(j)' = Level(j)
      BY <2>1, <2>2, <2>3
    <2>5. PICK r : r = [request[c] EXCEPT !.pc = "advise", !.verdict = "refused"]
      OBVIOUS
    <2>6. request' = [request EXCEPT ![c] = r]
      BY <1>13, <2>5 DEF Deny, Moves
    <2>7. r.verdict = "refused"
      BY <2>5, RequestTyped DEF Exchanges
    <2>8. budget' = budget /\ answers' = [answers EXCEPT ![c] = r.verdict]
      BY <2>4, <2>6, VerdictStep
    <2> QED
      BY <1>2, <2>1, <2>2, <2>7, <2>8
  <1>14. ASSUME NEW c \in Callers, Advise(c)
         PROVE  same
    <2> DEFINE wait == RetryAfterN(request[c].key, request[c].cost)
    <2>0. \A k \in Networks : Level(k)' = Level(k)
      BY <1>14, SameLevels DEF Advise
    <2>1. PICK r : r = TurnedAway(c, wait, Smaller(Burst, request[c].cost))
      OBVIOUS
    <2>2. request' = [request EXCEPT ![c] = r] /\ request[c].pc = "advise"
      BY <1>14, <2>1 DEF Advise, Moves
    <2>3. r.verdict = "refused"
      BY <2>1, RequestTyped DEF TurnedAway, Exchanges
    <2>4. answers[c] = "refused"
      BY <2>2 DEF answers, LimiterInv
    <2> QED
      BY <1>10, <2>0, <2>2, <2>3, <2>4
  <1> HIDE DEF same, refill, ask, admit, refuse
  <1>15. ASSUME NEW c \in Callers, Peek(c) \/ Allow(c) \/ Deny(c) \/ Advise(c) \/ Retry(c)
         PROVE  [Steady!BudgetNext]_Steady!budgetVars
    <2>1. request[c].key \in Networks /\ request[c].cost \in prices
      BY <1>3, <1>4
    <2> QED
      BY <1>1, <1>5, <1>9, <1>11, <1>12, <1>13, <1>14, <1>15, <2>1
  <1>16. ASSUME NEW c \in Callers, NEW n \in Costs, NEW batch \in BOOLEAN,
                NEW header \in Headers, NEW route \in Routes, Send(c, n, batch, header, route)
         PROVE  [Steady!BudgetNext]_Steady!budgetVars
    BY <1>1, <1>8, <1>16
  <1> QED
    BY <1>6, <1>7, <1>15, <1>16 DEF LimiterNext

\* The buckets, pruned or not, are one steady budget for each key, and a request
\* is admitted exactly when that budget covers it.
THEOREM LimiterIsSteady == LimiterSpec => LimiterRefinesBudget
  <1>1. LimiterInit => LimiterInv
    BY LimiterStart
  <1>2. LimiterInv /\ [LimiterNext]_limiterVars => LimiterInv'
    BY LimiterStep
  <1>3. LimiterInit => Steady!BudgetInit
    BY BudgetStart
  <1>4. LimiterInv /\ [LimiterNext]_limiterVars => [Steady!BudgetNext]_Steady!budgetVars
    BY LimiterImplements
  <1> QED
    BY <1>1, <1>2, <1>3, <1>4, PTL DEF LimiterSpec, LimiterRefinesBudget, Steady!BudgetSpec

-----------------------------------------------------------------------------
(* Accounts, roles and sessions.                                           *)

\* The sessions there are: their ids were issued, no two share one, and their
\* accounts exist.
SessionsKept ==
  /\ \A s \in sessions : s.id <= issued /\ Exists(s.account)
  /\ \A s, t \in sessions : s.id = t.id => s = t

\* What is left to do after the statement on the row is a deletion of sessions.
SessionsToCome == \A c \in Calls : call[c].at = "sessions" => call[c].deed \in {"disable", "password"}

\* The part of a deletion that holds locks.
Deleting(k) == k.deed = "delete" /\ k.at \in {"count", "counting", "erase"}

\* A deletion holds its own row, which is there, and rows of administrators;
\* no row is held by two; and before it erases an administrator it holds another.
RowsHeld ==
  /\ \A c \in Calls : ~ Deleting(call[c]) => call[c].held = {}
  /\ \A c \in Calls : Deleting(call[c]) => /\ Exists(call[c].of) /\ call[c].held \subseteq Admins
  /\ \A c, d \in Calls : c # d => Locked(c) \cap Locked(d) = {}
  /\ \A c \in Calls : On(c, "delete", "erase") =>
       row[call[c].of].role # "admin" \/ \E b \in call[c].held : b # call[c].of

\* A purge about to commit deletes all sessions its account had when it looked:
\* one it misses was issued since.
PurgesSeen ==
  \A c \in Calls : call[c].at = "commit" =>
    /\ call[c].session <= issued
    /\ \A s \in sessions : s.account = call[c].of => s.id \in call[c].ids \/ s.id > call[c].session

AccountsInv == AccountsTypeOK /\ SessionsKept /\ SessionsToCome /\ RowsHeld /\ RevokedSessionsEnd

\* The variables' types, as sets of records.
AccountRow == [role : Roles \cup {"none", "gone"}, disabled : BOOLEAN, password : 0..MaxPasswords]
SessionRow == [id : 1..MaxSessions, account : Members, password : 0..MaxPasswords]
CallRecord ==
  [deed : Deeds \cup {"none"}, of : Members, at : Stages,
   session : 0..MaxSessions, password : 0..MaxPasswords,
   role : Roles, todo : SUBSET Members,
   held : SUBSET Members, ids : SUBSET (1..MaxSessions)]

-----------------------------------------------------------------------------
LEMMA AccountsTyped ==
  AccountsTypeOK <=>
    /\ row \in [Members -> AccountRow] /\ sessions \subseteq SessionRow
    /\ issued \in 0..MaxSessions /\ stray \subseteq 1..MaxSessions
    /\ call \in [Calls -> CallRecord]
  BY DEF AccountsTypeOK, AccountRow, SessionRow, CallRecord

LEMMA NoCallTyped ==
  /\ NoCall \in CallRecord /\ NoCall.deed = "none" /\ NoCall.at = "write" /\ NoCall.held = {}
  /\ NoCall.of = Boot /\ NoCall.session = 0 /\ NoCall.role = "user"
  BY MembersAssumption DEF NoCall, CallRecord, Stages, Roles

LEMMA AskedTyped ==
  ASSUME NEW deed \in Deeds, NEW a \in Members
  PROVE  /\ Asked(deed, a) \in CallRecord /\ Asked(deed, a).deed = deed /\ Asked(deed, a).of = a
         /\ Asked(deed, a).at = "write" /\ Asked(deed, a).held = {}
  <1>1. PICK k : k = [NoCall EXCEPT !.deed = deed, !.of = a]
    OBVIOUS
  <1>2. k \in CallRecord /\ k.deed = deed /\ k.of = a /\ k.at = "write" /\ k.held = {}
    BY <1>1, NoCallTyped DEF CallRecord
  <1> QED
    BY <1>1, <1>2 DEF Asked

\* No session that stays has the id of one that goes.
LEMMA IdsApart ==
  ASSUME SessionsKept, NEW S \in SUBSET sessions, NEW s \in sessions \ S
  PROVE  s.id \notin Ids(S)
  BY DEF SessionsKept, Ids

\* The sessions of an account have ids.
LEMMA IdsTyped ==
  ASSUME AccountsTypeOK, NEW S \in SUBSET sessions
  PROVE  Ids(S) \subseteq 1..MaxSessions
  BY DEF AccountsTypeOK, Ids

\* The calls after one of them moved.
LEMMA CallsAfter ==
  ASSUME AccountsTypeOK, NEW c \in Calls, NEW k, call' = [call EXCEPT ![c] = k]
  PROVE  /\ call'[c] = k /\ \A d \in Calls : d # c => call'[d] = call[d]
         /\ k \in CallRecord => call' \in [Calls -> CallRecord]
  <1>1. call \in [Calls -> CallRecord]
    BY AccountsTyped
  <1> QED
    BY <1>1

\* A session is revoked only while its deletion is to come or it slipped past:
\* what a step of call c must leave true.
LEMMA RevocationKept ==
  ASSUME AccountsInv, NEW c \in Calls, NEW k, call' = [call EXCEPT ![c] = k],
         call[c].at = "sessions" =>
           \A s \in sessions' : s.account = call[c].of => s.id \in stray',
         \A s \in sessions' :
           \/ s.id \in stray' \/ (k.of = s.account /\ k.at = "sessions")
           \/ ~ row'[s.account].disabled /\ s.password = row'[s.account].password
           \/ /\ s \in sessions
              /\ row'[s.account].disabled => row[s.account].disabled
              /\ row'[s.account].password = row[s.account].password
              /\ s.id \in stray => s.id \in stray'
  PROVE  RevokedSessionsEnd'
  <1> SUFFICES ASSUME NEW s \in sessions',
                      row'[s.account].disabled \/ s.password # row'[s.account].password,
                      s.id \notin stray'
               PROVE  \E d \in Calls : call'[d].of = s.account /\ call'[d].at = "sessions"
    BY DEF RevokedSessionsEnd, Reached
  <1>1. call'[c] = k /\ \A d \in Calls : d # c => call'[d] = call[d]
    BY CallsAfter DEF AccountsInv
  <1>2. CASE k.of = s.account /\ k.at = "sessions"
    BY <1>1, <1>2
  <1>3. CASE ~ (k.of = s.account /\ k.at = "sessions")
    <2>1. /\ s \in sessions /\ s.id \notin stray
          /\ row[s.account].disabled \/ s.password # row[s.account].password
      BY <1>3
    <2>2. PICK d \in Calls : call[d].of = s.account /\ call[d].at = "sessions"
      BY <2>1 DEF AccountsInv, RevokedSessionsEnd, Reached
    <2>3. d # c
      BY <2>2
    <2> QED
      BY <1>1, <2>2, <2>3
  <1> QED
    BY <1>2, <1>3

\* A call moves on and holds no row, and no row that is held changes its role.
LEMMA HoldersKept ==
  ASSUME AccountsInv, NEW c \in Calls, NEW k, call' = [call EXCEPT ![c] = k],
         ~ Deleting(k), k.held = {},
         k.at = "sessions" => k.deed \in {"disable", "password"},
         \A d \in Calls \ {c} : \A a \in Locked(d) : row'[a].role = row[a].role
  PROVE  SessionsToCome' /\ RowsHeld'
  <1>1. call'[c] = k /\ \A d \in Calls : d # c => call'[d] = call[d]
    BY CallsAfter DEF AccountsInv
  <1>2. SessionsToCome'
    BY <1>1 DEF AccountsInv, SessionsToCome
  <1>3. Locked(c)' = {} /\ \A d \in Calls : d # c => Locked(d)' = Locked(d)
    BY <1>1 DEF Locked, Deleting
  <1>4. \A d \in Calls : Deleting(call[d]) => Locked(d) = {call[d].of} \cup call[d].held
    BY DEF Locked, Deleting
  <1>5. ASSUME NEW d \in Calls, d # c, Deleting(call[d])
        PROVE  /\ Exists(call[d].of)' /\ (call[d].held \subseteq Admins)'
    <2>1. /\ Exists(call[d].of) /\ call[d].held \subseteq Admins
          /\ \A a \in call[d].held \cup {call[d].of} : row'[a].role = row[a].role
      BY <1>4, <1>5 DEF AccountsInv, RowsHeld
    <2> QED
      BY <1>1, <1>5, <2>1 DEF Exists, Admins
  <1>6. ASSUME NEW d \in Calls, On(d, "delete", "erase")'
        PROVE  row'[call'[d].of].role # "admin" \/ \E b \in call'[d].held : b # call'[d].of
    <2>1. d # c /\ call'[d] = call[d] /\ On(d, "delete", "erase") /\ Deleting(call[d])
      BY <1>1, <1>6 DEF On, Deleting
    <2>2. row'[call[d].of].role = row[call[d].of].role
      BY <1>4, <2>1
    <2> QED
      BY <2>1, <2>2 DEF AccountsInv, RowsHeld
  <1>7. \A d \in Calls : Deleting(call[d])' => d # c /\ Deleting(call[d])
    BY <1>1 DEF Deleting
  <1>8. \A d \in Calls : ~ Deleting(call'[d]) => call'[d].held = {}
    BY <1>1 DEF AccountsInv, RowsHeld
  <1>9. \A d, e \in Calls : d # e => Locked(d)' \cap Locked(e)' = {}
    BY <1>3 DEF AccountsInv, RowsHeld
  <1>10. \A d \in Calls : Deleting(call'[d]) => Exists(call[d].of)' /\ (call[d].held \subseteq Admins)'
    BY <1>1, <1>5, <1>7
  <1> QED
    BY <1>2, <1>6, <1>8, <1>9, <1>10 DEF RowsHeld

\* What is left of the sessions has its ids and its accounts.
LEMMA SessionsLeft ==
  ASSUME SessionsKept, sessions' \subseteq sessions, issued' = issued,
         \A s \in sessions' : row[s.account].role \in Roles => row'[s.account].role \in Roles
  PROVE  SessionsKept'
  BY DEF SessionsKept, Exists

-----------------------------------------------------------------------------
\* A call begins: nothing else changes.
LEMMA BeginStep ==
  ASSUME AccountsInv, NEW c \in Calls, NEW k \in CallRecord, k.at = "write", k.held = {},
         Begin(c, k), UNCHANGED <<row, sessions, issued, stray>>
  PROVE  AccountsInv'
  <1>1. call[c].deed = "none" /\ call' = [call EXCEPT ![c] = k]
    BY DEF Begin
  <1>2. AccountsTypeOK'
    BY <1>1, CallsAfter, AccountsTyped DEF AccountsInv, AccountsTypeOK, CallRecord
  <1>3. SessionsKept'
    BY SessionsLeft DEF AccountsInv
  <1>4. SessionsToCome' /\ RowsHeld'
    BY <1>1, HoldersKept DEF Deleting
  <1>5. call[c].at # "sessions"
    BY <1>1 DEF AccountsInv, SessionsToCome
  <1>6. RevokedSessionsEnd'
    BY <1>1, <1>5, RevocationKept
  <1> QED
    BY <1>2, <1>3, <1>4, <1>6 DEF AccountsInv

LEMMA AskStep ==
  ASSUME AccountsInv, NEW c \in Calls, Ask(c)
  PROVE  AccountsInv'
  <1>1. ASSUME NEW k \in CallRecord, k.at = "write", k.held = {}, Start(c, k)
        PROVE  AccountsInv'
    BY <1>1, BeginStep DEF Start
  <1>2. ASSUME NEW deed \in Deeds, NEW a \in Members, Start(c, Asked(deed, a))
        PROVE  AccountsInv'
    BY <1>1, <1>2, AskedTyped
  <1>3. sessions \subseteq SessionRow
    BY AccountsTyped DEF AccountsInv
  <1>4. ASSUME NEW a \in Members, NEW r \in Given, Start(c, [Asked("role", a) EXCEPT !.role = r])
        PROVE  AccountsInv'
    <2>1. PICK k : k = [Asked("role", a) EXCEPT !.role = r]
      OBVIOUS
    <2>2. r \in Roles
      BY MembersAssumption DEF Roles
    <2>3. "role" \in Deeds
      BY DEF Deeds
    <2>4. k \in CallRecord /\ k.at = "write" /\ k.held = {}
      BY <2>1, <2>2, <2>3, AskedTyped DEF CallRecord
    <2> QED
      BY <1>1, <1>4, <2>1, <2>4
  <1>5. ASSUME NEW s \in sessions, NEW a \in Members, NEW deed \in {"disable", "enable"},
               AdminSetDisabled(c, s, deed, a)
        PROVE  AccountsInv'
    BY <1>2, <1>5 DEF AdminSetDisabled, AdminForm, Deeds
  <1>6. ASSUME NEW s \in sessions, NEW a \in Members, HandleAdminAccountPurge(c, s, a)
        PROVE  AccountsInv'
    BY <1>2, <1>6 DEF HandleAdminAccountPurge, AdminForm, Deeds
  <1>7. ASSUME NEW s \in sessions, NEW a \in Members, NEW r \in Given, HandleAdminAccountRole(c, s, a, r)
        PROVE  AccountsInv'
    BY <1>4, <1>7 DEF HandleAdminAccountRole, AdminForm
  <1>8. ASSUME NEW s \in sessions, NEW typed, HandleChangePassword(c, s, typed)
        PROVE  AccountsInv'
    <2>1. s.account \in Members /\ s.id \in 0..MaxSessions
      BY <1>3 DEF SessionRow
    <2>2. PICK k : k = [Asked("password", s.account) EXCEPT !.session = s.id]
      OBVIOUS
    <2>3. "password" \in Deeds
      BY DEF Deeds
    <2>4. k \in CallRecord /\ k.at = "write" /\ k.held = {}
      BY <2>1, <2>2, <2>3, AskedTyped DEF CallRecord
    <2> QED
      BY <1>1, <1>8, <2>2, <2>4 DEF HandleChangePassword
  <1>9. ASSUME NEW s \in sessions, NEW typed, HandleDeleteAccount(c, s, typed)
        PROVE  AccountsInv'
    <2>1. s.account \in Members
      BY <1>3 DEF SessionRow
    <2> QED
      BY <1>2, <1>9, <2>1 DEF HandleDeleteAccount, Deeds
  <1>10. ASSUME NEW a \in Members, NEW typed \in 1..MaxPasswords, HandleLogin(c, a, typed)
         PROVE  AccountsInv'
    <2>1. PICK k : k = [Asked("login", a) EXCEPT !.password = typed]
      OBVIOUS
    <2>2. "login" \in Deeds /\ typed \in 0..MaxPasswords
      BY DEF Deeds
    <2>3. k \in CallRecord /\ k.at = "write" /\ k.held = {}
      BY <2>1, <2>2, AskedTyped DEF CallRecord
    <2> QED
      BY <1>1, <1>10, <2>1, <2>3 DEF HandleLogin
  <1>11. ASSUME NEW a \in Members,
                \/ \E deed \in {"disable", "enable"} : AccountDisableCmd(c, deed, a)
                \/ AccountPurgeCmd(c, a)
                \/ \E r \in Given : AccountRoleCmd(c, a, r)
                \/ AccountSetPasswordCmd(c, a)
         PROVE  AccountsInv'
    BY <1>2, <1>4, <1>11 DEF AccountDisableCmd, AccountPurgeCmd, AccountRoleCmd,
                            AccountSetPasswordCmd, Deeds
  <1>12. CASE HasNoAdmin(c)
    <2>1. Start(c, Asked("bootstrap", Boot)) /\ "bootstrap" \in Deeds /\ Boot \in Members
      BY <1>12, MembersAssumption DEF HasNoAdmin, Start, Deeds
    <2> QED
      BY <1>2, <2>1
  <1> QED
    BY <1>5, <1>6, <1>7, <1>8, <1>9, <1>10, <1>11, <1>12 DEF Ask

-----------------------------------------------------------------------------
\* A call that ends holds nothing and has no deletion to come.
LEMMA EndStep ==
  ASSUME AccountsInv, NEW c \in Calls, End(c),
         row' \in [Members -> AccountRow], sessions' \subseteq SessionRow,
         issued' \in 0..MaxSessions, stray' \subseteq 1..MaxSessions, SessionsKept',
         \A d \in Calls \ {c} : \A a \in Locked(d) : row'[a].role = row[a].role,
         call[c].at = "sessions" =>
           \A s \in sessions' : s.account = call[c].of => s.id \in stray',
         \A s \in sessions' :
           \/ s.id \in stray'
           \/ ~ row'[s.account].disabled /\ s.password = row'[s.account].password
           \/ /\ s \in sessions
              /\ row'[s.account].disabled => row[s.account].disabled
              /\ row'[s.account].password = row[s.account].password
              /\ s.id \in stray => s.id \in stray'
  PROVE  AccountsInv'
  <1>1. call' = [call EXCEPT ![c] = NoCall]
    BY DEF End
  <1>2. call' \in [Calls -> CallRecord]
    BY <1>1, CallsAfter, NoCallTyped DEF AccountsInv
  <1>3. AccountsTypeOK'
    BY <1>2 DEF AccountsTypeOK, AccountRow, SessionRow, CallRecord
  <1>4. ~ Deleting(NoCall)
    BY NoCallTyped DEF Deleting
  <1>5. SessionsToCome' /\ RowsHeld'
    BY <1>1, <1>4, NoCallTyped, HoldersKept
  <1>6. RevokedSessionsEnd'
    BY <1>1, RevocationKept
  <1> QED
    BY <1>3, <1>5, <1>6 DEF AccountsInv

\* What is known before a step of call c.
LEMMA CallTyped ==
  ASSUME AccountsInv, NEW c \in Calls
  PROVE  /\ call[c] \in CallRecord /\ call[c].of \in Members
         /\ row \in [Members -> AccountRow] /\ sessions \subseteq SessionRow
         /\ issued \in 0..MaxSessions /\ stray \subseteq 1..MaxSessions
         /\ SessionsKept /\ MaxSessions \in Nat /\ MaxPasswords \in Nat \ {0}
         /\ \A s \in sessions : s.account \in Members /\ row[s.account] \in AccountRow
  <1>1. /\ call \in [Calls -> CallRecord] /\ row \in [Members -> AccountRow]
        /\ sessions \subseteq SessionRow /\ issued \in 0..MaxSessions /\ stray \subseteq 1..MaxSessions
    BY AccountsTyped DEF AccountsInv
  <1>2. call[c].of \in Members
    BY <1>1 DEF CallRecord
  <1>3. \A s \in sessions : s.account \in Members
    BY <1>1 DEF SessionRow
  <1> QED
    BY <1>1, <1>2, <1>3, MembersAssumption DEF AccountsInv

LEMMA CreateSessionStep ==
  ASSUME AccountsInv, NEW c \in Calls, CreateSession(c)
  PROVE  AccountsInv'
  <1> DEFINE a == call[c].of
             new == [id |-> issued + 1, account |-> a, password |-> call[c].password]
  <1>1. /\ On(c, "login", "write") /\ End(c) /\ row' = row
    BY DEF CreateSession
  <1>2. /\ call[c] \in CallRecord /\ a \in Members /\ row \in [Members -> AccountRow]
        /\ sessions \subseteq SessionRow /\ issued \in 0..MaxSessions /\ stray \subseteq 1..MaxSessions
        /\ SessionsKept /\ MaxSessions \in Nat
    BY CallTyped
  <1>3. call[c].at # "sessions"
    BY <1>1 DEF On
  <1>4. CASE Exists(a)
    <2>1. /\ issued < MaxSessions /\ issued' = issued + 1 /\ sessions' = sessions \cup {new}
          /\ stray' = IF row[a].disabled \/ row[a].password # call[c].password
                      THEN stray \cup {issued + 1} ELSE stray
      BY <1>4 DEF CreateSession
    <2>2. issued + 1 \in 1..MaxSessions /\ issued' \in 0..MaxSessions
      BY <1>2, <2>1
    <2>3. new \in SessionRow
      BY <1>2, <2>2 DEF SessionRow, CallRecord
    <2>4. sessions' \subseteq SessionRow /\ stray' \subseteq 1..MaxSessions
      BY <1>2, <2>1, <2>2, <2>3
    <2>5. SessionsKept'
      <3>1. \A s \in sessions : s.id \in Nat /\ s.id <= issued
        BY <1>2 DEF SessionsKept, SessionRow
      <3>2. new.id = issued + 1 /\ new.account = a
        OBVIOUS
      <3>3. \A s \in sessions' : s.id <= issued' /\ Exists(s.account)'
        BY <1>1, <1>2, <1>4, <2>1, <3>1, <3>2 DEF SessionsKept, Exists
      <3>4. \A s, t \in sessions' : s.id = t.id => s = t
        <4> HIDE DEF new
        <4> QED
          BY <1>2, <2>1, <3>1, <3>2 DEF SessionsKept
      <3> QED
        BY <3>3, <3>4 DEF SessionsKept
    <2>6. ASSUME NEW s \in sessions'
          PROVE  \/ s.id \in stray'
                 \/ ~ row'[s.account].disabled /\ s.password = row'[s.account].password
                 \/ /\ s \in sessions
                    /\ row'[s.account].disabled => row[s.account].disabled
                    /\ row'[s.account].password = row[s.account].password
                    /\ s.id \in stray => s.id \in stray'
      <3>1. CASE s \in sessions
        BY <1>1, <2>1, <3>1
      <3>2. CASE s = new
        BY <1>1, <2>1, <3>2
      <3> QED
        BY <2>1, <3>1, <3>2
    <2> HIDE DEF new
    <2> QED
      BY <1>1, <1>2, <1>3, <2>2, <2>4, <2>5, <2>6, EndStep
  <1>5. CASE ~ Exists(a)
    <2>1. UNCHANGED <<issued, sessions, stray>>
      BY <1>5 DEF CreateSession
    <2>2. SessionsKept'
      BY <1>1, <1>2, <2>1, SessionsLeft
    <2> QED
      BY <1>1, <1>2, <1>3, <2>1, <2>2, EndStep
  <1> QED
    BY <1>4, <1>5

\* Sessions are deleted, and those that stay and might be revoked are strays.
LEMMA SessionsDeleted ==
  ASSUME AccountsInv, NEW c \in Calls, End(c), NEW S \in SUBSET sessions, NEW T \in SUBSET sessions,
         sessions' = sessions \ S, stray' = (stray \ Ids(S)) \cup Ids(T), issued' = issued,
         row' \in [Members -> AccountRow],
         \A d \in Calls \ {c} : \A a \in Locked(d) : row'[a].role = row[a].role,
         call[c].at = "sessions" =>
           \A s \in sessions \ S : s.account = call[c].of => s \in T,
         \A s \in sessions \ S :
           /\ row[s.account].role \in Roles => row'[s.account].role \in Roles
           /\ \/ s \in T
              \/ /\ row'[s.account].disabled => row[s.account].disabled
                 /\ row'[s.account].password = row[s.account].password
  PROVE  AccountsInv'
  <1>1. /\ sessions \subseteq SessionRow /\ issued \in 0..MaxSessions /\ stray \subseteq 1..MaxSessions
        /\ SessionsKept
    BY CallTyped
  <1>2. Ids(T) \subseteq 1..MaxSessions /\ \A s \in T : s.id \in Ids(T)
    BY IdsTyped DEF AccountsInv, Ids
  <1>3. \A s \in sessions \ S : s.id \notin Ids(S)
    BY <1>1, IdsApart
  <1>4. SessionsKept'
    BY <1>1, SessionsLeft
  <1>5. \A s \in sessions' : s.id \in stray => s.id \in stray'
    BY <1>3
  <1>6. \A s \in sessions' : s \in T => s.id \in stray'
    BY <1>2
  <1>7. sessions' \subseteq SessionRow /\ issued' \in 0..MaxSessions /\ stray' \subseteq 1..MaxSessions
    BY <1>1, <1>2
  <1>8. call[c].at = "sessions" =>
           \A s \in sessions' : s.account = call[c].of => s.id \in stray'
    BY <1>6
  <1>9. \A s \in sessions' :
           \/ s.id \in stray'
           \/ ~ row'[s.account].disabled /\ s.password = row'[s.account].password
           \/ /\ s \in sessions
              /\ row'[s.account].disabled => row[s.account].disabled
              /\ row'[s.account].password = row[s.account].password
              /\ s.id \in stray => s.id \in stray'
    BY <1>5, <1>6
  <1> QED
    BY <1>4, <1>7, <1>8, <1>9, EndStep

\* A row that is held exists, and a row that no other call holds may change.
LEMMA HeldExist ==
  ASSUME AccountsInv, NEW d \in Calls, NEW a \in Locked(d)
  PROVE  row[a].role \in Roles /\ a \in Members
  <1>1. Deleting(call[d]) /\ (a = call[d].of \/ a \in call[d].held)
    BY DEF Locked, Deleting
  <1>2. Exists(call[d].of) /\ call[d].held \subseteq Admins /\ call[d].of \in Members
    BY <1>1, CallTyped DEF AccountsInv, RowsHeld
  <1> QED
    BY <1>1, <1>2 DEF Exists, Admins, Roles

LEMMA IdsOfNone == Ids({}) = {}
  BY DEF Ids

LEMMA DeleteSessionsForAccountStep ==
  ASSUME AccountsInv, NEW c \in Calls, DeleteSessionsForAccount(c)
  PROVE  AccountsInv'
  <1> DEFINE S == SessionsOf(call[c].of)
  <1>1. /\ End(c) /\ row' = row /\ issued' = issued /\ sessions' = sessions \ S
        /\ stray' = (stray \ Ids(S)) \cup Ids({})
    BY IdsOfNone DEF DeleteSessionsForAccount
  <1>2. S \in SUBSET sessions /\ \A s \in sessions \ S : s.account # call[c].of
    BY DEF SessionsOf
  <1>3. row' \in [Members -> AccountRow]
    BY <1>1, CallTyped
  <1> HIDE DEF S
  <1> QED
    BY <1>1, <1>2, <1>3, SessionsDeleted

LEMMA DeleteOtherSessionsStep ==
  ASSUME AccountsInv, NEW c \in Calls, DeleteOtherSessions(c)
  PROVE  AccountsInv'
  <1> DEFINE S == {s \in SessionsOf(call[c].of) : s.id # call[c].session}
             T == {s \in sessions : s.id = call[c].session}
  <1>1. /\ S \in SUBSET sessions /\ T \in SUBSET sessions
        /\ \A s \in sessions \ S : s.account = call[c].of => s \in T
    BY DEF SessionsOf
  <1>2. Ids(sessions) \cap {call[c].session} = Ids(T)
    BY DEF Ids
  <1>3. /\ End(c) /\ row' = row /\ issued' = issued /\ sessions' = sessions \ S
        /\ stray' = (stray \ Ids(S)) \cup Ids(T)
    BY <1>2 DEF DeleteOtherSessions
  <1>4. row' \in [Members -> AccountRow]
    BY <1>3, CallTyped
  <1> HIDE DEF S, T
  <1> QED
    BY <1>1, <1>3, <1>4, SessionsDeleted

\* A call ends and sessions stay: those of T are strays.
LEMMA RowWritten ==
  ASSUME AccountsInv, NEW c \in Calls, End(c), NEW T \in SUBSET sessions,
         sessions' = sessions, stray' = stray \cup Ids(T), issued' = issued,
         row' \in [Members -> AccountRow],
         \A d \in Calls \ {c} : \A a \in Locked(d) : row'[a].role = row[a].role,
         call[c].at = "sessions" => \A s \in sessions : s.account = call[c].of => s \in T,
         \A s \in sessions :
           /\ row[s.account].role \in Roles => row'[s.account].role \in Roles
           /\ \/ s \in T
              \/ /\ row'[s.account].disabled => row[s.account].disabled
                 /\ row'[s.account].password = row[s.account].password
  PROVE  AccountsInv'
  <1>1. sessions' = sessions \ {} /\ stray' = (stray \ Ids({})) \cup Ids(T)
    BY IdsOfNone
  <1>2. sessions \ {} = sessions
    OBVIOUS
  <1> QED
    BY <1>1, <1>2, SessionsDeleted

LEMMA CreateAdminAccountStep ==
  ASSUME AccountsInv, NEW c \in Calls, CreateAdminAccount(c)
  PROVE  AccountsInv'
  <1>1. /\ On(c, "bootstrap", "write") /\ End(c) /\ UNCHANGED <<sessions, issued, stray>>
        /\ row' = IF row[Boot].role = "none" THEN [row EXCEPT ![Boot] = Row("admin", 1)] ELSE row
    BY DEF CreateAdminAccount
  <1>2. row \in [Members -> AccountRow] /\ Boot \in Members /\ Row("admin", 1) \in AccountRow
    BY CallTyped, MembersAssumption DEF AccountRow, Row, Roles
  <1>3. row' \in [Members -> AccountRow] /\ \A a \in Members : row[a].role # "none" => row'[a] = row[a]
    BY <1>1, <1>2
  <1>4. \A d \in Calls : \A a \in Locked(d) : row'[a].role = row[a].role
    BY <1>3, HeldExist DEF Roles
  <1>5. \A s \in sessions : s.account \in Members /\ row[s.account].role \in Roles
    BY CallTyped DEF SessionsKept, Exists
  <1>6. \A s \in sessions : row'[s.account] = row[s.account]
    BY <1>3, <1>5 DEF Roles
  <1>7. stray' = stray \cup Ids({}) /\ call[c].at # "sessions"
    BY <1>1, IdsOfNone DEF On
  <1> QED
    BY <1>1, <1>3, <1>4, <1>6, <1>7, RowWritten

\* The row a statement by name writes is held by no other call.
LEMMA WrittenIsFree ==
  ASSUME NEW c \in Calls, NEW a, Unlocked(a, c), NEW d \in Calls \ {c}
  PROVE  a \notin Locked(d)
  BY DEF Unlocked

LEMMA SetAccountRoleStep ==
  ASSUME AccountsInv, NEW c \in Calls, SetAccountRole(c)
  PROVE  AccountsInv'
  <1> DEFINE a == call[c].of
  <1>1. /\ call[c].at = "write" /\ Unlocked(a, c) /\ End(c) /\ UNCHANGED <<sessions, issued, stray>>
        /\ row' = IF Exists(a) THEN [row EXCEPT ![a].role = call[c].role] ELSE row
    BY DEF SetAccountRole, Write, Writable
  <1>2. /\ row \in [Members -> AccountRow] /\ a \in Members /\ call[c].role \in Roles
        /\ \A s \in sessions : s.account \in Members
    BY CallTyped DEF CallRecord
  <1>3. /\ row' \in [Members -> AccountRow]
        /\ \A b \in Members : /\ row'[b].disabled = row[b].disabled
                              /\ row'[b].password = row[b].password
                              /\ b # a => row'[b] = row[b]
                              /\ row[b].role \in Roles => row'[b].role \in Roles
    <2>1. CASE Exists(a)
      <3>1. PICK new : new = [row[a] EXCEPT !.role = call[c].role]
        OBVIOUS
      <3>2. new \in AccountRow /\ new.disabled = row[a].disabled /\ new.password = row[a].password
            /\ new.role \in Roles
        BY <1>2, <3>1 DEF AccountRow
      <3>3. row' = [row EXCEPT ![a] = new]
        BY <1>1, <2>1, <3>1
      <3> QED
        BY <1>2, <3>2, <3>3
    <2>2. CASE ~ Exists(a)
      BY <1>1, <1>2, <2>2
    <2> QED
      BY <2>1, <2>2
  <1>4. \A d \in Calls \ {c} : \A b \in Locked(d) : b # a /\ b \in Members
    BY <1>1, WrittenIsFree, HeldExist
  <1>5. stray' = stray \cup Ids({}) /\ call[c].at # "sessions"
    BY <1>1, IdsOfNone
  <1>6. \A d \in Calls \ {c} : \A b \in Locked(d) : row'[b].role = row[b].role
    BY <1>3, <1>4
  <1> QED
    BY <1>1, <1>2, <1>3, <1>5, <1>6, RowWritten

LEMMA CommitPurgeStep ==
  ASSUME AccountsInv, PurgesSeen, NEW c \in Calls, CommitPurge(c)
  PROVE  AccountsInv'
  <1> DEFINE a == call[c].of
             S == {s \in sessions : s.id \in call[c].ids}
             T == {s \in SessionsOf(a) : s.id > call[c].session}
  <1>0. Ids(T) = {id \in Ids(SessionsOf(a)) : id > call[c].session}
    BY DEF Ids
  <1>1. /\ On(c, "purge", "commit") /\ End(c) /\ issued' = issued
        /\ row' = IF Exists(a) THEN [row EXCEPT ![a].disabled = TRUE] ELSE row
        /\ sessions' = sessions \ S /\ stray' = (stray \ Ids(S)) \cup Ids(T)
    BY <1>0 DEF CommitPurge
  <1>2. /\ row \in [Members -> AccountRow] /\ a \in Members
        /\ \A s \in sessions : s.account \in Members
    BY CallTyped
  <1>3. /\ row' \in [Members -> AccountRow]
        /\ \A b \in Members : row'[b].role = row[b].role /\ (b # a => row'[b] = row[b])
    <2>1. CASE Exists(a)
      <3>1. PICK new : new = [row[a] EXCEPT !.disabled = TRUE]
        OBVIOUS
      <3>2. new \in AccountRow /\ new.role = row[a].role
        BY <1>2, <3>1 DEF AccountRow
      <3>3. row' = [row EXCEPT ![a] = new]
        BY <1>1, <2>1, <3>1
      <3> QED
        BY <1>2, <3>2, <3>3
    <2>2. CASE ~ Exists(a)
      BY <1>1, <1>2, <2>2
    <2> QED
      BY <2>1, <2>2
  <1>4. \A d \in Calls \ {c} : \A b \in Locked(d) : row'[b].role = row[b].role
    BY <1>3, HeldExist
  <1>5. /\ S \in SUBSET sessions /\ T \in SUBSET sessions
        /\ \A s \in sessions \ S : s \in T \/ s.account # a
    BY <1>1 DEF SessionsOf, PurgesSeen, On
  <1>6. call[c].at # "sessions"
    BY <1>1 DEF On
  <1>7. \A s \in sessions \ S :
           /\ row[s.account].role \in Roles => row'[s.account].role \in Roles
           /\ \/ s \in T
              \/ /\ row'[s.account].disabled => row[s.account].disabled
                 /\ row'[s.account].password = row[s.account].password
    BY <1>2, <1>3, <1>5
  <1> HIDE DEF S, T
  <1> QED
    BY <1>1, <1>3, <1>4, <1>5, <1>6, <1>7, SessionsDeleted

LEMMA EraseAccountStep ==
  ASSUME AccountsInv, NEW c \in Calls, EraseAccount(c)
  PROVE  AccountsInv'
  <1> DEFINE a == call[c].of
             S == SessionsOf(a)
  <1>1. /\ On(c, "delete", "erase") /\ End(c) /\ issued' = issued
        /\ row' = [row EXCEPT ![a].role = "gone"]
        /\ sessions' = sessions \ S /\ stray' = (stray \ Ids(S)) \cup Ids({})
    BY IdsOfNone DEF EraseAccount
  <1>2. /\ row \in [Members -> AccountRow] /\ a \in Members
        /\ \A s \in sessions : s.account \in Members
    BY CallTyped
  <1>3. row' \in [Members -> AccountRow] /\ \A b \in Members : b # a => row'[b] = row[b]
    <2>1. PICK new : new = [row[a] EXCEPT !.role = "gone"]
      OBVIOUS
    <2>2. new \in AccountRow
      BY <1>2, <2>1 DEF AccountRow
    <2>3. row' = [row EXCEPT ![a] = new]
      BY <1>1, <2>1
    <2> QED
      BY <1>2, <2>2, <2>3
  <1>4. a \in Locked(c)
    BY <1>1 DEF On, Locked
  <1>5. \A d \in Calls \ {c} : a \notin Locked(d)
    BY <1>4 DEF AccountsInv, RowsHeld
  <1>6. \A d \in Calls \ {c} : \A b \in Locked(d) : row'[b].role = row[b].role
    BY <1>3, <1>5, HeldExist
  <1>7. S \in SUBSET sessions /\ \A s \in sessions \ S : s.account # a /\ s.account \in Members
    BY <1>2 DEF SessionsOf
  <1>8. call[c].at # "sessions"
    BY <1>1 DEF On
  <1>9. \A s \in sessions \ S : row'[s.account] = row[s.account]
    BY <1>3, <1>7
  <1> HIDE DEF S
  <1> QED
    BY <1>1, <1>3, <1>6, <1>7, <1>8, <1>9, SessionsDeleted

LEMMA AbandonStep ==
  ASSUME AccountsInv, NEW c \in Calls, Abandon(c)
  PROVE  AccountsInv'
  <1> DEFINE T == IF call[c].at = "sessions" THEN SessionsOf(call[c].of) ELSE {}
  <1>1. /\ End(c) /\ UNCHANGED <<row, sessions, issued>> /\ stray' = stray \cup Ids(T)
    BY IdsOfNone DEF Abandon
  <1>2. /\ T \in SUBSET sessions
        /\ call[c].at = "sessions" => \A s \in sessions : s.account = call[c].of => s \in T
    BY DEF SessionsOf
  <1>3. row' \in [Members -> AccountRow]
    BY <1>1, CallTyped
  <1> HIDE DEF T
  <1> QED
    BY <1>1, <1>2, <1>3, RowWritten

\* A call moves to a deletion of sessions, or to a commit, and holds no row.
LEMMA ProceedStep ==
  ASSUME AccountsInv, NEW c \in Calls, NEW k \in CallRecord, call' = [call EXCEPT ![c] = k],
         k.of = call[c].of, call[c].at = "write", ~ Deleting(k), k.held = {},
         k.at = "sessions" => k.deed \in {"disable", "password"},
         UNCHANGED <<sessions, issued, stray>>, row' \in [Members -> AccountRow],
         \A b \in Members : /\ row'[b].role = row[b].role
                            /\ row'[b] # row[b] => b = call[c].of /\ k.at = "sessions"
  PROVE  AccountsInv'
  <1>1. \A s \in sessions : s.account \in Members
    BY CallTyped
  <1>2. AccountsTypeOK'
    <2>1. call' \in [Calls -> CallRecord]
      BY CallsAfter DEF AccountsInv
    <2> QED
      BY <2>1, CallTyped DEF AccountsTypeOK, AccountRow, CallRecord, SessionRow
  <1>3. SessionsKept'
    BY <1>1, SessionsLeft DEF AccountsInv
  <1>4. SessionsToCome' /\ RowsHeld'
    BY HoldersKept, HeldExist
  <1>5. \A s \in sessions' :
           \/ s.id \in stray' \/ (k.of = s.account /\ k.at = "sessions")
           \/ ~ row'[s.account].disabled /\ s.password = row'[s.account].password
           \/ /\ s \in sessions
              /\ row'[s.account].disabled => row[s.account].disabled
              /\ row'[s.account].password = row[s.account].password
              /\ s.id \in stray => s.id \in stray'
    BY <1>1
  <1>6. RevokedSessionsEnd'
    BY <1>5, RevocationKept
  <1> QED
    BY <1>2, <1>3, <1>4, <1>6 DEF AccountsInv

LEMMA SetAccountDisabledStep ==
  ASSUME AccountsInv, NEW c \in Calls, SetAccountDisabled(c)
  PROVE  AccountsInv'
  <1> DEFINE a == call[c].of
             disabling == call[c].deed = "disable"
  <1>1. /\ call[c].deed \in {"disable", "enable"} /\ call[c].at = "write"
        /\ UNCHANGED <<sessions, issued, stray>>
    BY DEF SetAccountDisabled, Write
  <1>2. /\ row \in [Members -> AccountRow] /\ a \in Members /\ call[c] \in CallRecord
        /\ \A s \in sessions : s.account \in Members
    BY CallTyped
  <1>3. stray' = stray \cup Ids({}) /\ call[c].at # "sessions"
    BY <1>1, IdsOfNone
  <1>4. CASE ~ Exists(a)
    <2>1. End(c) /\ row' = row
      BY <1>4 DEF SetAccountDisabled
    <2> QED
      BY <1>1, <1>2, <1>3, <2>1, RowWritten
  <1>5. CASE Exists(a)
    <2>1. PICK new : new = [row[a] EXCEPT !.disabled = disabling]
      OBVIOUS
    <2>2. new \in AccountRow /\ new.role = row[a].role /\ new.password = row[a].password
          /\ new.disabled = disabling
      BY <1>2, <2>1 DEF AccountRow
    <2>3. row' = [row EXCEPT ![a] = new]
      BY <1>5, <2>1 DEF SetAccountDisabled
    <2>4. /\ row' \in [Members -> AccountRow]
          /\ \A b \in Members : /\ row'[b].role = row[b].role
                                /\ row'[b].password = row[b].password
                                /\ row'[b] # row[b] => b = a
                                /\ b = a => row'[b].disabled = disabling
      BY <1>2, <2>2, <2>3
    <2>5. CASE disabling
      <3>1. PICK k : k = [call[c] EXCEPT !.at = "sessions"]
        OBVIOUS
      <3>2. call' = [call EXCEPT ![c] = k]
        BY <1>5, <2>5, <3>1 DEF SetAccountDisabled, Proceed
      <3>3. k \in CallRecord /\ k.of = a /\ k.at = "sessions" /\ k.deed = "disable" /\ k.held = call[c].held
        BY <1>2, <2>5, <3>1 DEF CallRecord, Stages
      <3>4. call[c].held = {} /\ ~ Deleting(k)
        BY <1>1, <3>3 DEF AccountsInv, RowsHeld, Deleting
      <3> QED
        BY <1>1, <2>4, <3>2, <3>3, <3>4, ProceedStep
    <2>6. CASE ~ disabling
      <3>1. End(c)
        BY <1>5, <2>6 DEF SetAccountDisabled
      <3>2. \A b \in Members : row'[b].disabled => row[b].disabled
        BY <2>4, <2>6
      <3>3. \A d \in Calls \ {c} : \A b \in Locked(d) : row'[b].role = row[b].role
        BY <2>4, HeldExist
      <3> QED
        BY <1>1, <1>2, <1>3, <2>4, <3>1, <3>2, <3>3, RowWritten
    <2> QED
      BY <2>5, <2>6
  <1> QED
    BY <1>4, <1>5

LEMMA SetAccountPasswordStep ==
  ASSUME AccountsInv, NEW c \in Calls, SetAccountPassword(c)
  PROVE  AccountsInv'
  <1> DEFINE a == call[c].of
  <1>1. /\ call[c].deed \in {"password", "set-password"} /\ call[c].at = "write"
        /\ UNCHANGED <<sessions, issued>>
    BY DEF SetAccountPassword, Write
  <1>2. /\ row \in [Members -> AccountRow] /\ a \in Members /\ call[c] \in CallRecord
        /\ \A s \in sessions : s.account \in Members
    BY CallTyped
  <1>3. call[c].at # "sessions"
    BY <1>1
  <1>4. CASE ~ Exists(a)
    <2>1. End(c) /\ row' = row /\ stray' = stray \cup Ids({})
      BY <1>4, IdsOfNone DEF SetAccountPassword
    <2> QED
      BY <1>1, <1>2, <1>3, <2>1, RowWritten
  <1>5. CASE Exists(a)
    <2>1. PICK new : new = [row[a] EXCEPT !.password = row[a].password + 1]
      OBVIOUS
    <2>2. row[a].password < MaxPasswords /\ row' = [row EXCEPT ![a] = new]
      BY <1>5, <2>1 DEF SetAccountPassword
    <2>3. row[a].password + 1 \in 0..MaxPasswords
      BY <1>2, <2>2, CallTyped DEF AccountRow
    <2>4. new \in AccountRow /\ new.role = row[a].role /\ new.disabled = row[a].disabled
      BY <1>2, <2>1, <2>3 DEF AccountRow
    <2>5. /\ row' \in [Members -> AccountRow]
          /\ \A b \in Members : row'[b].role = row[b].role /\ (row'[b] # row[b] => b = a)
      BY <1>2, <2>2, <2>4
    <2>6. CASE call[c].deed = "password"
      <3>1. PICK k : k = [call[c] EXCEPT !.at = "sessions"]
        OBVIOUS
      <3>2. call' = [call EXCEPT ![c] = k] /\ stray' = stray
        BY <1>5, <2>6, <3>1 DEF SetAccountPassword, Proceed
      <3>3. k \in CallRecord /\ k.of = a /\ k.at = "sessions" /\ k.deed = "password" /\ k.held = call[c].held
        BY <1>2, <2>6, <3>1 DEF CallRecord, Stages
      <3>4. call[c].held = {} /\ ~ Deleting(k)
        BY <1>1, <3>3 DEF AccountsInv, RowsHeld, Deleting
      <3> QED
        BY <1>1, <2>5, <3>2, <3>3, <3>4, ProceedStep
    <2>7. CASE call[c].deed # "password"
      <3>1. End(c) /\ stray' = stray \cup Ids(SessionsOf(a))
        BY <1>5, <2>7 DEF SetAccountPassword
      <3>2. /\ SessionsOf(a) \in SUBSET sessions
            /\ \A s \in sessions : s \in SessionsOf(a) \/ s.account # a
        BY DEF SessionsOf
      <3>3. \A d \in Calls \ {c} : \A b \in Locked(d) : row'[b].role = row[b].role
        BY <2>5, HeldExist
      <3>4. \A s \in sessions :
              /\ row[s.account].role \in Roles => row'[s.account].role \in Roles
              /\ \/ s \in SessionsOf(a)
                 \/ /\ row'[s.account].disabled => row[s.account].disabled
                    /\ row'[s.account].password = row[s.account].password
        BY <1>2, <2>5, <3>2
      <3> QED
        BY <1>1, <1>3, <2>5, <3>1, <3>2, <3>3, <3>4, RowWritten
    <2> QED
      BY <2>6, <2>7
  <1> QED
    BY <1>4, <1>5

LEMMA PurgeAccountStep ==
  ASSUME AccountsInv, NEW c \in Calls, PurgeAccount(c)
  PROVE  AccountsInv'
  <1> DEFINE a == call[c].of
  <1>1. /\ call[c].deed = "purge" /\ call[c].at = "write"
        /\ call' = [call EXCEPT ![c].at = "commit", ![c].ids = Ids(SessionsOf(a)), ![c].session = issued]
        /\ UNCHANGED <<row, sessions, issued, stray>>
    BY DEF PurgeAccount, Write
  <1>2. row \in [Members -> AccountRow] /\ call[c] \in CallRecord /\ issued \in 0..MaxSessions
    BY CallTyped
  <1>3. Ids(SessionsOf(a)) \subseteq 1..MaxSessions
    <2>1. SessionsOf(a) \in SUBSET sessions /\ AccountsTypeOK
      BY DEF SessionsOf, AccountsInv
    <2> QED
      BY <2>1, IdsTyped
  <1>4. PICK k : k = [call[c] EXCEPT !.at = "commit", !.ids = Ids(SessionsOf(a)), !.session = issued]
    OBVIOUS
  <1>5. call' = [call EXCEPT ![c] = k]
    <2>1. call \in [Calls -> CallRecord]
      BY AccountsTyped DEF AccountsInv
    <2> QED
      BY <1>1, <1>4, <2>1
  <1>6. k \in CallRecord /\ k.of = a /\ k.at = "commit" /\ k.deed = "purge" /\ k.held = call[c].held
    BY <1>1, <1>2, <1>3, <1>4 DEF CallRecord, Stages
  <1>7. call[c].held = {} /\ ~ Deleting(k)
    BY <1>1, <1>6 DEF AccountsInv, RowsHeld, Deleting
  <1> QED
    BY <1>1, <1>2, <1>5, <1>6, <1>7, ProceedStep

-----------------------------------------------------------------------------
\* A step of a deletion that writes no row.
LEMMA DeletionMoves ==
  ASSUME AccountsInv, NEW c \in Calls, NEW k \in CallRecord, call' = [call EXCEPT ![c] = k],
         call[c].deed = "delete", k.deed = "delete", k.of = call[c].of,
         call[c].at # "sessions", k.at \in {"count", "counting", "erase"},
         UNCHANGED <<row, sessions, issued, stray>>,
         Exists(k.of), k.held \subseteq Admins,
         \A d \in Calls \ {c} : ({k.of} \cup k.held) \cap Locked(d) = {},
         k.at = "erase" => row[k.of].role # "admin" \/ \E b \in k.held : b # k.of
  PROVE  AccountsInv'
  <1>1. call'[c] = k /\ \A d \in Calls : d # c => call'[d] = call[d]
    BY CallsAfter DEF AccountsInv
  <1>2. AccountsTypeOK'
    <2>1. call' \in [Calls -> CallRecord]
      BY CallsAfter DEF AccountsInv
    <2> QED
      BY <2>1, CallTyped DEF AccountsTypeOK, AccountRow, CallRecord, SessionRow
  <1>3. SessionsKept'
    BY SessionsLeft DEF AccountsInv
  <1>4. SessionsToCome'
    BY <1>1 DEF AccountsInv, SessionsToCome
  <1>5. Locked(c)' = {k.of} \cup k.held /\ \A d \in Calls : d # c => Locked(d)' = Locked(d)
    BY <1>1 DEF Locked
  <1>6. RowsHeld'
    <2>1. \A d \in Calls : ~ Deleting(call'[d]) => call'[d].held = {}
      BY <1>1 DEF AccountsInv, RowsHeld, Deleting
    <2>2. \A d \in Calls : Deleting(call'[d]) =>
            Exists(call'[d].of) /\ call'[d].held \subseteq Admins
      BY <1>1 DEF AccountsInv, RowsHeld
    <2>3. \A d, e \in Calls : d # e => Locked(d)' \cap Locked(e)' = {}
      BY <1>5 DEF AccountsInv, RowsHeld
    <2>4. \A d \in Calls : On(d, "delete", "erase")' =>
            row[call'[d].of].role # "admin" \/ \E b \in call'[d].held : b # call'[d].of
      BY <1>1 DEF AccountsInv, RowsHeld, On
    <2> QED
      BY <2>1, <2>2, <2>3, <2>4 DEF RowsHeld, Deleting, Exists, Admins
  <1>7. RevokedSessionsEnd'
    BY RevocationKept
  <1> QED
    BY <1>2, <1>3, <1>4, <1>6, <1>7 DEF AccountsInv

LEMMA LockAccountStep ==
  ASSUME AccountsInv, NEW c \in Calls, LockAccount(c)
  PROVE  AccountsInv'
  <1> DEFINE a == call[c].of
  <1>1. /\ call[c].deed = "delete" /\ call[c].at = "write" /\ Unlocked(a, c)
        /\ UNCHANGED <<row, sessions, issued, stray>>
    BY DEF LockAccount, Write, Writable
  <1>2. /\ row \in [Members -> AccountRow] /\ call[c] \in CallRecord
        /\ \A s \in sessions : s.account \in Members
    BY CallTyped
  <1>3. CASE ~ Exists(a)
    <2>1. End(c) /\ stray' = stray \cup Ids({}) /\ call[c].at # "sessions"
      BY <1>1, <1>3, IdsOfNone DEF LockAccount
    <2> QED
      BY <1>1, <1>2, <2>1, RowWritten
  <1>4. CASE Exists(a)
    <2> DEFINE at == IF row[a].role = "admin" THEN "count" ELSE "erase"
    <2>1. PICK k : k = [call[c] EXCEPT !.at = at]
      OBVIOUS
    <2>2. call' = [call EXCEPT ![c] = k]
      BY <1>4, <2>1 DEF LockAccount, Proceed
    <2>3. /\ k \in CallRecord /\ k.of = a /\ k.at = at /\ k.deed = "delete" /\ k.held = call[c].held
      BY <1>1, <1>2, <2>1 DEF CallRecord, Stages
    <2>4. call[c].held = {}
      BY <1>1 DEF AccountsInv, RowsHeld, Deleting
    <2>5. \A d \in Calls \ {c} : ({k.of} \cup k.held) \cap Locked(d) = {}
      BY <1>1, <2>3, <2>4 DEF Unlocked
    <2>6. k.at = "erase" => row[k.of].role # "admin"
      BY <2>3
    <2>7. /\ call[c].at # "sessions" /\ k.at \in {"count", "counting", "erase"}
          /\ Exists(k.of) /\ k.held \subseteq Admins
      BY <1>1, <1>4, <2>3, <2>4
    <2> QED
      BY <1>1, <2>2, <2>3, <2>5, <2>6, <2>7, DeletionMoves
  <1> QED
    BY <1>3, <1>4

\* What a deletion that counts has.
LEMMA CountingHas ==
  ASSUME AccountsInv, NEW c \in Calls, Deleting(call[c])
  PROVE  /\ call[c] \in CallRecord /\ call[c].deed = "delete" /\ call[c].at # "sessions"
         /\ Exists(call[c].of) /\ call[c].held \subseteq Admins
         /\ \A d \in Calls \ {c} : ({call[c].of} \cup call[c].held) \cap Locked(d) = {}
  <1>1. Locked(c) = {call[c].of} \cup call[c].held
    BY DEF Deleting, Locked
  <1> QED
    BY <1>1, CallTyped DEF AccountsInv, RowsHeld, Deleting

LEMMA CountAdminsStep ==
  ASSUME AccountsInv, NEW c \in Calls, CountAdmins(c)
  PROVE  AccountsInv'
  <1>1. /\ Deleting(call[c]) /\ UNCHANGED <<row, sessions, issued, stray>>
        /\ call' = [call EXCEPT ![c].at = "counting", ![c].todo = Admins]
    BY DEF CountAdmins, On, Deleting
  <1>2. PICK k : k = [call[c] EXCEPT !.at = "counting", !.todo = Admins]
    OBVIOUS
  <1>3. call' = [call EXCEPT ![c] = k]
    <2>1. call \in [Calls -> CallRecord]
      BY AccountsTyped DEF AccountsInv
    <2> QED
      BY <1>1, <1>2, <2>1
  <1>4. call[c] \in CallRecord
    BY CallTyped
  <1>5. /\ k \in CallRecord /\ k.of = call[c].of /\ k.at = "counting"
        /\ k.deed = call[c].deed /\ k.held = call[c].held
    BY <1>2, <1>4 DEF CallRecord, Stages, Admins
  <1>6. /\ call[c].deed = "delete" /\ call[c].at # "sessions" /\ Exists(call[c].of)
        /\ call[c].held \subseteq Admins
        /\ \A d \in Calls \ {c} : ({call[c].of} \cup call[c].held) \cap Locked(d) = {}
    BY <1>1, CountingHas
  <1> QED
    BY <1>1, <1>3, <1>5, <1>6, DeletionMoves

LEMMA LockAdminStep ==
  ASSUME AccountsInv, NEW c \in Calls, NEW b \in Members, LockAdmin(c, b)
  PROVE  AccountsInv'
  <1> DEFINE held == IF b \in Admins THEN call[c].held \cup {b} ELSE call[c].held
  <1>1. /\ Deleting(call[c]) /\ UNCHANGED <<row, sessions, issued, stray>> /\ Unlocked(b, c)
        /\ call[c].at = "counting"
        /\ call' = [call EXCEPT ![c].todo = @ \ {b},
                                ![c].held = IF b \in Admins THEN @ \cup {b} ELSE @]
    BY DEF LockAdmin, On, Deleting, Writable
  <1>2. PICK k : k = [call[c] EXCEPT !.todo = call[c].todo \ {b}, !.held = held]
    OBVIOUS
  <1>3. call' = [call EXCEPT ![c] = k]
    <2>1. call \in [Calls -> CallRecord]
      BY AccountsTyped DEF AccountsInv
    <2> QED
      BY <1>1, <1>2, <2>1
  <1>4. call[c] \in CallRecord
    BY CallTyped
  <1>5. call[c].todo \ {b} \subseteq Members /\ held \subseteq Members
    BY <1>4 DEF CallRecord
  <1> HIDE DEF held
  <1>6. /\ k \in CallRecord /\ k.of = call[c].of /\ k.at = "counting"
        /\ k.deed = call[c].deed /\ k.held = held
    BY <1>1, <1>2, <1>4, <1>5 DEF CallRecord, Stages
  <1>7. held \subseteq Admins /\ held \subseteq call[c].held \cup {b}
    BY <1>1, CountingHas DEF held
  <1>8. \A d \in Calls \ {c} : ({call[c].of} \cup held) \cap Locked(d) = {}
    BY <1>1, <1>7, CountingHas DEF Unlocked
  <1>9. call[c].deed = "delete" /\ call[c].at # "sessions" /\ Exists(call[c].of)
    BY <1>1, CountingHas
  <1>10. /\ k.deed = "delete" /\ Exists(k.of) /\ k.held \subseteq Admins
         /\ k.at = "counting" /\ k.of = call[c].of
         /\ \A d \in Calls \ {c} : ({k.of} \cup k.held) \cap Locked(d) = {}
    BY <1>6, <1>7, <1>8, <1>9
  <1> QED
    BY <1>1, <1>3, <1>6, <1>9, <1>10, DeletionMoves

\* Of several rows one is not the own.
LEMMA AnotherOne ==
  ASSUME NEW S, IsFiniteSet(S), ~ (Cardinality(S) <= 1), NEW a
  PROVE  \E b \in S : b # a
  <1> SUFFICES ASSUME S \subseteq {a} PROVE FALSE
    OBVIOUS
  <1>1. IsFiniteSet({a}) /\ Cardinality({a}) = 1
    BY FS_Singleton
  <1>2. Cardinality(S) <= Cardinality({a})
    BY <1>1, FS_Subset
  <1> QED
    BY <1>1, <1>2

LEMMA AdminsCountedStep ==
  ASSUME AccountsInv, NEW c \in Calls, AdminsCounted(c)
  PROVE  AccountsInv'
  <1>1. /\ Deleting(call[c]) /\ UNCHANGED <<row, sessions, issued, stray>>
        /\ IF Cardinality(call[c].held) <= 1 THEN End(c) ELSE Proceed(c, "erase")
    BY DEF AdminsCounted, On, Deleting
  <1>2. /\ row \in [Members -> AccountRow] /\ call[c] \in CallRecord
        /\ \A s \in sessions : s.account \in Members
    BY CallTyped
  <1>3. CASE Cardinality(call[c].held) <= 1
    <2>1. End(c) /\ stray' = stray \cup Ids({}) /\ call[c].at # "sessions"
      BY <1>1, <1>3, IdsOfNone DEF Deleting
    <2> QED
      BY <1>1, <1>2, <2>1, RowWritten
  <1>4. CASE ~ (Cardinality(call[c].held) <= 1)
    <2>1. PICK k : k = [call[c] EXCEPT !.at = "erase"]
      OBVIOUS
    <2>2. call' = [call EXCEPT ![c] = k]
      BY <1>1, <1>4, <2>1 DEF Proceed
    <2>3. /\ k \in CallRecord /\ k.of = call[c].of /\ k.at = "erase"
          /\ k.deed = call[c].deed /\ k.held = call[c].held
      BY <1>2, <2>1 DEF CallRecord, Stages
    <2>4. IsFiniteSet(call[c].held)
      <3>1. call[c].held \in SUBSET Members
        BY <1>2 DEF CallRecord
      <3> QED
        BY <3>1, MembersAssumption, FS_Subset
    <2>5. \E b \in k.held : b # k.of
      BY <1>4, <2>3, <2>4, AnotherOne
    <2>6. /\ call[c].deed = "delete" /\ call[c].at # "sessions" /\ Exists(call[c].of)
          /\ call[c].held \subseteq Admins
          /\ \A d \in Calls \ {c} : ({call[c].of} \cup call[c].held) \cap Locked(d) = {}
      BY <1>1, CountingHas
    <2> QED
      BY <1>1, <2>2, <2>3, <2>5, <2>6, DeletionMoves
  <1> QED
    BY <1>3, <1>4

-----------------------------------------------------------------------------
LEMMA SessionEndsStep ==
  ASSUME AccountsInv, NEW s \in sessions, SessionEnds(s)
  PROVE  AccountsInv'
  <1>1. /\ sessions' = sessions \ {s} /\ stray' = stray \ {s.id}
        /\ UNCHANGED <<row, issued, call>>
    BY DEF SessionEnds
  <1>2. AccountsTypeOK'
    BY <1>1 DEF AccountsInv, AccountsTypeOK
  <1>3. SessionsKept'
    BY <1>1, SessionsLeft DEF AccountsInv
  <1>4. SessionsToCome' /\ RowsHeld'
    BY <1>1 DEF AccountsInv, SessionsToCome, RowsHeld, Deleting, Locked, On, Exists, Admins
  <1>5. \A t \in sessions' : t.id \in stray => t.id \in stray'
    BY <1>1 DEF AccountsInv, SessionsKept
  <1>6. RevokedSessionsEnd'
    BY <1>1, <1>5 DEF AccountsInv, RevokedSessionsEnd, Reached
  <1> QED
    BY <1>2, <1>3, <1>4, <1>6 DEF AccountsInv

LEMMA CreateAccountStep ==
  ASSUME AccountsInv, NEW a \in Members, NEW password \in {0, 1}, CreateAccount(a, password)
  PROVE  AccountsInv'
  <1>1. /\ row[a].role = "none" /\ row' = [row EXCEPT ![a] = Row("user", password)]
        /\ UNCHANGED <<sessions, issued, stray, call>>
    BY DEF CreateAccount
  <1>2. row \in [Members -> AccountRow] /\ Row("user", password) \in AccountRow
    BY AccountsTyped, MembersAssumption DEF AccountsInv, AccountRow, Row, Roles
  <1>3. /\ row' \in [Members -> AccountRow] /\ Row("user", password).role = "user"
        /\ \A b \in Members : row'[b] = IF b = a THEN Row("user", password) ELSE row[b]
    BY <1>1, <1>2 DEF Row
  <1>4. AccountsTypeOK'
    BY <1>1, <1>3 DEF AccountsInv, AccountsTypeOK, AccountRow
  <1>5. \A s \in sessions : s.account \in Members /\ row[s.account].role \in Roles
    BY DEF AccountsInv, AccountsTypeOK, SessionsKept, Exists
  <1>6. "none" \notin Roles
    BY DEF Roles
  <1>7. \A s \in sessions : row'[s.account] = row[s.account]
    BY <1>1, <1>3, <1>5, <1>6
  <1>8. SessionsKept'
    BY <1>1, <1>7, SessionsLeft DEF AccountsInv
  <1>9. \A d \in Calls : Deleting(call[d]) =>
          /\ call[d].of \in Members /\ row[call[d].of].role \in Roles
          /\ \A b \in call[d].held : b \in Members /\ row[b].role = "admin"
    BY CallTyped DEF AccountsInv, RowsHeld, Exists, Admins
  <1>10. RowsHeld'
    <2>1. \A d \in Calls : Deleting(call[d]) =>
            /\ row'[call[d].of] = row[call[d].of]
            /\ \A b \in call[d].held : b \in Members /\ row'[b].role = "admin"
      BY <1>1, <1>3, <1>6, <1>9
    <2>2. \A d \in Calls : Deleting(call[d]) => Exists(call[d].of)' /\ (call[d].held \subseteq Admins)'
      BY <1>1, <1>9, <2>1 DEF Exists, Admins
    <2>3. \A d \in Calls : On(d, "delete", "erase") => Deleting(call[d])
      BY DEF On, Deleting
    <2>4. \A d \in Calls : On(d, "delete", "erase") =>
            row'[call[d].of].role # "admin" \/ \E b \in call[d].held : b # call[d].of
      BY <2>1, <2>3 DEF AccountsInv, RowsHeld
    <2>5. /\ \A d \in Calls : ~ Deleting(call[d]) => call[d].held = {}
          /\ \A d, e \in Calls : d # e => Locked(d) \cap Locked(e) = {}
      BY DEF AccountsInv, RowsHeld
    <2>6. \A d \in Calls : /\ call'[d] = call[d] /\ Locked(d)' = Locked(d)
                           /\ On(d, "delete", "erase")' = On(d, "delete", "erase")
      BY <1>1 DEF Locked, On
    <2> QED
      BY <2>2, <2>4, <2>5, <2>6 DEF RowsHeld, Deleting
  <1>11. SessionsToCome'
    BY <1>1 DEF AccountsInv, SessionsToCome
  <1>12. RevokedSessionsEnd'
    BY <1>1, <1>7 DEF AccountsInv, RevokedSessionsEnd, Reached
  <1> QED
    BY <1>4, <1>8, <1>10, <1>11, <1>12 DEF AccountsInv

LEMMA AccountsIdle ==
  ASSUME AccountsInv, UNCHANGED accountVars
  PROVE  AccountsInv'
  BY DEF accountVars, AccountsInv, AccountsTypeOK, SessionsKept, SessionsToCome, RowsHeld,
         RevokedSessionsEnd, Deleting, Locked, On, Exists, Admins, Reached

LEMMA AccountsStart == AccountsInit => AccountsInv
  <1> SUFFICES ASSUME AccountsInit PROVE AccountsInv
    OBVIOUS
  <1>1. /\ sessions = {} /\ issued = 0 /\ stray = {} /\ \A c \in Calls : call[c] = NoCall
        /\ row = [a \in Members |-> IF a \in Founders THEN Row("admin", 1) ELSE Row("none", 0)]
        /\ call = [c \in Calls |-> NoCall]
    BY DEF AccountsInit
  <1>2. Row("admin", 1) \in AccountRow /\ Row("none", 0) \in AccountRow
    BY MembersAssumption DEF Row, AccountRow, Roles
  <1>3. row \in [Members -> AccountRow]
    BY <1>1, <1>2
  <1>4. AccountsTypeOK
    BY <1>1, <1>3, NoCallTyped, MembersAssumption, AccountsTyped
  <1>5. \A c \in Calls : ~ Deleting(call[c]) /\ Locked(c) = {} /\ ~ On(c, "delete", "erase")
    BY <1>1, NoCallTyped DEF Deleting, Locked, On
  <1> QED
    BY <1>1, <1>4, <1>5, NoCallTyped
    DEF AccountsInv, SessionsKept, SessionsToCome, RowsHeld, RevokedSessionsEnd

\* What a call begins as.
LEMMA AskIs ==
  ASSUME AccountsInv, NEW c \in Calls, Ask(c)
  PROVE  \E k \in CallRecord :
           /\ Start(c, k) /\ k.at = "write"
           /\ k.deed = "login" => /\ ~ row[k.of].disabled /\ row[k.of].role \in Roles
                                  /\ k.password = row[k.of].password
  <1> DEFINE Fine(k) ==
        /\ k \in CallRecord /\ Start(c, k) /\ k.at = "write"
        /\ k.deed = "login" => /\ ~ row[k.of].disabled /\ row[k.of].role \in Roles
                               /\ k.password = row[k.of].password
  <1>0. SUFFICES \E k : Fine(k)
    OBVIOUS
  <1>2. ASSUME NEW deed \in Deeds \ {"login"}, NEW a \in Members, Start(c, Asked(deed, a))
        PROVE  \E k : Fine(k)
    <2>1. Fine(Asked(deed, a))
      BY <1>2, AskedTyped
    <2> QED
      BY <2>1
  <1>3. sessions \subseteq SessionRow
    BY AccountsTyped DEF AccountsInv
  <1>4. ASSUME NEW a \in Members, NEW r \in Given, Start(c, [Asked("role", a) EXCEPT !.role = r])
        PROVE  \E k : Fine(k)
    <2>1. PICK k : k = [Asked("role", a) EXCEPT !.role = r]
      OBVIOUS
    <2>2. r \in Roles
      BY MembersAssumption DEF Roles
    <2>3. "role" \in Deeds
      BY DEF Deeds
    <2>4. k \in CallRecord /\ k.at = "write" /\ k.deed = "role"
      BY <2>1, <2>2, <2>3, AskedTyped DEF CallRecord
    <2>5. Fine(k)
      BY <1>4, <2>1, <2>4
    <2> QED
      BY <2>5
  <1>5. ASSUME NEW s \in sessions, NEW a \in Members, NEW deed \in {"disable", "enable"},
               AdminSetDisabled(c, s, deed, a)
        PROVE  \E k : Fine(k)
    <2>1. deed \in Deeds \ {"login"} /\ Start(c, Asked(deed, a))
      BY <1>5 DEF AdminSetDisabled, AdminForm, Deeds
    <2> QED
      BY <1>2, <2>1
  <1>6. ASSUME NEW s \in sessions, NEW a \in Members, HandleAdminAccountPurge(c, s, a)
        PROVE  \E k : Fine(k)
    <2>1. "purge" \in Deeds \ {"login"} /\ Start(c, Asked("purge", a))
      BY <1>6 DEF HandleAdminAccountPurge, AdminForm, Deeds
    <2> QED
      BY <1>2, <2>1
  <1>7. ASSUME NEW s \in sessions, NEW a \in Members, NEW r \in Given, HandleAdminAccountRole(c, s, a, r)
        PROVE  \E k : Fine(k)
    <2>1. Start(c, [Asked("role", a) EXCEPT !.role = r])
      BY <1>7 DEF HandleAdminAccountRole, AdminForm
    <2> QED
      BY <1>4, <2>1
  <1>8. ASSUME NEW s \in sessions, NEW typed, HandleChangePassword(c, s, typed)
        PROVE  \E k : Fine(k)
    <2>1. s.account \in Members /\ s.id \in 0..MaxSessions
      BY <1>3 DEF SessionRow
    <2>2. PICK k : k = [Asked("password", s.account) EXCEPT !.session = s.id]
      OBVIOUS
    <2>3. "password" \in Deeds
      BY DEF Deeds
    <2>4. k \in CallRecord /\ k.at = "write" /\ k.deed = "password"
      BY <2>1, <2>2, <2>3, AskedTyped DEF CallRecord
    <2>5. Fine(k)
      BY <1>8, <2>2, <2>4 DEF HandleChangePassword
    <2> QED
      BY <2>5
  <1>9. ASSUME NEW s \in sessions, NEW typed, HandleDeleteAccount(c, s, typed)
        PROVE  \E k : Fine(k)
    <2>1. s.account \in Members /\ "delete" \in Deeds \ {"login"} /\ Start(c, Asked("delete", s.account))
      BY <1>3, <1>9 DEF SessionRow, HandleDeleteAccount, Deeds
    <2> QED
      BY <1>2, <2>1
  <1>10. ASSUME NEW a \in Members, NEW typed \in 1..MaxPasswords, HandleLogin(c, a, typed)
         PROVE  \E k : Fine(k)
    <2>1. PICK k : k = [Asked("login", a) EXCEPT !.password = typed]
      OBVIOUS
    <2>2. "login" \in Deeds /\ typed \in 0..MaxPasswords
      BY DEF Deeds
    <2>3. k \in CallRecord /\ k.at = "write" /\ k.of = a /\ k.password = typed
      BY <2>1, <2>2, AskedTyped DEF CallRecord
    <2>4. Fine(k)
      BY <1>10, <2>1, <2>3 DEF HandleLogin, VerifyAccountPassword, VerifyPassword, Exists
    <2> QED
      BY <2>4
  <1>11. ASSUME NEW a \in Members,
                \/ \E deed \in {"disable", "enable"} : AccountDisableCmd(c, deed, a)
                \/ AccountPurgeCmd(c, a)
                \/ \E r \in Given : AccountRoleCmd(c, a, r)
                \/ AccountSetPasswordCmd(c, a)
         PROVE  \E k : Fine(k)
    <2>1. {"disable", "enable", "purge", "set-password"} \subseteq Deeds \ {"login"}
      BY DEF Deeds
    <2>2. \/ \E deed \in {"disable", "enable", "purge", "set-password"} : Start(c, Asked(deed, a))
          \/ \E r \in Given : Start(c, [Asked("role", a) EXCEPT !.role = r])
      BY <1>11 DEF AccountDisableCmd, AccountPurgeCmd, AccountRoleCmd, AccountSetPasswordCmd
    <2> QED
      BY <1>2, <1>4, <2>1, <2>2
  <1>12. CASE HasNoAdmin(c)
    <2>1. Start(c, Asked("bootstrap", Boot)) /\ "bootstrap" \in Deeds \ {"login"} /\ Boot \in Members
      BY <1>12, MembersAssumption DEF HasNoAdmin, Start, Deeds
    <2> QED
      BY <1>2, <2>1
  <1> QED
    BY <1>5, <1>6, <1>7, <1>8, <1>9, <1>10, <1>11, <1>12 DEF Ask

\* What a purge has seen stays so: sessions come with a higher number than any
\* issued before.
LEMMA PurgesSeenKept ==
  ASSUME AccountsInv, PurgesSeen, [AccountsNext]_accountVars
  PROVE  PurgesSeen'
  <1>1. /\ call \in [Calls -> CallRecord] /\ issued \in 0..MaxSessions
        /\ \A s \in sessions : s.id \in 1..MaxSessions /\ s.id <= issued
    BY AccountsTyped DEF AccountsInv, SessionsKept, SessionRow
  <1>2. \A d \in Calls : call[d].session \in 0..MaxSessions
    BY <1>1 DEF CallRecord
  <1>3. ASSUME NEW d \in Calls, call'[d] = call[d], issued' \in {issued, issued + 1},
               \A s \in sessions' : s \in sessions \/ s.id = issued + 1, call[d].at = "commit"
        PROVE  /\ call[d].session <= issued'
               /\ \A s \in sessions' : s.account = call[d].of => s.id \in call[d].ids \/ s.id > call[d].session
    BY <1>1, <1>2, <1>3 DEF PurgesSeen
  <1>4. ASSUME NEW c \in Calls, Ask(c) \/ Statement(c), ~ PurgeAccount(c)
        PROVE  /\ issued' \in {issued, issued + 1} /\ \A s \in sessions' : s \in sessions \/ s.id = issued + 1
               /\ \A d \in Calls : call'[d] = call[d] \/ call'[d].at # "commit"
    <2>1. CASE Ask(c)
      <3>1. PICK k \in CallRecord : Start(c, k) /\ k.at = "write"
        BY <2>1, AskIs
      <3> QED
        BY <1>1, <3>1 DEF Start, Begin
    <2>2. CASE CreateSession(c) \/ DeleteSessionsForAccount(c) \/ DeleteOtherSessions(c)
               \/ CreateAdminAccount(c) \/ SetAccountRole(c) \/ CommitPurge(c) \/ EraseAccount(c) \/ Abandon(c)
      <3>1. call' = [call EXCEPT ![c] = NoCall]
        BY <2>2 DEF CreateSession, DeleteSessionsForAccount, DeleteOtherSessions, CreateAdminAccount,
           SetAccountRole, CommitPurge, EraseAccount, Abandon, End
      <3>2. issued' = issued \/ CreateSession(c)
        BY <2>2 DEF DeleteSessionsForAccount, DeleteOtherSessions, CreateAdminAccount, SetAccountRole,
           CommitPurge, EraseAccount, Abandon
      <3>3. sessions' \subseteq sessions \/ CreateSession(c)
        BY <2>2 DEF DeleteSessionsForAccount, DeleteOtherSessions, CreateAdminAccount, SetAccountRole,
           CommitPurge, EraseAccount, Abandon
      <3>4. ASSUME CreateSession(c)
            PROVE  issued' \in {issued, issued + 1} /\ \A s \in sessions' : s \in sessions \/ s.id = issued + 1
        BY <3>4 DEF CreateSession
      <3>5. \A d \in Calls : call'[d] = call[d] \/ call'[d].at # "commit"
        BY <1>1, <3>1, NoCallTyped
      <3> QED
        BY <3>2, <3>3, <3>4, <3>5
    <2>3. CASE SetAccountDisabled(c) \/ SetAccountPassword(c) \/ LockAccount(c) \/ AdminsCounted(c)
      BY <1>1, <2>3, NoCallTyped
         DEF SetAccountDisabled, SetAccountPassword, LockAccount, AdminsCounted, End, Proceed, CallRecord
    <2>4. CASE CountAdmins(c) \/ \E b \in Members : LockAdmin(c, b)
      <3>1. sessions' = sessions /\ issued' = issued /\ call[c].at \in {"count", "counting"}
        BY <2>4 DEF CountAdmins, LockAdmin, On
      <3>2. ASSUME CountAdmins(c)
            PROVE  \A d \in Calls : call'[d] = call[d] \/ call'[d].at # "commit"
        BY <1>1, <3>2 DEF CountAdmins, On, CallRecord
      <3>3. ASSUME NEW b \in Members, LockAdmin(c, b)
            PROVE  \A d \in Calls : call'[d] = call[d] \/ call'[d].at # "commit"
        <4>1. PICK held : call' = [call EXCEPT ![c].todo = @ \ {b}, ![c].held = held]
          BY <3>3 DEF LockAdmin
        <4>2. call'[c].at = call[c].at /\ \A d \in Calls : d # c => call'[d] = call[d]
          BY <1>1, <4>1 DEF CallRecord
        <4> QED
          BY <3>1, <4>2
      <3> QED
        BY <2>4, <3>1, <3>2, <3>3
    <2> QED
      BY <1>4, <2>1, <2>2, <2>3, <2>4 DEF Statement
  <1>5. ASSUME NEW c \in Calls, PurgeAccount(c)
        PROVE  PurgesSeen'
    <2>1. /\ call' = [call EXCEPT ![c].at = "commit", ![c].ids = Ids(SessionsOf(call[c].of)), ![c].session = issued]
          /\ UNCHANGED <<sessions, issued>>
      BY <1>5 DEF PurgeAccount
    <2>2. /\ call'[c].session = issued /\ call'[c].ids = Ids(SessionsOf(call[c].of)) /\ call'[c].of = call[c].of
          /\ \A d \in Calls : d # c => call'[d] = call[d]
      BY <1>1, <2>1 DEF CallRecord
    <2>3. \A s \in sessions' : s.account = call'[c].of => s.id \in call'[c].ids
      BY <2>1, <2>2 DEF Ids, SessionsOf
    <2>4. call'[c].session <= issued'
      BY <1>1, <2>1, <2>2
    <2>5. \A d \in Calls : d # c /\ call'[d].at = "commit" =>
            /\ call'[d].session <= issued'
            /\ \A s \in sessions' : s.account = call'[d].of => s.id \in call'[d].ids \/ s.id > call'[d].session
      BY <1>1, <1>3, <2>1, <2>2
    <2> QED
      BY <2>3, <2>4, <2>5 DEF PurgesSeen
  <1>6. ASSUME call' = call, issued' = issued, sessions' \subseteq sessions
        PROVE  PurgesSeen'
    BY <1>6 DEF PurgesSeen
  <1>7. ASSUME NEW c \in Calls, Ask(c) \/ Statement(c), ~ PurgeAccount(c)
        PROVE  PurgesSeen'
    <2>1. \A d \in Calls : call'[d].at = "commit" =>
            /\ call'[d].session <= issued'
            /\ \A s \in sessions' : s.account = call'[d].of => s.id \in call'[d].ids \/ s.id > call'[d].session
      BY <1>3, <1>4, <1>7
    <2> QED
      BY <2>1 DEF PurgesSeen
  <1>8. CASE \/ \E s \in sessions : SessionEnds(s)
             \/ \E a \in Members : HandleRegisterSubmit(a) \/ AccountCreateCmd(a)
             \/ UNCHANGED accountVars
    BY <1>6, <1>8 DEF SessionEnds, HandleRegisterSubmit, AccountCreateCmd, CreateAccount, accountVars
  <1> QED
    BY <1>5, <1>7, <1>8 DEF AccountsNext

LEMMA AccountsStep ==
  ASSUME AccountsInv, PurgesSeen, [AccountsNext]_accountVars
  PROVE  AccountsInv'
  <1>1. ASSUME NEW c \in Calls, Statement(c)
        PROVE  AccountsInv'
    BY <1>1, CreateSessionStep, DeleteSessionsForAccountStep, DeleteOtherSessionsStep,
       CreateAdminAccountStep, SetAccountDisabledStep, SetAccountRoleStep, SetAccountPasswordStep,
       PurgeAccountStep, CommitPurgeStep, LockAccountStep, CountAdminsStep, LockAdminStep,
       AdminsCountedStep, EraseAccountStep, AbandonStep DEF Statement
  <1>2. ASSUME NEW a \in Members, HandleRegisterSubmit(a) \/ AccountCreateCmd(a)
        PROVE  AccountsInv'
    BY <1>2, CreateAccountStep DEF HandleRegisterSubmit, AccountCreateCmd
  <1> QED
    BY <1>1, <1>2, AskStep, SessionEndsStep, AccountsIdle DEF AccountsNext

LEMMA AccountsHold == AccountsSpec => []AccountsInv
  <1>1. AccountsInit => AccountsInv /\ PurgesSeen
    BY AccountsStart, NoCallTyped DEF AccountsInit, PurgesSeen
  <1>2. AccountsInv /\ PurgesSeen /\ [AccountsNext]_accountVars => AccountsInv' /\ PurgesSeen'
    BY AccountsStep, PurgesSeenKept
  <1> QED
    BY <1>1, <1>2, PTL DEF AccountsSpec

\* A session of a disabled account, or of an old password, is one whose deletion
\* is to come or one with a cause to have slipped past it: its login was verified
\* before the row was written or the purge looked, its deletion was given up, it
\* is the browser's that changed the password, or the operator's set-password
\* deletes none.
THEOREM SessionsAreRevoked == AccountsSpec => [](AccountsTypeOK /\ RevokedSessionsEnd)
  <1>1. AccountsInv => AccountsTypeOK /\ RevokedSessionsEnd
    BY DEF AccountsInv
  <1> QED
    BY <1>1, AccountsHold, PTL

\* Only EraseAccount makes an account go.
LEMMA OnlyErased ==
  ASSUME AccountsInv, AccountsNext, NEW a \in Members,
         row[a].role = "admin", row'[a].role = "gone"
  PROVE  \E c \in Calls : EraseAccount(c) /\ a = call[c].of
  <1> SUFFICES ASSUME \A c \in Calls : ~ (EraseAccount(c) /\ a = call[c].of)
               PROVE  row'[a].role # "gone"
    OBVIOUS
  <1>1. row \in [Members -> AccountRow] /\ "gone" \notin Roles
    BY AccountsTyped DEF AccountsInv, Roles
  <1>2. CASE row' = row
    BY <1>2
  <1>3. ASSUME NEW b \in Members, NEW new, new.role # "gone", row' = [row EXCEPT ![b] = new]
        PROVE  row'[a].role # "gone"
    BY <1>1, <1>3
  <1>4. ASSUME NEW c \in Calls, Ask(c)
        PROVE  row' = row
    BY <1>4 DEF Ask, AdminSetDisabled, HandleAdminAccountPurge, HandleAdminAccountRole, AdminForm,
                HandleChangePassword, HandleDeleteAccount, HandleLogin, AccountDisableCmd,
                AccountPurgeCmd, AccountRoleCmd, AccountSetPasswordCmd, HasNoAdmin, Start
  <1>5. ASSUME NEW c \in Calls,
               \/ CreateSession(c) \/ DeleteSessionsForAccount(c) \/ DeleteOtherSessions(c)
               \/ PurgeAccount(c) \/ LockAccount(c) \/ CountAdmins(c)
               \/ (\E b \in Members : LockAdmin(c, b)) \/ AdminsCounted(c) \/ Abandon(c)
        PROVE  row' = row
    BY <1>5 DEF CreateSession, DeleteSessionsForAccount, DeleteOtherSessions, PurgeAccount,
                LockAccount, CountAdmins, LockAdmin, AdminsCounted, Abandon
  <1>6. ASSUME NEW c \in Calls, CreateAdminAccount(c)
        PROVE  row'[a].role # "gone"
    <2>1. row' = row \/ row' = [row EXCEPT ![Boot] = Row("admin", 1)]
      BY <1>6 DEF CreateAdminAccount
    <2> QED
      BY <1>2, <1>3, <2>1, MembersAssumption DEF Row
  <1>7. ASSUME NEW c \in Calls, SetAccountDisabled(c) \/ SetAccountPassword(c) \/ CommitPurge(c)
        PROVE  row'[a].role = row[a].role
    <2>1. /\ call[c].of \in Members /\ row[call[c].of] \in AccountRow
      BY <1>1, CallTyped
    <2>2. \/ row' = row
          \/ row' = [row EXCEPT ![call[c].of].disabled = (call[c].deed = "disable")]
          \/ row' = [row EXCEPT ![call[c].of].disabled = TRUE]
          \/ row' = [row EXCEPT ![call[c].of].password = @ + 1]
      BY <1>7 DEF SetAccountDisabled, SetAccountPassword, CommitPurge
    <2>3. ASSUME NEW old \in AccountRow, NEW x
          PROVE  /\ [old EXCEPT !.disabled = x].role = old.role
                 /\ [old EXCEPT !.password = x].role = old.role
      BY DEF AccountRow
    <2>4. \/ row' = row
          \/ \E new : new.role = row[call[c].of].role /\ row' = [row EXCEPT ![call[c].of] = new]
      <3>1. CASE row' = [row EXCEPT ![call[c].of].disabled = (call[c].deed = "disable")]
        BY <2>1, <2>3, <3>1
      <3>2. CASE row' = [row EXCEPT ![call[c].of].disabled = TRUE]
        BY <2>1, <2>3, <3>2
      <3>3. CASE row' = [row EXCEPT ![call[c].of].password = @ + 1]
        BY <2>1, <2>3, <3>3
      <3> QED
        BY <2>2, <3>1, <3>2, <3>3
    <2> QED
      BY <1>1, <2>1, <2>4
  <1>8. ASSUME NEW c \in Calls, SetAccountRole(c)
        PROVE  row'[a].role # "gone"
    <2>1. /\ call[c].of \in Members /\ row[call[c].of] \in AccountRow /\ call[c].role \in Roles
      BY <1>1, CallTyped DEF CallRecord
    <2>2. \/ row' = row \/ row' = [row EXCEPT ![call[c].of].role = call[c].role]
      BY <1>8 DEF SetAccountRole
    <2>3. [row[call[c].of] EXCEPT !.role = call[c].role].role = call[c].role
      BY <2>1 DEF AccountRow
    <2> QED
      BY <1>1, <2>1, <2>2, <2>3
  <1>9. ASSUME NEW c \in Calls, EraseAccount(c)
        PROVE  row'[a].role # "gone"
    BY <1>1, <1>9, CallTyped DEF EraseAccount
  <1>10. ASSUME NEW b \in Members, HandleRegisterSubmit(b) \/ AccountCreateCmd(b)
         PROVE  row'[a].role # "gone"
    BY <1>3, <1>10 DEF HandleRegisterSubmit, AccountCreateCmd, CreateAccount, Row
  <1>11. ASSUME NEW s \in sessions, SessionEnds(s)
         PROVE  row' = row
    BY <1>11 DEF SessionEnds
  <1> QED
    BY <1>2, <1>4, <1>5, <1>6, <1>7, <1>8, <1>9, <1>10, <1>11 DEF AccountsNext, Statement

LEMMA DeletionStep ==
  ASSUME AccountsInv, [AccountsNext]_accountVars,
         \E a \in Members : row[a].role = "admin" /\ row'[a].role = "gone"
  PROVE  \E b \in Members : row'[b].role = "admin"
  <1>1. PICK a \in Members : row[a].role = "admin" /\ row'[a].role = "gone"
    OBVIOUS
  <1>2. AccountsNext
    BY <1>1 DEF accountVars
  <1>3. PICK c \in Calls : EraseAccount(c) /\ a = call[c].of
    BY <1>1, <1>2, OnlyErased
  <1>4. On(c, "delete", "erase") /\ row' = [row EXCEPT ![a].role = "gone"]
    BY <1>3 DEF EraseAccount
  <1>5. PICK b \in call[c].held : b # a
    BY <1>1, <1>3, <1>4 DEF AccountsInv, RowsHeld
  <1>6. b \in Members /\ row[b].role = "admin"
    BY <1>4, <1>5 DEF AccountsInv, RowsHeld, On, Deleting, Admins
  <1>7. row \in [Members -> AccountRow]
    BY AccountsTyped DEF AccountsInv
  <1> QED
    BY <1>4, <1>5, <1>6, <1>7

\* Administrators who delete themselves, however many at once and whatever
\* demotions run beside, leave one.
THEOREM AdminsRemain == AccountsSpec => DeletionLeavesAnAdmin
  <1>1. AccountsInv /\ [AccountsNext]_accountVars =>
          [(\E a \in Members : row[a].role = "admin" /\ row'[a].role = "gone")
           => \E b \in Members : row'[b].role = "admin"]_accountVars
    BY DeletionStep
  <1> QED
    BY <1>1, AccountsHold, PTL DEF AccountsSpec, DeletionLeavesAnAdmin

-----------------------------------------------------------------------------
(* What else a revoked session could come from: nothing.                   *)

\* No login is verified of an account that is about to have the deeds done to it.
LoginsStandApart(deeds) ==
  \A c, d \in Calls : call[c].deed = "login" /\ call[d].deed \in deeds => call[c].of # call[d].of

\* No deletion of sessions that are there is given up, once the account's row
\* is written for one of the deeds.
DeletionsSucceed(deeds) ==
  [][\A c \in Calls : call[c].deed \in deeds /\ call[c].at = "sessions" /\ Abandon(c) =>
       SessionsOf(call[c].of) = {}]_accountVars

Ousting == {"disable", "purge"}

\* A disabled account has no session but those about to be deleted, no login of
\* it is verified, and what a purge is about to delete is all there is.
AllOut ==
  /\ \A s \in sessions : row[s.account].disabled =>
       \E c \in Calls : On(c, "disable", "sessions") /\ call[c].of = s.account
  /\ \A c \in Calls : call[c].deed = "login" => ~ row[call[c].of].disabled
  /\ \A c \in Calls : On(c, "purge", "commit") =>
       \A s \in sessions : s.account = call[c].of => s.id \in call[c].ids

\* A call opens a session.
Opens(c) ==
  /\ On(c, "login", "write") /\ row' = row
  /\ \E new : /\ sessions' = sessions \cup {new}
              /\ new.account = call[c].of /\ new.password = call[c].password

\* A call disables its account and goes on to delete its sessions, or has deleted
\* those a purge saw.
Ousts(c, k) ==
  /\ sessions' \subseteq sessions
  /\ \A b \in Members : /\ row'[b].role = row[b].role /\ row'[b].password = row[b].password
                        /\ row'[b].disabled => row[b].disabled \/ b = call[c].of
  /\ \/ On(c, "disable", "write") /\ k.deed = "disable" /\ k.at = "sessions" /\ k.of = call[c].of
     \/ On(c, "purge", "commit") /\ k = NoCall /\ \A s \in sessions' : s.id \notin call[c].ids

\* A call gives its account another password; the browser's goes on to delete
\* the sessions.
Rekeys(c, k) ==
  /\ sessions' = sessions /\ call[c].deed \in {"password", "set-password"} /\ call[c].at = "write"
  /\ \A b \in Members : /\ row'[b].role = row[b].role /\ row'[b].disabled = row[b].disabled
                        /\ row'[b].password # row[b].password => b = call[c].of
  /\ call[c].deed = "password" => k.deed = "password" /\ k.at = "sessions" /\ k.of = call[c].of
  /\ k.deed \in {"none", "password"} /\ k.at \in {"write", "sessions"}

\* The sessions a call was to delete are gone, but for the one it was to keep.
Deletes(c) ==
  /\ On(c, "disable", "sessions") => \A s \in sessions' : s.account # call[c].of
  /\ On(c, "password", "sessions") =>
       \A s, t \in sessions' : s.account = call[c].of /\ t.account = call[c].of => s = t

\* A step that opens no session, ousts nobody and changes no password.
Settles(c, k) ==
  /\ sessions' \subseteq sessions
  /\ \A b \in Members : /\ row'[b].disabled => row[b].disabled
                        /\ row[b].role # "none" => row'[b].role # "none" /\ row'[b].password = row[b].password
  /\ Abandon(c) \/ Deletes(c)
  /\ k.deed = "login" => /\ ~ row[k.of].disabled /\ k.password = row[k.of].password
                         /\ row[k.of].role # "none"
  /\ k.deed = "purge" /\ k.at = "commit" => \A s \in sessions : s.account = k.of => s.id \in k.ids

\* What a step of a call does, as far as sessions go.
Effect(c, k) ==
  /\ call' = [call EXCEPT ![c] = k]
  /\ (k = NoCall /\ Opens(c)) \/ Ousts(c, k) \/ Rekeys(c, k) \/ Settles(c, k)

\* A call that ends, or moves on with nothing said of it, and what it leaves.
LEMMA Settled ==
  ASSUME NEW c \in Calls, NEW k, call' = [call EXCEPT ![c] = k], k.deed # "login",
         k.deed = "purge" /\ k.at = "commit" => \A s \in sessions : s.account = k.of => s.id \in k.ids,
         sessions' \subseteq sessions, Abandon(c) \/ Deletes(c),
         \A b \in Members : /\ row'[b].disabled => row[b].disabled
                            /\ row[b].role # "none" => row'[b].role # "none" /\ row'[b].password = row[b].password
  PROVE  Effect(c, k)
  BY DEF Effect, Settles

\* A call that is at no deletion of sessions deletes none.
LEMMA NoneDeleted ==
  ASSUME NEW c \in Calls, call[c].at # "sessions"
  PROVE  Deletes(c)
  BY DEF Deletes, On

\* What a call begins with changes no row and no session.
LEMMA AskEffect ==
  ASSUME AccountsInv, NEW c \in Calls, Ask(c)
  PROVE  \E k \in CallRecord : Effect(c, k)
  <1>1. PICK k \in CallRecord :
           /\ Start(c, k) /\ k.at = "write"
           /\ k.deed = "login" => /\ ~ row[k.of].disabled /\ row[k.of].role # "none"
                                  /\ k.password = row[k.of].password
    BY AskIs DEF Roles
  <1>2. call' = [call EXCEPT ![c] = k] /\ UNCHANGED <<row, sessions>> /\ call[c].deed = "none"
    BY <1>1 DEF Start, Begin
  <1>3. Deletes(c)
    BY <1>2 DEF Deletes, On
  <1>4. Settles(c, k)
    BY <1>1, <1>2, <1>3 DEF Settles
  <1> QED
    BY <1>2, <1>4 DEF Effect

\* The statements that leave rows and sessions as they are.
LEMMA MoveEffect ==
  ASSUME AccountsInv, NEW c \in Calls,
         \/ PurgeAccount(c) \/ LockAccount(c) \/ CountAdmins(c) \/ AdminsCounted(c) \/ Abandon(c)
         \/ \E b \in Members : LockAdmin(c, b)
  PROVE  \E k \in CallRecord : Effect(c, k)
  <1>1. UNCHANGED <<row, sessions>> /\ (Abandon(c) \/ call[c].at # "sessions")
    BY DEF PurgeAccount, LockAccount, CountAdmins, AdminsCounted, Abandon, LockAdmin, On, Write
  <1>2. call[c] \in CallRecord /\ call \in [Calls -> CallRecord]
    BY AccountsTyped DEF AccountsInv
  <1>3. Abandon(c) \/ Deletes(c)
    BY <1>1, NoneDeleted
  <1>4. NoCall \in CallRecord /\ NoCall.deed = "none"
    BY NoCallTyped
  <1>5. CASE End(c)
    <2>1. Effect(c, NoCall)
      BY <1>1, <1>3, <1>4, <1>5, Settled DEF End
    <2> QED
      BY <1>4, <2>1
  <1>6. CASE PurgeAccount(c)
    <2>0. issued \in 0..MaxSessions
      BY CallTyped
    <2>1. PICK k : k = [call[c] EXCEPT !.at = "commit", !.ids = Ids(SessionsOf(call[c].of)), !.session = issued]
      OBVIOUS
    <2>2. call' = [call EXCEPT ![c] = k] /\ call[c].deed = "purge"
      BY <1>2, <1>6, <2>1 DEF PurgeAccount, Write
    <2>3. Ids(SessionsOf(call[c].of)) \subseteq 1..MaxSessions
      <3>1. SessionsOf(call[c].of) \in SUBSET sessions /\ AccountsTypeOK
        BY DEF SessionsOf, AccountsInv
      <3> QED
        BY <3>1, IdsTyped
    <2>4. /\ k \in CallRecord /\ k.deed = "purge" /\ k.of = call[c].of
          /\ k.ids = Ids(SessionsOf(call[c].of))
      BY <1>2, <2>0, <2>1, <2>2, <2>3 DEF CallRecord, Stages
    <2>5. \A s \in sessions : s.account = k.of => s.id \in k.ids
      BY <2>4 DEF Ids, SessionsOf
    <2>6. Effect(c, k)
      BY <1>1, <1>3, <2>2, <2>4, <2>5, Settled
    <2> QED
      BY <2>4, <2>6
  <1>7. CASE ~ End(c) /\ ~ PurgeAccount(c)
    <2>1. /\ call[c].deed = "delete"
          /\ \E at \in {"count", "erase", "counting"}, todo \in SUBSET Members, held \in SUBSET Members :
               call' = [call EXCEPT ![c] = [call[c] EXCEPT !.at = at, !.todo = todo, !.held = held]]
      <3>1. /\ call[c].todo \in SUBSET Members /\ call[c].held \in SUBSET Members /\ Admins \in SUBSET Members
            /\ call[c].at \in Stages
        BY <1>2 DEF CallRecord, Admins
      <3>2. ASSUME NEW at, call' = [call EXCEPT ![c].at = at]
            PROVE  call' = [call EXCEPT ![c] = [call[c] EXCEPT !.at = at, !.todo = call[c].todo, !.held = call[c].held]]
        BY <1>2, <3>2 DEF CallRecord
      <3>3. ASSUME LockAccount(c) \/ AdminsCounted(c)
            PROVE  \E at \in {"count", "erase"} : call' = [call EXCEPT ![c].at = at] /\ call[c].deed = "delete"
        BY <1>7, <3>3 DEF LockAccount, AdminsCounted, Proceed, Write, On
      <3>4. ASSUME CountAdmins(c)
            PROVE  /\ call[c].deed = "delete"
                   /\ call' = [call EXCEPT ![c] = [call[c] EXCEPT !.at = "counting", !.todo = Admins, !.held = call[c].held]]
        BY <1>2, <3>4 DEF CountAdmins, On, CallRecord
      <3>5. ASSUME NEW b \in Members, LockAdmin(c, b)
            PROVE  /\ call[c].deed = "delete"
                   /\ \E held \in SUBSET Members :
                        call' = [call EXCEPT ![c] = [call[c] EXCEPT !.at = "counting", !.todo = call[c].todo \ {b}, !.held = held]]
        <4>1. PICK held : held = (IF b \in Admins THEN call[c].held \cup {b} ELSE call[c].held)
          OBVIOUS
        <4>2. held \in SUBSET Members /\ call[c].at = "counting" /\ call[c].deed = "delete"
          BY <3>1, <3>5, <4>1 DEF LockAdmin, On
        <4>3. call' = [call EXCEPT ![c].todo = @ \ {b}, ![c].held = held]
          BY <3>5, <4>1 DEF LockAdmin
        <4>4. call' = [call EXCEPT ![c] = [call[c] EXCEPT !.at = "counting", !.todo = call[c].todo \ {b}, !.held = held]]
          BY <1>2, <4>2, <4>3 DEF CallRecord
        <4> QED
          BY <4>2, <4>4
      <3>6. CASE LockAccount(c) \/ AdminsCounted(c)
        <4>1. PICK at \in {"count", "erase"} : call' = [call EXCEPT ![c].at = at] /\ call[c].deed = "delete"
          BY <3>3, <3>6
        <4>2. call' = [call EXCEPT ![c] = [call[c] EXCEPT !.at = at, !.todo = call[c].todo, !.held = call[c].held]]
          BY <3>2, <4>1
        <4>3. at \in {"count", "erase", "counting"}
          OBVIOUS
        <4> QED
          BY <3>1, <4>1, <4>2, <4>3
      <3>7. CASE \E b \in Members : LockAdmin(c, b)
        <4>1. PICK b \in Members : LockAdmin(c, b)
          BY <3>7
        <4>2. call[c].todo \ {b} \in SUBSET Members
          BY <3>1
        <4> QED
          BY <3>5, <4>1, <4>2
      <3>8. CASE CountAdmins(c)
        BY <3>1, <3>4, <3>8
      <3> QED
        BY <1>7, <3>6, <3>7, <3>8 DEF Abandon
    <2>2. PICK at \in {"count", "erase", "counting"}, todo \in SUBSET Members, held \in SUBSET Members :
            call' = [call EXCEPT ![c] = [call[c] EXCEPT !.at = at, !.todo = todo, !.held = held]]
      BY <2>1
    <2>3. PICK k : k = [call[c] EXCEPT !.at = at, !.todo = todo, !.held = held]
      OBVIOUS
    <2>4. k \in CallRecord /\ k.deed = "delete" /\ call' = [call EXCEPT ![c] = k]
      BY <1>2, <2>1, <2>2, <2>3 DEF CallRecord, Stages
    <2>5. Effect(c, k)
      BY <1>1, <1>3, <2>4, Settled
    <2> QED
      BY <2>4, <2>5
  <1> QED
    BY <1>5, <1>6, <1>7

\* The statements that open or delete sessions.
LEMMA SessionEffect ==
  ASSUME AccountsInv, NEW c \in Calls,
         CreateSession(c) \/ DeleteSessionsForAccount(c) \/ DeleteOtherSessions(c)
  PROVE  \E k \in CallRecord : Effect(c, k)
  <1>1. NoCall \in CallRecord /\ NoCall.deed = "none" /\ call' = [call EXCEPT ![c] = NoCall] /\ row' = row
    BY NoCallTyped DEF CreateSession, DeleteSessionsForAccount, DeleteOtherSessions, End
  <1>2. CASE CreateSession(c) /\ Exists(call[c].of)
    <2>1. PICK new : new = [id |-> issued + 1, account |-> call[c].of, password |-> call[c].password]
      OBVIOUS
    <2>2. /\ On(c, "login", "write") /\ sessions' = sessions \cup {new}
          /\ new.account = call[c].of /\ new.password = call[c].password
      BY <1>2, <2>1 DEF CreateSession
    <2>3. Opens(c)
      BY <1>1, <2>2 DEF Opens
    <2> QED
      BY <1>1, <2>3 DEF Effect
  <1>3. CASE CreateSession(c) /\ ~ Exists(call[c].of)
    <2>1. sessions' = sessions /\ call[c].at # "sessions"
      BY <1>3 DEF CreateSession, On
    <2>2. Effect(c, NoCall)
      BY <1>1, <2>1, NoneDeleted, Settled
    <2> QED
      BY <1>1, <2>2
  <1>4. CASE DeleteSessionsForAccount(c)
    <2>1. sessions' = sessions \ SessionsOf(call[c].of) /\ On(c, "disable", "sessions")
      BY <1>4 DEF DeleteSessionsForAccount
    <2>2. Deletes(c) /\ sessions' \subseteq sessions
      BY <2>1 DEF Deletes, SessionsOf, On
    <2>3. Effect(c, NoCall)
      BY <1>1, <2>2, Settled
    <2> QED
      BY <1>1, <2>3
  <1>5. CASE DeleteOtherSessions(c)
    <2>1. /\ sessions' = sessions \ {s \in SessionsOf(call[c].of) : s.id # call[c].session}
          /\ On(c, "password", "sessions")
      BY <1>5 DEF DeleteOtherSessions
    <2>2. \A s \in sessions' : s \in sessions /\ (s.account = call[c].of => s.id = call[c].session)
      BY <2>1 DEF SessionsOf
    <2>3. \A s, t \in sessions' : s.account = call[c].of /\ t.account = call[c].of => s = t
      BY <2>2 DEF AccountsInv, SessionsKept
    <2>4. Deletes(c) /\ sessions' \subseteq sessions
      BY <2>1, <2>2, <2>3 DEF Deletes, On
    <2>5. Effect(c, NoCall)
      BY <1>1, <2>4, Settled
    <2> QED
      BY <1>1, <2>5
  <1> QED
    BY <1>2, <1>3, <1>4, <1>5

\* The statements that write rows but disable nobody and change no password of an
\* account that is there.
LEMMA RowEffect ==
  ASSUME AccountsInv, NEW c \in Calls, CreateAdminAccount(c) \/ SetAccountRole(c) \/ EraseAccount(c)
  PROVE  \E k \in CallRecord : Effect(c, k)
  <1> DEFINE a == call[c].of
  <1>1. /\ NoCall \in CallRecord /\ NoCall.deed = "none" /\ call' = [call EXCEPT ![c] = NoCall]
        /\ sessions' \subseteq sessions /\ call[c].at # "sessions"
    BY NoCallTyped DEF CreateAdminAccount, SetAccountRole, EraseAccount, End, Write, On
  <1>2. row \in [Members -> AccountRow] /\ a \in Members /\ Boot \in Members /\ call[c].role \in Roles
    BY CallTyped, MembersAssumption DEF CallRecord
  <1>3. \A b \in Members : /\ row'[b].disabled => row[b].disabled
                           /\ row[b].role # "none" => row'[b].role # "none" /\ row'[b].password = row[b].password
    <2>1. CASE CreateAdminAccount(c)
      <3>1. row' = IF row[Boot].role = "none" THEN [row EXCEPT ![Boot] = Row("admin", 1)] ELSE row
        BY <2>1 DEF CreateAdminAccount
      <3>2. Row("admin", 1).disabled = FALSE
        BY DEF Row
      <3> QED
        BY <1>2, <3>1, <3>2
    <2>2. CASE SetAccountRole(c)
      <3>1. row' = IF Exists(a) THEN [row EXCEPT ![a].role = call[c].role] ELSE row
        BY <2>2 DEF SetAccountRole
      <3> QED
        BY <1>2, <3>1 DEF AccountRow, Roles
    <2>3. CASE EraseAccount(c)
      <3>1. row' = [row EXCEPT ![a].role = "gone"]
        BY <2>3 DEF EraseAccount
      <3> QED
        BY <1>2, <3>1 DEF AccountRow
    <2> QED
      BY <2>1, <2>2, <2>3
  <1>4. Effect(c, NoCall)
    BY <1>1, <1>3, NoneDeleted, Settled
  <1> QED
    BY <1>1, <1>4

\* The statement that disables or enables an account.
LEMMA DisableEffect ==
  ASSUME AccountsInv, NEW c \in Calls, SetAccountDisabled(c)
  PROVE  \E k \in CallRecord : Effect(c, k)
  <1> DEFINE a == call[c].of
             disabling == call[c].deed = "disable"
  <1>1. /\ call[c].deed \in {"disable", "enable"} /\ call[c].at = "write" /\ sessions' = sessions
        /\ NoCall \in CallRecord /\ NoCall.deed = "none"
    BY NoCallTyped DEF SetAccountDisabled, Write
  <1>2. row \in [Members -> AccountRow] /\ a \in Members /\ call[c] \in CallRecord
    BY CallTyped
  <1>3. CASE ~ Exists(a)
    <2>1. call' = [call EXCEPT ![c] = NoCall] /\ row' = row
      BY <1>3 DEF SetAccountDisabled, End
    <2>2. Effect(c, NoCall)
      BY <1>1, <2>1, NoneDeleted, Settled
    <2> QED
      BY <1>1, <2>2
  <1>4. CASE Exists(a)
    <2>1. row' = [row EXCEPT ![a].disabled = disabling]
      BY <1>4 DEF SetAccountDisabled
    <2>2. \A b \in Members : /\ row'[b].role = row[b].role /\ row'[b].password = row[b].password
                             /\ row'[b].disabled = IF b = a THEN disabling ELSE row[b].disabled
      BY <1>2, <2>1 DEF AccountRow
    <2>3. CASE disabling
      <3>1. PICK k : k = [call[c] EXCEPT !.at = "sessions"]
        OBVIOUS
      <3>2. call' = [call EXCEPT ![c] = k]
        BY <1>4, <2>3, <3>1 DEF SetAccountDisabled, Proceed
      <3>3. k \in CallRecord /\ k.of = a /\ k.at = "sessions" /\ k.deed = "disable"
        BY <1>2, <2>3, <3>1 DEF CallRecord, Stages
      <3>4. Ousts(c, k)
        BY <1>1, <2>2, <2>3, <3>3 DEF Ousts, On
      <3> QED
        BY <3>2, <3>3, <3>4 DEF Effect
    <2>4. CASE ~ disabling
      <3>1. call' = [call EXCEPT ![c] = NoCall]
        BY <1>4, <2>4 DEF SetAccountDisabled, End
      <3>2. \A b \in Members : /\ row'[b].disabled => row[b].disabled
                               /\ row[b].role # "none" => row'[b].role # "none" /\ row'[b].password = row[b].password
        BY <2>2, <2>4
      <3>3. Effect(c, NoCall)
        BY <1>1, <3>1, <3>2, NoneDeleted, Settled
      <3> QED
        BY <1>1, <3>3
    <2> QED
      BY <2>3, <2>4
  <1> QED
    BY <1>3, <1>4

\* The statement that writes a password.
LEMMA PasswordEffect ==
  ASSUME AccountsInv, NEW c \in Calls, SetAccountPassword(c)
  PROVE  \E k \in CallRecord : Effect(c, k)
  <1> DEFINE a == call[c].of
  <1>1. /\ call[c].deed \in {"password", "set-password"} /\ call[c].at = "write" /\ sessions' = sessions
        /\ NoCall \in CallRecord /\ NoCall.deed = "none" /\ NoCall.at = "write"
    BY NoCallTyped DEF SetAccountPassword, Write
  <1>2. row \in [Members -> AccountRow] /\ a \in Members /\ call[c] \in CallRecord
    BY CallTyped
  <1>3. CASE ~ Exists(a)
    <2>1. call' = [call EXCEPT ![c] = NoCall] /\ row' = row
      BY <1>3 DEF SetAccountPassword, End
    <2>2. Effect(c, NoCall)
      BY <1>1, <2>1, NoneDeleted, Settled
    <2> QED
      BY <1>1, <2>2
  <1>4. CASE Exists(a)
    <2>1. row' = [row EXCEPT ![a].password = row[a].password + 1]
      BY <1>4 DEF SetAccountPassword
    <2>2. \A b \in Members : /\ row'[b].role = row[b].role /\ row'[b].disabled = row[b].disabled
                             /\ row'[b].password # row[b].password => b = a
      BY <1>2, <2>1 DEF AccountRow
    <2>3. CASE call[c].deed = "password"
      <3>1. PICK k : k = [call[c] EXCEPT !.at = "sessions"]
        OBVIOUS
      <3>2. call' = [call EXCEPT ![c] = k]
        BY <1>4, <2>3, <3>1 DEF SetAccountPassword, Proceed
      <3>3. k \in CallRecord /\ k.of = a /\ k.at = "sessions" /\ k.deed = "password"
        BY <1>2, <2>3, <3>1 DEF CallRecord, Stages
      <3>4. Rekeys(c, k)
        BY <1>1, <2>2, <3>3 DEF Rekeys
      <3> QED
        BY <3>2, <3>3, <3>4 DEF Effect
    <2>4. CASE call[c].deed # "password"
      <3>1. call' = [call EXCEPT ![c] = NoCall]
        BY <1>4, <2>4 DEF SetAccountPassword, End
      <3>2. Rekeys(c, NoCall)
        BY <1>1, <2>2, <2>4 DEF Rekeys
      <3> QED
        BY <1>1, <3>1, <3>2 DEF Effect
    <2> QED
      BY <2>3, <2>4
  <1> QED
    BY <1>3, <1>4

\* The commit of a purge.
LEMMA PurgeEffect ==
  ASSUME AccountsInv, NEW c \in Calls, CommitPurge(c)
  PROVE  \E k \in CallRecord : Effect(c, k)
  <1> DEFINE a == call[c].of
  <1>1. /\ On(c, "purge", "commit") /\ call' = [call EXCEPT ![c] = NoCall] /\ NoCall \in CallRecord
        /\ sessions' = sessions \ {s \in sessions : s.id \in call[c].ids}
        /\ row' = IF Exists(a) THEN [row EXCEPT ![a].disabled = TRUE] ELSE row
    BY NoCallTyped DEF CommitPurge, End
  <1>2. row \in [Members -> AccountRow] /\ a \in Members
    BY CallTyped
  <1>3. \A b \in Members : /\ row'[b].role = row[b].role /\ row'[b].password = row[b].password
                           /\ row'[b].disabled => row[b].disabled \/ b = a
    BY <1>1, <1>2 DEF AccountRow
  <1>4. Ousts(c, NoCall)
    BY <1>1, <1>3 DEF Ousts
  <1> QED
    BY <1>1, <1>4 DEF Effect

\* Whatever a call does, it is one of these.
LEMMA CallEffect ==
  ASSUME AccountsInv, NEW c \in Calls, Ask(c) \/ Statement(c)
  PROVE  \E k \in CallRecord : Effect(c, k)
  BY AskEffect, MoveEffect, SessionEffect, RowEffect, DisableEffect, PasswordEffect, PurgeEffect DEF Statement

\* The calls after a step, and the accounts of the sessions there are.
LEMMA EffectLeaves ==
  ASSUME AccountsInv, NEW c \in Calls, NEW k \in CallRecord, Effect(c, k)
  PROVE  /\ call'[c] = k /\ \A d \in Calls : d # c => call'[d] = call[d]
         /\ \A d \in Calls : call[d].of \in Members
         /\ \A s \in sessions : s.account \in Members /\ row[s.account].role # "none"
         /\ NoCall.deed = "none"
  <1>1. AccountsTypeOK /\ call' = [call EXCEPT ![c] = k]
    BY DEF AccountsInv, Effect
  <1> QED
    BY <1>1, CallsAfter, CallTyped, NoCallTyped DEF SessionsKept, Exists, Roles

LEMMA AllOutKept ==
  ASSUME AccountsInv, AllOut, LoginsStandApart(Ousting), NEW c \in Calls, NEW k \in CallRecord, Effect(c, k),
         call[c].deed \in {"disable"} /\ call[c].at = "sessions" /\ Abandon(c) => SessionsOf(call[c].of) = {}
  PROVE  AllOut'
  <1>1. /\ call'[c] = k /\ \A d \in Calls : d # c => call'[d] = call[d]
        /\ \A d \in Calls : call[d].of \in Members
        /\ \A s \in sessions : s.account \in Members
        /\ NoCall.deed = "none"
    BY EffectLeaves
  <1>2. CASE k = NoCall /\ Opens(c)
    <2>1. PICK new : /\ sessions' = sessions \cup {new} /\ new.account = call[c].of
                     /\ call[c].deed = "login" /\ row' = row
      BY <1>2 DEF Opens, On
    <2>2. ~ row[call[c].of].disabled
      BY <2>1 DEF AllOut
    <2>3. \A s \in sessions' : row'[s.account].disabled =>
            \E d \in Calls : call'[d].deed = "disable" /\ call'[d].at = "sessions" /\ call'[d].of = s.account
      <3> SUFFICES ASSUME NEW s \in sessions, row[s.account].disabled
                   PROVE  \E d \in Calls : call'[d].deed = "disable" /\ call'[d].at = "sessions" /\ call'[d].of = s.account
        BY <2>1, <2>2
      <3>1. PICK d \in Calls : On(d, "disable", "sessions") /\ call[d].of = s.account
        BY DEF AllOut
      <3>2. d # c
        BY <2>1, <3>1 DEF On
      <3> QED
        BY <1>1, <3>1, <3>2 DEF On
    <2>4. \A d \in Calls : call'[d].deed = "login" => ~ row'[call'[d].of].disabled
      BY <1>1, <1>2, <2>1 DEF AllOut
    <2>5. ASSUME NEW d \in Calls, call'[d].deed = "purge", call'[d].at = "commit", NEW s \in sessions',
                 s.account = call'[d].of
          PROVE  s.id \in call'[d].ids
      <3>1. d # c /\ call'[d] = call[d]
        BY <1>1, <1>2, <2>5
      <3>2. call[d].of # call[c].of
        BY <2>1, <2>5, <3>1 DEF LoginsStandApart, Ousting
      <3> QED
        BY <2>1, <2>5, <3>1, <3>2 DEF AllOut, On
    <2> QED
      BY <2>3, <2>4, <2>5 DEF AllOut, On
  <1>3. CASE Ousts(c, k)
    <2>1. /\ sessions' \subseteq sessions /\ call[c].deed \in Ousting /\ k.deed \in {"disable", "none"}
          /\ ~ On(c, "disable", "sessions")
          /\ \A b \in Members : row'[b].disabled => row[b].disabled \/ b = call[c].of
      BY <1>1, <1>3 DEF Ousts, On, Ousting
    <2>2. ASSUME NEW s \in sessions', row'[s.account].disabled
          PROVE  \E d \in Calls : call'[d].deed = "disable" /\ call'[d].at = "sessions" /\ call'[d].of = s.account
      <3>1. s \in sessions /\ s.account \in Members
        BY <1>1, <2>1
      <3>2. CASE s.account # call[c].of \/ row[s.account].disabled
        <4>1. row[s.account].disabled
          BY <2>1, <2>2, <3>1, <3>2
        <4>2. PICK d \in Calls : On(d, "disable", "sessions") /\ call[d].of = s.account
          BY <3>1, <4>1 DEF AllOut
        <4>3. d # c
          BY <2>1, <4>2
        <4> QED
          BY <1>1, <4>2, <4>3 DEF On
      <3>3. CASE s.account = call[c].of /\ On(c, "purge", "commit") /\ \A t \in sessions' : t.id \notin call[c].ids
        BY <3>1, <3>3 DEF AllOut
      <3>4. CASE s.account = call[c].of /\ k.deed = "disable" /\ k.at = "sessions" /\ k.of = call[c].of
        BY <1>1, <3>4
      <3> QED
        BY <1>3, <3>2, <3>3, <3>4 DEF Ousts
    <2>3. ASSUME NEW d \in Calls, call'[d].deed = "login"
          PROVE  ~ row'[call'[d].of].disabled
      <3>1. d # c /\ call'[d] = call[d]
        BY <1>1, <2>1, <2>3
      <3>2. call[d].of # call[c].of /\ ~ row[call[d].of].disabled
        BY <2>1, <2>3, <3>1 DEF LoginsStandApart, AllOut
      <3> QED
        BY <1>1, <2>1, <3>1, <3>2
    <2>4. \A d \in Calls : call'[d].deed = "purge" /\ call'[d].at = "commit" =>
            \A s \in sessions' : s.account = call'[d].of => s.id \in call'[d].ids
      BY <1>1, <2>1 DEF AllOut, On
    <2> QED
      BY <2>2, <2>3, <2>4 DEF AllOut, On
  <1>4. CASE Rekeys(c, k) \/ Settles(c, k)
    <2>1. /\ sessions' \subseteq sessions /\ \A b \in Members : row'[b].disabled => row[b].disabled
          /\ k.deed = "login" => ~ row[k.of].disabled
          /\ k.deed = "purge" /\ k.at = "commit" => \A s \in sessions : s.account = k.of => s.id \in k.ids
      BY <1>4 DEF Rekeys, Settles
    <2>2. On(c, "disable", "sessions") => \A s \in sessions' : s.account # call[c].of
      BY <1>4, <2>1 DEF Rekeys, Settles, Deletes, SessionsOf, On
    <2>3. ASSUME NEW s \in sessions', row'[s.account].disabled
          PROVE  \E d \in Calls : call'[d].deed = "disable" /\ call'[d].at = "sessions" /\ call'[d].of = s.account
      <3>1. s \in sessions /\ row[s.account].disabled
        BY <1>1, <2>1, <2>3
      <3>2. PICK d \in Calls : On(d, "disable", "sessions") /\ call[d].of = s.account
        BY <3>1 DEF AllOut
      <3>3. d # c
        BY <2>2, <3>2
      <3> QED
        BY <1>1, <3>2, <3>3 DEF On
    <2>4. \A d \in Calls : call'[d].deed = "login" => ~ row'[call'[d].of].disabled
      <3>1. k.of \in Members
        BY DEF CallRecord
      <3> QED
        BY <1>1, <2>1, <3>1 DEF AllOut
    <2>5. \A d \in Calls : call'[d].deed = "purge" /\ call'[d].at = "commit" =>
            \A s \in sessions' : s.account = call'[d].of => s.id \in call'[d].ids
      BY <1>1, <2>1 DEF AllOut, On
    <2> QED
      BY <2>3, <2>4, <2>5 DEF AllOut, On
  <1> QED
    BY <1>2, <1>3, <1>4 DEF Effect

\* Steps of no call: a session ends, an account is made.
LEMMA AllOutBeside ==
  ASSUME AccountsInv, AllOut, call' = call, sessions' \subseteq sessions,
         \A b \in Members : row'[b].disabled => row[b].disabled
  PROVE  AllOut'
  <1>1. \A s \in sessions : s.account \in Members
    BY DEF AccountsInv, AccountsTypeOK
  <1>2. \A d \in Calls : call[d].of \in Members
    BY CallTyped
  <1> QED
    BY <1>1, <1>2 DEF AllOut, On

\* What the steps of no call do.
LEMMA BesideCalls ==
  ASSUME AccountsInv, [AccountsNext]_accountVars, ~ \E c \in Calls : Ask(c) \/ Statement(c)
  PROVE  /\ call' = call /\ sessions' \subseteq sessions
         /\ \A b \in Members : /\ row'[b].disabled => row[b].disabled
                               /\ row[b].role # "none" => row'[b] = row[b]
  <1>1. row \in [Members -> AccountRow]
    BY AccountsTyped DEF AccountsInv
  <1>2. ASSUME NEW a \in Members, NEW password, CreateAccount(a, password)
        PROVE  /\ call' = call /\ sessions' = sessions
               /\ \A b \in Members : /\ row'[b].disabled => row[b].disabled
                                     /\ row[b].role # "none" => row'[b] = row[b]
    BY <1>1, <1>2 DEF CreateAccount, Row
  <1> QED
    BY <1>2 DEF AccountsNext, accountVars, SessionEnds, HandleRegisterSubmit, AccountCreateCmd

\* A disabled account has a session only where a login was verified beside the
\* disabling or the purge, or the deletion of its sessions was given up: with no
\* such login and no such failure, the only sessions of a disabled account are
\* those whose deletion is the next statement of the call that disabled it.
THEOREM DisablingEndsSessions ==
  AccountsSpec /\ []LoginsStandApart(Ousting) /\ DeletionsSucceed({"disable"}) =>
    [](\A s \in sessions : row[s.account].disabled =>
         \E c \in Calls : On(c, "disable", "sessions") /\ call[c].of = s.account)
  <1>1. AccountsSpec => []AccountsInv
    BY AccountsHold
  <1>2. AccountsInit => AllOut
    BY NoCallTyped DEF AccountsInit, AllOut, On
  <1>3. ASSUME AccountsInv, AllOut, LoginsStandApart(Ousting), [AccountsNext]_accountVars,
               [\A c \in Calls : call[c].deed \in {"disable"} /\ call[c].at = "sessions" /\ Abandon(c) =>
                  SessionsOf(call[c].of) = {}]_accountVars
        PROVE  AllOut'
    <2>1. CASE \E c \in Calls : Ask(c) \/ Statement(c)
      <3>1. PICK c \in Calls : Ask(c) \/ Statement(c)
        BY <2>1
      <3>2. PICK k \in CallRecord : Effect(c, k)
        BY <1>3, <3>1, CallEffect
      <3>3. ASSUME UNCHANGED accountVars
            PROVE  AllOut'
        BY <1>3, <3>3, AllOutBeside DEF accountVars
      <3>4. CASE call[c].deed \in {"disable"} /\ call[c].at = "sessions" /\ Abandon(c) => SessionsOf(call[c].of) = {}
        BY <1>3, <3>2, <3>4, AllOutKept
      <3> QED
        BY <1>3, <3>3, <3>4
    <2>2. CASE ~ \E c \in Calls : Ask(c) \/ Statement(c)
      BY <1>3, <2>2, BesideCalls, AllOutBeside
    <2> QED
      BY <2>1, <2>2
  <1>4. AccountsInv /\ AllOut /\ LoginsStandApart(Ousting) /\ [AccountsNext]_accountVars
        /\ [\A c \in Calls : call[c].deed \in {"disable"} /\ call[c].at = "sessions" /\ Abandon(c) =>
              SessionsOf(call[c].of) = {}]_accountVars => AllOut'
    BY <1>3
  <1>5. AllOut => \A s \in sessions : row[s.account].disabled =>
                    \E c \in Calls : On(c, "disable", "sessions") /\ call[c].of = s.account
    BY DEF AllOut
  <1> QED
    BY <1>1, <1>2, <1>4, <1>5, PTL DEF AccountsSpec, DeletionsSucceed

\* A session opened with an old password.
Old(s) == s.password # row[s.account].password

\* Of the sessions of one account at most one has an old password, unless their
\* deletion is to come; and a login in flight has the password there is.
OneOld ==
  /\ \A s, t \in sessions : s.account = t.account /\ Old(s) /\ Old(t) /\ s # t =>
       \E c \in Calls : On(c, "password", "sessions") /\ call[c].of = s.account
  /\ \A c \in Calls : call[c].deed = "login" =>
       call[c].password = row[call[c].of].password /\ row[call[c].of].role # "none"

LEMMA OneOldKept ==
  ASSUME AccountsInv, OneOld, LoginsStandApart({"password"}), \A d \in Calls : call[d].deed # "set-password",
         NEW c \in Calls, NEW k \in CallRecord, Effect(c, k),
         call[c].deed \in {"password"} /\ call[c].at = "sessions" /\ Abandon(c) => SessionsOf(call[c].of) = {}
  PROVE  OneOld'
  <1>1. /\ call'[c] = k /\ \A d \in Calls : d # c => call'[d] = call[d]
        /\ \A d \in Calls : call[d].of \in Members
        /\ \A s \in sessions : s.account \in Members /\ row[s.account].role # "none"
        /\ NoCall.deed = "none"
    BY EffectLeaves
  <1> DEFINE Due(s) == \E d \in Calls : call'[d].deed = "password" /\ call'[d].at = "sessions" /\ call'[d].of = s.account
             OldNow(s) == s.password # row'[s.account].password
             Logins == \A d \in Calls : call'[d].deed = "login" =>
                         /\ call'[d].password = row'[call'[d].of].password
                         /\ row'[call'[d].of].role # "none"
  <1>2. SUFFICES /\ Logins
                 /\ \A s, t \in sessions' : s.account = t.account /\ OldNow(s) /\ OldNow(t) /\ s # t => Due(s)
    BY DEF OneOld, Old, On
  <1>3. ASSUME NEW s \in sessions, NEW t \in sessions, s.account = t.account, Old(s), Old(t), s # t,
               ~ (On(c, "password", "sessions") /\ call[c].of = s.account)
        PROVE  Due(s)
    <2>1. PICK d \in Calls : On(d, "password", "sessions") /\ call[d].of = s.account
      BY <1>3 DEF OneOld
    <2>2. d # c
      BY <1>3, <2>1
    <2> QED
      BY <1>1, <2>1, <2>2 DEF On
  <1>4. CASE k = NoCall /\ Opens(c)
    <2>1. PICK new : /\ sessions' = sessions \cup {new} /\ new.account = call[c].of
                     /\ new.password = call[c].password /\ call[c].deed = "login" /\ row' = row
      BY <1>4 DEF Opens, On
    <2>2. ~ OldNow(new)
      BY <2>1 DEF OneOld
    <2>3. ASSUME NEW s \in sessions', NEW t \in sessions', s.account = t.account, OldNow(s), OldNow(t), s # t
          PROVE  Due(s)
      <3>1. s \in sessions /\ t \in sessions /\ Old(s) /\ Old(t)
        BY <2>1, <2>2, <2>3 DEF Old
      <3>2. ~ On(c, "password", "sessions")
        BY <2>1 DEF On
      <3> QED
        BY <1>3, <2>3, <3>1, <3>2
    <2>4. Logins
      BY <1>1, <1>4, <2>1 DEF OneOld
    <2> QED
      BY <2>3, <2>4
  <1>5. CASE Ousts(c, k)
    <2>1. /\ sessions' \subseteq sessions /\ k.deed \in {"disable", "none"} /\ ~ On(c, "password", "sessions")
          /\ \A b \in Members : row'[b].role = row[b].role /\ row'[b].password = row[b].password
      BY <1>1, <1>5 DEF Ousts, On
    <2>2. ASSUME NEW s \in sessions', NEW t \in sessions', s.account = t.account, OldNow(s), OldNow(t), s # t
          PROVE  Due(s)
      <3>1. s \in sessions /\ t \in sessions /\ Old(s) /\ Old(t)
        BY <1>1, <2>1, <2>2 DEF Old
      <3> QED
        BY <1>3, <2>1, <2>2, <3>1
    <2>3. Logins
      BY <1>1, <2>1 DEF OneOld
    <2> QED
      BY <2>2, <2>3
  <1>6. CASE Rekeys(c, k)
    <2>1. /\ sessions' = sessions /\ call[c].deed = "password" /\ ~ On(c, "password", "sessions")
          /\ k.deed = "password" /\ k.at = "sessions" /\ k.of = call[c].of
          /\ \A b \in Members : /\ row'[b].role = row[b].role
                                /\ row'[b].password # row[b].password => b = call[c].of
      BY <1>6 DEF Rekeys, On
    <2>2. ASSUME NEW s \in sessions', NEW t \in sessions', s.account = t.account, OldNow(s), OldNow(t), s # t
          PROVE  Due(s)
      <3>1. CASE s.account = call[c].of
        BY <1>1, <2>1, <3>1
      <3>2. CASE s.account # call[c].of
        <4>1. s \in sessions /\ t \in sessions /\ Old(s) /\ Old(t)
          BY <1>1, <2>1, <2>2, <3>2 DEF Old
        <4> QED
          BY <1>3, <2>1, <2>2, <4>1
      <3> QED
        BY <3>1, <3>2
    <2>3. ASSUME NEW d \in Calls, call'[d].deed = "login"
          PROVE  call'[d].password = row'[call'[d].of].password /\ row'[call'[d].of].role # "none"
      <3>1. d # c /\ call'[d] = call[d]
        BY <1>1, <2>1, <2>3
      <3>2. call[d].of # call[c].of
        BY <2>1, <2>3, <3>1 DEF LoginsStandApart
      <3> QED
        BY <1>1, <2>1, <2>3, <3>1, <3>2 DEF OneOld
    <2> QED
      BY <2>2, <2>3
  <1>7. CASE Settles(c, k)
    <2>1. /\ sessions' \subseteq sessions
          /\ \A b \in Members : row[b].role # "none" => row'[b].role # "none" /\ row'[b].password = row[b].password
          /\ k.deed = "login" => k.password = row[k.of].password /\ row[k.of].role # "none"
      BY <1>7 DEF Settles
    <2>2. On(c, "password", "sessions") =>
            \A s, t \in sessions' : s.account = call[c].of /\ t.account = call[c].of => s = t
      BY <1>7, <2>1 DEF Settles, Deletes, SessionsOf, On
    <2>3. ASSUME NEW s \in sessions', NEW t \in sessions', s.account = t.account, OldNow(s), OldNow(t), s # t
          PROVE  Due(s)
      <3>1. s \in sessions /\ t \in sessions /\ Old(s) /\ Old(t)
        BY <1>1, <2>1, <2>3 DEF Old
      <3>2. ~ (On(c, "password", "sessions") /\ call[c].of = s.account)
        BY <2>2, <2>3
      <3> QED
        BY <1>3, <2>3, <3>1, <3>2
    <2>4. Logins
      <3>1. k.of \in Members
        BY DEF CallRecord
      <3> QED
        BY <1>1, <2>1, <3>1 DEF OneOld
    <2> QED
      BY <2>3, <2>4
  <1> QED
    BY <1>4, <1>5, <1>6, <1>7 DEF Effect

LEMMA OneOldBeside ==
  ASSUME AccountsInv, OneOld, call' = call, sessions' \subseteq sessions,
         \A b \in Members : row[b].role # "none" => row'[b] = row[b]
  PROVE  OneOld'
  <1>1. \A s \in sessions : s.account \in Members /\ row[s.account].role # "none"
    BY CallTyped DEF AccountsInv, AccountsTypeOK, SessionsKept, Exists, Roles
  <1>2. \A d \in Calls : call[d].of \in Members
    BY CallTyped
  <1> QED
    BY <1>1, <1>2 DEF OneOld, Old, On

\* A session outlives a change of its account's password only as the one browser
\* that made the change keeps its own, or where a login was verified beside the
\* change, the deletion of the others was given up, or the operator set the
\* password: with none of these three, no two sessions of an account have an old
\* password, except while the deletion of all but one is the next statement of the
\* call that changed it.
THEOREM ChangingPasswordLeavesOneSession ==
  /\ AccountsSpec /\ []LoginsStandApart({"password"}) /\ DeletionsSucceed({"password"})
  /\ []\A c \in Calls : call[c].deed # "set-password"
  => [](\A s, t \in sessions : s.account = t.account /\ Old(s) /\ Old(t) /\ s # t =>
          \E c \in Calls : On(c, "password", "sessions") /\ call[c].of = s.account)
  <1>1. AccountsSpec => []AccountsInv
    BY AccountsHold
  <1>2. AccountsInit => OneOld
    BY NoCallTyped DEF AccountsInit, OneOld
  <1>3. ASSUME AccountsInv, OneOld, LoginsStandApart({"password"}), \A c \in Calls : call[c].deed # "set-password",
               [AccountsNext]_accountVars,
               [\A c \in Calls : call[c].deed \in {"password"} /\ call[c].at = "sessions" /\ Abandon(c) =>
                  SessionsOf(call[c].of) = {}]_accountVars
        PROVE  OneOld'
    <2>1. CASE \E c \in Calls : Ask(c) \/ Statement(c)
      <3>1. PICK c \in Calls : Ask(c) \/ Statement(c)
        BY <2>1
      <3>2. PICK k \in CallRecord : Effect(c, k)
        BY <1>3, <3>1, CallEffect
      <3>3. ASSUME UNCHANGED accountVars
            PROVE  OneOld'
        BY <1>3, <3>3, OneOldBeside DEF accountVars
      <3>4. CASE call[c].deed \in {"password"} /\ call[c].at = "sessions" /\ Abandon(c) => SessionsOf(call[c].of) = {}
        BY <1>3, <3>2, <3>4, OneOldKept
      <3> QED
        BY <1>3, <3>3, <3>4
    <2>2. CASE ~ \E c \in Calls : Ask(c) \/ Statement(c)
      BY <1>3, <2>2, BesideCalls, OneOldBeside
    <2> QED
      BY <2>1, <2>2
  <1>4. AccountsInv /\ OneOld /\ LoginsStandApart({"password"}) /\ (\A c \in Calls : call[c].deed # "set-password")
        /\ [AccountsNext]_accountVars
        /\ [\A c \in Calls : call[c].deed \in {"password"} /\ call[c].at = "sessions" /\ Abandon(c) =>
              SessionsOf(call[c].of) = {}]_accountVars => OneOld'
    BY <1>3
  <1>5. OneOld => \A s, t \in sessions : s.account = t.account /\ Old(s) /\ Old(t) /\ s # t =>
                    \E c \in Calls : On(c, "password", "sessions") /\ call[c].of = s.account
    BY DEF OneOld
  <1> QED
    BY <1>1, <1>2, <1>4, <1>5, PTL DEF AccountsSpec, DeletionsSucceed

-----------------------------------------------------------------------------
(* Removal requests and fit reports.                                       *)

\* Requests are numbered in the order they are filed, a handler works on one
\* that is there, and no two take down the track for the same one.
RequestsHandled ==
  /\ \E k \in 0..MaxRequests : DOMAIN requests = 1..k
  /\ \A h \in Handlers : handling[h].at # "free" => handling[h].request \in DOMAIN requests
  /\ \A g, h \in Handlers :
       g # h /\ handling[g].at = "takedown" /\ handling[h].at = "takedown"
       => handling[g].request # handling[h].request

\* The track's row is held by one report at a time.
OneFitAtATime ==
  \A p, q \in People :
    fitting[p].at \in {"count", "commit"} /\ fitting[q].at \in {"count", "commit"} => p = q

ReportsInv == ReportsTypeOK /\ RequestsHandled /\ OneDecision /\ OneFitAtATime /\ FitAnswersStand

\* The variables' types, as sets of records.
HandlerRecord == [at : {"free", "mark", "takedown"}, request : {0} \cup Numbers,
                  by : People \cup {"nobody"}]
FitRecord == [at : {"idle", "write", "count", "commit"}, pairing : Pairings,
              claim : FitClaims \cup {"none"}, fits : Nat, misfits : Nat, saw : SUBSET People]

-----------------------------------------------------------------------------
LEMMA ReportsTyped ==
  ReportsTypeOK <=>
    /\ present \subseteq People /\ up \in BOOLEAN /\ sameWork \in BOOLEAN
    /\ turns \in 0..MaxTurns
    /\ DOMAIN requests \subseteq Numbers /\ \A n \in DOMAIN requests : requests[n] \in Decision
    /\ DOMAIN taken = DOMAIN requests /\ \A n \in DOMAIN taken : taken[n] \in Nat
    /\ handling \in [Handlers -> HandlerRecord]
    /\ reports \in [Pairings -> [People -> FitClaims \cup {"none"}]]
    /\ fitting \in [People -> FitRecord]
  BY DEF ReportsTypeOK, HandlerRecord, FitRecord

LEMMA ReportsStart == ReportsInit => ReportsInv
  <1> SUFFICES ASSUME ReportsInit PROVE ReportsInv
    OBVIOUS
  <1> USE DEF ReportsInit
  <1>1. DOMAIN requests = {} /\ DOMAIN taken = {}
    OBVIOUS
  <1>2. FreeHandler \in HandlerRecord /\ FreeHandler.at = "free"
    BY DEF FreeHandler, HandlerRecord
  <1>3. NoFit \in FitRecord /\ NoFit.at = "idle"
    BY DEF NoFit, FitRecord, Pairings, FitClaims
  <1>4. ReportsTypeOK
    BY <1>1, <1>2, <1>3, ReportsTyped, ReportsAssumption
  <1>5. RequestsHandled
    <2>1. 0 \in 0..MaxRequests /\ 1..0 = {}
      BY ReportsAssumption
    <2> QED
      BY <1>1, <1>2, <2>1 DEF RequestsHandled
  <1>6. OneDecision
    BY <1>1, <1>2 DEF OneDecision
  <1>7. OneFitAtATime /\ FitAnswersStand
    BY <1>3 DEF OneFitAtATime, FitAnswersStand
  <1> QED
    BY <1>4, <1>5, <1>6, <1>7 DEF ReportsInv

-----------------------------------------------------------------------------
\* A step of the removal requests leaves what the fit reports need.
LEMMA FitsUntouched ==
  ASSUME ReportsInv, UNCHANGED fitVars
  PROVE  OneFitAtATime' /\ FitAnswersStand'
  BY DEF ReportsInv, fitVars, OneFitAtATime, FitAnswersStand, Standing, ReadBy

\* A step of the fit reports leaves what the removal requests need.
LEMMA RequestsUntouched ==
  ASSUME ReportsInv, UNCHANGED removalVars
  PROVE  RequestsHandled' /\ OneDecision'
  BY DEF ReportsInv, removalVars, RequestsHandled, OneDecision

\* A handler's step that decides nothing.
LEMMA HandlerMoves ==
  ASSUME ReportsInv, NEW h \in Handlers, NEW k \in HandlerRecord, k.at # "takedown",
         k.at # "free" => k.request \in DOMAIN requests,
         handling' = [handling EXCEPT ![h] = k],
         UNCHANGED <<present, up, sameWork, turns, requests, taken, fitVars>>
  PROVE  ReportsInv'
  <1>1. handling'[h] = k /\ \A g \in Handlers : g # h => handling'[g] = handling[g]
    BY ReportsTyped DEF ReportsInv
  <1>2. handling' \in [Handlers -> HandlerRecord]
    BY ReportsTyped DEF ReportsInv
  <1>3. ReportsTypeOK'
    BY <1>2 DEF ReportsInv, ReportsTypeOK, HandlerRecord, fitVars, Decision
  <1>4. RequestsHandled'
    BY <1>1 DEF ReportsInv, RequestsHandled
  <1>5. OneDecision'
    BY <1>1 DEF ReportsInv, OneDecision
  <1> QED
    BY <1>3, <1>4, <1>5, FitsUntouched DEF ReportsInv

LEMMA FileStep ==
  ASSUME ReportsInv, CreateRemovalRequest
  PROVE  ReportsInv'
  <1>1. PICK k \in 0..MaxRequests : DOMAIN requests = 1..k
    BY DEF ReportsInv, RequestsHandled
  <1>2. Cardinality(DOMAIN requests) + 1 = k + 1
    <2>1. Cardinality(1..k) = IF 1 > k THEN 0 ELSE k - 1 + 1
      BY FS_Interval
    <2> QED
      BY <1>1, <2>1
  <1>3. /\ k + 1 \in Numbers
        /\ requests' = [i \in 1..(k + 1) |-> IF i = k + 1 THEN Open ELSE requests[i]]
        /\ taken' = [i \in 1..(k + 1) |-> IF i = k + 1 THEN 0 ELSE taken[i]]
        /\ UNCHANGED <<present, up, sameWork, turns, handling, fitVars>>
    BY <1>2 DEF CreateRemovalRequest
  <1>4. /\ DOMAIN requests' = 1..(k + 1) /\ DOMAIN taken' = 1..(k + 1)
        /\ \A n \in DOMAIN requests : requests'[n] = requests[n] /\ taken'[n] = taken[n]
        /\ requests'[k + 1] = Open /\ taken'[k + 1] = 0
        /\ \A n \in 1..(k + 1) : n = k + 1 \/ n \in DOMAIN requests
    BY <1>1, <1>3
  <1>5. Open \in Decision /\ Open.action = "open"
    BY DEF Open, Decision
  <1>6. ReportsTypeOK'
    <2>1. DOMAIN requests' \subseteq Numbers
      <3>1. \A i \in 1..(k + 1) : i \in 1..MaxRequests
        BY <1>3, ReportsAssumption DEF Numbers
      <3> QED
        BY <1>4, <3>1 DEF Numbers
    <2>2. \A n \in DOMAIN requests' : requests'[n] \in Decision /\ taken'[n] \in Nat
      BY <1>4, <1>5, ReportsTyped DEF ReportsInv
    <2> QED
      BY <1>3, <1>4, <2>1, <2>2 DEF ReportsInv, ReportsTypeOK, fitVars, Decision
  <1>7. RequestsHandled'
    <2>1. k + 1 \in 0..MaxRequests
      BY <1>3, ReportsAssumption DEF Numbers
    <2> QED
      BY <1>1, <1>3, <1>4, <2>1 DEF ReportsInv, RequestsHandled
  <1>8. OneDecision'
    <2>1. \A n \in DOMAIN requests' :
             taken'[n] <= 1 /\ (taken'[n] = 1 => requests'[n].action = "withdraw")
      BY <1>4 DEF ReportsInv, OneDecision
    <2>2. ASSUME NEW h \in Handlers, handling[h].at = "takedown"
          PROVE  LET n == handling[h].request IN
                 /\ requests'[n].action = "withdraw" /\ taken'[n] = 0
                 /\ requests'[n].by \in {handling[h].by, "nobody"}
      <3>1. handling[h].request \in DOMAIN requests
        BY <2>2 DEF ReportsInv, RequestsHandled
      <3> QED
        BY <1>4, <2>2, <3>1 DEF ReportsInv, OneDecision
    <2> QED
      BY <1>3, <2>1, <2>2 DEF OneDecision
  <1> QED
    BY <1>3, <1>6, <1>7, <1>8, FitsUntouched DEF ReportsInv

LEMMA WithdrawStep ==
  ASSUME ReportsInv, NEW h \in Handlers, NEW n, NEW p \in People, WithdrawForRequest(h, n, p)
  PROVE  ReportsInv'
  <1> DEFINE k == [at |-> "mark", request |-> n, by |-> p]
  <1>1. /\ n \in DOMAIN requests /\ handling' = [handling EXCEPT ![h] = k]
        /\ UNCHANGED <<present, up, sameWork, turns, requests, taken, fitVars>>
    BY DEF WithdrawForRequest
  <1>2. k \in HandlerRecord
    BY <1>1 DEF HandlerRecord, ReportsInv, ReportsTypeOK
  <1>3. k.at = "mark" /\ k.request = n
    OBVIOUS
  <1> HIDE DEF k
  <1> QED
    BY <1>1, <1>2, <1>3, HandlerMoves

LEMMA HandlerStopsStep ==
  ASSUME ReportsInv, NEW h \in Handlers, HandlerStops(h)
  PROVE  ReportsInv'
  <1>1. FreeHandler \in HandlerRecord /\ FreeHandler.at = "free"
    BY DEF FreeHandler, HandlerRecord
  <1> QED
    BY <1>1, HandlerMoves DEF HandlerStops

\* One conditional statement decides a request that is open.
LEMMA MarkedOnce ==
  ASSUME ReportsInv, NEW n \in DOMAIN requests, NEW p, NEW action \in {"withdraw", "dismiss"},
         MarkedHandled(n, p, action)
  PROVE  /\ p \in People /\ requests[n].action = "open" /\ DOMAIN requests' = DOMAIN requests
         /\ requests'[n] = [action |-> action, by |-> p] /\ requests'[n] \in Decision
         /\ \A m \in DOMAIN requests : m # n => requests'[m] = requests[m]
         /\ taken[n] = 0
         /\ \A h \in Handlers : handling[h].at = "takedown" => handling[h].request # n
  <1>1. /\ requests[n].action = "open" /\ p \in People
        /\ requests' = [requests EXCEPT ![n] = [action |-> action, by |-> p]]
    BY DEF MarkedHandled, ReportsInv, ReportsTypeOK
  <1>2. taken[n] \in Nat /\ taken[n] <= 1 /\ taken[n] # 1
    BY <1>1 DEF ReportsInv, ReportsTypeOK, OneDecision
  <1>3. \A h \in Handlers : handling[h].at = "takedown" => handling[h].request # n
    BY <1>1 DEF ReportsInv, OneDecision
  <1>4. [action |-> action, by |-> p] \in Decision
    BY <1>1 DEF Decision
  <1> QED
    BY <1>1, <1>2, <1>3, <1>4

LEMMA MarkStep ==
  ASSUME ReportsInv, NEW h \in Handlers, MarkRemovalRequestHandled(h)
  PROVE  ReportsInv'
  <1> DEFINE n == handling[h].request  by == handling[h].by
  <1>1. /\ handling[h].at = "mark" /\ MarkedHandled(n, by, "withdraw")
        /\ handling' = [handling EXCEPT ![h].at = "takedown"]
        /\ UNCHANGED <<present, up, sameWork, turns, taken, fitVars>>
    BY DEF MarkRemovalRequestHandled
  <1>2. n \in DOMAIN requests
    BY <1>1 DEF ReportsInv, RequestsHandled
  <1>3. handling \in [Handlers -> HandlerRecord]
    BY ReportsTyped DEF ReportsInv
  <1>4. PICK k : k = [handling[h] EXCEPT !.at = "takedown"]
    OBVIOUS
  <1>5. /\ k \in HandlerRecord /\ k.at = "takedown" /\ k.request = n /\ k.by = by
        /\ handling' = [handling EXCEPT ![h] = k]
    BY <1>1, <1>3, <1>4 DEF HandlerRecord
  <1>6. handling'[h] = k /\ \A g \in Handlers : g # h => handling'[g] = handling[g]
    BY <1>3, <1>5
  <1> HIDE DEF n, by
  <1>7. /\ requests[n].action = "open" /\ DOMAIN requests' = DOMAIN requests
        /\ requests'[n] = [action |-> "withdraw", by |-> by] /\ requests'[n] \in Decision
        /\ \A m \in DOMAIN requests : m # n => requests'[m] = requests[m]
        /\ taken[n] = 0
        /\ \A g \in Handlers : handling[g].at = "takedown" => handling[g].request # n
    BY <1>1, <1>2, MarkedOnce
  <1>8. ReportsTypeOK'
    <2>1. handling' \in [Handlers -> HandlerRecord]
      BY <1>3, <1>5
    <2> QED
      BY <1>1, <1>7, <2>1 DEF ReportsInv, ReportsTypeOK, HandlerRecord, fitVars, Decision
  <1>9. RequestsHandled'
    BY <1>2, <1>5, <1>6, <1>7 DEF ReportsInv, RequestsHandled
  <1>10. OneDecision'
    <2>1. \A m \in DOMAIN requests' :
             taken'[m] <= 1 /\ (taken'[m] = 1 => requests'[m].action = "withdraw")
      BY <1>1, <1>7 DEF ReportsInv, OneDecision
    <2>2. ASSUME NEW g \in Handlers, handling'[g].at = "takedown"
          PROVE  LET m == handling'[g].request IN
                 /\ requests'[m].action = "withdraw" /\ taken'[m] = 0
                 /\ requests'[m].by \in {handling'[g].by, "nobody"}
      <3>1. CASE g = h
        <4>1. handling'[g].request = n /\ handling'[g].by = by
          BY <1>5, <1>6, <3>1
        <4>2. requests'[n].action = "withdraw" /\ requests'[n].by = by /\ taken'[n] = 0
          BY <1>1, <1>7
        <4> QED
          BY <4>1, <4>2
      <3>2. CASE g # h
        <4>1. handling'[g] = handling[g] /\ handling[g].request \in DOMAIN requests
              /\ handling[g].request # n
          BY <1>6, <1>7, <2>2, <3>2 DEF ReportsInv, RequestsHandled
        <4> QED
          BY <1>1, <1>7, <2>2, <4>1 DEF ReportsInv, OneDecision
      <3> QED
        BY <3>1, <3>2
    <2> QED
      BY <2>1, <2>2 DEF OneDecision
  <1> QED
    BY <1>1, <1>8, <1>9, <1>10, FitsUntouched DEF ReportsInv

LEMMA DismissStep ==
  ASSUME ReportsInv, NEW n, NEW p, DismissRequest(n, p)
  PROVE  ReportsInv'
  <1>1. /\ n \in DOMAIN requests /\ MarkedHandled(n, p, "dismiss")
        /\ UNCHANGED <<present, up, sameWork, turns, taken, handling, fitVars>>
    BY DEF DismissRequest
  <1>2. /\ DOMAIN requests' = DOMAIN requests
        /\ requests'[n] \in Decision
        /\ \A m \in DOMAIN requests : m # n => requests'[m] = requests[m]
        /\ taken[n] = 0
        /\ \A g \in Handlers : handling[g].at = "takedown" => handling[g].request # n
    BY <1>1, MarkedOnce
  <1>3. ReportsTypeOK'
    BY <1>1, <1>2 DEF ReportsInv, ReportsTypeOK, fitVars, Decision
  <1>4. RequestsHandled'
    BY <1>1, <1>2 DEF ReportsInv, RequestsHandled
  <1>5. OneDecision'
    <2>1. \A m \in DOMAIN requests' :
             taken'[m] <= 1 /\ (taken'[m] = 1 => requests'[m].action = "withdraw")
      BY <1>1, <1>2 DEF ReportsInv, OneDecision
    <2>2. \A g \in Handlers : handling[g].at = "takedown" =>
            requests'[handling[g].request] = requests[handling[g].request]
      BY <1>2 DEF ReportsInv, RequestsHandled
    <2> QED
      BY <1>1, <2>1, <2>2 DEF ReportsInv, OneDecision
  <1> QED
    BY <1>1, <1>3, <1>4, <1>5, FitsUntouched DEF ReportsInv

LEMMA TakeDownStep ==
  ASSUME ReportsInv, NEW h \in Handlers, TakeDown(h)
  PROVE  ReportsInv'
  <1> DEFINE n == handling[h].request
  <1>1. /\ handling[h].at = "takedown" /\ up' = FALSE
        /\ taken' = [taken EXCEPT ![n] = @ + 1]
        /\ handling' = [handling EXCEPT ![h] = FreeHandler]
        /\ UNCHANGED <<present, sameWork, turns, requests, fitVars>>
    BY DEF TakeDown
  <1>2. FreeHandler \in HandlerRecord /\ FreeHandler.at = "free"
    BY DEF FreeHandler, HandlerRecord
  <1>3. /\ handling \in [Handlers -> HandlerRecord]
        /\ DOMAIN taken = DOMAIN requests /\ \A m \in DOMAIN taken : taken[m] \in Nat
    BY ReportsTyped DEF ReportsInv
  <1>4. handling'[h] = FreeHandler /\ \A g \in Handlers : g # h => handling'[g] = handling[g]
    BY <1>1, <1>3
  <1>5. n \in DOMAIN requests /\ taken[n] = 0 /\ requests[n].action = "withdraw"
    BY <1>1 DEF ReportsInv, RequestsHandled, OneDecision
  <1>6. /\ DOMAIN taken' = DOMAIN requests /\ taken'[n] = 1
        /\ \A m \in DOMAIN requests : m # n => taken'[m] = taken[m]
    BY <1>1, <1>3, <1>5
  <1>7. ReportsTypeOK'
    <2>1. handling' \in [Handlers -> HandlerRecord]
      BY <1>1, <1>2, <1>3
    <2>2. \A m \in DOMAIN taken' : taken'[m] \in Nat
      BY <1>3, <1>6
    <2> QED
      BY <1>1, <1>6, <2>1, <2>2 DEF ReportsInv, ReportsTypeOK, HandlerRecord, fitVars, Decision
  <1>8. RequestsHandled'
    BY <1>1, <1>2, <1>4 DEF ReportsInv, RequestsHandled
  <1>9. OneDecision'
    <2>1. \A m \in DOMAIN requests :
             taken'[m] <= 1 /\ (taken'[m] = 1 => requests[m].action = "withdraw")
      BY <1>5, <1>6 DEF ReportsInv, OneDecision
    <2>2. ASSUME NEW g \in Handlers, handling'[g].at = "takedown"
          PROVE  LET m == handling'[g].request IN
                 /\ requests[m].action = "withdraw" /\ taken'[m] = 0
                 /\ requests[m].by \in {handling'[g].by, "nobody"}
      <3>1. g # h /\ handling'[g] = handling[g]
        BY <1>2, <1>4, <2>2
      <3>2. handling[g].request # n /\ handling[g].request \in DOMAIN requests
        BY <1>1, <2>2, <3>1 DEF ReportsInv, RequestsHandled
      <3> QED
        BY <1>6, <2>2, <3>1, <3>2 DEF ReportsInv, OneDecision
    <2> QED
      BY <1>1, <2>1, <2>2 DEF OneDecision
  <1> QED
    BY <1>1, <1>7, <1>8, <1>9, FitsUntouched DEF ReportsInv

LEMMA ModerateStep ==
  ASSUME ReportsInv, Moderate
  PROVE  ReportsInv'
  <1>1. /\ up' \in BOOLEAN /\ sameWork' \in BOOLEAN /\ turns' \in 0..MaxTurns
        /\ UNCHANGED <<present, removalVars, fitVars>>
    <2>1. turns' \in 0..MaxTurns
      BY ReportsAssumption DEF Moderate, ReportsInv, ReportsTypeOK
    <2>2. up \in BOOLEAN /\ sameWork \in BOOLEAN
      BY DEF ReportsInv, ReportsTypeOK
    <2>3. \/ up' \in BOOLEAN /\ sameWork' = sameWork
          \/ sameWork' = ~ sameWork /\ up' = up
      BY DEF Moderate
    <2>4. up' \in BOOLEAN /\ sameWork' \in BOOLEAN
      BY <2>2, <2>3
    <2> QED
      BY <2>1, <2>4 DEF Moderate
  <1>2. ReportsTypeOK'
    BY <1>1 DEF ReportsInv, ReportsTypeOK, removalVars, fitVars, Decision
  <1> QED
    BY <1>1, <1>2, FitsUntouched, RequestsUntouched DEF ReportsInv

LEMMA EraseReporterStep ==
  ASSUME ReportsInv, NEW p \in People, EraseReporter(p)
  PROVE  ReportsInv'
  <1>1. /\ present' = present \ {p}
        /\ requests' = [n \in DOMAIN requests |->
                    IF requests[n].by = p THEN [requests[n] EXCEPT !.by = "nobody"]
                                          ELSE requests[n]]
        /\ UNCHANGED <<up, sameWork, turns, taken, handling, reports, fitting>>
    BY DEF EraseReporter
  <1>2. DOMAIN requests' = DOMAIN requests
    BY <1>1
  <1>3. ASSUME NEW n \in DOMAIN requests
        PROVE  /\ requests'[n] \in Decision /\ requests'[n].action = requests[n].action
               /\ requests'[n].by \in {requests[n].by, "nobody"}
    <2>1. requests[n] \in Decision
      BY DEF ReportsInv, ReportsTypeOK
    <2>2. PICK r : r = [requests[n] EXCEPT !.by = "nobody"]
      OBVIOUS
    <2>3. r \in Decision /\ r.action = requests[n].action /\ r.by = "nobody"
      BY <2>1, <2>2 DEF Decision
    <2>4. requests'[n] = r \/ requests'[n] = requests[n]
      BY <1>1, <2>2
    <2> QED
      BY <2>1, <2>3, <2>4
  <1>4. ReportsTypeOK'
    BY <1>1, <1>2, <1>3 DEF ReportsInv, ReportsTypeOK, Decision
  <1>5. RequestsHandled'
    BY <1>1, <1>2 DEF ReportsInv, RequestsHandled
  <1>6. OneDecision'
    <2>1. \A n \in DOMAIN requests' :
             taken'[n] <= 1 /\ (taken'[n] = 1 => requests'[n].action = "withdraw")
      BY <1>1, <1>2, <1>3 DEF ReportsInv, OneDecision
    <2>2. ASSUME NEW h \in Handlers, handling[h].at = "takedown"
          PROVE  LET n == handling[h].request IN
                 /\ requests'[n].action = "withdraw" /\ taken[n] = 0
                 /\ requests'[n].by \in {handling[h].by, "nobody"}
      <3>1. handling[h].request \in DOMAIN requests
        BY <2>2 DEF ReportsInv, RequestsHandled
      <3> QED
        BY <1>3, <2>2, <3>1 DEF ReportsInv, OneDecision
    <2> QED
      BY <1>1, <2>1, <2>2 DEF OneDecision
  <1> QED
    BY <1>1, <1>4, <1>5, <1>6, FitsUntouched DEF ReportsInv, fitVars

-----------------------------------------------------------------------------
\* A report's step: the others' requests stay as they are.
LEMMA FitMoves ==
  ASSUME ReportsInv, NEW p \in People, NEW k \in FitRecord,
         fitting' = [fitting EXCEPT ![p] = k],
         UNCHANGED <<present, up, sameWork, turns, removalVars>>,
         reports' \in [Pairings -> [People -> FitClaims \cup {"none"}]],
         reports' = reports \/ fitting[p].at = "commit",
         k.at \in {"count", "commit"} =>
           \/ ~ FitLockHeld
           \/ fitting[p].at \in {"count", "commit"},
         k.at = "commit" =>
           LET read == [reports'[k.pairing] EXCEPT ![p] = k.claim] IN
           /\ k.fits = Cardinality({q \in k.saw : read[q] = "fits"})
           /\ k.misfits = Cardinality({q \in k.saw : read[q] = "misfits"})
  PROVE  ReportsInv'
  <1>1. fitting \in [People -> FitRecord]
    BY ReportsTyped DEF ReportsInv
  <1>2. fitting'[p] = k /\ \A q \in People : q # p => fitting'[q] = fitting[q]
    BY <1>1
  <1>3. ReportsTypeOK'
    <2>1. fitting' \in [People -> FitRecord]
      BY <1>1
    <2> QED
      BY <2>1 DEF ReportsInv, ReportsTypeOK, removalVars, FitRecord, Decision
  <1>4. OneFitAtATime'
    BY <1>2 DEF ReportsInv, OneFitAtATime, FitLockHeld
  <1>5. ASSUME NEW q \in People, fitting'[q].at = "commit"
        PROVE  /\ fitting'[q].fits = Standing(q, "fits", fitting[q].saw)'
               /\ fitting'[q].misfits = Standing(q, "misfits", fitting[q].saw)'
    <2>1. CASE q = p
      BY <1>2, <1>5, <2>1 DEF Standing, ReadBy
    <2>2. CASE q # p
      <3>1. fitting'[q] = fitting[q] /\ fitting[p].at # "commit"
        BY <1>2, <1>5, <2>2 DEF ReportsInv, OneFitAtATime
      <3>2. reports' = reports
        BY <3>1
      <3>3. ReadBy(q)' = ReadBy(q)
        BY <3>1, <3>2 DEF ReadBy
      <3>4. /\ Standing(q, "fits", fitting[q].saw)' = Standing(q, "fits", fitting[q].saw)
            /\ Standing(q, "misfits", fitting[q].saw)' = Standing(q, "misfits", fitting[q].saw)
        BY <3>1, <3>3 DEF Standing
      <3> QED
        BY <1>5, <3>1, <3>4 DEF ReportsInv, FitAnswersStand
    <2> QED
      BY <2>1, <2>2
  <1>6. FitAnswersStand'
    BY <1>5 DEF FitAnswersStand
  <1> QED
    BY <1>3, <1>4, <1>6, RequestsUntouched DEF ReportsInv

LEMMA NoFitTyped == NoFit \in FitRecord /\ NoFit.at = "idle"
  BY DEF NoFit, FitRecord, Pairings, FitClaims

LEMMA FitRequestStep ==
  ASSUME ReportsInv, NEW p \in People, NEW pairing \in Pairings,
         NEW claim \in FitClaims \cup {"none"}, FitRequest(p, pairing, claim)
  PROVE  ReportsInv'
  <1>1. PICK k : k = [NoFit EXCEPT !.at = "write", !.pairing = pairing, !.claim = claim]
    OBVIOUS
  <1>2. k \in FitRecord /\ k.at = "write"
    BY <1>1, NoFitTyped DEF FitRecord
  <1>3. /\ fitting' = [fitting EXCEPT ![p] = k] /\ reports' = reports
        /\ UNCHANGED <<present, up, sameWork, turns, removalVars>>
    BY <1>1 DEF FitRequest
  <1>4. reports' \in [Pairings -> [People -> FitClaims \cup {"none"}]]
    BY <1>3 DEF ReportsInv, ReportsTypeOK
  <1> QED
    BY <1>2, <1>3, <1>4, FitMoves

LEMMA FitFailsStep ==
  ASSUME ReportsInv, NEW p \in People, FitFails(p)
  PROVE  ReportsInv'
  <1>1. /\ fitting' = [fitting EXCEPT ![p] = NoFit] /\ reports' = reports
        /\ UNCHANGED <<present, up, sameWork, turns, removalVars>>
    BY DEF FitFails
  <1>2. reports' \in [Pairings -> [People -> FitClaims \cup {"none"}]]
    BY <1>1 DEF ReportsInv, ReportsTypeOK
  <1> QED
    BY <1>1, <1>2, NoFitTyped, FitMoves

LEMMA UpsertFitStep ==
  ASSUME ReportsInv, NEW p \in People, UpsertFitReport(p)
  PROVE  ReportsInv'
  <1>1. /\ fitting' = [fitting EXCEPT ![p].at = "count"] /\ reports' = reports
        /\ UNCHANGED <<present, up, sameWork, turns, removalVars>> /\ ~ FitLockHeld
    BY DEF UpsertFitReport, FitLockFree
  <1>2. fitting \in [People -> FitRecord]
    BY ReportsTyped DEF ReportsInv
  <1>3. PICK k : k = [fitting[p] EXCEPT !.at = "count"]
    OBVIOUS
  <1>4. k \in FitRecord /\ k.at = "count" /\ fitting' = [fitting EXCEPT ![p] = k]
    BY <1>1, <1>2, <1>3 DEF FitRecord
  <1>5. reports' \in [Pairings -> [People -> FitClaims \cup {"none"}]]
    BY <1>1 DEF ReportsInv, ReportsTypeOK
  <1> QED
    BY <1>1, <1>4, <1>5, FitMoves

LEMMA RecomputeStep ==
  ASSUME ReportsInv, NEW p \in People, RecomputeFitCounts(p)
  PROVE  ReportsInv'
  <1> DEFINE fits == Standing(p, "fits", present)
             misfits == Standing(p, "misfits", present)
  <1>1. /\ fitting[p].at = "count"
        /\ fitting' = [fitting EXCEPT ![p].at = "commit", ![p].fits = fits,
                                      ![p].misfits = misfits, ![p].saw = present]
        /\ reports' = reports /\ UNCHANGED <<present, up, sameWork, turns, removalVars>>
    BY DEF RecomputeFitCounts
  <1>2. fitting \in [People -> FitRecord] /\ present \in SUBSET People
    BY ReportsTyped DEF ReportsInv
  <1>3. \A S \in SUBSET present : Cardinality(S) \in Nat
    BY <1>2, ReportsAssumption, FS_Subset, FS_CardinalityType
  <1>4. fits \in Nat /\ misfits \in Nat
    BY <1>3 DEF Standing
  <1>5. /\ fits = Cardinality({q \in present : [reports[fitting[p].pairing] EXCEPT ![p] = fitting[p].claim][q] = "fits"})
        /\ misfits = Cardinality({q \in present : [reports[fitting[p].pairing] EXCEPT ![p] = fitting[p].claim][q] = "misfits"})
    BY DEF Standing, ReadBy
  <1> HIDE DEF fits, misfits
  <1>6. PICK k : k = [fitting[p] EXCEPT !.at = "commit", !.fits = fits, !.misfits = misfits, !.saw = present]
    OBVIOUS
  <1>7. fitting' = [fitting EXCEPT ![p] = k]
    BY <1>1, <1>2, <1>6
  <1>8. /\ k \in FitRecord /\ k.at = "commit" /\ k.fits = fits /\ k.misfits = misfits
        /\ k.saw = present /\ k.pairing = fitting[p].pairing /\ k.claim = fitting[p].claim
    <2>1. PICK old \in FitRecord : old = fitting[p]
      BY <1>2
    <2>2. k = [at |-> "commit", pairing |-> old.pairing, claim |-> old.claim,
               fits |-> fits, misfits |-> misfits, saw |-> present]
      BY <1>6, <2>1 DEF FitRecord
    <2>3. old.pairing \in Pairings /\ old.claim \in FitClaims \cup {"none"}
      BY DEF FitRecord
    <2> QED
      BY <1>2, <1>4, <2>1, <2>2, <2>3 DEF FitRecord
  <1>9. reports' \in [Pairings -> [People -> FitClaims \cup {"none"}]]
    BY <1>1 DEF ReportsInv, ReportsTypeOK
  <1>10. LET read == [reports'[k.pairing] EXCEPT ![p] = k.claim] IN
         /\ k.fits = Cardinality({q \in k.saw : read[q] = "fits"})
         /\ k.misfits = Cardinality({q \in k.saw : read[q] = "misfits"})
    BY <1>1, <1>5, <1>8
  <1> QED
    BY <1>1, <1>7, <1>8, <1>9, <1>10, FitMoves

LEMMA CommitFitStep ==
  ASSUME ReportsInv, NEW p \in People, CommitFit(p)
  PROVE  ReportsInv'
  <1>1. /\ fitting[p].at = "commit" /\ fitting' = [fitting EXCEPT ![p] = NoFit]
        /\ reports' = [reports EXCEPT ![fitting[p].pairing] = ReadBy(p)]
        /\ UNCHANGED <<present, up, sameWork, turns, removalVars>>
    BY DEF CommitFit
  <1>2. /\ fitting[p] \in FitRecord
        /\ reports \in [Pairings -> [People -> FitClaims \cup {"none"}]]
    BY ReportsTyped DEF ReportsInv
  <1>3. ReadBy(p) \in [People -> FitClaims \cup {"none"}]
    BY <1>2 DEF ReadBy, FitRecord
  <1>4. reports' \in [Pairings -> [People -> FitClaims \cup {"none"}]]
    BY <1>1, <1>2, <1>3
  <1> QED
    BY <1>1, <1>4, NoFitTyped, FitMoves

-----------------------------------------------------------------------------
LEMMA ReportsIdle ==
  ASSUME ReportsInv, UNCHANGED reportsVars
  PROVE  ReportsInv'
  <1>1. ReportsTypeOK'
    BY DEF ReportsInv, ReportsTypeOK, reportsVars, Decision
  <1> QED
    BY <1>1, FitsUntouched, RequestsUntouched DEF ReportsInv, reportsVars, fitVars, removalVars

LEMMA ReportsStep ==
  ASSUME ReportsInv, [ReportsNext]_reportsVars
  PROVE  ReportsInv'
  <1>1. CASE RemovalNext
    BY <1>1, FileStep, DismissStep, WithdrawStep, MarkStep, TakeDownStep, HandlerStopsStep
    DEF RemovalNext, HandleReleaseRemoval
  <1>2. CASE FitNext
    BY <1>2, FitRequestStep, UpsertFitStep, RecomputeStep, CommitFitStep, FitFailsStep
    DEF FitNext, HandleFitPut, HandleFitDelete, HandleReleaseFit, CastFit, RetractFit, FitClaims
  <1> QED
    BY <1>1, <1>2, ModerateStep, EraseReporterStep, ReportsIdle DEF ReportsNext

\* A removal request is decided once, and the counts a reporter is answered are
\* those of the reports that stand.
THEOREM ReportsStand == ReportsSpec => [](ReportsTypeOK /\ OneDecision /\ FitAnswersStand)
  <1>1. ReportsInit => ReportsInv
    BY ReportsStart
  <1>2. ReportsInv /\ [ReportsNext]_reportsVars => ReportsInv'
    BY ReportsStep
  <1>3. ReportsInv => ReportsTypeOK /\ OneDecision /\ FitAnswersStand
    BY DEF ReportsInv
  <1> QED
    BY <1>1, <1>2, <1>3, PTL DEF ReportsSpec

-----------------------------------------------------------------------------
(* Lookups and downloads.                                                  *)

\* A request, as LookupTypeOK has it.
AskRecord ==
  [at : {"idle", "releases", "tracks", "siblings", "answered",
         "track", "release", "offset", "served"},
   stage : {"identity", "hashes", "exact", "names", "bucket"},
   left : Seq(Entries), now : SUBSET Films, tracks : SUBSET Films,
   found : SUBSET Listing, offers : SUBSET Candidate]

\* A release that bucketed lookup must not miss.
Near(f) ==
  \/ print[f].file = Scene.file
  \/ /\ Scene.hashed /\ print[f].hashed /\ print[f].apart = 0
     /\ Hamming(print[f].phash, Scene.phash) <= 4

\* Whether a release is in the bucket an entry asks for, when it is visible.
Held(e, f) ==
  \/ e.kind = "oshash" /\ print[f].prefix = Scene.prefix
  \/ e.kind = "phash" /\ print[f].hashed
     /\ Blocks(print[f].phash)[e.block] = Blocks(Scene.phash)[e.block]
  \/ e.kind = "exact" /\ \/ print[f].file = Scene.file
                         \/ /\ print[f].hashed /\ Scene.hashed
                            /\ Hamming(print[f].phash, Scene.phash) <= 8

\* A lookup that has no answer yet, and one by hash.
Searching(k) == k.at \in {"releases", "tracks", "siblings"}
Hashed(k) == k.stage \in {"hashes", "exact"}

\* What was offered was up, release and track, at some moment of the request.
Fair(offers, films, tracks) == \A c \in offers : c.track => c.of \in films /\ c.of \in tracks

\* The request k, when the releases of still were visible all through it, and
\* those of films, and the tracks of tracks, at some moment of it.
Kept(k, still, films, tracks) ==
  /\ k.at = "releases" => k.now = {}
  /\ Searching(k) =>
       /\ k.now \subseteq films /\ k.tracks \subseteq tracks
       /\ \A l \in k.found : /\ l.track => l.film \in films /\ l.film \in tracks
                             /\ l.siblings \subseteq films /\ l.siblings \subseteq tracks
  /\ Searching(k) \/ k.at = "answered" => Fair(k.offers, films, tracks)
  /\ Searching(k) /\ Hashed(k) =>
       \A f \in still : Near(f) =>
         \/ f \in k.now \/ \E l \in k.found : l.film = f
         \/ \E i \in DOMAIN k.left : Held(k.left[i], f)
  /\ k.at = "answered" /\ Hashed(k) =>
       \A f \in still : Near(f) => \E c \in k.offers : c.film = f
  /\ k.at \in {"track", "release", "offset", "served"} => \E f \in Films : k.now = {f}
  /\ k.at \in {"release", "offset", "served"} => k.now \subseteq tracks
  /\ k.at \in {"offset", "served"} => k.now \subseteq films

\* What is visible now is known to have been.
Watched ==
  /\ steady \subseteq Films \ out
  /\ Films \ out \subseteq shown.films /\ Films \ dark \subseteq shown.tracks

LookupInv == LookupTypeOK /\ Watched /\ Kept(asking, steady, shown.films, shown.tracks)

-----------------------------------------------------------------------------
LEMMA OneMore ==
  ASSUME NEW S, IsFiniteSet(S), NEW x, x \notin S, NEW T, T = S \cup {x}
  PROVE  IsFiniteSet(T) /\ Cardinality(T) = Cardinality(S) + 1
  BY FS_AddElement

\* Two hashes that differ in at most four bits agree on one of five blocks.
LEMMA Pigeonhole ==
  ASSUME NEW a \in SUBSET Bits, NEW b \in SUBSET Bits, Hamming(a, b) <= 4
  PROVE  \E k \in 0..4 : Blocks(a)[k] = Blocks(b)[k]
  <1> DEFINE apart == (a \ b) \cup (b \ a)
  <1> SUFFICES ASSUME \A k \in 0..4 : Blocks(a)[k] # Blocks(b)[k] PROVE FALSE
    OBVIOUS
  <1>1. \A k \in 0..4 : \E i \in apart : BlockOf[i] = k
    <2> SUFFICES ASSUME NEW k \in 0..4 PROVE \E i \in apart : BlockOf[i] = k
      OBVIOUS
    <2>1. {i \in a : BlockOf[i] = k} # {i \in b : BlockOf[i] = k}
      BY DEF Blocks
    <2> QED
      BY <2>1
  <1>2. IsFiniteSet(apart) /\ Cardinality(apart) <= 4 /\ Cardinality(apart) \in Nat
    <2>1. apart \in SUBSET Bits
      OBVIOUS
    <2>2. IsFiniteSet(apart)
      BY <2>1, LookupAssumption, FS_Subset
    <2> QED
      BY <2>2, FS_CardinalityType DEF Hamming
  <1> HIDE DEF apart
  <1>3. PICK i0 \in apart, i1 \in apart, i2 \in apart, i3 \in apart, i4 \in apart :
          BlockOf[i0] = 0 /\ BlockOf[i1] = 1 /\ BlockOf[i2] = 2 /\ BlockOf[i3] = 3 /\ BlockOf[i4] = 4
    BY <1>1
  <1>4. /\ i1 # i0 /\ i2 \notin {i0, i1} /\ i3 \notin {i0, i1, i2} /\ i4 \notin {i0, i1, i2, i3}
    BY <1>3
  <1>5. IsFiniteSet({i0}) /\ Cardinality({i0}) = 1
    BY FS_Singleton
  <1>6. IsFiniteSet({i0, i1}) /\ Cardinality({i0, i1}) = 2
    <2>1. {i0, i1} = {i0} \cup {i1} /\ i1 \notin {i0}
      BY <1>4
    <2>2. IsFiniteSet({i0, i1}) /\ Cardinality({i0, i1}) = Cardinality({i0}) + 1
      BY <1>5, <2>1, OneMore
    <2> QED
      BY <1>5, <2>2
  <1>7. IsFiniteSet({i0, i1, i2}) /\ Cardinality({i0, i1, i2}) = 3
    <2>1. {i0, i1, i2} = {i0, i1} \cup {i2} /\ i2 \notin {i0, i1}
      BY <1>4
    <2>2. IsFiniteSet({i0, i1, i2}) /\ Cardinality({i0, i1, i2}) = Cardinality({i0, i1}) + 1
      BY <1>6, <2>1, OneMore
    <2> QED
      BY <1>6, <2>2
  <1>8. IsFiniteSet({i0, i1, i2, i3}) /\ Cardinality({i0, i1, i2, i3}) = 4
    <2>1. {i0, i1, i2, i3} = {i0, i1, i2} \cup {i3} /\ i3 \notin {i0, i1, i2}
      BY <1>4
    <2>2. IsFiniteSet({i0, i1, i2, i3}) /\ Cardinality({i0, i1, i2, i3}) = Cardinality({i0, i1, i2}) + 1
      BY <1>7, <2>1, OneMore
    <2> QED
      BY <1>7, <2>2
  <1>9. IsFiniteSet({i0, i1, i2, i3, i4}) /\ Cardinality({i0, i1, i2, i3, i4}) = 5
    <2>1. {i0, i1, i2, i3, i4} = {i0, i1, i2, i3} \cup {i4} /\ i4 \notin {i0, i1, i2, i3}
      BY <1>4
    <2>2. IsFiniteSet({i0, i1, i2, i3, i4}) /\ Cardinality({i0, i1, i2, i3, i4}) = Cardinality({i0, i1, i2, i3}) + 1
      BY <1>8, <2>1, OneMore
    <2> QED
      BY <1>8, <2>2
  <1>10. Cardinality({i0, i1, i2, i3, i4}) <= Cardinality(apart)
    <2>1. {i0, i1, i2, i3, i4} \in SUBSET apart
      OBVIOUS
    <2> QED
      BY <1>2, <2>1, FS_Subset
  <1> QED
    BY <1>2, <1>9, <1>10

-----------------------------------------------------------------------------
LEMMA EntriesTyped ==
  /\ \A kind \in {"stash", "oshash", "exact", "name"} :
       Entry(kind) \in Entries /\ Entry(kind).kind = kind
  /\ \A j \in 0..4 : [kind |-> "phash", block |-> j] \in Entries
  BY DEF Entries, Entry, PhashBlocks

\* What a client sends of the file: the prefix, and the five blocks if it has a hash.
LEMMA BucketKeysAre ==
  /\ BucketKeys \in Seq(Entries)
  /\ 1 \in DOMAIN BucketKeys /\ BucketKeys[1] = Entry("oshash")
  /\ Scene.hashed => \A j \in 0..4 : /\ j + 2 \in DOMAIN BucketKeys
                                     /\ BucketKeys[j + 2] = [kind |-> "phash", block |-> j]
  <1> DEFINE first == <<Entry("oshash")>>
             blocks == [i \in 1..5 |-> [kind |-> "phash", block |-> i - 1]]
             rest == IF Scene.hashed THEN blocks ELSE << >>
  <1>1. first \in Seq(Entries) /\ Len(first) = 1 /\ first[1] = Entry("oshash")
    <2>1. PICK e : e = Entry("oshash")
      OBVIOUS
    <2>2. e \in Entries
      BY <2>1, EntriesTyped
    <2> QED
      BY <2>1, <2>2
  <1>2. blocks \in Seq(Entries) /\ Len(blocks) = 5
    <2>1. \A i \in 1..5 : blocks[i] \in Entries
      <3> SUFFICES ASSUME NEW i \in 1..5 PROVE blocks[i] \in Entries
        OBVIOUS
      <3>1. PICK j \in 0..4 : j = i - 1
        OBVIOUS
      <3> QED
        BY <3>1, EntriesTyped
    <2>2. blocks \in [1..5 -> Entries]
      BY <2>1
    <2> HIDE DEF blocks
    <2>3. blocks \in Seq(Entries)
      <3>1. [1..5 -> Entries] \subseteq UNION {[1..n -> Entries] : n \in Nat}
        OBVIOUS
      <3> QED
        BY <2>2, <3>1, SeqDef
    <2>4. Len(blocks) \in Nat /\ DOMAIN blocks = 1..Len(blocks)
      BY <2>3, LenProperties
    <2>5. DOMAIN blocks = 1..5
      BY <2>2
    <2>6. PICK n \in Nat : n = Len(blocks)
      BY <2>4
    <2>7. \A i \in Int : i \in 1..n <=> i \in 1..5
      BY <2>4, <2>5, <2>6
    <2>8. n = 5
      <3>1. 5 \in 1..n /\ ~ (6 \in 1..n)
        BY <2>7
      <3> QED
        BY <3>1
    <2> QED
      BY <2>3, <2>6, <2>8
  <1>3. << >> \in Seq(Entries)
    BY EmptySeq
  <1>4. rest \in Seq(Entries)
    BY <1>2, <1>3
  <1>5. BucketKeys = first \o rest
    BY DEF BucketKeys
  <1> HIDE DEF first, rest
  <1>6. /\ BucketKeys \in Seq(Entries) /\ Len(BucketKeys) = 1 + Len(rest)
        /\ \A i \in 1..(1 + Len(rest)) : BucketKeys[i] = IF i <= 1 THEN first[i] ELSE rest[i - 1]
    BY <1>1, <1>4, <1>5, ConcatProperties
  <1>7. 1 \in DOMAIN BucketKeys /\ BucketKeys[1] = Entry("oshash")
    BY <1>1, <1>4, <1>6
  <1>8. ASSUME Scene.hashed, NEW j \in 0..4
        PROVE  /\ j + 2 \in DOMAIN BucketKeys
               /\ BucketKeys[j + 2] = [kind |-> "phash", block |-> j]
    <2>1. rest = blocks
      BY <1>8 DEF rest
    <2>2. Len(rest) = 5 /\ BucketKeys[j + 2] = rest[j + 1]
      BY <1>2, <1>6, <2>1
    <2>3. blocks[j + 1] = [kind |-> "phash", block |-> j]
      <3>1. j + 1 \in 1..5 /\ (j + 1) - 1 = j
        OBVIOUS
      <3> QED
        BY <3>1
    <2>4. j + 2 \in DOMAIN BucketKeys
      BY <1>6, <2>2
    <2> QED
      BY <2>1, <2>2, <2>3, <2>4
  <1> QED
    BY <1>6, <1>7, <1>8

\* Every near release is in one of the buckets asked for.
LEMMA NearIsHeld ==
  ASSUME LookupTypeOK, NEW f \in Films, Near(f)
  PROVE  /\ \E i \in DOMAIN BucketKeys : Held(BucketKeys[i], f)
         /\ Held(Entry("exact"), f)
  <1>1. print[f] \in Prints /\ print[f].phash \subseteq Bits /\ Scene.phash \subseteq Bits
    BY LookupAssumption DEF LookupTypeOK
  <1>2. CASE print[f].file = Scene.file
    <2>1. Held(Entry("oshash"), f) /\ Held(Entry("exact"), f)
      BY <1>1, <1>2, LookupAssumption, EntriesTyped DEF Held
    <2> QED
      BY <2>1, BucketKeysAre
  <1>3. CASE /\ Scene.hashed /\ print[f].hashed
             /\ Hamming(print[f].phash, Scene.phash) <= 4
    <2>1. PICK j \in 0..4 : Blocks(print[f].phash)[j] = Blocks(Scene.phash)[j]
      BY <1>1, <1>3, Pigeonhole
    <2>2. Held([kind |-> "phash", block |-> j], f)
      BY <1>3, <2>1 DEF Held
    <2>3. j + 2 \in DOMAIN BucketKeys /\ Held(BucketKeys[j + 2], f)
      BY <1>3, <2>2, BucketKeysAre
    <2>4. Hamming(print[f].phash, Scene.phash) \in Nat
      <3>1. (print[f].phash \ Scene.phash) \cup (Scene.phash \ print[f].phash) \in SUBSET Bits
        BY <1>1
      <3> QED
        BY <3>1, LookupAssumption, FS_Subset, FS_CardinalityType DEF Hamming
    <2>5. Held(Entry("exact"), f)
      BY <1>3, <2>4, EntriesTyped DEF Held
    <2> QED
      BY <2>3, <2>5
  <1> QED
    BY <1>2, <1>3 DEF Near

-----------------------------------------------------------------------------
LEMMA NoSearchIs ==
  /\ NoSearch \in AskRecord /\ NoSearch.at = "idle" /\ NoSearch.left = << >>
  /\ NoSearch.now = {} /\ NoSearch.tracks = {} /\ NoSearch.found = {} /\ NoSearch.offers = {}
  BY EmptySeq DEF NoSearch, AskRecord

LEMMA StageIs ==
  ASSUME NEW s \in {"identity", "hashes", "exact", "names", "bucket"}, NEW keys \in Seq(Entries),
         NEW offers \in SUBSET Candidate
  PROVE  /\ Stage(s, keys, offers) \in AskRecord
         /\ Stage(s, keys, offers).at = "releases" /\ Stage(s, keys, offers).stage = s
         /\ Stage(s, keys, offers).left = keys /\ Stage(s, keys, offers).offers = offers
         /\ Stage(s, keys, offers).now = {} /\ Stage(s, keys, offers).tracks = {}
         /\ Stage(s, keys, offers).found = {}
  <1>1. PICK k : k = [NoSearch EXCEPT !.at = "releases", !.stage = s, !.left = keys, !.offers = offers]
    OBVIOUS
  <1>2. k = [at |-> "releases", stage |-> s, left |-> keys, now |-> {}, tracks |-> {},
             found |-> {}, offers |-> offers]
    BY <1>1 DEF NoSearch
  <1>3. k \in AskRecord
    BY <1>2 DEF AskRecord
  <1>4. Stage(s, keys, offers) = k
    BY <1>1 DEF Stage
  <1>5. /\ k.at = "releases" /\ k.stage = s /\ k.left = keys /\ k.offers = offers
        /\ k.now = {} /\ k.tracks = {} /\ k.found = {}
    BY <1>2
  <1> QED
    BY <1>3, <1>4, <1>5

LEMMA OneEntry ==
  ASSUME NEW e \in Entries
  PROVE  <<e>> \in Seq(Entries) /\ 1 \in DOMAIN <<e>> /\ <<e>>[1] = e
  OBVIOUS

\* A stage that begins has the buckets of every near release before it.
LEMMA StageKept ==
  ASSUME LookupTypeOK, NEW s \in {"identity", "hashes", "exact", "names", "bucket"},
         NEW keys \in Seq(Entries), NEW offers \in SUBSET Candidate,
         NEW still \in SUBSET Films, NEW films, NEW tracks, Fair(offers, films, tracks),
         s = "hashes" => keys = BucketKeys, s = "exact" => keys = <<Entry("exact")>>
  PROVE  /\ Stage(s, keys, offers) \in AskRecord
         /\ Kept(Stage(s, keys, offers), still, films, tracks)
  <1>1. PICK k : k = Stage(s, keys, offers)
    OBVIOUS
  <1>2. /\ k \in AskRecord /\ k.at = "releases" /\ k.stage = s /\ k.left = keys /\ k.offers = offers
        /\ k.now = {} /\ k.tracks = {} /\ k.found = {}
    BY <1>1, StageIs
  <1>3. ASSUME Hashed(k), NEW f \in still, Near(f)
        PROVE  \E i \in DOMAIN k.left : Held(k.left[i], f)
    <2>1. CASE s = "hashes"
      BY <1>2, <1>3, <2>1, NearIsHeld
    <2>2. CASE s = "exact"
      <3>1. PICK e \in Entries : e = Entry("exact")
        BY EntriesTyped
      <3>2. Held(e, f)
        BY <1>3, <3>1, NearIsHeld
      <3>3. k.left = <<e>>
        BY <1>2, <2>2, <3>1
      <3> QED
        BY <3>2, <3>3, OneEntry
    <2> QED
      BY <1>2, <1>3, <2>1, <2>2 DEF Hashed
  <1>4. Kept(k, still, films, tracks)
    BY <1>2, <1>3 DEF Kept, Searching
  <1> QED
    BY <1>1, <1>2, <1>4

\* What follows a stage: another, or the answer.
LEMMA AfterKept ==
  ASSUME LookupTypeOK, NEW s \in {"identity", "hashes", "exact", "names", "bucket"},
         NEW offers \in SUBSET Candidate, NEW exactMode,
         NEW still \in SUBSET Films, NEW films, NEW tracks, Fair(offers, films, tracks),
         s \in {"hashes", "exact"} => \A f \in still : Near(f) => \E c \in offers : c.film = f
  PROVE  /\ After(s, offers, exactMode) \in AskRecord
         /\ Kept(After(s, offers, exactMode), still, films, tracks)
  <1>1. /\ <<Entry("exact")>> \in Seq(Entries) /\ <<Entry("name")>> \in Seq(Entries)
        /\ BucketKeys \in Seq(Entries)
    <2>1. PICK e \in Entries, n \in Entries : e = Entry("exact") /\ n = Entry("name")
      BY EntriesTyped
    <2> QED
      BY <2>1, BucketKeysAre, OneEntry
  <1>2. CASE s = "identity"
    <2>1. \/ After(s, offers, exactMode) = Stage("exact", <<Entry("exact")>>, offers)
          \/ After(s, offers, exactMode) = Stage("hashes", BucketKeys, offers)
      BY <1>2 DEF After
    <2> QED
      BY <1>1, <2>1, StageKept
  <1>3. CASE s \in {"hashes", "exact"} /\ offers = {}
    <2>1. After(s, offers, exactMode) = Stage("names", <<Entry("name")>>, {})
      BY <1>3 DEF After
    <2>2. Fair({}, films, tracks)
      BY DEF Fair
    <2> QED
      BY <1>1, <2>1, <2>2, StageKept
  <1>4. CASE s # "identity" /\ ~ (s \in {"hashes", "exact"} /\ offers = {})
    <2>1. PICK k : k = [NoSearch EXCEPT !.at = "answered", !.stage = s, !.offers = offers]
      OBVIOUS
    <2>2. After(s, offers, exactMode) = k
      BY <1>4, <2>1 DEF After
    <2>3. k = [at |-> "answered", stage |-> s, left |-> << >>, now |-> {}, tracks |-> {},
               found |-> {}, offers |-> offers]
      BY <2>1 DEF NoSearch
    <2>4. k \in AskRecord
      BY <2>3, EmptySeq DEF AskRecord
    <2>5. Kept(k, still, films, tracks)
      BY <2>3 DEF Kept, Searching, Hashed
    <2> QED
      BY <2>2, <2>4, <2>5
  <1> QED
    BY <1>2, <1>3, <1>4

\* The more that was visible, and the less that was so all through, the easier.
LEMMA KeptLonger ==
  ASSUME NEW k, NEW still, NEW films, NEW tracks, Kept(k, still, films, tracks),
         NEW still2 \in SUBSET still, NEW films2, NEW tracks2,
         films \subseteq films2, tracks \subseteq tracks2
  PROVE  Kept(k, still2, films2, tracks2)
  BY DEF Kept, Fair

-----------------------------------------------------------------------------
LEMMA LookupTyped ==
  LookupTypeOK <=>
    /\ print \in [Films -> Prints]
    /\ out \subseteq Films /\ dark \subseteq Films
    /\ grouped \in BOOLEAN /\ synced \subseteq Films \X Films
    /\ edits \in 0..MaxEdits /\ asking \in AskRecord
    /\ steady \subseteq Films
    /\ shown.films \subseteq Films /\ shown.tracks \subseteq Films
  BY DEF LookupTypeOK, AskRecord

\* A step of the request.
LEMMA AskMoves ==
  ASSUME LookupInv, NEW k \in AskRecord, asking' = k,
         Kept(k, steady, shown.films, shown.tracks), UNCHANGED <<catalogueVars, steady, shown>>
  PROVE  LookupInv'
  <1>1. LookupTypeOK'
    BY LookupTyped DEF LookupInv, LookupTypeOK, catalogueVars, AskRecord, Listing, Candidate, Entries
  <1>2. Watched'
    BY DEF LookupInv, Watched, catalogueVars
  <1>3. Kept(asking, steady, shown.films, shown.tracks)'
    BY DEF Kept, Fair, Near, Held, catalogueVars, Searching, Hashed
  <1> QED
    BY <1>1, <1>2, <1>3 DEF LookupInv

\* A step that begins a request.
LEMMA AskBegins ==
  ASSUME LookupInv, NEW k \in AskRecord, asking' = k, StartWatching,
         Kept(k, Films \ out, Films \ out, Films \ dark), UNCHANGED catalogueVars
  PROVE  LookupInv'
  <1>1. /\ steady' = Films \ out /\ shown'.films = Films \ out /\ shown'.tracks = Films \ dark
    BY DEF StartWatching
  <1>2. LookupTypeOK'
    BY <1>1 DEF LookupInv, LookupTypeOK, catalogueVars, AskRecord, Listing, Candidate, Entries
  <1>3. Watched'
    BY <1>1 DEF LookupInv, Watched, catalogueVars
  <1>4. Kept(asking, steady, shown.films, shown.tracks)'
    BY <1>1 DEF Kept, Fair, Near, Held, catalogueVars, Searching, Hashed
  <1> QED
    BY <1>2, <1>3, <1>4 DEF LookupInv

\* A moderator's step: what is visible now has been visible.
LEMMA ModeratorMoves ==
  ASSUME LookupInv, Moderated, out' \subseteq Films, dark' \subseteq Films,
         grouped' \in BOOLEAN, synced' \subseteq Films \X Films,
         \/ Watch(Films \ out', Films \ dark')
         \/ UNCHANGED <<out, dark, steady, shown>>
  PROVE  LookupInv'
  <1>1. /\ print' = print /\ asking' = asking /\ edits' \in 0..MaxEdits
    BY LookupAssumption DEF Moderated, LookupInv, LookupTypeOK
  <1>2. /\ steady' \subseteq steady /\ steady' \subseteq Films \ out'
        /\ shown.films \subseteq shown'.films /\ shown.tracks \subseteq shown'.tracks
        /\ shown'.films \subseteq Films /\ shown'.tracks \subseteq Films
        /\ Films \ out' \subseteq shown'.films /\ Films \ dark' \subseteq shown'.tracks
    BY DEF LookupInv, LookupTypeOK, Watched, Watch
  <1>3. LookupTypeOK'
    BY <1>1, <1>2 DEF LookupInv, LookupTypeOK, Listing, Candidate, Entries
  <1>4. Watched'
    BY <1>2 DEF Watched
  <1>5. Kept(asking, steady', shown'.films, shown'.tracks)
    BY <1>2, KeptLonger DEF LookupInv
  <1>6. Kept(asking, steady, shown.films, shown.tracks)'
    BY <1>1, <1>5 DEF Kept, Fair, Near, Held, Searching, Hashed
  <1> QED
    BY <1>3, <1>4, <1>6 DEF LookupInv

LEMMA ModeratorStep ==
  ASSUME LookupInv,
         \/ \E f \in Films : \/ WithdrawRelease(f) \/ RestoreRelease(f)
                             \/ WithdrawTrack(f) \/ RestoreTrack(f)
         \/ LinkOrUnlink
         \/ \E f, g \in Films : SetOffset(f, g) \/ ClearOffset(f, g)
  PROVE  LookupInv'
  <1>1. /\ out \subseteq Films /\ dark \subseteq Films /\ grouped \in BOOLEAN
        /\ synced \subseteq Films \X Films
    BY DEF LookupInv, LookupTypeOK
  <1>2. ASSUME NEW f \in Films, WithdrawRelease(f)
        PROVE  LookupInv'
    BY <1>1, <1>2, ModeratorMoves DEF WithdrawRelease
  <1>3. ASSUME NEW f \in Films, RestoreRelease(f)
        PROVE  LookupInv'
    BY <1>1, <1>3, ModeratorMoves DEF RestoreRelease
  <1>4. ASSUME NEW f \in Films, WithdrawTrack(f)
        PROVE  LookupInv'
    BY <1>1, <1>4, ModeratorMoves DEF WithdrawTrack
  <1>5. ASSUME NEW f \in Films, RestoreTrack(f)
        PROVE  LookupInv'
    BY <1>1, <1>5, ModeratorMoves DEF RestoreTrack
  <1>6. CASE LinkOrUnlink
    <2>1. grouped' \in BOOLEAN
      BY <1>1, <1>6 DEF LinkOrUnlink
    <2> QED
      BY <1>1, <1>6, <2>1, ModeratorMoves DEF LinkOrUnlink
  <1>7. ASSUME NEW f \in Films, NEW g \in Films, SetOffset(f, g) \/ ClearOffset(f, g)
        PROVE  LookupInv'
    <2>1. synced' \subseteq Films \X Films
      BY <1>1, <1>7 DEF SetOffset, ClearOffset
    <2> QED
      BY <1>1, <1>7, <2>1, ModeratorMoves DEF SetOffset, ClearOffset
  <1> QED
    BY <1>2, <1>3, <1>4, <1>5, <1>6, <1>7

-----------------------------------------------------------------------------
LEMMA SearchStep ==
  ASSUME LookupInv, NEW exactMode, Search(exactMode)
  PROVE  LookupInv'
  <1> DEFINE still == Films \ out  tracks == Films \ dark
  <1>1. LookupTypeOK /\ Fair({}, still, tracks) /\ still \in SUBSET Films
    BY DEF LookupInv, Fair
  <1>2. PICK e \in Entries : e = Entry("stash")
    BY EntriesTyped
  <1>3. <<e>> \in Seq(Entries)
    BY OneEntry
  <1>4. PICK k : /\ k = IF Scene.identity THEN Stage("identity", <<e>>, {})
                        ELSE After("identity", {}, exactMode)
                 /\ asking' = k
    BY <1>2 DEF Search
  <1>5. k \in AskRecord /\ Kept(k, still, still, tracks)
    <2>1. /\ Stage("identity", <<e>>, {}) \in AskRecord
          /\ Kept(Stage("identity", <<e>>, {}), still, still, tracks)
      BY <1>1, <1>3, StageKept
    <2>2. /\ After("identity", {}, exactMode) \in AskRecord
          /\ Kept(After("identity", {}, exactMode), still, still, tracks)
      BY <1>1, AfterKept
    <2> QED
      BY <1>4, <2>1, <2>2
  <1> QED
    BY <1>4, <1>5, AskBegins DEF Search

LEMMA AskBucketStep ==
  ASSUME LookupInv, NEW e \in Entries, AskBucket(e)
  PROVE  LookupInv'
  <1>1. LookupTypeOK /\ Fair({}, Films \ out, Films \ dark) /\ Films \ out \in SUBSET Films
    BY DEF LookupInv, Fair
  <1>2. <<e>> \in Seq(Entries)
    BY OneEntry
  <1>3. PICK k : k = Stage("bucket", <<e>>, {}) /\ asking' = k
    BY DEF AskBucket
  <1>4. k \in AskRecord /\ Kept(k, Films \ out, Films \ out, Films \ dark)
    BY <1>1, <1>2, <1>3, StageKept
  <1> QED
    BY <1>3, <1>4, AskBegins DEF AskBucket

\* A bucket is of visible releases, and has all of them that are in it.
LEMMA BucketHas ==
  ASSUME LookupTypeOK, NEW e \in Entries
  PROVE  /\ Bucket(e) \subseteq Films \ out
         /\ \A f \in Films \ out : Held(e, f) => f \in Bucket(e)
  <1>1. e.kind \in {"stash", "oshash", "exact", "name", "phash"}
    BY DEF Entries, Entry, PhashBlocks
  <1>2. CASE e.kind = "stash"
    BY <1>2 DEF Bucket, Held, ReleasesByStashID, Visible
  <1>3. CASE e.kind = "oshash"
    BY <1>3 DEF Bucket, Held, LookupByOshashPrefix, Visible
  <1>4. CASE e.kind = "exact"
    BY <1>4 DEF Bucket, Held, LookupExact, GetReleaseByOshash, LookupByPHashFuzzy, Visible
  <1>5. CASE e.kind = "name"
    BY <1>5 DEF Bucket, Held, LookupByNameCandidates, Visible
  <1>6. CASE e.kind = "phash"
    BY <1>6 DEF Bucket, Held, LookupByBlock, Visible
  <1> QED
    BY <1>1, <1>2, <1>3, <1>4, <1>5, <1>6

LEMMA ReadReleasesStep ==
  ASSUME LookupInv, ReadReleases
  PROVE  LookupInv'
  <1> DEFINE e == Head(asking.left)
  <1>1. /\ asking.at = "releases" /\ asking.left # << >>
        /\ asking' = [asking EXCEPT !.at = "tracks", !.left = Tail(@), !.now = Bucket(e)]
        /\ UNCHANGED <<catalogueVars, steady, shown>>
    BY DEF ReadReleases
  <1>2. asking \in AskRecord /\ LookupTypeOK
    BY LookupTyped DEF LookupInv
  <1>3. asking.left \in Seq(Entries)
    BY <1>2 DEF AskRecord
  <1>4. /\ e \in Entries /\ Tail(asking.left) \in Seq(Entries)
        /\ Len(Tail(asking.left)) = Len(asking.left) - 1
        /\ \A i \in 1..Len(Tail(asking.left)) : Tail(asking.left)[i] = asking.left[i + 1]
    BY <1>1, <1>3, HeadTailProperties
  <1>5. /\ Bucket(e) \subseteq Films \ out /\ \A f \in Films \ out : Held(e, f) => f \in Bucket(e)
    BY <1>2, <1>4, BucketHas
  <1>6. PICK k : k = [asking EXCEPT !.at = "tracks", !.left = Tail(asking.left), !.now = Bucket(e)]
    OBVIOUS
  <1>7. asking' = k
    BY <1>1, <1>6
  <1> HIDE DEF e
  <1>8. /\ k \in AskRecord /\ k.at = "tracks" /\ k.stage = asking.stage /\ k.left = Tail(asking.left)
        /\ k.now = Bucket(e) /\ k.tracks = asking.tracks /\ k.found = asking.found
        /\ k.offers = asking.offers
    BY <1>2, <1>4, <1>5, <1>6 DEF AskRecord
  <1>9. ASSUME Hashed(k), NEW f \in steady, Near(f)
        PROVE  \/ f \in k.now \/ \E l \in k.found : l.film = f
               \/ \E i \in DOMAIN k.left : Held(k.left[i], f)
    <2>1. \/ \E l \in asking.found : l.film = f
          \/ \E i \in DOMAIN asking.left : Held(asking.left[i], f)
      BY <1>1, <1>8, <1>9 DEF LookupInv, Kept, Searching, Hashed
    <2>2. f \in Films \ out
      BY DEF LookupInv, Watched
    <2>3. ASSUME NEW i \in DOMAIN asking.left, Held(asking.left[i], f)
          PROVE  f \in k.now \/ \E j \in DOMAIN k.left : Held(k.left[j], f)
      <3>1. CASE i = 1
        BY <1>3, <1>5, <1>8, <2>2, <2>3, <3>1 DEF e
      <3>2. CASE i # 1
        <4>1. i \in 1..Len(asking.left) /\ Len(asking.left) \in Nat
          BY <1>3
        <4>2. i - 1 \in 1..Len(Tail(asking.left)) /\ (i - 1) + 1 = i
          BY <1>4, <3>2, <4>1
        <4>3. Tail(asking.left)[i - 1] = asking.left[i]
          BY <1>4, <4>2
        <4>4. i - 1 \in DOMAIN Tail(asking.left)
          BY <1>4, <4>2
        <4> QED
          BY <1>8, <2>3, <4>3, <4>4
      <3> QED
        BY <3>1, <3>2
    <2> QED
      BY <1>8, <2>1, <2>3
  <1>10. Kept(k, steady, shown.films, shown.tracks)
    BY <1>1, <1>5, <1>8, <1>9 DEF LookupInv, Watched, Kept, Searching, Hashed
  <1> QED
    BY <1>1, <1>7, <1>8, <1>10, AskMoves

LEMMA TrackSummariesStep ==
  ASSUME LookupInv, TrackSummariesByReleaseIDs
  PROVE  LookupInv'
  <1>1. /\ asking.at = "tracks" /\ UNCHANGED <<catalogueVars, steady, shown>>
    BY DEF TrackSummariesByReleaseIDs
  <1>2. asking \in AskRecord
    BY LookupTyped DEF LookupInv
  <1>3. PICK k : k = [asking EXCEPT !.at = "siblings", !.tracks = asking.now \ dark] /\ asking' = k
    BY DEF TrackSummariesByReleaseIDs
  <1>4. /\ k \in AskRecord /\ k.at = "siblings" /\ k.stage = asking.stage /\ k.left = asking.left
        /\ k.now = asking.now /\ k.tracks = asking.now \ dark /\ k.found = asking.found
        /\ k.offers = asking.offers
    BY <1>2, <1>3 DEF AskRecord
  <1>5. Kept(k, steady, shown.films, shown.tracks)
    BY <1>1, <1>2, <1>4 DEF LookupInv, Watched, Kept, Searching, Hashed, AskRecord
  <1> QED
    BY <1>1, <1>3, <1>4, <1>5, AskMoves

LEMMA LookupReleasesStep ==
  ASSUME LookupInv, LookupReleases
  PROVE  LookupInv'
  <1> DEFINE listing(f) == [film |-> f, track |-> f \in asking.tracks, siblings |-> SiblingTracks(f)]
             unseen == asking.now \ {l.film : l \in asking.found}
             new == {listing(f) : f \in unseen}
  <1>1. /\ asking.at = "siblings" /\ UNCHANGED <<catalogueVars, steady, shown>>
    BY DEF LookupReleases
  <1>2. asking \in AskRecord /\ asking.now \subseteq Films /\ asking.found \subseteq Listing
    BY LookupTyped DEF LookupInv, AskRecord
  <1>3. \A f \in Films : SiblingTracks(f) \subseteq Films \ out /\ SiblingTracks(f) \subseteq Films \ dark
    BY DEF SiblingTracks, Visible
  <1>4. \A f \in Films : /\ listing(f) \in Listing /\ listing(f).film = f
                         /\ listing(f).track <=> f \in asking.tracks
                         /\ listing(f).siblings = SiblingTracks(f)
    <2>1. \A f \in Films : (f \in asking.tracks) \in BOOLEAN
      OBVIOUS
    <2> QED
      BY <1>3, <2>1 DEF Listing
  <1>5. PICK k : /\ k = [asking EXCEPT !.at = "releases", !.now = {}, !.tracks = {},
                                       !.found = asking.found \cup new]
                 /\ asking' = k
    BY DEF LookupReleases
  <1>6. \A l \in new : /\ l \in Listing /\ l.film \in unseen
                       /\ l.track => l.film \in asking.tracks
                       /\ l.siblings \subseteq Films \ out /\ l.siblings \subseteq Films \ dark
    BY <1>2, <1>3, <1>4
  <1>7. \A f \in unseen : \E l \in new : l.film = f
    BY <1>2, <1>4
  <1> HIDE DEF new, listing
  <1>8. /\ k \in AskRecord /\ k.at = "releases" /\ k.stage = asking.stage /\ k.left = asking.left
        /\ k.now = {} /\ k.tracks = {} /\ k.found = asking.found \cup new
        /\ k.offers = asking.offers
    BY <1>2, <1>5, <1>6 DEF AskRecord
  <1>9. \A l \in k.found : /\ l.track => l.film \in shown.films /\ l.film \in shown.tracks
                           /\ l.siblings \subseteq shown.films /\ l.siblings \subseteq shown.tracks
    <2>1. /\ asking.now \subseteq shown.films /\ asking.tracks \subseteq shown.tracks
          /\ \A l \in asking.found :
               /\ l.track => l.film \in shown.films /\ l.film \in shown.tracks
               /\ l.siblings \subseteq shown.films /\ l.siblings \subseteq shown.tracks
      BY <1>1 DEF LookupInv, Kept, Searching
    <2>2. Films \ out \subseteq shown.films /\ Films \ dark \subseteq shown.tracks
      BY DEF LookupInv, Watched
    <2> QED
      BY <1>6, <1>8, <2>1, <2>2
  <1>10. ASSUME Hashed(k), NEW f \in steady, Near(f)
         PROVE  \/ \E l \in k.found : l.film = f
                \/ \E i \in DOMAIN k.left : Held(k.left[i], f)
    <2>1. \/ f \in asking.now \/ \E l \in asking.found : l.film = f
          \/ \E i \in DOMAIN asking.left : Held(asking.left[i], f)
      BY <1>1, <1>8, <1>10 DEF LookupInv, Kept, Searching, Hashed
    <2> QED
      BY <1>7, <1>8, <2>1
  <1>11. Fair(k.offers, shown.films, shown.tracks)
    BY <1>1, <1>8 DEF LookupInv, Kept, Searching
  <1>12. Kept(k, steady, shown.films, shown.tracks)
    BY <1>8, <1>9, <1>10, <1>11 DEF Kept, Searching
  <1> QED
    BY <1>1, <1>5, <1>8, <1>12, AskMoves

\* A tier of the ranking offers listings, or the siblings they name.
LEMMA OfferIs ==
  ASSUME NEW l \in Listing, NEW r \in 0..3
  PROVE  /\ Offer(l, r) \in Candidate /\ Offer(l, r).film = l.film
         /\ Offer(l, r).of = l.film /\ Offer(l, r).track = l.track
  BY DEF Offer, Candidate, Listing

LEMMA OffersAre ==
  ASSUME NEW listings \in SUBSET Listing, NEW films, NEW tracks,
         \A l \in listings : l.track => l.film \in films /\ l.film \in tracks,
         NEW offers, \A c \in offers : \E l \in listings, r \in 0..3 : c = Offer(l, r)
  PROVE  offers \in SUBSET Candidate /\ Fair(offers, films, tracks)
  <1>1. ASSUME NEW c \in offers
        PROVE  c \in Candidate /\ (c.track => c.of \in films /\ c.of \in tracks)
    <2>1. PICK l \in listings, r \in 0..3 : c = Offer(l, r)
      OBVIOUS
    <2> QED
      BY <2>1, OfferIs
  <1> QED
    BY <1>1 DEF Fair

LEMMA SiblingsAre ==
  ASSUME NEW l \in Listing, NEW films, NEW tracks, l.siblings \subseteq films,
         l.siblings \subseteq tracks
  PROVE  /\ SiblingCandidates(l) \in SUBSET Candidate
         /\ Fair(SiblingCandidates(l), films, tracks)
  <1>1. ASSUME NEW c \in SiblingCandidates(l)
        PROVE  c \in Candidate /\ c.of \in films /\ c.of \in tracks
    <2>1. PICK g \in l.siblings :
            c = [film |-> l.film, track |-> TRUE, rank |-> 2, of |-> g,
                 synced |-> <<g, l.film>> \in synced]
      BY DEF SiblingCandidates
    <2>2. l.film \in Films /\ g \in Films /\ (<<g, l.film>> \in synced) \in BOOLEAN
      BY DEF Listing
    <2> QED
      BY <2>1, <2>2 DEF Candidate
  <1> QED
    BY <1>1 DEF Fair

\* What ranking a reply gives, and that it keeps every near release of it.
LEMMA RankedIs ==
  ASSUME LookupTypeOK, NEW listings \in SUBSET Listing, NEW exactMode, NEW films, NEW tracks,
         \A l \in listings : /\ l.track => l.film \in films /\ l.film \in tracks
                             /\ l.siblings \subseteq films /\ l.siblings \subseteq tracks
  PROVE  /\ RankCandidates(listings, exactMode) \in SUBSET Candidate
         /\ Fair(RankCandidates(listings, exactMode), films, tracks)
         /\ \A l \in listings :
              Near(l.film) => \E c \in RankCandidates(listings, exactMode) : c.film = l.film
  <1> DEFINE same(l) == print[l.film].file = Scene.file
             near(l, d) == /\ ~ same(l) /\ Scene.hashed /\ print[l.film].hashed
                           /\ Hamming(print[l.film].phash, Scene.phash) <= d
             high(l) == near(l, 4) /\ print[l.film].apart = 0
             S0 == {l \in listings : same(l)}
             S1 == {l \in listings : high(l)}
             S2 == {l \in listings : exactMode /\ near(l, 8) /\ ~ high(l)
                                              /\ print[l.film].apart <= 1}
             siblings == UNION {SiblingCandidates(l) : l \in S0}
  <1>1. RankCandidates(listings, exactMode) =
          {Offer(l, 0) : l \in S0} \cup siblings \cup {Offer(l, 1) : l \in S1}
            \cup {Offer(l, 2) : l \in S2}
    BY DEF RankCandidates
  <1>2. /\ S0 \in SUBSET listings /\ S1 \in SUBSET listings /\ S2 \in SUBSET listings
        /\ \A l \in listings : Near(l.film) => l \in S0 \/ l \in S1
    BY DEF Near
  <1> HIDE DEF S0, S1, S2
  <1>3. siblings \in SUBSET Candidate /\ Fair(siblings, films, tracks)
    <2>1. \A l \in S0 : /\ SiblingCandidates(l) \in SUBSET Candidate
                        /\ Fair(SiblingCandidates(l), films, tracks)
      BY <1>2, SiblingsAre
    <2> QED
      BY <2>1 DEF Fair
  <1> DEFINE A == {Offer(l, 0) : l \in S0}
             B == {Offer(l, 1) : l \in S1}
             C == {Offer(l, 2) : l \in S2}
  <1>4. /\ A \in SUBSET Candidate /\ B \in SUBSET Candidate /\ C \in SUBSET Candidate
        /\ Fair(A, films, tracks) /\ Fair(B, films, tracks) /\ Fair(C, films, tracks)
    <2>1. \A l \in listings : l.track => l.film \in films /\ l.film \in tracks
      OBVIOUS
    <2>2. /\ \A c \in A : \E l \in listings, r \in 0..3 : c = Offer(l, r)
          /\ \A c \in B : \E l \in listings, r \in 0..3 : c = Offer(l, r)
          /\ \A c \in C : \E l \in listings, r \in 0..3 : c = Offer(l, r)
      BY <1>2
    <2> HIDE DEF A, B, C
    <2>3. A \in SUBSET Candidate /\ Fair(A, films, tracks)
      BY <2>1, <2>2, OffersAre
    <2>4. B \in SUBSET Candidate /\ Fair(B, films, tracks)
      BY <2>1, <2>2, OffersAre
    <2>5. C \in SUBSET Candidate /\ Fair(C, films, tracks)
      BY <2>1, <2>2, OffersAre
    <2> QED
      BY <2>3, <2>4, <2>5
  <1>5. ASSUME NEW l \in listings, Near(l.film)
        PROVE  \E c \in A \cup B : c.film = l.film
    <2>1. CASE l \in S0
      <3>1. Offer(l, 0) \in A /\ Offer(l, 0).film = l.film
        BY <2>1, OfferIs
      <3> QED
        BY <3>1
    <2>2. CASE l \in S1
      <3>1. Offer(l, 1) \in B /\ Offer(l, 1).film = l.film
        BY <2>2, OfferIs
      <3> QED
        BY <3>1
    <2> QED
      BY <1>2, <1>5, <2>1, <2>2
  <1>6. RankCandidates(listings, exactMode) = A \cup siblings \cup B \cup C
    BY <1>1
  <1> HIDE DEF A, B, C, siblings
  <1>7. Fair(A \cup siblings \cup B \cup C, films, tracks)
    BY <1>3, <1>4 DEF Fair
  <1> QED
    BY <1>3, <1>4, <1>5, <1>6, <1>7

LEMMA AnsweredStep ==
  ASSUME LookupInv, NEW exactMode, Answered(exactMode)
  PROVE  LookupInv'
  <1> DEFINE s == asking.stage
             offers == Ranked(s, asking.found, asking.offers)
             films == shown.films
             tracks == shown.tracks
             ranked(m) == RankCandidates(asking.found, m)
  <1>1. /\ asking.at = "releases" /\ asking.left = << >>
        /\ asking' = After(s, offers, exactMode)
        /\ UNCHANGED <<catalogueVars, steady, shown>>
    BY DEF Answered
  <1>2. /\ asking \in AskRecord /\ LookupTypeOK /\ steady \in SUBSET Films
        /\ s \in {"identity", "hashes", "exact", "names", "bucket"}
        /\ asking.found \in SUBSET Listing /\ asking.offers \in SUBSET Candidate
    BY LookupTyped DEF LookupInv, AskRecord
  <1>3. /\ \A l \in asking.found :
             /\ l.track => l.film \in films /\ l.film \in tracks
             /\ l.siblings \subseteq films /\ l.siblings \subseteq tracks
        /\ Fair(asking.offers, films, tracks)
        /\ asking.now = {}
    BY <1>1 DEF LookupInv, Kept, Searching
  <1>4. ASSUME s \in {"identity", "bucket", "names"}
        PROVE  offers \in SUBSET Candidate /\ Fair(offers, films, tracks)
    <2>1. PICK best, least : /\ best = {Offer(l, 0) : l \in asking.found}
                             /\ least = {Offer(l, 3) : l \in asking.found}
      OBVIOUS
    <2>2. offers = best \/ offers = least
      BY <1>4, <2>1 DEF Ranked
    <2>3. best \in SUBSET Candidate /\ Fair(best, films, tracks)
      <3>1. \A c \in best : \E l \in asking.found, r \in 0..3 : c = Offer(l, r)
        BY <2>1
      <3> QED
        BY <1>2, <1>3, <3>1, OffersAre
    <2>4. least \in SUBSET Candidate /\ Fair(least, films, tracks)
      <3>1. \A c \in least : \E l \in asking.found, r \in 0..3 : c = Offer(l, r)
        BY <2>1
      <3> QED
        BY <1>2, <1>3, <3>1, OffersAre
    <2> QED
      BY <2>2, <2>3, <2>4
  <1>5. ASSUME s \in {"hashes", "exact"}
        PROVE  /\ offers \in SUBSET Candidate /\ Fair(offers, films, tracks)
               /\ \A f \in steady : Near(f) => \E c \in offers : c.film = f
    <2>1. PICK m : m = (s = "exact")
      OBVIOUS
    <2>2. PICK new : new = ranked(m)
      OBVIOUS
    <2>3. offers = asking.offers \cup {c \in new : c.film \notin {o.film : o \in asking.offers}}
      BY <1>5, <2>1, <2>2 DEF Ranked
    <2>4. /\ new \in SUBSET Candidate /\ Fair(new, films, tracks)
          /\ \A l \in asking.found : Near(l.film) => \E c \in new : c.film = l.film
      BY <1>2, <1>3, <2>2, RankedIs
    <2>5. ASSUME NEW f \in steady, Near(f)
          PROVE  \E l \in asking.found : l.film = f
      <3>1. \A i : i \notin DOMAIN << >>
        OBVIOUS
      <3> QED
        BY <1>1, <1>3, <1>5, <2>5, <3>1 DEF LookupInv, Kept, Searching, Hashed
    <2>6. \A f \in steady : Near(f) => \E c \in offers : c.film = f
      BY <2>3, <2>4, <2>5
    <2>7. Fair(offers, films, tracks)
      BY <1>3, <2>3, <2>4 DEF Fair
    <2> QED
      BY <1>2, <2>3, <2>4, <2>6, <2>7
  <1> HIDE DEF offers, ranked
  <1>6. offers \in SUBSET Candidate /\ Fair(offers, films, tracks)
    BY <1>2, <1>4, <1>5
  <1>7. PICK k : k = After(s, offers, exactMode)
    OBVIOUS
  <1>8. k \in AskRecord /\ Kept(k, steady, films, tracks)
    BY <1>2, <1>5, <1>6, <1>7, AfterKept
  <1> QED
    BY <1>1, <1>7, <1>8, AskMoves

\* A request that ended owes nothing.
LEMMA IdleKept ==
  ASSUME NEW still, NEW films, NEW tracks
  PROVE  Kept(NoSearch, still, films, tracks)
  BY NoSearchIs DEF Kept, Searching

LEMMA LookupFailsStep ==
  ASSUME LookupInv, NEW exactMode, LookupFails(exactMode)
  PROVE  LookupInv'
  <1> DEFINE s == asking.stage
  <1>1. /\ UNCHANGED <<catalogueVars, steady, shown>>
        /\ s \in {"identity", "names"} =>
             asking' = [After(s, {}, exactMode) EXCEPT !.found = {}]
        /\ s \notin {"identity", "names"} => asking' = NoSearch
    BY DEF LookupFails
  <1>2. LookupTypeOK /\ steady \in SUBSET Films
    BY DEF LookupInv, LookupTypeOK
  <1>3. CASE s \in {"identity", "names"}
    <2>1. Fair({}, shown.films, shown.tracks)
      BY DEF Fair
    <2>2. PICK a : a = After(s, {}, exactMode)
      OBVIOUS
    <2>3. a \in AskRecord /\ Kept(a, steady, shown.films, shown.tracks)
      BY <1>2, <1>3, <2>1, <2>2, AfterKept
    <2>4. PICK k : k = [a EXCEPT !.found = {}]
      OBVIOUS
    <2>5. a.found = {}
      <3>1. CASE s = "identity"
        <4>1. /\ <<Entry("exact")>> \in Seq(Entries) /\ BucketKeys \in Seq(Entries)
          <5>1. PICK e \in Entries : e = Entry("exact")
            BY EntriesTyped
          <5>2. <<e>> \in Seq(Entries)
            BY OneEntry
          <5> QED
            BY <5>1, <5>2, BucketKeysAre
        <4>2. \/ a = Stage("exact", <<Entry("exact")>>, {})
              \/ a = Stage("hashes", BucketKeys, {})
          BY <2>2, <3>1 DEF After
        <4>3. PICK keys \in Seq(Entries) : a = Stage("exact", keys, {}) \/ a = Stage("hashes", keys, {})
          BY <4>1, <4>2
        <4>4. PICK none \in SUBSET Candidate : none = {}
          OBVIOUS
        <4>5. a = Stage("exact", keys, none) \/ a = Stage("hashes", keys, none)
          BY <4>3, <4>4
        <4>6. Stage("exact", keys, none).found = {} /\ Stage("hashes", keys, none).found = {}
          BY StageIs
        <4> QED
          BY <4>5, <4>6
      <3>2. CASE s = "names"
        <4>1. a = [NoSearch EXCEPT !.at = "answered", !.stage = s, !.offers = {}]
          BY <2>2, <3>2 DEF After
        <4> QED
          BY <4>1 DEF NoSearch
      <3> QED
        BY <1>3, <3>1, <3>2
    <2>6. k = a
      BY <2>3, <2>4, <2>5 DEF AskRecord
    <2> QED
      BY <1>1, <1>3, <2>2, <2>3, <2>4, <2>6, AskMoves
  <1>4. CASE s \notin {"identity", "names"}
    BY <1>1, <1>4, NoSearchIs, IdleKept, AskMoves
  <1> QED
    BY <1>3, <1>4

-----------------------------------------------------------------------------
LEMMA DownloadStep ==
  ASSUME LookupInv, NEW f, GetSubtitleTrack(f) \/ GetReleaseByID(f) \/ ShiftFor(f) \/ SearchDone
  PROVE  LookupInv'
  <1>1. /\ asking \in AskRecord /\ UNCHANGED <<catalogueVars, steady, shown>>
        /\ Kept(asking, steady, shown.films, shown.tracks) /\ Watched
    BY LookupTyped DEF LookupInv, GetSubtitleTrack, GetReleaseByID, ShiftFor, SearchDone
  <1>2. CASE asking' = NoSearch
    BY <1>1, <1>2, NoSearchIs, IdleKept, AskMoves
  <1>3. CASE GetSubtitleTrack(f) /\ f \notin dark
    <2>1. PICK k : k = [asking EXCEPT !.at = "release"] /\ asking' = k
      BY <1>3 DEF GetSubtitleTrack
    <2>2. k \in AskRecord /\ k.at = "release" /\ k.now = asking.now
      BY <1>1, <2>1 DEF AskRecord
    <2>3. asking.at = "track" /\ asking.now = {f} /\ asking.now \in SUBSET Films
      BY <1>1, <1>3 DEF Kept, GetSubtitleTrack, AskRecord
    <2>4. f \in shown.tracks
      BY <1>1, <1>3, <2>3 DEF Watched
    <2>5. Kept(k, steady, shown.films, shown.tracks)
      BY <2>2, <2>3, <2>4 DEF Kept, Searching
    <2> QED
      BY <1>1, <2>1, <2>2, <2>5, AskMoves
  <1>4. CASE GetReleaseByID(f) /\ f \notin out
    <2>1. PICK k : k = [asking EXCEPT !.at = "offset"] /\ asking' = k
      BY <1>4 DEF GetReleaseByID
    <2>2. k \in AskRecord /\ k.at = "offset" /\ k.now = asking.now
      BY <1>1, <2>1 DEF AskRecord
    <2>3. /\ asking.at = "release" /\ asking.now = {f} /\ asking.now \in SUBSET Films
          /\ asking.now \subseteq shown.tracks
      BY <1>1, <1>4 DEF Kept, GetReleaseByID, AskRecord
    <2>4. f \in shown.films
      BY <1>1, <1>4, <2>3 DEF Watched
    <2>5. Kept(k, steady, shown.films, shown.tracks)
      BY <2>2, <2>3, <2>4 DEF Kept, Searching
    <2> QED
      BY <1>1, <2>1, <2>2, <2>5, AskMoves
  <1>5. CASE ShiftFor(f)
    <2>1. PICK sent \in SUBSET Films : /\ sent = {g \in asking.tracks : g # f /\ Offset(f, g)}
                                       /\ asking' = [asking EXCEPT !.at = "served", !.tracks = sent]
      BY <1>1, <1>5 DEF ShiftFor, AskRecord
    <2>2. PICK k : k = [asking EXCEPT !.at = "served", !.tracks = sent] /\ asking' = k
      BY <2>1
    <2>3. k \in AskRecord /\ k.at = "served" /\ k.now = asking.now
      BY <1>1, <2>2 DEF AskRecord
    <2>4. /\ \E g \in Films : asking.now = {g}
          /\ asking.now \subseteq shown.films /\ asking.now \subseteq shown.tracks
      BY <1>1, <1>5 DEF Kept, ShiftFor
    <2>5. Kept(k, steady, shown.films, shown.tracks)
      BY <2>3, <2>4 DEF Kept, Searching
    <2> QED
      BY <1>1, <2>2, <2>3, <2>5, AskMoves
  <1> QED
    BY <1>2, <1>3, <1>4, <1>5 DEF GetSubtitleTrack, GetReleaseByID, ShiftFor, SearchDone, Gone

LEMMA GetSubtitleStep ==
  ASSUME LookupInv, NEW c, GetSubtitle(c)
  PROVE  LookupInv'
  <1>1. /\ c \in asking.offers /\ StartWatching /\ UNCHANGED catalogueVars
    BY DEF GetSubtitle
  <1>2. c.of \in Films /\ c.film \in Films
    BY <1>1 DEF LookupInv, LookupTypeOK, Candidate
  <1>3. PICK k : /\ k = [NoSearch EXCEPT !.at = "track", !.now = {c.of}, !.tracks = {c.film}]
                 /\ asking' = k
    BY DEF GetSubtitle
  <1>4. k = [at |-> "track", stage |-> "names", left |-> << >>, now |-> {c.of},
             tracks |-> {c.film}, found |-> {}, offers |-> {}]
    BY <1>3 DEF NoSearch
  <1>5. k \in AskRecord
    BY <1>2, <1>4, EmptySeq DEF AskRecord
  <1>6. Kept(k, Films \ out, Films \ out, Films \ dark)
    BY <1>2, <1>4 DEF Kept, Searching
  <1> QED
    BY <1>1, <1>3, <1>5, <1>6, AskBegins

LEMMA LookupIdle ==
  ASSUME LookupInv, UNCHANGED lookupVars
  PROVE  LookupInv'
  <1>1. asking \in AskRecord
    BY LookupTyped DEF LookupInv
  <1> QED
    BY <1>1, AskMoves DEF LookupInv, lookupVars, catalogueVars

LEMMA LookupStart == LookupInit => LookupInv
  <1> SUFFICES ASSUME LookupInit PROVE LookupInv
    OBVIOUS
  <1>1. LookupTypeOK
    BY LookupTyped, NoSearchIs, LookupAssumption DEF LookupInit
  <1>2. Watched
    BY DEF LookupInit, Watched
  <1>3. Kept(asking, steady, shown.films, shown.tracks)
    BY IdleKept DEF LookupInit
  <1> QED
    BY <1>1, <1>2, <1>3 DEF LookupInv

LEMMA LookupStep == LookupInv /\ [LookupNext]_lookupVars => LookupInv'
  <1> SUFFICES ASSUME LookupInv, [LookupNext]_lookupVars PROVE LookupInv'
    OBVIOUS
  <1>1. ASSUME NEW x \in BOOLEAN, Search(x) \/ Answered(x) \/ LookupFails(x)
        PROVE  LookupInv'
    BY <1>1, SearchStep, AnsweredStep, LookupFailsStep
  <1>2. CASE \/ HandleLookupOshashPrefix \/ HandleLookupStash \/ HandleMatch
             \/ \E k \in 0..4 : HandleLookupPhashBlock(k)
    <2>1. PICK e \in Entries : AskBucket(e)
      BY <1>2, EntriesTyped DEF HandleLookupOshashPrefix, HandleLookupStash, HandleMatch,
         HandleLookupPhashBlock
    <2> QED
      BY <2>1, AskBucketStep
  <1>3. CASE ReadReleases \/ TrackSummariesByReleaseIDs \/ LookupReleases
    BY <1>3, ReadReleasesStep, TrackSummariesStep, LookupReleasesStep
  <1>4. ASSUME NEW c \in asking.offers, GetSubtitle(c)
        PROVE  LookupInv'
    BY <1>4, GetSubtitleStep
  <1>5. ASSUME NEW f, GetSubtitleTrack(f) \/ GetReleaseByID(f) \/ ShiftFor(f) \/ SearchDone
        PROVE  LookupInv'
    BY <1>5, DownloadStep
  <1>6. CASE \/ \E f \in Films : \/ WithdrawRelease(f) \/ RestoreRelease(f)
                                 \/ WithdrawTrack(f) \/ RestoreTrack(f)
             \/ LinkOrUnlink
             \/ \E f, g \in Films :
                  WorkOffsetCmd(f, g) \/ \E typed \in BOOLEAN : HandleModReleaseOffset(f, g, typed)
    BY <1>6, ModeratorStep DEF WorkOffsetCmd, HandleModReleaseOffset
  <1>7. CASE UNCHANGED lookupVars
    BY <1>7, LookupIdle
  <1> QED
    BY <1>1, <1>2, <1>3, <1>4, <1>5, <1>6, <1>7 DEF LookupNext

LEMMA LookupHolds == LookupInv => LookupTypeOK /\ NearMatchesAreFound /\ TakedownsAreObeyed
  <1> SUFFICES ASSUME LookupInv PROVE LookupTypeOK /\ NearMatchesAreFound /\ TakedownsAreObeyed
    OBVIOUS
  <1>1. NearMatchesAreFound
    BY DEF LookupInv, Kept, Hashed, Near, NearMatchesAreFound
  <1>2. TakedownsAreObeyed
    BY DEF LookupInv, Kept, Fair, TakedownsAreObeyed
  <1> QED
    BY <1>1, <1>2 DEF LookupInv

\* Bucketed lookup misses no near release, and a takedown holds during searches
\* and downloads, for any catalogue, any file and any number of bits.
THEOREM LookupIsExact ==
  LookupSpec => [](LookupTypeOK /\ NearMatchesAreFound /\ TakedownsAreObeyed)
  <1>1. LookupInit => LookupInv
    BY LookupStart
  <1>2. LookupInv /\ [LookupNext]_lookupVars => LookupInv'
    BY LookupStep
  <1> QED
    BY <1>1, <1>2, LookupHolds, PTL DEF LookupSpec

-----------------------------------------------------------------------------
(* Together.                                                               *)

\* A behaviour of the composition is one of every part.
LEMMA PartsBehave ==
  AccessSpec => LimiterSpec /\ AccountsSpec /\ ReportsSpec /\ LookupSpec
  <1>1. AccessInit => LimiterInit /\ AccountsInit /\ ReportsInit /\ LookupInit
    BY DEF AccessInit
  <1>2. [AccessNext]_accessVars => [LimiterNext]_limiterVars
    BY DEF AccessNext, accessVars
  <1>3. [AccessNext]_accessVars => [AccountsNext]_accountVars
    BY DEF AccessNext, accessVars
  <1>4. [AccessNext]_accessVars => [ReportsNext]_reportsVars
    BY DEF AccessNext, accessVars, ReportsNext
  <1>5. [AccessNext]_accessVars => [LookupNext]_lookupVars
    BY DEF AccessNext, accessVars
  <1> QED
    BY <1>1, <1>2, <1>3, <1>4, <1>5, PTL
       DEF AccessSpec, LimiterSpec, AccountsSpec, ReportsSpec, LookupSpec

\* Every variable of every part keeps its type.
THEOREM AccessTyped == AccessSpec => []AccessTypeOK
  BY PartsBehave, LimiterKeepsItsWord, SessionsAreRevoked, ReportsStand, LookupIsExact, PTL
     DEF AccessTypeOK

\* The limiter charges the caller's own network, promises waits that suffice
\* and lets a network that is alone get through.
THEOREM LimiterStaysHonest == AccessSpec => []LimiterIsHonest
  BY PartsBehave, LimiterKeepsItsWord, PTL DEF LimiterIsHonest

\* One decision for a removal request, and fit counts that stand.
THEOREM ReportsStayFair == AccessSpec => []ReportsAreFair
  BY PartsBehave, ReportsStand, PTL DEF ReportsAreFair

\* Searches miss no near release and offer or serve nothing taken down.
THEOREM LookupsStayExact == AccessSpec => []LookupsAreExact
  BY PartsBehave, LookupIsExact, PTL DEF LookupsAreExact

\* What the parts promise of single steps and of sessions, in the composition:
\* the limiter is a token budget, deletion leaves an administrator, and a
\* revoked session ends.
THEOREM PartsPromise ==
  AccessSpec => LimiterRefinesBudget /\ DeletionLeavesAnAdmin /\ []RevokedSessionsEnd
  BY PartsBehave, LimiterIsSteady, AdminsRemain, SessionsAreRevoked, PTL
=============================================================================
