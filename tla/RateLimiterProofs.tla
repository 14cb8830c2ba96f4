------------------------- MODULE RateLimiterProofs -------------------------
(***************************************************************************)
(* The limiter for every value of the constants: any number of instances,  *)
(* clients and requests, any limit, window and delay.                      *)
(*                                                                         *)
(* Redis.  The sorted set forgets a hit once it is older than the window,  *)
(* by the reading of the clock of whoever forgets it.  An admission is     *)
(* younger than its hit by at most MaxDelay; until it has grown older than *)
(* the window less MaxDelay, its hit is in the set (HitsRemembered), and   *)
(* so counted by every later admission.                                    *)
(*                                                                         *)
(* Memory.  The window of a client in an instance has, from any moment on  *)
(* that it still covers, exactly as many hits as there were admissions     *)
(* (Tracks): no fewer, so the limit holds, and no more, so that a refusal  *)
(* has the admissions behind it.  A decision therefore counts what a       *)
(* window that forgets nothing counts (DecisionTracks), and is the answer  *)
(* of SlidingWindow.                                                       *)
(***************************************************************************)
EXTENDS RateLimiter, FiniteSetTheorems, SequenceTheorems, WellFoundedInduction,
        TLAPS

SharedTypeOK ==
  /\ clock \in Time
  /\ zset \in [Clients -> SUBSET Hit]
  /\ request \in [Requests -> {Fresh} \cup Asked \cup Decided]

(* A thread holds a reading of the clock no older than MaxDelay.           *)
ReadingsRecent ==
  \A r \in Requests : request[r].step = "redis" =>
    request[r].at <= clock /\ clock <= request[r].at + MaxDelay

HitsRemembered ==
  \A c \in Clients : \A r \in Admitted(c, "redis") :
    /\ request[r].at <= clock
    /\ clock - request[r].at < Window - MaxDelay =>
         \E h \in zset[c] : h.request = r /\ h.at >= request[r].at - MaxDelay

LimiterInv ==
  /\ SharedTypeOK
  /\ \A c \in Clients : IsFiniteSet(zset[c])
  /\ ReadingsRecent
  /\ HitsRemembered
  /\ RedisWithinLimit

-----------------------------------------------------------------------------
(* What the steps of a request are.                                        *)
LEMMA RequestShape ==
  ASSUME SharedTypeOK, NEW r \in Requests
  PROVE  /\ request[r].step \in {"redis", "memory"} => request[r] \in Asked
         /\ request[r].step = "admitted" => request[r] \in Decided
         /\ request[r] # Fresh \/ request[r].step = "new"
  BY DEF SharedTypeOK, Fresh, Asked, Decided

LEMMA ReadingIsTime ==
  ASSUME SharedTypeOK, NEW r \in Requests,
         request[r].step \in {"redis", "memory", "admitted"}
  PROVE  request[r].at \in Int /\ clock \in Int
  BY RequestShape, ClockAssumption DEF SharedTypeOK, Asked, Decided, Time

(* As many hits as the requests they name.                                 *)
LEMMA OneHitEach ==
  ASSUME NEW S, NEW T, IsFiniteSet(T), \A q \in S : \E h \in T : h.request = q
  PROVE  Cardinality(S) \in Nat /\ Cardinality(T) \in Nat
         /\ Cardinality(S) <= Cardinality(T)
  <1> DEFINE hit == [q \in S |-> CHOOSE h \in T : h.request = q]
  <1>1. \A q \in S : hit[q] \in T /\ hit[q].request = q
    OBVIOUS
  <1>2. hit \in Injection(S, T)
    BY <1>1 DEF Injection, IsInjective
  <1>3. IsFiniteSet(S) /\ Cardinality(S) <= Cardinality(T)
    BY <1>2, FS_Injection
  <1> QED BY <1>3, FS_CardinalityType

(* The hits a pipeline leaves in the set of its client.                    *)
LEMMA PipelineHits ==
  ASSUME LimiterInv, NEW r \in Requests, request[r].step = "redis",
         NEW c \in Clients, request[r].client = c,
         zset' = WithHit(r, c, request[r].at)
  PROVE  /\ zset' \in [Clients -> SUBSET Hit]
         /\ \A d \in Clients \ {c} : zset'[d] = zset[d]
         /\ zset'[c] = {h \in zset[c] : request[r].at - h.at < Window}
                         \cup {[request |-> r, at |-> request[r].at]}
         /\ \A d \in Clients : IsFiniteSet(zset'[d])
         /\ [request |-> r, at |-> request[r].at] \in zset'[c]
         /\ \A h \in zset[c] : clock - h.at < Window => h \in zset'[c]
  <1>1. request[r] \in Asked /\ request[r].at <= clock
    BY RequestShape DEF LimiterInv, ReadingsRecent
  <1>2. zset \in [Clients -> SUBSET Hit]
    BY DEF LimiterInv, SharedTypeOK
  <1> DEFINE new  == [request |-> r, at |-> request[r].at]
             kept == {h \in zset[c] : request[r].at - h.at < Window}
  <1>3. new \in Hit
    BY <1>1 DEF Hit, Asked
  <1>4. /\ zset'[c] = kept \cup {new}
        /\ \A d \in Clients \ {c} : zset'[d] = zset[d]
        /\ zset' \in [Clients -> SUBSET Hit]
    BY <1>2, <1>3 DEF WithHit
  <1>5. IsFiniteSet(zset'[c])
    <2>1. IsFiniteSet(kept)
      BY FS_Subset DEF LimiterInv
    <2> HIDE DEF kept, new
    <2> QED BY <1>4, <2>1, FS_AddElement
  <1>6. \A d \in Clients : IsFiniteSet(zset'[d])
    BY <1>4, <1>5 DEF LimiterInv
  <1>7. ASSUME NEW h \in zset[c], clock - h.at < Window PROVE h \in kept
    <2>1. h.at \in Int /\ clock \in Int /\ request[r].at \in Int /\ Window \in Int
      BY <1>1, <1>2, ReadingIsTime, ClockAssumption, LimiterAssumption
      DEF Hit, Time, LimiterInv
    <2>2. request[r].at - h.at < Window
      BY <1>1, <1>7, <2>1
    <2> QED BY <2>2
  <1> QED BY <1>4, <1>6, <1>7

-----------------------------------------------------------------------------
AdmittedByRedis(q) == q.step = "admitted" /\ q.by = "redis"

(* A step that admits nobody out of Redis keeps the promise, and forgets   *)
(* no hit that still matters.                                              *)
Bystanding ==
  \A r \in Requests :
    \/ request'[r] = request[r]
    \/ ~AdmittedByRedis(request[r]) /\ ~AdmittedByRedis(request'[r])

LEMMA NobodyAdmitted ==
  ASSUME RedisWithinLimit, Bystanding PROVE RedisWithinLimit'
  <1> SUFFICES ASSUME NEW c \in Clients, NEW now \in Time
               PROVE  Cardinality(Between(Admitted(c, "redis"),
                                          now - Window + MaxDelay + 1, now)') <= Limit
    BY DEF RedisWithinLimit
  <1>1. Between(Admitted(c, "redis"), now - Window + MaxDelay + 1, now)'
          = Between(Admitted(c, "redis"), now - Window + MaxDelay + 1, now)
    BY DEF Bystanding, AdmittedByRedis, Admitted, Between
  <1> QED BY <1>1 DEF RedisWithinLimit

(* A step that keeps the hits in the window keeps those of the admitted.   *)
HitsKept ==
  \A c \in Clients : \A h \in zset[c] : clock - h.at < Window => h \in zset'[c]

Remembers(c, r) ==
  /\ request[r].at <= clock
  /\ clock - request[r].at < Window - MaxDelay =>
       \E h \in zset[c] : h.request = r /\ h.at >= request[r].at - MaxDelay

LEMMA StaysRemembered ==
  ASSUME LimiterInv, clock' \in Int, clock <= clock', HitsKept,
         NEW c \in Clients, NEW r \in Admitted(c, "redis"), request'[r] = request[r]
  PROVE  Remembers(c, r)'
  <1>1. Remembers(c, r)
    BY DEF LimiterInv, HitsRemembered, Remembers
  <1>2. /\ request[r].at \in Int /\ clock \in Int /\ Window \in Int /\ MaxDelay \in Int
        /\ request[r].at <= clock
    BY <1>1, ReadingIsTime, LimiterAssumption DEF LimiterInv, Remembers, Admitted
  <1>3. ASSUME clock' - request[r].at < Window - MaxDelay
        PROVE  \E h \in zset'[c] : h.request = r /\ h.at >= request[r].at - MaxDelay
    <2>1. clock - request[r].at < Window - MaxDelay
      BY <1>2, <1>3
    <2>2. PICK h \in zset[c] : h.request = r /\ h.at >= request[r].at - MaxDelay
      BY <1>1, <2>1 DEF Remembers
    <2>3. h.at \in Int
      BY ClockAssumption DEF LimiterInv, SharedTypeOK, Hit, Time
    <2>4. clock - h.at < Window
      BY <1>2, <2>1, <2>2, <2>3
    <2> QED BY <2>2, <2>4 DEF HitsKept
  <1> QED BY <1>2, <1>3 DEF Remembers

LEMMA HitsStayRemembered ==
  ASSUME LimiterInv, clock' \in Int, clock <= clock', HitsKept, Bystanding
  PROVE  HitsRemembered'
  <1> SUFFICES ASSUME NEW c \in Clients, NEW r \in Requests,
                      r \in Admitted(c, "redis")'
               PROVE  Remembers(c, r)'
    BY DEF HitsRemembered, Admitted, Remembers
  <1>1. request'[r] = request[r] /\ r \in Admitted(c, "redis")
    BY DEF Bystanding, AdmittedByRedis, Admitted
  <1> QED BY <1>1, StaysRemembered

-----------------------------------------------------------------------------
(* An admission out of Redis.  It counted the set, and the set has the hit *)
(* of everybody it may not exceed the limit with.                          *)
LEMMA AllowRedisKeeps ==
  ASSUME LimiterInv, NEW r \in Requests, AllowRedis(r)
  PROVE  LimiterInv'
  <1>1. /\ request[r].step = "redis" /\ request[r] \in Asked
        /\ request[r].at <= clock /\ clock <= request[r].at + MaxDelay
        /\ request[r].at \in Int /\ clock \in Int
    BY RequestShape, ReadingIsTime DEF AllowRedis, LimiterInv, ReadingsRecent
  <1>2. PICK c \in Clients, i \in Instances, a \in Time :
          request[r].client = c /\ request[r].instance = i /\ request[r].at = a
    BY <1>1 DEF Asked
  <1>3. clock' = clock /\ zset' = WithHit(r, c, a)
    BY <1>2 DEF AllowRedis
  <1>4. PICK ok \in BOOLEAN :
          /\ ok => Cardinality(zset'[c]) <= Limit
          /\ request' = [request EXCEPT ![r] =
               [step |-> IF ok THEN "admitted" ELSE "refused",
                instance |-> i, client |-> c, by |-> "redis", at |-> clock]]
    BY <1>2 DEF AllowRedis, Decide, Counted
  <1>5. /\ request'[r] = [step |-> IF ok THEN "admitted" ELSE "refused",
                          instance |-> i, client |-> c, by |-> "redis", at |-> clock]
        /\ \A q \in Requests \ {r} : request'[q] = request[q]
    BY <1>4 DEF LimiterInv, SharedTypeOK
  <1>6. /\ zset' \in [Clients -> SUBSET Hit]
        /\ \A d \in Clients : IsFiniteSet(zset'[d])
        /\ [request |-> r, at |-> a] \in zset'[c]
        /\ HitsKept
    BY <1>1, <1>2, <1>3, PipelineHits DEF HitsKept
  <1>7. SharedTypeOK'
    BY <1>3, <1>4, <1>6 DEF LimiterInv, SharedTypeOK, Decided
  <1>8. ReadingsRecent'
    BY <1>3, <1>5 DEF LimiterInv, ReadingsRecent
  <1>9. CASE ~ok
    <2>1. Bystanding
      BY <1>1, <1>5, <1>9 DEF Bystanding, AdmittedByRedis
    <2>2. HitsRemembered' /\ RedisWithinLimit'
      BY <1>1, <1>3, <1>6, <2>1, HitsStayRemembered, NobodyAdmitted DEF LimiterInv
    <2> QED BY <1>6, <1>7, <1>8, <2>2 DEF LimiterInv
  <1>10. CASE ok
    <2>1. ASSUME NEW d \in Clients, NEW q \in Requests, q \in Admitted(d, "redis")'
          PROVE  Remembers(d, q)'
      <3>1. CASE q = r
        <4>1. d = c /\ request'[q].at = clock
          BY <1>5, <2>1, <3>1 DEF Admitted
        <4>2. a >= clock - MaxDelay
          BY <1>1, <1>2, LimiterAssumption
        <4> QED BY <1>1, <1>3, <1>6, <3>1, <4>1, <4>2 DEF Remembers
      <3>2. CASE q # r
        BY <1>1, <1>3, <1>5, <1>6, <2>1, <3>2, StaysRemembered DEF Admitted
      <3> QED BY <3>1, <3>2
    <2>2. HitsRemembered'
      BY <2>1 DEF HitsRemembered, Remembers, Admitted
    <2>3. ASSUME NEW d \in Clients, NEW now \in Time
          PROVE  Cardinality(Between(Admitted(d, "redis"),
                                     now - Window + MaxDelay + 1, now)') <= Limit
      <3> DEFINE first  == now - Window + MaxDelay + 1
                 before == Between(Admitted(d, "redis"), first, now)
                 after  == Between(Admitted(d, "redis"), first, now)'
      <3>1. now \in Int /\ Window \in Int /\ MaxDelay \in Int /\ first \in Int
        BY ClockAssumption, LimiterAssumption DEF Time
      <3>2. CASE d # c \/ clock \notin first .. now
        <4>1. after = before
          BY <1>1, <1>5, <1>10, <3>2 DEF Between, Admitted
        <4> QED BY <4>1 DEF LimiterInv, RedisWithinLimit
      <3>3. CASE d = c /\ clock \in first .. now
        <4>1. ASSUME NEW q \in after PROVE \E h \in zset'[c] : h.request = q
          <5>1. q \in Requests /\ q \in Admitted(c, "redis")' /\ request'[q].at \in first .. now
            BY <3>3, <4>1 DEF Between, Admitted
          <5>2. Remembers(c, q)'
            BY <2>1, <5>1
          <5>3. clock' - request'[q].at < Window - MaxDelay
            BY <1>1, <1>3, <3>1, <3>3, <5>1
          <5> QED BY <5>2, <5>3 DEF Remembers
        <4>2. Cardinality(after) <= Cardinality(zset'[c])
              /\ Cardinality(after) \in Nat /\ Cardinality(zset'[c]) \in Nat
          BY <1>6, <4>1, OneHitEach
        <4> QED BY <1>4, <1>10, <4>2, LimiterAssumption
      <3> QED BY <3>2, <3>3
    <2>4. RedisWithinLimit'
      BY <2>3 DEF RedisWithinLimit
    <2> QED BY <1>6, <1>7, <1>8, <2>2, <2>4 DEF LimiterInv
  <1> QED BY <1>9, <1>10

(* A decision out of memory leaves the shared set alone.                   *)
LEMMA AllowMemoryKeeps ==
  ASSUME LimiterInv, NEW r \in Requests, NEW i \in Instances, NEW c \in Clients,
         request[r].step \in {"new", "memory"}, AllowMemory(r, i, c)
  PROVE  LimiterInv'
  <1>1. PICK ok \in BOOLEAN :
          request' = [request EXCEPT ![r] =
            [step |-> IF ok THEN "admitted" ELSE "refused",
             instance |-> i, client |-> c, by |-> "memory", at |-> clock]]
    BY DEF AllowMemory, Decide
  <1>2. UNCHANGED <<clock, zset>>
    BY DEF AllowMemory
  <1>3. /\ request'[r] = [step |-> IF ok THEN "admitted" ELSE "refused",
                          instance |-> i, client |-> c, by |-> "memory", at |-> clock]
        /\ \A q \in Requests \ {r} : request'[q] = request[q]
    BY <1>1 DEF LimiterInv, SharedTypeOK
  <1>4. SharedTypeOK'
    BY <1>1, <1>2 DEF LimiterInv, SharedTypeOK, Decided
  <1>5. ReadingsRecent'
    BY <1>2, <1>3 DEF LimiterInv, ReadingsRecent
  <1>6. Bystanding
    BY <1>3 DEF Bystanding, AdmittedByRedis
  <1>7. clock \in Int /\ HitsKept
    BY <1>2, ClockAssumption DEF LimiterInv, SharedTypeOK, Time, HitsKept
  <1>8. HitsRemembered' /\ RedisWithinLimit'
    BY <1>2, <1>6, <1>7, HitsStayRemembered, NobodyAdmitted DEF LimiterInv
  <1> QED BY <1>2, <1>4, <1>5, <1>8 DEF LimiterInv

LEMMA ArriveRedisKeeps ==
  ASSUME LimiterInv, NEW r \in Requests, NEW i \in Instances, NEW c \in Clients,
         ArriveRedis(r, i, c)
  PROVE  LimiterInv'
  <1>1. /\ request[r] = Fresh /\ UNCHANGED <<clock, zset>>
        /\ request' = [request EXCEPT ![r] =
             [step |-> "redis", instance |-> i, client |-> c, at |-> clock]]
    BY DEF ArriveRedis
  <1>2. /\ request'[r] = [step |-> "redis", instance |-> i, client |-> c, at |-> clock]
        /\ \A q \in Requests \ {r} : request'[q] = request[q]
    BY <1>1 DEF LimiterInv, SharedTypeOK
  <1>3. SharedTypeOK'
    BY <1>1 DEF LimiterInv, SharedTypeOK, Asked
  <1>4. clock \in Int /\ HitsKept
    BY <1>1, ClockAssumption DEF LimiterInv, SharedTypeOK, Time, HitsKept
  <1>5. ReadingsRecent'
    BY <1>1, <1>2, <1>4, LimiterAssumption DEF LimiterInv, ReadingsRecent
  <1>6. Bystanding
    BY <1>1, <1>2 DEF Bystanding, AdmittedByRedis, Fresh
  <1>7. HitsRemembered' /\ RedisWithinLimit'
    BY <1>1, <1>4, <1>6, HitsStayRemembered, NobodyAdmitted DEF LimiterInv
  <1> QED BY <1>1, <1>3, <1>5, <1>7 DEF LimiterInv

LEMMA RedisFailsKeeps ==
  ASSUME LimiterInv, NEW r \in Requests, RedisFails(r) PROVE LimiterInv'
  <1>1. request[r].step = "redis" /\ request[r] \in Asked
    BY RequestShape DEF RedisFails, LimiterInv
  <1>2. PICK c \in Clients, a \in Time : request[r].client = c /\ request[r].at = a
    BY <1>1 DEF Asked
  <1>3. /\ UNCHANGED clock /\ zset' \in {zset, WithHit(r, c, a)}
        /\ request' = [request EXCEPT ![r].step = "memory"]
    BY <1>2 DEF RedisFails
  <1>4. /\ request'[r] = [request[r] EXCEPT !.step = "memory"]
        /\ \A q \in Requests \ {r} : request'[q] = request[q]
    BY <1>3 DEF LimiterInv, SharedTypeOK
  <1>5. request'[r] \in Asked /\ request'[r].step = "memory"
    BY <1>1, <1>4 DEF Asked
  <1>6. /\ zset' \in [Clients -> SUBSET Hit] /\ HitsKept
        /\ \A d \in Clients : IsFiniteSet(zset'[d])
    <2>1. CASE zset' = zset
      BY <2>1 DEF LimiterInv, SharedTypeOK, HitsKept
    <2>2. CASE zset' = WithHit(r, c, a)
      BY <1>1, <1>2, <2>2, PipelineHits DEF HitsKept
    <2> QED BY <1>3, <2>1, <2>2
  <1>7. SharedTypeOK'
    BY <1>3, <1>5, <1>6, <1>4 DEF LimiterInv, SharedTypeOK
  <1>8. ReadingsRecent'
    BY <1>3, <1>4, <1>5 DEF LimiterInv, ReadingsRecent
  <1>9. Bystanding
    BY <1>1, <1>4, <1>5 DEF Bystanding, AdmittedByRedis
  <1>10. clock \in Int
    BY ClockAssumption DEF LimiterInv, SharedTypeOK, Time
  <1>11. HitsRemembered' /\ RedisWithinLimit'
    BY <1>3, <1>6, <1>9, <1>10, HitsStayRemembered, NobodyAdmitted DEF LimiterInv
  <1> QED BY <1>6, <1>7, <1>8, <1>11 DEF LimiterInv

LEMMA TickKeeps == ASSUME LimiterInv, Tick PROVE LimiterInv'
  <1>1. /\ clock \in Int /\ clock' = clock + 1 /\ clock' \in Time
        /\ UNCHANGED <<zset, request>>
    BY ClockAssumption DEF Tick, ClockAdvances, LimiterInv, SharedTypeOK, Time
  <1>2. SharedTypeOK'
    BY <1>1 DEF LimiterInv, SharedTypeOK
  <1>3. ASSUME NEW r \in Requests, request[r].step = "redis"
        PROVE  request[r].at <= clock' /\ clock' <= request[r].at + MaxDelay
    <2>1. request[r].at <= clock /\ clock - request[r].at < MaxDelay
      BY <1>3 DEF Tick, LimiterInv, ReadingsRecent
    <2>2. request[r].at \in Int
      BY <1>3, ReadingIsTime DEF LimiterInv
    <2> QED BY <1>1, <2>1, <2>2, LimiterAssumption
  <1>4. ReadingsRecent'
    BY <1>1, <1>3 DEF ReadingsRecent
  <1>5. Bystanding /\ HitsKept
    BY <1>1 DEF Bystanding, HitsKept
  <1>6. HitsRemembered' /\ RedisWithinLimit'
    BY <1>1, <1>5, HitsStayRemembered, NobodyAdmitted DEF LimiterInv
  <1> QED BY <1>1, <1>2, <1>4, <1>6 DEF LimiterInv

LEMMA InitLimiter == Init => LimiterInv
  <1> SUFFICES ASSUME Init PROVE LimiterInv
    OBVIOUS
  <1>1. SharedTypeOK
    BY ClockAssumption DEF Init, SharedTypeOK, Time
  <1>2. \A c \in Clients : IsFiniteSet(zset[c])
    BY FS_EmptySet DEF Init
  <1>3. \A r \in Requests : request[r].step = "new"
    BY DEF Init, Fresh
  <1>4. ReadingsRecent /\ HitsRemembered
    BY <1>3 DEF ReadingsRecent, HitsRemembered, Admitted
  <1>5. \A c \in Clients : Admitted(c, "redis") = {}
    BY <1>3 DEF Admitted
  <1>6. \A c \in Clients : \A first, last : Between(Admitted(c, "redis"), first, last) = {}
    BY <1>5 DEF Between
  <1>7. RedisWithinLimit
    BY <1>6, FS_EmptySet, LimiterAssumption DEF RedisWithinLimit
  <1> QED BY <1>1, <1>2, <1>4, <1>7 DEF LimiterInv

LEMMA NextLimiter == LimiterInv /\ [Next]_vars => LimiterInv'
  <1> SUFFICES ASSUME LimiterInv, [Next]_vars PROVE LimiterInv'
    OBVIOUS
  <1>1. ASSUME NEW r \in Requests, NEW i \in Instances, NEW c \in Clients,
               ArriveMemory(r, i, c) \/ ArriveRedis(r, i, c)
        PROVE  LimiterInv'
    BY <1>1, AllowMemoryKeeps, ArriveRedisKeeps DEF ArriveMemory, Fresh
  <1>2. ASSUME NEW r \in Requests, FallBack(r) PROVE LimiterInv'
    <2>1. request[r].step = "memory" /\ request[r] \in Asked
      BY <1>2, RequestShape DEF FallBack, LimiterInv
    <2>2. PICK i \in Instances, c \in Clients :
            request[r].instance = i /\ request[r].client = c
      BY <2>1 DEF Asked
    <2>3. AllowMemory(r, i, c)
      BY <1>2, <2>2 DEF FallBack
    <2> QED BY <2>1, <2>3, AllowMemoryKeeps
  <1>3. CASE UNCHANGED vars
    <2>1. UNCHANGED <<clock, zset, request>>
      BY <1>3 DEF vars
    <2> QED
      BY <2>1
      DEF LimiterInv, SharedTypeOK, ReadingsRecent, HitsRemembered, RedisWithinLimit,
          Admitted, Between
  <1> QED
    BY <1>1, <1>2, <1>3, AllowRedisKeeps, RedisFailsKeeps, TickKeeps DEF Next

(* What all instances together admit out of Redis stays within the limit   *)
(* in every window, shortened by the time a thread may take, however their *)
(* readings of the clock and their pipelines interleave.                   *)
THEOREM SharedLimitHolds == Spec => []RedisWithinLimit
  <1>1. LimiterInv => RedisWithinLimit
    BY DEF LimiterInv
  <1> QED BY <1>1, InitLimiter, NextLimiter, PTL DEF Spec

-----------------------------------------------------------------------------
(* The window in memory.  `times` has the times of the admissions a window *)
(* stands for, `now` is the clock.                                         *)
Since(times, a) == {r \in DOMAIN times : times[r] >= a}

InOrder(w, now) ==
  /\ \A j, k \in 1 .. Len(w) : j <= k => w[j] <= w[k]
  /\ \A k \in 1 .. Len(w) : w[k] <= now

(* When the first n hits come before a, the others are at least as many    *)
(* as the admissions since a; when the others come from a on, they are at  *)
(* most as many.                                                           *)
NoneForgotten(w, times, now) ==
  \A n \in 0 .. Len(w), a \in Int :
    now - Window <= a /\ (\A k \in 1 .. n : w[k] < a) =>
      Cardinality(Since(times, a)) <= Len(w) - n

NoneInvented(w, times) ==
  \A n \in 0 .. Len(w), a \in Int :
    (\A k \in n + 1 .. Len(w) : w[k] >= a) =>
      Len(w) - n <= Cardinality(Since(times, a))

Tracks(w, times, now) ==
  /\ w \in Seq(Time)
  /\ Len(w) <= Limit
  /\ InOrder(w, now)
  /\ NoneForgotten(w, times, now)
  /\ NoneInvented(w, times)

LEMMA LeastOf ==
  ASSUME NEW S \in SUBSET Nat, S # {}
  PROVE  \E n \in S : \A k \in S : n <= k
  <1>1. PICK n \in S : \A k \in S : ~(<<k, n>> \in OpToRel(<, Nat))
    BY NatLessThanWellFounded, WFMin
  <1>2. \A k \in S : ~(k < n)
    BY <1>1 DEF OpToRel
  <1> QED BY <1>2

LEMMA SinceFinite ==
  ASSUME NEW times, IsFiniteSet(DOMAIN times), NEW a
  PROVE  IsFiniteSet(Since(times, a)) /\ Cardinality(Since(times, a)) \in Nat
  BY FS_Subset, FS_CardinalityType DEF Since

LEMMA TimesAreIntegers ==
  ASSUME NEW w \in Seq(Time)
  PROVE  /\ Len(w) \in Nat
         /\ \A k \in 1 .. Len(w) : w[k] \in Int /\ w[k] \in Time
  BY ClockAssumption DEF Time

LEMMA EmptyTracks ==
  ASSUME NEW times, IsFiniteSet(DOMAIN times), NEW now \in Int,
         \A a \in Int : now - Window <= a => Cardinality(Since(times, a)) <= 0
  PROVE  Tracks(<<>>, times, now)
  <1>1. \A a \in Int : 0 <= Cardinality(Since(times, a))
    BY SinceFinite
  <1> QED BY <1>1, LimiterAssumption DEF Tracks, InOrder, NoneForgotten, NoneInvented

(* A window whose last hit is out of it stands for nothing any more.       *)
LEMMA PrunedTracks ==
  ASSUME NEW w, NEW times, NEW now \in Int, IsFiniteSet(DOMAIN times),
         Tracks(w, times, now), w # <<>>, now - Last(w) > Window
  PROVE  Tracks(<<>>, times, now)
  <1>1. /\ w \in Seq(Time) /\ Len(w) \in Nat \ {0}
        /\ \A k \in 1 .. Len(w) : w[k] \in Int /\ w[k] <= w[Len(w)]
        /\ now - w[Len(w)] > Window
    BY TimesAreIntegers DEF Tracks, InOrder, Last
  <1>2. ASSUME NEW a \in Int, now - Window <= a
        PROVE  Cardinality(Since(times, a)) <= 0
    <2>1. \A k \in 1 .. Len(w) : w[k] < a
      BY <1>1, <1>2, LimiterAssumption
    <2>2. Cardinality(Since(times, a)) <= Len(w) - Len(w)
      BY <1>1, <1>2, <2>1 DEF Tracks, NoneForgotten
    <2> QED BY <1>1, <2>2
  <1> QED BY <1>2, EmptyTracks

(* What popleft leaves is in the window, all of it.                        *)
LEMMA RecentIs ==
  ASSUME NEW windows, NEW c, windows[c] \in Seq(Time)
  PROVE  LET w == windows[c]
             R == RecentHits(windows, c)
         IN \E d \in 0 .. Len(w) :
              /\ R \in Seq(Time) /\ Len(R) = Len(w) - d
              /\ \A k \in 1 .. Len(R) : R[k] = w[d + k]
              /\ \A k \in 1 .. d : ~InWindow(w[k])
              /\ d < Len(w) => InWindow(w[d + 1])
  <1> DEFINE w == windows[c]
             S == {k \in DOMAIN w : InWindow(w[k])} \cup {Len(w) + 1}
             first == Min(S)
  <1>1. Len(w) \in Nat /\ DOMAIN w = 1 .. Len(w)
    OBVIOUS
  <1>2. S \in SUBSET Nat /\ S # {} /\ \A k \in S : k \in 1 .. Len(w) + 1
    BY <1>1
  <1>3. first \in S /\ \A k \in S : first <= k
    <2> HIDE DEF S
    <2>1. \E n \in S : \A k \in S : n <= k
      BY <1>2, LeastOf
    <2> QED BY <2>1 DEF Min
  <1>4. first \in 1 .. Len(w) + 1
    BY <1>2, <1>3
  <1>5. RecentHits(windows, c) = SubSeq(w, first, Len(w))
    BY DEF RecentHits
  <1> DEFINE d == first - 1
  <1> HIDE DEF first
  <1>6. ASSUME NEW k \in 1 .. d PROVE ~InWindow(w[k])
    <2>1. k \in DOMAIN w /\ ~(first <= k)
      BY <1>1, <1>4
    <2> QED BY <1>3, <2>1
  <1>7. ASSUME d < Len(w) PROVE InWindow(w[d + 1])
    <2>1. first # Len(w) + 1 /\ d + 1 = first
      BY <1>1, <1>4, <1>7
    <2> QED BY <1>3, <2>1
  <1>8. /\ SubSeq(w, first, Len(w)) \in Seq(Time)
        /\ Len(SubSeq(w, first, Len(w))) = IF first <= Len(w) THEN Len(w) - first + 1 ELSE 0
        /\ \A k \in 1 .. Len(w) - first + 1 : SubSeq(w, first, Len(w))[k] = w[first + k - 1]
    BY <1>1, <1>4, SubSeqProperties
  <1>9. d \in 0 .. Len(w) /\ first = d + 1
    BY <1>1, <1>4
  <1>10. Len(SubSeq(w, first, Len(w))) = Len(w) - d
    BY <1>1, <1>8, <1>9
  <1>11. \A k \in 1 .. Len(w) - d : SubSeq(w, first, Len(w))[k] = w[d + k]
    BY <1>1, <1>8, <1>9
  <1> QED BY <1>5, <1>6, <1>7, <1>8, <1>9, <1>10, <1>11

LEMMA RecentTracks ==
  ASSUME NEW windows, NEW c, NEW times, IsFiniteSet(DOMAIN times),
         clock \in Int, Tracks(windows[c], times, clock)
  PROVE  /\ Tracks(RecentHits(windows, c), times, clock)
         /\ \A k \in 1 .. Len(RecentHits(windows, c)) :
              RecentHits(windows, c)[k] >= clock - Window
  <1> DEFINE w == windows[c]
             R == RecentHits(windows, c)
  <1>1. /\ w \in Seq(Time) /\ Len(w) \in Nat /\ Len(w) <= Limit
        /\ \A k \in 1 .. Len(w) : w[k] \in Int
        /\ InOrder(w, clock) /\ Window \in Nat /\ Limit \in Nat
    BY TimesAreIntegers, LimiterAssumption DEF Tracks
  <1>2. PICK d \in 0 .. Len(w) :
          /\ R \in Seq(Time) /\ Len(R) = Len(w) - d
          /\ \A k \in 1 .. Len(R) : R[k] = w[d + k]
          /\ \A k \in 1 .. d : ~InWindow(w[k])
          /\ d < Len(w) => InWindow(w[d + 1])
    BY <1>1, RecentIs
  <1> HIDE DEF w, R
  <1>3. \A k \in 1 .. Len(R) : R[k] >= clock - Window
    <2> SUFFICES ASSUME NEW k \in 1 .. Len(R) PROVE R[k] >= clock - Window
      OBVIOUS
    <2>1. d < Len(w) /\ d + 1 \in 1 .. Len(w) /\ d + k \in 1 .. Len(w) /\ d + 1 <= d + k
      BY <1>1, <1>2
    <2>2. clock - w[d + 1] <= Window
      BY <1>2, <2>1 DEF InWindow
    <2>3. w[d + 1] <= w[d + k] /\ R[k] = w[d + k]
      BY <1>1, <1>2, <2>1 DEF InOrder
    <2> QED BY <1>1, <2>1, <2>2, <2>3
  <1>4. InOrder(R, clock)
    <2>1. ASSUME NEW k \in 1 .. Len(R)
          PROVE  d + k \in 1 .. Len(w) /\ R[k] = w[d + k]
      BY <1>1, <1>2
    <2>2. ASSUME NEW j \in 1 .. Len(R), NEW k \in 1 .. Len(R), j <= k
          PROVE  R[j] <= R[k]
      <3>1. d + j <= d + k
        BY <2>2
      <3> QED BY <1>1, <2>1, <3>1 DEF InOrder
    <2>3. \A k \in 1 .. Len(R) : R[k] <= clock
      BY <1>1, <2>1 DEF InOrder
    <2> QED BY <2>2, <2>3 DEF InOrder
  <1>5. NoneForgotten(R, times, clock)
    <2> SUFFICES ASSUME NEW n \in 0 .. Len(R), NEW a \in Int,
                        clock - Window <= a, \A k \in 1 .. n : R[k] < a
                 PROVE  Cardinality(Since(times, a)) <= Len(R) - n
      BY DEF NoneForgotten
    <2>1. ASSUME NEW k \in 1 .. d + n PROVE w[k] < a
      <3>1. CASE k \in 1 .. d
        <4>1. w[k] \in Int
          BY <1>1, <3>1
        <4>2. ~(clock - w[k] <= Window)
          BY <1>2, <3>1 DEF InWindow
        <4> QED BY <1>1, <4>1, <4>2
      <3>2. CASE k \notin 1 .. d
        <4>1. k - d \in 1 .. n /\ k - d \in 1 .. Len(R) /\ d + (k - d) = k
          BY <1>1, <1>2, <3>2
        <4>2. R[k - d] = w[k]
          BY <1>2, <4>1
        <4> QED BY <4>1, <4>2
      <3> QED BY <3>1, <3>2
    <2>2. d + n \in 0 .. Len(w)
      BY <1>1, <1>2
    <2>3. Cardinality(Since(times, a)) <= Len(w) - (d + n)
      BY <2>1, <2>2 DEF Tracks, NoneForgotten, w
    <2> QED BY <1>1, <1>2, <2>3, SinceFinite
  <1>6. NoneInvented(R, times)
    <2> SUFFICES ASSUME NEW n \in 0 .. Len(R), NEW a \in Int,
                        \A k \in n + 1 .. Len(R) : R[k] >= a
                 PROVE  Len(R) - n <= Cardinality(Since(times, a))
      BY DEF NoneInvented
    <2>1. ASSUME NEW k \in d + n + 1 .. Len(w) PROVE w[k] >= a
      <3>1. k - d \in n + 1 .. Len(R) /\ k - d \in 1 .. Len(R) /\ d + (k - d) = k
        BY <1>1, <1>2
      <3>2. R[k - d] = w[k]
        BY <1>2, <3>1
      <3> QED BY <3>1, <3>2
    <2>2. d + n \in 0 .. Len(w)
      BY <1>1, <1>2
    <2>3. Len(w) - (d + n) <= Cardinality(Since(times, a))
      BY <2>1, <2>2 DEF Tracks, NoneInvented, w
    <2> QED BY <1>1, <1>2, <2>3, SinceFinite
  <1>7. Len(R) <= Limit
    BY <1>1, <1>2
  <1> QED BY <1>2, <1>3, <1>4, <1>5, <1>6, <1>7 DEF Tracks, R

(* One more admission, now.                                                *)
LEMMA AppendTracks ==
  ASSUME NEW w, NEW times, NEW now \in Time, IsFiniteSet(DOMAIN times),
         Tracks(w, times, now), Len(w) < Limit,
         NEW r, r \notin DOMAIN times,
         NEW later, DOMAIN later = DOMAIN times \cup {r}, later[r] = now,
         \A q \in DOMAIN times : later[q] = times[q] /\ times[q] <= now /\ times[q] \in Int
  PROVE  Tracks(Append(w, now), later, now)
  <1> DEFINE v == Append(w, now)
  <1>1. /\ w \in Seq(Time) /\ Len(w) \in Nat
        /\ \A k \in 1 .. Len(w) : w[k] \in Int
        /\ InOrder(w, now) /\ now \in Int /\ Limit \in Nat /\ Window \in Nat
    BY TimesAreIntegers, ClockAssumption, LimiterAssumption DEF Tracks, Time
  <1>2. /\ v \in Seq(Time) /\ Len(v) = Len(w) + 1
        /\ \A k \in 1 .. Len(w) : v[k] = w[k]
        /\ v[Len(w) + 1] = now
    BY <1>1
  <1> HIDE DEF v
  <1>3. Len(v) <= Limit
    BY <1>1, <1>2
  <1>4. InOrder(v, now)
    BY <1>1, <1>2 DEF InOrder
  <1>5. ASSUME NEW a \in Int
        PROVE  Since(later, a) = Since(times, a) \cup (IF now >= a THEN {r} ELSE {})
    BY DEF Since
  <1>6. ASSUME NEW a \in Int, now >= a
        PROVE  /\ Cardinality(Since(later, a)) = Cardinality(Since(times, a)) + 1
               /\ Cardinality(Since(times, a)) \in Nat
    <2>1. Since(later, a) = Since(times, a) \cup {r} /\ r \notin Since(times, a)
      BY <1>5, <1>6 DEF Since
    <2> QED BY <2>1, SinceFinite, FS_AddElement
  <1>7. NoneForgotten(v, later, now)
    <2> SUFFICES ASSUME NEW n \in 0 .. Len(v), NEW a \in Int,
                        now - Window <= a, \A k \in 1 .. n : v[k] < a
                 PROVE  Cardinality(Since(later, a)) <= Len(v) - n
      BY DEF NoneForgotten
    <2>1. CASE now >= a
      <3>1. n \in 0 .. Len(w)
        BY <1>1, <1>2, <2>1
      <3>2. Cardinality(Since(times, a)) <= Len(w) - n
        BY <1>1, <1>2, <3>1 DEF Tracks, NoneForgotten
      <3> QED BY <1>1, <1>2, <1>6, <2>1, <3>1, <3>2
    <2>2. CASE ~(now >= a)
      <3>1. Since(later, a) = {}
        BY <1>1, <1>5, <2>2 DEF Since
      <3>2. Cardinality(Since(later, a)) = 0
        BY <3>1, FS_EmptySet
      <3> QED BY <1>1, <1>2, <3>2
    <2> QED BY <2>1, <2>2
  <1>8. NoneInvented(v, later)
    <2> SUFFICES ASSUME NEW n \in 0 .. Len(v), NEW a \in Int,
                        \A k \in n + 1 .. Len(v) : v[k] >= a
                 PROVE  Len(v) - n <= Cardinality(Since(later, a))
      BY DEF NoneInvented
    <2>1. CASE n \in 0 .. Len(w)
      <3>1. now >= a
        BY <1>1, <1>2, <2>1
      <3>2. Len(w) - n <= Cardinality(Since(times, a))
        BY <1>1, <1>2, <2>1 DEF Tracks, NoneInvented
      <3> QED BY <1>1, <1>2, <1>6, <2>1, <3>1, <3>2
    <2>2. CASE n \notin 0 .. Len(w)
      <3>1. Len(v) - n = 0
        BY <1>1, <1>2, <2>2
      <3>2. IsFiniteSet(DOMAIN later)
        BY FS_AddElement
      <3> QED BY <3>1, <3>2, SinceFinite
    <2> QED BY <2>1, <2>2
  <1> QED BY <1>2, <1>3, <1>4, <1>7, <1>8 DEF Tracks, v

LEMMA LaterTracks ==
  ASSUME NEW w, NEW times, NEW now \in Int, Tracks(w, times, now),
         NEW later \in Int, now <= later
  PROVE  Tracks(w, times, later)
  <1>1. \A k \in 1 .. Len(w) : w[k] \in Int
    BY TimesAreIntegers DEF Tracks
  <1>2. InOrder(w, later)
    BY <1>1 DEF Tracks, InOrder
  <1>3. \A a \in Int : later - Window <= a => now - Window <= a
    BY LimiterAssumption
  <1>4. NoneForgotten(w, times, later)
    BY <1>3 DEF Tracks, NoneForgotten
  <1> QED BY <1>2, <1>4 DEF Tracks

-----------------------------------------------------------------------------
(* The invariant of the whole limiter.                                     *)
Own(i, c) == {r \in Admitted(c, "memory") : request[r].instance = i}

Times(i, c) == [r \in Own(i, c) |-> request[r].at]

NobodyAhead == \A r \in Requests : request[r] # Fresh => request[r].at <= clock

WindowsTrack ==
  \A i \in Instances, c \in Clients : Tracks(hits[i][c], Times(i, c), clock)

(* Each hit in the shared set is one request's, who came no earlier.       *)
HitsAreOwn ==
  \A c \in Clients : \A h \in zset[c] :
    /\ request[h.request].step \notin {"new", "redis"}
    /\ request[h.request].client = c
    /\ request[h.request].at >= h.at
    /\ \A g \in zset[c] : g.request = h.request => g = h

MemoryInv ==
  /\ LimiterInv
  /\ TypeOK
  /\ NobodyAhead
  /\ WindowsTrack
  /\ HitsAreOwn
  /\ MemoryWithinLimit
  /\ RefusalsAreOwn

LEMMA OwnFacts ==
  ASSUME MemoryInv, NEW i \in Instances, NEW c \in Clients
  PROVE  /\ DOMAIN Times(i, c) = Own(i, c) /\ Own(i, c) \subseteq Requests
         /\ IsFiniteSet(Own(i, c))
         /\ clock \in Int /\ clock \in Time
         /\ \A r \in Own(i, c) :
              /\ Times(i, c)[r] = request[r].at
              /\ request[r].at \in Int /\ request[r].at <= clock
              /\ request[r].step = "admitted"
  <1>1. Own(i, c) \subseteq Requests /\ \A r \in Own(i, c) : request[r].step = "admitted"
    BY DEF Own, Admitted
  <1>2. IsFiniteSet(Own(i, c))
    BY <1>1, LimiterAssumption, FS_Subset
  <1>3. clock \in Int /\ clock \in Time
    BY ClockAssumption DEF MemoryInv, TypeOK, Time
  <1>4. ASSUME NEW r \in Own(i, c) PROVE request[r].at \in Int /\ request[r].at <= clock
    BY <1>1, ReadingIsTime DEF MemoryInv, LimiterInv, NobodyAhead, Fresh
  <1> QED BY <1>1, <1>2, <1>3, <1>4 DEF Times

(* Who asked and is not earlier than a refusal allows.                     *)
Behind(r) ==
  {q \in Requests \ {r} :
     /\ request[q] # Fresh
     /\ request[q].client = request[r].client
     /\ request[q].at >= request[r].at - Window - MaxDelay}

(* A step at one request leaves the others, and takes it only forward.     *)
StepAt(r) ==
  /\ \A q \in Requests \ {r} : request'[q] = request[q]
  /\ request[r].step \notin {"admitted", "refused"}
  /\ request[r] # Fresh =>
       /\ request'[r] # Fresh
       /\ request'[r].client = request[r].client
       /\ request'[r].at \in Int /\ request[r].at \in Int
       /\ request'[r].at >= request[r].at

LEMMA RefusalsStayOwn ==
  ASSUME MemoryInv, NEW r \in Requests, StepAt(r),
         request'[r].step = "refused" => Limit <= Cardinality(Behind(r)')
  PROVE  RefusalsAreOwn'
  <1> SUFFICES ASSUME NEW q \in Requests, request'[q].step = "refused"
               PROVE  Cardinality(Behind(q)') >= Limit
    BY DEF RefusalsAreOwn, Behind
  <1>1. Cardinality(Behind(q)') \in Nat /\ IsFiniteSet(Behind(q)') /\ Limit \in Nat
    BY LimiterAssumption, FS_Subset, FS_CardinalityType DEF Behind
  <1>2. CASE q = r
    BY <1>1, <1>2
  <1>3. CASE q # r
    <2>1. request'[q] = request[q] /\ request[q].step = "refused"
      BY <1>3 DEF StepAt
    <2>2. request[q].at \in Int /\ Window \in Int /\ MaxDelay \in Int
      BY <2>1, LimiterAssumption, ClockAssumption
      DEF MemoryInv, TypeOK, Fresh, Asked, Decided, Time
    <2>3. ASSUME NEW p \in Behind(q) PROVE p \in Behind(q)'
      <3>1. CASE p = r
        BY <2>1, <2>2, <3>1 DEF Behind, StepAt
      <3>2. CASE p # r
        BY <2>1, <3>2 DEF Behind, StepAt
      <3> QED BY <3>1, <3>2
    <2>4. Cardinality(Behind(q)) <= Cardinality(Behind(q)')
          /\ Cardinality(Behind(q)) \in Nat
      BY <1>1, <2>3, FS_Subset, FS_CardinalityType
    <2>5. Cardinality(Behind(q)) >= Limit
      BY <2>1 DEF MemoryInv, RefusalsAreOwn, Behind
    <2> QED BY <1>1, <2>4, <2>5
  <1> QED BY <1>2, <1>3

(* A step that admits nobody out of memory.                                *)
NotOutOfMemory(q) == ~(q.step = "admitted" /\ q.by = "memory")

LEMMA WindowsStay ==
  ASSUME MemoryInv, NEW r \in Requests, StepAt(r), NotOutOfMemory(request'[r]),
         hits' = hits, clock' = clock
  PROVE  WindowsTrack' /\ MemoryWithinLimit'
  <1>1. ASSUME NEW i \in Instances, NEW c \in Clients
        PROVE  /\ Own(i, c)' = Own(i, c)
               /\ \A q \in Own(i, c) : request'[q] = request[q]
    BY DEF Own, Admitted, StepAt, NotOutOfMemory
  <1>2. ASSUME NEW i \in Instances, NEW c \in Clients
        PROVE  Times(i, c)' = Times(i, c)
    BY <1>1 DEF Times
  <1>3. WindowsTrack'
    BY <1>2 DEF MemoryInv, WindowsTrack
  <1>4. ASSUME NEW i \in Instances, NEW c \in Clients, NEW first, NEW last
        PROVE  Between(Own(i, c), first, last)' = Between(Own(i, c), first, last)
    BY <1>1 DEF Between
  <1>5. ASSUME NEW i \in Instances, NEW c \in Clients, NEW now \in Time
        PROVE  Cardinality(Between(Own(i, c), now - Window, now)') <= Limit
    <2>1. Cardinality(Between(Own(i, c), now - Window, now)) <= Limit
      BY DEF MemoryInv, MemoryWithinLimit, Own
    <2> QED BY <1>4, <2>1
  <1>6. MemoryWithinLimit'
    BY <1>5 DEF MemoryWithinLimit, Own
  <1> QED BY <1>3, <1>6

-----------------------------------------------------------------------------
(* The windows of an instance after pruning, and the hits a decision sees. *)
Kept(i, P) == [d \in Clients |-> IF d \in P THEN <<>> ELSE hits[i][d]]

LEMMA DecisionTracks ==
  ASSUME MemoryInv, NEW i \in Instances, NEW P \in Prunings(i), NEW c \in Clients
  PROVE  LET recent == RecentHits(Kept(i, P), c) IN
           /\ \A d \in Clients : Tracks(Kept(i, P)[d], Times(i, d), clock)
           /\ Tracks(recent, Times(i, c), clock)
           /\ \A k \in 1 .. Len(recent) : recent[k] >= clock - Window
           /\ Len(recent) = Cardinality(Since(Times(i, c), clock - Window))
  <1> DEFINE recent == RecentHits(Kept(i, P), c)
             since  == Since(Times(i, c), clock - Window)
  <1> HIDE DEF recent
  <1>1. clock \in Int /\ Window \in Nat
    BY OwnFacts, LimiterAssumption
  <1>2. ASSUME NEW d \in Clients PROVE Tracks(Kept(i, P)[d], Times(i, d), clock)
    <2>1. Tracks(hits[i][d], Times(i, d), clock)
      BY DEF MemoryInv, WindowsTrack
    <2>2. CASE d \in P
      <3>1. hits[i][d] # <<>> /\ clock - Last(hits[i][d]) > Window
        BY <2>2 DEF Prunings, Idle
      <3>2. Tracks(<<>>, Times(i, d), clock)
        BY <1>1, <2>1, <3>1, OwnFacts, PrunedTracks
      <3> QED BY <2>2, <3>2 DEF Kept
    <2>3. CASE d \notin P
      BY <2>1, <2>3 DEF Kept
    <2> QED BY <2>2, <2>3
  <1>3. /\ Tracks(recent, Times(i, c), clock)
        /\ \A k \in 1 .. Len(recent) : recent[k] >= clock - Window
    BY <1>1, <1>2, OwnFacts, RecentTracks DEF recent
  <1>4. Len(recent) \in Nat /\ 0 \in 0 .. Len(recent) /\ clock - Window \in Int
    BY <1>1, <1>3, TimesAreIntegers DEF Tracks
  <1>5. Cardinality(since) <= Len(recent) - 0
    BY <1>1, <1>3, <1>4 DEF Tracks, NoneForgotten
  <1>6. Len(recent) - 0 <= Cardinality(since)
    BY <1>3, <1>4 DEF Tracks, NoneInvented
  <1>7. Cardinality(since) \in Nat
    BY OwnFacts, SinceFinite
  <1>8. Len(recent) = Cardinality(since)
    BY <1>4, <1>5, <1>6, <1>7
  <1> QED BY <1>2, <1>3, <1>8 DEF recent

(* A decision out of memory.                                               *)
LEMMA AllowMemoryTracks ==
  ASSUME MemoryInv, NEW r \in Requests, NEW i \in Instances, NEW c \in Clients,
         request[r].step \in {"new", "memory"}, AllowMemory(r, i, c),
         request[r] # Fresh => request[r].client = c
  PROVE  MemoryInv'
  <1>1. LimiterInv' /\ UNCHANGED <<clock, connected, zset, faults>>
    <2>1. LimiterInv'
      BY AllowMemoryKeeps DEF MemoryInv
    <2> QED BY <2>1 DEF AllowMemory
  <1>2. PICK P \in Prunings(i) :
          LET kept   == [d \in Clients |-> IF d \in P THEN <<>> ELSE hits[i][d]]
              recent == RecentHits(kept, c)
              ok     == Len(recent) < Limit
          IN /\ Decide(r, i, c, "memory", ok)
             /\ hits' = [hits EXCEPT ![i] =
                           [kept EXCEPT ![c] =
                              IF ok THEN Append(recent, clock) ELSE recent]]
    BY DEF AllowMemory
  <1> DEFINE kept   == [d \in Clients |-> IF d \in P THEN <<>> ELSE hits[i][d]]
             recent == RecentHits(kept, c)
             ok     == Len(recent) < Limit
             window == IF ok THEN Append(recent, clock) ELSE recent
             asked  == [step |-> IF ok THEN "admitted" ELSE "refused",
                        instance |-> i, client |-> c, by |-> "memory", at |-> clock]
  <1>3. request' = [request EXCEPT ![r] = asked]
    BY <1>2 DEF Decide
  <1>4. hits' = [hits EXCEPT ![i] = [kept EXCEPT ![c] = window]]
    BY <1>2
  <1> HIDE DEF kept, recent
  <1>5. clock \in Int /\ clock \in Time /\ clock' = clock /\ Limit \in Nat /\ Window \in Nat
    BY <1>1, OwnFacts, LimiterAssumption
  <1>6. asked \in Decided
    BY <1>5 DEF Decided
  <1>7. request'[r] = asked /\ \A q \in Requests \ {r} : request'[q] = request[q]
    BY <1>3 DEF MemoryInv, TypeOK
  <1>8. request' \in [Requests -> {Fresh} \cup Asked \cup Decided]
    BY <1>3, <1>6 DEF MemoryInv, TypeOK
  <1>9. StepAt(r)
    <2>1. request[r] # Fresh => request[r].step = "memory"
      BY DEF MemoryInv, TypeOK, Asked, Decided
    <2>2. request[r] # Fresh => request[r].at \in Int /\ request[r].at <= clock
      BY <2>1, ReadingIsTime DEF MemoryInv, LimiterInv, NobodyAhead
    <2>3. asked # Fresh
      BY DEF Fresh
    <2> QED BY <1>5, <1>7, <2>2, <2>3 DEF StepAt
  <1>10. \A d \in Clients : Tracks(kept[d], Times(i, d), clock)
    BY DecisionTracks DEF kept, Kept
  <1>11. /\ Tracks(recent, Times(i, c), clock)
         /\ \A k \in 1 .. Len(recent) : recent[k] >= clock - Window
    BY DecisionTracks DEF recent, kept, Kept
  <1>12. recent \in Seq(Time) /\ Len(recent) \in Nat /\ Len(recent) <= Limit
    BY <1>11, TimesAreIntegers DEF Tracks
  (* After it. *)
  <1>13. ASSUME NEW j \in Instances, NEW d \in Clients
         PROVE  /\ j # i \/ d # c \/ ~ok =>
                     /\ Own(j, d)' = Own(j, d)
                     /\ Times(j, d)' = Times(j, d)
                /\ \A q \in Own(j, d) : request'[q] = request[q] /\ q # r
    <2>1. r \notin Own(j, d)
      BY DEF Own, Admitted
    <2>2. \A q \in Own(j, d) : request'[q] = request[q] /\ q # r
      BY <1>7, <2>1 DEF Own, Admitted
    <2>3. ASSUME j # i \/ d # c \/ ~ok PROVE Own(j, d)' = Own(j, d)
      BY <1>7, <2>1, <2>3 DEF Own, Admitted
    <2> QED BY <2>2, <2>3 DEF Times
  <1>14. ok => Own(i, c)' = Own(i, c) \cup {r}
    BY <1>7, <1>13 DEF Own, Admitted
  <1>15. Tracks(window, Times(i, c)', clock)
    <2>1. CASE ok
      <3>1. Times(i, c)' = [q \in Own(i, c) \cup {r} |-> request'[q].at]
        BY <1>14, <2>1 DEF Times
      <3>2. r \notin DOMAIN Times(i, c)
        BY <1>13, OwnFacts
      <3>3. Times(i, c)'[r] = clock /\ DOMAIN Times(i, c)' = DOMAIN Times(i, c) \cup {r}
        BY <1>7, <3>1, OwnFacts
      <3>4. \A q \in DOMAIN Times(i, c) :
              /\ Times(i, c)'[q] = Times(i, c)[q]
              /\ Times(i, c)[q] <= clock /\ Times(i, c)[q] \in Int
        BY <1>13, <3>1, OwnFacts
      <3>5. IsFiniteSet(DOMAIN Times(i, c))
        BY OwnFacts
      <3>6. Tracks(Append(recent, clock), Times(i, c)', clock)
        BY <1>5, <1>11, <2>1, <3>2, <3>3, <3>4, <3>5, AppendTracks
      <3> QED BY <2>1, <3>6
    <2>2. CASE ~ok
      BY <1>11, <1>13, <2>2
    <2> QED BY <2>1, <2>2
  <1> HIDE DEF window, ok
  <1>16. ASSUME NEW j \in Instances, NEW d \in Clients
         PROVE  hits'[j][d] = IF j # i THEN hits[j][d]
                              ELSE IF d = c THEN window ELSE kept[d]
    BY <1>4 DEF MemoryInv, TypeOK, kept
  <1>17. ASSUME NEW j \in Instances, NEW d \in Clients
         PROVE  Tracks(hits'[j][d], Times(j, d)', clock)
    <2>1. CASE j = i /\ d = c
      BY <1>15, <1>16, <2>1
    <2>2. CASE j = i /\ d # c
      BY <1>10, <1>13, <1>16, <2>2
    <2>3. CASE j # i
      BY <1>13, <1>16, <2>3 DEF MemoryInv, WindowsTrack
    <2> QED BY <2>1, <2>2, <2>3
  <1>18. WindowsTrack'
    BY <1>5, <1>17 DEF WindowsTrack
  <1>19. TypeOK'
    <2>1. \A j \in Instances, d \in Clients : hits'[j][d] \in Seq(Time)
      BY <1>17 DEF Tracks
    <2>2. hits' \in [Instances -> [Clients -> Seq(Time)]]
      BY <1>4, <2>1 DEF MemoryInv, TypeOK, kept
    <2> QED BY <1>1, <1>8, <2>2 DEF MemoryInv, TypeOK
  <1>20. NobodyAhead'
    BY <1>5, <1>7 DEF MemoryInv, NobodyAhead
  <1>21. HitsAreOwn'
    <2> SUFFICES ASSUME NEW d \in Clients, NEW h \in zset[d]
                 PROVE  /\ request'[h.request].step \notin {"new", "redis"}
                        /\ request'[h.request].client = d
                        /\ request'[h.request].at >= h.at
      BY <1>1 DEF MemoryInv, HitsAreOwn
    <2>1. /\ request[h.request].step \notin {"new", "redis"}
          /\ request[h.request].client = d
          /\ request[h.request].at >= h.at
          /\ h.request \in Requests /\ h.at \in Int
      BY ClockAssumption DEF MemoryInv, HitsAreOwn, TypeOK, Hit, Time
    <2>2. CASE h.request = r
      <3>1. request[r] # Fresh /\ request[r].client = c
        BY <2>1, <2>2 DEF Fresh
      <3>2. request[r].at <= request'[r].at /\ request[r].at \in Int /\ request'[r].at \in Int
        BY <1>9, <3>1 DEF StepAt
      <3> QED BY <1>7, <2>1, <2>2, <3>1, <3>2
    <2>3. CASE h.request # r
      BY <1>7, <2>1, <2>3
    <2> QED BY <2>2, <2>3
  <1>22. MemoryWithinLimit'
    <2> SUFFICES ASSUME NEW j \in Instances, NEW d \in Clients, NEW now \in Time
                 PROVE  Cardinality(Between(Own(j, d), now - Window, now)') <= Limit
      BY DEF MemoryWithinLimit, Own
    <2> DEFINE before == Between(Own(j, d), now - Window, now)
               after  == Between(Own(j, d), now - Window, now)'
    <2>1. now \in Int /\ Cardinality(before) <= Limit
      BY ClockAssumption DEF MemoryInv, MemoryWithinLimit, Own, Time
    <2>2. CASE j # i \/ d # c \/ ~ok \/ now < clock
      <3>1. after = before
        <4>1. CASE j # i \/ d # c \/ ~ok
          BY <1>13, <4>1 DEF Between
        <4>2. CASE j = i /\ d = c /\ ok /\ now < clock
          <5>1. request'[r].at \notin now - Window .. now
            BY <1>5, <1>7, <2>1, <4>2
          <5> QED BY <1>13, <1>14, <4>2, <5>1 DEF Between
        <4> QED BY <2>2, <4>1, <4>2
      <3> QED BY <2>1, <3>1
    <2>3. CASE j = i /\ d = c /\ ok /\ ~(now < clock)
      <3> DEFINE since == Since(Times(i, c)', clock - Window)
      <3>1. after \subseteq since
        <4> SUFFICES ASSUME NEW q \in after PROVE q \in since
          OBVIOUS
        <4>1. q \in Own(i, c)' /\ request'[q].at \in now - Window .. now
          BY <2>3 DEF Between
        <4>2. DOMAIN Times(i, c)' = Own(i, c)' /\ Times(i, c)'[q] = request'[q].at
          BY <4>1 DEF Times
        <4>3. request'[q].at >= clock - Window
          BY <1>5, <2>1, <2>3, <4>1
        <4> QED BY <4>1, <4>2, <4>3 DEF Since
      <3>2. IsFiniteSet(DOMAIN Times(i, c)')
        <4>1. DOMAIN Times(i, c)' = Own(i, c)'
          BY DEF Times
        <4> QED BY <4>1, LimiterAssumption, FS_Subset DEF Own, Admitted
      <3>3. IsFiniteSet(since) /\ Cardinality(since) \in Nat
        BY <3>2, SinceFinite
      <3>4. Cardinality(after) <= Cardinality(since) /\ Cardinality(after) \in Nat
        BY <3>1, <3>3, FS_Subset, FS_CardinalityType
      <3>5. Len(window) \in Nat /\ Len(window) <= Limit
        BY <1>15, TimesAreIntegers DEF Tracks
      <3>6. Cardinality(since) <= Len(window) - 0
        <4>1. clock - Window \in Int /\ 0 \in 0 .. Len(window)
          BY <1>5, <3>5
        <4> QED BY <1>5, <1>15, <4>1 DEF Tracks, NoneForgotten
      <3> QED BY <1>5, <3>3, <3>4, <3>5, <3>6
    <2> QED BY <2>2, <2>3
  <1>23. RefusalsAreOwn'
    <2>1. ASSUME request'[r].step = "refused" PROVE Limit <= Cardinality(Behind(r)')
      <3>1. ~ok /\ ~(Len(recent) < Limit)
        BY <1>7, <2>1 DEF ok
      <3> DEFINE since == Since(Times(i, c), clock - Window)
      <3>2. Len(recent) - 0 <= Cardinality(since)
        <4>1. clock - Window \in Int /\ 0 \in 0 .. Len(recent)
          BY <1>5, <1>12
        <4>2. \A k \in 0 + 1 .. Len(recent) : recent[k] >= clock - Window
          BY <1>11
        <4> QED BY <1>11, <4>1, <4>2 DEF Tracks, NoneInvented
      <3>3. IsFiniteSet(since) /\ Cardinality(since) \in Nat
        BY OwnFacts, SinceFinite
      <3>4. since \subseteq Behind(r)'
        <4> SUFFICES ASSUME NEW q \in since PROVE q \in Behind(r)'
          OBVIOUS
        <4>1. q \in Own(i, c) /\ Times(i, c)[q] >= clock - Window
          BY OwnFacts DEF Since
        <4>2. /\ q \in Requests /\ q # r /\ request'[q] = request[q]
              /\ request[q].client = c /\ request[q].step = "admitted"
              /\ request[q].at >= clock - Window /\ request[q].at \in Int
          <5>1. /\ Times(i, c)[q] = request[q].at /\ request[q].at \in Int
                /\ request[q].step = "admitted" /\ q \in Requests
            BY <4>1, OwnFacts
          <5>2. request[q].client = c
            BY <4>1 DEF Own, Admitted
          <5> QED BY <1>13, <4>1, <5>1, <5>2
        <4>3. request'[r].client = c /\ request'[r].at = clock
          BY <1>7
        <4>4. request[q].at >= clock - Window - MaxDelay
          BY <1>5, <4>2, LimiterAssumption
        <4> QED BY <4>2, <4>3, <4>4 DEF Behind, Fresh
      <3>5. IsFiniteSet(Behind(r)')
        BY LimiterAssumption, FS_Subset DEF Behind
      <3>6. Cardinality(since) <= Cardinality(Behind(r)')
            /\ Cardinality(Behind(r)') \in Nat
        BY <3>4, <3>5, FS_Subset, FS_CardinalityType
      <3> QED BY <1>5, <1>12, <3>1, <3>2, <3>3, <3>6
    <2> QED BY <1>9, <2>1, RefusalsStayOwn
  <1> QED BY <1>1, <1>18, <1>19, <1>20, <1>21, <1>22, <1>23 DEF MemoryInv

-----------------------------------------------------------------------------
(* The other steps.                                                        *)
LEMMA ArriveRedisTracks ==
  ASSUME MemoryInv, NEW r \in Requests, NEW i \in Instances, NEW c \in Clients,
         ArriveRedis(r, i, c)
  PROVE  MemoryInv'
  <1> DEFINE asked == [step |-> "redis", instance |-> i, client |-> c, at |-> clock]
  <1>1. /\ request[r] = Fresh /\ UNCHANGED <<clock, connected, hits, zset, faults>>
        /\ request' = [request EXCEPT ![r] = asked]
    BY DEF ArriveRedis
  <1>2. LimiterInv'
    BY ArriveRedisKeeps DEF MemoryInv
  <1>3. request'[r] = asked /\ \A q \in Requests \ {r} : request'[q] = request[q]
    BY <1>1 DEF MemoryInv, TypeOK
  <1>4. asked \in Asked
    BY OwnFacts DEF Asked
  <1>5. TypeOK'
    BY <1>1, <1>4 DEF MemoryInv, TypeOK
  <1>6. StepAt(r) /\ NotOutOfMemory(request'[r])
    BY <1>1, <1>3 DEF StepAt, Fresh, NotOutOfMemory
  <1>7. WindowsTrack' /\ MemoryWithinLimit'
    BY <1>1, <1>6, WindowsStay
  <1>8. RefusalsAreOwn'
    BY <1>3, <1>6, RefusalsStayOwn
  <1>9. NobodyAhead'
    BY <1>1, <1>3, OwnFacts DEF MemoryInv, NobodyAhead
  <1>10. HitsAreOwn'
    BY <1>1, <1>3 DEF MemoryInv, HitsAreOwn, Fresh
  <1> QED BY <1>2, <1>5, <1>7, <1>8, <1>9, <1>10 DEF MemoryInv

(* A hit is added for a request that had none.                             *)
LEMMA WithHitOwn ==
  ASSUME MemoryInv, NEW r \in Requests, StepAt(r),
         request[r].step = "redis", request'[r].step \notin {"new", "redis"},
         NEW c \in Clients, request[r].client = c,
         zset' \in {zset, WithHit(r, c, request[r].at)}
  PROVE  HitsAreOwn'
  <1> DEFINE new == [request |-> r, at |-> request[r].at]
  <1>1. \A d \in Clients : \A h \in zset'[d] : h \in zset[d] \/ (d = c /\ h = new)
    <2>1. CASE zset' = zset
      <3> HIDE DEF new
      <3> QED BY <2>1
    <2>2. CASE zset' = WithHit(r, c, request[r].at)
      <3> SUFFICES ASSUME NEW d \in Clients, NEW h \in zset'[d]
                   PROVE  h \in zset[d] \/ (d = c /\ h = new)
        OBVIOUS
      <3>1. DOMAIN zset = Clients
        BY DEF MemoryInv, TypeOK
      <3>2. zset'[c] = {g \in zset[c] : request[r].at - g.at < Window} \cup {new}
        BY <2>2, <3>1 DEF WithHit
      <3>3. d # c => zset'[d] = zset[d]
        BY <2>2, <3>1 DEF WithHit
      <3> HIDE DEF new
      <3>4. CASE d = c
        BY <3>2, <3>4
      <3>5. CASE d # c
        BY <3>3, <3>5
      <3> QED BY <3>4, <3>5
    <2>3. zset' = zset \/ zset' = WithHit(r, c, request[r].at)
      OBVIOUS
    <2> QED BY <2>1, <2>2, <2>3
  <1>2. \A d \in Clients : \A h \in zset[d] :
          h.request # r /\ h.request \in Requests
    BY DEF MemoryInv, HitsAreOwn, TypeOK, Hit
  <1>3. request'[r].client = c /\ request'[r].at >= new.at
    BY DEF StepAt, Fresh
  <1> SUFFICES ASSUME NEW d \in Clients, NEW h \in zset'[d]
               PROVE  /\ request'[h.request].step \notin {"new", "redis"}
                      /\ request'[h.request].client = d
                      /\ request'[h.request].at >= h.at
                      /\ \A g \in zset'[d] : g.request = h.request => g = h
    BY DEF HitsAreOwn
  <1>4. CASE h = new /\ d = c
    BY <1>1, <1>2, <1>3, <1>4
  <1>5. CASE h \in zset[d]
    <2>1. request'[h.request] = request[h.request] /\ h.request # r
      BY <1>2, <1>5 DEF StepAt
    <2> QED BY <1>1, <1>5, <2>1 DEF MemoryInv, HitsAreOwn
  <1> QED BY <1>1, <1>4, <1>5

LEMMA AllowRedisTracks ==
  ASSUME MemoryInv, NEW r \in Requests, AllowRedis(r) PROVE MemoryInv'
  <1>1. /\ request[r].step = "redis" /\ request[r] \in Asked
        /\ UNCHANGED <<clock, connected, hits, faults>>
    BY RequestShape DEF AllowRedis, MemoryInv, LimiterInv
  <1>2. PICK c \in Clients, i \in Instances, a \in Time :
          request[r].client = c /\ request[r].instance = i /\ request[r].at = a
    BY <1>1 DEF Asked
  <1> DEFINE ok      == Cardinality(zset'[c]) <= Limit
             decided == [step |-> IF ok THEN "admitted" ELSE "refused",
                         instance |-> i, client |-> c, by |-> "redis", at |-> clock]
  <1>3. zset' = WithHit(r, c, a) /\ request' = [request EXCEPT ![r] = decided]
    BY <1>2 DEF AllowRedis, Decide, Counted
  <1>4. LimiterInv'
    BY AllowRedisKeeps DEF MemoryInv
  <1>5. request'[r] = decided /\ \A q \in Requests \ {r} : request'[q] = request[q]
    BY <1>3 DEF MemoryInv, TypeOK
  <1>6. decided \in Decided /\ clock \in Int
    BY OwnFacts DEF Decided
  <1>7. TypeOK'
    BY <1>1, <1>3, <1>4, <1>6 DEF MemoryInv, TypeOK, LimiterInv, SharedTypeOK
  <1>8. /\ a \in Int /\ a <= clock /\ clock <= a + MaxDelay
        /\ MaxDelay \in Nat /\ Window \in Nat /\ Limit \in Nat
    BY <1>1, <1>2, LimiterAssumption, ClockAssumption
    DEF MemoryInv, LimiterInv, ReadingsRecent, Time
  <1>9. StepAt(r) /\ NotOutOfMemory(request'[r])
    BY <1>1, <1>2, <1>5, <1>6, <1>8 DEF StepAt, Fresh, NotOutOfMemory
  <1>10. WindowsTrack' /\ MemoryWithinLimit'
    BY <1>1, <1>9, WindowsStay
  <1>11. NobodyAhead'
    BY <1>1, <1>5, <1>6 DEF MemoryInv, NobodyAhead
  <1>12. HitsAreOwn'
    BY <1>1, <1>2, <1>3, <1>5, <1>9, WithHitOwn
  <1>13. RefusalsAreOwn'
    <2>1. ASSUME request'[r].step = "refused" PROVE Limit <= Cardinality(Behind(r)')
      <3> DEFINE new    == [request |-> r, at |-> a]
                 others == zset'[c] \ {new}
      <3>1. /\ IsFiniteSet(zset'[c]) /\ new \in zset'[c]
            /\ zset'[c] = {h \in zset[c] : a - h.at < Window} \cup {new}
        BY <1>1, <1>2, <1>3, PipelineHits DEF MemoryInv
      <3>2. /\ Cardinality(zset'[c]) \in Nat /\ ~(Cardinality(zset'[c]) <= Limit)
            /\ IsFiniteSet(others)
            /\ Cardinality(others) = Cardinality(zset'[c]) - 1
        <4>1. ~ok
          BY <1>5, <2>1
        <4>2. Cardinality(zset'[c]) \in Nat
          BY <3>1, FS_CardinalityType
        <4>3. IsFiniteSet(others) /\ Cardinality(others) = Cardinality(zset'[c]) - 1
          <5> HIDE DEF new
          <5> QED BY <3>1, FS_RemoveElement
        <4> QED BY <4>1, <4>2, <4>3
      <3>3. ASSUME NEW h \in others
            PROVE  h.request \in Behind(r)'
        <4>1. h \in zset[c] /\ a - h.at < Window /\ h.at \in Int /\ h.request \in Requests
          BY <3>1, ClockAssumption DEF MemoryInv, TypeOK, Hit, Time
        <4>2. /\ request[h.request].step \notin {"new", "redis"}
              /\ request[h.request].client = c
              /\ request[h.request].at >= h.at
          BY <4>1 DEF MemoryInv, HitsAreOwn
        <4>3. h.request # r /\ request'[h.request] = request[h.request]
          BY <1>1, <1>5, <4>1, <4>2
        <4>4. request[h.request].at \in Int
          BY <4>1, <4>2, ClockAssumption
          DEF MemoryInv, TypeOK, Fresh, Asked, Decided, Time
        <4>5. request[h.request].at >= clock - Window - MaxDelay
          BY <1>6, <1>8, <4>1, <4>2, <4>4
        <4>6. request'[r].client = c /\ request'[r].at = clock
          BY <1>5
        <4> QED BY <4>1, <4>2, <4>3, <4>5, <4>6 DEF Behind, Fresh
      <3> DEFINE named == [h \in others |-> h.request]
      <3>4. ASSUME NEW g \in others, NEW h \in others, named[g] = named[h] PROVE g = h
        BY <1>12, <3>4 DEF HitsAreOwn
      <3>5. named \in Injection(others, Behind(r)')
        BY <3>3, <3>4 DEF Injection, IsInjective
      <3>6. IsFiniteSet(Behind(r)')
        BY LimiterAssumption, FS_Subset DEF Behind
      <3>7. Cardinality(others) <= Cardinality(Behind(r)')
            /\ Cardinality(Behind(r)') \in Nat
        BY <3>5, <3>6, FS_Injection, FS_CardinalityType
      <3> QED BY <1>8, <3>2, <3>7
    <2> QED BY <1>9, <2>1, RefusalsStayOwn
  <1> QED BY <1>4, <1>7, <1>10, <1>11, <1>12, <1>13 DEF MemoryInv

LEMMA RedisFailsTracks ==
  ASSUME MemoryInv, NEW r \in Requests, RedisFails(r) PROVE MemoryInv'
  <1>1. /\ request[r].step = "redis" /\ request[r] \in Asked
        /\ UNCHANGED <<clock, connected, hits>>
        /\ faults' = faults + 1 /\ faults < MaxFaults
        /\ request' = [request EXCEPT ![r].step = "memory"]
    BY RequestShape DEF RedisFails, MemoryInv, LimiterInv
  <1>2. PICK c \in Clients, i \in Instances, a \in Time :
          request[r].client = c /\ request[r].instance = i /\ request[r].at = a
    BY <1>1 DEF Asked
  <1>3. zset' \in {zset, WithHit(r, c, request[r].at)}
    BY <1>2 DEF RedisFails
  <1>4. LimiterInv'
    BY RedisFailsKeeps DEF MemoryInv
  <1>5. /\ request'[r] = [request[r] EXCEPT !.step = "memory"]
        /\ \A q \in Requests \ {r} : request'[q] = request[q]
    BY <1>1 DEF MemoryInv, TypeOK
  <1>6. /\ request'[r].step = "memory" /\ request'[r].client = c /\ request'[r].at = a
        /\ a \in Int
    BY <1>1, <1>2, <1>5, ClockAssumption DEF Asked, Time
  <1>7. TypeOK'
    <2>1. faults' \in 0 .. MaxFaults
      BY <1>1, LimiterAssumption DEF MemoryInv, TypeOK
    <2> QED BY <1>1, <1>4, <2>1 DEF MemoryInv, TypeOK, LimiterInv, SharedTypeOK
  <1>8. StepAt(r) /\ NotOutOfMemory(request'[r])
    BY <1>1, <1>2, <1>5, <1>6 DEF StepAt, Fresh, NotOutOfMemory
  <1>9. WindowsTrack' /\ MemoryWithinLimit'
    BY <1>1, <1>8, WindowsStay
  <1>10. RefusalsAreOwn'
    BY <1>6, <1>8, RefusalsStayOwn
  <1>11. NobodyAhead'
    BY <1>1, <1>2, <1>5, <1>6 DEF MemoryInv, NobodyAhead, Fresh
  <1>12. HitsAreOwn'
    BY <1>1, <1>2, <1>3, <1>6, <1>8, WithHitOwn
  <1> QED BY <1>4, <1>7, <1>9, <1>10, <1>11, <1>12 DEF MemoryInv

LEMMA TickTracks == ASSUME MemoryInv, Tick PROVE MemoryInv'
  <1>1. /\ UNCHANGED <<connected, hits, zset, request, faults>>
        /\ clock < MaxClock /\ clock' = clock + 1
    BY DEF Tick, ClockAdvances
  <1>2. LimiterInv'
    BY TickKeeps DEF MemoryInv
  <1>3. TypeOK'
    BY <1>1, <1>2 DEF MemoryInv, TypeOK, LimiterInv, SharedTypeOK
  <1>4. clock \in Int /\ clock' \in Int /\ clock <= clock'
    BY <1>1, ClockAssumption DEF MemoryInv, TypeOK, Time
  <1>5. \A i \in Instances, c \in Clients : Times(i, c)' = Times(i, c)
    BY <1>1 DEF Times, Own, Admitted
  <1>6. WindowsTrack'
    BY <1>1, <1>4, <1>5, LaterTracks DEF MemoryInv, WindowsTrack
  <1>7. ASSUME NEW r \in Requests, request[r] # Fresh PROVE request[r].at <= clock'
    <2>1. request[r].at \in Int /\ request[r].at <= clock
      BY <1>7, ClockAssumption DEF MemoryInv, TypeOK, NobodyAhead, Asked, Decided, Time
    <2> QED BY <1>4, <2>1
  <1>8. NobodyAhead'
    BY <1>1, <1>7 DEF NobodyAhead
  <1>9. HitsAreOwn' /\ MemoryWithinLimit' /\ RefusalsAreOwn'
    BY <1>1
    DEF MemoryInv, HitsAreOwn, MemoryWithinLimit, RefusalsAreOwn, Admitted, Between
  <1> QED BY <1>2, <1>3, <1>6, <1>8, <1>9 DEF MemoryInv

LEMMA InitMemory == Init => MemoryInv
  <1> SUFFICES ASSUME Init PROVE MemoryInv
    OBVIOUS
  <1>1. LimiterInv
    BY InitLimiter
  <1>2. TypeOK
    BY <1>1, LimiterAssumption DEF Init, TypeOK, LimiterInv, SharedTypeOK
  <1>3. \A r \in Requests : request[r] = Fresh /\ request[r].step = "new"
    BY DEF Init, Fresh
  <1>4. \A i \in Instances, c \in Clients : Own(i, c) = {}
    BY <1>3 DEF Own, Admitted
  <1>5. clock \in Int
    BY <1>2, ClockAssumption DEF TypeOK, Time
  <1>6. ASSUME NEW i \in Instances, NEW c \in Clients
        PROVE  Tracks(hits[i][c], Times(i, c), clock)
    <2>1. DOMAIN Times(i, c) = {} /\ IsFiniteSet(DOMAIN Times(i, c))
      BY <1>4, FS_EmptySet DEF Times
    <2>2. \A a \in Int : Since(Times(i, c), a) = {}
      BY <2>1 DEF Since
    <2>3. hits[i][c] = <<>>
      BY DEF Init
    <2>4. \A a \in Int : Cardinality(Since(Times(i, c), a)) <= 0
      <3>1. Cardinality({}) = 0
        BY FS_EmptySet
      <3> QED BY <2>2, <3>1
    <2> QED BY <1>5, <2>1, <2>3, <2>4, EmptyTracks
  <1>7. WindowsTrack
    BY <1>6 DEF WindowsTrack
  <1>8. MemoryWithinLimit
    <2>1. ASSUME NEW i \in Instances, NEW c \in Clients, NEW now \in Time
          PROVE  Cardinality(Between(Own(i, c), now - Window, now)) <= Limit
      <3>1. Between(Own(i, c), now - Window, now) = {}
        BY <1>4 DEF Between
      <3> QED BY <3>1, FS_EmptySet, LimiterAssumption
    <2> QED BY <2>1 DEF MemoryWithinLimit, Own
  <1>9. NobodyAhead /\ RefusalsAreOwn /\ HitsAreOwn
    BY <1>3 DEF Init, NobodyAhead, RefusalsAreOwn, HitsAreOwn
  <1> QED BY <1>1, <1>2, <1>7, <1>8, <1>9 DEF MemoryInv

LEMMA NextMemory == MemoryInv /\ [Next]_vars => MemoryInv'
  <1> SUFFICES ASSUME MemoryInv, [Next]_vars PROVE MemoryInv'
    OBVIOUS
  <1>1. ASSUME NEW r \in Requests, NEW i \in Instances, NEW c \in Clients,
               ArriveMemory(r, i, c) \/ ArriveRedis(r, i, c)
        PROVE  MemoryInv'
    BY <1>1, AllowMemoryTracks, ArriveRedisTracks DEF ArriveMemory, Fresh
  <1>2. ASSUME NEW r \in Requests, FallBack(r) PROVE MemoryInv'
    <2>1. request[r].step = "memory" /\ request[r] \in Asked
      BY <1>2, RequestShape DEF FallBack, MemoryInv, LimiterInv
    <2>2. PICK i \in Instances, c \in Clients :
            request[r].instance = i /\ request[r].client = c
      BY <2>1 DEF Asked
    <2>3. AllowMemory(r, i, c)
      BY <1>2, <2>2 DEF FallBack
    <2> QED BY <2>1, <2>2, <2>3, AllowMemoryTracks
  <1>3. CASE UNCHANGED vars
    <2>1. UNCHANGED <<clock, connected, hits, zset, request, faults>>
      BY <1>3 DEF vars
    <2>2. LimiterInv'
      BY NextLimiter DEF MemoryInv
    <2>3. TypeOK' /\ NobodyAhead' /\ HitsAreOwn'
      BY <2>1 DEF MemoryInv, TypeOK, NobodyAhead, HitsAreOwn
    <2>4. WindowsTrack'
      BY <2>1 DEF MemoryInv, WindowsTrack, Times, Own, Admitted
    <2>5. MemoryWithinLimit' /\ RefusalsAreOwn'
      BY <2>1 DEF MemoryInv, MemoryWithinLimit, RefusalsAreOwn, Admitted, Between
    <2> QED BY <2>2, <2>3, <2>4, <2>5 DEF MemoryInv
  <1> QED
    BY <1>1, <1>2, <1>3, AllowRedisTracks, RedisFailsTracks, TickTracks DEF Next

LEMMA MemoryInvariant == Spec => []MemoryInv
  BY InitMemory, NextMemory, PTL DEF Spec

(* RateLimiter is well typed.                                              *)
THEOREM LimiterTypeCorrect == Spec => []TypeOK
  <1>1. MemoryInv => TypeOK
    BY DEF MemoryInv
  <1> QED BY <1>1, MemoryInvariant, PTL

(* What one instance admits out of memory stays within the limit in every  *)
(* window, whatever it pruned meanwhile.                                   *)
THEOREM MemoryLimitHolds == Spec => []MemoryWithinLimit
  <1>1. MemoryInv => MemoryWithinLimit
    BY DEF MemoryInv
  <1> QED BY <1>1, MemoryInvariant, PTL

(* Nobody is refused for the requests of another client, nor, by the       *)
(* window, for requests long past: neither out of memory, by windows of    *)
(* others or by hits that were to be pruned, nor out of Redis, by hits     *)
(* that a failed pipeline left behind.                                     *)
THEOREM RefusedForOwnRequests == Spec => []RefusalsAreOwn
  <1>1. MemoryInv => RefusalsAreOwn
    BY DEF MemoryInv
  <1> QED BY <1>1, MemoryInvariant, PTL
-----------------------------------------------------------------------------
(* Out of memory a request is told what the ideal window tells it.         *)
Answered(q) == q.step \in {"admitted", "refused"} /\ q.by = "memory"

Verdict(q) ==
  IF Answered(q)
    THEN [said |-> IF q.step = "admitted" THEN "yes" ELSE "no",
          key  |-> <<q.instance, q.client>>,
          at   |-> q.at]
    ELSE [said |-> "nothing"]

Verdicts == [r \in Requests |-> Verdict(request[r])]

(* Whom the ideal window remembers, the window in memory has counted.      *)
LEMMA IdealRecent ==
  ASSUME MemoryInv, NEW i \in Instances, NEW c \in Clients
  PROVE  Ideal!Recent(<<i, c>>) = Since(Times(i, c), clock - Window)
  <1>1. Ideal!Recent(<<i, c>>)
          = {r \in Requests :
               /\ Verdict(request[r]).said = "yes"
               /\ Verdict(request[r]).key = <<i, c>>
               /\ clock - Verdict(request[r]).at <= Window}
    BY DEF Ideal!Recent, Ideal!Through, Verdict, Answered
  <1>2. Since(Times(i, c), clock - Window)
          = {r \in Own(i, c) : request[r].at >= clock - Window}
    BY DEF Since, Times
  <1>3. ASSUME NEW r \in Requests
        PROVE  /\ Verdict(request[r]).said = "yes"
               /\ Verdict(request[r]).key = <<i, c>>
               <=> r \in Own(i, c)
    BY DEF Verdict, Answered, Own, Admitted
  <1>4. ASSUME NEW r \in Own(i, c)
        PROVE  clock - Verdict(request[r]).at <= Window
                 <=> request[r].at >= clock - Window
    <2>1. request[r].at \in Int /\ clock \in Int /\ Window \in Int
      BY OwnFacts, LimiterAssumption
    <2>2. Verdict(request[r]).at = request[r].at
      BY DEF Verdict, Answered, Own, Admitted
    <2> HIDE DEF Verdict
    <2> QED BY <2>1, <2>2
  <1>5. Own(i, c) \subseteq Requests
    BY OwnFacts
  <1> QED BY <1>1, <1>2, <1>3, <1>4, <1>5

LEMMA AllowMemoryAnswers ==
  ASSUME MemoryInv, NEW r \in Requests, NEW i \in Instances, NEW c \in Clients,
         request[r].step \in {"new", "memory"}, AllowMemory(r, i, c)
  PROVE  Ideal!Answer(r, <<i, c>>)
  <1>1. PICK P \in Prunings(i) :
          Decide(r, i, c, "memory", Len(RecentHits(Kept(i, P), c)) < Limit)
    BY DEF AllowMemory, Kept
  <1> DEFINE ok == Cardinality(Ideal!Recent(<<i, c>>)) < Limit
             answer == [step |-> IF ok THEN "admitted" ELSE "refused",
                        instance |-> i, client |-> c, by |-> "memory", at |-> clock]
  <1> HIDE DEF ok
  <1>2. Len(RecentHits(Kept(i, P), c)) < Limit <=> ok
    BY DecisionTracks, IdealRecent DEF ok
  <1>3. request' = [request EXCEPT ![r] = answer]
    BY <1>1, <1>2 DEF Decide
  <1>4. request'[r] = answer /\ \A q \in Requests \ {r} : request'[q] = request[q]
    BY <1>3 DEF MemoryInv, TypeOK
  <1>5. Verdict(request[r]) = [said |-> "nothing"]
    BY DEF Verdict, Answered
  <1>6. Verdict(answer) = [said |-> IF ok THEN "yes" ELSE "no",
                           key |-> <<i, c>>, at |-> clock]
    BY DEF Verdict, Answered
  <1>7. Verdicts' = [Verdicts EXCEPT ![r] =
                       [said |-> IF ok THEN "yes" ELSE "no",
                        key |-> <<i, c>>, at |-> clock]]
    BY <1>4, <1>6 DEF Verdicts
  <1>8. clock' = clock
    BY DEF AllowMemory
  <1>9. Verdicts[r] = [said |-> "nothing"]
    BY <1>5 DEF Verdicts
  <1>10. Ideal!Answer(r, <<i, c>>)
           <=> /\ Verdicts[r] = [said |-> "nothing"]
               /\ Verdicts' = [Verdicts EXCEPT ![r] =
                    [said |-> IF ok THEN "yes" ELSE "no",
                     key |-> <<i, c>>, at |-> clock]]
               /\ clock' = clock
    <2>1. Ideal!Cardinality(Ideal!Recent(<<i, c>>)) = Cardinality(Ideal!Recent(<<i, c>>))
      BY DEF Ideal!Cardinality, Cardinality
    <2>2. (Ideal!Cardinality(Ideal!Recent(<<i, c>>)) < Limit) = ok
      BY <2>1 DEF ok
    <2> QED
      BY <2>2 DEF Ideal!Answer, Ideal!Unanswered, Verdicts, Verdict, Answered
  <1> QED BY <1>7, <1>8, <1>9, <1>10

(* A step at a request that stays unanswered is not seen.                  *)
LEMMA StillUnanswered ==
  ASSUME clock' = clock, NEW r \in Requests,
         \A q \in Requests \ {r} : request'[q] = request[q],
         ~Answered(request[r]), ~Answered(request'[r])
  PROVE  UNCHANGED Ideal!windowVars
  <1>1. \A q \in Requests : Verdict(request'[q]) = Verdict(request[q])
    BY DEF Verdict
  <1> QED BY <1>1 DEF Ideal!windowVars, Verdict, Answered

LEMMA NextIsIdeal == MemoryInv /\ [Next]_vars => [Ideal!Next]_Ideal!windowVars
  <1> SUFFICES ASSUME MemoryInv, [Next]_vars
               PROVE  Ideal!Next \/ UNCHANGED Ideal!windowVars
    OBVIOUS
  <1>1. DOMAIN request = Requests
    BY DEF MemoryInv, TypeOK
  <1>2. ASSUME NEW r \in Requests, NEW i \in Instances, NEW c \in Clients,
               request[r].step \in {"new", "memory"}, AllowMemory(r, i, c)
        PROVE  Ideal!Next
    BY <1>2, AllowMemoryAnswers DEF Ideal!Next
  <1>3. ASSUME NEW r \in Requests, NEW i \in Instances, NEW c \in Clients,
               ArriveMemory(r, i, c)
        PROVE  Ideal!Next
    BY <1>2, <1>3 DEF ArriveMemory, Fresh
  <1>4. ASSUME NEW r \in Requests, FallBack(r) PROVE Ideal!Next
    <2>1. request[r].step = "memory" /\ request[r] \in Asked
      BY <1>4, RequestShape DEF FallBack, MemoryInv, LimiterInv
    <2>2. PICK i \in Instances, c \in Clients :
            request[r].instance = i /\ request[r].client = c
      BY <2>1 DEF Asked
    <2>3. AllowMemory(r, i, c)
      BY <1>4, <2>2 DEF FallBack
    <2> QED BY <1>2, <2>1, <2>3
  <1>5. ASSUME NEW r \in Requests, NEW i \in Instances, NEW c \in Clients,
               ArriveRedis(r, i, c)
        PROVE  UNCHANGED Ideal!windowVars
    <2>1. /\ ~Answered(request[r]) /\ ~Answered(request'[r]) /\ clock' = clock
          /\ \A q \in Requests \ {r} : request'[q] = request[q]
      BY <1>1, <1>5 DEF ArriveRedis, Answered, Fresh
    <2> QED BY <2>1, StillUnanswered
  <1>6. ASSUME NEW r \in Requests, AllowRedis(r)
        PROVE  UNCHANGED Ideal!windowVars
    <2>1. /\ ~Answered(request[r]) /\ ~Answered(request'[r]) /\ clock' = clock
          /\ \A q \in Requests \ {r} : request'[q] = request[q]
      BY <1>1, <1>6 DEF AllowRedis, Decide, Answered
    <2> QED BY <2>1, StillUnanswered
  <1>7. ASSUME NEW r \in Requests, RedisFails(r)
        PROVE  UNCHANGED Ideal!windowVars
    <2>1. request[r].step = "redis" /\ request[r] \in Asked
      BY <1>7, RequestShape DEF RedisFails, MemoryInv, LimiterInv
    <2>2. /\ request'[r] = [request[r] EXCEPT !.step = "memory"]
          /\ \A q \in Requests \ {r} : request'[q] = request[q]
          /\ clock' = clock
      BY <1>1, <1>7 DEF RedisFails
    <2>3. ~Answered(request[r]) /\ ~Answered(request'[r])
      BY <2>1, <2>2 DEF Answered, Asked
    <2> QED BY <2>2, <2>3, StillUnanswered
  <1>8. CASE Tick
    BY <1>8 DEF Tick, ClockAdvances, Ideal!Next, Ideal!Tick, Ideal!ClockAdvances
  <1>9. CASE UNCHANGED vars
    BY <1>9 DEF vars, Ideal!windowVars
  <1> QED BY <1>3, <1>4, <1>5, <1>6, <1>7, <1>8, <1>9 DEF Next

(* Out of memory every request is told exactly what a window that forgets  *)
(* nothing would tell it, for all the popping, pruning and falling back    *)
(* (middleware.py, _allow_memory).                                         *)
THEOREM MemoryLimiterIsIdeal == Spec => MemoryIsSlidingWindow
  <1>1. Init => Ideal!Init
    BY DEF Init, Ideal!Init, Ideal!Unanswered, Fresh
  <1> QED
    BY <1>1, NextIsIdeal, MemoryInvariant, PTL
    DEF Spec, MemoryIsSlidingWindow, Ideal!Spec
=============================================================================
