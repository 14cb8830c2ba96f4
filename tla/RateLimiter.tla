----------------------------- MODULE RateLimiter -----------------------------
(***************************************************************************)
(* The sliding-window rate limiter, core/middleware.py: a sorted set in    *)
(* Redis that all instances share, and in each instance a window in memory *)
(* that takes over when Redis fails or is not configured.                  *)
(*                                                                         *)
(* _allow_memory runs on the event loop and is one step.  _allow_redis     *)
(* runs in a worker thread: it reads the clock, and its pipeline, which    *)
(* Redis executes as one transaction, comes later.                         *)
(***************************************************************************)
EXTENDS WallClock, FiniteSets, SequencesExt

CONSTANTS
  Instances,    \* Processes of the service.
  Clients,      \* Client addresses.
  Requests,     \* Bound: requests in a behaviour, the uuid4 of each.
  Limit,        \* requests_per_minute
  Window,       \* The length of the window, 60 s in the code.
  PruneAbove,   \* Windows an instance keeps before it prunes, 512 in the code.
  PruneBatch,   \* Windows it prunes at a time, 128 in the code.
  MaxDelay,     \* Bound: time between a clock reading and its pipeline.
  MaxFaults     \* Bound: pipelines that fail.

ASSUME LimiterAssumption ==
  /\ {Limit, PruneAbove, PruneBatch} \subseteq Nat \ {0}
  /\ {Window, MaxDelay, MaxFaults} \subseteq Nat
  /\ IsFiniteSet(Requests)

VARIABLES
  connected,    \* self.redis is not None, which create_redis_client decides.
  hits,         \* _hits of each instance: admission times, per client.
  zset,         \* The sorted set in Redis: requests and their scores.
  request,      \* Each request: where it is, and what became of it.
  faults

vars == <<clock, connected, hits, zset, request, faults>>

Fresh == [step |-> "new"]

Asked == [step: {"redis", "memory"}, instance: Instances, client: Clients, at: Time]

Decided == [step: {"admitted", "refused"}, instance: Instances, client: Clients,
            by: {"redis", "memory"}, at: Time]

Hit == [request: Requests, at: Time]

TypeOK ==
  /\ clock \in Time
  /\ connected \in [Instances -> BOOLEAN]
  /\ hits \in [Instances -> [Clients -> Seq(Time)]]
  /\ zset \in [Clients -> SUBSET Hit]
  /\ request \in [Requests -> {Fresh} \cup Asked \cup Decided]
  /\ faults \in 0 .. MaxFaults

Init ==
  /\ clock = 0
  /\ connected \in [Instances -> BOOLEAN]
  /\ hits = [i \in Instances |-> [c \in Clients |-> <<>>]]
  /\ zset = [c \in Clients |-> {}]
  /\ request = [r \in Requests |-> Fresh]
  /\ faults = 0

-----------------------------------------------------------------------------
Decide(r, i, c, by, ok) ==
  request' = [request EXCEPT ![r] =
    [step |-> IF ok THEN "admitted" ELSE "refused",
     instance |-> i, client |-> c, by |-> by, at |-> clock]]

(* _allow_memory *)

(* A slip to be caught: the oldest hit is looked at, and >= for >. *)
IdleByOldest(i) ==
  {c \in Clients : hits[i][c] # <<>> /\ clock - Head(hits[i][c]) >= Window}

Idle(i) == {c \in Clients : hits[i][c] # <<>> /\ clock - Last(hits[i][c]) > Window}

(* Which of the idle windows go first, the order of the dict, is left open. *)
Prunings(i) ==
  IF Cardinality({c \in Clients : hits[i][c] # <<>>}) <= PruneAbove THEN {{}}
  ELSE {P \in SUBSET Idle(i) :
          \/ Cardinality(P) = PruneBatch
          \/ Cardinality(P) < PruneBatch /\ P = Idle(i)}

(* A slip to be caught: < for <=. *)
StrictlyInWindow(at) == clock - at < Window

InWindow(at) == clock - at <= Window

(* A slip to be caught: the hits of every client count. *)
AnyHits(windows, c) ==
  SelectSeq(FlattenSeq(SetToSeq({windows[d] : d \in Clients})), InWindow)

(* popleft, as long as the first is out of the window. *)
RecentHits(windows, c) ==
  LET window == windows[c]
      first  == Min({k \in DOMAIN window : InWindow(window[k])} \cup {Len(window) + 1})
  IN SubSeq(window, first, Len(window))

AllowMemory(r, i, c) ==
  /\ \E P \in Prunings(i) :
       LET kept   == [d \in Clients |-> IF d \in P THEN <<>> ELSE hits[i][d]]
           recent == RecentHits(kept, c)
           ok     == Len(recent) < Limit
       IN /\ Decide(r, i, c, "memory", ok)
          /\ hits' = [hits EXCEPT ![i] =
                        [kept EXCEPT ![c] =
                           IF ok THEN Append(recent, clock) ELSE recent]]
  /\ UNCHANGED <<clock, connected, zset, faults>>

-----------------------------------------------------------------------------
(* dispatch *)
ArriveMemory(r, i, c) ==
  /\ ~connected[i]
  /\ request[r] = Fresh
  /\ AllowMemory(r, i, c)

(* The first thing _allow_redis does: now = time.time(). *)
ArriveRedis(r, i, c) ==
  /\ connected[i]
  /\ request[r] = Fresh
  /\ request' = [request EXCEPT ![r] =
                   [step |-> "redis", instance |-> i, client |-> c, at |-> clock]]
  /\ UNCHANGED <<clock, connected, hits, zset, faults>>

(* The pipeline: ZREMRANGEBYSCORE, ZADD, ZCARD.  Its EXPIRE drops a set    *)
(* only when every hit in it has left the window.                          *)

WithHit(r, c, at) ==
  [zset EXCEPT ![c] = {h \in @ : at - h.at < Window} \cup {[request |-> r, at |-> at]}]

(* A slip to be caught: the hit is added after it was counted. *)
CountedBefore(zs, c) == Cardinality(zs[c]) - 1

Counted(zs, c) == Cardinality(zs[c])

AllowRedis(r) ==
  /\ request[r].step = "redis"
  /\ LET c == request[r].client IN
       /\ zset' = WithHit(r, c, request[r].at)
       /\ Decide(r, request[r].instance, c, "redis", Counted(zset', c) <= Limit)
  /\ UNCHANGED <<clock, connected, hits, faults>>

(* The pipeline raises, executed or not; memory decides, back on the loop. *)
RedisFails(r) ==
  /\ request[r].step = "redis"
  /\ faults < MaxFaults
  /\ faults' = faults + 1
  /\ zset' \in {zset, WithHit(r, request[r].client, request[r].at)}
  /\ request' = [request EXCEPT ![r].step = "memory"]
  /\ UNCHANGED <<clock, connected, hits>>

FallBack(r) ==
  /\ request[r].step = "memory"
  /\ AllowMemory(r, request[r].instance, request[r].client)

(* Worker threads are not kept waiting for longer than MaxDelay. *)
Tick ==
  /\ ClockAdvances
  /\ \A r \in Requests : request[r].step = "redis" => clock - request[r].at < MaxDelay
  /\ UNCHANGED <<connected, hits, zset, request, faults>>

-----------------------------------------------------------------------------
Next ==
  \/ \E r \in Requests, i \in Instances, c \in Clients :
       ArriveMemory(r, i, c) \/ ArriveRedis(r, i, c)
  \/ \E r \in Requests : AllowRedis(r) \/ RedisFails(r) \/ FallBack(r)
  \/ Tick

Spec == Init /\ [][Next]_vars

-----------------------------------------------------------------------------
Admitted(c, by) ==
  {r \in Requests : /\ request[r].step = "admitted"
                    /\ request[r].client = c
                    /\ request[r].by = by}

Between(rs, first, last) == {r \in rs : request[r].at \in first .. last}

(* What one instance admits out of memory stays within the limit in every  *)
(* window, both ends included, whatever it pruned meanwhile                *)
(* (middleware.py, _allow_memory).                                         *)
MemoryWithinLimit ==
  \A i \in Instances, c \in Clients, now \in Time :
    LET own == {r \in Admitted(c, "memory") : request[r].instance = i}
    IN Cardinality(Between(own, now - Window, now)) <= Limit

(* "Multi-instance safe for rate limits" (middleware.py): what all         *)
(* instances together admit out of Redis stays within the limit in every   *)
(* window, one end included, shortened by the time a thread may take from  *)
(* its reading of the clock to its pipeline: hits are filed under the      *)
(* reading, and may be older than the admission they stand for.            *)
RedisWithinLimit ==
  \A c \in Clients, now \in Time :
    Cardinality(Between(Admitted(c, "redis"), now - Window + MaxDelay + 1, now))
      <= Limit

(* No client pays for another: a refusal has behind it, in the window that *)
(* ends with it, as many other requests of the same client as the limit    *)
(* allows.                                                                 *)
RefusalsAreOwn ==
  \A r \in Requests : request[r].step = "refused" =>
    Cardinality({q \in Requests \ {r} :
        /\ request[q] # Fresh
        /\ request[q].client = request[r].client
        /\ request[q].at >= request[r].at - Window - MaxDelay}) >= Limit

(* Out of memory every request is told exactly what a window that forgets  *)
(* nothing would tell it: neither more nor fewer come through, for all the *)
(* popping, pruning and falling back (middleware.py, _allow_memory).       *)
Ideal == INSTANCE SlidingWindow WITH
  Keys    <- Instances \X Clients,
  verdict <- [r \in Requests |->
    IF request[r].step \in {"admitted", "refused"} /\ request[r].by = "memory"
      THEN [said |-> IF request[r].step = "admitted" THEN "yes" ELSE "no",
            key  |-> <<request[r].instance, request[r].client>>,
            at   |-> request[r].at]
      ELSE [said |-> "nothing"]]

MemoryIsSlidingWindow == Ideal!Spec
=============================================================================
