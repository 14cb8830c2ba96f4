--------------------------- MODULE JobQueueProofs ---------------------------
(***************************************************************************)
(* The ledger and the queue of jobs, for any number of workers and jobs,   *)
(* any bound on the ledger and any share of it that is evicted.            *)
(*                                                                         *)
(* Eviction is what needs an argument: that it makes room comes from the   *)
(* ranks of the finished jobs (FirstInLine: one of them has nobody before  *)
(* it), that it drops the oldest from the order being transitive.          *)
(***************************************************************************)
EXTENDS JobQueue, FiniteSetTheorems, SequenceTheorems, TLAPS

Numbered == \A j \in Jobs : j > accepted => jobs[j] = NoJob

Idle ==
  /\ phase = "starting" => accepted = 0
  /\ phase # "serving" => \A w \in Workers : working[w] = NoJob

Inv ==
  /\ TypeOK
  /\ Numbered
  /\ Idle
  /\ QueueMatchesLedger
  /\ LedgerBounded

-----------------------------------------------------------------------------
(* Ranks *)

Older(S, j) == {k \in S : OlderThan(k, j)}

(* OlderThan is a strict order of the jobs in the ledger, and total. *)
LEMMA Ordered ==
  ASSUME TypeOK, NEW j \in Ledger, NEW k \in Ledger
  PROVE  /\ ~OlderThan(j, j)
         /\ j # k => OlderThan(j, k) \/ OlderThan(k, j)
         /\ \A l \in Ledger : OlderThan(j, k) /\ OlderThan(k, l) => OlderThan(j, l)
  <1>1. \A i \in Ledger : i \in Nat /\ jobs[i].updated \in Int
    BY ClockAssumption, JobQueueAssumption DEF TypeOK, Ledger, Jobs, JobRecord, Time
  <1> QED BY <1>1 DEF OlderThan

LEMMA LedgerIsFinite ==
  /\ IsFiniteSet(Ledger)
  /\ Cardinality(Ledger) \in Nat
  /\ \A S \in SUBSET Ledger :
       /\ IsFiniteSet(S)
       /\ Cardinality(S) \in Nat
       /\ Cardinality(S) <= Cardinality(Ledger)
  <1>1. IsFiniteSet(Jobs)
    BY JobQueueAssumption, FS_Interval DEF Jobs
  <1>2. Ledger \in SUBSET Jobs
    BY DEF Ledger
  <1>3. IsFiniteSet(Ledger)
    BY <1>1, <1>2, FS_Subset
  <1> QED BY <1>3, FS_Subset, FS_CardinalityType

(* The elder of two jobs has fewer before it. *)
LEMMA RankGrows ==
  ASSUME TypeOK, NEW S \in SUBSET Ledger, NEW j \in S, NEW k \in S, OlderThan(j, k)
  PROVE  Cardinality(Older(S, j)) < Cardinality(Older(S, k))
  <1>1. Older(S, j) \subseteq Older(S, k)
    BY Ordered DEF Older
  <1>2. j \in Older(S, k) /\ j \notin Older(S, j)
    BY Ordered DEF Older
  <1>3. IsFiniteSet(Older(S, k)) /\ IsFiniteSet(Older(S, j))
    BY LedgerIsFinite DEF Older
  <1>4. /\ Cardinality(Older(S, j)) \in Nat
        /\ Cardinality(Older(S, k)) \in Nat
        /\ Cardinality(Older(S, j)) <= Cardinality(Older(S, k))
    BY <1>1, <1>3, FS_Subset, FS_CardinalityType
  <1>5. Cardinality(Older(S, j)) # Cardinality(Older(S, k))
    BY <1>1, <1>2, <1>3, FS_Subset
  <1> QED BY <1>4, <1>5

(* One job has none before it: ranks differ, so all n of them occur. *)
LEMMA FirstInLine ==
  ASSUME TypeOK, NEW S \in SUBSET Ledger, S # {}
  PROVE  \E j \in S : Cardinality(Older(S, j)) = 0
  <1> DEFINE n == Cardinality(S)
             rank == [j \in S |-> Cardinality(Older(S, j))]
  <1>1. IsFiniteSet(S) /\ n \in Nat /\ n # 0
    BY LedgerIsFinite, FS_EmptySet
  <1>2. ASSUME NEW j \in S PROVE Cardinality(Older(S, j)) \in 0 .. n - 1
    <2>1. Older(S, j) \subseteq S /\ j \notin Older(S, j)
      BY Ordered DEF Older
    <2>2. Cardinality(Older(S, j)) \in Nat
      BY <2>1, LedgerIsFinite
    <2>3. Cardinality(Older(S, j)) <= n /\ Cardinality(Older(S, j)) # n
      BY <1>1, <2>1, FS_Subset
    <2> QED BY <1>1, <2>2, <2>3
  <1>3. rank \in [S -> 0 .. n - 1]
    BY <1>2
  <1>4. ASSUME NEW j \in S, NEW k \in S, rank[j] = rank[k] PROVE j = k
    <2>1. rank[j] \in Int
      BY <1>1, <1>3
    <2>2. ~OlderThan(j, k) /\ ~OlderThan(k, j)
      BY <1>4, <2>1, RankGrows
    <2> QED BY <2>2, Ordered
  <1>5. rank \in Injection(S, 0 .. n - 1)
    BY <1>3, <1>4 DEF Injection, IsInjective
  <1>6. IsFiniteSet(0 .. n - 1) /\ Cardinality(0 .. n - 1) = n
    <2>1. n - 1 \in Int /\ ~(0 > n - 1) /\ n - 1 - 0 + 1 = n
      BY <1>1
    <2> QED BY <2>1, FS_Interval
  <1>7. rank \in Surjection(S, 0 .. n - 1)
    BY <1>5, <1>6, FS_Injection
  <1>8. 0 \in 0 .. n - 1
    BY <1>1
  <1>9. \E j \in S : rank[j] = 0
    BY <1>7, <1>8 DEF Surjection
  <1> QED BY <1>9

-----------------------------------------------------------------------------
(* Eviction *)

LEMMA QuotaIsPositive ==
  ASSUME NEW n \in Nat \ {0}
  PROVE  Quota(n) \in Nat \ {0}
  <1>1. CASE n < EvictShare
    BY <1>1 DEF Quota
  <1>2. CASE n >= EvictShare
    <2>1. EvictShare \in Nat \ {0}
      BY JobQueueAssumption
    <2>2. n \div EvictShare >= 1
      BY <1>2, <2>1
    <2>3. n \div EvictShare \in Nat
      BY <2>1
    <2> QED BY <1>2, <2>1, <2>2, <2>3 DEF Quota
  <1> QED BY <1>1, <1>2, JobQueueAssumption

LEMMA EvictedAreFinished ==
  /\ Evicted \subseteq InStatus(Finished)
  /\ InStatus(Finished) \subseteq Ledger
  /\ Evicted # {} => ~(Cardinality(Ledger) < MaxJobs)
  BY DEF Evicted, Candidates, InStatus

(* With a finished job in a full ledger there is something to drop. *)
LEMMA EvictionMakesRoom ==
  ASSUME TypeOK, LedgerBounded, InStatus(Finished) # {}
  PROVE  Room
  <1>1. Cardinality(Ledger) \in Nat /\ MaxJobs \in Nat
    BY LedgerIsFinite, JobQueueAssumption
  <1>2. CASE Cardinality(Ledger) < MaxJobs
    <2>1. Evicted = {}
      BY <1>2 DEF Evicted
    <2>2. Ledger \ Evicted = Ledger
      BY <2>1
    <2> QED BY <1>2, <2>2 DEF Room
  <1>3. CASE ~(Cardinality(Ledger) < MaxJobs)
    <2>1. Candidates \in SUBSET Ledger /\ Candidates # {}
      BY EvictedAreFinished DEF Candidates
    <2>2. PICK j \in Candidates : Cardinality(Older(Candidates, j)) = 0
      BY <2>1, FirstInLine
    <2>3. Cardinality(Candidates) \in Nat \ {0}
      BY <2>1, LedgerIsFinite, FS_EmptySet
    <2>4. 0 < Quota(Cardinality(Candidates))
      BY <2>3, QuotaIsPositive
    <2>5. j \in Evicted
      BY <1>3, <2>2, <2>4 DEF Evicted, Older
    <2>6. Ledger \ Evicted \in SUBSET Ledger /\ Ledger \ Evicted # Ledger
      BY <2>1, <2>5
    <2>7. /\ Cardinality(Ledger \ Evicted) \in Nat
          /\ Cardinality(Ledger \ Evicted) <= Cardinality(Ledger)
          /\ Cardinality(Ledger \ Evicted) # Cardinality(Ledger)
      BY <2>6, LedgerIsFinite, FS_Subset
    <2> QED BY <1>1, <2>7 DEF Room, LedgerBounded
  <1> QED BY <1>2, <1>3

(* What is dropped has no finished job before it that stays. *)
LEMMA ElderIsEvictedToo ==
  ASSUME TypeOK, NEW j \in Evicted, NEW k \in InStatus(Finished),
         jobs[k].updated < jobs[j].updated
  PROVE  k \in Evicted
  <1>1. j \in Candidates /\ k \in Candidates /\ Candidates \in SUBSET Ledger
    BY EvictedAreFinished DEF Candidates
  <1>2. OlderThan(k, j)
    BY DEF OlderThan
  <1>3. Cardinality(Older(Candidates, k)) < Cardinality(Older(Candidates, j))
    BY <1>1, <1>2, RankGrows
  <1>4. Cardinality(Older(Candidates, j)) < Quota(Cardinality(Candidates))
    BY DEF Evicted, Older
  <1>5. /\ Cardinality(Older(Candidates, k)) \in Nat
        /\ Cardinality(Older(Candidates, j)) \in Nat
    <2>1. \A i \in Candidates : Older(Candidates, i) \in SUBSET Ledger
      BY <1>1 DEF Older
    <2> QED BY <1>1, <2>1, LedgerIsFinite
  <1>6. Quota(Cardinality(Candidates)) \in Nat
    <2>1. Candidates # {} /\ Cardinality(Candidates) \in Nat \ {0}
      BY <1>1, LedgerIsFinite, FS_EmptySet
    <2> QED BY <2>1, QuotaIsPositive
  <1>7. Cardinality(Older(Candidates, k)) < Quota(Cardinality(Candidates))
    BY <1>3, <1>4, <1>5, <1>6
  <1>8. ~(Cardinality(Ledger) < MaxJobs)
    BY EvictedAreFinished
  <1> QED BY <1>1, <1>7, <1>8 DEF Evicted, Older

-----------------------------------------------------------------------------
(* The invariant *)

LEMMA Constants ==
  /\ MaxJobs \in Nat \ {0}
  /\ Submissions \in Nat
  /\ NoJob \notin Jobs
  /\ NoJob \notin JobRecord
  BY JobQueueAssumption, NoJobAssumption

LEMMA InitInv == Init => Inv
  <1> SUFFICES ASSUME Init PROVE Inv
    OBVIOUS
  <1>1. Ledger = {}
    BY DEF Init, Ledger
  <1>2. TypeOK
    <2>1. <<>> \in Seq(Jobs)
      OBVIOUS
    <2>2. clock \in Time /\ accepted \in 0 .. Submissions
      BY Constants, ClockAssumption DEF Init, Time
    <2> QED BY <2>1, <2>2 DEF Init, TypeOK
  <1>3. Numbered /\ Idle
    BY DEF Init, Numbered, Idle
  <1>4. QueueMatchesLedger
    <2>1. \A statuses : InStatus(statuses) = {}
      BY <1>1 DEF InStatus
    <2>2. ToSet(queue) = {} /\ Len(queue) = 0
      BY DEF Init, ToSet
    <2>3. phase # "serving" /\ \A w \in Workers : working[w] = NoJob
      BY DEF Init
    <2>4. \A m, n \in 1 .. Len(queue) : m < n => queue[m] < queue[n]
      BY <2>2
    <2>5. ToSet(queue) = InStatus({"queued"})
      BY <2>1, <2>2
    <2>6. \A v, w \in Workers : working[v] # NoJob /\ working[v] = working[w] => v = w
      BY <2>3
    <2> QED BY <2>3, <2>4, <2>5, <2>6 DEF QueueMatchesLedger
  <1>5. LedgerBounded
    BY <1>1, Constants, FS_EmptySet DEF LedgerBounded
  <1> QED BY <1>2, <1>3, <1>4, <1>5 DEF Inv

(* The ids in the queue are among those accepted. *)
LEMMA QueuedIds ==
  ASSUME Inv
  PROVE  /\ queue \in Seq(Jobs)
         /\ Len(queue) \in Nat
         /\ \A n \in 1 .. Len(queue) :
              /\ queue[n] \in Jobs
              /\ queue[n] \in InStatus({"queued"})
              /\ queue[n] <= accepted
         /\ \A j \in InStatus({"queued"}) : \E n \in 1 .. Len(queue) : j = queue[n]
  <1>1. queue \in Seq(Jobs)
    BY DEF Inv, TypeOK
  <1>2. Len(queue) \in Nat /\ DOMAIN queue = 1 .. Len(queue)
    BY <1>1, LenProperties
  <1>3. \A n \in 1 .. Len(queue) : queue[n] \in Jobs
    BY <1>1, ElementOfSeq
  <1>4. ToSet(queue) = InStatus({"queued"})
    BY DEF Inv, QueueMatchesLedger
  <1>5. ToSet(queue) = {queue[n] : n \in 1 .. Len(queue)}
    BY <1>2 DEF ToSet
  <1>6. \A j \in Ledger : j <= accepted
    <2>1. accepted \in Int /\ \A j \in Jobs : j \in Int
      BY Constants DEF Inv, TypeOK, Jobs
    <2> QED BY <2>1 DEF Inv, Numbered, Ledger
  <1> QED BY <1>1, <1>2, <1>3, <1>4, <1>5, <1>6 DEF InStatus

(* What the ledger holds after a step, in terms of what was kept. *)
LEMMA EnqueueLedger ==
  ASSUME Inv, Enqueue
  PROVE  /\ accepted + 1 \in Jobs
         /\ accepted + 1 \notin Ledger
         /\ Ledger' = (Ledger \ Evicted) \cup {accepted + 1}
         /\ \A j \in Ledger \ Evicted : jobs'[j] = jobs[j]
         /\ jobs'[accepted + 1] = [status |-> "queued", updated |-> clock]
         /\ jobs' \in [Jobs -> JobRecord \cup {NoJob}]
  <1>1. accepted + 1 \in Jobs /\ accepted + 1 > accepted
    BY Constants DEF Inv, TypeOK, Enqueue, Jobs
  <1>2. accepted + 1 \notin Ledger
    BY <1>1 DEF Inv, Numbered, Ledger
  <1> DEFINE new == [status |-> "queued", updated |-> clock]
  <1>3. new \in JobRecord
    BY DEF Inv, TypeOK, JobRecord
  <1>4. Kept \in [Jobs -> JobRecord \cup {NoJob}]
    BY DEF Kept, Inv, TypeOK
  <1>5. jobs' = [Kept EXCEPT ![accepted + 1] = new]
    BY DEF Enqueue
  <1>6. jobs' \in [Jobs -> JobRecord \cup {NoJob}]
    BY <1>3, <1>4, <1>5
  <1>7. jobs'[accepted + 1] = new /\ \A j \in Jobs \ {accepted + 1} : jobs'[j] = Kept[j]
    BY <1>1, <1>4, <1>5
  <1>8. \A j \in Jobs : Kept[j] = IF j \in Evicted THEN NoJob ELSE jobs[j]
    BY DEF Kept
  <1>9. new # NoJob
    BY <1>3, Constants
  <1>10. Ledger' = {j \in Jobs : jobs'[j] # NoJob}
    BY DEF Ledger
  <1>11. \A j \in Jobs : jobs'[j] # NoJob <=> j \in (Ledger \ Evicted) \cup {accepted + 1}
    BY <1>7, <1>8, <1>9 DEF Ledger
  <1>12. Ledger' = (Ledger \ Evicted) \cup {accepted + 1}
    <2>1. (Ledger \ Evicted) \cup {accepted + 1} \subseteq Jobs
      BY <1>1 DEF Ledger
    <2> QED BY <1>10, <1>11, <2>1
  <1>13. \A j \in Ledger \ Evicted : jobs'[j] = jobs[j]
    BY <1>2, <1>7, <1>8 DEF Ledger
  <1> QED BY <1>1, <1>2, <1>6, <1>7, <1>12, <1>13

LEMMA RefuseLedger ==
  ASSUME Inv, Refuse
  PROVE  /\ Ledger' = Ledger \ Evicted
         /\ \A j \in Ledger \ Evicted : jobs'[j] = jobs[j]
         /\ jobs' \in [Jobs -> JobRecord \cup {NoJob}]
  BY DEF Inv, TypeOK, Refuse, Kept, Ledger

(* Writing a status keeps the ledger and touches one job. *)
LEMMA StatusLedger ==
  ASSUME Inv, NEW k \in Ledger, NEW s \in {"queued", "running"} \cup Finished,
         jobs' = WithStatus(k, s)
  PROVE  /\ Ledger' = Ledger
         /\ \A j \in Ledger \ {k} : jobs'[j] = jobs[j]
         /\ jobs'[k].status = s
         /\ jobs' \in [Jobs -> JobRecord \cup {NoJob}]
  <1> DEFINE new == [status |-> s, updated |-> clock]
  <1>1. new \in JobRecord /\ new # NoJob
    BY Constants DEF Inv, TypeOK, JobRecord
  <1>2. jobs \in [Jobs -> JobRecord \cup {NoJob}] /\ k \in Jobs
    BY DEF Inv, TypeOK, Ledger
  <1>3. /\ jobs' \in [Jobs -> JobRecord \cup {NoJob}]
        /\ jobs'[k] = new
        /\ \A j \in Jobs \ {k} : jobs'[j] = jobs[j]
    BY <1>1, <1>2 DEF WithStatus
  <1> QED BY <1>1, <1>2, <1>3 DEF Ledger

(* A running job has a worker, a worker at a job runs it. *)
LEMMA WorkersRun ==
  ASSUME Inv, NEW w \in Workers, working[w] # NoJob
  PROVE  working[w] \in InStatus({"running"}) /\ phase = "serving"
  BY DEF Inv, Idle, QueueMatchesLedger

LEMMA StatusesDiffer ==
  ASSUME NEW j \in InStatus(Finished)
  PROVE  j \notin InStatus({"queued"}) /\ j \notin InStatus({"running"})
  BY DEF InStatus, Finished

LEMMA EnqueueInv ==
  ASSUME Inv, Enqueue
  PROVE  Inv'
  <1> DEFINE new == accepted + 1
  <1>1. queue' = Append(queue, new) /\ accepted' = new
    BY DEF Enqueue, Behind
  <1>2. /\ queue' \in Seq(Jobs)
        /\ Len(queue') = Len(queue) + 1
        /\ \A n \in 1 .. Len(queue) : queue'[n] = queue[n]
        /\ queue'[Len(queue) + 1] = new
    BY <1>1, QueuedIds, EnqueueLedger, AppendProperties
  <1>3. TypeOK'
    <2>1. new \in 0 .. Submissions
      BY EnqueueLedger, Constants DEF Jobs
    <2> QED BY <1>1, <1>2, <2>1, EnqueueLedger DEF Enqueue, Inv, TypeOK
  <1>4. Numbered'
    <2> SUFFICES ASSUME NEW j \in Jobs, j > new PROVE jobs'[j] = NoJob
      BY <1>1 DEF Numbered
    <2>1. j > accepted /\ j # new
      BY Constants DEF Inv, TypeOK, Jobs
    <2>2. j \notin Ledger
      BY <2>1 DEF Inv, Numbered, Ledger
    <2>3. j \notin Ledger'
      BY <2>1, <2>2, EnqueueLedger
    <2> QED BY <2>3 DEF Ledger
  <1>5. Idle'
    BY DEF Enqueue, Inv, Idle
  <1>6. QueueMatchesLedger'
    <2>1. InStatus({"queued"})' = InStatus({"queued"}) \cup {new}
      <3>1. \A j \in Evicted : j \notin InStatus({"queued"})
        BY EvictedAreFinished, StatusesDiffer
      <3> QED BY <3>1, EnqueueLedger DEF InStatus
    <2>2. InStatus({"running"})' = InStatus({"running"})
      <3>1. \A j \in Evicted : j \notin InStatus({"running"})
        BY EvictedAreFinished, StatusesDiffer
      <3> QED BY <3>1, EnqueueLedger DEF InStatus
    <2>3. ToSet(queue') = ToSet(queue) \cup {new}
      <3>1. DOMAIN queue' = 1 .. Len(queue) + 1 /\ DOMAIN queue = 1 .. Len(queue)
        BY <1>2, QueuedIds, LenProperties
      <3>2. 1 .. Len(queue) + 1 = (1 .. Len(queue)) \cup {Len(queue) + 1}
        BY QueuedIds
      <3> QED BY <1>2, <3>1, <3>2 DEF ToSet
    <2>4. \A m, n \in 1 .. Len(queue') : m < n => queue'[m] < queue'[n]
      <3> SUFFICES ASSUME NEW m \in 1 .. Len(queue) + 1, NEW n \in 1 .. Len(queue) + 1, m < n
                   PROVE  queue'[m] < queue'[n]
        BY <1>2
      <3>1. m \in 1 .. Len(queue)
        BY QueuedIds
      <3>2. CASE n = Len(queue) + 1
        <4>1. queue[m] <= accepted /\ queue[m] \in Int /\ accepted \in Int
          BY <3>1, QueuedIds, Constants DEF Jobs, Inv, TypeOK
        <4> QED BY <1>2, <3>1, <3>2, <4>1
      <3>3. CASE n \in 1 .. Len(queue)
        BY <1>2, <3>1, <3>3 DEF Inv, QueueMatchesLedger
      <3> QED BY <3>2, <3>3, QueuedIds
    <2>5. working' = working /\ phase' = phase
      BY DEF Enqueue
    <2> QED BY <2>1, <2>2, <2>3, <2>4, <2>5 DEF Inv, QueueMatchesLedger
  <1>7. LedgerBounded'
    <2>1. Ledger \ Evicted \in SUBSET Ledger
      OBVIOUS
    <2>2. IsFiniteSet(Ledger \ Evicted) /\ Cardinality(Ledger \ Evicted) \in Nat
      BY <2>1, LedgerIsFinite
    <2>3. Cardinality(Ledger') = Cardinality(Ledger \ Evicted) + 1
      BY <2>2, EnqueueLedger, FS_AddElement
    <2>4. Cardinality(Ledger \ Evicted) < MaxJobs
      BY DEF Enqueue, Room
    <2>5. Cardinality(Ledger') <= MaxJobs
      BY <2>2, <2>3, <2>4, Constants
    <2> QED BY <2>5 DEF LedgerBounded
  <1> QED BY <1>3, <1>4, <1>5, <1>6, <1>7 DEF Inv

LEMMA RefuseInv ==
  ASSUME Inv, Refuse
  PROVE  Inv'
  <1>1. TypeOK' /\ Idle'
    BY RefuseLedger DEF Refuse, Inv, TypeOK, Idle
  <1>2. Numbered'
    <2>1. \A j \in Jobs : jobs[j] = NoJob => jobs'[j] = NoJob
      BY RefuseLedger DEF Ledger
    <2> QED BY <2>1 DEF Refuse, Inv, Numbered
  <1>3. QueueMatchesLedger'
    <2>1. \A j \in Evicted : j \notin InStatus({"queued"}) /\ j \notin InStatus({"running"})
      BY EvictedAreFinished, StatusesDiffer
    <2>2. InStatus({"queued"})' = InStatus({"queued"})
      BY <2>1, RefuseLedger DEF InStatus
    <2>3. InStatus({"running"})' = InStatus({"running"})
      BY <2>1, RefuseLedger DEF InStatus
    <2> QED BY <2>2, <2>3 DEF Refuse, Inv, QueueMatchesLedger
  <1>4. LedgerBounded'
    <2>1. Ledger' \in SUBSET Ledger
      BY RefuseLedger
    <2>2. Cardinality(Ledger') \in Nat /\ Cardinality(Ledger') <= Cardinality(Ledger)
      BY <2>1, LedgerIsFinite
    <2> QED BY <2>2, LedgerIsFinite, Constants DEF Inv, LedgerBounded
  <1> QED BY <1>1, <1>2, <1>3, <1>4 DEF Inv

(* A worker takes the first job: the least of the queued ones. *)
LEMMA HeadIsQueued ==
  ASSUME Inv, queue # <<>>
  PROVE  /\ Head(queue) = queue[1]
         /\ Head(queue) \in InStatus({"queued"})
         /\ Head(queue) \in Ledger
         /\ \A j \in InStatus({"queued"}) : Head(queue) <= j
         /\ Tail(queue) \in Seq(Jobs)
         /\ Len(Tail(queue)) = Len(queue) - 1
         /\ \A n \in 1 .. Len(queue) - 1 : Tail(queue)[n] = queue[n + 1]
         /\ ToSet(Tail(queue)) = InStatus({"queued"}) \ {Head(queue)}
  <1>1. Len(queue) \in Nat \ {0} /\ Head(queue) = queue[1]
    BY QueuedIds, EmptySeq
  <1>2. 1 \in 1 .. Len(queue)
    BY <1>1
  <1>3. Head(queue) \in InStatus({"queued"}) /\ Head(queue) \in Ledger
    BY <1>1, <1>2, QueuedIds DEF InStatus
  <1>4. \A n \in 1 .. Len(queue) : n # 1 => queue[1] < queue[n]
    <2>1. \A n \in 1 .. Len(queue) : n # 1 => 1 < n
      BY <1>1
    <2> QED BY <1>2, <2>1 DEF Inv, QueueMatchesLedger
  <1>5. \A n \in 1 .. Len(queue) : queue[1] <= queue[n]
    <2>1. \A n \in 1 .. Len(queue) : queue[n] \in Int
      BY QueuedIds, Constants DEF Jobs
    <2> QED BY <1>2, <1>4, <2>1
  <1>6. \A j \in InStatus({"queued"}) : Head(queue) <= j
    BY <1>1, <1>5, QueuedIds
  <1>7. /\ Tail(queue) \in Seq(Jobs)
        /\ Len(Tail(queue)) = Len(queue) - 1
        /\ \A n \in 1 .. Len(queue) - 1 : Tail(queue)[n] = queue[n + 1]
    BY QueuedIds, HeadTailProperties
  <1>8. ToSet(Tail(queue)) = {queue[n + 1] : n \in 1 .. Len(queue) - 1}
    <2>1. DOMAIN Tail(queue) = 1 .. Len(queue) - 1
      BY <1>7, LenProperties
    <2> QED BY <1>7, <2>1 DEF ToSet
  <1>9. \A n \in 1 .. Len(queue) - 1 :
          n + 1 \in 1 .. Len(queue) /\ n + 1 # 1
    BY <1>1
  <1>10. \A n \in 1 .. Len(queue) : n # 1 => n - 1 \in 1 .. Len(queue) - 1 /\ n = (n - 1) + 1
    BY <1>1
  <1>11. \A n \in 1 .. Len(queue) : n # 1 => queue[n] # queue[1]
    <2>1. \A n \in 1 .. Len(queue) : queue[n] \in Int
      BY QueuedIds, Constants DEF Jobs
    <2> QED BY <1>2, <1>4, <2>1
  <1>12. ToSet(Tail(queue)) \subseteq InStatus({"queued"}) \ {Head(queue)}
    BY <1>1, <1>8, <1>9, <1>11, QueuedIds
  <1>13. ASSUME NEW j \in InStatus({"queued"}) \ {Head(queue)} PROVE j \in ToSet(Tail(queue))
    <2>1. PICK n \in 1 .. Len(queue) : j = queue[n]
      BY QueuedIds
    <2>2. n # 1
      BY <1>1, <2>1
    <2> QED BY <1>8, <1>10, <2>1, <2>2
  <1> QED BY <1>1, <1>3, <1>6, <1>7, <1>12, <1>13

LEMMA TakeInv ==
  ASSUME Inv, NEW w \in Workers, Take(w)
  PROVE  Inv'
  <1> DEFINE j == Head(queue)
  <1>1. queue # <<>> /\ phase = "serving" /\ working[w] = NoJob
    BY DEF Take
  <1>2. j \in Ledger /\ jobs[j] # NoJob /\ j \in Jobs
    BY <1>1, HeadIsQueued DEF Ledger
  <1>3. /\ queue' = Tail(queue)
        /\ jobs' = WithStatus(j, "running")
        /\ working' = [working EXCEPT ![w] = j]
        /\ UNCHANGED <<clock, phase, accepted>>
    BY <1>2 DEF Take
  <1>4. /\ Ledger' = Ledger
        /\ \A k \in Ledger \ {j} : jobs'[k] = jobs[k]
        /\ jobs'[j].status = "running"
        /\ jobs' \in [Jobs -> JobRecord \cup {NoJob}]
    BY <1>2, <1>3, StatusLedger
  <1>5. working' \in [Workers -> Jobs \cup {NoJob}]
    BY <1>2, <1>3 DEF Inv, TypeOK
  <1>6. TypeOK'
    BY <1>1, <1>3, <1>4, <1>5, HeadIsQueued DEF Inv, TypeOK
  <1>7. Numbered'
    BY <1>3, <1>4 DEF Inv, Numbered, Ledger
  <1>8. Idle'
    BY <1>1, <1>3 DEF Inv, Idle
  <1>9. QueueMatchesLedger'
    <2>1. InStatus({"queued"})' = InStatus({"queued"}) \ {j}
      BY <1>4 DEF InStatus
    <2>2. InStatus({"running"})' = InStatus({"running"}) \cup {j}
      BY <1>2, <1>4 DEF InStatus
    <2>3. ToSet(queue') = InStatus({"queued"})'
      BY <1>1, <1>3, <2>1, HeadIsQueued
    <2>4. \A m, n \in 1 .. Len(queue') : m < n => queue'[m] < queue'[n]
      <3>1. \A n \in 1 .. Len(queue) - 1 : n + 1 \in 1 .. Len(queue)
        BY QueuedIds
      <3>2. \A m, n \in 1 .. Len(queue) - 1 : m < n => m + 1 < n + 1
        BY QueuedIds
      <3> QED BY <1>1, <1>3, <3>1, <3>2, HeadIsQueued DEF Inv, QueueMatchesLedger
    <2>5. working \in [Workers -> Jobs \cup {NoJob}]
      BY DEF Inv, TypeOK
    <2>6. working'[w] = j /\ \A v \in Workers \ {w} : working'[v] = working[v]
      BY <1>3, <2>5
    <2>7. {working'[v] : v \in Workers} \ {NoJob}
            = ({working[v] : v \in Workers} \ {NoJob}) \cup {j}
      <3>1. j # NoJob
        BY <1>2, Constants
      <3> QED BY <1>1, <2>6, <3>1
    <2>8. \A v \in Workers : working[v] # j
      <3>1. j \notin InStatus({"running"})
        BY <1>1, HeadIsQueued DEF InStatus
      <3>2. j # NoJob
        BY <1>2, Constants
      <3> QED BY <3>1, <3>2, WorkersRun
    <2>9. \A u, v \in Workers : working'[u] # NoJob /\ working'[u] = working'[v] => u = v
      BY <2>6, <2>8 DEF Inv, QueueMatchesLedger
    <2>10. InStatus({"running"})' = {working'[v] : v \in Workers} \ {NoJob}
      BY <1>1, <2>2, <2>7 DEF Inv, QueueMatchesLedger
    <2> QED BY <2>3, <2>4, <2>9, <2>10 DEF QueueMatchesLedger
  <1>10. LedgerBounded'
    BY <1>4 DEF Inv, LedgerBounded
  <1> QED BY <1>6, <1>7, <1>8, <1>9, <1>10 DEF Inv

LEMMA FinishInv ==
  ASSUME Inv, NEW w \in Workers, Finish(w)
  PROVE  Inv'
  <1> DEFINE j == working[w]
  <1>1. j # NoJob /\ phase = "serving"
    BY DEF Finish
  <1>2. j \in InStatus({"running"}) /\ j \in Ledger
    BY <1>1, WorkersRun DEF InStatus
  <1>3. /\ working' = [working EXCEPT ![w] = NoJob]
        /\ UNCHANGED <<clock, phase, accepted, queue>>
    BY DEF Finish
  <1>4. PICK s \in Finished : jobs' = WithStatus(j, s)
    BY DEF Finish
  <1>5. /\ Ledger' = Ledger
        /\ \A k \in Ledger \ {j} : jobs'[k] = jobs[k]
        /\ jobs'[j].status = s
        /\ jobs' \in [Jobs -> JobRecord \cup {NoJob}]
    BY <1>2, <1>4, StatusLedger
  <1>6. s # "queued" /\ s # "running"
    BY DEF Finished
  <1>7. TypeOK'
    BY <1>3, <1>5 DEF Inv, TypeOK
  <1>8. Numbered'
    BY <1>3, <1>5 DEF Inv, Numbered, Ledger
  <1>9. Idle'
    BY <1>1, <1>3 DEF Inv, Idle
  <1>10. QueueMatchesLedger'
    <2>1. InStatus({"queued"})' = InStatus({"queued"})
      BY <1>2, <1>5, <1>6 DEF InStatus
    <2>2. InStatus({"running"})' = InStatus({"running"}) \ {j}
      BY <1>2, <1>5, <1>6 DEF InStatus
    <2>3. working \in [Workers -> Jobs \cup {NoJob}]
      BY DEF Inv, TypeOK
    <2>4. working'[w] = NoJob /\ \A v \in Workers \ {w} : working'[v] = working[v]
      BY <1>3, <2>3
    <2>5. \A v \in Workers \ {w} : working[v] # j
      BY <1>1 DEF Inv, QueueMatchesLedger
    <2>6. {working'[v] : v \in Workers} \ {NoJob}
            = ({working[v] : v \in Workers} \ {NoJob}) \ {j}
      BY <2>4, <2>5
    <2>7. \A u, v \in Workers : working'[u] # NoJob /\ working'[u] = working'[v] => u = v
      BY <2>4 DEF Inv, QueueMatchesLedger
    <2>8. InStatus({"running"})' = {working'[v] : v \in Workers} \ {NoJob}
      BY <1>1, <2>2, <2>6 DEF Inv, QueueMatchesLedger
    <2> QED BY <1>3, <2>1, <2>7, <2>8 DEF Inv, QueueMatchesLedger
  <1>11. LedgerBounded'
    BY <1>5 DEF Inv, LedgerBounded
  <1> QED BY <1>7, <1>8, <1>9, <1>10, <1>11 DEF Inv

(* The steps that leave the ledger and the queue alone. *)
LEMMA OtherStepsInv ==
  ASSUME Inv, Start \/ Stop \/ Tick \/ UNCHANGED vars
  PROVE  Inv'
  <1>1. UNCHANGED <<accepted, jobs, queue>>
    BY DEF Start, Stop, Tick, vars
  <1>2. Ledger' = Ledger /\ \A statuses : InStatus(statuses)' = InStatus(statuses)
    BY <1>1 DEF InStatus, Ledger
  <1>3. Numbered' /\ LedgerBounded'
    BY <1>1, <1>2 DEF Inv, Numbered, LedgerBounded
  <1>4. CASE Start
    <2>1. accepted = 0 /\ \A w \in Workers : working[w] = NoJob
      BY <1>4 DEF Start, Inv, Idle
    <2>2. Ledger = {}
      <3>1. \A j \in Jobs : j > 0
        BY Constants DEF Jobs
      <3> QED BY <2>1, <3>1 DEF Inv, Numbered, Ledger
    <2>3. InStatus({"running"}) = {}
      BY <2>2 DEF InStatus
    <2>4. TypeOK' /\ Idle'
      BY <1>4 DEF Start, Inv, TypeOK, Idle
    <2>5. {working[w] : w \in Workers} \ {NoJob} = {}
      BY <2>1
    <2>6. QueueMatchesLedger'
      BY <1>2, <1>4, <2>3, <2>5 DEF Start, Inv, QueueMatchesLedger
    <2> QED BY <1>3, <2>4, <2>6 DEF Inv
  <1>5. CASE Stop
    <2>1. TypeOK' /\ Idle'
      BY <1>5 DEF Stop, Inv, TypeOK, Idle
    <2>2. QueueMatchesLedger'
      BY <1>2, <1>5 DEF Stop, Inv, QueueMatchesLedger
    <2> QED BY <1>3, <2>1, <2>2 DEF Inv
  <1>6. CASE Tick \/ UNCHANGED vars
    <2>1. clock' \in Time
      BY <1>6, ClockAssumption DEF Tick, vars, ClockAdvances, Inv, TypeOK, Time
    <2>2. UNCHANGED <<phase, working>>
      BY <1>6 DEF Tick, vars
    <2>3. TypeOK' /\ Idle'
      BY <1>1, <2>1, <2>2 DEF Inv, TypeOK, Idle
    <2>4. QueueMatchesLedger'
      BY <1>1, <1>2, <2>2 DEF Inv, QueueMatchesLedger
    <2> QED BY <1>3, <2>3, <2>4 DEF Inv
  <1> QED BY <1>4, <1>5, <1>6

LEMMA NextInv == Inv /\ [Next]_vars => Inv'
  <1> SUFFICES ASSUME Inv, [Next]_vars PROVE Inv'
    OBVIOUS
  <1>1. CASE Enqueue
    BY <1>1, EnqueueInv
  <1>2. CASE Refuse
    BY <1>2, RefuseInv
  <1>3. ASSUME NEW w \in Workers, Take(w) PROVE Inv'
    BY <1>3, TakeInv
  <1>4. ASSUME NEW w \in Workers, Finish(w) PROVE Inv'
    BY <1>4, FinishInv
  <1>5. CASE Start \/ Stop \/ Tick \/ UNCHANGED vars
    BY <1>5, OtherStepsInv
  <1> QED BY <1>1, <1>2, <1>3, <1>4, <1>5 DEF Next

(* The inductive invariant of the queue. *)
THEOREM QueueInvariant == Spec => []Inv
  <1> QED BY InitInv, NextInv, PTL DEF Spec

(* Every reachable state of the queue is well typed. *)
THEOREM QueueTypeCorrect == Spec => []TypeOK
  <1>1. Inv => TypeOK
    BY DEF Inv
  <1> QED BY <1>1, QueueInvariant, PTL

(* Queue, ledger and workers never drift apart: no id is popped whose job  *)
(* was dropped, and no job is run twice (job_queue.py, _worker_loop).      *)
THEOREM NeverDriftsApart == Spec => []QueueMatchesLedger
  <1>1. Inv => QueueMatchesLedger
    BY DEF Inv
  <1> QED BY <1>1, QueueInvariant, PTL

(* The ledger never holds more than MaxJobs (job_queue.py, enqueue). *)
THEOREM LedgerStaysBounded == Spec => []LedgerBounded
  <1>1. Inv => LedgerBounded
    BY DEF Inv
  <1> QED BY <1>1, QueueInvariant, PTL

(* A submission is refused only while no job in the ledger is finished.    *)
THEOREM RefusedOnlyWhenBusy == Spec => []RefusesOnlyLiveJobs
  <1>1. Inv => RefusesOnlyLiveJobs
    BY EvictionMakesRoom DEF Inv, RefusesOnlyLiveJobs
  <1> QED BY <1>1, QueueInvariant, PTL

(* A job leaves a full ledger only, finished, and none that finished       *)
(* before it stays.                                                        *)
THEOREM OldestGoFirst == Spec => DropsOldestFinished
  <1> DEFINE Drops ==
        \A j \in Ledger : jobs'[j] = NoJob =>
          /\ jobs[j].status \in Finished
          /\ Cardinality(Ledger) >= MaxJobs
          /\ \A k \in Ledger :
               jobs[k].status \in Finished /\ jobs[k].updated < jobs[j].updated =>
                 jobs'[k] = NoJob
  <1>1. ASSUME Inv, [Next]_vars PROVE [Drops]_vars
    <2> SUFFICES ASSUME Next, NEW j \in Ledger, jobs'[j] = NoJob
                 PROVE  /\ jobs[j].status \in Finished
                        /\ Cardinality(Ledger) >= MaxJobs
                        /\ \A k \in Ledger :
                             jobs[k].status \in Finished /\ jobs[k].updated < jobs[j].updated =>
                               jobs'[k] = NoJob
      BY <1>1
    <2>1. jobs[j] # NoJob /\ j \notin Ledger'
      BY DEF Ledger
    <2>2. CASE Enqueue \/ Refuse
      <3>1. j \in Evicted
        BY <1>1, <2>1, <2>2, EnqueueLedger, RefuseLedger
      <3>2. \A k \in Evicted : jobs'[k] = NoJob
        <4>1. \A k \in Evicted : k \in Ledger
          BY EvictedAreFinished
        <4>2. \A k \in Evicted : k \notin Ledger'
          BY <1>1, <2>2, <4>1, EnqueueLedger, RefuseLedger
        <4> QED BY <4>1, <4>2 DEF Ledger
      <3>3. jobs[j].status \in Finished
        BY <3>1, EvictedAreFinished DEF InStatus
      <3>4. Cardinality(Ledger) >= MaxJobs
        BY <3>1, EvictedAreFinished, LedgerIsFinite, Constants
      <3>5. ASSUME NEW k \in Ledger, jobs[k].status \in Finished,
                   jobs[k].updated < jobs[j].updated
            PROVE  jobs'[k] = NoJob
        <4>1. k \in InStatus(Finished)
          BY <3>5 DEF InStatus
        <4> QED BY <1>1, <3>1, <3>2, <3>5, <4>1, ElderIsEvictedToo DEF Inv
      <3> QED BY <3>3, <3>4, <3>5
    <2>3. CASE \E w \in Workers : Take(w)
      <3>1. PICK w \in Workers : Take(w)
        BY <2>3
      <3>2. Head(queue) \in Ledger /\ jobs[Head(queue)] # NoJob
        BY <1>1, <3>1, HeadIsQueued DEF Take, Ledger
      <3>3. jobs' = WithStatus(Head(queue), "running")
        BY <3>1, <3>2 DEF Take
      <3>4. Ledger' = Ledger
        BY <1>1, <3>2, <3>3, StatusLedger
      <3> QED BY <2>1, <3>4
    <2>4. CASE \E w \in Workers : Finish(w)
      <3>1. PICK w \in Workers : Finish(w)
        BY <2>4
      <3>2. working[w] \in Ledger
        BY <1>1, <3>1, WorkersRun DEF Finish, InStatus
      <3>3. PICK s \in Finished : jobs' = WithStatus(working[w], s)
        BY <3>1 DEF Finish
      <3>4. Ledger' = Ledger
        BY <1>1, <3>2, <3>3, StatusLedger
      <3> QED BY <2>1, <3>4
    <2>5. CASE Start \/ Stop \/ Tick
      BY <2>1, <2>5 DEF Start, Stop, Tick
    <2> QED BY <2>2, <2>3, <2>4, <2>5 DEF Next
  <1> QED BY <1>1, QueueInvariant, PTL DEF Spec, DropsOldestFinished

(* A job is taken in its turn, ends once, and stays what it ended as.      *)
THEOREM JobsMoveForward == Spec => StatusMovesForward
  <1> DEFINE Moves ==
        \A j \in Ledger : jobs'[j] # NoJob /\ jobs'[j] # jobs[j] =>
          \/ /\ jobs[j].status = "queued" /\ jobs'[j].status = "running"
             /\ \A k \in InStatus({"queued"}) : j <= k
          \/ jobs[j].status = "running" /\ jobs'[j].status \in Finished
  <1>1. ASSUME Inv, [Next]_vars PROVE [Moves]_vars
    <2> SUFFICES ASSUME Next, NEW j \in Ledger, jobs'[j] # NoJob, jobs'[j] # jobs[j]
                 PROVE  \/ /\ jobs[j].status = "queued" /\ jobs'[j].status = "running"
                           /\ \A k \in InStatus({"queued"}) : j <= k
                        \/ jobs[j].status = "running" /\ jobs'[j].status \in Finished
      BY <1>1
    <2>1. CASE Enqueue \/ Refuse
      <3>1. j \notin Ledger \ Evicted
        BY <1>1, <2>1, EnqueueLedger, RefuseLedger
      <3>2. j \notin Ledger'
        BY <1>1, <2>1, <3>1, EnqueueLedger, RefuseLedger
      <3> QED BY <3>2 DEF Ledger
    <2>2. CASE \E w \in Workers : Take(w)
      <3>1. PICK w \in Workers : Take(w)
        BY <2>2
      <3>2. Head(queue) \in InStatus({"queued"}) /\ Head(queue) \in Ledger
        BY <1>1, <3>1, HeadIsQueued DEF Take
      <3>3. jobs' = WithStatus(Head(queue), "running")
        BY <3>1, <3>2 DEF Take, Ledger
      <3>4. j = Head(queue)
        BY <1>1, <3>2, <3>3, StatusLedger
      <3>5. jobs'[j].status = "running"
        BY <1>1, <3>2, <3>3, <3>4, StatusLedger
      <3>6. \A k \in InStatus({"queued"}) : j <= k
        BY <1>1, <3>1, <3>4, HeadIsQueued DEF Take
      <3> QED BY <3>2, <3>4, <3>5, <3>6 DEF InStatus
    <2>3. CASE \E w \in Workers : Finish(w)
      <3>1. PICK w \in Workers : Finish(w)
        BY <2>3
      <3>2. working[w] \in InStatus({"running"}) /\ working[w] \in Ledger
        BY <1>1, <3>1, WorkersRun DEF Finish, InStatus
      <3>3. PICK s \in Finished : jobs' = WithStatus(working[w], s)
        BY <3>1 DEF Finish
      <3>4. j = working[w] /\ jobs'[j].status = s
        BY <1>1, <3>2, <3>3, StatusLedger
      <3> QED BY <3>2, <3>4 DEF InStatus
    <2>4. CASE Start \/ Stop \/ Tick
      BY <2>4 DEF Start, Stop, Tick
    <2> QED BY <2>1, <2>2, <2>3, <2>4 DEF Next
  <1> QED BY <1>1, QueueInvariant, PTL DEF Spec, StatusMovesForward
=============================================================================
