------------------------- MODULE SharedBanditProofs -------------------------
(***************************************************************************)
(* What SharedBandit promises, for any number of instances, transactions,  *)
(* failures and restarts.                                                  *)
(*                                                                         *)
(* PayloadsCoherent is not inductive: that a registration may add t to the *)
(* pending decisions of a payload needs t not to be among those it learned *)
(* from, which holds because feedback waits for the answer.  Sound says so *)
(* of a payload, and Owned that one instance at a time is at a             *)
(* transaction, so that no other method changes its status meanwhile.      *)
(*                                                                         *)
(* KeptInv adds what a 200 rests on: the memory that is about to be        *)
(* written has learned, and the rounds of the loop were paid for by        *)
(* failures.                                                               *)
(***************************************************************************)
EXTENDS SharedBandit, FiniteSetTheorems, TLAPS

Early == {"none", "registering"}

Sound(p, st) ==
  /\ p \in Payload
  /\ Coherent(p)
  /\ IsFiniteSet(p.learned)
  /\ \A t \in p.learned : st[t] \notin Early

PayloadsSound ==
  /\ redis # Nil => Sound(redis, status)
  /\ \A i \in Instances : Sound(mem[i], status) /\ Sound(file[i], status)

Owned ==
  \A i \in Instances : running[i] # Nil =>
    /\ home[running[i].txn] = i
    /\ status[running[i].txn] \in {"registering", "scoring"}

Inv == TypeOK /\ Owned /\ PayloadsSound

-----------------------------------------------------------------------------
LEMMA PurgedSound ==
  ASSUME NEW p, Sound(p, status) PROVE Sound(Purged(p), status)
  BY DEF Sound, Purged, Payload, Coherent

LEMMA ReloadedSound ==
  ASSUME NEW i \in Instances, PayloadsSound
  PROVE  Sound(Reloaded(i), status)
  BY PurgedSound DEF PayloadsSound, Reloaded

LEMMA MutatedSound ==
  ASSUME NEW p, NEW t \in Txns, Sound(p, status),
         status[t] \in {"registering", "scoring"}
  PROVE  Sound(Mutated(t, p), status)
  <1> DEFINE q == Purged(p)
  <1>1. Sound(q, status) /\ q.learned = p.learned /\ q.total = p.total
    BY PurgedSound DEF Purged, Sound, Payload
  <1>2. CASE Registering(t)
    <2>1. Mutated(t, p) = [q EXCEPT !.pending = @ \cup {t}]
      BY <1>2 DEF Mutated
    <2>2. t \notin q.learned
      BY <1>1, <1>2 DEF Sound, Early, Registering
    <2> QED BY <1>1, <2>1, <2>2 DEF Sound, Payload, Coherent
  <1>3. CASE ~Registering(t) /\ Raises(t, p)
    BY <1>1, <1>3 DEF Mutated
  <1>4. CASE ~Registering(t) /\ ~Raises(t, p)
    <2>1. /\ t \in q.pending
          /\ Mutated(t, p) = [pending |-> q.pending \ {t},
                              learned |-> q.learned \cup {t},
                              total   |-> q.total + 1]
      BY <1>1, <1>4 DEF Mutated, Raises
    <2>2. t \notin q.learned
      BY <1>1, <2>1 DEF Sound, Coherent
    <2>3. /\ IsFiniteSet(q.learned \cup {t})
          /\ Cardinality(q.learned \cup {t}) = Cardinality(q.learned) + 1
      BY <1>1, <2>2, FS_AddElement DEF Sound
    <2>4. status[t] \notin Early
      BY <1>4 DEF Registering, Early
    <2> QED BY <1>1, <2>1, <2>3, <2>4 DEF Sound, Payload, Coherent
  <1> QED BY <1>2, <1>3, <1>4

(* A transaction that is no longer early never is again. *)
LEMMA SoundForward ==
  ASSUME NEW p, NEW st, NEW st2, Sound(p, st),
         \A t \in Txns : st[t] \notin Early => st2[t] \notin Early
  PROVE  Sound(p, st2)
  BY DEF Sound, Payload

-----------------------------------------------------------------------------
LEMMA InitInv == Init => Inv
  <1> SUFFICES ASSUME Init PROVE Inv
    OBVIOUS
  <1>1. Sound(Fresh, status)
    BY FS_EmptySet DEF Sound, Fresh, Payload, Coherent
  <1>2. TypeOK
    BY SharedAssumption
    DEF Init, TypeOK, Status, Fresh, Payload
  <1> QED BY <1>1, <1>2 DEF Init, Inv, Owned, PayloadsSound

(* What a transaction's status does when its method ends. *)
LEMMA EndsForward ==
  ASSUME Inv, NEW i \in Instances, running[i] # Nil,
         NEW outcome \in Status \ Early, Ends(i, outcome),
         home' = home
  PROVE  /\ running' \in [Instances -> Method \cup {Nil}]
         /\ status' \in [Txns -> Status]
         /\ Owned'
         /\ \A t \in Txns : status[t] \notin Early => status'[t] \notin Early
  <1>1. running[i] \in Method /\ running[i].txn \in Txns
    BY DEF Inv, TypeOK, Method
  <1>2. /\ running' = [running EXCEPT ![i] = Nil]
        /\ status' = [status EXCEPT ![running[i].txn] = outcome]
    BY DEF Ends
  <1>3. ASSUME NEW j \in Instances, running'[j] # Nil
        PROVE  /\ home'[running'[j].txn] = j
               /\ status'[running'[j].txn] \in {"registering", "scoring"}
    <2>1. j # i /\ running'[j] = running[j]
      BY <1>2, <1>3 DEF Inv, TypeOK
    <2>2. running[j].txn # running[i].txn
      BY <1>3, <2>1 DEF Inv, Owned
    <2>3. running[j].txn \in Txns
      BY <1>3, <2>1 DEF Inv, TypeOK, Method
    <2> QED BY <1>2, <1>3, <2>1, <2>2, <2>3 DEF Inv, Owned, TypeOK
  <1> QED BY <1>1, <1>2, <1>3 DEF Inv, TypeOK, Owned

(* The handler of the loop keeps the method where it is.                   *)
LEMMA NextRoundOwned ==
  ASSUME Inv, NEW i \in Instances, running[i] # Nil, NextRound(i), home' = home
  PROVE  running' \in [Instances -> Method \cup {Nil}] /\ Owned'
  <1>1. running[i] \in Method
    BY DEF Inv, TypeOK
  <1> DEFINE m == AfterFailure(running[i])
  <1>2. m \in Method /\ m.txn = running[i].txn
    BY <1>1, SharedAssumption DEF Method, AfterFailure
  <1>3. running' = [running EXCEPT ![i] = m]
    BY DEF NextRound
  <1>4. running' \in [Instances -> Method \cup {Nil}]
    BY <1>2, <1>3 DEF Inv, TypeOK
  <1>5. status' = status
    BY DEF NextRound
  <1>6. Owned'
    BY <1>2, <1>3, <1>5 DEF Inv, TypeOK, Owned
  <1> QED BY <1>4, <1>6

(* A payload at one place replaced by a sound one leaves all sound.        *)
LEMMA ReplacedSound ==
  ASSUME Inv, NEW i \in Instances,
         \A t \in Txns : status[t] \notin Early => status'[t] \notin Early,
         NEW p, Sound(p, status),
         mem' = mem \/ mem' = [mem EXCEPT ![i] = p],
         file' = file \/ file' = [file EXCEPT ![i] = p],
         redis' = redis \/ redis' = p
  PROVE  /\ redis' \in Payload \cup {Nil}
         /\ mem' \in [Instances -> Payload]
         /\ file' \in [Instances -> Payload]
         /\ PayloadsSound'
  <1>1. Sound(p, status') /\ p \in Payload
    BY SoundForward DEF Sound
  <1>2. redis # Nil => Sound(redis, status')
    BY SoundForward DEF Inv, PayloadsSound
  <1>3. \A j \in Instances : Sound(mem[j], status') /\ Sound(file[j], status')
    BY SoundForward DEF Inv, PayloadsSound
  <1>4. redis' # Nil => Sound(redis', status')
    BY <1>1, <1>2
  <1>5. ASSUME NEW j \in Instances
        PROVE  Sound(mem'[j], status') /\ Sound(file'[j], status')
    BY <1>1, <1>3 DEF Inv, TypeOK
  <1>6. PayloadsSound'
    BY <1>4, <1>5 DEF PayloadsSound
  <1> QED BY <1>1, <1>6 DEF Inv, TypeOK

LEMMA FaultsType ==
  ASSUME Inv, NoFault \/ Fault PROVE faults' \in 0 .. MaxFaults
  BY SharedAssumption DEF Inv, TypeOK, NoFault, Fault

-----------------------------------------------------------------------------
LEMMA BeginInv ==
  ASSUME Inv, NEW i \in Instances, NEW t \in Txns, Register(i, t) \/ Feedback(i, t)
  PROVE  Inv'
  <1> DEFINE m == [txn |-> t, step |-> "get", round |-> 1]
  <1>1. m \in Method
    BY SharedAssumption DEF Method
  <1>2. /\ running[i] = Nil
        /\ running' = [running EXCEPT ![i] = m]
        /\ home' = [home EXCEPT ![t] = i]
        /\ status[t] \in {"none", "open", "gone"}
        /\ status' = [status EXCEPT ![t] =
                         IF status[t] = "none" THEN "registering" ELSE "scoring"]
        /\ UNCHANGED <<redis, mem, file, connected, expired, faults, restarts, up>>
    <2>1. CASE Register(i, t)
      BY <2>1 DEF Register, Begins, storage, Inv, TypeOK
    <2>2. CASE Feedback(i, t)
      BY <2>2 DEF Feedback, Begins, storage, Inv, TypeOK
    <2> QED BY <2>1, <2>2
  <1>3. TypeOK'
    BY <1>1, <1>2 DEF Inv, TypeOK, Status
  <1>4. ASSUME NEW j \in Instances, running'[j] # Nil
        PROVE  /\ home'[running'[j].txn] = j
               /\ status'[running'[j].txn] \in {"registering", "scoring"}
    <2>1. CASE j = i
      BY <1>2, <2>1 DEF Inv, TypeOK
    <2>2. CASE j # i
      <3>1. running'[j] = running[j]
        BY <1>2, <2>2 DEF Inv, TypeOK
      <3>2. running[j].txn \in Txns /\ running[j].txn # t
        BY <1>2, <1>4, <3>1 DEF Inv, TypeOK, Method, Owned
      <3> QED BY <1>2, <1>4, <3>1, <3>2 DEF Inv, TypeOK, Owned
    <2> QED BY <2>1, <2>2
  <1>5. \A u \in Txns : status[u] \notin Early => status'[u] \notin Early
    BY <1>2 DEF Inv, TypeOK, Early
  <1>6. PayloadsSound'
    BY <1>2, <1>5, SoundForward DEF Inv, PayloadsSound
  <1> QED BY <1>3, <1>4, <1>6 DEF Inv, Owned

LEMMA GetAndMutateInv ==
  ASSUME Inv, NEW i \in Instances, GetAndMutate(i) PROVE Inv'
  <1> DEFINE t == running[i].txn
             p == Mutated(t, Reloaded(i))
  <1>1. /\ running[i] # Nil /\ running[i] \in Method /\ t \in Txns
        /\ status[t] \in {"registering", "scoring"}
    BY DEF GetAndMutate, At, Inv, TypeOK, Owned, Method
  <1>2. Sound(p, status)
    BY <1>1, ReloadedSound, MutatedSound DEF Inv
  <1>3. UNCHANGED <<redis, file, connected, home, expired, restarts, up>>
        /\ mem' = [mem EXCEPT ![i] = p] /\ NoFault
    BY DEF GetAndMutate
  <1>4. /\ running' \in [Instances -> Method \cup {Nil}]
        /\ status' \in [Txns -> Status]
        /\ Owned'
        /\ \A u \in Txns : status[u] \notin Early => status'[u] \notin Early
    <2>1. CASE Raises(t, Reloaded(i))
      <3>1. Ends(i, "gone")
        BY <2>1 DEF GetAndMutate
      <3> QED BY <1>1, <1>3, <3>1, EndsForward DEF Status, Early
    <2>2. CASE ~Raises(t, Reloaded(i))
      <3>1. /\ running' = [running EXCEPT ![i].step = "exec"]
            /\ status' = status
        BY <2>2 DEF GetAndMutate
      <3>2. [running[i] EXCEPT !.step = "exec"] \in Method
        BY <1>1 DEF Method
      <3>3. running' \in [Instances -> Method \cup {Nil}]
        BY <3>1, <3>2 DEF Inv, TypeOK
      <3>4. \A j \in Instances : running'[j] # Nil =>
              running[j] # Nil /\ running'[j].txn = running[j].txn
        BY <1>1, <3>1 DEF Inv, TypeOK, Method
      <3>5. Owned'
        BY <1>3, <3>1, <3>4 DEF Inv, Owned
      <3> QED BY <3>1, <3>3, <3>5 DEF Inv, TypeOK
    <2> QED BY <2>1, <2>2
  <1>5. /\ redis' \in Payload \cup {Nil} /\ mem' \in [Instances -> Payload]
        /\ file' \in [Instances -> Payload] /\ PayloadsSound'
    BY <1>2, <1>3, <1>4, ReplacedSound
  <1> QED BY <1>3, <1>4, <1>5, FaultsType DEF Inv, TypeOK

LEMMA FailsInv ==
  ASSUME Inv, NEW i \in Instances, GetFails(i) \/ ExecFails(i) PROVE Inv'
  <1>1. /\ running[i] # Nil
        /\ redis' \in {redis, mem[i]}
        /\ Fault /\ NextRound(i)
        /\ UNCHANGED <<mem, file, connected, home, expired, restarts, up>>
    BY DEF GetFails, ExecFails, At, storage
  <1>2. running' \in [Instances -> Method \cup {Nil}] /\ Owned' /\ status' = status
    BY <1>1, NextRoundOwned DEF NextRound
  <1>3. Sound(mem[i], status)
    BY DEF Inv, PayloadsSound
  <1>4. /\ redis' \in Payload \cup {Nil} /\ mem' \in [Instances -> Payload]
        /\ file' \in [Instances -> Payload] /\ PayloadsSound'
    BY <1>1, <1>2, <1>3, ReplacedSound
  <1> QED BY <1>1, <1>2, <1>4, FaultsType DEF Inv, TypeOK

LEMMA ExecAndBackupInv ==
  ASSUME Inv, NEW i \in Instances, ExecAndBackup(i) PROVE Inv'
  <1>1. /\ running[i] # Nil
        /\ redis' = mem[i] /\ mem' = mem /\ file' = [file EXCEPT ![i] = mem[i]]
        /\ NoFault
        /\ UNCHANGED <<connected, home, expired, restarts, up>>
    BY DEF ExecAndBackup, At, Backup
  <1>2. /\ running' \in [Instances -> Method \cup {Nil}]
        /\ status' \in [Txns -> Status]
        /\ Owned'
        /\ \A u \in Txns : status[u] \notin Early => status'[u] \notin Early
    <2>1. Returned(running[i].txn) \in Status \ Early
      BY DEF Returned, Status, Early
    <2>2. Ends(i, Returned(running[i].txn))
      BY DEF ExecAndBackup
    <2> QED BY <1>1, <2>1, <2>2, EndsForward
  <1>3. Sound(mem[i], status)
    BY DEF Inv, PayloadsSound
  <1>4. /\ redis' \in Payload \cup {Nil} /\ mem' \in [Instances -> Payload]
        /\ file' \in [Instances -> Payload] /\ PayloadsSound'
    BY <1>1, <1>2, <1>3, ReplacedSound
  <1> QED BY <1>1, <1>2, <1>4, FaultsType DEF Inv, TypeOK

LEMMA MutateUnguardedInv ==
  ASSUME Inv, NEW i \in Instances, MutateUnguarded(i) PROVE Inv'
  <1> DEFINE t == running[i].txn
             p == Mutated(t, mem[i])
  <1>1. /\ running[i] # Nil /\ t \in Txns
        /\ status[t] \in {"registering", "scoring"}
    BY DEF MutateUnguarded, At, Inv, TypeOK, Owned, Method
  <1>2. Sound(p, status)
    BY <1>1, MutatedSound DEF Inv, PayloadsSound
  <1>3. /\ UNCHANGED <<connected, home, expired, restarts, up>>
        /\ mem' = [mem EXCEPT ![i] = p]
    BY DEF MutateUnguarded
  <1>4. mem'[i] = p
    BY <1>3 DEF Inv, TypeOK
  <1>5. /\ file' = file \/ file' = [file EXCEPT ![i] = p]
        /\ redis' = redis \/ redis' = p
        /\ NoFault \/ Fault
    BY <1>4 DEF MutateUnguarded, Backup
  <1>6. PICK outcome \in Status \ Early : Ends(i, outcome)
    <2>1. {"gone", "failed", Returned(t)} \subseteq Status \ Early
      BY DEF Returned, Status, Early
    <2>2. Ends(i, "gone") \/ Ends(i, "failed") \/ Ends(i, Returned(t))
      BY DEF MutateUnguarded
    <2> QED BY <2>1, <2>2
  <1>7. /\ running' \in [Instances -> Method \cup {Nil}]
        /\ status' \in [Txns -> Status]
        /\ Owned'
        /\ \A u \in Txns : status[u] \notin Early => status'[u] \notin Early
    BY <1>1, <1>3, <1>6, EndsForward
  <1>8. /\ redis' \in Payload \cup {Nil} /\ mem' \in [Instances -> Payload]
        /\ file' \in [Instances -> Payload] /\ PayloadsSound'
    BY <1>2, <1>3, <1>5, <1>7, ReplacedSound
  <1> QED BY <1>3, <1>5, <1>7, <1>8, FaultsType DEF Inv, TypeOK

LEMMA IdleInv ==
  ASSUME Inv, NEW i \in Instances, SelectAction(i) \/ Snapshot(i) PROVE Inv'
  <1>1. UNCHANGED <<connected, running, home, status, expired, restarts, up>>
        /\ (NoFault \/ Fault)
    BY DEF SelectAction, Snapshot
  <1>2. Owned'
    BY <1>1 DEF Inv, Owned
  <1>3. PICK p : /\ Sound(p, status)
                 /\ mem' = [mem EXCEPT ![i] = p]
                 /\ file' = file \/ file' = [file EXCEPT ![i] = p]
                 /\ redis' = redis \/ redis' = p
    <2> DEFINE own == Purged(mem[i])
               shared == Purged(Reloaded(i))
    <2>1. Sound(own, status) /\ Sound(shared, status)
      BY PurgedSound, ReloadedSound DEF Inv, PayloadsSound
    <2>2. CASE SelectAction(i)
      <3>1. /\ mem' = [mem EXCEPT ![i] = own] \/ mem' = [mem EXCEPT ![i] = shared]
            /\ file' = file /\ redis' = redis
        BY <2>2 DEF SelectAction
      <3> QED BY <2>1, <3>1
    <2>3. CASE Snapshot(i)
      <3>1. mem' = [mem EXCEPT ![i] = own] /\ mem'[i] = own
        BY <2>3 DEF Snapshot, Inv, TypeOK
      <3>2. /\ file' = file \/ file' = [file EXCEPT ![i] = own]
            /\ redis' = redis \/ redis' = own
        BY <2>3, <3>1 DEF Snapshot, Backup
      <3> QED BY <2>1, <3>1, <3>2
    <2> QED BY <2>2, <2>3
  <1>4. /\ redis' \in Payload \cup {Nil} /\ mem' \in [Instances -> Payload]
        /\ file' \in [Instances -> Payload] /\ PayloadsSound'
    BY <1>1, <1>3, ReplacedSound
  <1> QED BY <1>1, <1>2, <1>4, FaultsType DEF Inv, TypeOK

LEMMA RestartInv ==
  ASSUME Inv, NEW i \in Instances, Restart(i) PROVE Inv'
  <1>1. /\ UNCHANGED <<file, home, expired, up>>
        /\ NoFault \/ Fault
        /\ connected' \in [Instances -> BOOLEAN]
        /\ restarts' \in 0 .. MaxRestarts
        /\ redis' = redis \/ redis' = mem[i]
    <2>1. PICK client \in BOOLEAN : connected' = [connected EXCEPT ![i] = client]
      BY DEF Restart
    <2>2. connected' \in [Instances -> BOOLEAN]
      BY <2>1 DEF Inv, TypeOK
    <2>3. restarts' \in 0 .. MaxRestarts
      BY SharedAssumption DEF Restart, Inv, TypeOK
    <2> QED BY <2>2, <2>3 DEF Restart
  <1>2. /\ running' \in [Instances -> Method \cup {Nil}]
        /\ status' \in [Txns -> Status]
        /\ Owned'
        /\ \A u \in Txns : status[u] \notin Early => status'[u] \notin Early
    <2>1. CASE running[i] = Nil
      <3>1. status' = status /\ running' = running
        BY <2>1 DEF Restart, Inv, TypeOK
      <3> QED BY <1>1, <3>1 DEF Inv, TypeOK, Owned
    <2>2. CASE running[i] # Nil
      <3>1. Ends(i, "lost")
        BY <2>2 DEF Restart, Ends
      <3> QED BY <1>1, <2>2, <3>1, EndsForward DEF Status, Early
    <2> QED BY <2>1, <2>2
  <1>3. /\ redis' # Nil => Sound(redis', status)
        /\ redis' \in Payload \cup {Nil}
    BY <1>1 DEF Inv, TypeOK, PayloadsSound, Sound
  <1>4. PICK p : Sound(p, status) /\ mem' = [mem EXCEPT ![i] = p]
    <2>1. /\ Sound(Purged(file[i]), status)
          /\ redis' # Nil => Sound(Purged(redis'), status)
      BY <1>3, PurgedSound DEF Inv, PayloadsSound
    <2>2. \/ mem' = [mem EXCEPT ![i] = Purged(file[i])]
          \/ redis' # Nil /\ mem' = [mem EXCEPT ![i] = Purged(redis')]
      BY DEF Restart
    <2> QED BY <2>1, <2>2
  <1>5. mem' \in [Instances -> Payload] /\ file' \in [Instances -> Payload]
    BY <1>1, <1>4 DEF Inv, TypeOK, Sound
  <1>6. ASSUME NEW j \in Instances
        PROVE  Sound(mem'[j], status) /\ Sound(file'[j], status)
    BY <1>1, <1>4 DEF Inv, TypeOK, PayloadsSound
  <1>7. PayloadsSound'
    BY <1>2, <1>3, <1>6, SoundForward DEF PayloadsSound
  <1> QED BY <1>1, <1>2, <1>3, <1>5, <1>7, FaultsType DEF Inv, TypeOK

LEMMA ExpireInv ==
  ASSUME Inv, NEW t \in Txns, Expire(t) PROVE Inv'
  BY DEF Expire, storage, Inv, TypeOK, Owned, PayloadsSound

LEMMA NextInv == Inv /\ [Next]_vars => Inv'
  <1> SUFFICES ASSUME Inv, [Next]_vars PROVE Inv'
    OBVIOUS
  <1>1. ASSUME NEW i \in Instances, NEW t \in Txns, Register(i, t) \/ Feedback(i, t)
        PROVE  Inv'
    BY <1>1, BeginInv
  <1>2. ASSUME NEW i \in Instances, Work(i) PROVE Inv'
    BY <1>2, GetAndMutateInv, FailsInv, ExecAndBackupInv, MutateUnguardedInv
    DEF Work
  <1>3. ASSUME NEW i \in Instances, SelectAction(i) \/ Snapshot(i) PROVE Inv'
    BY <1>3, IdleInv
  <1>4. ASSUME NEW t \in Txns, Expire(t) PROVE Inv'
    BY <1>4, ExpireInv
  <1>5. ASSUME NEW i \in Instances, Restart(i) PROVE Inv'
    BY <1>5, RestartInv
  <1>6. CASE UNCHANGED vars
    BY <1>6 DEF vars, Inv, TypeOK, Owned, PayloadsSound
  <1> QED BY <1>1, <1>2, <1>3, <1>4, <1>5, <1>6 DEF Next

-----------------------------------------------------------------------------
(* No payload, wherever it is kept, counts a transaction twice or waits    *)
(* for feedback it has learned from (bandit.py, _apply_payload and         *)
(* apply_feedback under _mutate_with_redis_retry).                         *)
THEOREM NeverCountedTwice == Spec => []PayloadsCoherent
  <1>1. Inv => PayloadsCoherent
    BY DEF Inv, PayloadsSound, Sound, PayloadsCoherent
  <1> QED BY <1>1, InitInv, NextInv, PTL DEF Spec

(* SharedBandit is well typed.                                             *)
THEOREM SharedTypeCorrect == Spec => []TypeOK
  <1>1. Inv => TypeOK
    BY DEF Inv
  <1> QED BY <1>1, InitInv, NextInv, PTL DEF Spec

-----------------------------------------------------------------------------
(* Whoever is about to EXEC has in memory what it learned: nothing else is *)
(* at its instance's memory meanwhile.                                     *)
ExecReady ==
  \A i \in Instances :
    At(i, "exec") /\ status[running[i].txn] = "scoring" =>
      running[i].txn \in mem[i].learned

(* Each round after the first, and the way out, was paid for by a failure. *)
RoundsPaid ==
  \A i \in Instances : running[i] # Nil =>
    /\ running[i].round <= faults + 1
    /\ running[i].step = "unguarded" => faults >= Attempts

ConnectedAtFirst == restarts = 0 => \A i \in Instances : connected[i]

HomeIsUp == \A t \in Txns : home[t] \in up \cup {Nil}

(* Before any failure that counts, what was answered 200 is in Redis and   *)
(* in the memory that will replace it.                                     *)
ScoredIsKept ==
  Calm => \A t \in Txns : status[t] = "scored" =>
    /\ redis # Nil
    /\ t \in redis.learned
    /\ \A i \in up : t \in mem[i].learned

KeptInv ==
  /\ Inv
  /\ ExecReady
  /\ RoundsPaid
  /\ ConnectedAtFirst
  /\ HomeIsUp
  /\ ScoredIsKept

-----------------------------------------------------------------------------
LEMMA RunsAtHome ==
  ASSUME KeptInv, NEW i \in Instances, running[i] # Nil
  PROVE  /\ i \in up
         /\ running[i] \in Method
         /\ running[i].txn \in Txns
         /\ status[running[i].txn] \in {"registering", "scoring"}
  <1>1. running[i] \in Method /\ running[i].txn \in Txns
    BY DEF KeptInv, Inv, TypeOK, Method
  <1>2. /\ home[running[i].txn] = i
        /\ status[running[i].txn] \in {"registering", "scoring"}
    BY DEF KeptInv, Inv, Owned
  <1>3. i \in up
    BY <1>1, <1>2, SharedAssumption DEF KeptInv, HomeIsUp
  <1> QED BY <1>1, <1>2, <1>3

(* Faults and restarts only grow: calm now, it was calm before.            *)
LEMMA CalmBefore ==
  ASSUME KeptInv, NoFault \/ Fault, up' = up, restarts' \in {restarts, restarts + 1}
  PROVE  /\ Calm' => Calm /\ restarts' = restarts
         /\ faults \in Nat /\ faults' \in {faults, faults + 1}
  <1>1. faults \in Nat /\ restarts \in Nat
    BY SharedAssumption DEF KeptInv, Inv, TypeOK
  <1>2. faults' \in {faults, faults + 1}
    BY DEF NoFault, Fault
  <1> QED BY <1>1, <1>2, SharedAssumption DEF Calm

(* The others are as they were: a step at i concerns i and its transaction. *)
LEMMA OthersKeep ==
  ASSUME KeptInv, NEW i \in Instances, NoFault \/ Fault,
         \A j \in Instances \ {i} : running'[j] = running[j] /\ mem'[j] = mem[j],
         \A j \in Instances \ {i} : running[j] # Nil =>
           status'[running[j].txn] = status[running[j].txn],
         running'[i] # Nil =>
           /\ running'[i].round <= faults' + 1
           /\ running'[i].step = "unguarded" => faults' >= Attempts
           /\ running'[i].step = "exec" /\ status'[running'[i].txn] = "scoring" =>
                running'[i].txn \in mem'[i].learned
  PROVE  ExecReady' /\ RoundsPaid'
  <1>1. faults \in Nat /\ (faults' = faults \/ faults' = faults + 1)
    BY SharedAssumption DEF KeptInv, Inv, TypeOK, NoFault, Fault
  <1>2. ASSUME NEW j \in Instances, running'[j] # Nil
        PROVE  /\ running'[j].round <= faults' + 1
               /\ running'[j].step = "unguarded" => faults' >= Attempts
               /\ running'[j].step = "exec" /\ status'[running'[j].txn] = "scoring" =>
                    running'[j].txn \in mem'[j].learned
    <2>1. CASE j = i
      BY <1>2, <2>1
    <2>2. CASE j # i
      <3>1. /\ running'[j] = running[j] /\ mem'[j] = mem[j]
            /\ status'[running[j].txn] = status[running[j].txn]
        BY <1>2, <2>2
      <3>2. running[j].round \in Nat
        BY <1>2, <3>1, RunsAtHome DEF Method
      <3> QED BY <1>1, <1>2, <3>1, <3>2, SharedAssumption
              DEF KeptInv, ExecReady, RoundsPaid, At
    <2> QED BY <2>1, <2>2
  <1> QED BY <1>2 DEF ExecReady, RoundsPaid, At

(* Being alone, i speaks for all that are up.                              *)
LEMMA AloneKeeps ==
  ASSUME KeptInv, NEW i \in up, up' = up,
         Calm' => \A t \in Txns : status'[t] = "scored" =>
           redis' # Nil /\ t \in redis'.learned /\ t \in mem'[i].learned
  PROVE  ScoredIsKept'
  <1> SUFFICES ASSUME Calm', NEW t \in Txns, status'[t] = "scored"
               PROVE  /\ redis' # Nil /\ t \in redis'.learned
                      /\ \A j \in up' : t \in mem'[j].learned
    BY DEF ScoredIsKept
  <1>1. up \subseteq Instances /\ IsFiniteSet(up)
    BY FS_Subset, SharedAssumption DEF KeptInv, Inv, TypeOK
  <1>2. Cardinality(up) = 1
    BY DEF Calm
  <1>3. \A j \in up : j = i
    BY <1>1, <1>2, FS_Singleton
  <1> QED BY <1>3

LEMMA PayloadsOf ==
  ASSUME KeptInv, NEW i \in Instances
  PROVE  /\ mem[i] \in Payload /\ Reloaded(i) \in Payload
         /\ mem[i].learned \subseteq Txns
  <1>1. mem[i] \in Payload /\ (redis = Nil \/ redis \in Payload)
    BY DEF KeptInv, Inv, TypeOK
  <1> QED BY <1>1 DEF Reloaded, Purged, Payload

LEMMA MutatedLearns ==
  ASSUME NEW t \in Txns, NEW p \in Payload
  PROVE  /\ p.learned \subseteq Mutated(t, p).learned
         /\ ~Registering(t) /\ ~Raises(t, p) => t \in Mutated(t, p).learned
  BY DEF Mutated, Purged, Payload

(* Only the transaction of a running method changes its status.            *)
LEMMA EndsAlone ==
  ASSUME KeptInv, NEW i \in Instances, running[i] # Nil, NEW outcome,
         Ends(i, outcome)
  PROVE  /\ running'[i] = Nil
         /\ \A j \in Instances \ {i} : running'[j] = running[j]
         /\ \A j \in Instances \ {i} : running[j] # Nil =>
              status'[running[j].txn] = status[running[j].txn]
         /\ \A t \in Txns : t # running[i].txn => status'[t] = status[t]
         /\ status'[running[i].txn] = outcome
  <1>1. /\ running' = [running EXCEPT ![i] = Nil]
        /\ status' = [status EXCEPT ![running[i].txn] = outcome]
    BY DEF Ends
  <1>2. running[i].txn \in Txns
    BY RunsAtHome
  <1>3. ASSUME NEW j \in Instances \ {i}, running[j] # Nil
        PROVE  running[j].txn \in Txns /\ running[j].txn # running[i].txn
    BY <1>3, RunsAtHome DEF KeptInv, Inv, Owned
  <1> QED BY <1>1, <1>2, <1>3 DEF KeptInv, Inv, TypeOK

-----------------------------------------------------------------------------
LEMMA BeginKept ==
  ASSUME KeptInv, NEW i \in Instances, NEW t \in Txns, Register(i, t) \/ Feedback(i, t)
  PROVE  KeptInv'
  <1> DEFINE m == [txn |-> t, step |-> "get", round |-> 1]
  <1>1. /\ running[i] = Nil
        /\ running' = [running EXCEPT ![i] = m]
        /\ home' = [home EXCEPT ![t] = i]
        /\ status[t] \in {"none", "open", "gone"}
        /\ i \in up
        /\ \E now \in {"registering", "scoring"} : status' = [status EXCEPT ![t] = now]
        /\ UNCHANGED <<redis, mem, file, connected, expired, faults, restarts, up>>
    <2>1. CASE Register(i, t)
      BY <2>1 DEF Register, Begins, storage
    <2>2. CASE Feedback(i, t)
      <3>1. home[t] = i /\ i \in up /\ home' = home
        BY <2>2, SharedAssumption DEF Feedback, KeptInv, HomeIsUp
      <3>2. home' = [home EXCEPT ![t] = i]
        BY <3>1 DEF KeptInv, Inv, TypeOK
      <3> QED BY <2>2, <3>1, <3>2 DEF Feedback, Begins, storage
    <2> QED BY <2>1, <2>2
  <1>2. Inv'
    BY BeginInv DEF KeptInv
  <1>3. running'[i] = m /\ \A j \in Instances \ {i} : running'[j] = running[j]
    BY <1>1 DEF KeptInv, Inv, TypeOK
  <1>4. ASSUME NEW j \in Instances \ {i}, running[j] # Nil
        PROVE  status'[running[j].txn] = status[running[j].txn]
    BY <1>1, <1>4, RunsAtHome DEF KeptInv, Inv, TypeOK
  <1>5. faults \in Nat
    BY SharedAssumption DEF KeptInv, Inv, TypeOK
  <1>6. ExecReady' /\ RoundsPaid'
    BY <1>1, <1>3, <1>4, <1>5, OthersKeep DEF NoFault
  <1>7. ConnectedAtFirst' /\ HomeIsUp'
    BY <1>1 DEF KeptInv, ConnectedAtFirst, HomeIsUp, Inv, TypeOK
  <1>8. Calm' => Calm
    BY <1>1 DEF Calm
  <1>9. \A u \in Txns : status'[u] = "scored" => status[u] = "scored"
    BY <1>1 DEF KeptInv, Inv, TypeOK
  <1>10. ScoredIsKept'
    BY <1>1, <1>8, <1>9 DEF KeptInv, ScoredIsKept
  <1> QED BY <1>2, <1>6, <1>7, <1>10 DEF KeptInv

LEMMA GetAndMutateKept ==
  ASSUME KeptInv, NEW i \in Instances, GetAndMutate(i) PROVE KeptInv'
  <1> DEFINE t == running[i].txn
             p == Reloaded(i)
  <1>1. /\ running[i] # Nil /\ i \in up /\ t \in Txns /\ running[i] \in Method
        /\ status[t] \in {"registering", "scoring"}
    BY RunsAtHome DEF GetAndMutate, At
  <1>2. /\ UNCHANGED <<redis, file, connected, home, expired, restarts, up, faults>>
        /\ mem' = [mem EXCEPT ![i] = Mutated(t, p)]
    BY DEF GetAndMutate, NoFault
  <1>3. mem'[i] = Mutated(t, p) /\ \A j \in Instances \ {i} : mem'[j] = mem[j]
    BY <1>2 DEF KeptInv, Inv, TypeOK
  <1>4. Inv'
    BY GetAndMutateInv DEF KeptInv
  <1>5. /\ \A j \in Instances \ {i} : running'[j] = running[j]
        /\ \A j \in Instances \ {i} : running[j] # Nil =>
             status'[running[j].txn] = status[running[j].txn]
        /\ \A u \in Txns : status'[u] = "scored" => status[u] = "scored"
        /\ running'[i] # Nil =>
             /\ running'[i] = [running[i] EXCEPT !.step = "exec"]
             /\ status' = status /\ ~Raises(t, p)
    <2>1. CASE Raises(t, p)
      <3>1. Ends(i, "gone")
        BY <2>1 DEF GetAndMutate
      <3> QED BY <1>1, <3>1, EndsAlone
    <2>2. CASE ~Raises(t, p)
      <3>1. running' = [running EXCEPT ![i].step = "exec"] /\ status' = status
        BY <2>2 DEF GetAndMutate
      <3> QED BY <2>2, <3>1 DEF KeptInv, Inv, TypeOK
    <2> QED BY <2>1, <2>2
  <1>6. ASSUME running'[i] # Nil
        PROVE  /\ running'[i].round <= faults' + 1
               /\ running'[i].step = "exec"
               /\ running'[i].txn = t
               /\ status'[t] = "scoring" => t \in mem'[i].learned
    <2>1. running'[i] = [running[i] EXCEPT !.step = "exec"] /\ status' = status
          /\ ~Raises(t, p)
      BY <1>5, <1>6
    <2>2. running'[i].round = running[i].round /\ running'[i].txn = t
          /\ running'[i].step = "exec"
      BY <1>1, <2>1 DEF Method
    <2>3. running[i].round <= faults + 1
      BY <1>1 DEF KeptInv, RoundsPaid
    <2>4. status[t] = "scoring" => t \in Mutated(t, p).learned
      BY <1>1, <2>1, MutatedLearns, PayloadsOf DEF Registering
    <2> QED BY <1>2, <1>3, <2>1, <2>2, <2>3, <2>4
  <1>7. ExecReady' /\ RoundsPaid'
    BY <1>2, <1>3, <1>5, <1>6, OthersKeep DEF NoFault
  <1>8. ConnectedAtFirst' /\ HomeIsUp'
    BY <1>2 DEF KeptInv, ConnectedAtFirst, HomeIsUp
  <1>9. ASSUME Calm', NEW u \in Txns, status'[u] = "scored"
        PROVE  redis' # Nil /\ u \in redis'.learned /\ u \in mem'[i].learned
    <2>1. Calm /\ status[u] = "scored"
      BY <1>2, <1>5, <1>9 DEF Calm
    <2>2. redis # Nil /\ u \in redis.learned
      BY <2>1 DEF KeptInv, ScoredIsKept
    <2>3. redis \in Payload
      BY <2>2 DEF KeptInv, Inv, TypeOK
    <2>4. p.learned = redis.learned
      BY <2>2, <2>3 DEF Reloaded, Purged, Payload
    <2> QED BY <1>1, <1>2, <1>3, <2>2, <2>4, MutatedLearns, PayloadsOf
  <1>10. ScoredIsKept'
    BY <1>1, <1>2, <1>9, AloneKeeps
  <1> QED BY <1>4, <1>7, <1>8, <1>10 DEF KeptInv

LEMMA FailsKept ==
  ASSUME KeptInv, NEW i \in Instances, GetFails(i) \/ ExecFails(i) PROVE KeptInv'
  <1> DEFINE m == running[i]
  <1>1. /\ m # Nil /\ i \in up /\ m \in Method /\ m.txn \in Txns
        /\ m.step \in {"get", "exec"}
    BY RunsAtHome DEF GetFails, ExecFails, At
  <1>2. /\ redis' \in {redis, mem[i]}
        /\ Fault /\ NextRound(i)
        /\ UNCHANGED <<mem, file, connected, home, expired, restarts, up>>
    BY DEF GetFails, ExecFails, storage
  <1>3. Inv'
    BY FailsInv DEF KeptInv
  <1>4. /\ running'[i] = AfterFailure(m)
        /\ \A j \in Instances \ {i} : running'[j] = running[j]
        /\ status' = status
    BY <1>2 DEF NextRound, KeptInv, Inv, TypeOK
  <1>5. /\ running'[i].round <= faults' + 1
        /\ running'[i].step = "unguarded" => faults' >= Attempts
        /\ running'[i].step # "exec"
    <2>1. faults \in Nat /\ faults' = faults + 1 /\ m.round <= faults + 1
          /\ m.round \in Nat /\ m.round <= Attempts
      BY <1>1, <1>2, SharedAssumption DEF KeptInv, Inv, TypeOK, RoundsPaid, Fault, Method
    <2>2. CASE m.round < Attempts
      <3>1. AfterFailure(m) = [txn |-> m.txn, step |-> "get", round |-> m.round + 1]
        BY <2>2 DEF AfterFailure
      <3> QED BY <1>4, <2>1, <3>1
    <2>3. CASE ~(m.round < Attempts)
      <3>1. AfterFailure(m).step = "unguarded" /\ AfterFailure(m).round = m.round
        BY <1>1, <2>3 DEF AfterFailure, Method
      <3> QED BY <1>4, <2>1, <2>3, <3>1, SharedAssumption
    <2> QED BY <2>2, <2>3
  <1>6. ExecReady' /\ RoundsPaid'
    BY <1>2, <1>4, <1>5, OthersKeep
  <1>7. ConnectedAtFirst' /\ HomeIsUp'
    BY <1>2 DEF KeptInv, ConnectedAtFirst, HomeIsUp
  <1>8. ASSUME Calm', NEW u \in Txns, status'[u] = "scored"
        PROVE  redis' # Nil /\ u \in redis'.learned /\ u \in mem'[i].learned
    <2>1. Calm /\ status[u] = "scored"
      BY <1>2, <1>4, <1>8, CalmBefore
    <2>2. redis # Nil /\ u \in redis.learned /\ u \in mem[i].learned
      BY <1>1, <2>1 DEF KeptInv, ScoredIsKept
    <2>3. mem[i] # Nil
      BY PayloadsOf, PayloadAssumption
    <2> QED BY <1>2, <2>2, <2>3
  <1>9. ScoredIsKept'
    BY <1>1, <1>2, <1>8, AloneKeeps
  <1> QED BY <1>3, <1>6, <1>7, <1>9 DEF KeptInv

LEMMA ExecAndBackupKept ==
  ASSUME KeptInv, NEW i \in Instances, ExecAndBackup(i) PROVE KeptInv'
  <1> DEFINE t == running[i].txn
  <1>1. /\ running[i] # Nil /\ i \in up /\ t \in Txns
        /\ status[t] \in {"registering", "scoring"}
    BY RunsAtHome DEF ExecAndBackup, At
  <1>2. /\ redis' = mem[i] /\ UNCHANGED mem
        /\ Ends(i, Returned(t))
        /\ UNCHANGED <<connected, home, expired, restarts, up, faults>>
    BY DEF ExecAndBackup, NoFault
  <1>3. Inv'
    BY ExecAndBackupInv DEF KeptInv
  <1>4. /\ running'[i] = Nil
        /\ \A j \in Instances \ {i} : running'[j] = running[j]
        /\ \A j \in Instances \ {i} : running[j] # Nil =>
             status'[running[j].txn] = status[running[j].txn]
        /\ \A u \in Txns : u # t => status'[u] = status[u]
        /\ status'[t] = Returned(t)
    BY <1>1, <1>2, EndsAlone
  <1>5. ExecReady' /\ RoundsPaid'
    BY <1>2, <1>4, OthersKeep DEF NoFault
  <1>6. ConnectedAtFirst' /\ HomeIsUp'
    BY <1>2 DEF KeptInv, ConnectedAtFirst, HomeIsUp
  <1>7. status'[t] = "scored" => t \in mem[i].learned
    <2>1. status[t] = "scoring" => t \in mem[i].learned
      BY DEF KeptInv, ExecReady, ExecAndBackup
    <2> QED BY <1>1, <1>4, <2>1 DEF Returned, Registering
  <1>8. ASSUME Calm', NEW u \in Txns, status'[u] = "scored"
        PROVE  redis' # Nil /\ u \in redis'.learned /\ u \in mem'[i].learned
    <2>1. Calm
      BY <1>2, <1>8 DEF Calm
    <2>2. u \in mem[i].learned
      BY <1>1, <1>4, <1>7, <1>8, <2>1 DEF KeptInv, ScoredIsKept
    <2>3. mem[i] # Nil
      BY PayloadsOf, PayloadAssumption
    <2> QED BY <1>2, <2>2, <2>3
  <1>9. ScoredIsKept'
    BY <1>1, <1>2, <1>8, AloneKeeps
  <1> QED BY <1>3, <1>5, <1>6, <1>9 DEF KeptInv

(* A bandit that is calm has a way to Redis and a round left.              *)
LEMMA MutateUnguardedKept ==
  ASSUME KeptInv, NEW i \in Instances, MutateUnguarded(i) PROVE KeptInv'
  <1> DEFINE t == running[i].txn
             p == Mutated(t, mem[i])
  <1>1. /\ running[i] # Nil /\ i \in up /\ t \in Txns
        /\ status[t] \in {"registering", "scoring"}
    BY RunsAtHome DEF MutateUnguarded, At
  <1>2. /\ UNCHANGED <<connected, home, expired, restarts, up>>
        /\ mem' = [mem EXCEPT ![i] = p]
        /\ NoFault \/ Fault
        /\ \E outcome : Ends(i, outcome)
    BY DEF MutateUnguarded
  <1>3. Inv'
    BY MutateUnguardedInv DEF KeptInv
  <1>4. /\ running'[i] = Nil
        /\ \A j \in Instances \ {i} : running'[j] = running[j] /\ mem'[j] = mem[j]
        /\ \A j \in Instances \ {i} : running[j] # Nil =>
             status'[running[j].txn] = status[running[j].txn]
    BY <1>1, <1>2, EndsAlone DEF KeptInv, Inv, TypeOK
  <1>5. ExecReady' /\ RoundsPaid'
    BY <1>2, <1>4, OthersKeep
  <1>6. ConnectedAtFirst' /\ HomeIsUp'
    BY <1>2 DEF KeptInv, ConnectedAtFirst, HomeIsUp
  <1>7. ~Calm'
    <2>1. SUFFICES ASSUME Calm' PROVE FALSE
      OBVIOUS
    <2>2. faults < Attempts /\ restarts = 0
      BY <1>2, <2>1, CalmBefore DEF Calm
    <2>3. connected[i]
      BY <2>2 DEF KeptInv, ConnectedAtFirst
    <2>4. running[i].step # "unguarded"
      <3>1. faults \in Nat
        BY SharedAssumption DEF KeptInv, Inv, TypeOK
      <3> QED BY <1>1, <2>2, <3>1, SharedAssumption DEF KeptInv, RoundsPaid
    <2> QED BY <2>3, <2>4 DEF MutateUnguarded, At
  <1>8. ScoredIsKept'
    BY <1>7 DEF ScoredIsKept
  <1> QED BY <1>3, <1>5, <1>6, <1>8 DEF KeptInv

LEMMA IdleKept ==
  ASSUME KeptInv, NEW i \in Instances, SelectAction(i) \/ Snapshot(i) PROVE KeptInv'
  <1>1. /\ UNCHANGED <<connected, running, home, status, expired, restarts, up>>
        /\ NoFault \/ Fault
        /\ running[i] = Nil /\ i \in up
    BY DEF SelectAction, Snapshot
  <1>2. Inv'
    BY IdleInv DEF KeptInv
  <1>3. \A j \in Instances \ {i} : mem'[j] = mem[j]
    BY DEF SelectAction, Snapshot, KeptInv, Inv, TypeOK
  <1>4. ExecReady' /\ RoundsPaid'
    BY <1>1, <1>3, OthersKeep
  <1>5. ConnectedAtFirst' /\ HomeIsUp'
    BY <1>1 DEF KeptInv, ConnectedAtFirst, HomeIsUp
  <1>6. \/ mem'[i] \in {Purged(mem[i]), Purged(Reloaded(i))} /\ redis' = redis
        \/ mem'[i] = Purged(mem[i]) /\ redis' = mem'[i]
    BY DEF SelectAction, Snapshot, KeptInv, Inv, TypeOK
  <1>7. ASSUME Calm', NEW u \in Txns, status'[u] = "scored"
        PROVE  redis' # Nil /\ u \in redis'.learned /\ u \in mem'[i].learned
    <2>1. Calm /\ status[u] = "scored"
      BY <1>1, <1>7, CalmBefore
    <2>2. redis # Nil /\ u \in redis.learned /\ u \in mem[i].learned
      BY <1>1, <2>1 DEF KeptInv, ScoredIsKept
    <2>3. mem[i] \in Payload /\ redis \in Payload /\ mem'[i] \in Payload
      BY <1>2, <2>2 DEF KeptInv, Inv, TypeOK
    <2>4. u \in Purged(mem[i]).learned /\ u \in Purged(Reloaded(i)).learned
      BY <2>2, <2>3 DEF Purged, Reloaded, Payload
    <2>5. mem'[i] # Nil
      BY <2>3, PayloadAssumption
    <2> QED BY <1>6, <2>2, <2>4, <2>5
  <1>8. ScoredIsKept'
    BY <1>1, <1>7, AloneKeeps
  <1> QED BY <1>2, <1>4, <1>5, <1>8 DEF KeptInv

LEMMA RestartKept ==
  ASSUME KeptInv, NEW i \in Instances, Restart(i) PROVE KeptInv'
  <1>1. /\ UNCHANGED <<file, home, expired, up>>
        /\ NoFault \/ Fault
        /\ restarts' # 0
    BY SharedAssumption DEF Restart, KeptInv, Inv, TypeOK
  <1>2. Inv'
    BY RestartInv DEF KeptInv
  <1>3. /\ running'[i] = Nil
        /\ \A j \in Instances \ {i} : running'[j] = running[j] /\ mem'[j] = mem[j]
        /\ \A j \in Instances \ {i} : running[j] # Nil =>
             status'[running[j].txn] = status[running[j].txn]
    <2>1. running'[i] = Nil
          /\ \A j \in Instances \ {i} : running'[j] = running[j] /\ mem'[j] = mem[j]
      BY DEF Restart, KeptInv, Inv, TypeOK
    <2>2. CASE running[i] = Nil
      BY <2>1, <2>2 DEF Restart
    <2>3. CASE running[i] # Nil
      <3>1. Ends(i, "lost")
        BY <2>3 DEF Restart, Ends
      <3> QED BY <2>1, <2>3, <3>1, EndsAlone
    <2> QED BY <2>1, <2>2, <2>3
  <1>4. ExecReady' /\ RoundsPaid'
    BY <1>1, <1>3, OthersKeep
  <1>5. ConnectedAtFirst' /\ HomeIsUp' /\ ScoredIsKept'
    BY <1>1 DEF KeptInv, ConnectedAtFirst, HomeIsUp, ScoredIsKept, Calm
  <1> QED BY <1>2, <1>4, <1>5 DEF KeptInv

LEMMA ExpireKept ==
  ASSUME KeptInv, NEW t \in Txns, Expire(t) PROVE KeptInv'
  <1>1. Inv'
    BY ExpireInv DEF KeptInv
  <1>2. UNCHANGED <<storage, connected, running, home, status, faults, restarts, up>>
    BY DEF Expire
  <1> QED BY <1>1, <1>2 DEF KeptInv, ExecReady, RoundsPaid, ConnectedAtFirst, HomeIsUp,
                            ScoredIsKept, Calm, At, storage

LEMMA InitKept == Init => KeptInv
  <1> SUFFICES ASSUME Init PROVE KeptInv
    OBVIOUS
  <1>1. Inv
    BY InitInv
  <1>2. /\ \A i \in Instances : running[i] = Nil /\ connected[i]
        /\ \A t \in Txns : home[t] = Nil /\ status[t] = "none"
    BY DEF Init
  <1> QED BY <1>1, <1>2 DEF KeptInv, ExecReady, RoundsPaid, ConnectedAtFirst, HomeIsUp,
                            ScoredIsKept, At

LEMMA NextKept == KeptInv /\ [Next]_vars => KeptInv'
  <1> SUFFICES ASSUME KeptInv, [Next]_vars PROVE KeptInv'
    OBVIOUS
  <1>1. ASSUME NEW i \in Instances, NEW t \in Txns, Register(i, t) \/ Feedback(i, t)
        PROVE  KeptInv'
    BY <1>1, BeginKept
  <1>2. ASSUME NEW i \in Instances, Work(i) PROVE KeptInv'
    BY <1>2, GetAndMutateKept, FailsKept, ExecAndBackupKept, MutateUnguardedKept
    DEF Work
  <1>3. ASSUME NEW i \in Instances, SelectAction(i) \/ Snapshot(i) PROVE KeptInv'
    BY <1>3, IdleKept
  <1>4. ASSUME NEW t \in Txns, Expire(t) PROVE KeptInv'
    BY <1>4, ExpireKept
  <1>5. ASSUME NEW i \in Instances, Restart(i) PROVE KeptInv'
    BY <1>5, RestartKept
  <1>6. CASE UNCHANGED vars
    <2>1. Inv'
      BY NextInv DEF KeptInv
    <2> QED BY <1>6, <2>1 DEF vars, KeptInv, ExecReady, RoundsPaid, ConnectedAtFirst,
                              HomeIsUp, ScoredIsKept, Calm, At
  <1> QED BY <1>1, <1>2, <1>3, <1>4, <1>5, <1>6 DEF Next

-----------------------------------------------------------------------------
LEMMA WorkBacksUp ==
  ASSUME KeptInv, NEW i \in Instances, Work(i), NEW t \in Txns,
         status[t] # "scored", status'[t] = "scored"
  PROVE  t \in file'[home[t]].learned
  <1>1. /\ running[i] # Nil /\ running[i].txn \in Txns
        /\ status[running[i].txn] \in {"registering", "scoring"}
        /\ home[running[i].txn] = i
    BY RunsAtHome
    DEF Work, GetAndMutate, GetFails, ExecAndBackup, ExecFails, MutateUnguarded, At,
        KeptInv, Inv, Owned
  <1>2. \A outcome : Ends(i, outcome) => t = running[i].txn /\ outcome = "scored"
    BY <1>1, EndsAlone
  <1>3. CASE GetAndMutate(i) \/ GetFails(i) \/ ExecFails(i)
    <2>1. status' = status \/ Ends(i, "gone")
      BY <1>3 DEF GetAndMutate, GetFails, ExecFails, NextRound
    <2> QED BY <1>2, <2>1
  <1>4. CASE ExecAndBackup(i)
    <2>1. /\ Ends(i, Returned(running[i].txn))
          /\ file' = [file EXCEPT ![i] = mem[i]]
      BY <1>4 DEF ExecAndBackup, Backup
    <2>2. t = running[i].txn /\ Returned(t) = "scored"
      BY <1>2, <2>1
    <2>3. status[t] = "scoring"
      BY <1>1, <2>2 DEF Returned, Registering
    <2>4. t \in mem[i].learned
      BY <1>4, <2>2, <2>3 DEF KeptInv, ExecReady, ExecAndBackup
    <2> QED BY <1>1, <2>1, <2>2, <2>4 DEF KeptInv, Inv, TypeOK
  <1>5. CASE MutateUnguarded(i)
    <2> DEFINE p == Mutated(running[i].txn, mem[i])
    <2>1. ~Raises(running[i].txn, mem[i]) /\ Backup(i)
          /\ Ends(i, Returned(running[i].txn))
      BY <1>2, <1>5 DEF MutateUnguarded
    <2>2. t = running[i].txn /\ Returned(t) = "scored"
      BY <1>2, <2>1
    <2>3. ~Registering(t)
      BY <2>2 DEF Returned
    <2>4. t \in p.learned
      BY <2>1, <2>2, <2>3, MutatedLearns, PayloadsOf
    <2>5. mem'[i] = p
      BY <1>5 DEF MutateUnguarded, KeptInv, Inv, TypeOK
    <2> QED BY <1>1, <2>1, <2>2, <2>4, <2>5 DEF Backup, KeptInv, Inv, TypeOK
  <1> QED BY <1>3, <1>4, <1>5 DEF Work

(* A feedback answered 200 was in its instance's file when it was: the     *)
(* durable backup is no less durable past Redis than through it            *)
(* (bandit.py, _mutate_with_redis_retry and _save).                        *)
THEOREM AcknowledgedIsBackedUp == Spec => ScoredIsBackedUp
  <1> DEFINE Step == \A t \in Txns : status[t] # "scored" /\ status'[t] = "scored" =>
                       t \in file'[home[t]].learned
  <1>1. KeptInv /\ [Next]_vars => [Step]_vars
    <2> SUFFICES ASSUME KeptInv, Next, NEW t \in Txns,
                        status[t] # "scored", status'[t] = "scored"
                 PROVE  t \in file'[home[t]].learned
      OBVIOUS
    <2>1. ASSUME NEW i \in Instances, NEW u \in Txns, Register(i, u) \/ Feedback(i, u)
          PROVE  FALSE
      BY <2>1 DEF Register, Feedback, KeptInv, Inv, TypeOK
    <2>2. ASSUME NEW i \in Instances, Work(i) PROVE t \in file'[home[t]].learned
      BY <2>2, WorkBacksUp
    <2>3. ASSUME NEW i \in Instances, SelectAction(i) \/ Snapshot(i) PROVE FALSE
      BY <2>3 DEF SelectAction, Snapshot
    <2>4. ASSUME NEW u \in Txns, Expire(u) PROVE FALSE
      BY <2>4 DEF Expire
    <2>5. ASSUME NEW i \in Instances, Restart(i) PROVE FALSE
      BY <2>5 DEF Restart, KeptInv, Inv, TypeOK
    <2> QED BY <2>1, <2>2, <2>3, <2>4, <2>5 DEF Next
  <1>2. ScoredIsBackedUp <=> [][Step]_vars
    BY DEF ScoredIsBackedUp
  <1> QED BY <1>1, <1>2, InitKept, NextKept, PTL DEF Spec

(* One instance alone loses nothing that was answered 200 to fewer         *)
(* failures than it has rounds, lost replies of EXEC included.             *)
THEOREM AloneNothingLost == Spec => []AloneNothingIsLost
  <1>1. KeptInv => AloneNothingIsLost
    BY DEF KeptInv, ScoredIsKept, AloneNothingIsLost
  <1> QED BY <1>1, InitKept, NextKept, PTL DEF Spec

-----------------------------------------------------------------------------
(* Whoever is alone and about to EXEC has learned all that Redis has.      *)
MemoryAhead ==
  Cardinality(up) = 1 =>
    \A i \in Instances : At(i, "exec") /\ redis # Nil =>
      redis.learned \subseteq mem[i].learned

LEMMA OnlyOneUp ==
  ASSUME Cardinality(up) = 1, KeptInv, NEW i \in up, NEW j \in up PROVE i = j
  <1>1. IsFiniteSet(up)
    BY SharedAssumption, FS_Subset DEF KeptInv, Inv, TypeOK
  <1>2. IsFiniteSet(up \ {i}) /\ Cardinality(up \ {i}) = 0
    BY <1>1, FS_RemoveElement
  <1>3. up \ {i} = {}
    BY <1>2, FS_EmptySet
  <1> QED BY <1>3

LEMMA MutatedKeeps ==
  ASSUME NEW t \in Txns, NEW p \in Payload PROVE p.learned \subseteq Mutated(t, p).learned
  BY DEF Mutated, Purged, Payload

LEMMA NextAhead ==
  ASSUME KeptInv, MemoryAhead, [Next]_vars PROVE MemoryAhead'
  <1> SUFFICES ASSUME Cardinality(up') = 1, NEW i \in Instances,
                      At(i, "exec")', redis' # Nil
               PROVE  redis'.learned \subseteq mem'[i].learned
    BY DEF MemoryAhead
  <1>1. /\ running'[i] # Nil /\ running'[i].step = "exec"
        /\ running \in [Instances -> Method \cup {Nil}]
        /\ mem \in [Instances -> Payload] /\ redis \in Payload \cup {Nil}
    BY DEF At, KeptInv, Inv, TypeOK
  <1>2. up' = up
    BY DEF Next, Register, Feedback, Work, GetAndMutate, GetFails, ExecAndBackup, ExecFails,
           MutateUnguarded, SelectAction, Snapshot, Expire, Restart, vars
  <1>3. Cardinality(up) = 1
    BY <1>2
  <1>4. ASSUME UNCHANGED <<redis, mem, running>>
        PROVE  redis'.learned \subseteq mem'[i].learned
    BY <1>1, <1>3, <1>4 DEF MemoryAhead, At
  <1>5. ASSUME NEW j \in Instances, NEW t \in Txns, Register(j, t) \/ Feedback(j, t)
        PROVE  redis'.learned \subseteq mem'[i].learned
    <2>1. UNCHANGED <<redis, mem>> /\ Begins(j, t)
      BY <1>5 DEF Register, Feedback, storage
    <2>2. i # j
      BY <1>1, <2>1 DEF Begins
    <2>3. running'[i] = running[i]
      BY <1>1, <2>1, <2>2 DEF Begins
    <2> QED BY <1>1, <1>3, <2>1, <2>3 DEF MemoryAhead, At
  <1>6. ASSUME NEW j \in Instances, Work(j) PROVE redis'.learned \subseteq mem'[i].learned
    <2>1. running[j] # Nil /\ \A k \in Instances \ {j} : running'[k] = running[k]
      BY <1>1, <1>6
      DEF Work, GetAndMutate, GetFails, ExecAndBackup, ExecFails, MutateUnguarded,
          At, Ends, NextRound
    <2>2. i = j
      <3> SUFFICES ASSUME i # j PROVE FALSE
        OBVIOUS
      <3>1. running[i] # Nil
        BY <1>1, <2>1
      <3>2. i \in up /\ j \in up
        BY <2>1, <3>1, RunsAtHome
      <3> QED BY <1>3, <3>2, OnlyOneUp
    <2>3. running[i].txn \in Txns
      BY <2>1, <2>2, RunsAtHome
    <2>4. CASE GetAndMutate(i)
      <3>1. mem'[i] = Mutated(running[i].txn, Reloaded(i)) /\ redis' = redis
        BY <1>1, <2>4 DEF GetAndMutate
      <3>2. Reloaded(i) \in Payload /\ Reloaded(i).learned = redis.learned
        BY <1>1, <3>1 DEF Reloaded, Purged, Payload
      <3> QED BY <2>3, <3>1, <3>2, MutatedKeeps
    <2>5. ~(GetFails(i) \/ ExecFails(i))
      <3>1. AfterFailure(running[i]).step # "exec"
        <4>1. running[i] \in Method
          BY <1>1, <2>1, <2>2
        <4> QED BY <4>1 DEF AfterFailure, Method
      <3> QED BY <1>1, <3>1 DEF GetFails, ExecFails, NextRound
    <2>6. ~(ExecAndBackup(i) \/ MutateUnguarded(i))
      BY <1>1 DEF ExecAndBackup, MutateUnguarded, Ends
    <2> QED BY <1>6, <2>2, <2>4, <2>5, <2>6 DEF Work
  <1>7. ASSUME NEW j \in Instances, SelectAction(j) \/ Snapshot(j) PROVE FALSE
    <2>1. j \in up /\ running[j] = Nil /\ running' = running
      BY <1>7 DEF SelectAction, Snapshot
    <2>2. i \in up
      BY <1>1, <2>1, RunsAtHome
    <2> QED BY <1>1, <1>3, <2>1, <2>2, OnlyOneUp
  <1>8. ASSUME NEW j \in Instances, Restart(j) PROVE FALSE
    <2>1. j \in up /\ running' = [running EXCEPT ![j] = Nil]
      BY <1>8 DEF Restart
    <2>2. i # j /\ running[i] # Nil
      BY <1>1, <2>1
    <2>3. i \in up
      BY <2>2, RunsAtHome
    <2> QED BY <1>3, <2>1, <2>2, <2>3, OnlyOneUp
  <1>9. ASSUME NEW t \in Txns, Expire(t) PROVE UNCHANGED <<redis, mem, running>>
    BY <1>9 DEF Expire, storage
  <1>10. UNCHANGED vars => UNCHANGED <<redis, mem, running>>
    BY DEF vars
  <1> QED BY <1>4, <1>5, <1>6, <1>7, <1>8, <1>9, <1>10 DEF Next

(* The compare-and-set that is none does no harm to an instance that is    *)
(* deployed alone: between its GET and its EXEC nothing leaves Redis       *)
(* (bandit.py, _mutate_with_redis_retry).                                  *)
THEOREM AloneOverwritesNothing == Spec => CasKeepsAlone
  <1> DEFINE Keeps == Cardinality(up) = 1 =>
                \A i \in Instances : At(i, "exec") /\ redis # Nil =>
                  redis' # Nil /\ redis.learned \subseteq redis'.learned
  <1>1. KeptInv /\ MemoryAhead /\ [Next]_vars => [Keeps]_vars
    <2> SUFFICES ASSUME KeptInv, MemoryAhead, Next, Cardinality(up) = 1,
                        NEW i \in Instances, At(i, "exec"), redis # Nil
                 PROVE  redis' # Nil /\ redis.learned \subseteq redis'.learned
      OBVIOUS
    <2>1. mem[i] # Nil /\ redis.learned \subseteq mem[i].learned /\ i \in up
      BY PayloadAssumption, RunsAtHome DEF MemoryAhead, KeptInv, Inv, TypeOK, At
    <2>2. SUFFICES redis' \in {redis, mem[i]}
      BY <2>1
    <2>3. ASSUME NEW j \in Instances, NEW t \in Txns, Register(j, t) \/ Feedback(j, t)
          PROVE  redis' = redis
      BY <2>3 DEF Register, Feedback, storage
    <2>4. ASSUME NEW j \in Instances, Work(j) PROVE redis' \in {redis, mem[i]}
      <3>1. running[j] # Nil
        BY <2>4 DEF Work, GetAndMutate, GetFails, ExecAndBackup, ExecFails,
                    MutateUnguarded, At
      <3>2. i = j
        BY <2>1, <3>1, RunsAtHome, OnlyOneUp
      <3> QED BY <2>4, <3>2 DEF Work, GetAndMutate, GetFails, ExecAndBackup, ExecFails,
                                MutateUnguarded, At, storage
    <2>5. ASSUME NEW j \in Instances, SelectAction(j) \/ Snapshot(j)
          PROVE  redis' = redis
      <3>1. j \in up /\ running[j] = Nil
        BY <2>5 DEF SelectAction, Snapshot
      <3>2. j = i
        BY <2>1, <3>1, OnlyOneUp
      <3> QED BY <3>1, <3>2 DEF At
    <2>6. ASSUME NEW j \in Instances, Restart(j) PROVE redis' \in {redis, mem[i]}
      <3>1. j = i
        BY <2>1, <2>6, OnlyOneUp DEF Restart
      <3> QED BY <2>6, <3>1 DEF Restart
    <2>7. ASSUME NEW t \in Txns, Expire(t) PROVE redis' = redis
      BY <2>7 DEF Expire, storage
    <2> QED BY <2>3, <2>4, <2>5, <2>6, <2>7 DEF Next
  <1>2. CasKeepsAlone <=> [][Keeps]_vars
    BY DEF CasKeepsAlone
  <1>3. Init => MemoryAhead
    BY DEF Init, MemoryAhead
  <1> QED BY <1>1, <1>2, <1>3, InitKept, NextKept, NextAhead, PTL DEF Spec
=============================================================================
