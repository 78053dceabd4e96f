----------------------- MODULE AttributionRepairProofs -----------------------
(***************************************************************************)
(* Proofs about AttributionRepair, for any number of sessions, turns,      *)
(* workers, re-derivers and concurrent repairs, any key order and any      *)
(* bound on faults and repairs, as long as no advisory-lock connection     *)
(* drops under a pass (MaxLockLosses = 0).                                 *)
(*                                                                         *)
(* Three layers, each on the ones before: the locks (LockDiscipline), the  *)
(* marks of the queue under the locks (MarkDiscipline), and the way of a   *)
(* moved turn from one session to the other (MoveDiscipline).              *)
(***************************************************************************)
EXTENDS AttributionRepair, FiniteSetTheorems, TLAPS

Owning == {"record", "readOld", "writeOld", "cleanup", "readNew", "writeNew", "mark"}
Phase == {"idle", "observe", "lock"} \cup Owning

RepairTypeOK ==
    /\ attribution \in [Turn -> Session]
    /\ sessions \in SUBSET Session
    /\ queue \in [Session -> Stamp \cup {NoStamp}]
    /\ rows \in [Turn -> Session \cup {NoRow}]
    /\ lock \in [Session -> Deriver \cup Repairer \cup {Nobody}]
    /\ pc \in [Deriver -> PC]
    /\ target \in [Deriver -> Session]
    /\ cur \in [Deriver -> Stamp \cup {NoStamp}]
    /\ read \in [Deriver -> SUBSET Turn]
    /\ derived \in [Session -> SUBSET Turn]
    /\ faults \in Nat
    /\ lockLosses \in Nat
    /\ phase \in [Repairer -> Phase]
    /\ turn \in [Repairer -> Turn]
    /\ oldKey \in [Repairer -> Session]
    /\ newKey \in [Repairer -> Session]
    /\ seen \in [Repairer -> SUBSET Turn]

\* A repair holds no lock but those of its two sessions, and none before it
\* has observed or after it is done.
KeysOnly ==
    \A r \in Repairer, s \in Session :
        lock[s] = r => phase[r] \notin {"idle", "observe"} /\ s \in {oldKey[r], newKey[r]}

\* A repair that still waits holds nothing above what it waits for.
InOrder ==
    \A r \in Repairer : phase[r] = "lock" =>
        /\ Wanted(r) # {}
        /\ \A s \in Session, o \in Wanted(r) : lock[s] = r => Rank[s] < Rank[o]

LockDiscipline ==
    /\ RepairTypeOK
    /\ RepairHoldsLocks
    /\ KeysOnly
    /\ InOrder

----------------------------------------------------------------------------
(***************************************************************************)
(* Types.                                                                  *)
(***************************************************************************)

\* The table-valued helpers stay in their types.
LEMMA HelperTypes ==
    ASSUME RepairTypeOK
    PROVE  /\ \A st \in Stamp : Swept(st) \in [Session -> Stamp \cup {NoStamp}]
           /\ \A s \in Session : \A turns \in SUBSET Turn :
                 Projected(s, turns) \in [Turn -> Session \cup {NoRow}]
           /\ \A w \in Deriver : Cleared(w) \in [Session -> Stamp \cup {NoStamp}]
           /\ \A s \in Session : Raw(s) \in SUBSET Turn
           /\ FreshStamp \subseteq Stamp
           /\ \A r \in Repairer : Subject(r) \in Session
<1>1. \A st \in Stamp : Swept(st) \in [Session -> Stamp \cup {NoStamp}]
  BY DEF RepairTypeOK, Swept
<1>2. \A s \in Session : \A turns \in SUBSET Turn :
         Projected(s, turns) \in [Turn -> Session \cup {NoRow}]
  BY DEF RepairTypeOK, Projected
<1>3. \A w \in Deriver : Cleared(w) \in [Session -> Stamp \cup {NoStamp}]
  BY DEF RepairTypeOK, Cleared
<1>4. QED
  BY <1>1, <1>2, <1>3 DEF RepairTypeOK, Raw, FreshStamp, Subject

\* A repair that wants a lock wants the lowest of them first.
LEMMA NextLockIsLowest ==
    ASSUME RepairTypeOK, NEW r \in Repairer, Wanted(r) # {}
    PROVE  /\ NextLock(r) \in Wanted(r) /\ NextLock(r) \in Session
           /\ \A o \in Wanted(r) : o # NextLock(r) => Rank[NextLock(r)] < Rank[o]
<1>1. Wanted(r) \subseteq {oldKey[r], newKey[r]} /\ Wanted(r) \subseteq Session
  BY DEF Wanted, RepairTypeOK
<1>2. \E s \in Wanted(r) : \A o \in Wanted(r) : Rank[s] <= Rank[o]
  <2>1. \A a, b \in Session : Rank[a] \in Nat /\ (Rank[a] <= Rank[b] \/ Rank[b] <= Rank[a])
    BY RankAssumption
  <2>2. CASE oldKey[r] \in Wanted(r) /\ newKey[r] \in Wanted(r)
    BY <1>1, <2>1, <2>2
  <2>3. CASE oldKey[r] \notin Wanted(r) \/ newKey[r] \notin Wanted(r)
    <3>1. PICK s \in Wanted(r) : Wanted(r) = {s}
      BY <1>1, <2>3
    <3>2. QED
      BY <1>1, <2>1, <3>1
  <2>4. QED
    BY <2>2, <2>3
<1>3. NextLock(r) \in Wanted(r) /\ \A o \in Wanted(r) : Rank[NextLock(r)] <= Rank[o]
  BY <1>2 DEF NextLock
<1>4. QED
  BY <1>1, <1>3, RankAssumption

\* One lock is left to take exactly when the lowest is the only one.
LEMMA LastLock ==
    ASSUME RepairTypeOK, NEW r \in Repairer, Wanted(r) # {}
    PROVE  Cardinality(Wanted(r)) = 1 <=> Wanted(r) = {NextLock(r)}
<1>1. IsFiniteSet({oldKey[r]} \cup {newKey[r]})
  BY FS_Singleton, FS_Union
<1>2. Wanted(r) \in SUBSET ({oldKey[r]} \cup {newKey[r]})
  BY DEF Wanted
<1>3. IsFiniteSet(Wanted(r))
  BY <1>1, <1>2, FS_Subset
<1>4. Cardinality(Wanted(r)) = 1 <=> \E x : Wanted(r) = {x}
  BY <1>3, FS_Singleton
<1>5. QED
  BY <1>4, NextLockIsLowest

\* Every step of the derive pipeline keeps the types.  With every turn captured
\* before the first repair, ingest moves no turn.
LEMMA PipelineTypes ==
    ASSUME RepairTypeOK, Next, UNCHANGED <<phase, repairVars>>
    PROVE  RepairTypeOK' /\ attribution' = attribution
<1> USE BoundAssumption, NoneAssumption, HelperTypes
    DEF RepairTypeOK, PC, Held, Goto, rawVars, passVars, boundVars, repairVars
<1>1. ASSUME NEW t \in Turn, NEW s \in Session \cup {Keyless}, PutRawTurn(t, s)
      PROVE  RepairTypeOK' /\ attribution' = attribution
  <2>1. attribution[t] \in Session /\ attribution[t] # NoRow
    OBVIOUS
  <2>2. attribution' = attribution
    BY <1>1, <2>1 DEF PutRawTurn
  <2>3. queue' \in [Session -> Stamp \cup {NoStamp}]
    BY <1>1 DEF PutRawTurn
  <2>4. sessions' \in SUBSET Session
    BY <1>1 DEF PutRawTurn
  <2>5. UNCHANGED <<rows, lock, pc, passVars, derived, boundVars, phase, repairVars>>
    BY <1>1 DEF PutRawTurn
  <2>6. QED
    BY <2>2, <2>3, <2>4, <2>5
<1>2. ASSUME NEW s \in Session, IngestTurn(s)
      PROVE  RepairTypeOK' /\ attribution' = attribution
  BY <1>2 DEF IngestTurn
<1>3. ASSUME NEW t \in Turn, AgeOut(t)
      PROVE  RepairTypeOK' /\ attribution' = attribution
  BY <1>3 DEF AgeOut
<1>4. ASSUME NEW w \in Worker, WorkerStep(w)
      PROVE  RepairTypeOK' /\ attribution' = attribution
  <2> USE DEF Deriver
  <2>1. CASE Start(w)
    BY <2>1 DEF Start, Sweep
  <2>2. CASE SweepTick(w)
    BY <2>2 DEF SweepTick, Sweep
  <2>3. CASE RunPoll(w)
    BY <2>3 DEF RunPoll
  <2>4. CASE EndPoll(w)
    BY <2>4 DEF EndPoll
  <2>5. ASSUME NEW s \in Session, TryLock(w, s)
        PROVE  RepairTypeOK' /\ attribution' = attribution
    <3>1. /\ lock' \in [Session -> Deriver \cup Repairer \cup {Nobody}]
          /\ target' \in [Deriver -> Session]
          /\ pc' \in [Deriver -> PC]
      <4>1. CASE lock[s] = Nobody
        <5>1. /\ lock' = [lock EXCEPT ![s] = w]
              /\ target' = [target EXCEPT ![w] = s]
              /\ pc' = [pc EXCEPT ![w] = "locked"]
          BY <2>5, <4>1 DEF TryLock
        <5>2. QED
          BY <5>1
      <4>2. CASE lock[s] # Nobody
        BY <2>5, <4>2 DEF TryLock
      <4>3. QED
        BY <4>1, <4>2
    <3>2. UNCHANGED <<rawVars, queue, rows, cur, read, derived, boundVars>>
      BY <2>5 DEF TryLock
    <3>3. QED
      BY <3>1, <3>2
  <2>6. CASE RereadDirty(w)
    BY <2>6 DEF RereadDirty
  <2>7. CASE RereadSkip(w)
    BY <2>7 DEF RereadSkip
  <2>8. CASE ClearDeriveDirty(w)
    BY <2>8 DEF ClearDeriveDirty
  <2>9. CASE InfraError(w)
    BY <2>9 DEF InfraError, Fault
  <2>10. QED
    BY <1>4, <2>1, <2>2, <2>3, <2>4, <2>5, <2>6, <2>7, <2>8, <2>9 DEF WorkerStep
<1>5. ASSUME NEW r \in Rederiver, RederiverStep(r)
      PROVE  RepairTypeOK' /\ attribution' = attribution
  <2>1. ASSUME NEW s \in Session, CallRederive(r, s)
        PROVE  RepairTypeOK' /\ attribution' = attribution
    BY <2>1 DEF CallRederive, Deriver
  <2>2. CASE AcquireLock(r)
    BY <2>2 DEF AcquireLock, Deriver
  <2>3. QED
    BY <1>5, <2>1, <2>2 DEF RederiverStep
<1>6. ASSUME NEW d \in Deriver, PassStep(d)
      PROVE  RepairTypeOK' /\ attribution' = attribution
  <2>1. CASE ReadRaw(d)
    BY <2>1 DEF ReadRaw
  <2>2. CASE WriteDerivedSet(d)
    BY <2>2 DEF WriteDerivedSet, Write
  <2>3. CASE Release(d)
    BY <2>3 DEF Release
  <2>4. CASE DeriveError(d)
    <3>1. rows' \in [Turn -> Session \cup {NoRow}] /\ derived' \in [Session -> SUBSET Turn]
      <4>1. CASE UNCHANGED <<rows, derived>>
        BY <4>1
      <4>2. CASE Write(d)
        BY <4>2 DEF Write
      <4>3. QED
        BY <2>4, <4>1, <4>2 DEF DeriveError
    <3>2. /\ pc' = [pc EXCEPT ![d] = "release"] /\ faults' = faults + 1
          /\ UNCHANGED <<rawVars, queue, lock, passVars, lockLosses>>
      BY <2>4 DEF DeriveError, Fault
    <3>3. QED
      BY <3>1, <3>2
  <2>5. CASE Crash(d)
    BY <2>5 DEF Crash, Fault
  <2>6. QED
    BY <1>6, <2>1, <2>2, <2>3, <2>4, <2>5 DEF PassStep
<1>7. ASSUME NEW s \in Session, LoseLock(s)
      PROVE  RepairTypeOK' /\ attribution' = attribution
  BY <1>7 DEF LoseLock
<1>8. QED
  BY <1>1, <1>2, <1>3, <1>4, <1>5, <1>6, <1>7 DEF Next, Ingest

\* Every step of a repair keeps the types.
LEMMA RepairTypes ==
    ASSUME RepairTypeOK, NEW r \in Repairer, RepairStep(r),
           phase[r] = "lock" => Wanted(r) # {}
    PROVE  RepairTypeOK'
<1> USE BoundAssumption, NoneAssumption, HelperTypes
    DEF RepairTypeOK, Phase, Owning, Become, vars, rawVars, passVars, boundVars, repairVars
<1>1. ASSUME NEW t \in Turn, NEW s \in Session, Request(r, t, s)
      PROVE  RepairTypeOK'
  BY <1>1 DEF Request
<1>2. CASE Observe(r)
  BY <1>2 DEF Observe
<1>3. CASE LockKey(r)
  <2>1. NextLock(r) \in Session
    BY <1>3, NextLockIsLowest DEF LockKey
  <2>2. QED
    BY <1>3, <2>1 DEF LockKey
<1>4. CASE Record(r)
  <2>1. queue' \in [Session -> Stamp \cup {NoStamp}]
    BY <1>4 DEF Record
  <2>2. attribution' \in [Turn -> Session] /\ sessions' \in SUBSET Session
    BY <1>4 DEF Record
  <2>3. QED
    BY <1>4, <2>1, <2>2 DEF Record
<1>5. CASE Retry(r)
  BY <1>5 DEF Retry, Unlocked
<1>6. CASE RecordError(r)
  BY <1>6 DEF RecordError, Unlocked, Fault
<1>7. CASE ReadSession(r)
  BY <1>7 DEF ReadSession
<1>8. CASE WriteSession(r)
  <2>1. rows' \in [Turn -> Session \cup {NoRow}] /\ derived' \in [Session -> SUBSET Turn]
    BY <1>8 DEF WriteSession, SessionWritten
  <2>2. phase' \in [Repairer -> Phase]
    BY <1>8 DEF WriteSession
  <2>3. UNCHANGED <<rawVars, queue, lock, pc, passVars, boundVars, repairVars>>
    BY <1>8 DEF WriteSession
  <2>4. QED
    BY <2>1, <2>2, <2>3, SMTT(30)
<1>9. CASE RederiveError(r)
  <2>1. rows' \in [Turn -> Session \cup {NoRow}] /\ derived' \in [Session -> SUBSET Turn]
    <3>1. ASSUME UNCHANGED <<rows, derived>>
          PROVE  rows' \in [Turn -> Session \cup {NoRow}] /\ derived' \in [Session -> SUBSET Turn]
      BY <3>1
    <3>2. ASSUME SessionWritten(r)
          PROVE  rows' \in [Turn -> Session \cup {NoRow}] /\ derived' \in [Session -> SUBSET Turn]
      BY <3>2 DEF SessionWritten
    <3>3. UNCHANGED <<rows, derived>> \/ SessionWritten(r)
      BY <1>9 DEF RederiveError
    <3>4. QED
      BY <3>1, <3>2, <3>3
  <2>2. phase' \in [Repairer -> Phase] /\ faults' \in Nat
    BY <1>9 DEF RederiveError, Fault
  <2>3. QED
    BY <1>9, <2>1, <2>2 DEF RederiveError
<1>10. CASE Cleanup(r)
  <2>1. rows' \in [Turn -> Session \cup {NoRow}] /\ sessions' \in SUBSET Session
    BY <1>10 DEF Cleanup, DropSource
  <2>2. QED
    BY <1>10, <2>1 DEF Cleanup
<1>11. ASSUME NEW s \in Session, MarkPending(r, s)
       PROVE  RepairTypeOK'
  <2>1. queue' \in [Session -> Stamp \cup {NoStamp}] /\ faults' \in Nat
    BY <1>11 DEF MarkPending, Fault
  <2>2. QED
    BY <1>11, <2>1 DEF MarkPending
<1>12. CASE ReleaseKeys(r)
  BY <1>12 DEF ReleaseKeys, Unlocked
<1>13. CASE RepairCrash(r)
  BY <1>13 DEF RepairCrash, Unlocked, Fault
<1>14. QED
  BY <1>1, <1>2, <1>3, <1>4, <1>5, <1>6, <1>7, <1>8, <1>9, <1>10, <1>11, <1>12, <1>13 DEF RepairStep

----------------------------------------------------------------------------
(***************************************************************************)
(* The locks.                                                              *)
(***************************************************************************)

\* The derive pipeline keeps to the locks of its own passes.
LEMMA PipelineLocks ==
    ASSUME RepairTypeOK, PassHoldsLock, MaxLockLosses = 0, Next
    PROVE  /\ PassHoldsLock'
           /\ \A r \in Repairer, s \in Session : lock'[s] = r <=> lock[s] = r
<1> USE RepairerAssumption, ProcessAssumption
    DEF RepairTypeOK, PassHoldsLock, PC, Held, Goto, rawVars, passVars, boundVars, Deriver
<1> DEFINE Goal == /\ PassHoldsLock'
                   /\ \A r \in Repairer, s \in Session : lock'[s] = r <=> lock[s] = r
<1>1. ASSUME NEW t \in Turn, NEW s \in Session \cup {Keyless}, PutRawTurn(t, s)
      PROVE  Goal
  BY <1>1 DEF PutRawTurn
<1>2. ASSUME NEW s \in Session, IngestTurn(s)
      PROVE  Goal
  BY <1>2 DEF IngestTurn
<1>3. ASSUME NEW t \in Turn, AgeOut(t)
      PROVE  Goal
  BY <1>3 DEF AgeOut
<1>4. ASSUME NEW w \in Worker, WorkerStep(w)
      PROVE  Goal
  <2>1. CASE Start(w) \/ SweepTick(w)
    BY <2>1 DEF Start, SweepTick, Sweep
  <2>2. CASE RunPoll(w) \/ EndPoll(w)
    BY <2>2 DEF RunPoll, EndPoll
  <2>3. ASSUME NEW s \in Session, TryLock(w, s)
        PROVE  Goal
    <3>1. CASE lock[s] = Nobody
      <4>1. /\ lock' = [lock EXCEPT ![s] = w]
            /\ target' = [target EXCEPT ![w] = s]
            /\ pc' = [pc EXCEPT ![w] = "locked"]
        BY <2>3, <3>1 DEF TryLock
      <4>2. PassHoldsLock'
        BY <3>1, <4>1
      <4>3. QED
        BY <3>1, <4>1, <4>2
    <3>2. CASE lock[s] # Nobody
      BY <2>3, <3>2 DEF TryLock
    <3>3. QED
      BY <3>1, <3>2
  <2>4. CASE RereadDirty(w) \/ RereadSkip(w) \/ ClearDeriveDirty(w)
    BY <2>4 DEF RereadDirty, RereadSkip, ClearDeriveDirty
  <2>5. CASE InfraError(w)
    BY <2>5 DEF InfraError
  <2>6. QED
    BY <1>4, <2>1, <2>2, <2>3, <2>4, <2>5 DEF WorkerStep
<1>5. ASSUME NEW r \in Rederiver, RederiverStep(r)
      PROVE  Goal
  <2>1. ASSUME NEW s \in Session, CallRederive(r, s)
        PROVE  Goal
    BY <2>1 DEF CallRederive
  <2>2. CASE AcquireLock(r)
    <3>1. PassHoldsLock'
      BY <2>2 DEF AcquireLock
    <3>2. QED
      BY <2>2, <3>1 DEF AcquireLock
  <2>3. QED
    BY <1>5, <2>1, <2>2 DEF RederiverStep
<1>6. ASSUME NEW d \in Deriver, PassStep(d)
      PROVE  Goal
  <2>1. CASE ReadRaw(d) \/ WriteDerivedSet(d) \/ DeriveError(d)
    BY <2>1 DEF ReadRaw, WriteDerivedSet, DeriveError
  <2>2. CASE Release(d)
    <3>1. PassHoldsLock'
      BY <2>2 DEF Release
    <3>2. QED
      BY <2>2, <3>1 DEF Release
  <2>3. CASE Crash(d)
    <3>1. PassHoldsLock'
      BY <2>3 DEF Crash
    <3>2. QED
      BY <2>3, <3>1 DEF Crash
  <2>4. QED
    BY <1>6, <2>1, <2>2, <2>3 DEF PassStep
<1>7. ASSUME NEW s \in Session
      PROVE  ~LoseLock(s)
  BY DEF LoseLock
<1>8. QED
  BY <1>1, <1>2, <1>3, <1>4, <1>5, <1>6, <1>7 DEF Next, Ingest

\* A repair's locks, seen by the passes: it takes free ones and gives its own
\* back, and leaves the passes' alone.
LEMMA RepairPasses ==
    ASSUME RepairTypeOK, PassHoldsLock, NEW r \in Repairer, UNCHANGED <<pc, target>>,
           \/ lock' = lock \/ lock' = Unlocked(r)
           \/ \E k \in Session : lock[k] = Nobody /\ lock' = [lock EXCEPT ![k] = r]
    PROVE  PassHoldsLock'
<1> USE RepairerAssumption, ProcessAssumption DEF RepairTypeOK, PassHoldsLock
<1>1. CASE lock' = lock
  BY <1>1
<1>2. CASE lock' = Unlocked(r)
  BY <1>2 DEF Unlocked
<1>3. ASSUME NEW k \in Session, lock[k] = Nobody, lock' = [lock EXCEPT ![k] = r]
      PROVE  PassHoldsLock'
  <2>1. \A d \in Deriver : d # Nobody /\ d # r
    OBVIOUS
  <2>2. QED
    BY <1>3, <2>1
<1>4. QED
  BY <1>1, <1>2, <1>3

\* Every step of a repair keeps the lock discipline.
LEMMA RepairLocks ==
    ASSUME LockDiscipline, NEW r \in Repairer, RepairStep(r)
    PROVE  LockDiscipline'
<1> USE RepairerAssumption
    DEF LockDiscipline, RepairHoldsLocks, KeysOnly, InOrder, RepairTypeOK, Phase, Owning, Become,
        vars, rawVars, passVars, boundVars, repairVars
<1>1. RepairTypeOK'
  BY RepairTypes
<1>2. ASSUME UNCHANGED <<lock, pc, target>>, UNCHANGED <<oldKey, newKey>>,
             \A q \in Repairer : \/ phase'[q] = phase[q]
                                 \/ phase[q] \in Owning /\ phase'[q] \in Owning
                                 \/ phase[q] = "idle" /\ phase'[q] = "observe"
      PROVE  LockDiscipline'
  <2>1. \A q \in Repairer : Wanted(q)' = Wanted(q)
    BY <1>2 DEF Wanted
  <2>2. PassHoldsLock'
    BY <1>2 DEF PassHoldsLock
  <2>3. KeysOnly'
    BY <1>2
  <2>4. InOrder'
    <3>1. \A q \in Repairer : phase'[q] = "lock" => phase[q] = "lock"
      BY <1>2
    <3>2. QED
      BY <1>2, <2>1, <3>1
  <2>5. RepairHoldsLocks'
    BY <1>2, <2>2
  <2>6. QED
    BY <1>1, <2>3, <2>4, <2>5
<1>3. ASSUME lock' = Unlocked(r), UNCHANGED <<pc, target, oldKey, newKey>>,
             \E p \in {"idle", "observe"} : phase' = [phase EXCEPT ![r] = p]
      PROVE  LockDiscipline'
  <2>1. PassHoldsLock'
    BY <1>3, RepairPasses
  <2>2. \A q \in Repairer \ {r} : Wanted(q)' = Wanted(q)
    BY <1>3 DEF Wanted, Unlocked
  <2>3. \A q \in Repairer, s \in Session : lock'[s] = q <=> lock[s] = q /\ q # r
    BY <1>3 DEF Unlocked
  <2>4. KeysOnly'
    BY <1>3, <2>3
  <2>5. InOrder'
    BY <1>3, <2>2, <2>3
  <2>6. RepairHoldsLocks'
    BY <1>3, <2>1, <2>3
  <2>7. QED
    BY <1>1, <2>4, <2>5, <2>6
<1>4. ASSUME NEW t \in Turn, NEW s \in Session, Request(r, t, s)
      PROVE  LockDiscipline'
  <2>1. /\ newKey' = [newKey EXCEPT ![r] = s] /\ UNCHANGED <<lock, pc, target, oldKey>>
        /\ phase[r] = "idle" /\ phase' = [phase EXCEPT ![r] = "observe"]
    BY <1>4 DEF Request
  <2>2. \A q \in Repairer \ {r} : Wanted(q)' = Wanted(q)
    BY <2>1 DEF Wanted
  <2>3. PassHoldsLock'
    BY <2>1 DEF PassHoldsLock
  <2>4. KeysOnly' /\ InOrder' /\ RepairHoldsLocks'
    BY <2>1, <2>2, <2>3
  <2>5. QED
    BY <1>1, <2>4
<1>5. CASE Observe(r)
  <2>1. CASE phase' = [phase EXCEPT ![r] = "lock"]
    <3>1. /\ UNCHANGED <<lock, pc, target, newKey>> /\ phase[r] = "observe"
          /\ oldKey' = [oldKey EXCEPT ![r] = attribution[turn[r]]]
      BY <1>5, <2>1 DEF Observe
    <3>2. \A q \in Repairer \ {r} : Wanted(q)' = Wanted(q)
      BY <3>1 DEF Wanted
    <3>3. \A s \in Session : lock[s] # r
      BY <3>1
    <3>4. newKey[r] \in Wanted(r)'
      BY <3>1, <3>3 DEF Wanted
    <3>5. PassHoldsLock'
      BY <3>1 DEF PassHoldsLock
    <3>6. KeysOnly'
      BY <2>1, <3>1, <3>3
    <3>7. InOrder'
      BY <2>1, <3>1, <3>2, <3>3, <3>4
    <3>8. RepairHoldsLocks'
      BY <2>1, <3>1, <3>5
    <3>9. QED
      BY <1>1, <3>6, <3>7, <3>8
  <2>2. CASE attribution[turn[r]] = NoRow
    BY <2>2, NoneAssumption
  <2>3. QED
    BY <1>5, <2>1, <2>2 DEF Observe
<1>6. CASE LockKey(r)
  <2> DEFINE k == NextLock(r)
  <2>1. /\ phase[r] = "lock" /\ lock[k] = Nobody /\ lock' = [lock EXCEPT ![k] = r]
        /\ UNCHANGED <<pc, target, oldKey, newKey>>
    BY <1>6 DEF LockKey
  <2>2. Wanted(r) # {}
    BY <2>1
  <2>3. /\ k \in Wanted(r) /\ k \in Session
        /\ \A o \in Wanted(r) : o # k => Rank[k] < Rank[o]
    BY <2>2, NextLockIsLowest
  <2>4. Wanted(r)' = Wanted(r) \ {k} /\ \A q \in Repairer \ {r} : Wanted(q)' = Wanted(q)
    BY <2>1, <2>3 DEF Wanted
  <2>5. PassHoldsLock'
    BY <2>1, <2>3, RepairPasses
  <2>6. \A s \in Session : lock'[s] = r <=> lock[s] = r \/ s = k
    BY <2>1, <2>3
  <2>7. \A q \in Repairer \ {r}, s \in Session : lock'[s] = q <=> lock[s] = q
    BY <2>1, <2>3
  <2>8. IF Wanted(r) = {k} THEN phase' = [phase EXCEPT ![r] = "record"] ELSE phase' = phase
    BY <1>6, <2>2, LastLock DEF LockKey
  <2>9. KeysOnly'
    <3>1. k \in {oldKey[r], newKey[r]}
      BY <2>3 DEF Wanted
    <3>2. QED
      BY <2>1, <2>6, <2>7, <2>8, <3>1
  <2>10. InOrder'
    <3>1. ASSUME NEW q \in Repairer \ {r}, phase'[q] = "lock"
          PROVE  /\ Wanted(q)' # {}
                 /\ \A s \in Session, o \in Wanted(q)' : lock'[s] = q => Rank[s] < Rank[o]
      BY <2>4, <2>7, <2>8, <3>1
    <3>2. ASSUME phase'[r] = "lock"
          PROVE  /\ Wanted(r)' # {}
                 /\ \A s \in Session, o \in Wanted(r)' : lock'[s] = r => Rank[s] < Rank[o]
      <4>1. Wanted(r) # {k}
        BY <2>8, <3>2
      <4>2. QED
        BY <2>1, <2>3, <2>4, <2>6, <4>1
    <3>3. QED
      BY <3>1, <3>2
  <2>11. RepairHoldsLocks'
    <3>1. Wanted(r) = {k} => lock'[oldKey[r]] = r /\ lock'[newKey[r]] = r
      BY <2>6 DEF Wanted
    <3>2. QED
      BY <2>1, <2>5, <2>7, <2>8, <3>1
  <2>12. QED
    BY <1>1, <2>9, <2>10, <2>11
<1>7. CASE Record(r) \/ ReadSession(r) \/ WriteSession(r) \/ Cleanup(r)
  BY <1>2, <1>7 DEF Record, ReadSession, WriteSession, Cleanup
<1>8. CASE RederiveError(r)
  BY <1>2, <1>8 DEF RederiveError
<1>9. ASSUME NEW s \in Session, MarkPending(r, s)
      PROVE  LockDiscipline'
  BY <1>2, <1>9 DEF MarkPending
<1>10. CASE Retry(r) \/ RecordError(r) \/ ReleaseKeys(r) \/ RepairCrash(r)
  BY <1>3, <1>10 DEF Retry, RecordError, ReleaseKeys, RepairCrash
<1>11. QED
  BY <1>4, <1>5, <1>6, <1>7, <1>8, <1>9, <1>10 DEF RepairStep

\* The lock discipline holds in every reachable state.
LEMMA LocksHold ==
    ASSUME MaxLockLosses = 0
    PROVE  RepairSpec => []LockDiscipline
<1>1. ASSUME RepairInit
      PROVE  LockDiscipline
  <2>1. RepairTypeOK
    BY <1>1 DEF RepairInit, RepairTypeOK, PC, Phase, Raw
  <2>2. PassHoldsLock
    BY <1>1 DEF RepairInit, PassHoldsLock, Held
  <2>3. RepairHoldsLocks /\ KeysOnly /\ InOrder
    BY <1>1, <2>2, RepairerAssumption DEF RepairInit, RepairHoldsLocks, KeysOnly, InOrder
  <2>4. QED
    BY <2>1, <2>3 DEF LockDiscipline
<1>2. ASSUME LockDiscipline, [RepairNext]_allVars
      PROVE  LockDiscipline'
  <2>1. CASE Next /\ UNCHANGED <<phase, repairVars>>
    <3>1. RepairTypeOK'
      BY <1>2, <2>1, PipelineTypes DEF LockDiscipline
    <3>2. PassHoldsLock' /\ \A r \in Repairer, s \in Session : lock'[s] = r <=> lock[s] = r
      BY <1>2, <2>1, PipelineLocks DEF LockDiscipline, RepairHoldsLocks
    <3>3. UNCHANGED <<phase, oldKey, newKey>>
      BY <2>1 DEF repairVars
    <3>4. \A r \in Repairer : Wanted(r)' = Wanted(r)
      BY <1>2, <3>2, <3>3 DEF Wanted, LockDiscipline, RepairTypeOK
    <3>5. KeysOnly' /\ InOrder'
      BY <1>2, <3>2, <3>3, <3>4 DEF LockDiscipline, KeysOnly, InOrder
    <3>6. RepairHoldsLocks'
      BY <1>2, <3>2, <3>3 DEF LockDiscipline, RepairHoldsLocks, RepairTypeOK
    <3>7. QED
      BY <3>1, <3>5, <3>6 DEF LockDiscipline
  <2>2. ASSUME NEW r \in Repairer, RepairStep(r)
        PROVE  LockDiscipline'
    BY <1>2, <2>2, RepairLocks
  <2>3. CASE UNCHANGED allVars
    <3>1. \A r \in Repairer : Wanted(r)' = Wanted(r)
      BY <2>3 DEF allVars, vars, repairVars, Wanted
    <3>2. QED
      BY <1>2, <2>3, <3>1
         DEF allVars, vars, rawVars, passVars, boundVars, repairVars, LockDiscipline, RepairTypeOK,
             RepairHoldsLocks, PassHoldsLock, KeysOnly, InOrder
  <2>4. QED
    BY <1>2, <2>1, <2>2, <2>3 DEF RepairNext
<1>3. QED
  BY <1>1, <1>2, PTL DEF RepairSpec

\* No pass and no repair works on a session it has not locked, and no two
\* repairs wait for each other: acquireRepairSessionLocks sorts the keys, and a
\* repair lets go of its locks before it observes again.
THEOREM LocksStaySafe ==
    ASSUME MaxLockLosses = 0
    PROVE  RepairSpec => []LocksAreSafe
<1>1. ASSUME LockDiscipline
      PROVE  LocksAreSafe
  <2>1. ASSUME NEW r \in Repairer, NEW q \in Repairer, Waits(r, q), Waits(q, r)
        PROVE  FALSE
    <3>1. /\ Wanted(r) # {} /\ Wanted(q) # {}
          /\ lock[NextLock(r)] = q /\ lock[NextLock(q)] = r
      BY <1>1, <2>1 DEF LockDiscipline, InOrder, Waits
    <3>2. /\ NextLock(r) \in Wanted(r) /\ NextLock(r) \in Session
          /\ NextLock(q) \in Wanted(q) /\ NextLock(q) \in Session
      BY <1>1, <3>1, NextLockIsLowest DEF LockDiscipline
    <3>3. Rank[NextLock(q)] < Rank[NextLock(r)] /\ Rank[NextLock(r)] < Rank[NextLock(q)]
      BY <1>1, <2>1, <3>1, <3>2 DEF LockDiscipline, InOrder, Waits
    <3>4. QED
      BY <3>2, <3>3, RankAssumption
  <2>2. QED
    BY <1>1, <2>1 DEF LockDiscipline, LocksAreSafe, NoLockCycle
<1>2. QED
  BY LocksHold, <1>1, PTL

----------------------------------------------------------------------------
(***************************************************************************)
(* The marks.  As in DeriveQueueProofs, a clear is safe because of what    *)
(* the pass read under which mark; a repair adds that both its sessions    *)
(* stay marked from the record to the release.                             *)
(***************************************************************************)

\* A worker that re-read a mark remembers a real dirtied_at.
CurIsStamp == \A w \in Worker : pc[w] \in {"derive", "write", "clear"} => cur[w] \in Stamp

\* What a pass is about to write is what the raw layer attributes to its
\* session: nothing is captured any more, and a repair would need its lock.
ReadsAreCurrent ==
    /\ \A d \in Deriver : pc[d] = "write" => read[d] = Raw(target[d])
    /\ \A r \in Repairer : phase[r] \in {"writeOld", "writeNew"} => seen[r] = Raw(Subject(r))

\* What a worker wrote is still that when it clears the mark.
WrittenIsCurrent ==
    \A w \in Worker : pc[w] = "clear" => derived[target[w]] = Raw(target[w])

\* Both sessions of a recorded repair are queued.
RepairIsMarked ==
    \A r \in Repairer : phase[r] \in Owning \ {"record"} =>
        queue[oldKey[r]] # NoStamp /\ queue[newKey[r]] # NoStamp

MarkDiscipline ==
    /\ LockDiscipline
    /\ CurIsStamp
    /\ ReadsAreCurrent
    /\ WrittenIsCurrent
    /\ RepairIsMarked
    /\ NothingLost

----------------------------------------------------------------------------
(***************************************************************************)
(* The moves, as long as nothing fails.                                    *)
(***************************************************************************)

\* Every session with an effective turn or a trace row has an identity row.
RowsAreCovered ==
    \A t \in Turn : attribution[t] \in sessions /\ (rows[t] # NoRow => rows[t] \in sessions)

\* A repair has moved turn t, and has yet to re-derive the session it left, or
\* the one it came to.
OnTheMove(r, t) ==
    /\ turn[r] = t
    /\ newKey[r] = attribution[t]
    /\ oldKey[r] # newKey[r]
    /\ \/ phase[r] \in {"readOld", "writeOld"} /\ rows[t] = oldKey[r]
       \/ phase[r] \in {"cleanup", "readNew", "writeNew"} /\ rows[t] = NoRow

\* A turn is projected where it belongs, or a repair at work will see to it.
TurnsArrive == \A t \in Turn : rows[t] = attribution[t] \/ \E r \in Repairer : OnTheMove(r, t)

MoveDiscipline ==
    /\ LockDiscipline
    /\ ReadsAreCurrent
    /\ RowsAreCovered
    /\ faults = 0 => TurnsArrive

----------------------------------------------------------------------------
\* Nobody else works on the sessions of a repair that has taken its locks.
LEMMA OwnedAlone ==
    ASSUME LockDiscipline, NEW r \in Repairer, phase[r] \in Owning
    PROVE  /\ \A d \in Deriver : pc[d] \in Held => target[d] \notin {oldKey[r], newKey[r]}
           /\ \A q \in Repairer : phase[q] \in Owning /\ q # r =>
                 {oldKey[q], newKey[q]} \cap {oldKey[r], newKey[r]} = {}
<1> USE RepairerAssumption DEF LockDiscipline, RepairTypeOK
<1>1. \A q \in Repairer : phase[q] \in Owning => lock[oldKey[q]] = q /\ lock[newKey[q]] = q
  BY DEF RepairHoldsLocks, Owning
<1>2. \A d \in Deriver : pc[d] \in Held => lock[target[d]] = d /\ d # r
  BY DEF RepairHoldsLocks, PassHoldsLock
<1>3. QED
  BY <1>1, <1>2

\* The pipeline keeps what a repair relies on: its sessions stay marked, since
\* a worker clears only the session it has locked.
LEMMA PipelineMarks ==
    ASSUME MarkDiscipline, MaxLockLosses = 0, Next, UNCHANGED <<phase, repairVars>>,
           LockDiscipline'
    PROVE  MarkDiscipline'
<1> USE NoneAssumption, ProcessAssumption, HelperTypes
    DEF MarkDiscipline, LockDiscipline, RepairTypeOK, PC, Held, Goto, rawVars, passVars, boundVars,
        Deriver
<1>1. attribution' = attribution /\ \A s \in Session : Raw(s)' = Raw(s)
  BY PipelineTypes DEF Raw
<1>2. \A r \in Repairer : phase[r] \in {"writeOld", "writeNew"} => seen'[r] = Raw(Subject(r))'
  <2>1. UNCHANGED <<phase, seen, oldKey, newKey>>
    BY DEF repairVars
  <2>2. QED
    BY <1>1, <2>1 DEF ReadsAreCurrent, Subject
<1>3. ASSUME \A d \in Deriver : pc'[d] = "write" => pc[d] = "write" /\ read'[d] = read[d] /\ target'[d] = target[d]
      PROVE  ReadsAreCurrent'
  <2>1. \A d \in Deriver : pc'[d] = "write" => read'[d] = Raw(target[d])' /\ target'[d] = target[d]
    BY <1>1, <1>3 DEF ReadsAreCurrent
  <2>2. QED
    BY <1>2, <2>1 DEF ReadsAreCurrent
<1>4. ASSUME \A s \in Session : queue[s] # NoStamp => queue'[s] # NoStamp
      PROVE  RepairIsMarked'
  BY <1>4 DEF RepairIsMarked, repairVars
<1>5. ASSUME NEW w \in Worker, pc[w] = "clear", queue' \in {queue, Cleared(w)}
      PROVE  RepairIsMarked' /\ (derived' = derived => NothingLost')
  <2>1. ASSUME NEW r \in Repairer, phase[r] \in Owning
        PROVE  queue'[oldKey[r]] = queue[oldKey[r]] /\ queue'[newKey[r]] = queue[newKey[r]]
    BY <1>5, <2>1, OwnedAlone DEF Cleared
  <2>2. RepairIsMarked'
    BY <2>1 DEF RepairIsMarked, repairVars
  <2>3. derived' = derived => NothingLost'
    BY <1>1, <1>5 DEF NothingLost, WrittenIsCurrent, Cleared
  <2>4. QED
    BY <2>2, <2>3
<1>6. ASSUME NEW d \in Deriver, pc[d] = "write", Write(d)
      PROVE  /\ \A s \in Session : derived'[s] = derived[s] \/ derived'[s] = Raw(s)
             /\ derived'[target[d]] = Raw(target[d])
  BY <1>6 DEF Write, ReadsAreCurrent
<1>7. ASSUME NEW t \in Turn, NEW s \in Session \cup {Keyless}, PutRawTurn(t, s)
      PROVE  MarkDiscipline'
  <2>1. \A z \in Session : queue'[z] = queue[z] \/ queue'[z] \in Stamp
    BY <1>7 DEF PutRawTurn
  <2>2. UNCHANGED <<pc, target, cur, read, derived>>
    BY <1>7 DEF PutRawTurn
  <2>3. CurIsStamp' /\ WrittenIsCurrent' /\ NothingLost'
    BY <1>1, <2>1, <2>2 DEF CurIsStamp, WrittenIsCurrent, NothingLost
  <2>4. QED
    BY <1>3, <1>4, <2>1, <2>2, <2>3
<1>8. ASSUME UNCHANGED <<queue, pc, target, cur, read, derived>>
      PROVE  MarkDiscipline'
  BY <1>1, <1>3, <1>4, <1>8 DEF CurIsStamp, WrittenIsCurrent, NothingLost
<1>9. ASSUME NEW w \in Worker, WorkerStep(w)
      PROVE  MarkDiscipline'
  <2>1. CASE Start(w) \/ SweepTick(w)
    <3>1. \A z \in Session : queue'[z] = queue[z] \/ queue'[z] \in Stamp
      BY <2>1 DEF Start, SweepTick, Sweep, Swept
    <3>2. /\ UNCHANGED <<target, cur, read, derived>>
          /\ \A d \in Deriver : pc'[d] = pc[d] \/ pc'[d] = "idle"
      BY <2>1 DEF Start, SweepTick, Sweep
    <3>3. CurIsStamp' /\ WrittenIsCurrent' /\ NothingLost'
      BY <1>1, <3>1, <3>2 DEF CurIsStamp, WrittenIsCurrent, NothingLost
    <3>4. QED
      BY <1>3, <1>4, <3>1, <3>2, <3>3
  <2>2. CASE RunPoll(w) \/ EndPoll(w) \/ RereadSkip(w)
    <3>1. /\ UNCHANGED <<queue, target, cur, read, derived>>
          /\ \A d \in Deriver : pc'[d] = pc[d] \/ pc'[d] \in {"idle", "poll", "release"}
      BY <2>2 DEF RunPoll, EndPoll, RereadSkip
    <3>2. CurIsStamp' /\ NothingLost'
      BY <1>1, <3>1 DEF CurIsStamp, NothingLost
    <3>3. WrittenIsCurrent'
      BY <1>1, <3>1 DEF WrittenIsCurrent
    <3>4. ReadsAreCurrent' /\ RepairIsMarked'
      BY <1>3, <1>4, <3>1
    <3>5. QED
      BY <3>2, <3>3, <3>4
  <2>3. ASSUME NEW s \in Session, TryLock(w, s)
        PROVE  MarkDiscipline'
    <3>1. /\ UNCHANGED <<queue, cur, read, derived>>
          /\ \A d \in Deriver : \/ pc'[d] = pc[d] /\ target'[d] = target[d]
                                \/ pc'[d] = "locked"
      BY <2>3 DEF TryLock
    <3>2. CurIsStamp' /\ NothingLost'
      BY <1>1, <3>1 DEF CurIsStamp, NothingLost
    <3>3. WrittenIsCurrent'
      BY <1>1, <3>1 DEF WrittenIsCurrent
    <3>4. ReadsAreCurrent' /\ RepairIsMarked'
      BY <1>3, <1>4, <3>1
    <3>5. QED
      BY <3>2, <3>3, <3>4
  <2>4. CASE RereadDirty(w)
    <3>1. /\ UNCHANGED <<queue, target, read, derived>>
          /\ \A d \in Deriver : \/ pc'[d] = pc[d] /\ cur'[d] = cur[d]
                                \/ pc'[d] = "derive" /\ cur'[d] \in Stamp
      BY <2>4 DEF RereadDirty
    <3>2. CurIsStamp' /\ NothingLost'
      BY <1>1, <3>1 DEF CurIsStamp, NothingLost
    <3>3. WrittenIsCurrent'
      BY <1>1, <3>1 DEF WrittenIsCurrent
    <3>4. ReadsAreCurrent' /\ RepairIsMarked'
      BY <1>3, <1>4, <3>1
    <3>5. QED
      BY <3>2, <3>3, <3>4
  <2>5. CASE ClearDeriveDirty(w)
    <3>1. /\ UNCHANGED <<target, cur, read, derived>> /\ pc[w] = "clear" /\ queue' = Cleared(w)
          /\ \A d \in Deriver : pc'[d] = pc[d] \/ pc'[d] = "release"
      BY <2>5 DEF ClearDeriveDirty
    <3>2. QED
      BY <1>1, <1>3, <1>5, <3>1 DEF CurIsStamp, WrittenIsCurrent
  <2>6. CASE InfraError(w)
    <3>1. /\ UNCHANGED <<target, cur, read, derived>>
          /\ \A d \in Deriver : pc'[d] = pc[d] \/ pc'[d] \in {"idle", "release"}
      BY <2>6 DEF InfraError
    <3>2. queue' = queue \/ (pc[w] = "clear" /\ queue' \in {queue, Cleared(w)})
      BY <2>6 DEF InfraError
    <3>3. RepairIsMarked' /\ NothingLost'
      <4>1. CASE queue' = queue
        BY <1>1, <1>4, <3>1, <4>1 DEF NothingLost
      <4>2. CASE pc[w] = "clear" /\ queue' \in {queue, Cleared(w)}
        BY <1>5, <3>1, <4>2
      <4>3. QED
        BY <3>2, <4>1, <4>2
    <3>4. QED
      BY <1>1, <1>3, <3>1, <3>3 DEF CurIsStamp, WrittenIsCurrent
  <2>7. QED
    BY <1>9, <2>1, <2>2, <2>3, <2>4, <2>5, <2>6 DEF WorkerStep
<1>10. ASSUME NEW r \in Rederiver, RederiverStep(r)
       PROVE  MarkDiscipline'
  <2>1. /\ UNCHANGED <<queue, cur, read, derived>>
        /\ \A d \in Deriver : \/ pc'[d] = pc[d] /\ target'[d] = target[d]
                              \/ d = r /\ pc'[d] \in {"wait", "derive"}
    BY <1>10 DEF RederiverStep, CallRederive, AcquireLock
  <2>2. CurIsStamp' /\ NothingLost'
    BY <1>1, <2>1 DEF CurIsStamp, NothingLost
  <2>3. WrittenIsCurrent'
    BY <1>1, <2>1 DEF WrittenIsCurrent
  <2>4. ReadsAreCurrent' /\ RepairIsMarked'
    BY <1>3, <1>4, <2>1
  <2>5. QED
    BY <2>2, <2>3, <2>4
<1>11. ASSUME NEW d \in Deriver, PassStep(d)
       PROVE  MarkDiscipline'
  <2>1. CASE ReadRaw(d)
    <3>1. /\ UNCHANGED <<queue, target, cur, derived>> /\ pc[d] = "derive"
          /\ read'[d] = Raw(target[d])
          /\ \A e \in Deriver \ {d} : pc'[e] = pc[e] /\ read'[e] = read[e]
          /\ pc'[d] = "write"
      BY <2>1 DEF ReadRaw
    <3>2. \A e \in Deriver : pc'[e] = "write" => read'[e] = Raw(target[e])' /\ target'[e] = target[e]
      BY <1>1, <3>1 DEF ReadsAreCurrent
    <3>3. ReadsAreCurrent'
      BY <1>2, <3>2 DEF ReadsAreCurrent
    <3>4. QED
      BY <1>1, <1>4, <3>1, <3>3 DEF CurIsStamp, WrittenIsCurrent, NothingLost
  <2>2. CASE WriteDerivedSet(d) \/ DeriveError(d)
    <3>1. /\ UNCHANGED <<queue, target, cur, read>>
          /\ derived' = derived \/ (pc[d] = "write" /\ Write(d))
          /\ \A e \in Deriver \ {d} : pc'[e] = pc[e]
          /\ pc'[d] \in {"clear", "release"}
          /\ pc'[d] = "clear" => pc[d] = "write" /\ Write(d)
      BY <2>2 DEF WriteDerivedSet, DeriveError
    <3>2. \A s \in Session : derived'[s] = derived[s] \/ derived'[s] = Raw(s)
      BY <1>6, <3>1
    <3>3. pc'[d] = "clear" => derived'[target[d]] = Raw(target[d]) /\ pc[d] = "write"
      BY <1>6, <3>1
    <3>4. CurIsStamp' /\ WrittenIsCurrent' /\ NothingLost'
      BY <1>1, <3>1, <3>2, <3>3 DEF CurIsStamp, WrittenIsCurrent, NothingLost
    <3>5. QED
      BY <1>3, <1>4, <3>1, <3>4
  <2>3. CASE Release(d) \/ Crash(d)
    <3>1. /\ UNCHANGED <<queue, target, derived>>
          /\ \A e \in Deriver \ {d} : pc'[e] = pc[e] /\ cur'[e] = cur[e] /\ read'[e] = read[e]
          /\ pc'[d] \in {"poll", "idle", "down"}
      BY <2>3 DEF Release, Crash
    <3>2. CurIsStamp' /\ NothingLost'
      BY <1>1, <3>1 DEF CurIsStamp, NothingLost
    <3>3. WrittenIsCurrent'
      BY <1>1, <3>1 DEF WrittenIsCurrent
    <3>4. ReadsAreCurrent' /\ RepairIsMarked'
      BY <1>3, <1>4, <3>1
    <3>5. QED
      BY <3>2, <3>3, <3>4
  <2>4. QED
    BY <1>11, <2>1, <2>2, <2>3 DEF PassStep
<1>12. ASSUME NEW s \in Session
       PROVE  ~LoseLock(s)
  BY DEF LoseLock
<1>13. CASE Ingest
  BY <1>7, <1>8, <1>13 DEF Ingest, IngestTurn, AgeOut
<1>14. QED
  BY <1>9, <1>10, <1>11, <1>12, <1>13 DEF Next

\* A correction moves a turn between the two sessions it marks and has locked.
LEMMA RecordStep ==
    ASSUME LockDiscipline, NEW r \in Repairer, Record(r)
    PROVE  /\ \A s \in Session \ {oldKey[r], newKey[r]} : Raw(s)' = Raw(s) /\ queue'[s] = queue[s]
           /\ \A s \in {oldKey[r], newKey[r]} : queue'[s] \in Stamp
           /\ \A d \in Deriver : pc[d] \in Held => Raw(target[d])' = Raw(target[d])
           /\ \A q \in Repairer : phase[q] \in Owning /\ q # r =>
                 Raw(oldKey[q])' = Raw(oldKey[q]) /\ Raw(newKey[q])' = Raw(newKey[q])
<1> USE DEF LockDiscipline, RepairTypeOK
<1>1. \A s \in Session \ {oldKey[r], newKey[r]} : Raw(s)' = Raw(s) /\ queue'[s] = queue[s]
  BY DEF Record, Raw
<1>2. \A s \in {oldKey[r], newKey[r]} : queue'[s] \in Stamp
  BY HelperTypes DEF Record
<1>3. phase[r] \in Owning
  BY DEF Record, Owning
<1>4. \A d \in Deriver : pc[d] \in Held => Raw(target[d])' = Raw(target[d])
  <2>1. target' = target
    BY DEF Record, passVars
  <2>2. QED
    BY <1>1, <1>3, <2>1, OwnedAlone DEF Raw
<1>5. ASSUME NEW q \in Repairer, phase[q] \in Owning, q # r
      PROVE  Raw(oldKey[q])' = Raw(oldKey[q]) /\ Raw(newKey[q])' = Raw(newKey[q])
  <2>1. {oldKey[q], newKey[q]} \cap {oldKey[r], newKey[r]} = {}
    BY <1>3, <1>5, OwnedAlone
  <2>2. UNCHANGED <<oldKey, newKey>>
    BY DEF Record
  <2>3. \A s \in {oldKey[q], newKey[q]} : Raw(s)' = Raw(s)
    BY <1>1, <2>1
  <2>4. QED
    BY <2>2, <2>3 DEF Raw
<1>6. QED
  BY <1>1, <1>2, <1>4, <1>5

\* Every step of a repair keeps the marks.
LEMMA RepairMarks ==
    ASSUME MarkDiscipline, NEW r \in Repairer, RepairStep(r), LockDiscipline'
    PROVE  MarkDiscipline'
<1> USE NoneAssumption, HelperTypes
    DEF MarkDiscipline, LockDiscipline, RepairTypeOK, Phase, Owning, Become,
        vars, rawVars, passVars, boundVars, repairVars
<1>1. ASSUME UNCHANGED <<attribution, queue, derived, pc, target, cur, read>>,
             \A q \in Repairer : phase'[q] \in Owning \ {"record"} =>
                 phase[q] \in Owning \ {"record"} /\ UNCHANGED <<oldKey, newKey>>,
             \A q \in Repairer : phase'[q] \in {"writeOld", "writeNew"} =>
                 phase'[q] = phase[q] /\ seen'[q] = seen[q]
      PROVE  MarkDiscipline'
  <2>1. \A s \in Session : Raw(s)' = Raw(s)
    BY <1>1 DEF Raw
  <2>2. \A q \in Repairer : phase'[q] \in {"writeOld", "writeNew"} =>
           Subject(q)' = Subject(q) /\ Subject(q) \in Session
    BY <1>1 DEF Subject
  <2>3. ReadsAreCurrent'
    BY <1>1, <2>1, <2>2 DEF ReadsAreCurrent, PC, Held
  <2>4. CurIsStamp' /\ WrittenIsCurrent' /\ NothingLost'
    BY <1>1, <2>1, ProcessAssumption DEF CurIsStamp, WrittenIsCurrent, NothingLost, Deriver
  <2>5. RepairIsMarked'
    BY <1>1 DEF RepairIsMarked
  <2>6. QED
    BY <2>3, <2>4, <2>5
<1>2. ASSUME NEW t \in Turn, NEW s \in Session, Request(r, t, s)
      PROVE  MarkDiscipline'
  <2>1. /\ UNCHANGED <<attribution, queue, derived, pc, target, cur, read, seen, oldKey>>
        /\ newKey' = [newKey EXCEPT ![r] = s] /\ phase' = [phase EXCEPT ![r] = "observe"]
    BY <1>2 DEF Request
  <2>2. \A z \in Session : Raw(z)' = Raw(z)
    BY <2>1 DEF Raw
  <2>3. CurIsStamp' /\ WrittenIsCurrent' /\ NothingLost'
    BY <2>1, <2>2 DEF CurIsStamp, WrittenIsCurrent, NothingLost, Deriver
  <2>4. RepairIsMarked'
    BY <2>1 DEF RepairIsMarked
  <2>5. \A q \in Repairer : phase'[q] \in {"writeOld", "writeNew"} =>
           q # r /\ phase[q] = phase'[q] /\ Subject(q)' = Subject(q)
    BY <2>1 DEF Subject
  <2>6. ReadsAreCurrent'
    BY <2>1, <2>2, <2>5 DEF ReadsAreCurrent
  <2>7. QED
    BY <2>3, <2>4, <2>6
<1>3. CASE Observe(r)
  <2>1. /\ UNCHANGED <<attribution, queue, derived, pc, target, cur, read, seen, newKey>>
        /\ \A q \in Repairer \ {r} : phase'[q] = phase[q] /\ oldKey'[q] = oldKey[q]
        /\ phase'[r] \in {"lock", "idle"}
    BY <1>3 DEF Observe
  <2>2. \A z \in Session : Raw(z)' = Raw(z)
    BY <2>1 DEF Raw
  <2>3. CurIsStamp' /\ WrittenIsCurrent' /\ NothingLost'
    BY <2>1, <2>2 DEF CurIsStamp, WrittenIsCurrent, NothingLost, Deriver
  <2>4. RepairIsMarked'
    BY <2>1 DEF RepairIsMarked
  <2>5. \A q \in Repairer : phase'[q] \in {"writeOld", "writeNew"} =>
           q # r /\ phase[q] = phase'[q] /\ Subject(q)' = Subject(q)
    BY <2>1 DEF Subject
  <2>6. ReadsAreCurrent'
    BY <2>1, <2>2, <2>5 DEF ReadsAreCurrent
  <2>7. QED
    BY <2>3, <2>4, <2>6
<1>4. CASE LockKey(r)
  <2>1. \A q \in Repairer : phase'[q] = phase[q] \/ phase'[q] = "record"
    BY <1>4 DEF LockKey
  <2>2. QED
    BY <1>1, <1>4, <2>1 DEF LockKey
<1>5. CASE Record(r)
  <2>1. /\ UNCHANGED <<derived, pc, target, cur, read, seen, oldKey, newKey>>
        /\ phase[r] = "record" /\ phase' = [phase EXCEPT ![r] = "readOld"]
    BY <1>5 DEF Record
  <2>2. /\ \A s \in Session \ {oldKey[r], newKey[r]} : Raw(s)' = Raw(s) /\ queue'[s] = queue[s]
        /\ \A s \in {oldKey[r], newKey[r]} : queue'[s] \in Stamp
        /\ \A d \in Deriver : pc[d] \in Held => Raw(target[d])' = Raw(target[d])
    BY <1>5, RecordStep
  <2>3. \A q \in Repairer : phase[q] \in {"writeOld", "writeNew"} =>
           Raw(oldKey[q])' = Raw(oldKey[q]) /\ Raw(newKey[q])' = Raw(newKey[q])
    BY <1>5, <2>1, RecordStep
  <2>4. \A q \in Repairer : phase'[q] \in {"writeOld", "writeNew"} =>
           phase[q] = phase'[q] /\ seen[q] = Raw(Subject(q)) /\ Raw(Subject(q))' = Raw(Subject(q))
    BY <2>1, <2>3 DEF ReadsAreCurrent, Subject
  <2>5. ReadsAreCurrent'
    BY <2>1, <2>2, <2>4 DEF ReadsAreCurrent, Held
  <2>6. CurIsStamp' /\ WrittenIsCurrent'
    BY <2>1, <2>2 DEF CurIsStamp, WrittenIsCurrent, Held, Deriver
  <2>7. NothingLost'
    <3>1. ASSUME NEW s \in {oldKey[r], newKey[r]}
          PROVE  queue'[s] # NoStamp
      BY <2>2, NoneAssumption
    <3>2. ASSUME NEW s \in Session \ {oldKey[r], newKey[r]}, queue'[s] = NoStamp
          PROVE  derived'[s] = Raw(s)'
      BY <2>1, <2>2, <3>2 DEF NothingLost
    <3>3. QED
      BY <3>1, <3>2 DEF NothingLost
  <2>8. RepairIsMarked'
    BY <2>1, <2>2 DEF RepairIsMarked
  <2>9. QED
    BY <2>5, <2>6, <2>7, <2>8
<1>6. CASE Retry(r) \/ RecordError(r) \/ ReleaseKeys(r) \/ RepairCrash(r)
  <2>1. \A q \in Repairer : phase'[q] = phase[q] \/ phase'[q] \in {"observe", "idle"}
    BY <1>6 DEF Retry, RecordError, ReleaseKeys, RepairCrash
  <2>2. QED
    BY <1>1, <1>6, <2>1 DEF Retry, RecordError, ReleaseKeys, RepairCrash
<1>7. CASE ReadSession(r)
  <2>1. /\ UNCHANGED <<attribution, queue, derived, pc, target, cur, read, oldKey, newKey>>
        /\ phase[r] \in {"readOld", "readNew"}
        /\ seen' = [seen EXCEPT ![r] = Raw(Subject(r))]
        /\ phase' = [phase EXCEPT ![r] = IF phase[r] = "readOld" THEN "writeOld" ELSE "writeNew"]
    BY <1>7 DEF ReadSession
  <2>2. \A z \in Session : Raw(z)' = Raw(z)
    BY <2>1 DEF Raw
  <2>3. CurIsStamp' /\ WrittenIsCurrent' /\ NothingLost'
    BY <2>1, <2>2 DEF CurIsStamp, WrittenIsCurrent, NothingLost, Deriver
  <2>4. RepairIsMarked'
    BY <2>1 DEF RepairIsMarked
  <2>5. Subject(r)' = Subject(r)
    BY <2>1 DEF Subject
  <2>6. \A q \in Repairer \ {r} : Subject(q)' = Subject(q) /\ phase'[q] = phase[q] /\ seen'[q] = seen[q]
    BY <2>1 DEF Subject
  <2>7. ReadsAreCurrent'
    <3>1. \A q \in Repairer : phase'[q] \in {"writeOld", "writeNew"} => seen'[q] = Raw(Subject(q))
      BY <2>1, <2>6 DEF ReadsAreCurrent
    <3>2. QED
      BY <2>1, <2>2, <2>5, <2>6, <3>1 DEF ReadsAreCurrent
  <2>8. QED
    BY <2>3, <2>4, <2>7
<1>8. CASE WriteSession(r) \/ RederiveError(r)
  <2>1. /\ UNCHANGED <<attribution, queue, pc, target, cur, read, seen, oldKey, newKey>>
        /\ \A q \in Repairer \ {r} : phase'[q] = phase[q]
        /\ phase'[r] \in {"cleanup", "mark", "readNew"}
        /\ phase[r] \in {"readOld", "writeOld", "readNew", "writeNew"}
        /\ \/ derived' = derived
           \/ phase[r] \in {"writeOld", "writeNew"} /\ SessionWritten(r)
    BY <1>8 DEF WriteSession, RederiveError
  <2>2. \A z \in Session : Raw(z)' = Raw(z)
    BY <2>1 DEF Raw
  <2>3. \A z \in Session : derived'[z] = derived[z] \/ derived'[z] = Raw(z)
    BY <2>1 DEF SessionWritten, ReadsAreCurrent
  <2>4. CurIsStamp' /\ WrittenIsCurrent' /\ NothingLost'
    BY <2>1, <2>2, <2>3 DEF CurIsStamp, WrittenIsCurrent, NothingLost, Deriver
  <2>5. RepairIsMarked'
    BY <2>1 DEF RepairIsMarked
  <2>6. \A q \in Repairer : phase'[q] \in {"writeOld", "writeNew"} =>
           q # r /\ phase[q] = phase'[q] /\ Subject(q)' = Subject(q)
    BY <2>1 DEF Subject
  <2>7. ReadsAreCurrent'
    BY <2>1, <2>2, <2>6 DEF ReadsAreCurrent
  <2>8. QED
    BY <2>4, <2>5, <2>7
<1>9. CASE Cleanup(r)
  <2>1. phase[r] = "cleanup" /\ \A q \in Repairer : phase'[q] = phase[q] \/ (q = r /\ phase'[q] = "readNew")
    BY <1>9 DEF Cleanup
  <2>2. UNCHANGED <<attribution, queue, derived, pc, target, cur, read, oldKey, newKey, seen>>
    BY <1>9 DEF Cleanup
  <2>3. /\ \A q \in Repairer : phase'[q] \in Owning \ {"record"} =>
              phase[q] \in Owning \ {"record"} /\ UNCHANGED <<oldKey, newKey>>
        /\ \A q \in Repairer : phase'[q] \in {"writeOld", "writeNew"} =>
              phase'[q] = phase[q] /\ seen'[q] = seen[q]
    BY <2>1, <2>2
  <2>4. QED
    BY <1>1, <2>2, <2>3
<1>10. ASSUME NEW s \in Session, MarkPending(r, s)
       PROVE  MarkDiscipline'
  <2>1. /\ UNCHANGED <<attribution, derived, pc, target, cur, read, seen, oldKey, newKey, phase>>
        /\ \A z \in Session : queue'[z] = queue[z] \/ queue'[z] \in Stamp
    BY <1>10 DEF MarkPending
  <2>2. \A z \in Session : Raw(z)' = Raw(z)
    BY <2>1 DEF Raw
  <2>3. CurIsStamp' /\ WrittenIsCurrent' /\ NothingLost'
    BY <2>1, <2>2 DEF CurIsStamp, WrittenIsCurrent, NothingLost, Deriver
  <2>4. RepairIsMarked'
    BY <2>1 DEF RepairIsMarked
  <2>5. ReadsAreCurrent'
    BY <2>1, <2>2 DEF ReadsAreCurrent, Subject
  <2>6. QED
    BY <2>3, <2>4, <2>5
<1>11. QED
  BY <1>2, <1>3, <1>4, <1>5, <1>6, <1>7, <1>8, <1>9, <1>10 DEF RepairStep

\* The marks keep their discipline in every reachable state.
LEMMA MarksHold ==
    ASSUME MaxLockLosses = 0
    PROVE  RepairSpec => []MarkDiscipline
<1>1. ASSUME RepairInit, LockDiscipline
      PROVE  MarkDiscipline
  <2>1. CurIsStamp /\ ReadsAreCurrent /\ WrittenIsCurrent /\ RepairIsMarked
    BY <1>1 DEF RepairInit, CurIsStamp, ReadsAreCurrent, WrittenIsCurrent, RepairIsMarked, Owning, Deriver
  <2>2. NothingLost
    BY <1>1 DEF RepairInit, NothingLost
  <2>3. QED
    BY <1>1, <2>1, <2>2 DEF MarkDiscipline
<1>2. ASSUME MarkDiscipline, [RepairNext]_allVars, LockDiscipline'
      PROVE  MarkDiscipline'
  <2>1. CASE Next /\ UNCHANGED <<phase, repairVars>>
    BY <1>2, <2>1, PipelineMarks
  <2>2. ASSUME NEW r \in Repairer, RepairStep(r)
        PROVE  MarkDiscipline'
    BY <1>2, <2>2, RepairMarks
  <2>3. CASE UNCHANGED allVars
    BY <1>2, <2>3
       DEF allVars, vars, rawVars, passVars, repairVars, MarkDiscipline, CurIsStamp, ReadsAreCurrent,
           WrittenIsCurrent, RepairIsMarked, NothingLost, Raw, Subject
  <2>4. QED
    BY <1>2, <2>1, <2>2, <2>3 DEF RepairNext
<1>3. QED
  BY <1>1, <1>2, LocksHold, PTL DEF RepairSpec

----------------------------------------------------------------------------
\* A pass or a re-derive that read what its session holds, seen turn by turn.
LEMMA SessionProjected ==
    ASSUME RepairTypeOK, RowsAreCovered, NEW s \in Session, rows' = Projected(s, Raw(s))
    PROVE  \A t \in Turn :
              /\ attribution[t] = s /\ rows[t] = NoRow => rows'[t] = s
              /\ attribution[t] = s /\ rows[t] # NoRow => rows'[t] = rows[t]
              /\ attribution[t] # s /\ rows[t] = s => rows'[t] = NoRow
              /\ attribution[t] # s /\ rows[t] # s => rows'[t] = rows[t]
<1> USE NoneAssumption DEF RepairTypeOK
<1>1. CASE s \in sessions
  BY <1>1 DEF Projected, Raw
<1>2. CASE s \notin sessions
  <2>1. \A t \in Turn : attribution[t] # s /\ rows[t] # s
    BY <1>2 DEF RowsAreCovered
  <2>2. rows' = rows
    BY <1>2 DEF Projected
  <2>3. QED
    BY <2>1, <2>2
<1>3. QED
  BY <1>1, <1>2

\* ... adds rows of a session that has an identity row only.
LEMMA ProjectedIsCovered ==
    ASSUME RepairTypeOK, RowsAreCovered, NEW s \in Session, rows' = Projected(s, Raw(s)),
           UNCHANGED <<attribution, sessions>>
    PROVE  RowsAreCovered'
BY SessionProjected, NoneAssumption DEF RowsAreCovered, RepairTypeOK

\* Of the pipeline's steps only a pass's write touches a trace row, none takes
\* an identity row away, and no failure is forgotten.
LEMMA PipelineRows ==
    ASSUME RepairTypeOK, Next
    PROVE  /\ \/ rows' = rows
              \/ UNCHANGED <<attribution, sessions>> /\ \E d \in Deriver : pc[d] = "write" /\ Write(d)
           /\ sessions \subseteq sessions'
           /\ faults' = 0 => faults = 0
BY BoundAssumption
   DEF Next, rawVars, boundVars, Ingest, WorkerStep, RederiverStep, PassStep, PutRawTurn, IngestTurn,
       AgeOut, Start, Sweep, SweepTick, RunPoll, EndPoll, TryLock, RereadDirty, RereadSkip,
       ClearDeriveDirty, InfraError, CallRederive, AcquireLock, ReadRaw, WriteDerivedSet,
       Release, DeriveError, Crash, LoseLock, Fault, RepairTypeOK

\* The pipeline neither strands a turn on the move nor moves one that has
\* arrived: the sessions of a repair are locked.
LEMMA PipelineMoves ==
    ASSUME MarkDiscipline, MoveDiscipline, MaxLockLosses = 0, Next, UNCHANGED <<phase, repairVars>>
    PROVE  RowsAreCovered' /\ (faults' = 0 => TurnsArrive')
<1> USE NoneAssumption DEF MoveDiscipline, LockDiscipline, RepairTypeOK
<1>1. /\ attribution' = attribution /\ sessions \subseteq sessions'
      /\ UNCHANGED <<phase, turn, oldKey, newKey>>
  BY PipelineTypes, PipelineRows DEF repairVars
<1>2. CASE rows' = rows
  <2>1. RowsAreCovered'
    BY <1>1, <1>2 DEF RowsAreCovered
  <2>2. TurnsArrive => TurnsArrive'
    BY <1>1, <1>2 DEF TurnsArrive, OnTheMove
  <2>3. QED
    BY <2>1, <2>2, PipelineRows
<1>3. ASSUME NEW d \in Deriver, pc[d] = "write", Write(d), UNCHANGED <<attribution, sessions>>
      PROVE  RowsAreCovered' /\ (faults' = 0 => TurnsArrive')
  <2> DEFINE s == target[d]
  <2>1. s \in Session /\ rows' = Projected(s, Raw(s))
    BY <1>3 DEF Write, ReadsAreCurrent
  <2>2. RowsAreCovered'
    BY <1>3, <2>1, ProjectedIsCovered
  <2>3. ASSUME NEW t \in Turn, rows[t] = attribution[t]
        PROVE  rows'[t] = attribution'[t]
    BY <1>3, <2>1, <2>3, SessionProjected
  <2>4. ASSUME NEW t \in Turn, NEW r \in Repairer, OnTheMove(r, t)
        PROVE  OnTheMove(r, t)'
    <3>1. phase[r] \in Owning
      BY <2>4 DEF OnTheMove, Owning
    <3>2. s \notin {oldKey[r], newKey[r]}
      BY <1>3, <3>1, OwnedAlone DEF Held
    <3>3. rows'[t] = rows[t]
      BY <2>1, <2>4, <3>2, SessionProjected DEF OnTheMove
    <3>4. QED
      BY <1>1, <2>4, <3>3 DEF OnTheMove
  <2>5. TurnsArrive => TurnsArrive'
    BY <2>3, <2>4 DEF TurnsArrive
  <2>6. QED
    BY <2>2, <2>5, PipelineRows
<1>4. QED
  BY <1>2, <1>3, PipelineRows

\* A turn one repair moves is on the move in no other.
LEMMA MovesApart ==
    ASSUME LockDiscipline, NEW r \in Repairer, phase[r] \in Owning,
           NEW q \in Repairer, NEW t \in Turn, OnTheMove(q, t), q # r
    PROVE  {oldKey[q], newKey[q]} \cap {oldKey[r], newKey[r]} = {}
BY OwnedAlone DEF OnTheMove, Owning

\* Every step of a repair keeps the moves: what it takes from one session it
\* brings to the other.
LEMMA RepairMoves ==
    ASSUME MoveDiscipline, NEW r \in Repairer, RepairStep(r), LockDiscipline'
    PROVE  RowsAreCovered' /\ (faults' = 0 => TurnsArrive')
<1> USE NoneAssumption
    DEF MoveDiscipline, LockDiscipline, RepairTypeOK, Phase, Owning, Become,
        vars, rawVars, passVars, boundVars, repairVars
<1> DEFINE Moving == {"readOld", "writeOld", "cleanup", "readNew", "writeNew"}
<1>1. ASSUME UNCHANGED <<attribution, sessions, rows>>,
             phase[r] \notin Moving, phase'[r] \notin Moving,
             \A q \in Repairer \ {r} :
                 /\ phase'[q] = phase[q] /\ turn'[q] = turn[q]
                 /\ oldKey'[q] = oldKey[q] /\ newKey'[q] = newKey[q]
      PROVE  RowsAreCovered' /\ (TurnsArrive => TurnsArrive')
  <2>1. RowsAreCovered'
    BY <1>1 DEF RowsAreCovered
  <2>2. \A q \in Repairer, t \in Turn : OnTheMove(q, t) => OnTheMove(q, t)'
    BY <1>1 DEF OnTheMove
  <2>3. QED
    BY <1>1, <2>1, <2>2 DEF TurnsArrive
<1>2. ASSUME NEW t \in Turn, NEW s \in Session, Request(r, t, s)
      PROVE  RowsAreCovered' /\ (faults' = 0 => TurnsArrive')
  BY <1>1, <1>2 DEF Request
<1>3. CASE Observe(r)
  BY <1>1, <1>3 DEF Observe
<1>4. CASE LockKey(r)
  <2>1. phase[r] = "lock" /\ phase'[r] \in {"lock", "record"}
        /\ \A q \in Repairer \ {r} : phase'[q] = phase[q]
    BY <1>4 DEF LockKey
  <2>2. QED
    BY <1>1, <1>4, <2>1 DEF LockKey
<1>5. CASE Retry(r) \/ ReleaseKeys(r)
  BY <1>1, <1>5 DEF Retry, ReleaseKeys
<1>6. CASE RecordError(r) \/ RepairCrash(r)
  BY <1>6 DEF RecordError, RepairCrash, Fault, RowsAreCovered
<1>7. ASSUME NEW s \in Session, MarkPending(r, s)
      PROVE  RowsAreCovered' /\ (faults' = 0 => TurnsArrive')
  <2>1. /\ UNCHANGED <<attribution, sessions, rows, phase, turn, oldKey, newKey>>
        /\ faults' = 0 => faults = 0
    BY <1>7 DEF MarkPending, Fault
  <2>2. RowsAreCovered' /\ (TurnsArrive => TurnsArrive')
    BY <2>1 DEF RowsAreCovered, TurnsArrive, OnTheMove
  <2>3. QED
    BY <2>1, <2>2
<1>8. CASE Record(r)
  <2>1. /\ UNCHANGED <<rows, turn, oldKey, newKey, faults>>
        /\ attribution' = [attribution EXCEPT ![turn[r]] = newKey[r]]
        /\ sessions' = sessions \cup {newKey[r]}
        /\ attribution[turn[r]] = oldKey[r]
        /\ phase[r] = "record" /\ phase' = [phase EXCEPT ![r] = "readOld"]
    BY <1>8 DEF Record
  <2>2. RowsAreCovered'
    BY <2>1 DEF RowsAreCovered
  <2>3. ASSUME TurnsArrive
        PROVE  TurnsArrive'
    <3>1. rows[turn[r]] = oldKey[r]
      <4>1. ASSUME NEW q \in Repairer, OnTheMove(q, turn[r])
            PROVE  FALSE
        <5>1. attribution[turn[r]] = newKey[q] /\ q # r /\ turn[r] \in Turn
          BY <2>1, <4>1 DEF OnTheMove
        <5>2. {oldKey[q], newKey[q]} \cap {oldKey[r], newKey[r]} = {}
          BY <2>1, <4>1, <5>1, MovesApart
        <5>3. QED
          BY <2>1, <5>1, <5>2
      <4>2. QED
        BY <2>1, <2>3, <4>1 DEF TurnsArrive
    <3>2. ASSUME NEW t \in Turn, t = turn[r]
          PROVE  rows'[t] = attribution'[t] \/ OnTheMove(r, t)'
      BY <2>1, <3>1, <3>2 DEF OnTheMove
    <3>3. ASSUME NEW t \in Turn \ {turn[r]}
          PROVE  rows'[t] = attribution'[t] \/ \E q \in Repairer : OnTheMove(q, t)'
      <4>1. CASE rows[t] = attribution[t]
        BY <2>1, <3>3, <4>1
      <4>2. ASSUME NEW q \in Repairer, OnTheMove(q, t)
            PROVE  OnTheMove(q, t)'
        BY <2>1, <3>3, <4>2 DEF OnTheMove
      <4>3. QED
        BY <2>3, <4>1, <4>2 DEF TurnsArrive
    <3>4. QED
      BY <3>2, <3>3 DEF TurnsArrive
  <2>4. QED
    BY <2>1, <2>2, <2>3, SMTT(30)
<1>9. CASE ReadSession(r)
  <2>1. /\ UNCHANGED <<attribution, sessions, rows, turn, oldKey, newKey, faults>>
        /\ \/ phase[r] = "readOld" /\ phase'[r] = "writeOld"
           \/ phase[r] = "readNew" /\ phase'[r] = "writeNew"
        /\ \A q \in Repairer \ {r} : phase'[q] = phase[q]
    BY <1>9 DEF ReadSession
  <2>2. \A q \in Repairer, t \in Turn : OnTheMove(q, t) => OnTheMove(q, t)'
    BY <2>1 DEF OnTheMove
  <2>3. QED
    BY <2>1, <2>2 DEF TurnsArrive, RowsAreCovered
<1>10. CASE WriteSession(r)
  <2> DEFINE s == Subject(r)
  <2>1. /\ UNCHANGED <<attribution, sessions, turn, oldKey, newKey, faults>>
        /\ \/ phase[r] = "writeOld" /\ s = oldKey[r]
              /\ phase'[r] = IF oldKey[r] # newKey[r] THEN "cleanup" ELSE "mark"
           \/ phase[r] = "writeNew" /\ s = newKey[r] /\ phase'[r] = "mark"
        /\ \A q \in Repairer \ {r} : phase'[q] = phase[q]
        /\ s \in Session /\ rows' = Projected(s, Raw(s))
    BY <1>10 DEF WriteSession, SessionWritten, ReadsAreCurrent, Subject
  <2>2. RowsAreCovered'
    BY <2>1, ProjectedIsCovered
  <2>3. ASSUME NEW t \in Turn, rows[t] = attribution[t]
        PROVE  rows'[t] = attribution'[t]
    BY <2>1, <2>3, SessionProjected
  <2>4. ASSUME NEW t \in Turn, NEW q \in Repairer \ {r}, OnTheMove(q, t)
        PROVE  OnTheMove(q, t)'
    <3>1. s \notin {oldKey[q], newKey[q]}
      BY <2>1, <2>4, MovesApart
    <3>2. rows'[t] = rows[t]
      BY <2>1, <2>4, <3>1, SessionProjected DEF OnTheMove
    <3>3. QED
      BY <2>1, <2>4, <3>2 DEF OnTheMove
  <2>5. ASSUME NEW t \in Turn, OnTheMove(r, t)
        PROVE  rows'[t] = attribution'[t] \/ OnTheMove(r, t)'
    <3>1. CASE phase[r] = "writeOld"
      <4>1. rows'[t] = NoRow
        BY <2>1, <2>5, <3>1, SessionProjected DEF OnTheMove
      <4>2. QED
        BY <2>1, <2>5, <3>1, <4>1 DEF OnTheMove
    <3>2. CASE phase[r] = "writeNew"
      <4>1. rows'[t] = s
        BY <2>1, <2>5, <3>2, SessionProjected DEF OnTheMove
      <4>2. QED
        BY <2>1, <2>5, <3>2, <4>1 DEF OnTheMove
    <3>3. QED
      BY <2>1, <3>1, <3>2
  <2>6. TurnsArrive => TurnsArrive'
    BY <2>3, <2>4, <2>5 DEF TurnsArrive
  <2>7. QED
    BY <2>1, <2>2, <2>6
<1>11. CASE RederiveError(r)
  <2>1. /\ UNCHANGED <<attribution, sessions>> /\ faults' # 0
        /\ \/ rows' = rows
           \/ Subject(r) \in Session /\ rows' = Projected(Subject(r), Raw(Subject(r)))
    BY <1>11, HelperTypes DEF RederiveError, Fault, SessionWritten, ReadsAreCurrent
  <2>2. RowsAreCovered'
    <3>1. CASE rows' = rows
      BY <2>1, <3>1 DEF RowsAreCovered
    <3>2. QED
      BY <2>1, <3>1, ProjectedIsCovered
  <2>3. QED
    BY <2>1, <2>2
<1>12. CASE Cleanup(r)
  <2>1. /\ UNCHANGED <<attribution, turn, oldKey, newKey, faults>>
        /\ phase[r] = "cleanup" /\ phase'[r] = "readNew"
        /\ \A q \in Repairer \ {r} : phase'[q] = phase[q]
        /\ DropSource(r) \/ UNCHANGED <<sessions, rows>>
    BY <1>12 DEF Cleanup
  <2>2. RowsAreCovered'
    BY <2>1 DEF RowsAreCovered, DropSource, Raw
  <2>3. ASSUME TurnsArrive
        PROVE  rows' = rows
    <3>1. ASSUME NEW t \in Turn, DropSource(r), rows[t] = oldKey[r]
          PROVE  FALSE
      <4>1. attribution[t] # oldKey[r]
        BY <3>1 DEF DropSource, Raw
      <4>2. PICK q \in Repairer : OnTheMove(q, t)
        BY <2>3, <3>1, <4>1 DEF TurnsArrive
      <4>3. oldKey[q] = oldKey[r]
        BY <3>1, <4>2 DEF OnTheMove
      <4>4. q = r
        BY <2>1, <4>2, <4>3, MovesApart
      <4>5. QED
        BY <2>1, <3>1, <4>2, <4>4 DEF OnTheMove
    <3>2. CASE DropSource(r)
      <4>1. \A t \in Turn : rows[t] # oldKey[r]
        BY <3>1, <3>2
      <4>2. rows' = [t \in Turn |-> rows[t]]
        BY <3>2, <4>1 DEF DropSource
      <4>3. QED
        BY <4>2
    <3>3. QED
      BY <2>1, <3>2
  <2>4. ASSUME TurnsArrive
        PROVE  TurnsArrive'
    <3>1. \A q \in Repairer, t \in Turn : OnTheMove(q, t) => OnTheMove(q, t)'
      BY <2>1, <2>3, <2>4 DEF OnTheMove
    <3>2. QED
      BY <2>1, <2>3, <2>4, <3>1 DEF TurnsArrive
  <2>5. QED
    BY <2>1, <2>2, <2>4
<1>13. QED
  BY <1>2, <1>3, <1>4, <1>5, <1>6, <1>7, <1>8, <1>9, <1>10, <1>11, <1>12 DEF RepairStep

\* The moves keep their discipline in every reachable state.
LEMMA MovesHold ==
    ASSUME MaxLockLosses = 0
    PROVE  RepairSpec => []MoveDiscipline
<1>1. ASSUME RepairInit, MarkDiscipline
      PROVE  MoveDiscipline
  <2>1. RowsAreCovered /\ TurnsArrive
    BY <1>1 DEF RepairInit, RowsAreCovered, TurnsArrive
  <2>2. QED
    BY <1>1, <2>1 DEF MoveDiscipline, MarkDiscipline
<1>2. ASSUME MoveDiscipline, MarkDiscipline, [RepairNext]_allVars, MarkDiscipline'
      PROVE  MoveDiscipline'
  <2>1. LockDiscipline' /\ ReadsAreCurrent'
    BY <1>2 DEF MarkDiscipline
  <2>2. CASE Next /\ UNCHANGED <<phase, repairVars>>
    BY <1>2, <2>1, <2>2, PipelineMoves DEF MoveDiscipline
  <2>3. ASSUME NEW r \in Repairer, RepairStep(r)
        PROVE  MoveDiscipline'
    BY <1>2, <2>1, <2>3, RepairMoves DEF MoveDiscipline
  <2>4. CASE UNCHANGED allVars
    BY <1>2, <2>1, <2>4
       DEF allVars, vars, rawVars, boundVars, repairVars, MoveDiscipline, RowsAreCovered, TurnsArrive,
           OnTheMove
  <2>5. QED
    BY <1>2, <2>2, <2>3, <2>4 DEF RepairNext
<1>3. QED
  BY <1>1, <1>2, MarksHold, PTL DEF RepairSpec

\* A repair loses no turn: a session leaves the queue only when a pass has
\* written all of its turns, and as long as nothing fails, once nobody is at
\* work every turn is projected under the session it was last moved to.
THEOREM RepairsLoseNothing ==
    ASSUME MaxLockLosses = 0
    PROVE  RepairSpec => []RepairLosesNothing
<1>1. ASSUME MarkDiscipline, MoveDiscipline
      PROVE  RepairLosesNothing
  <2>1. ASSUME faults = 0, Quiet, NEW t \in Turn
        PROVE  rows[t] = attribution[t]
    <3>1. \A r \in Repairer : ~OnTheMove(r, t)
      BY <2>1 DEF Quiet, OnTheMove
    <3>2. QED
      BY <1>1, <2>1, <3>1 DEF MoveDiscipline, TurnsArrive
  <2>2. QED
    BY <1>1, <2>1 DEF MarkDiscipline, RepairLosesNothing, RepairSettles, RepairConverges
<1>2. QED
  BY MarksHold, MovesHold, <1>1, PTL

=============================================================================
