------------------------- MODULE DeriveQueueProofs -------------------------
(***************************************************************************)
(* Proofs about DeriveQueue, for any number of sessions, turns, workers    *)
(* and re-derivers and any bound on faults, as long as no advisory-lock    *)
(* connection drops under a pass (MaxLockLosses = 0).                      *)
(*                                                                         *)
(* NothingLost is not inductive: whether a clear may remove a mark depends *)
(* on what the pass read, under which mark, and on nobody else writing the *)
(* session meanwhile.  Inductive adds exactly those facts.                 *)
(***************************************************************************)
EXTENDS DeriveQueue, TLAPS

\* A worker that re-read a mark remembers a real dirtied_at.
CurIsStamp == \A w \in Worker : pc[w] \in {"derive", "write", "clear"} => cur[w] \in Stamp

\* What a pass read is stale only if the session has been marked.
ReadIsMarked ==
    \A d \in Deriver : pc[d] = "write" /\ queue[target[d]] = NoStamp =>
        read[d] = Raw(target[d])

\* As long as the mark a worker re-read stands, nothing landed since.
MarkGuardsRead ==
    \A w \in Worker : pc[w] = "write" /\ queue[target[w]] = cur[w] =>
        read[w] = Raw(target[w])

\* ... and what it wrote is what the raw layer holds.
MarkGuardsWrite ==
    \A w \in Worker : pc[w] = "clear" /\ queue[target[w]] = cur[w] =>
        derived[target[w]] = Raw(target[w])

\* A trace row stands under the session of its raw turn, which has a row.
RowsTruthful == \A t \in Turn : rows[t] # NoRow => rows[t] = attribution[t] /\ rows[t] \in sessions

\* A pass about to write read all that is projected, and nothing but raw turns.
ReadBetween ==
    \A d \in Deriver : pc[d] = "write" =>
        Traces(target[d]) \subseteq read[d] /\ read[d] \subseteq Raw(target[d])

Inductive ==
    /\ TypeOK
    /\ PassHoldsLock
    /\ CurIsStamp
    /\ ReadIsMarked
    /\ MarkGuardsRead
    /\ MarkGuardsWrite
    /\ NothingLost
    /\ RowsTruthful
    /\ ReadBetween

----------------------------------------------------------------------------
(***************************************************************************)
(* Types.                                                                  *)
(***************************************************************************)

\* The two table-valued helpers stay in their types.
LEMMA HelperTypes ==
    ASSUME TypeOK
    PROVE  /\ \A st \in Stamp : Swept(st) \in [Session -> Stamp \cup {NoStamp}]
           /\ \A s \in Session : \A turns \in SUBSET Turn :
                 Projected(s, turns) \in [Turn -> Session \cup {NoRow}]
           /\ \A w \in Deriver : Cleared(w) \in [Session -> Stamp \cup {NoStamp}]
           /\ \A s \in Session : Raw(s) \in SUBSET Turn
           /\ Queued \in SUBSET Session
           /\ FreshStamp \subseteq Stamp
<1>1. \A st \in Stamp : Swept(st) \in [Session -> Stamp \cup {NoStamp}]
  BY DEF TypeOK, Swept
<1>2. \A s \in Session : \A turns \in SUBSET Turn :
         Projected(s, turns) \in [Turn -> Session \cup {NoRow}]
  BY DEF TypeOK, Projected
<1>3. \A w \in Deriver : Cleared(w) \in [Session -> Stamp \cup {NoStamp}]
  BY DEF TypeOK, Cleared
<1>4. QED
  BY <1>1, <1>2, <1>3 DEF Raw, Queued, FreshStamp

\* Every step of ingest, of the workers, of the re-derivers and every fault
\* keeps the state's types.
LEMMA TypeStep ==
    ASSUME TypeOK, [Next]_vars
    PROVE  TypeOK'
<1> USE BoundAssumption, HelperTypes DEF PC, Held, Goto, rawVars, passVars, boundVars
<1>1. ASSUME NEW t \in Turn, NEW s \in Session \cup {Keyless}, PutRawTurn(t, s)
      PROVE  TypeOK'
  <2>1. queue' \in [Session -> Stamp \cup {NoStamp}]
    BY <1>1 DEF PutRawTurn, TypeOK
  <2>2. sessions' \in SUBSET Session
    BY <1>1 DEF PutRawTurn, TypeOK
  <2>3. QED
    BY <1>1, <2>1, <2>2 DEF PutRawTurn, TypeOK
<1>2. ASSUME NEW s \in Session, IngestTurn(s)
      PROVE  TypeOK'
  BY <1>2 DEF IngestTurn, TypeOK
<1>3. ASSUME NEW t \in Turn, AgeOut(t)
      PROVE  TypeOK'
  BY <1>3 DEF AgeOut, TypeOK
<1>4. ASSUME NEW w \in Worker, WorkerStep(w)
      PROVE  TypeOK'
  <2> USE DEF Deriver
  <2>1. CASE Start(w)
    BY <2>1 DEF Start, Sweep, TypeOK
  <2>2. CASE SweepTick(w)
    BY <2>2 DEF SweepTick, Sweep, TypeOK
  <2>3. CASE RunPoll(w)
    BY <2>3 DEF RunPoll, TypeOK
  <2>4. CASE EndPoll(w)
    BY <2>4 DEF EndPoll, TypeOK
  <2>5. ASSUME NEW s \in Session, TryLock(w, s)
        PROVE  TypeOK'
    BY <2>5 DEF TryLock, TypeOK
  <2>6. CASE RereadDirty(w)
    BY <2>6 DEF RereadDirty, TypeOK
  <2>7. CASE RereadSkip(w)
    BY <2>7 DEF RereadSkip, TypeOK
  <2>8. CASE ClearDeriveDirty(w)
    BY <2>8 DEF ClearDeriveDirty, TypeOK
  <2>9. CASE InfraError(w)
    BY <2>9 DEF InfraError, Fault, TypeOK
  <2>10. QED
    BY <1>4, <2>1, <2>2, <2>3, <2>4, <2>5, <2>6, <2>7, <2>8, <2>9 DEF WorkerStep
<1>5. ASSUME NEW r \in Rederiver, RederiverStep(r)
      PROVE  TypeOK'
  <2>1. ASSUME NEW s \in Session, CallRederive(r, s)
        PROVE  TypeOK'
    BY <2>1 DEF CallRederive, TypeOK, Deriver
  <2>2. CASE AcquireLock(r)
    BY <2>2 DEF AcquireLock, TypeOK, Deriver
  <2>3. QED
    BY <1>5, <2>1, <2>2 DEF RederiverStep
<1>6. ASSUME NEW d \in Deriver, PassStep(d)
      PROVE  TypeOK'
  <2>1. CASE ReadRaw(d)
    BY <2>1 DEF ReadRaw, TypeOK
  <2>2. CASE WriteDerivedSet(d)
    BY <2>2 DEF WriteDerivedSet, Write, TypeOK
  <2>3. CASE Release(d)
    BY <2>3 DEF Release, TypeOK
  <2>4. CASE DeriveError(d)
    <3>1. rows' \in [Turn -> Session \cup {NoRow}] /\ derived' \in [Session -> SUBSET Turn]
      <4>1. CASE UNCHANGED <<rows, derived>>
        BY <4>1 DEF TypeOK
      <4>2. CASE Write(d)
        BY <4>2 DEF Write, TypeOK
      <4>3. QED
        BY <2>4, <4>1, <4>2 DEF DeriveError
    <3>2. /\ pc' = [pc EXCEPT ![d] = "release"] /\ faults' = faults + 1 /\ faults < MaxFaults
          /\ UNCHANGED <<rawVars, queue, lock, passVars, lockLosses>>
      BY <2>4 DEF DeriveError, Fault
    <3>3. QED
      BY <3>1, <3>2 DEF TypeOK
  <2>5. CASE Crash(d)
    BY <2>5 DEF Crash, Fault, TypeOK
  <2>6. QED
    BY <1>6, <2>1, <2>2, <2>3, <2>4, <2>5 DEF PassStep
<1>7. ASSUME NEW s \in Session, LoseLock(s)
      PROVE  TypeOK'
  BY <1>7 DEF LoseLock, TypeOK
<1>8. CASE UNCHANGED vars
  BY <1>8 DEF vars, TypeOK
<1>9. QED
  BY <1>1, <1>2, <1>3, <1>4, <1>5, <1>6, <1>7, <1>8 DEF Next, Ingest

\* The model's state is well typed in every reachable state: a queue row holds
\* a dirtied_at, a lock names a process, a trace row names a session.
THEOREM TypeCorrect == Spec => []TypeOK
<1>1. Init => TypeOK
  BY BoundAssumption DEF Init, TypeOK, PC, Held
<1>2. TypeOK /\ [Next]_vars => TypeOK'
  BY TypeStep
<1>3. QED
  BY <1>1, <1>2, PTL DEF Spec

\* InductiveStep: every step keeps the strengthened invariant.  The steps that
\* matter: a mark and a sweep take a stamp no pass remembers; a write is what
\* its pass read, with nobody else writing the session; a clear removes only
\* the mark its pass re-read.
LEMMA InductiveStep ==
    ASSUME MaxLockLosses = 0, Inductive, [Next]_vars
    PROVE  Inductive'
<1> USE NoneAssumption, ProcessAssumption
    DEF Inductive, TypeOK, Deriver, PC, Held, Goto, rawVars, passVars, boundVars
<1>1. TypeOK'
  BY TypeStep
<1>2. ASSUME NEW t \in Turn, NEW s \in Session \cup {Keyless}, PutRawTurn(t, s)
      PROVE  Inductive'
  <2>1. PassHoldsLock'
    BY <1>2 DEF PutRawTurn, FreshStamp, PassHoldsLock
  <2>2. CurIsStamp'
    BY <1>2 DEF PutRawTurn, FreshStamp, CurIsStamp, PassHoldsLock
  <2>3. ReadIsMarked'
    BY <1>2 DEF PutRawTurn, FreshStamp, ReadIsMarked, PassHoldsLock, Raw
  <2>4. MarkGuardsRead'
    BY <1>2 DEF PutRawTurn, FreshStamp, MarkGuardsRead, PassHoldsLock, Raw
  <2>5. MarkGuardsWrite'
    BY <1>2 DEF PutRawTurn, FreshStamp, MarkGuardsWrite, PassHoldsLock, Raw
  <2>6. NothingLost'
    BY <1>2 DEF PutRawTurn, FreshStamp, NothingLost, PassHoldsLock, Raw
  <2>7. RowsTruthful'
    BY <1>2 DEF PutRawTurn, FreshStamp, RowsTruthful, PassHoldsLock
  <2>8. ReadBetween'
    BY <1>2 DEF PutRawTurn, FreshStamp, ReadBetween, PassHoldsLock, Raw, Traces
  <2>9. QED
    BY <1>1, <2>1, <2>2, <2>3, <2>4, <2>5, <2>6, <2>7, <2>8
<1>3. ASSUME NEW s \in Session, IngestTurn(s)
      PROVE  Inductive'
  BY <1>1, <1>3
     DEF IngestTurn, PassHoldsLock, CurIsStamp, ReadIsMarked, MarkGuardsRead,
         MarkGuardsWrite, NothingLost, RowsTruthful, ReadBetween, Raw, Traces
<1>4. ASSUME NEW t \in Turn, AgeOut(t)
      PROVE  Inductive'
  BY <1>1, <1>4
     DEF AgeOut, PassHoldsLock, CurIsStamp, ReadIsMarked, MarkGuardsRead,
         MarkGuardsWrite, NothingLost, RowsTruthful, ReadBetween, Raw, Traces
<1>5. ASSUME NEW w \in Worker, Start(w)
      PROVE  Inductive'
  <2>1. PassHoldsLock'
    BY <1>5 DEF Start, Sweep, Swept, FreshStamp, PassHoldsLock
  <2>2. CurIsStamp'
    BY <1>5 DEF Start, Sweep, Swept, FreshStamp, CurIsStamp, PassHoldsLock
  <2>3. ReadIsMarked'
    BY <1>5 DEF Start, Sweep, Swept, FreshStamp, ReadIsMarked, PassHoldsLock, Raw
  <2>4. MarkGuardsRead'
    BY <1>5 DEF Start, Sweep, Swept, FreshStamp, MarkGuardsRead, PassHoldsLock, Raw
  <2>5. MarkGuardsWrite'
    BY <1>5 DEF Start, Sweep, Swept, FreshStamp, MarkGuardsWrite, PassHoldsLock, Raw
  <2>6. NothingLost'
    BY <1>5 DEF Start, Sweep, Swept, FreshStamp, NothingLost, PassHoldsLock, Raw
  <2>7. RowsTruthful'
    BY <1>5 DEF Start, Sweep, Swept, FreshStamp, RowsTruthful, PassHoldsLock
  <2>8. ReadBetween'
    BY <1>5 DEF Start, Sweep, Swept, FreshStamp, ReadBetween, PassHoldsLock, Raw, Traces
  <2>9. QED
    BY <1>1, <2>1, <2>2, <2>3, <2>4, <2>5, <2>6, <2>7, <2>8
<1>6. ASSUME NEW w \in Worker, SweepTick(w)
      PROVE  Inductive'
  <2>1. PassHoldsLock'
    BY <1>6 DEF SweepTick, Sweep, Swept, FreshStamp, PassHoldsLock
  <2>2. CurIsStamp'
    BY <1>6 DEF SweepTick, Sweep, Swept, FreshStamp, CurIsStamp, PassHoldsLock
  <2>3. ReadIsMarked'
    BY <1>6 DEF SweepTick, Sweep, Swept, FreshStamp, ReadIsMarked, PassHoldsLock, Raw
  <2>4. MarkGuardsRead'
    BY <1>6 DEF SweepTick, Sweep, Swept, FreshStamp, MarkGuardsRead, PassHoldsLock, Raw
  <2>5. MarkGuardsWrite'
    BY <1>6 DEF SweepTick, Sweep, Swept, FreshStamp, MarkGuardsWrite, PassHoldsLock, Raw
  <2>6. NothingLost'
    BY <1>6 DEF SweepTick, Sweep, Swept, FreshStamp, NothingLost, PassHoldsLock, Raw
  <2>7. RowsTruthful'
    BY <1>6 DEF SweepTick, Sweep, Swept, FreshStamp, RowsTruthful, PassHoldsLock
  <2>8. ReadBetween'
    BY <1>6 DEF SweepTick, Sweep, Swept, FreshStamp, ReadBetween, PassHoldsLock, Raw, Traces
  <2>9. QED
    BY <1>1, <2>1, <2>2, <2>3, <2>4, <2>5, <2>6, <2>7, <2>8
<1>7. ASSUME NEW w \in Worker, RunPoll(w)
      PROVE  Inductive'
  BY <1>1, <1>7
     DEF RunPoll, PassHoldsLock, CurIsStamp, ReadIsMarked, MarkGuardsRead,
         MarkGuardsWrite, NothingLost, RowsTruthful, ReadBetween, Raw, Traces
<1>8. ASSUME NEW w \in Worker, EndPoll(w)
      PROVE  Inductive'
  BY <1>1, <1>8
     DEF EndPoll, PassHoldsLock, CurIsStamp, ReadIsMarked, MarkGuardsRead,
         MarkGuardsWrite, NothingLost, RowsTruthful, ReadBetween, Raw, Traces
<1>9. ASSUME NEW w \in Worker, NEW s \in Session, TryLock(w, s)
      PROVE  Inductive'
  BY <1>1, <1>9
     DEF TryLock, PassHoldsLock, CurIsStamp, ReadIsMarked, MarkGuardsRead,
         MarkGuardsWrite, NothingLost, RowsTruthful, ReadBetween, Raw, Traces
<1>10. ASSUME NEW w \in Worker, RereadDirty(w)
      PROVE  Inductive'
  BY <1>1, <1>10
     DEF RereadDirty, PassHoldsLock, CurIsStamp, ReadIsMarked, MarkGuardsRead,
         MarkGuardsWrite, NothingLost, RowsTruthful, ReadBetween, Raw, Traces
<1>11. ASSUME NEW w \in Worker, RereadSkip(w)
      PROVE  Inductive'
  BY <1>1, <1>11
     DEF RereadSkip, PassHoldsLock, CurIsStamp, ReadIsMarked, MarkGuardsRead,
         MarkGuardsWrite, NothingLost, RowsTruthful, ReadBetween, Raw, Traces
<1>12. ASSUME NEW w \in Worker, ClearDeriveDirty(w)
      PROVE  Inductive'
  <2>1. PassHoldsLock'
    BY <1>12 DEF ClearDeriveDirty, Cleared, PassHoldsLock
  <2>2. CurIsStamp'
    BY <1>12 DEF ClearDeriveDirty, Cleared, CurIsStamp, PassHoldsLock
  <2>3. ReadIsMarked'
    BY <1>12 DEF ClearDeriveDirty, Cleared, ReadIsMarked, PassHoldsLock, Raw
  <2>4. MarkGuardsRead'
    BY <1>12 DEF ClearDeriveDirty, Cleared, MarkGuardsRead, PassHoldsLock, Raw
  <2>5. MarkGuardsWrite'
    BY <1>12 DEF ClearDeriveDirty, Cleared, MarkGuardsWrite, PassHoldsLock, Raw
  <2>6. NothingLost'
    BY <1>12 DEF ClearDeriveDirty, Cleared, NothingLost, PassHoldsLock, Raw, MarkGuardsWrite
  <2>7. RowsTruthful'
    BY <1>12 DEF ClearDeriveDirty, Cleared, RowsTruthful, PassHoldsLock
  <2>8. ReadBetween'
    BY <1>12 DEF ClearDeriveDirty, Cleared, ReadBetween, PassHoldsLock, Raw, Traces
  <2>9. QED
    BY <1>1, <2>1, <2>2, <2>3, <2>4, <2>5, <2>6, <2>7, <2>8
<1>13. ASSUME NEW w \in Worker, InfraError(w)
      PROVE  Inductive'
  <2>1. PassHoldsLock'
    BY <1>13 DEF InfraError, Cleared, PassHoldsLock
  <2>2. CurIsStamp'
    BY <1>13 DEF InfraError, Cleared, CurIsStamp, PassHoldsLock
  <2>3. ReadIsMarked'
    BY <1>13 DEF InfraError, Cleared, ReadIsMarked, PassHoldsLock, Raw
  <2>4. MarkGuardsRead'
    BY <1>13 DEF InfraError, Cleared, MarkGuardsRead, PassHoldsLock, Raw
  <2>5. MarkGuardsWrite'
    BY <1>13 DEF InfraError, Cleared, MarkGuardsWrite, PassHoldsLock, Raw
  <2>6. NothingLost'
    BY <1>13 DEF InfraError, Cleared, NothingLost, PassHoldsLock, Raw, MarkGuardsWrite
  <2>7. RowsTruthful'
    BY <1>13 DEF InfraError, Cleared, RowsTruthful, PassHoldsLock
  <2>8. ReadBetween'
    BY <1>13 DEF InfraError, Cleared, ReadBetween, PassHoldsLock, Raw, Traces
  <2>9. QED
    BY <1>1, <2>1, <2>2, <2>3, <2>4, <2>5, <2>6, <2>7, <2>8
<1>14. ASSUME NEW r \in Rederiver, NEW s \in Session, CallRederive(r, s)
      PROVE  Inductive'
  BY <1>1, <1>14
     DEF CallRederive, PassHoldsLock, CurIsStamp, ReadIsMarked, MarkGuardsRead,
         MarkGuardsWrite, NothingLost, RowsTruthful, ReadBetween, Raw, Traces
<1>15. ASSUME NEW r \in Rederiver, AcquireLock(r)
      PROVE  Inductive'
  BY <1>1, <1>15
     DEF AcquireLock, PassHoldsLock, CurIsStamp, ReadIsMarked, MarkGuardsRead,
         MarkGuardsWrite, NothingLost, RowsTruthful, ReadBetween, Raw, Traces
<1>16. ASSUME NEW d \in Deriver, ReadRaw(d)
      PROVE  Inductive'
  <2>1. PassHoldsLock'
    BY <1>16 DEF ReadRaw, PassHoldsLock
  <2>2. CurIsStamp'
    BY <1>16 DEF ReadRaw, CurIsStamp, PassHoldsLock
  <2>3. ReadIsMarked'
    BY <1>16 DEF ReadRaw, ReadIsMarked, PassHoldsLock, Raw
  <2>4. MarkGuardsRead'
    BY <1>16 DEF ReadRaw, MarkGuardsRead, PassHoldsLock, Raw
  <2>5. MarkGuardsWrite'
    BY <1>16 DEF ReadRaw, MarkGuardsWrite, PassHoldsLock, Raw
  <2>6. NothingLost'
    BY <1>16 DEF ReadRaw, NothingLost, PassHoldsLock, Raw
  <2>7. RowsTruthful'
    BY <1>16 DEF ReadRaw, RowsTruthful, PassHoldsLock
  <2>8. ReadBetween'
    BY <1>16 DEF ReadRaw, ReadBetween, PassHoldsLock, Raw, Traces, RowsTruthful
  <2>9. QED
    BY <1>1, <2>1, <2>2, <2>3, <2>4, <2>5, <2>6, <2>7, <2>8
<1>17. ASSUME NEW d \in Deriver, WriteDerivedSet(d)
      PROVE  Inductive'
  <2>1. PassHoldsLock'
    BY <1>17 DEF WriteDerivedSet, Write, Projected, PassHoldsLock
  <2>2. CurIsStamp'
    BY <1>17 DEF WriteDerivedSet, Write, Projected, CurIsStamp, PassHoldsLock
  <2>3. ReadIsMarked'
    BY <1>17 DEF WriteDerivedSet, Write, Projected, ReadIsMarked, PassHoldsLock, Raw
  <2>4. MarkGuardsRead'
    BY <1>17 DEF WriteDerivedSet, Write, Projected, MarkGuardsRead, PassHoldsLock, Raw
  <2>5. MarkGuardsWrite'
    BY <1>17 DEF WriteDerivedSet, Write, Projected, MarkGuardsWrite, PassHoldsLock, Raw, MarkGuardsRead
  <2>6. NothingLost'
    BY <1>17 DEF WriteDerivedSet, Write, Projected, NothingLost, PassHoldsLock, Raw, ReadIsMarked
  <2>7. RowsTruthful'
    BY <1>17 DEF WriteDerivedSet, Write, Projected, RowsTruthful, PassHoldsLock, ReadBetween, Raw, Traces
  <2>8. ReadBetween'
    BY <1>17 DEF WriteDerivedSet, Write, Projected, ReadBetween, PassHoldsLock, Raw, Traces
  <2>9. QED
    BY <1>1, <2>1, <2>2, <2>3, <2>4, <2>5, <2>6, <2>7, <2>8
<1>18. ASSUME NEW d \in Deriver, Release(d)
      PROVE  Inductive'
  BY <1>1, <1>18
     DEF Release, PassHoldsLock, CurIsStamp, ReadIsMarked, MarkGuardsRead,
         MarkGuardsWrite, NothingLost, RowsTruthful, ReadBetween, Raw, Traces
<1>19. ASSUME NEW d \in Deriver, DeriveError(d)
      PROVE  Inductive'
  <2>1. PassHoldsLock'
    BY <1>19 DEF DeriveError, Write, Projected, PassHoldsLock
  <2>2. CurIsStamp'
    BY <1>19 DEF DeriveError, Write, Projected, CurIsStamp, PassHoldsLock
  <2>3. ReadIsMarked'
    BY <1>19 DEF DeriveError, Write, Projected, ReadIsMarked, PassHoldsLock, Raw
  <2>4. MarkGuardsRead'
    BY <1>19 DEF DeriveError, Write, Projected, MarkGuardsRead, PassHoldsLock, Raw
  <2>5. MarkGuardsWrite'
    BY <1>19 DEF DeriveError, Write, Projected, MarkGuardsWrite, PassHoldsLock, Raw
  <2>6. NothingLost'
    BY <1>19 DEF DeriveError, Write, Projected, NothingLost, PassHoldsLock, Raw, ReadIsMarked
  <2>7. RowsTruthful'
    BY <1>19 DEF DeriveError, Write, Projected, RowsTruthful, PassHoldsLock, ReadBetween, Raw, Traces
  <2>8. ReadBetween'
    BY <1>19 DEF DeriveError, Write, Projected, ReadBetween, PassHoldsLock, Raw, Traces
  <2>9. QED
    BY <1>1, <2>1, <2>2, <2>3, <2>4, <2>5, <2>6, <2>7, <2>8
<1>20. ASSUME NEW d \in Deriver, Crash(d)
      PROVE  Inductive'
  BY <1>1, <1>20
     DEF Crash, PassHoldsLock, CurIsStamp, ReadIsMarked, MarkGuardsRead,
         MarkGuardsWrite, NothingLost, RowsTruthful, ReadBetween, Raw, Traces
<1>21. CASE UNCHANGED vars
  BY <1>1, <1>21 DEF vars, PassHoldsLock, CurIsStamp, ReadIsMarked, MarkGuardsRead,
         MarkGuardsWrite, NothingLost, RowsTruthful, ReadBetween, Raw, Traces
<1>22. ASSUME NEW s \in Session
       PROVE  ~LoseLock(s)
  BY DEF LoseLock
<1>23. QED
  BY <1>2, <1>3, <1>4, <1>5, <1>6, <1>7, <1>8, <1>9, <1>10, <1>11, <1>12, <1>13, <1>14, <1>15, <1>16, <1>17, <1>18, <1>19, <1>20, <1>21, <1>22
     DEF Next, Ingest, WorkerStep, RederiverStep, PassStep

\* The strengthened invariant holds in every reachable state.
LEMMA InductiveHolds ==
    ASSUME MaxLockLosses = 0
    PROVE  Spec => []Inductive
<1>1. Init => Inductive
  <2>1. ASSUME Init
        PROVE  TypeOK
    BY <2>1, BoundAssumption DEF Init, TypeOK, PC, Held
  <2>2. ASSUME Init
        PROVE  /\ PassHoldsLock /\ CurIsStamp /\ ReadIsMarked /\ MarkGuardsRead
               /\ MarkGuardsWrite /\ RowsTruthful /\ ReadBetween
    BY <2>2 DEF Init, Held, Deriver, PassHoldsLock, CurIsStamp, ReadIsMarked,
                MarkGuardsRead, MarkGuardsWrite, RowsTruthful, ReadBetween
  <2>3. ASSUME Init
        PROVE  NothingLost
    BY <2>3, NoneAssumption DEF Init, NothingLost, Raw
  <2>4. QED
    BY <2>1, <2>2, <2>3 DEF Inductive
<1>2. Inductive /\ [Next]_vars => Inductive'
  BY InductiveStep
<1>3. QED
  BY <1>1, <1>2, PTL DEF Spec

----------------------------------------------------------------------------
(***************************************************************************)
(* What follows from it.                                                   *)
(***************************************************************************)

\* At-least-once, never lost: whatever the interleaving of captures, workers,
\* sweeps, manual re-derives, crashes and errors, a session leaves the queue
\* only when a pass has written all of its raw turns.
THEOREM NothingIsLost ==
    ASSUME MaxLockLosses = 0
    PROVE  Spec => []NothingLost
<1>1. Inductive => NothingLost
  BY DEF Inductive
<1>2. QED
  BY InductiveHolds, <1>1, PTL

\* Passes on one session never overlap.
THEOREM PassesExclude ==
    ASSUME MaxLockLosses = 0
    PROVE  Spec => []PassHoldsLock
<1>1. Inductive => PassHoldsLock
  BY DEF Inductive
<1>2. QED
  BY InductiveHolds, <1>1, PTL

\* A pass's write, seen from the trace rows: it keeps every row the raw layer
\* backs, and what it adds are rows of its own session.
LEMMA WriteStep ==
    ASSUME Inductive, NEW d \in Deriver, pc[d] = "write", Write(d)
    PROVE  /\ \A t \in Turn : rows[t] \in Session => rows'[t] = rows[t]
           /\ rows' = rows \/ target[d] \in sessions
           /\ rows' = [t \in Turn |-> IF target[d] \in sessions /\ t \in read[d]
                                      THEN target[d] ELSE rows[t]]
<1> USE DEF Inductive, TypeOK
<1>1. target[d] \in Session /\ Traces(target[d]) \subseteq read[d] /\ read[d] \subseteq Raw(target[d])
  BY DEF ReadBetween
<1>2. \A t \in read[d] : rows[t] = NoRow \/ rows[t] = target[d]
  BY <1>1 DEF Raw, RowsTruthful
<1>3. \A t \in Turn : rows[t] = target[d] => t \in read[d]
  BY <1>1 DEF Traces
<1>4. rows' = Projected(target[d], read[d])
  BY DEF Write
<1>5. QED
  BY <1>1, <1>2, <1>3, <1>4, NoneAssumption DEF Projected

\* Only a derive's write changes trace rows.
LEMMA RowsStep ==
    ASSUME MaxLockLosses = 0, Inductive, [Next]_vars
    PROVE  rows' = rows \/ \E d \in Deriver : pc[d] = "write" /\ Write(d)
BY DEF Next, vars, Ingest, WorkerStep, RederiverStep, PassStep, PutRawTurn, IngestTurn, AgeOut,
       Start, Sweep, SweepTick, RunPoll, EndPoll, TryLock, RereadDirty, RereadSkip,
       ClearDeriveDirty, InfraError, CallRederive, AcquireLock, ReadRaw, WriteDerivedSet,
       Release, DeriveError, Crash, LoseLock

\* No pass ever takes away the trace row of a turn the raw layer holds.
THEOREM LiveTracesStay ==
    ASSUME MaxLockLosses = 0
    PROVE  Spec => NeverPruneLive
<1>1. ASSUME Inductive, [Next]_vars
      PROVE  [\A t \in Turn : rows[t] \in Session /\ attribution'[t] = rows[t] => rows'[t] = rows[t]]_vars
  BY <1>1, RowsStep, WriteStep
<1>2. QED
  BY InductiveHolds, <1>1, PTL DEF Spec, NeverPruneLive

\* Only ingest changes the raw layer and the identity rows.
LEMMA RawStep ==
    ASSUME [Next]_vars
    PROVE  \/ \E t \in Turn, s \in Session \cup {Keyless} : PutRawTurn(t, s)
           \/ \E s \in Session : IngestTurn(s)
           \/ UNCHANGED <<attribution, sessions>>
BY DEF Next, vars, rawVars, Ingest, WorkerStep, RederiverStep, PassStep, AgeOut,
       Start, Sweep, SweepTick, RunPoll, EndPoll, TryLock, RereadDirty, RereadSkip,
       ClearDeriveDirty, InfraError, CallRederive, AcquireLock, ReadRaw, WriteDerivedSet,
       Release, DeriveError, Crash, LoseLock

\* A write step, and a step that is not one, seen by the readers.
LEMMA AbstractStep ==
    ASSUME MaxLockLosses = 0, Inductive, [Next]_vars
    PROVE  [Abstract!Next]_(Abstract!vars)
<1> USE DEF Inductive, TypeOK
<1>1. ASSUME NEW d \in Deriver, pc[d] = "write", Write(d), UNCHANGED <<attribution, sessions>>
      PROVE  [Abstract!Next]_(Abstract!vars)
  <2>1. CASE target[d] \in sessions
    <3>1. read[d] \in SUBSET {t \in Turn : attribution[t] = target[d]}
      BY <1>1 DEF ReadBetween, Raw
    <3>2. rows' = [t \in Turn |-> IF t \in read[d] THEN target[d] ELSE rows[t]]
      BY <1>1, <2>1, WriteStep
    <3>3. Abstract!Derive(target[d])
      BY <1>1, <2>1, <3>1, <3>2 DEF Abstract!Derive
    <3>4. QED
      BY <3>3 DEF Abstract!Next
  <2>2. CASE target[d] \notin sessions
    BY <1>1, <2>2, WriteStep DEF Abstract!vars
  <2>3. QED
    BY <2>1, <2>2
<1>2. ASSUME NEW t \in Turn, NEW s \in Session \cup {Keyless}, PutRawTurn(t, s)
      PROVE  [Abstract!Next]_(Abstract!vars)
  <2>1. rows' = rows
    BY <1>2 DEF PutRawTurn
  <2>2. CASE attribution[t] = NoRow
    <3>1. Abstract!Land(t, s)
      BY <1>2, <2>1, <2>2, NoneAssumption DEF PutRawTurn, Abstract!Land
    <3>2. QED
      BY <3>1 DEF Abstract!Next
  <2>3. CASE attribution[t] # NoRow
    <3>1. attribution' = attribution
      BY <1>2, <2>3 DEF PutRawTurn
    <3>2. sessions' = sessions \/ (s \in Session /\ sessions' = sessions \cup {s})
      BY <1>2 DEF PutRawTurn
    <3>3. QED
      BY <2>1, <3>1, <3>2 DEF Abstract!Next, Abstract!Identify, Abstract!vars
  <2>4. QED
    BY <2>2, <2>3
<1>3. ASSUME NEW s \in Session, IngestTurn(s)
      PROVE  [Abstract!Next]_(Abstract!vars)
  BY <1>3 DEF IngestTurn, Abstract!Next, Abstract!Identify
<1>4. CASE UNCHANGED <<attribution, sessions>>
  <2>1. CASE rows' = rows
    BY <1>4, <2>1 DEF Abstract!vars
  <2>2. CASE \E d \in Deriver : pc[d] = "write" /\ Write(d)
    BY <1>1, <1>4, <2>2
  <2>3. QED
    BY <2>1, <2>2, RowsStep
<1>5. QED
  BY <1>2, <1>3, <1>4, RawStep

\* The pipeline implements Projection: with all its marks, locks, retries and
\* crashes, readers only ever see turns land, sessions appear and sessions'
\* projections grow.
THEOREM Implements ==
    ASSUME MaxLockLosses = 0
    PROVE  Spec => Refines
<1>1. Init => Abstract!Init
  BY DEF Init, Abstract!Init
<1>2. Inductive /\ [Next]_vars => [Abstract!Next]_(Abstract!vars)
  BY AbstractStep
<1>3. QED
  BY InductiveHolds, <1>1, <1>2, PTL DEF Spec, Refines, Abstract!Spec

=============================================================================
