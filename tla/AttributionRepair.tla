------------------------- MODULE AttributionRepair -------------------------
(***************************************************************************)
(* Repairing the attribution of a raw turn while the derive pipeline runs  *)
(* (pkg/storage/postgres/raw_turn_attribution_repair.go).  A repair        *)
(* observes the turn's session, takes the derive locks of that session and *)
(* of the target, records the correction in one transaction that marks     *)
(* both sessions dirty, and re-derives first the old, then the new one.    *)
(*                                                                         *)
(* attribution is the effective session key of a turn: that of its         *)
(* raw_turns row, or of the latest correction.  A trace row is known by    *)
(* the request_id of the wire call that opened it, whatever the session    *)
(* (pkg/derive/spans.go, callIdentity); here each turn opens its own       *)
(* trace.  Thread and parent of a correction, and the repair of a turn     *)
(* without a session key, are left out.                                    *)
(***************************************************************************)
EXTENDS DeriveQueue

CONSTANTS Repairer,   \* requests to the repair endpoint
          Rank,       \* the order acquireRepairSessionLocks sorts keys by
          MaxRepairs  \* bound on the corrections recorded

ASSUME RankAssumption ==
    /\ Rank \in [Session -> Nat]
    /\ \A a, b \in Session : Rank[a] = Rank[b] => a = b
ASSUME RepairerAssumption == Repairer \cap (Deriver \cup {Nobody}) = {} /\ MaxRepairs \in Nat

VARIABLES
    phase,   \* where each repair is: idle, observe, lock, record, readOld,
             \* writeOld, cleanup, readNew, writeNew, mark
    turn,    \* the raw turn it repairs
    oldKey,  \* the session it observed the turn under
    newKey,  \* the session it moves the turn to
    seen,    \* the raw turns its current re-derive read
    pending, \* the sessions whose re-derive failed
    repairs  \* corrections recorded so far

repairVars == <<turn, oldKey, newKey, seen, pending, repairs>>
allVars == <<vars, phase, repairVars>>

\* Every turn was captured and projected before the first repair.
RepairInit ==
    /\ attribution \in [Turn -> Session]
    /\ rows = attribution
    /\ sessions = {attribution[t] : t \in Turn}
    /\ recent = {}
    /\ queue = [s \in Session |-> NoStamp]
    /\ lock = [s \in Session |-> Nobody]
    /\ pc = [d \in Deriver |-> "idle"]
    /\ todo = [d \in Deriver |-> {}]
    /\ target \in [Deriver -> Session]
    /\ cur = [d \in Deriver |-> NoStamp]
    /\ read = [d \in Deriver |-> {}]
    /\ derived = [s \in Session |-> Raw(s)]
    /\ faults = 0
    /\ lockLosses = 0
    /\ phase = [r \in Repairer |-> "idle"]
    /\ turn \in [Repairer -> Turn]
    /\ oldKey \in [Repairer -> Session]
    /\ newKey \in [Repairer -> Session]
    /\ seen = [r \in Repairer |-> {}]
    /\ pending = [r \in Repairer |-> {}]
    /\ repairs = 0

----------------------------------------------------------------------------
Become(r, p) == phase' = [phase EXCEPT ![r] = p]

\* Mutation of Subject: the old session is never the one re-derived.
SubjectTarget(r) == newKey[r]

\* The session the current re-derive of a repair is on.
Subject(r) == IF phase[r] \in {"readOld", "writeOld"} THEN oldKey[r] ELSE newKey[r]

\* Mutation of Wanted: only the target session is locked.
WantedTarget(r) == {s \in {newKey[r]} : lock[s] # r}

\* The locks a repair still has to take.
Wanted(r) == {s \in {oldKey[r], newKey[r]} : lock[s] # r}

\* Mutation of NextLock: old key first, unsorted.
NextLockUnsorted(r) == IF oldKey[r] \in Wanted(r) THEN oldKey[r] ELSE newKey[r]

\* The one it takes next: the lowest key.
NextLock(r) == CHOOSE s \in Wanted(r) : \A o \in Wanted(r) : Rank[s] <= Rank[o]

Unlocked(r) == [s \in Session |-> IF lock[s] = r THEN Nobody ELSE lock[s]]

\* A request arrives: move turn t to session s.
Request(r, t, s) ==
    /\ phase[r] = "idle"
    /\ repairs < MaxRepairs
    /\ turn' = [turn EXCEPT ![r] = t]
    /\ newKey' = [newKey EXCEPT ![r] = s]
    /\ Become(r, "observe")
    /\ UNCHANGED <<vars, oldKey, seen, pending, repairs>>

\* The effective attribution is read before any lock is held.
Observe(r) ==
    /\ phase[r] = "observe"
    /\ \/ /\ attribution[turn[r]] \in Session
          /\ oldKey' = [oldKey EXCEPT ![r] = attribution[turn[r]]]
          /\ Become(r, "lock")
       \/ /\ attribution[turn[r]] = NoRow   \* ErrRawTurnNotFound
          /\ Become(r, "idle")
          /\ UNCHANGED oldKey
    /\ UNCHANGED <<vars, turn, newKey, seen, pending, repairs>>

\* acquireRepairSessionLocks takes the next lock, waiting for it.
LockKey(r) ==
    /\ phase[r] = "lock"
    /\ lock[NextLock(r)] = Nobody
    /\ lock' = [lock EXCEPT ![NextLock(r)] = r]
    /\ IF Cardinality(Wanted(r)) = 1 THEN Become(r, "record") ELSE UNCHANGED phase
    /\ UNCHANGED <<rawVars, queue, rows, pc, passVars, derived, boundVars, repairVars>>

\* Mutation of Record: the session the turn leaves is not marked.
RecordMarksTarget(r) ==
    /\ phase[r] = "record"
    /\ attribution[turn[r]] = oldKey[r]
    /\ repairs < MaxRepairs
    /\ repairs' = repairs + 1
    /\ attribution' = [attribution EXCEPT ![turn[r]] = newKey[r]]
    /\ sessions' = sessions \cup {newKey[r]}
    /\ \E st \in FreshStamp : queue' = [queue EXCEPT ![newKey[r]] = st]
    /\ Become(r, "readOld")
    /\ UNCHANGED <<recent, rows, lock, pc, passVars, derived, boundVars>>
    /\ UNCHANGED <<turn, oldKey, newKey, seen, pending>>

\* recordAttributionRepair, one transaction; both marks carry its start time.
Record(r) ==
    /\ phase[r] = "record"
    /\ attribution[turn[r]] = oldKey[r]
    /\ repairs < MaxRepairs
    /\ repairs' = repairs + 1
    /\ attribution' = [attribution EXCEPT ![turn[r]] = newKey[r]]
    /\ sessions' = sessions \cup {newKey[r]}
    /\ \E st \in FreshStamp :
          queue' = [s \in Session |-> IF s \in {oldKey[r], newKey[r]} THEN st ELSE queue[s]]
    /\ Become(r, "readOld")
    /\ UNCHANGED <<recent, rows, lock, pc, passVars, derived, boundVars>>
    /\ UNCHANGED <<turn, oldKey, newKey, seen, pending>>

\* The turn moved since it was observed: release and start over.
Retry(r) ==
    /\ phase[r] = "record"
    /\ attribution[turn[r]] # oldKey[r]
    /\ lock' = Unlocked(r)
    /\ Become(r, "observe")
    /\ UNCHANGED <<rawVars, queue, rows, pc, passVars, derived, boundVars, repairVars>>

\* The transaction fails: release, nothing recorded.
RecordError(r) ==
    /\ Fault
    /\ phase[r] = "record"
    /\ lock' = Unlocked(r)
    /\ Become(r, "idle")
    /\ UNCHANGED <<rawVars, queue, rows, pc, passVars, derived, lockLosses, repairVars>>

\* repairRederive reads the session ...
ReadSession(r) ==
    /\ phase[r] \in {"readOld", "readNew"}
    /\ seen' = [seen EXCEPT ![r] = Raw(Subject(r))]
    /\ Become(r, IF phase[r] = "readOld" THEN "writeOld" ELSE "writeNew")
    /\ UNCHANGED <<vars, turn, oldKey, newKey, pending, repairs>>

SessionWritten(r) ==
    /\ rows' = Projected(Subject(r), seen[r])
    /\ derived' = [derived EXCEPT ![Subject(r)] = seen[r]]

\* ... and writes it.  A repair that stays in its session has one to do.
WriteSession(r) ==
    /\ phase[r] \in {"writeOld", "writeNew"}
    /\ SessionWritten(r)
    /\ Become(r, IF phase[r] = "writeOld" /\ oldKey[r] # newKey[r] THEN "cleanup" ELSE "mark")
    /\ UNCHANGED <<rawVars, queue, lock, pc, passVars, boundVars, repairVars>>

\* A failed re-derive is remembered; the new session is re-derived even after
\* the old one failed, without the cleanup.  Its commit may have reached
\* Postgres.
RederiveError(r) ==
    /\ Fault
    /\ phase[r] \in {"readOld", "writeOld", "readNew", "writeNew"}
    /\ \/ UNCHANGED <<rows, derived>>
       \/ phase[r] \in {"writeOld", "writeNew"} /\ SessionWritten(r)
    /\ pending' = [pending EXCEPT ![r] = @ \cup {Subject(r)}]
    /\ Become(r, IF Subject(r) = newKey[r] THEN "mark" ELSE "readNew")
    /\ UNCHANGED <<rawVars, queue, lock, pc, passVars, lockLosses>>
    /\ UNCHANGED <<turn, oldKey, newKey, seen, repairs>>

\* Mutation of DropSource: the source row goes though turns are left under it.
DropSourceAlways(r) ==
    /\ sessions' = sessions \ {oldKey[r]}
    /\ rows' = [t \in Turn |-> IF rows[t] = oldKey[r] THEN NoRow ELSE rows[t]]

\* DeleteEmptyUnreferencedSession: the old identity row, if no effective turn
\* is left under it; its trace rows go with it (ON DELETE CASCADE).  The row
\* stays when it anchors a child, or on an error, which is only reported.
DropSource(r) ==
    /\ Raw(oldKey[r]) = {}
    /\ sessions' = sessions \ {oldKey[r]}
    /\ rows' = [t \in Turn |-> IF rows[t] = oldKey[r] THEN NoRow ELSE rows[t]]

Cleanup(r) ==
    /\ phase[r] = "cleanup"
    /\ DropSource(r) \/ UNCHANGED <<sessions, rows>>
    /\ Become(r, "readNew")
    /\ UNCHANGED <<attribution, recent, queue, lock, pc, passVars, derived, boundVars, repairVars>>

\* The pending sessions are marked once more, each in a transaction of its own;
\* a mark that fails is only reported.
MarkPending(r, s) ==
    /\ phase[r] = "mark"
    /\ s \in pending[r]
    /\ pending' = [pending EXCEPT ![r] = @ \ {s}]
    /\ \/ (\E st \in FreshStamp : queue' = [queue EXCEPT ![s] = st]) /\ UNCHANGED faults
       \/ Fault /\ UNCHANGED queue
    /\ UNCHANGED <<rawVars, rows, lock, pc, passVars, derived, lockLosses>>
    /\ UNCHANGED <<phase, turn, oldKey, newKey, seen, repairs>>

ReleaseKeys(r) ==
    /\ phase[r] = "mark"
    /\ pending[r] = {}
    /\ lock' = Unlocked(r)
    /\ Become(r, "idle")
    /\ UNCHANGED <<rawVars, queue, rows, pc, passVars, derived, boundVars, repairVars>>

\* The API process dies, or the request is cancelled while it waits for a lock.
RepairCrash(r) ==
    /\ Fault
    /\ phase[r] # "idle"
    /\ lock' = Unlocked(r)
    /\ Become(r, "idle")
    /\ pending' = [pending EXCEPT ![r] = {}]
    /\ UNCHANGED <<rawVars, queue, rows, pc, passVars, derived, lockLosses>>
    /\ UNCHANGED <<turn, oldKey, newKey, seen, repairs>>

RepairStep(r) ==
    \/ \E t \in Turn, s \in Session : Request(r, t, s)
    \/ Observe(r) \/ LockKey(r) \/ Record(r) \/ Retry(r) \/ RecordError(r)
    \/ ReadSession(r) \/ WriteSession(r) \/ RederiveError(r) \/ Cleanup(r)
    \/ (\E s \in Session : MarkPending(r, s)) \/ ReleaseKeys(r) \/ RepairCrash(r)

RepairNext ==
    \/ Next /\ UNCHANGED <<phase, repairVars>>
    \/ \E r \in Repairer : RepairStep(r)

RepairSpec == RepairInit /\ [][RepairNext]_allVars

----------------------------------------------------------------------------
\* A repair and a derive pass, or two repairs, never work on one session at a
\* time: from the record to the release a repair owns both locks.
RepairHoldsLocks ==
    /\ PassHoldsLock
    /\ \A r \in Repairer : phase[r] \notin {"idle", "observe", "lock"} =>
           lock[oldKey[r]] = r /\ lock[newKey[r]] = r

\* Repairs that move turns between the same two sessions in opposite directions
\* do not wait for each other: the locks are taken in the order of their keys.
Waits(r, q) == phase[r] = "lock" /\ lock[NextLock(r)] = q
NoLockCycle == \A r, q \in Repairer : ~(Waits(r, q) /\ Waits(q, r))

\* Once nobody works and nothing is queued, every turn is projected under its
\* effective session (docs/apis.md: "`projections_pending` names the stale
\* sessions, which the derive worker converges on its own").
Quiet ==
    /\ Queued = {}
    /\ \A d \in Deriver : pc[d] \in {"idle", "down"}
    /\ \A r \in Repairer : phase[r] = "idle"
RepairConverges == Quiet => \A t \in Turn : attribution[t] # NoRow => rows[t] = attribution[t]

\* As long as nothing fails it needs no luck: the repairs and the derive worker
\* together leave every moved turn under its new session, though two repairs
\* move it on or back before the first is projected.
RepairSettles == faults = 0 => RepairConverges

\* Two repairs and a worker share the locks of two sessions without a pass
\* they do not own and without waiting in a circle (acquireRepairSessionLocks).
LocksAreSafe == RepairHoldsLocks /\ NoLockCycle

\* A turn on the move stays queued under one session or the other until a pass
\* has projected it, and ends up under the session it was moved to
\* (RepairRawTurnAttribution).
RepairLosesNothing == NothingLost /\ RepairSettles

=============================================================================
