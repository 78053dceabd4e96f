---------------------------- MODULE CapturePool ----------------------------
(***************************************************************************)
(* The capture pool between the HTTP handlers and the store                *)
(* (proxy/worker/pool.go), as the proxy and the ingest server use and      *)
(* close it (proxy/proxy.go and ingest/ingest.go, Close).                  *)
(*                                                                         *)
(* A job is one captured turn.  The merkle chain and the envelope a job    *)
(* carries are left out.  The two store calls of processJob are steps of   *)
(* their own; either may fail, which is logged, and what they write is     *)
(* DeriveQueue's PutRawTurn and IngestTurn.                                *)
(***************************************************************************)
EXTENDS Integers, Sequences, FiniteSets, Functions

CONSTANTS
    Job,         \* captured turns
    Worker,      \* the pool's goroutines
    Weight,      \* Job.Weight: the bytes a job retains, 0 when unweighted
    QueueSize,   \* capacity of the job channel
    ByteBudget,  \* Config.QueueByteBudget
    NoJob

ASSUME JobAssumption == IsFiniteSet(Job) /\ NoJob \notin Job /\ Weight \in [Job -> Nat]
ASSUME SizeAssumption == QueueSize \in Nat \ {0} /\ ByteBudget \in Nat
ASSUME WorkerAssumption == IsFiniteSet(Worker) /\ Worker # {}

VARIABLES
    stage,     \* how far each job is
    queue,     \* the job channel
    inFlight,  \* inFlightBytes
    at,        \* the job each worker has taken
    exited,    \* workers that left their loop
    open,      \* the channel is not closed
    serving,   \* the HTTP server takes requests
    alive      \* the process runs

poolVars == <<stage, queue, inFlight, at, exited, open, serving, alive>>
serverVars == <<open, serving, alive>>

\* A job holds its weight from reserve to release.
Holding == {"reserved", "full", "queued", "raw", "ident", "captured"}
\* Admit answered RejectNone, and processJob has not ended.
Accepted == {"queued", "raw", "ident"}
Processed == {"captured", "done"}
Stage == {"out", "handling", "dropped", "done"} \cup Holding

PoolInit ==
    /\ stage = [j \in Job |-> "out"]
    /\ queue = <<>>
    /\ inFlight = 0
    /\ at = [w \in Worker |-> NoJob]
    /\ exited = {}
    /\ open = TRUE /\ serving = TRUE /\ alive = TRUE

Becomes(j, st) == stage' = [stage EXCEPT ![j] = st]

\* A request arrives; its handler comes to Admit later (the proxy's after the
\* upstream answered, a streamed one from a goroutine of its own).
Arrive(j) ==
    /\ alive
    /\ serving
    /\ stage[j] = "out"
    /\ Becomes(j, "handling")
    /\ UNCHANGED <<queue, inFlight, at, exited, serverVars>>

(***************************************************************************)
(* Admit.                                                                  *)
(***************************************************************************)

\* reserve: the byte budget, under the mutex.
Reserve(j) ==
    /\ alive
    /\ stage[j] = "handling"
    /\ IF Weight[j] > 0 /\ inFlight + Weight[j] > ByteBudget
       THEN Becomes(j, "dropped") /\ UNCHANGED inFlight
       ELSE Becomes(j, "reserved") /\ inFlight' = inFlight + Weight[j]
    /\ UNCHANGED <<queue, at, exited, serverVars>>

\* The select: send, or fall through when the channel is full.  A send on a
\* closed channel panics, and nothing recovers it.
Send(j) ==
    /\ alive
    /\ stage[j] = "reserved"
    /\ IF ~open THEN alive' = FALSE /\ UNCHANGED <<stage, queue>>
       ELSE /\ UNCHANGED alive
            /\ IF Len(queue) < QueueSize
               THEN Becomes(j, "queued") /\ queue' = Append(queue, j)
               ELSE Becomes(j, "full") /\ UNCHANGED queue
    /\ UNCHANGED <<inFlight, at, exited, open, serving>>

\* Mutation of ReleaseFull: the rejected job keeps its reservation.
ReleaseFullLeaks(j) ==
    /\ alive
    /\ stage[j] = "full"
    /\ Becomes(j, "dropped")
    /\ UNCHANGED <<queue, inFlight, at, exited, serverVars>>

\* The default branch gives the reservation back.
ReleaseFull(j) ==
    /\ alive
    /\ stage[j] = "full"
    /\ Becomes(j, "dropped")
    /\ inFlight' = inFlight - Weight[j]
    /\ UNCHANGED <<queue, at, exited, serverVars>>

(***************************************************************************)
(* worker.                                                                 *)
(***************************************************************************)

\* The range over the channel takes the next job, closed or not.
Take(w) ==
    /\ alive
    /\ at[w] = NoJob /\ w \notin exited
    /\ queue # <<>>
    /\ at' = [at EXCEPT ![w] = Head(queue)]
    /\ queue' = Tail(queue)
    /\ Becomes(Head(queue), "raw")
    /\ UNCHANGED <<inFlight, exited, serverVars>>

\* processJob on a turn without nodes stops here.
SkipJob(w) ==
    /\ alive
    /\ at[w] # NoJob
    /\ stage[at[w]] = "raw"
    /\ Becomes(at[w], "captured")
    /\ UNCHANGED <<queue, inFlight, at, exited, serverVars>>

\* persistRawTurn ends, written or logged.
PersistRawTurn(w) ==
    /\ alive
    /\ at[w] # NoJob
    /\ stage[at[w]] = "raw"
    /\ Becomes(at[w], "ident")
    /\ UNCHANGED <<queue, inFlight, at, exited, serverVars>>

\* ingestSession ends, written or logged.
IngestSession(w) ==
    /\ alive
    /\ at[w] # NoJob
    /\ stage[at[w]] = "ident"
    /\ Becomes(at[w], "captured")
    /\ UNCHANGED <<queue, inFlight, at, exited, serverVars>>

\* The worker releases the weight and goes back to the channel.
ReleaseJob(w) ==
    /\ alive
    /\ at[w] # NoJob
    /\ stage[at[w]] = "captured"
    /\ inFlight' = inFlight - Weight[at[w]]
    /\ Becomes(at[w], "done")
    /\ at' = [at EXCEPT ![w] = NoJob]
    /\ UNCHANGED <<queue, exited, serverVars>>

\* Mutation of Exit: the worker leaves at the close, not at the drain.
ExitAtClose(w) ==
    /\ alive
    /\ at[w] = NoJob /\ w \notin exited
    /\ ~open
    /\ exited' = exited \cup {w}
    /\ UNCHANGED <<stage, queue, inFlight, at, serverVars>>

\* The range ends when the channel is closed and drained.
Exit(w) ==
    /\ alive
    /\ at[w] = NoJob /\ w \notin exited
    /\ ~open /\ queue = <<>>
    /\ exited' = exited \cup {w}
    /\ UNCHANGED <<stage, queue, inFlight, at, serverVars>>

(***************************************************************************)
(* Close of the proxy and of the ingest server: first the pool, then the   *)
(* HTTP server.                                                            *)
(***************************************************************************)

ClosePool ==
    /\ alive
    /\ open
    /\ open' = FALSE
    /\ UNCHANGED <<stage, queue, inFlight, at, exited, serving, alive>>

\* Mutation of Shutdown: it does not wait for the workers.
ShutdownEarly ==
    /\ alive
    /\ ~open /\ serving
    /\ serving' = FALSE
    /\ UNCHANGED <<stage, queue, inFlight, at, exited, open, alive>>

\* wg.Wait returns, server.Shutdown.
Shutdown ==
    /\ alive
    /\ ~open /\ serving
    /\ exited = Worker
    /\ serving' = FALSE
    /\ UNCHANGED <<stage, queue, inFlight, at, exited, open, alive>>

----------------------------------------------------------------------------
HandlerStep(j) == Arrive(j) \/ Reserve(j) \/ Send(j) \/ ReleaseFull(j)
WorkerStep(w) == \/ Take(w) \/ SkipJob(w) \/ PersistRawTurn(w) \/ IngestSession(w)
                 \/ ReleaseJob(w) \/ Exit(w)

PoolNext ==
    \/ \E j \in Job : HandlerStep(j)
    \/ \E w \in Worker : WorkerStep(w)
    \/ ClosePool \/ Shutdown

PoolSpec == PoolInit /\ [][PoolNext]_poolVars

\* The goroutines of the pool are scheduled; no request and no Close is owed.
PoolFairSpec == PoolSpec /\ \A w \in Worker : WF_poolVars(WorkerStep(w))

----------------------------------------------------------------------------
\* The reserved bytes are exactly those of the jobs that hold a reservation,
\* and within the budget, whatever handlers and workers interleave: a job gives
\* its weight back once, on every path (Admit, reserve, release).
BytesAccounted ==
    /\ stage \in [Job -> Stage]
    /\ inFlight = SumFunctionOnSet(Weight, {j \in Job : stage[j] \in Holding})
    /\ inFlight <= ByteBudget

\* When the pool's Close has returned, every accepted job has been through
\* processJob (Pool.Close: "waits for in-flight jobs to drain").
ClosedIsDrained == ~serving => \A j \in Job : stage[j] \notin Accepted

\* A job the pool accepted is processed, before or after Close, unless the
\* process goes down under it.
QueuedIsProcessed ==
    \A j \in Job : stage[j] = "queued" ~> (stage[j] \in Processed \/ ~alive)

\* What the pool took it processes and gives back, to the byte (Pool).
PoolGivesBack == []BytesAccounted /\ QueuedIsProcessed

\* A graceful shutdown processes every accepted job (ingest.Server.Close:
\* "gracefully shuts down the server and waits for the worker pool to drain").
CloseIsGraceful == \A j \in Job : stage[j] = "queued" ~> stage[j] \in Processed

=============================================================================
