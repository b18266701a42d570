----------------------------- MODULE Processes -----------------------------
(***************************************************************************)
(* The life of the processes: run() of the API (src/cmd/api/main.go) and   *)
(* of the worker (src/cmd/worker/main.go), from the first connection to    *)
(* the last deferred call, and the supervisor that starts them again.      *)
(*                                                                         *)
(* A process opens its resources one by one, and returns at the first      *)
(* error; the deferred calls close what was opened in the reverse order.   *)
(* Several replicas start at once against one object store and one broker. *)
(* What a request or a task does while it runs is in module Avatars.       *)
(***************************************************************************)
EXTENDS Naturals, Sequences, SequencesExt, Functions

CONSTANTS
    Apis,          \* replicas of the API
    Workers,       \* replicas of the worker
    MaxRequests,   \* bound: requests in flight in one API process
    MaxFaults      \* bound: failed calls, lost connections, signals and kills

ASSUME ProcessesAssumption ==
    /\ Apis \intersect Workers = {}
    /\ MaxRequests \in Nat \ {0}
    /\ MaxFaults \in Nat

Processes == Apis \union Workers

VARIABLES
    stage,         \* where run() is
    held,          \* resources with a deferred call, oldest first
    declared,      \* how much of the topology Declare has declared
    connected,     \* the AMQP connection is alive
    requests,      \* requests in flight; deliveries being handled
    signalled,     \* sigCtx is done
    outcome,       \* how run() came to its end
    bucket,        \* the bucket exists
    topology,      \* what exists at the broker
    faults

processVars == <<stage, held, declared, connected, requests, signalled, outcome>>
vars == <<processVars, bucket, topology, faults>>

\* Declare: exchanges, queues and bindings in the order they are declared; all durable.
Topology ==
    <<"dlx", "direct", "processing", "retry binding", "upload binding",
      "retry.30s", "retry.2m", "dlq", "dlq binding">>

\* The resources in the order they are opened.
Resources == <<"telemetry", "database", "queue", "signals">>

Stages ==
    {"down", "telemetry", "database", "head", "create", "dial", "declare", "start",
     "serve", "shutdown", "return"}

Outcomes == {"none", "failed", "timeout", "graceful"}

Init ==
    /\ stage = [p \in Processes |-> "down"]
    /\ held = [p \in Processes |-> <<>>]
    /\ declared = [p \in Processes |-> 0]
    /\ connected = [p \in Processes |-> FALSE]
    /\ requests = [p \in Processes |-> 0]
    /\ signalled = [p \in Processes |-> FALSE]
    /\ outcome = [p \in Processes |-> "none"]
    /\ bucket = FALSE
    /\ topology = {}
    /\ faults = 0

-----------------------------------------------------------------------------
To(p, next) == stage' = [stage EXCEPT ![p] = next]

\* run() returns, and the deferred calls begin.
Return(p, how) ==
    /\ To(p, "return")
    /\ outcome' = [outcome EXCEPT ![p] = how]

\* Something goes wrong that no process does.
Fault == faults < MaxFaults /\ faults' = faults + 1

Open(p, resource) == held' = [held EXCEPT ![p] = Append(@, resource)]

-----------------------------------------------------------------------------
(***************************************************************************)
(* Start-up.                                                               *)
(***************************************************************************)

\* The supervisor (restart: unless-stopped; a ReplicaSet) starts a process that has
\* ended, whatever its exit code.
Start(p) ==
    /\ stage[p] = "down"
    /\ To(p, "telemetry")
    /\ outcome' = [outcome EXCEPT ![p] = "none"]
    /\ UNCHANGED <<held, declared, connected, requests, signalled, bucket, topology, faults>>

\* telemetry.Init: its exporters connect lazily; an error leaves nothing deferred.
InitTelemetry(p) ==
    /\ stage[p] = "telemetry"
    /\ \/ /\ Open(p, "telemetry")
          /\ To(p, "database")
          /\ UNCHANGED <<outcome, faults>>
       \/ Fault /\ Return(p, "failed") /\ UNCHANGED held
    /\ UNCHANGED <<declared, connected, requests, signalled, bucket, topology>>

\* NewPostgresStorage: open and ping.  The API goes on with the bucket, the worker
\* with the broker.
OpenStorage(p) ==
    /\ stage[p] = "database"
    /\ \/ /\ Open(p, "database")
          /\ To(p, IF p \in Apis THEN "head" ELSE "dial")
          /\ UNCHANGED <<outcome, faults>>
       \/ Fault /\ Return(p, "failed") /\ UNCHANGED held
    /\ UNCHANGED <<declared, connected, requests, signalled, bucket, topology>>

\* Mutation of HeadBucket: an error of HeadBucket ends EnsureBucket.
HeadBucketFatal(p) ==
    /\ stage[p] = "head"
    /\ IF bucket THEN To(p, "dial") /\ UNCHANGED outcome ELSE Return(p, "failed")
    /\ UNCHANGED <<held, declared, connected, requests, signalled, bucket, topology, faults>>

\* EnsureBucket, first call: any error, not only "not found", leads to the second.
HeadBucket(p) ==
    /\ stage[p] = "head"
    /\ \/ /\ To(p, IF bucket THEN "dial" ELSE "create")
          /\ UNCHANGED faults
       \/ Fault /\ To(p, "create")
    /\ UNCHANGED <<held, declared, connected, requests, signalled, outcome, bucket, topology>>

\* EnsureBucket, second call: refused when another replica has created the bucket since.
CreateBucket(p) ==
    /\ stage[p] = "create"
    /\ \/ /\ ~bucket
          /\ bucket' = TRUE
          /\ To(p, "dial")
          /\ UNCHANGED <<outcome, faults>>
       \/ /\ bucket
          /\ Return(p, "failed")
          /\ UNCHANGED <<bucket, faults>>
       \/ Fault /\ Return(p, "failed") /\ UNCHANGED bucket
    /\ UNCHANGED <<held, declared, connected, requests, signalled, topology>>

\* Connect: the connection and its channel.
Dial(p) ==
    /\ stage[p] = "dial"
    /\ \/ /\ connected' = [connected EXCEPT ![p] = TRUE]
          /\ declared' = [declared EXCEPT ![p] = 0]
          /\ To(p, "declare")
          /\ UNCHANGED <<outcome, faults>>
       \/ Fault /\ Return(p, "failed") /\ UNCHANGED <<connected, declared>>
    /\ UNCHANGED <<held, requests, signalled, bucket, topology>>

\* Mutation of Declare: errors are ignored.
DeclareIgnoringErrors(p) ==
    /\ stage[p] = "declare"
    /\ IF declared[p] = Len(Topology)
       THEN Open(p, "queue") /\ To(p, "start") /\ UNCHANGED <<declared, topology>>
       ELSE /\ declared' = [declared EXCEPT ![p] = @ + 1]
            /\ topology' = IF connected[p] THEN topology \union {Topology[declared[p] + 1]}
                                           ELSE topology
            /\ UNCHANGED <<stage, held>>
    /\ UNCHANGED <<connected, requests, signalled, outcome, bucket, faults>>

\* Declare: one call at a time; redeclaring changes nothing.  At an error Connect closes
\* what it has opened itself and what has been declared stays.
Declare(p) ==
    /\ stage[p] = "declare"
    /\ \/ /\ connected[p]
          /\ declared[p] < Len(Topology)
          /\ declared' = [declared EXCEPT ![p] = @ + 1]
          /\ topology' = topology \union {Topology[declared[p] + 1]}
          /\ UNCHANGED <<stage, held, connected, outcome>>
       \/ /\ declared[p] = Len(Topology)
          /\ Open(p, "queue")
          /\ To(p, "start")
          /\ UNCHANGED <<declared, topology, connected, outcome>>
       \/ /\ ~connected[p]
          /\ declared[p] < Len(Topology)
          /\ Return(p, "failed")
          /\ UNCHANGED <<declared, topology, connected, held>>
    /\ UNCHANGED <<requests, signalled, bucket, faults>>

\* NotifyContext, then ListenAndServe, or the URL of the broker's management, Qos and
\* Consume, which fail on a dead connection; the API notices nothing.
Serve(p) ==
    /\ stage[p] = "start"
    /\ Open(p, "signals")
    /\ \/ /\ p \in Workers => connected[p]
          /\ To(p, "serve")
          /\ UNCHANGED <<outcome, faults>>
       \/ /\ p \in Workers
          /\ \/ ~connected[p] /\ UNCHANGED faults
             \/ Fault
          /\ Return(p, "failed")
    /\ UNCHANGED <<declared, connected, requests, signalled, bucket, topology>>

-----------------------------------------------------------------------------
(***************************************************************************)
(* Requests and deliveries.                                                *)
(***************************************************************************)

\* A request is accepted; the consumer's select takes a delivery, also when the signal
\* has come: it chooses among the ready cases at random.
Receive(p) ==
    /\ stage[p] = "serve"
    /\ IF p \in Apis THEN requests[p] < MaxRequests ELSE requests[p] = 0 /\ connected[p]
    /\ requests' = [requests EXCEPT ![p] = @ + 1]
    /\ UNCHANGED <<stage, held, declared, connected, signalled, outcome, bucket, topology, faults>>

Finish(p) ==
    /\ stage[p] # "down"
    /\ requests[p] > 0
    /\ requests' = [requests EXCEPT ![p] = @ - 1]
    /\ UNCHANGED <<stage, held, declared, connected, signalled, outcome, bucket, topology, faults>>

-----------------------------------------------------------------------------
(***************************************************************************)
(* The end.                                                                *)
(***************************************************************************)

\* The select of the API: the server has failed, and run returns without Shutdown, or a
\* signal has come, and Shutdown closes the listener.
LeaveSelect(p) ==
    /\ p \in Apis
    /\ stage[p] = "serve"
    /\ \/ signalled[p] /\ To(p, "shutdown") /\ UNCHANGED <<outcome, faults>>
       \/ Fault /\ Return(p, "failed")
    /\ UNCHANGED <<held, declared, connected, requests, signalled, bucket, topology>>

\* Mutation of LeaveConsume: the closed channel of deliveries is not noticed.
LeaveConsumeOnSignal(p) ==
    /\ p \in Workers
    /\ stage[p] = "serve"
    /\ requests[p] = 0
    /\ signalled[p]
    /\ To(p, "shutdown")
    /\ UNCHANGED <<held, declared, connected, requests, signalled, outcome, bucket, topology,
                   faults>>

\* Consume returns, between two deliveries: the context is done, or the library has
\* closed the channel of deliveries with the connection.
LeaveConsume(p) ==
    /\ p \in Workers
    /\ stage[p] = "serve"
    /\ requests[p] = 0
    /\ signalled[p] \/ ~connected[p]
    /\ To(p, "shutdown")
    /\ UNCHANGED <<held, declared, connected, requests, signalled, outcome, bucket, topology,
                   faults>>

\* Mutation of Shutdown: no deadline.
ShutdownPatient(p) ==
    /\ stage[p] = "shutdown"
    /\ requests[p] = 0
    /\ Return(p, "graceful")
    /\ UNCHANGED <<held, declared, connected, requests, signalled, bucket, topology, faults>>

\* Mutation of Shutdown: Close in its place, which waits for nobody.
ShutdownAtOnce(p) ==
    /\ stage[p] = "shutdown"
    /\ Return(p, "graceful")
    /\ UNCHANGED <<held, declared, connected, requests, signalled, bucket, topology, faults>>

\* Shutdown of the server, or of the worker's metrics server, whose requests are not
\* modelled: every request has ended, or the five seconds have.
Shutdown(p) ==
    /\ stage[p] = "shutdown"
    /\ \/ requests[p] = 0 /\ Return(p, "graceful")
       \/ (requests[p] > 0 \/ p \in Workers) /\ Return(p, "timeout")
    /\ UNCHANGED <<held, declared, connected, requests, signalled, bucket, topology, faults>>

\* Mutation of Close: the resource that was opened first is closed first.
CloseOldest(p) ==
    /\ stage[p] = "return"
    /\ held[p] # <<>>
    /\ held' = [held EXCEPT ![p] = Tail(@)]
    /\ UNCHANGED <<stage, declared, connected, requests, signalled, outcome, bucket, topology,
                   faults>>

\* One deferred call.  Without the handler of signals the next signal kills.
Close(p) ==
    /\ stage[p] = "return"
    /\ held[p] # <<>>
    /\ held' = [held EXCEPT ![p] = Front(@)]
    /\ connected' = [connected EXCEPT ![p] = @ /\ Last(held[p]) # "queue"]
    /\ UNCHANGED <<stage, declared, requests, signalled, outcome, bucket, topology, faults>>

\* What is left of a process: nothing.  Requests in flight are cut off.
Ended(p) ==
    /\ To(p, "down")
    /\ held' = [held EXCEPT ![p] = <<>>]
    /\ connected' = [connected EXCEPT ![p] = FALSE]
    /\ requests' = [requests EXCEPT ![p] = 0]
    /\ signalled' = [signalled EXCEPT ![p] = FALSE]
    /\ UNCHANGED <<declared, bucket, topology>>

\* os.Exit(run()).
Exit(p) ==
    /\ stage[p] = "return"
    /\ held[p] = <<>>
    /\ Ended(p)
    /\ UNCHANGED <<outcome, faults>>

-----------------------------------------------------------------------------
(***************************************************************************)
(* Faults.                                                                 *)
(***************************************************************************)

\* SIGTERM or SIGINT: it cancels sigCtx while the handler of signals is installed, and
\* kills the process before and after.
Signal(p) ==
    /\ stage[p] # "down"
    /\ Fault
    /\ IF "signals" \in Range(held[p])
       THEN /\ signalled' = [signalled EXCEPT ![p] = TRUE]
            /\ UNCHANGED <<stage, held, declared, connected, requests, outcome, bucket, topology>>
       ELSE Ended(p) /\ UNCHANGED outcome

\* SIGKILL, out of memory, the loss of the machine.
Kill(p) ==
    /\ stage[p] # "down"
    /\ Fault
    /\ Ended(p)
    /\ UNCHANGED outcome

LoseConnection(p) ==
    /\ connected[p]
    /\ Fault
    /\ connected' = [connected EXCEPT ![p] = FALSE]
    /\ UNCHANGED <<stage, held, declared, requests, signalled, outcome, bucket, topology>>

-----------------------------------------------------------------------------
StartUp(p) ==
    \/ InitTelemetry(p) \/ OpenStorage(p) \/ HeadBucket(p) \/ CreateBucket(p)
    \/ Dial(p) \/ Declare(p) \/ Serve(p)

End(p) == LeaveSelect(p) \/ LeaveConsume(p) \/ Shutdown(p) \/ Close(p) \/ Exit(p)

Next ==
    \E p \in Processes :
        \/ Start(p) \/ StartUp(p) \/ Receive(p) \/ Finish(p) \/ End(p)
        \/ Signal(p) \/ Kill(p) \/ LoseConnection(p)

\* The supervisor starts what has ended; a process that can go on does; a delivery is
\* handled to its end; and the consumer's select, which chooses at random, does not
\* take another delivery for ever.  A request need not end: the server reads and
\* writes without a deadline.
Fairness ==
    /\ \A p \in Processes : WF_vars(Start(p) \/ StartUp(p)) /\ WF_vars(End(p))
    /\ \A w \in Workers : WF_vars(Finish(w)) /\ SF_vars(LeaveConsume(w))

Spec == Init /\ [][Next]_vars

FairSpec == Spec /\ Fairness

-----------------------------------------------------------------------------
(***************************************************************************)
(* Properties.                                                             *)
(***************************************************************************)

\* Type invariant.  What a process holds is a prefix of the order of opening: it never
\* closes a resource (main.go, deferred calls) before one that was built on it.
ProcessesTypeOK ==
    /\ stage \in [Processes -> Stages]
    /\ \A p \in Processes : IsPrefix(held[p], Resources)
    /\ declared \in [Processes -> 0..Len(Topology)]
    /\ connected \in [Processes -> BOOLEAN]
    /\ requests \in [Processes -> 0..MaxRequests]
    /\ signalled \in [Processes -> BOOLEAN]
    /\ outcome \in [Processes -> Outcomes]
    /\ bucket \in BOOLEAN
    /\ topology \subseteq Range(Topology)
    /\ faults \in 0..MaxFaults

\* Where uploads are accepted, the bucket and every exchange, queue and binding exist,
\* and where tasks are consumed too, in whatever order replicas start, fail half-way
\* through Declare and start again: no task is published into a missing binding.
ServesOnTopology ==
    \A p \in Processes : stage[p] = "serve" =>
        /\ topology = Range(Topology)
        /\ p \in Apis => bucket

\* A request or delivery that is running has the database and the broker's channel open
\* (channel still open on our side), unless the deadline of Shutdown has passed or the
\* server has failed; and a process that stopped gracefully cut off none.
NothingCutOff ==
    \A p \in Processes : requests[p] > 0 =>
        \/ {"database", "queue"} \subseteq Range(held[p]) /\ outcome[p] # "graceful"
        \/ p \in Apis /\ outcome[p] \in {"timeout", "failed"}

\* Once calls have stopped failing, every process comes up and stays up, whoever wins
\* the race for the bucket (EnsureBucket fails in the loser, which is started again).
EverybodyServes == \A p \in Processes : <>[](stage[p] = "serve")

\* A worker that has lost its connection gets a new one: it ends, with exit code 0, and
\* is started again.  (An API that has lost its own serves on without.)
WorkersReconnect == \A w \in Workers : <>[](connected[w])

\* A process that has been asked to stop does, requests that never end or not.
SignalsEndProcesses == \A p \in Processes : signalled[p] ~> stage[p] = "down"
=============================================================================
