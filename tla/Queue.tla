------------------------------- MODULE Queue -------------------------------
(***************************************************************************)
(* The task queue of the avatar service (src/internal/queue): the RabbitMQ *)
(* topology, the publisher of the API, and the consumer of the worker with *)
(* its idempotency check, its retries and its dead-letter queue.           *)
(*                                                                         *)
(* The broker is external; it is modelled by what the code asks of it: a   *)
(* direct exchange per binding, FIFO queues, a TTL that dead-letters the   *)
(* head of a retry queue, one unacknowledged delivery per consumer (Qos 1),*)
(* and redelivery of what a vanished consumer had not acknowledged.        *)
(*                                                                         *)
(* What the DeliveryHandler does is left open here: it returns nil or an   *)
(* error.  Module Avatars puts worker.Service.Handle in its place.         *)
(***************************************************************************)
EXTENDS Naturals, FiniteSets

CONSTANTS
    Messages,      \* message ids (AvatarProcessMessage.MessageID)
    Malformed,     \* ids of foreign messages whose body is not valid JSON
    Workers,       \* worker processes, one Consumer each
    NoDelivery,    \* what a worker holds while it waits in Consume's select
    FaultKinds,    \* what may go wrong: "db", "crash", "signal", "connection", "publisher"
    MaxFaults,     \* bound: how often it may
    MaxRestarts    \* bound: broker restarts

ASSUME QueueAssumption ==
    /\ Malformed \subseteq Messages
    /\ IsFiniteSet(Workers)
    /\ NoDelivery \notin [pos: Nat, queue: STRING, id: Messages, retry: Nat, mode: STRING]
    /\ MaxFaults \in Nat
    /\ MaxRestarts \in Nat

VARIABLES
    copies,        \* the broker's messages, each in one queue at one position
    nextPos,       \* position the next published message gets
    unacked,       \* workers whose delivery the broker still counts as unacked
    publisher,     \* "open" or "closed": the API's channel
    open,          \* workers whose channel is usable
    stopping,      \* workers whose context is cancelled (SIGTERM)
    pc,            \* where handleDelivery stands, per worker
    delivery,      \* the copy each worker is handling
    processed,     \* rows of the processed_messages table
    published,     \* history: ids for which Publish put a message in a queue
    failures,      \* history: handler errors per id
    faults,        \* number of faults so far
    restarts       \* number of broker restarts so far

brokerVars == <<copies, nextPos, unacked, publisher, open, restarts>>
consumerVars == <<stopping, pc, delivery>>
historyVars == <<published, failures>>
queueVars == <<brokerVars, consumerVars, processed, historyVars, faults>>

(***************************************************************************)
(* Topology (Declare).                                                     *)
(***************************************************************************)
ExchangeDefault == ""
ExchangeDirect == "avatars.direct"
ExchangeDLX == "avatars.dlx"
QueueProcessing == "avatars.processing"
QueueRetry30s == "avatars.retry.30s"
QueueRetry2m == "avatars.retry.2m"
QueueDLQ == "avatars.dlq"
RoutingUpload == "avatar.upload"
RoutingRetry == "retry"
RoutingDLQ == "dlq"

Queues == {QueueProcessing, QueueRetry30s, QueueRetry2m, QueueDLQ}
RetryQueues == {QueueRetry30s, QueueRetry2m}

\* QueueBind: the default exchange routes by queue name.
Route(exchange, key) ==
    CASE exchange = ExchangeDefault -> key
      [] exchange = ExchangeDirect /\ key = RoutingUpload -> QueueProcessing
      [] exchange = ExchangeDLX /\ key = RoutingRetry -> QueueProcessing
      [] exchange = ExchangeDLX /\ key = RoutingDLQ -> QueueDLQ

\* x-dead-letter-exchange and x-dead-letter-routing-key of a queue.
DeadLetterQueue(q) ==
    Route(ExchangeDLX, IF q = QueueProcessing THEN RoutingDLQ ELSE RoutingRetry)

(***************************************************************************)
(* Messages.  retry is the x-retry-count header, 0 when it is absent.      *)
(***************************************************************************)
Modes == {"persistent", "transient"}

Copy == [pos: Nat, queue: Queues, id: Messages, retry: 0..2, mode: Modes]

CopyAt(q, m, r, mode) ==
    [pos |-> nextPos, queue |-> q, id |-> m, retry |-> r, mode |-> mode]

\* A queue is dead-lettered into at its tail and keeps headers and delivery mode.
DeadLettered(c) ==
    CopyAt(DeadLetterQueue(c.queue), c.id, c.retry, c.mode)

\* Mutation of RetryCount: the header's integer type is not recognised.
RetryCountUnread(c) == 0

RetryCount(c) == c.retry

\* Mutation of RetryCopy: the second failure goes to the dead-letter queue.
RetryCopyOneRetry(m, retryCount) ==
    CASE retryCount = 1 -> CopyAt(Route(ExchangeDefault, QueueRetry30s), m, 1, "transient")
      [] OTHER -> CopyAt(Route(ExchangeDLX, RoutingDLQ), m, 0, "transient")

\* Mutation of RetryCopy: the dead-letter queue gets the header as well.
RetryCopyCountsDeadLetters(m, retryCount) ==
    CASE retryCount = 1 -> CopyAt(Route(ExchangeDefault, QueueRetry30s), m, 1, "transient")
      [] retryCount = 2 -> CopyAt(Route(ExchangeDefault, QueueRetry2m), m, 2, "transient")
      [] OTHER -> CopyAt(Route(ExchangeDLX, RoutingDLQ), m, retryCount, "transient")

\* The message that SendToRetry publishes for the retryCount-th failure: the two
\* retry queues carry the count, the dead-letter queue carries no header; none
\* of them asks for persistence.
RetryCopy(m, retryCount) ==
    CASE retryCount = 1 -> CopyAt(Route(ExchangeDefault, QueueRetry30s), m, 1, "transient")
      [] retryCount = 2 -> CopyAt(Route(ExchangeDefault, QueueRetry2m), m, 2, "transient")
      [] OTHER -> CopyAt(Route(ExchangeDLX, RoutingDLQ), m, 0, "transient")

\* The copies of a queue that no consumer holds, and the first of them.
Ready(q) == {c \in copies : c.queue = q /\ \A w \in unacked : delivery[w] # c}
IsHead(c, q) == c \in Ready(q) /\ \A d \in Ready(q) : c.pos <= d.pos

(***************************************************************************)
(* Calls.  A call of the worker returns "ok", or an error: with "err" it   *)
(* had no effect, with "lost" it took effect and only the answer is        *)
(* missing.  A cancelled context makes every later call of it fail.        *)
(***************************************************************************)
Outcomes == {"ok", "err", "lost"}
Effective(o) == o # "err"

Fault(kind) ==
    /\ kind \in FaultKinds
    /\ faults < MaxFaults
    /\ faults' = faults + 1

Answers(w, o) ==
    \/ o = "ok" /\ w \notin stopping /\ UNCHANGED faults
    \/ o # "ok" /\ w \in stopping /\ UNCHANGED faults
    \/ o # "ok" /\ w \notin stopping /\ Fault("db")

(***************************************************************************)
(* Publisher (API side).                                                   *)
(***************************************************************************)

\* PublishAvatarProcess reaches the broker (see PublisherLost for when it does not).
PublishAvatarProcess(m) ==
    /\ publisher = "open"
    /\ m \notin published
    /\ copies' = copies \union
         {CopyAt(Route(ExchangeDirect, RoutingUpload), m, 0, "persistent")}
    /\ nextPos' = nextPos + 1
    /\ published' = published \union {m}
    /\ UNCHANGED <<unacked, publisher, open, restarts, consumerVars, processed,
                   failures, faults>>

\* queue.Connect runs once, at start-up: only a new API process gets a new channel.
PublisherRestart ==
    /\ publisher = "closed"
    /\ publisher' = "open"
    /\ UNCHANGED <<copies, nextPos, unacked, open, restarts, consumerVars, processed,
                   historyVars, faults>>

\* The API's connection breaks; nothing in the API notices or reconnects.
PublisherLost ==
    /\ publisher = "open"
    /\ Fault("publisher")
    /\ publisher' = "closed"
    /\ UNCHANGED <<copies, nextPos, unacked, open, restarts, consumerVars, processed,
                   historyVars>>

(***************************************************************************)
(* Consumer (worker side).                                                 *)
(***************************************************************************)

\* handleDelivery has returned: the worker is back in Consume's select.
Return(w) ==
    /\ pc' = [pc EXCEPT ![w] = "receive"]
    /\ delivery' = [delivery EXCEPT ![w] = NoDelivery]

Goto(w, label) == pc' = [pc EXCEPT ![w] = label] /\ UNCHANGED delivery

\* On a closed channel Ack and Nack return an error that the code ignores.
Ack(w) ==
    /\ copies' = IF w \in unacked THEN copies \ {delivery[w]} ELSE copies
    /\ unacked' = unacked \ {w}
    /\ UNCHANGED nextPos

\* Mutation of NackRequeue: the requeue flag is false.
NackForgets(w) ==
    /\ copies' = IF w \in unacked THEN copies \ {delivery[w]} ELSE copies
    /\ unacked' = unacked \ {w}
    /\ UNCHANGED nextPos

NackRequeue(w) == unacked' = unacked \ {w} /\ UNCHANGED <<copies, nextPos>>

NackDrop(w) ==
    /\ IF w \in unacked
         THEN /\ copies' = (copies \ {delivery[w]}) \union {DeadLettered(delivery[w])}
              /\ nextPos' = nextPos + 1
         ELSE UNCHANGED <<copies, nextPos>>
    /\ unacked' = unacked \ {w}

\* Consume: with prefetch 1 the broker delivers the head of the queue.  A cancelled
\* context does not prevent it: select picks either ready case.
Deliver(w) ==
    /\ pc[w] = "receive"
    /\ w \in open
    /\ \E c \in copies :
         /\ IsHead(c, QueueProcessing)
         /\ delivery' = [delivery EXCEPT ![w] = c]
    /\ pc' = [pc EXCEPT ![w] = "decode"]
    /\ unacked' = unacked \union {w}
    /\ UNCHANGED <<copies, nextPos, publisher, open, restarts, stopping, processed,
                   historyVars, faults>>

\* json.Unmarshal fails: the message goes to the dead-letter exchange.
RejectMalformed(w) ==
    /\ pc[w] = "decode"
    /\ delivery[w].id \in Malformed
    /\ NackDrop(w)
    /\ Return(w)
    /\ UNCHANGED <<publisher, open, restarts, stopping, processed, historyVars, faults>>

\* Mutation of IsProcessed: the answer is not looked at.
IsProcessedUnchecked(w) ==
    /\ pc[w] = "decode"
    /\ delivery[w].id \notin Malformed
    /\ \E o \in {"ok", "err"} :
         /\ Answers(w, o)
         /\ \/ o = "err" /\ NackRequeue(w) /\ Return(w)
            \/ o = "ok" /\ Goto(w, "handle") /\ UNCHANGED <<copies, nextPos, unacked>>
    /\ UNCHANGED <<publisher, open, restarts, stopping, processed, historyVars>>

\* The idempotency check: skip what is already in processed_messages.
IsProcessed(w) ==
    /\ pc[w] = "decode"
    /\ delivery[w].id \notin Malformed
    /\ \E o \in {"ok", "err"} :
         /\ Answers(w, o)
         /\ \/ o = "err" /\ NackRequeue(w) /\ Return(w)
            \/ o = "ok" /\ delivery[w].id \in processed /\ Ack(w) /\ Return(w)
            \/ /\ o = "ok"
               /\ delivery[w].id \notin processed
               /\ Goto(w, "handle")
               /\ UNCHANGED <<copies, nextPos, unacked>>
    /\ UNCHANGED <<publisher, open, restarts, stopping, processed, historyVars>>

\* The DeliveryHandler returns nil or an error.
HandlerReturns(w, failed) ==
    /\ pc[w] = "handle"
    /\ Goto(w, IF failed THEN "retry" ELSE "mark")
    /\ failures' = IF failed THEN [failures EXCEPT ![delivery[w].id] = @ + 1] ELSE failures
    /\ UNCHANGED <<brokerVars, stopping, processed, published, faults>>

\* SendToRetry(RetryCount + 1): without publisher confirms it fails only on a closed
\* channel, and then the delivery has been requeued by the broker.
SendToRetry(w) ==
    /\ pc[w] = "retry"
    /\ \/ /\ w \in open
          /\ copies' = copies \union
               {RetryCopy(delivery[w].id, RetryCount(delivery[w]) + 1)}
          /\ nextPos' = nextPos + 1
          /\ Goto(w, "ack")
          /\ UNCHANGED <<unacked, faults>>
       \/ /\ w \notin open
          /\ NackRequeue(w)
          /\ Return(w)
          /\ UNCHANGED faults
    /\ UNCHANGED <<publisher, open, restarts, stopping, processed, historyVars>>

\* Mutation of MarkProcessed: its error is ignored and the delivery acknowledged.
MarkProcessedUnchecked(w) ==
    /\ pc[w] = "mark"
    /\ \E o \in Outcomes :
         /\ Answers(w, o)
         /\ processed' = IF Effective(o) THEN processed \union {delivery[w].id} ELSE processed
    /\ Goto(w, "ack")
    /\ UNCHANGED <<brokerVars, stopping, historyVars>>

\* MarkProcessed; when it fails, the delivery is requeued.
MarkProcessed(w) ==
    /\ pc[w] = "mark"
    /\ \E o \in Outcomes :
         /\ Answers(w, o)
         /\ processed' = IF Effective(o) THEN processed \union {delivery[w].id} ELSE processed
         /\ \/ o = "ok" /\ Goto(w, "ack") /\ UNCHANGED <<copies, nextPos, unacked>>
            \/ o # "ok" /\ NackRequeue(w) /\ Return(w)
    /\ UNCHANGED <<publisher, open, restarts, stopping, historyVars>>

\* Mutation of AckDelivery: the delivery is requeued instead.
AckDeliveryRequeues(w) ==
    /\ pc[w] = "ack"
    /\ NackRequeue(w)
    /\ Return(w)
    /\ UNCHANGED <<publisher, open, restarts, stopping, processed, historyVars, faults>>

\* The Ack that ends handleDelivery after MarkProcessed or SendToRetry.
AckDelivery(w) ==
    /\ pc[w] = "ack"
    /\ Ack(w)
    /\ Return(w)
    /\ UNCHANGED <<publisher, open, restarts, stopping, processed, historyVars, faults>>

\* Mutation of ConsumeReturns: a closed deliveries channel is not noticed.
ConsumeReturnsOnSignal(w) ==
    /\ pc[w] = "receive"
    /\ w \in stopping
    /\ open' = open \union {w}
    /\ stopping' = stopping \ {w}
    /\ UNCHANGED <<copies, nextPos, unacked, publisher, restarts, pc, delivery,
                   processed, historyVars, faults>>

\* Consume returns when its context is done or the deliveries channel was closed;
\* the process then ends and its supervisor starts a new one.
ConsumeReturns(w) ==
    /\ pc[w] = "receive"
    /\ w \in stopping \/ w \notin open
    /\ open' = open \union {w}
    /\ stopping' = stopping \ {w}
    /\ UNCHANGED <<copies, nextPos, unacked, publisher, restarts, pc, delivery,
                   processed, historyVars, faults>>

(***************************************************************************)
(* Broker and environment.                                                 *)
(***************************************************************************)

\* x-message-ttl: the head of a retry queue is dead-lettered.
Expire(q) ==
    /\ \E c \in copies :
         /\ IsHead(c, q)
         /\ copies' = (copies \ {c}) \union {DeadLettered(c)}
    /\ nextPos' = nextPos + 1
    /\ UNCHANGED <<unacked, publisher, open, restarts, consumerVars, processed,
                   historyVars, faults>>

\* SIGTERM cancels the context that Consume passes to every call.
Shutdown(w) ==
    /\ w \notin stopping
    /\ Fault("signal")
    /\ stopping' = stopping \union {w}
    /\ UNCHANGED <<brokerVars, pc, delivery, processed, historyVars>>

\* The worker dies; the broker requeues its delivery and a new process connects.
Crash(w) ==
    /\ pc[w] # "receive"
    /\ Fault("crash")
    /\ Return(w)
    /\ unacked' = unacked \ {w}
    /\ open' = open \union {w}
    /\ stopping' = stopping \ {w}
    /\ UNCHANGED <<copies, nextPos, publisher, restarts, processed, historyVars>>

\* The connection breaks while the worker carries on: its delivery is requeued.
ConnectionLost(w) ==
    /\ w \in open
    /\ Fault("connection")
    /\ open' = open \ {w}
    /\ unacked' = unacked \ {w}
    /\ UNCHANGED <<copies, nextPos, publisher, restarts, consumerVars, processed,
                   historyVars>>

\* The broker restarts: only persistent messages survive in the durable queues, and
\* every connection is gone.
BrokerRestart ==
    /\ restarts < MaxRestarts
    /\ restarts' = restarts + 1
    /\ copies' = {c \in copies : c.mode = "persistent"}
    /\ unacked' = {}
    /\ open' = {}
    /\ publisher' = "closed"
    /\ UNCHANGED <<nextPos, consumerVars, processed, historyVars, faults>>

-----------------------------------------------------------------------------
QueueInit ==
    /\ copies = {}
    /\ nextPos = 0
    /\ unacked = {}
    /\ publisher = "open"
    /\ open = Workers
    /\ stopping = {}
    /\ pc = [w \in Workers |-> "receive"]
    /\ delivery = [w \in Workers |-> NoDelivery]
    /\ processed = {}
    /\ published = {}
    /\ failures = [m \in Messages |-> 0]
    /\ faults = 0
    /\ restarts = 0

\* The steps of handleDelivery outside the handler.
Consumer(w) ==
    \/ Deliver(w)
    \/ RejectMalformed(w)
    \/ IsProcessed(w)
    \/ SendToRetry(w)
    \/ MarkProcessed(w)
    \/ AckDelivery(w)

Environment ==
    \/ PublisherLost
    \/ \E q \in RetryQueues : Expire(q)
    \/ \E w \in Workers : Shutdown(w) \/ Crash(w) \/ ConnectionLost(w)
    \/ BrokerRestart

QueueNext ==
    \/ \E m \in Messages : PublishAvatarProcess(m)
    \/ PublisherRestart
    \/ \E w \in Workers :
         \/ Consumer(w)
         \/ \E failed \in BOOLEAN : HandlerReturns(w, failed)
         \/ ConsumeReturns(w)
    \/ Environment

QueueSpec == QueueInit /\ [][QueueNext]_queueVars

(***************************************************************************)
(* Fairness: a running worker goroutine proceeds and the calls it makes    *)
(* return; TTLs run out; Go's select does not ignore a ready case for      *)
(* ever, so a cancelled or disconnected consumer leaves its loop.          *)
(***************************************************************************)
QueueFairness ==
    /\ \A w \in Workers :
         /\ WF_queueVars(Consumer(w))
         /\ WF_queueVars(\E failed \in BOOLEAN : HandlerReturns(w, failed))
         /\ SF_queueVars(ConsumeReturns(w))
    /\ \A q \in RetryQueues : WF_queueVars(Expire(q))

QueueFairSpec == QueueSpec /\ QueueFairness

-----------------------------------------------------------------------------
(***************************************************************************)
(* Properties.                                                             *)
(***************************************************************************)

\* Type invariant.
QueueTypeOK ==
    /\ copies \subseteq Copy
    /\ nextPos \in Nat
    /\ unacked \subseteq Workers
    /\ publisher \in {"open", "closed"}
    /\ open \subseteq Workers
    /\ stopping \subseteq Workers
    /\ pc \in [Workers -> {"receive", "decode", "handle", "retry", "mark", "ack"}]
    /\ delivery \in [Workers -> Copy \union {NoDelivery}]
    /\ processed \subseteq Messages
    /\ published \subseteq Messages
    /\ failures \in [Messages -> Nat]
    /\ faults \in Nat
    /\ restarts \in Nat

\* handleDelivery never lets go of a task: whatever crashes, signals, lost
\* connections and failed calls happen, a published message is in
\* processed_messages or still in some queue.  Only a broker restart can lose it,
\* and only after a failed attempt (SendToRetry before Ack, MarkProcessed before Ack).
LossOnlyByRestart ==
    \A m \in published :
        \/ m \in processed
        \/ \E c \in copies : c.id = m
        \/ restarts > 0 /\ failures[m] > 0

\* A message that a broker restart would lose: the retry copies are not persistent.
NoMessageLost ==
    \A m \in published : m \in processed \/ \E c \in copies : c.id = m

\* The x-retry-count header is earned: a copy that carries the count r has failed r
\* times, each retry queue holds the attempts resolveRetryTarget sends there, and
\* only malformed messages and messages that failed three times are dead-lettered.
RetriesEarned ==
    \A c \in copies :
        /\ failures[c.id] >= c.retry
        /\ c.queue = QueueRetry30s => c.retry = 1
        /\ c.queue = QueueRetry2m => c.retry = 2
        /\ c.queue \in RetryQueues => c.id \notin Malformed
        /\ c.queue = QueueDLQ => c.id \in Malformed \/ failures[c.id] >= 3

\* The retry budget: three attempts fail per message, and three more for each event
\* that can leave both the delivery and its retry copy in the broker (a crash or a
\* lost connection between SendToRetry and Ack; a broker restart hits every worker).
RetryBudget ==
    \A m \in Messages :
        failures[m] <= 3 * (1 + faults + restarts * Cardinality(Workers))

\* The idempotency check at work: a worker that runs the handler, or is about to
\* schedule a retry, never does so for a message already in processed_messages, as
\* long as there is one worker or nothing has failed.
NoRework ==
    (Cardinality(Workers) = 1 \/ (faults = 0 /\ restarts = 0)) =>
        \A w \in Workers : pc[w] \in {"handle", "retry"} => delivery[w].id \notin processed

\* Qos(1) and manual acknowledgement keep two workers off the same task: without a
\* fault at most one worker is between the idempotency check and the outcome.  (A
\* worker about to acknowledge may be overtaken by its own retry copy.)
ExclusiveHandling ==
    (faults = 0 /\ restarts = 0) =>
        \A w, x \in Workers :
            /\ pc[w] \in {"handle", "retry", "mark"}
            /\ pc[x] \in {"handle", "retry", "mark"}
            /\ delivery[w].id = delivery[x].id
            => w = x

\* The life of a task as module TaskLedger tells it: retry queues, redeliveries,
\* duplicates and the worker that holds the message are all "queued".
Queued(m) == \E c \in copies : c.id = m /\ c.queue # QueueDLQ
Buried(m) == \E c \in copies : c.id = m /\ c.queue = QueueDLQ

StatusOf(m) ==
    CASE m \notin published -> "new"
      [] m \in published /\ m \in processed -> "done"
      [] m \in published \ processed /\ Queued(m) -> "queued"
      [] m \in published \ processed /\ ~Queued(m) /\ Buried(m) -> "dead"
      [] m \in published \ processed /\ ~Queued(m) /\ ~Buried(m) -> "lost"

taskStatus == [m \in Messages |-> StatusOf(m)]

Ledger == INSTANCE TaskLedger WITH
    Tasks <- Messages, Unreadable <- Malformed, MaxAttempts <- 3,
    status <- taskStatus, attempts <- failures

\* The queue keeps the ledger's promises, whatever happens to workers, connections,
\* database calls and the broker: no step buries a task early, takes back what is
\* done, revives what is dead or loses what has not failed.
LedgerSpec == Ledger!Spec

\* Every published task is settled: it is processed or a copy reaches the dead-letter
\* queue, through the retries and whatever the worker's faults are.
Settled ==
    \A m \in Messages :
        m \in published ~>
            (m \in processed \/ \E c \in copies : c.id = m /\ c.queue = QueueDLQ)
=============================================================================
