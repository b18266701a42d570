# A TLA+ model of the avatar service

The service stores user avatars. An API process accepts an upload, keeps the
source in an object store, writes a row to PostgreSQL and publishes a task to
RabbitMQ; a worker process resizes the picture, stores the result and marks the
row ready. Nothing spans the three stores: every handler is a chain of separate
calls, each of which may fail, fail after it took effect, or be the last one its
process makes. What holds in spite of that is what this directory states, checks
with TLC and, where it is out of TLC's bounds, proves with TLAPS.

- [Inventory](#inventory) - the parts of the code and what makes them correct
- [Modules](#modules) - which module models what, and how
- [Runs](#runs) - what each run checks, its bounds and what it shows
- [Fairness](#fairness)
- [Proofs](#proofs) - what is proved, from what, along which argument
- [Disagreements](#disagreements-between-the-code-and-its-documents)
- [Not modelled](#not-modelled) and [Plan](#plan)

Paths are relative to `src/`.

## Inventory

| part | state it keeps | operations | correct when |
|---|---|---|---|
| task queue, `internal/queue` | four RabbitMQ queues, the unacknowledged delivery of each consumer, `processed_messages` | `PublishAvatarProcess`, `Consume`/`handleDelivery` (idempotency check, handler, `SendToRetry`, `MarkProcessed`, Ack/Nack), TTL and dead-lettering as declared in `topology.go` | no task disappears, retries follow 30 s - 2 min - DLQ, nothing is redone that is recorded as done |
| worker service, `internal/worker/service.go` | none of its own | `Handle`: status, download, process, two uploads, ready, cleanup | a ready row describes one picture that is there; the source lives as long as it is needed |
| upload, get, delete, `internal/handler/handler.go` | none of its own | `UploadAvatar`, `GetAvatar`, `DeleteAvatar` | a refused upload leaves nothing behind, the last upload wins, a delete is complete |
| `/ping` and its breaker, `internal/resilience/breaker.go` | failure count, `openUntil` | `Breaker.Call` by concurrent requests | trips on consecutive failures, closes again |
| upload rate limiter, `internal/handler/ratelimit.go` | tokens, time of the last request | `allow` | the rate is bounded, refusals cost nothing |
| storage, `internal/storage` | the tables `avatars` and `processed_messages`; `MemStorage` has maps in their place | one SQL statement per method | the stand-in differs from PostgreSQL where it is known to, and nowhere else |
| object store client, `internal/objectstore` | objects `staging/<user>/<message>`, `avatars/<user>/original.png`, `.../thumb.png` | `Upload`, `Download`, `Delete`, `PresignedURL` | (through its users) |
| image processor, `internal/processor` | none | `Process` | both pictures are the source, scaled |
| router and middleware, `internal/handler/router.go`, `internal/metrics` | two request counters | limiter, routes, `HTTPMiddleware`, the deferred counter of `UploadAvatar` | the counters agree; the labels of what was handled name no user |
| processes, `cmd/api`, `cmd/worker` | the resources opened so far, the AMQP connection, the signal context; the bucket and the topology they share | start-up, serving, shutdown, deferred calls | nobody serves on half a topology, nothing is closed under work, everybody comes up and stops |
| configuration, `internal/config` | options | defaults, environment, file, flags | one precedence for all sources |
| pollers, telemetry, logger, web page, migrations, deployment files | gauges, output | - | - |

How they interact. The API and the worker share no memory: they meet in the row
(keyed by *user*), in the objects (the source is keyed by *message*, the original
and the thumbnail by *user*) and in the queue (keyed by *message*). That the key
differs from place to place is where most of the hard behaviour comes from: a
retried task of an older upload writes the row and the objects of a newer one.

The hard behaviours, each listed in `PROJECT.json` under `hazards` with its line:

- two calls where the code needs one step: publish-then-ack, mark-then-ack,
  upsert-then-publish, two uploads then ready, read-then-delete;
- a call that took effect and returned an error;
- crash or lost connection of the worker in between, restart of the broker or of
  the API, SIGTERM that cancels the context of calls under way;
- redelivery and retries that arrive after newer uploads;
- cleanup code whose own calls fail;
- two critical sections where the breaker needs one; lazy refill in the limiter;
- replicas that start at once against one bucket and one broker, and a supervisor
  in place of any code that reconnects;
- size limits, integer division and sources of options whose boundary cases meet.

## Modules

| module | models | on top of |
|---|---|---|
| `TaskLedger` | the promise of the queue for each task, without the queue (abstract) | - |
| `Queue` | `internal/queue`, `processed_messages`, the broker as the code uses it, process restarts | implements `TaskLedger` |
| `Storage` | the statements on table `avatars` as functions on tables | - |
| `Avatars` | `UploadAvatar`, `GetAvatar`, `DeleteAvatar`, `Service.Handle`, object store, API restarts | `Queue`, `Storage`; implements `QueueSpec` |
| `Breaker` | `Breaker.Call`, `Handler.Ping` | - |
| `RateLimiter` | `uploadRateLimiter.allow` | - |
| `Http` | both middlewares, the router, the checks of `UploadAvatar`, the request counters | `RateLimiter`; implements `LimiterSpec` |
| `Processes` | `run()` of the API and of the worker, `Connect`, `Declare`, `EnsureBucket`, the supervisor | - |
| `Images` | `Process`, `resizeImage` | - |
| `Config` | `internal/config` and the beginning of `run()` | - |
| `Stores` | `MemStorage` and `PostgresStorage` side by side | `Storage` |
| `MCQueue`, `MCAvatars`, `MCHttp`, `MCParts` | constants and symmetry for TLC; `MCParts` runs `Images`, `Config` and `Stores`, one per behaviour | |
| `QueueProofs` (with the ledger), `BudgetProofs` | theorems about `Queue` | `Queue`; `QueueProofs` |
| `AvatarsProofs`, `ServiceProofs`, `RowProofs` | theorems about `Avatars` | each the one before; `BudgetProofs` |
| `HttpProofs`, `ProcessesProofs`, `PartsProofs` | theorems about `RateLimiter` and `Http`; `Processes`; `Breaker`, `Images`, `Config`, `Stores` | |

**TaskLedger.** A task is `new`, `queued`, `done`, `dead` (buried in the
dead-letter queue) or `lost`; next to it stands how often its handler failed.
`Queue` maps its state to it with `taskStatus` (`StatusOf`: recorded in
`processed_messages`, else a copy outside the DLQ, else one inside, else lost) and
`failures`, and `LedgerSpec` is the specification of the ledger under that map.
It says in thirty lines what the queue is for: only an unreadable task or one
whose attempts are used up is buried, done is final, nothing buried or lost comes
back to the queue, and only an outage loses a task, and only one that has failed.

**Queue.** A message in the broker is a record in `copies`: its queue, its
position (FIFO order over `nextPos`), its id, the `x-retry-count` header and its
delivery mode. The body is abstracted to the id, which the code carries in the
body; the fallback to the AMQP `MessageId` property is not needed for messages
the API publishes. `Malformed` ids stand for foreign messages that do not parse.
`pc[w]` is the place in `handleDelivery`:

| `pc[w]` | code | action |
|---|---|---|
| receive | `select` in `Consume` | `Deliver`, `ConsumeReturns` |
| decode | `json.Unmarshal`, `IsProcessed` | `RejectMalformed`, `IsProcessed` |
| handle | the `DeliveryHandler` | `HandlerReturns` (nil or an error) |
| retry | `SendToRetry(RetryCount + 1)` | `SendToRetry` |
| mark | `MarkProcessed` | `MarkProcessed` |
| ack | the final `Ack` | `AckDelivery` |

`unacked` and `open` separate what the broker believes from what the worker
does: after `ConnectionLost` the broker has requeued the delivery while the old
process still works on it and its Ack goes nowhere. A call to the database is
`"ok"`, `"err"` (no effect) or `"lost"` (effect, no answer). The environment
(`Expire`, `Shutdown`, `Crash`, `ConnectionLost`, `PublisherLost`,
`BrokerRestart`) is bounded by `MaxFaults` and `MaxRestarts`; a broker restart
keeps persistent messages only, which is what AMQP says of durable queues.

**Avatars.** `EXTENDS Queue`, and puts the API in place of the publisher and
`Service.Handle` in place of the open handler: `Enqueue` contains
`PublishAvatarProcess`, `HandleReturns` contains `HandlerReturns`, `WorkerCrash`
contains `Crash`, `ApiRestart` contains `PublisherRestart`; `QueueStep` is the
rest. Requests are identified with the message ids they generate. `upload[m]`,
`remove[d]` and `step[w]` are the places in `UploadAvatar`, `DeleteAvatar` and
`Handle`; each call to a store is one step. An object is abstracted to the upload
whose pixels it holds, so that "one picture" is an equality; a row names the
staging object and the image in the same way. `Handle` has its `step` only while
`pc[w] = "handle"`. That `Avatars` keeps to the rules of `Queue` is itself a
property (`QueueSpec`, checked and proved). Three history variables, which no action
reads, say what a property has to tell apart: `completed` (`MarkAvatarReady` ran),
`leaked` (a staging object that an `Upload` left although it returned an error, or
that a failed `Delete` left) and `unwritten` (uploads whose request or latest attempt
ended with a failed write of the row, and no later write has made up for it).

**Storage.** Each operator is one SQL statement. Two details matter: an UPDATE
of a missing row is not an error, and `MarkAvatarReady` leaves `message_id`
alone.

**Breaker.** `Call` locks twice, so a call is `Admit`, then `Succeed` or `Fail`.
The clock is `openFor`, the time left until `openUntil`. History variables:
`streak` (consecutive failed completions, saturating) and `trips` (trips of the
present outage).

**RateLimiter.** `allow` holds the mutex from end to end and is one step. Time is in ticks, tokens in fractions that
one tick refills, so the arithmetic is exact where the code's `float64` is exact;
rounding is left out. `elapsed` saturates at the time that fills the bucket. An
observer starts a window anywhere and counts what is let through.

**Http.** A connection goes through `Receive` (metrics middleware, limiter),
`Route` or `UploadAvatar`, `CountUpload` (the deferred function of `UploadAvatar`)
and `CountRequest` (the end of `HTTPMiddleware`); other connections may be
anywhere meanwhile. `Receive` contains `Allow` or `Refuse` of `RateLimiter`.
`Results` has the checks of `UploadAvatar` in their order: blank user, too long a body
or a broken form (of a body that is both, what is found first is not modelled: 413 or
400), no such field, empty file, too long a file, extension. Paths that are not clean
(`//api/avatars/u`) are answered with a redirect by `ServeMux`, behind the middleware,
which limits and counts them by their raw path; `/other` stands for every path nobody
handles, which is a label of its own each.
A body is its form, the length of its file, the length of its framing, and
whether the extension is allowed. What the other handlers may answer is a set of
codes per route; that they give one of them is what `Avatars` and `Breaker` are
for. `/metrics` is served before the middleware (`cmd/api/main.go:133`) and is
left out.

**Processes.** `stage[p]` is the place in `run()`:

| `stage[p]` | code | action |
|---|---|---|
| telemetry, database | `telemetry.Init`, `NewPostgresStorage` | `InitTelemetry`, `OpenStorage` |
| head, create | `EnsureBucket` (API only) | `HeadBucket`, `CreateBucket` |
| dial, declare | `Connect`, one step per call of `Declare` | `Dial`, `Declare` |
| start | `NotifyContext`, the servers, `Qos` and `Consume` | `Serve` |
| serve | the `select` of the API, `Consume` | `Receive`, `LeaveSelect`, `LeaveConsume` |
| shutdown | `Shutdown` with its five seconds | `Shutdown` |
| return, down | deferred calls, `os.Exit` | `Close`, `Exit` |

`held[p]` are the resources with a deferred call. The bucket and the topology are
durable and shared; a connection is not. `Fault` guards everything that fails on
its own: a call at start-up, a listener, a connection, a signal, a kill. The
losing replica of `CreateBucket` needs no fault. `Avatars` has the same processes
from the inside: `ApiRestart` and `WorkerCrash` there are a whole life here.

**Images.** An upload is its format, whether it decodes, and its dimensions;
`Resize` is `resizeImage`. `UploadAgain` feeds the stored original back, as a user
who downloads an avatar and uploads it again. **Config.** One option stands for
each kind (string with a flag, string without, boolean, number), and the empty
string is a value of its own, because every source treats it differently. A file that cannot be
read or parsed ends the process in a panic (`cmd/api/main.go:42-45`).
**Stores.** Each call is made to both implementations; `answers` holds both
answers, and `GetAvatar`'s contains `created_at`. They differ in two things, which
`StoresAgree` names: `MemStorage` reports a missing row to `UpdateAvatarStatus`
(`mem_test.go:57`) and `MarkAvatarReady`, PostgreSQL does not; and `MemStorage` sets
`created_at` on every `UpsertAvatar` (`mem.go:33-37`), where PostgreSQL's ON CONFLICT
keeps the first (`postgres.go:61-72`). `replaced` are the users whose row has been
upserted over, the only ones whose `created_at` may differ, and does.

## Runs

Every passing property has a mutant: a definition changed the way a plausible bug
would change the code (`...Unchecked`, `...Late`, `...Silently`, ... - they stand
before the definition they vary), under which TLC reports the property violated.

| run | instance | checks |
|---|---|---|
| `queue_safety` | 2 workers, 1 upload, 1 malformed message, 1 fault of any kind, 1 broker restart | `QueueTypeOK`, `LossOnlyByRestart`, `RetriesEarned`, `RetryBudget`, `ExclusiveHandling`, `LedgerSpec` |
| `service_safety` | 1 user, 2 overlapping uploads, 1 worker, 1 queue fault, 1 broker restart, 2 call faults | `TypeOK`, `ReadyIsOnePicture`, `SourceKept`, `RefusedLeavesNothing`, `NoRowForgotten`, `NoRework`, `QueueSpec` |
| `service_delete` | 2 uploads one after the other, 2 deletes at any time, 1 call fault | `DeleteReadyLeavesNothing` |
| `last_upload` | 3 uploads one after the other, one not decodable and queued before or after the others, no faults | `LastUploadWins` |
| `settles` | fair; 2 overlapping uploads, one not decodable, 1 queue fault and 1 call fault of any kind | `StatusSettles`, `Settled` |
| `breaker` | fair; 5 concurrent pings, threshold 2, cooldown 2 | `BreakerTypeOK`, `LateTripsBounded`, `TripsOnStreak`, `ClosesAgain` |
| `http` | 2 connections, 4 requests of every kind that matters, on clean and unclean paths, 2 tokens of 2 ticks, windows up to 4 ticks, a limit of 2 units | `RateLimiterTypeOK`, `RateBounded`, `RetriesCostNothing`, `HttpTypeOK`, `UploadsAgree`, `LimitIsExact` |
| `processes` | fair; 2 APIs and a worker started at once, 1 fault | `ProcessesTypeOK`, `ServesOnTopology`, `NothingCutOff`, `EverybodyServes`, `WorkersReconnect`, `SignalsEndProcesses` |
| `parts` | 26 widths and heights around the bounds of the code, all combinations of option sources, 5 calls to the stores on 2 users and 2 ids | `AvatarIsScaled`, `AvatarIsStable`, `Precedence`, `StoresAgree` |
| `queue_loss`, `idempotency`, `delete_leftovers` | small instances of the above | violated, see below |

Why the bounds are enough to be interesting. One user suffices where all sharing
is per user; two uploads give the older and the newer one, the third of
`last_upload` adds the undecodable one, in any place among good ones. Two workers in
`queue_safety` allow a delivery and its retry copy, or a requeued delivery and
its old holder, to be handled at the same time; one fault and one broker restart
are what it takes to get there, and each copy's three attempts all fit (nothing
bounds the number of attempts but the retry scheme itself, which `RetryBudget`
is about). Two call faults in `service_safety` let a cleanup call fail after the
call it cleans up for. In `http` the bucket is emptied by two uploads while the
other two requests are refused or retried, and the limit of two units has a body
on either side of each bound. In `processes` the two APIs race for the bucket with
no fault at all, so one fault is one on top of the race; two faults exceed the
time a run may take, and the safety properties are proved for any number. The
sizes of `parts` are the bounds 128, 512 and 4096, their neighbours, and ratios
that round to 0, down and to the bound. Deadlock checking is off where clients may
stop sending requests: then the system rests, correctly. In `breaker` and
`processes` some step is always possible and deadlock is checked.

Some properties name their own conditions, and these are limits of the code:

- `ReadyIsOnePicture` is for one worker, as `docker-compose.yml` and the Helm
  values (`worker.replicas: 1`) start it. Two workers that handle two uploads of one
  user interleave their two `Upload` calls, and the code has nothing against it. The
  Helm Deployment of the worker names no update strategy
  (`deploy/helm/avatars/templates/app.yaml:117-118`), so a rolling update starts the
  new worker before it stops the old one: for that time there are two, and what is said
  of one worker here and below (`LastUploadWins`, `NoRowForgotten`, `NoRework`) is
  suspended.
- `NoRework` is unconditional for one worker. With two, a lost connection leaves
  an old holder behind who does not check again.
- `ExclusiveHandling` ends at the `ack`: a worker that is about to acknowledge
  may be overtaken by its own retry copy.
- `LastUploadWins` needs a user who waits for the answer; overlapping requests
  of one user have no defined order. With overlapping requests the cleanup of one may
  also set the row of the other, which may be done already, to `failed`
  (`handler.go:193` writes by user): no property forbids this.
- `LastUploadWins` is about the picture first: without faults, the row, the objects and
  `message_id` end up with the last upload. The status need not be `ready`. When an
  upload that cannot be decoded was queued before, one of its retries may run after the
  last upload is done, and sets the user's row to `failed`
  (`internal/worker/service.go:41`, `:53`): a row names a user, not a message. No fault
  is needed for it, only a retry of 30 seconds.
- `RefusedLeavesNothing` holds with failing calls. The calls that may leave something
  behind a 500 are four: an `Upload` or an `UpsertAvatar` that took effect although it
  returned an error (`handler.go:166-170`, `:178-183`: nothing is cleaned up after the
  first, and only the object after the second), and a `Delete` or an
  `UpdateAvatarStatus` of the cleanup that failed.
- `NoRowForgotten` and `StatusSettles` say that a row waits (`pending`,
  `processing`) for one of the reasons `AccountedFor` lists only, each of them tied to
  the upload that is stranded. A pending row's own upload was cut off between
  `UpsertAvatar` and `Publish`, or refused with the row left as it was (`UpsertAvatar`
  took effect although it returned an error, or the cleanup's `UpdateAvatarStatus`
  failed), or answered 202 and lost on its way to the broker. Or a task - for a
  pending row its own upload's - was lost by a broker restart, or is dead after an
  attempt whose write of the status failed. The code repairs none of these. That the
  list is complete is the content of the properties.
- `DeleteReadyLeavesNothing` is for an avatar that is finished; see
  `delete_leftovers` for one that is not.
- `AvatarIsStable` is about the dimensions of both pictures and the recorded content
  type, which becomes `image/png`; the pixels are resampled again, and that is not
  modelled. It needs `ThumbSize` to divide `MaxOriginalSize`, as 128 divides 512.
- `HttpTypeOK` lets the labels of redirects of unclean paths contain a user:
  `NormalizePath` (`metrics.go:117`) tests the raw path.
- `NothingCutOff` excepts an API whose server failed or whose `Shutdown` ran into
  its deadline: it returns with requests in flight, and closes the database and the
  channel under them.
- `WorkersReconnect` has no counterpart for the API, which never notices that its
  connection is gone: it serves on, and every upload fails, until it is restarted.

## Fairness

`QueueFairness` and `Fairness` are weak fairness of what a running goroutine
does next (its calls return, with some outcome), of the broker's deliveries to a
consumer that waits, and of TTL expiry. `ConsumeReturns` is strongly fair: the
`select` in `Consume` chooses among ready cases at random, so a cancelled
context may lose against a delivery for some time but not for ever. Fairness of
`ConsumeReturns` includes that the process is started again (`restart:
unless-stopped` in `docker-compose.yml`, a Deployment in Helm). Nothing is fair
that a client or a fault does: nobody has to upload, and no fault has to happen.
For the breaker only the passing of time is fair; `fn` may hang.

In `Processes` a process that can take its next step does, `Start` included (the
supervisor), and a worker finishes the delivery it has; `LeaveConsume` is strongly
fair, again for the `select`. A request to the API need not end: the server has no
read or write timeout. `SignalsEndProcesses` therefore rests on the deadline of
`Shutdown`, as the code does.

## Proofs

TLAPS proves the following for every value of the constants, from the assumptions
named in the modules only (`QueueAssumption`: bounds are naturals, the null
delivery is not a message; `AvatarsAssumption`: the maps from requests to users
are total, `None` is neither a message nor a row; `BreakerAssumption`,
`RateLimiterAssumption`, `ImagesAssumption`: what the constructors and constants
ensure; `HttpAssumption`, `ConfigAssumption`,
`StoresAssumption`, `ProcessesAssumption`: the types of the constants, and that
distinct things are distinct). None of them limits the number of users, messages,
replicas, connections, faults or restarts, and none but the finiteness of `Workers`
and `Callers` the number of workers and of pings.

A few theorems state a hypothesis of their own, and each is a fact about the code
or about how it is deployed: *one worker* (`docker-compose.yml` and the Helm values
start one), *nothing malformed* (`Malformed = {}`: `PublishAvatarProcess` marshals
what it publishes, and nobody else publishes), *users wait* (`Overlapping = FALSE`:
overlapping uploads of one user have no order in which one is the last).

| theorem | says |
|---|---|
| `QueueTypeCorrect`, `NoTaskLost`, `RetriesAreEarned` | `QueueTypeOK`, `LossOnlyByRestart`, `RetriesEarned` are invariants of `QueueSpec` |
| `ImplementsQueue` | `Spec => QueueSpec`: the service implements the queue |
| `ImplementsLedger`, `ServiceKeepsLedger` | `LedgerSpec`: the queue, and with it the service, implements the ledger |
| `RetriesAreBounded`, `UploadRetriesAreBounded` | `RetryBudget` is an invariant of the queue and of the service |
| `OneWorkerPerTask`, `ProcessedOnce`, `UploadsProcessedOnce` | `ExclusiveHandling` and `NoRework` are invariants of the queue, `NoRework` of the service |
| `NoUploadTaskLost` | `LossOnlyByRestart` is an invariant of the service |
| `TypeCorrect`, `SourcesAreKept`, `RefusalsLeaveNothing` | `TypeOK`, `SourceKept`, `RefusedLeavesNothing` are invariants of the service |
| `OneWorkerOnePicture` | `ReadyIsOnePicture` is one, for a single worker |
| `OneWorkerForgetsNoRow` | `NoRowForgotten` is one, for a single worker, with nothing malformed |
| `WorkersForgetNoRow` | for any number of workers it holds until a call fails or a worker stops, with nothing malformed |
| `DeletesAreComplete` | `DeleteReadyLeavesNothing` is one |
| `OneWorkerLastUploadWins` | `LastUploadWins` is one, for a single worker, with nothing malformed and users who wait, undecodable uploads included |
| `BreakerTypeCorrect`, `LateTripsAreBounded`, `TripsAreEarned` | the breaker's safety properties |
| `RateLimiterTypeCorrect`, `RateIsBounded`, `RefusalsAreFree` | the limiter's properties |
| `HttpUsesLimiter`, `UploadRateIsBounded`, `SizeLimitIsExact` | `HttpSpec` implements `LimiterSpec`; `RateBounded` and `LimitIsExact` are invariants of it |
| `HttpTypeCorrect`, `MetricsAgree` | `HttpTypeOK` and `UploadsAgree` are too |
| `ProcessesTypeCorrect`, `TopologyBeforeService`, `WorkIsNotCutOff` | `ProcessesTypeOK`, `ServesOnTopology`, `NothingCutOff` are invariants of `Processes` |
| `AvatarScaled`, `AvatarStable` | `AvatarIsScaled` for all sizes and bounds, `AvatarIsStable` where one bound divides the other |
| `OptionsPrecedence`, `MemoryIsFaithful` | `Precedence`, `StoresAgree` |

*The queue.* `LossOnlyByRestart` is not inductive: that acknowledging does not
lose a task is known only together with what the worker did before. `QueueInv`
adds `HoldInv` (what the broker counts as unacknowledged is the copy the worker
holds, held by nobody else, and still in `copies`), `PosInv` (positions are below
`nextPos`, so a new copy is later than every held one), `EarnedInv`
(`RetriesEarned`, the same for held deliveries, and only failed messages have
transient copies) and `AckInv` (a worker at `ack` has its message in `processed`,
or a *later* copy of it is in a queue, or a broker restart came after a failure).
"Later" is what makes it inductive: two workers may be about to acknowledge
copies of one message, and neither may rely on the copy the other removes.
`QueueInvStep` has one step per action.

*The service.* `StepRefines` shows that every step of `Next` is a `QueueNext`
step or leaves the queue variables alone; with the initial states this is
`ImplementsQueue`, and the queue's theorems carry over (`QueueInvInService`).
`SourceKept` needs three more facts (`SourceInv`), one for each action that
removes a staging object: `UploadInv` - what is published was answered 202, so no
cleanup of `UploadAvatar` is still to come for it; `StepInv` - a worker at
`cleanup` has run `MarkAvatarReady` for its message; `OwnerInv` - a row, and the
row a DELETE has read, names a staging object of its own user. `HandledMessage`
connects them to the queue: a worker that handles holds a message.

*The ledger.* `LedgerInv` adds to `QueueInv` what the map needs: everything the
broker or a worker has was published, a channel that is open has its delivery
unacknowledged, what is dead-lettered is malformed or was republished, and a
worker that is about to acknowledge leaves a later copy or a processed message
behind. Then each action is a step of the ledger or changes neither `taskStatus`
nor `failures`. `HandsInv` counts hands: without faults, of two workers with
copies of one message one is about to acknowledge.

*The retry budget.* Failures alone are not inductive: what they are bounded by is
what may still fail. `Tokens(m)` are the attempts left to the copies of a task,
`3 - retry` for each copy outside the DLQ, and one for each worker that works on a
delivery the broker has taken back. `BudgetInv` says that failures and tokens
together never exceed `Budget`. A failed attempt spends a token; `SendToRetry` and
`Expire` move the tokens to a later copy; a crash or a lost connection hands back at
most the three of one delivery, a broker restart those of each worker. Each step
maps the tokens there were onto those there are, but for the ones a fault adds, and
the library's theorems on cardinality do the counting. The tokens replace an
induction over the tree of retries.

*Refused uploads.* `CleanInv` follows an upload through the calls before its 500: an
object is there only after its `Upload`, a row waits for it only after its
`UpsertAvatar`, they are undone in the order of the code, and where one of them is not,
`leaked` or `unwritten` has the call that failed.

*One picture.* `PictureInv` = `RowsMatch` (the property, without the form of the
response) and `HandsMatch`: the worker past `processing` has set its user's status
to something that is not `ready`, and past each `Upload` its picture is in place.
With one worker nobody else overwrites an object; an upload that replaces the row
only takes `ready` away.

*Rows.* `NoRowForgotten` asks what a waiting row waits for. A `pending` row waits for
its own upload, of which nothing has begun: `OwnInv` (a row belongs to an upload of
its user that got as far as `UpsertAvatar`), `FreshInv` (that upload is not
processed, no attempt at it has failed unless its write of the status failed too, and
no worker is past `SetProcessing` with it). A `processing` row has a worker on it as long as nothing fails (`BusyInv`),
for any number of workers. Once a call fails that is no longer so, and `UndoneInv`
takes its place: some task of the user is published and not recorded as processed,
and nobody is between ready and `MarkProcessed`. That one needs a single worker: of
two, the second may set `processing` behind the back of the first, which records
its task as processed, and lose its own call afterwards. `UndoneInv` also says that a
task of which only dead copies are left has an attempt whose write of the status failed,
from `DeadEndInv`: nobody begins work on such a task, and a worker that is done with
a `processing` row still in place has failed to write it. Given these, `NoTaskLost`
says where the task is, and if the user is quiet it is in the DLQ or lost, as
`AccountedFor` says.

*DELETE.* `DeletedInv` follows the only upload of a user from ready to the 204. What is
shown as ready was completed and has no staging key (`ShownInv`); a completed task
that never failed has no copy but the one its worker holds, and that worker is past
everything that writes (`OnceInv`, from `AckedInv`: who acknowledges without a retry
has recorded the task). So nobody brings back what the DELETE removes, and
`PurgeInv` can say, key by key, what is gone. It holds with other DELETEs at the same
time, which may have removed the same keys or failed half-way.

*The last upload.* Statuses are written by task, and tasks of one user compete, so
the argument is about order. `SoundInv`: an upload that can be decoded never fails
while nothing else does, so only undecodable ones are retried. `OrderInv`: while an
older, decodable upload of the user is queued, the last one has not been begun and
stands behind it in the queue; a worker takes the head, and there is one, so what it
writes for the last upload comes after everything it writes for the older ones.
`SmoothInv` ties the row to the order of the requests: users wait (`AloneInv`), so
rows are replaced in the order of publishing. `EndInv` is the result: a last upload
that is completed has its picture in the row and in both objects, which no undecodable
upload ever writes, and its row is ready or has been spoilt, or is about to be, by an
undecodable one; a last upload that cannot be decoded and has failed has spoilt its
own. With `NoTaskLost` it is completed or has failed when all is done.

*The breaker.* `LateInv` counts calls: while the breaker is open, the failures,
`maxFailures` for every trip after the first, and the calls still running add up
to fewer than the callers, because nobody is admitted.

*The limiter.* `BucketInv`: what was let through plus what a request would find
now never exceeds a full bucket plus the refill of the window; and the bucket
holds at least what was refilled since the last grant. `HttpUsesLimiter` carries
the bound over to the middleware. `SizeLimitIsExact` follows from `ConnInv`, that
the answer on its way was one of `Results` for the body it carries. For the counters,
`StageInv` keeps the route's possible answers with each connection, `CountInv` bounds
the counts by the requests served, and `UploadsAgree` steps from one counter to the
other: `Ahead` are the uploads counted in the first and not yet in the second, and
each step adds or removes exactly one of them.

*The processes.* `ProcessInv` knows from the stage how many resources are held
(`StageHolds`), that requests run only where they may (`WorkAtItsPlace`), that
what `Declare` has counted exists (`DeclaredExists`), and that an API past
`EnsureBucket` has its bucket. None of it can be undone by another process: the
bucket and the topology only grow.

*The parts.* The arithmetic of `Resize` is proved by the bounds of integer
division; `AvatarStable` from the fact that rounding down twice, by factors that
divide each other, is rounding down once. `Precedence` follows the options through
the four applications. `StoresInv` adds the clock to `StoresAgree`: creation times are
past, so the one that `MemStorage` takes on an upsert over a row is later than the one
PostgreSQL keeps (`UpsertAgrees`); every other pair of operations maps equal tables to
equal tables and keeps the times.

Only model-checked: liveness (`StatusSettles`, `Settled`, `ClosesAgain`,
`EverybodyServes`, `WorkersReconnect`, `SignalsEndProcesses`), which is out of the
prover's reach. Every other property of the passing runs is stated by a theorem, on
the domain where the code has it. The three violated properties of the next section
have counterexamples instead.

## Disagreements between the code and its documents

| run | code | document |
|---|---|---|
| `queue_loss` | `SendToRetry` (`internal/queue/retry.go:27`) publishes transient messages; a broker restart drops a task that waits for its retry, after its persistent original was acknowledged | `README.md:47`: on an error the message goes to the retry queue, then to the DLQ |
| `idempotency` | a redelivery between `Handle` and `MarkProcessed` finds its source deleted (`internal/worker/service.go:80`) and sets a ready avatar to failed | `README.md:23`: idempotent processing |
| `delete_leftovers` | `DeleteAvatar` deletes the keys of the row it has read (`internal/handler/handler.go:244`) and does not stop the task: a worker's objects stay behind after the 204 | `api/openapi.yaml:86-87`: Avatar deleted |

Seen while reading, without a run: `GET` answers the status `processing`, which
the enumeration in `api/openapi.yaml:107-109` lacks; `/ping` answers 500 until
the breaker has tripped (`handler.go:268`), `api/openapi.yaml:31-32` knows 503
only; `content_type` is the source's although the stored original is a PNG
(`image.go:70`); `ConfigPath` does not know `--config` with two dashes, which
package `flag` accepts (`config.go:19`), so such a file is silently not read; the
status of an upload that went well need not become `ready`, as `README.md:46` has it,
when a retry of an older one overwrites it (see `LastUploadWins`); labels may contain
user ids (see `HttpTypeOK`) although `NormalizePath` is there to keep them out; every
process runs the storage poller, and the dashboard sums the gauge over processes
(`grafana/dashboards/avatars-overview.json:103-112`), which multiplies the same
total.

## Not modelled

- The pollers (`internal/metrics/queue_depth.go`, `StartStorageUsagePoller`): they
  set gauges that the service never reads; a failed poll leaves the old value.
- Telemetry, logging, trace propagation: output. `telemetry.Init` is in `Processes`
  as a resource that is opened and closed.
- Presigned URLs (no state), image codecs and the scaler (third-party: `Images` has
  their sizes, not their pixels), parsing of flags, JSON and numbers.
- The web page, migrations, deployment files, `scripts/genpng`: static.
- Durations: time has no length in `Queue` and `Processes`, so the rate of the
  requeue loop while the database is down is not modelled, nor is RabbitMQ's memory
  or disk.
- Rounding of `float64` in the limiter; width of integers (sizes are at most 4096
  squared, and a body is bounded by `MaxBytesReader`).

## Plan

Written, in this order: `Queue`, `Storage`, `Avatars`, `Breaker`, `RateLimiter`;
then `TaskLedger` and its refinement, `Http`, `Processes`, `Images`, `Config`,
`Stores`; with their runs and proofs.

Left:

1. Two users in `service_safety`, and two faults in `processes`, once runs may take
   longer.
2. The steps of the liveness arguments that are safety: that an attempt, a TTL and a
   requeued delivery each lower a measure built on `Tokens`, so that only the fairness
   itself stays with TLC.
3. `ReadyIsOnePicture` with several workers, for users whose uploads are never in
   the queue at the same time.
