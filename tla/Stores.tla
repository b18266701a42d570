------------------------------- MODULE Stores -------------------------------
(***************************************************************************)
(* The two implementations of storage.Storage side by side: PostgreSQL     *)
(* (src/internal/storage/postgres.go, the operators of module Storage) and *)
(* MemStorage (src/internal/storage/mem.go), which stands in for it in the *)
(* repository's tests.  Every call is made to both; what they answer and   *)
(* what they hold is compared.  updated_at is left out: in both it is the  *)
(* time of the last call that changed the row.                             *)
(***************************************************************************)
EXTENDS Storage, Naturals, FiniteSetsExt

CONSTANTS
    People,        \* users
    Ids,           \* message ids; an upload and its picture are named by its id
    SizeOf,        \* size_bytes of each picture
    MaxCalls       \* bound: calls, and with them the clock

ASSUME StoresAssumption ==
    /\ SizeOf \in [Ids -> Nat]
    /\ MaxCalls \in Nat
    /\ None \notin Ids /\ None \notin Row(Ids)

VARIABLES
    table,         \* avatars: the row of each user, or None
    createdAt,     \* avatars.created_at, 0 without a row
    done,          \* processed_messages
    memory,        \* m.avatars
    memCreatedAt,  \* CreatedAt of its entries
    memDone,       \* m.processed
    answers,       \* the answers of both to the last call
    now,           \* the clock: calls so far
    replaced       \* history: users whose row was upserted again since it was inserted

storesVars ==
    <<table, createdAt, done, memory, memCreatedAt, memDone, answers, now, replaced>>

pgVars == <<table, createdAt, done>>
memVars == <<memory, memCreatedAt, memDone>>

Tick == now < MaxCalls /\ now' = now + 1

Answer(pg, mem) == answers' = [pg |-> pg, mem |-> mem]

Missing(rows, u) == rows[u] = None

\* A call returns an error or none and, when it reads, data.
Reply(error) == [error |-> error, data |-> None]
Data(data) == [error |-> "nil", data |-> data]

\* What a call returns that wants the row to exist.
NilOrNotFound(rows, u) == Reply(IF Missing(rows, u) THEN "ErrNotFound" ELSE "nil")

\* The rows MemStorage holds after a call, for a row that exists.
SetRow(u, r) == memory' = [memory EXCEPT ![u] = r]

\* Mutation of UpsertAvatarMem: an existing entry keeps its keys.
UpsertAvatarMemMerge(u, m) ==
    /\ SetRow(u, [status |-> "pending", stagingKey |-> m,
                  image |-> IF Missing(memory, u) THEN None ELSE memory[u].image,
                  messageID |-> m])
    /\ memCreatedAt' = [memCreatedAt EXCEPT ![u] = now']

\* A copy of the caller's struct replaces the entry; UploadAvatar leaves CreatedAt zero.
UpsertAvatarMem(u, m) ==
    /\ SetRow(u, [status |-> "pending", stagingKey |-> m, image |-> None, messageID |-> m])
    /\ memCreatedAt' = [memCreatedAt EXCEPT ![u] = now']

\* Mutation of CreatedAt: created_at is overwritten with the other columns.
CreatedAtAlways(u) == [createdAt EXCEPT ![u] = now']

\* The column is not among those that ON CONFLICT DO UPDATE sets.
CreatedAt(u) == IF Missing(table, u) THEN [createdAt EXCEPT ![u] = now'] ELSE createdAt

Upsert(u, m) ==
    /\ Tick
    /\ table' = UpsertAvatar(table, u, m)
    /\ createdAt' = CreatedAt(u)
    /\ UpsertAvatarMem(u, m)
    /\ replaced' = IF Missing(table, u) THEN replaced ELSE replaced \union {u}
    /\ Answer(Reply("nil"), Reply("nil"))
    /\ UNCHANGED <<done, memDone>>

\* PostgreSQL does not look at the number of rows an UPDATE changes.
UpdateStatus(u, status) ==
    /\ Tick
    /\ table' = UpdateAvatarStatus(table, u, status)
    /\ IF Missing(memory, u) THEN UNCHANGED memory
       ELSE SetRow(u, [memory[u] EXCEPT !.status = status])
    /\ Answer(Reply("nil"), NilOrNotFound(memory, u))
    /\ UNCHANGED <<createdAt, memCreatedAt, done, memDone, replaced>>

MarkReadyMem(u, m) ==
    IF Missing(memory, u) THEN UNCHANGED memory
    ELSE SetRow(u, [memory[u] EXCEPT !.status = "ready", !.stagingKey = None, !.image = m])

MarkReady(u, m) ==
    /\ Tick
    /\ table' = MarkAvatarReady(table, u, m)
    /\ MarkReadyMem(u, m)
    /\ Answer(Reply("nil"), NilOrNotFound(memory, u))
    /\ UNCHANGED <<createdAt, memCreatedAt, done, memDone, replaced>>

Remove(u) ==
    /\ Tick
    /\ table' = DeleteAvatarRow(table, u)
    /\ createdAt' = [createdAt EXCEPT ![u] = 0]
    /\ memory' = [memory EXCEPT ![u] = None]
    /\ memCreatedAt' = [memCreatedAt EXCEPT ![u] = 0]
    /\ replaced' = replaced \ {u}
    /\ Answer(NilOrNotFound(table, u), NilOrNotFound(memory, u))
    /\ UNCHANGED <<done, memDone>>

\* ON CONFLICT DO NOTHING; a map assignment.
MarkMessage(m) ==
    /\ Tick
    /\ done' = done \union {m}
    /\ memDone' = memDone \union {m}
    /\ Answer(Reply("nil"), Reply("nil"))
    /\ UNCHANGED <<table, createdAt, memory, memCreatedAt, replaced>>

\* Reads: GetAvatar, IsMessageProcessed and TotalStorageBytes.
Stored(rows) == {u \in People : ~Missing(rows, u) /\ rows[u].status = "ready"}

TotalStorageBytes(rows) ==
    MapThenSumSet(LAMBDA u : IF rows[u].image = None THEN 0 ELSE SizeOf[rows[u].image],
                  Stored(rows))

Seen(rows, created, messages, u, m) ==
    Data([row |-> rows[u], createdAt |-> created[u], processed |-> m \in messages,
          bytes |-> TotalStorageBytes(rows)])

Read(u, m) ==
    /\ Tick
    /\ Answer(Seen(table, createdAt, done, u, m), Seen(memory, memCreatedAt, memDone, u, m))
    /\ UNCHANGED <<pgVars, memVars, replaced>>

-----------------------------------------------------------------------------
StoresInit ==
    /\ table = [u \in People |-> None]
    /\ createdAt = [u \in People |-> 0]
    /\ done = {}
    /\ memory = [u \in People |-> None]
    /\ memCreatedAt = [u \in People |-> 0]
    /\ memDone = {}
    /\ answers = [pg |-> Reply("nil"), mem |-> Reply("nil")]
    /\ now = 0
    /\ replaced = {}

StoresNext ==
    \/ \E u \in People, m \in Ids : Upsert(u, m) \/ MarkReady(u, m) \/ Read(u, m)
    \/ \E u \in People, status \in {"processing", "failed"} : UpdateStatus(u, status)
    \/ \E u \in People : Remove(u)
    \/ \E m \in Ids : MarkMessage(m)

StoresSpec == StoresInit /\ [][StoresNext]_storesVars

-----------------------------------------------------------------------------
(***************************************************************************)
(* Properties.                                                             *)
(***************************************************************************)

\* How faithful the test double is: after any sequence of calls both hold the same rows
\* and the same processed messages, and of a row that was upserted again they differ in
\* created_at: ON CONFLICT keeps the time of the first upload, MemStorage takes that of
\* the last.  Every answer is the same, but for the created_at that GetAvatar reads of
\* such a row, and for the ErrNotFound that only MemStorage returns when
\* UpdateAvatarStatus (mem_test.go:57) or MarkAvatarReady finds no row.
StoresAgree ==
    /\ table = memory
    /\ done = memDone
    /\ \A u \in People : IF u \in replaced THEN createdAt[u] < memCreatedAt[u]
                                            ELSE createdAt[u] = memCreatedAt[u]
    /\ answers.pg # answers.mem =>
         \/ answers = [pg |-> Reply("nil"), mem |-> Reply("ErrNotFound")]
         \/ \E u \in replaced :
              /\ answers.pg.data.createdAt = createdAt[u]
              /\ answers.mem =
                   [answers.pg EXCEPT !.data =
                      [answers.pg.data EXCEPT !.createdAt = memCreatedAt[u]]]
=============================================================================
