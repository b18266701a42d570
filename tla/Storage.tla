------------------------------ MODULE Storage ------------------------------
(***************************************************************************)
(* The avatars table (src/internal/storage/postgres.go): every operator is *)
(* one SQL statement, as a function from table to table.                   *)
(*                                                                         *)
(* A table maps each user to a row or to None.  Keys and metadata are      *)
(* abstracted to the upload they come from: stagingKey is the upload whose *)
(* staging object the row names, image the upload whose original key,      *)
(* thumbnail key, size and dimensions it holds (None: the columns are      *)
(* empty).  The original and thumbnail keys depend on the user only, so    *)
(* all uploads of a user share the two objects they name.                  *)
(***************************************************************************)

CONSTANT None      \* an absent row, an empty column, an absent object

Statuses == {"pending", "processing", "ready", "failed"}

Row(uploads) ==
    [status: Statuses, stagingKey: uploads \union {None},
     image: uploads \union {None}, messageID: uploads]

\* Mutation of UpsertAvatar: the message id is not stored.
UpsertAvatarAnonymous(table, u, m) ==
    [table EXCEPT ![u] =
        [status |-> "pending", stagingKey |-> m, image |-> None, messageID |-> None]]

\* Mutation of UpsertAvatar: ON CONFLICT DO NOTHING.
UpsertAvatarOnce(table, u, m) ==
    IF table[u] # None THEN table
    ELSE [table EXCEPT ![u] =
            [status |-> "pending", stagingKey |-> m, image |-> None, messageID |-> m]]

\* INSERT ... ON CONFLICT DO UPDATE with the row UploadAvatar builds: the keys and
\* the metadata of an earlier image are overwritten with empty values.
UpsertAvatar(table, u, m) ==
    [table EXCEPT ![u] =
        [status |-> "pending", stagingKey |-> m, image |-> None, messageID |-> m]]

\* An UPDATE of a missing row changes nothing and returns no error.
UpdateAvatarStatus(table, u, status) ==
    IF table[u] = None THEN table ELSE [table EXCEPT ![u].status = status]

\* message_id keeps the value of the last upload, whichever message was processed.
MarkAvatarReady(table, u, m) ==
    IF table[u] = None
    THEN table
    ELSE [table EXCEPT ![u] =
            [@ EXCEPT !.status = "ready", !.stagingKey = None, !.image = m]]

DeleteAvatarRow(table, u) == [table EXCEPT ![u] = None]
=============================================================================
