------------------------------- MODULE MCHttp -------------------------------
(* An instance of Http for TLC: a limit of two units, reached by default. *)
EXTENDS Http, TLC

CONSTANTS c1, c2

MCMaxUploadBytes == -1

MCRequests ==
    [method: {"POST"}, path: (ApiPaths \ {"/api/avatars/u/x"}) \union Unclean]
      \union [method: {"GET"}, path: {"/api/avatars/ "}]

Body(form, size, framing, image) ==
    [form |-> form, size |-> size, framing |-> framing, image |-> image]

\* Empty, at the limit, one more (read by the limited reader), more than limit and
\* overhead, at the limit with too much framing; no image; no form; a broken form.
MCContents ==
    {Body("file", 0, 1, TRUE), Body("file", 2, 1, TRUE), Body("file", 3, 0, TRUE),
     Body("file", 4, 0, TRUE), Body("file", 2, 2, TRUE), Body("file", 1, 1, FALSE),
     Body("nofile", 0, 1, TRUE), Body("broken", 4, 0, TRUE)}

MCSymmetry == Permutations(Connections)
=============================================================================
