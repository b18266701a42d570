-------------------------------- MODULE Http --------------------------------
(***************************************************************************)
(* The API's HTTP side (src/internal/handler, src/internal/metrics): a     *)
(* request passes the metrics middleware, the upload rate limiter (module  *)
(* RateLimiter), the router and the handler, and is counted on its way     *)
(* back: by UploadAvatar's deferred function in avatars_uploads_total and  *)
(* then by the middleware in http_requests_total.                          *)
(*                                                                         *)
(* What GetAvatar, DeleteAvatar, Ping and the calls of UploadAvatar answer *)
(* is left open (modules Avatars and Breaker).  Sizes are counted in small *)
(* units; a multipart body is as long as its file and its framing.         *)
(***************************************************************************)
EXTENDS RateLimiter, Integers, FiniteSets, BagsExt

CONSTANTS
    Connections,      \* each serves one request at a time
    MaxUploadBytes,   \* the configured limit; not positive means the default
    DefaultMaxUpload, \* 5 MiB
    Overhead,         \* multipartOverhead
    Requests,         \* what clients ask for, see Request
    Contents,         \* the multipart bodies of uploads, see Content
    MaxRequests       \* bound: requests

(***************************************************************************)
(* Requests.  The user id of a path is "u", or " " where it is blank; no   *)
(* route matches "u/x".  Some paths are not clean: net/http answers them   *)
(* with a redirect to the clean one.  "/other" stands for any other path.  *)
(***************************************************************************)
\* Those with the prefix "/api/avatars/".
ApiPaths == {"/api/avatars/u", "/api/avatars/ ", "/api/avatars/u/x", "/api/avatars//u"}
Unclean == {"//api/avatars/u", "/api/avatars//u"}
Paths == {"/", "/other", "/health", "/ping"} \union ApiPaths \union Unclean
Methods == {"GET", "DELETE", "POST"}

Request == [method: Methods, path: Paths]

\* form: "file", "nofile" (no field of that name) or "broken" (not multipart, or cut
\* short); image: the file's extension is one of those allowed.
Content == [form: {"file", "nofile", "broken"}, size: Nat, framing: Nat, image: BOOLEAN]

IsUpload(r) == r.method = "POST" /\ r.path \in {"/api/avatars/u", "/api/avatars/ "}

\* isAvatarUploadPath, asked of every POST.
IsLimited(r) == r.method = "POST" /\ r.path \in ApiPaths

ASSUME HttpAssumption ==
    /\ MaxUploadBytes \in Int
    /\ DefaultMaxUpload \in Nat \ {0}
    /\ Overhead \in Nat
    /\ Requests \subseteq Request
    /\ Contents \subseteq Content
    /\ MaxRequests \in Nat

VARIABLES
    conn,             \* the request each connection serves, and how far it is
    served,           \* number of requests received
    uploadsTotal,     \* avatars_uploads_total by status
    requestsTotal     \* http_requests_total, a bag of <<method, path, code>>

metricVars == <<uploadsTotal, requestsTotal>>
httpVars == <<limiterVars, conn, served, metricVars>>

\* NewHandler
UploadLimit == IF MaxUploadBytes > 0 THEN MaxUploadBytes ELSE DefaultMaxUpload

\* Mutation of NormalizePath: the user id stays in the label.
NormalizePathKept(path) == path

NormalizePath(path) == IF path \in ApiPaths THEN "/api/avatars/{user_id}" ELSE path

Idle == [stage |-> "idle"]
Busy == {c \in Connections : conn[c] # Idle}

Goto(c, state) == conn' = [conn EXCEPT ![c] = state]

(***************************************************************************)
(* HTTPMiddleware and UploadRateLimitMiddleware, up to the router.         *)
(***************************************************************************)
Bodies(r) == IF IsUpload(r) THEN Contents ELSE {"ignored"}

Receive(c) ==
    /\ conn[c] = Idle
    /\ served < MaxRequests
    /\ \E r \in Requests :
         \/ /\ IsLimited(r)
            /\ Refuse
            /\ Goto(c, [stage |-> "leave", request |-> r, code |-> 429])
         \/ /\ IF IsLimited(r) THEN Allow ELSE UNCHANGED limiterVars
            /\ \E body \in Bodies(r) :
                 Goto(c, [stage |-> "route", request |-> r, body |-> body])
    /\ served' = served + 1
    /\ UNCHANGED metricVars

\* NewMux and the handlers that change nothing here: what they may answer.  "GET /"
\* matches every path, so an unknown path is found by Index to be unknown, and with
\* another method is a wrong method.
Answers(r) ==
    CASE r.path \in Unclean -> {301}
      [] r.method = "GET" /\ r.path \in {"/", "/health"} -> {200}
      [] r.method = "GET" /\ r.path \in {"/other", "/api/avatars/u/x"} -> {404}
      [] r.method = "GET" /\ r.path = "/ping" -> {200, 500, 503}
      [] r.method = "GET" /\ r.path = "/api/avatars/u" -> {200, 404, 500}
      [] r.method = "DELETE" /\ r.path = "/api/avatars/u" -> {204, 404, 500}
      [] r.method \in {"GET", "DELETE"} /\ r.path = "/api/avatars/ " -> {400}
      [] OTHER -> {405}

Route(c) ==
    /\ conn[c].stage = "route"
    /\ ~IsUpload(conn[c].request)
    /\ \E code \in Answers(conn[c].request) :
         Goto(c, [stage |-> "leave", request |-> conn[c].request, code |-> code])
    /\ UNCHANGED <<limiterVars, served, metricVars>>

(***************************************************************************)
(* UploadAvatar: the checks in their order, then the upload itself.        *)
(***************************************************************************)
Rejected(code) == [code |-> code, status |-> "error", stored |-> 0]

\* Mutation of ReadFile: the reader is limited to the limit itself.
ReadFileTruncated(body) == AtMost(body.size, UploadLimit)

\* io.LimitReader reads one byte more than is allowed.
ReadFile(body) == AtMost(body.size, UploadLimit + 1)

\* The whole body, as MaxBytesReader counts it.
TooLarge(body) == body.size + body.framing > UploadLimit + Overhead

\* Mutation of Results: the branch for a wrong extension does not set the status.
ResultsUnsetStatus(r, body) ==
    CASE r.path = "/api/avatars/ " \/ body.form # "file" \/ ReadFile(body) = 0 -> {Rejected(400)}
      [] TooLarge(body) \/ ReadFile(body) > UploadLimit -> {Rejected(413)}
      [] ~body.image -> {[Rejected(400) EXCEPT !.status = "success"]}
      [] OTHER -> {[code |-> 202, status |-> "success", stored |-> ReadFile(body)]}

\* What UploadAvatar may answer, count and have stored.  Of a broken form that is too
\* large, ParseMultipartForm finds the one or the other first.  A 500 leaves a staging
\* object or not (module Avatars).
Results(r, body) ==
    IF r.path = "/api/avatars/ " THEN {Rejected(400)}
    ELSE IF body.form = "broken"
         THEN {Rejected(400)} \union {result \in {Rejected(413)} : TooLarge(body)}
    ELSE IF TooLarge(body) THEN {Rejected(413)}
    ELSE IF body.form = "nofile" \/ ReadFile(body) = 0 THEN {Rejected(400)}
    ELSE IF ReadFile(body) > UploadLimit THEN {Rejected(413)}
    ELSE IF ~body.image THEN {Rejected(400)}
    ELSE {[code |-> 202, status |-> "success", stored |-> ReadFile(body)],
          [code |-> 500, status |-> "error", stored |-> ReadFile(body)],
          Rejected(500)}

UploadAvatar(c) ==
    /\ conn[c].stage = "route"
    /\ IsUpload(conn[c].request)
    /\ \E result \in Results(conn[c].request, conn[c].body) :
         Goto(c, [stage |-> "defer", request |-> conn[c].request, body |-> conn[c].body,
                  code |-> result.code, status |-> result.status, stored |-> result.stored])
    /\ UNCHANGED <<limiterVars, served, metricVars>>

\* The deferred function, after the answer has been written.
CountUpload(c) ==
    /\ conn[c].stage = "defer"
    /\ uploadsTotal' = [uploadsTotal EXCEPT ![conn[c].status] = @ + 1]
    /\ Goto(c, [stage |-> "leave", request |-> conn[c].request, code |-> conn[c].code])
    /\ UNCHANGED <<limiterVars, served, requestsTotal>>

\* The end of HTTPMiddleware.
CountRequest(c) ==
    /\ conn[c].stage = "leave"
    /\ LET r == conn[c].request
       IN requestsTotal' = BagAdd(requestsTotal, <<r.method, NormalizePath(r.path), conn[c].code>>)
    /\ Goto(c, Idle)
    /\ UNCHANGED <<limiterVars, served, uploadsTotal>>

-----------------------------------------------------------------------------
HttpInit ==
    /\ LimiterInit
    /\ conn = [c \in Connections |-> Idle]
    /\ served = 0
    /\ uploadsTotal = [s \in {"success", "error"} |-> 0]
    /\ requestsTotal = [label \in {} |-> 0]

HttpNext ==
    \/ \E c \in Connections :
         Receive(c) \/ Route(c) \/ UploadAvatar(c) \/ CountUpload(c) \/ CountRequest(c)
    \/ (Tick \/ Observe) /\ UNCHANGED <<conn, served, metricVars>>

HttpSpec == HttpInit /\ [][HttpNext]_httpVars

-----------------------------------------------------------------------------
(***************************************************************************)
(* Properties.                                                             *)
(***************************************************************************)
Codes == {200, 202, 204, 301, 400, 404, 405, 413, 429, 500, 503}

\* A label that still holds an unclean path, and with it a user id, is of a redirect.
Labels ==
    {label \in Methods \X ((Paths \ ApiPaths) \union {"/api/avatars/{user_id}"}) \X Codes :
        label[2] \in Unclean => label[3] = 301}

\* Type invariant.  No label of http_requests_total names a user, but for the redirects
\* of paths that are not clean, which NormalizePath leaves as they are (metrics.go:117):
\* what the handlers and the limiter answer goes by the route.
HttpTypeOK ==
    /\ \A c \in Busy :
         /\ conn[c].stage \in {"route", "defer", "leave"}
         /\ conn[c].request \in Requests
         /\ conn[c].stage # "route" => conn[c].code \in Codes
    /\ served \in 0..MaxRequests
    /\ uploadsTotal \in [{"success", "error"} -> 0..MaxRequests]
    /\ DOMAIN requestsTotal \subseteq Labels

\* Uploads that http_requests_total has seen answered with the code.
RequestsWith(code) ==
    LET label == <<"POST", "/api/avatars/{user_id}", code>>
    IN IF label \in DOMAIN requestsTotal THEN requestsTotal[label] ELSE 0

\* Uploads between their two counters.
Ahead(codes) == {c \in Busy : /\ conn[c].stage = "leave"
                              /\ IsUpload(conn[c].request)
                              /\ conn[c].code \in codes}

\* The two upload metrics agree, at every moment a scrape may take: accepted uploads
\* are the 202s and failed ones the 400s, 413s and 500s (a 429 or a 405 is not an
\* upload), except for the requests between their two counters, by which
\* avatars_uploads_total is ahead, whichever early return of UploadAvatar they take.
UploadsAgree ==
    /\ uploadsTotal["success"] = RequestsWith(202) + Cardinality(Ahead({202}))
    /\ uploadsTotal["error"] =
         RequestsWith(400) + RequestsWith(413) + RequestsWith(500)
           + Cardinality(Ahead({400, 413, 500}))

\* The two size limits are one: no file is cut off by the limited reader, none larger
\* than the limit or empty is stored, and one within the limit is refused as too large
\* only when its framing outgrows the allowance for it.
LimitIsExact ==
    \A c \in Busy : conn[c].stage = "defer" =>
        LET body == conn[c].body
        IN /\ conn[c].code = 202 => conn[c].stored = body.size
           /\ conn[c].stored \in {0, body.size}
           /\ conn[c].stored > 0 \/ conn[c].code = 202 => body.size \in 1..UploadLimit
           /\ conn[c].code = 413 => body.size > UploadLimit \/ body.framing > Overhead
=============================================================================
