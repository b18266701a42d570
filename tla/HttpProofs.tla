----------------------------- MODULE HttpProofs -----------------------------
(***************************************************************************)
(* Proofs about the HTTP side of the API: the upload rate limiter, for     *)
(* every capacity, refill interval and window; the same limiter behind the *)
(* middleware, for every number of connections; the size limits, for every *)
(* limit, overhead and upload; and the two request counters, for every     *)
(* number of requests in flight.                                           *)
(***************************************************************************)
EXTENDS Http, FiniteSetTheorems, TLAPS

-----------------------------------------------------------------------------
(***************************************************************************)
(* The rate limiter.                                                       *)
(***************************************************************************)

\* What a request would find in the bucket now has been refilled since the window
\* began or was there before, and is at least what was refilled since the last grant.
BucketInv ==
    /\ granted * Interval + Refilled <= Full + window
    /\ waited <= Refilled

RateLimiterInv == RateLimiterTypeOK /\ BucketInv

\* A full bucket holds at least one token: newUploadRateLimiter's capacity is positive.
LEMMA FullHoldsOne == Full \in Nat /\ Interval \in Nat /\ Interval >= 1 /\ Full >= Interval
<1>1. PICK c \in Nat : Capacity = c + 1
  <2>1. Capacity - 1 \in Nat /\ Capacity = (Capacity - 1) + 1
    BY RateLimiterAssumption
  <2> QED BY <2>1
<1>2. Full = c * Interval + Interval
  BY <1>1, RateLimiterAssumption DEF Full
<1>3. c * Interval \in Nat
  BY RateLimiterAssumption
<1> QED BY <1>2, <1>3, RateLimiterAssumption

\* One more request let through costs one Interval.
LEMMA OneMore ==
    ASSUME NEW g \in Nat
    PROVE  /\ g * Interval \in Nat
           /\ (g + 1) * Interval = g * Interval + Interval
BY RateLimiterAssumption

\* The invariant holds in the initial state, where the bucket is full.
LEMMA RateLimiterInit == LimiterInit => RateLimiterInv
<1> SUFFICES ASSUME LimiterInit PROVE RateLimiterInv
  OBVIOUS
<1>1. 0 * Interval = 0
  BY RateLimiterAssumption
<1> QED
  BY <1>1, FullHoldsOne, RateLimiterAssumption
  DEF LimiterInit, RateLimiterInv, RateLimiterTypeOK, BucketInv, Refilled, AtMost

\* Every step preserves the invariant.
LEMMA RateLimiterStep == RateLimiterInv /\ [LimiterNext]_limiterVars => RateLimiterInv'
<1> SUFFICES ASSUME RateLimiterInv, [LimiterNext]_limiterVars PROVE RateLimiterInv'
  OBVIOUS
<1> USE FullHoldsOne, RateLimiterAssumption DEF RateLimiterInv, RateLimiterTypeOK, BucketInv
<1>1. granted * Interval \in Nat /\ (granted + 1) * Interval = granted * Interval + Interval
  BY OneMore
<1>2. CASE Refuse
  BY <1>1, <1>2 DEF Refuse, Refilled, AtMost, Full
<1>3. CASE Allow
  <2>1. granted' * Interval = granted * Interval + Interval
    BY <1>1, <1>3 DEF Allow
  <2>2. Refilled' = Refilled - Interval
    BY <1>3 DEF Allow, Refilled, AtMost, Full
  <2> QED BY <1>1, <1>3, <2>1, <2>2 DEF Allow, Refilled, AtMost, Full
<1>4. CASE Tick
  BY <1>1, <1>4 DEF Tick, Refilled, AtMost, Full
<1>5. CASE Observe
  <2>1. granted' * Interval = 0
    BY <1>5 DEF Observe
  <2> QED BY <1>5, <2>1 DEF Observe, Refilled, AtMost, Full
<1>6. CASE UNCHANGED limiterVars
  BY <1>6 DEF limiterVars, Refilled, AtMost, Full
<1> QED BY <1>2, <1>3, <1>4, <1>5, <1>6 DEF LimiterNext

\* The invariant holds in every reachable state.
THEOREM RateLimiterInvariant == LimiterSpec => []RateLimiterInv
BY RateLimiterInit, RateLimiterStep, PTL DEF LimiterSpec

\* Type correctness.
THEOREM RateLimiterTypeCorrect == LimiterSpec => []RateLimiterTypeOK
BY RateLimiterInvariant, PTL DEF RateLimiterInv

\* No window of time lets more through than a full bucket and its refill (allow).
THEOREM RateIsBounded == LimiterSpec => []RateBounded
<1>1. RateLimiterInv => RateBounded
  <2> SUFFICES ASSUME RateLimiterInv PROVE RateBounded
    OBVIOUS
  <2>1. granted * Interval \in Nat
    BY OneMore DEF RateLimiterInv, RateLimiterTypeOK
  <2> QED
    BY <2>1, FullHoldsOne, RateLimiterAssumption
    DEF RateLimiterInv, RateLimiterTypeOK, BucketInv, RateBounded, Refilled, AtMost
<1> QED BY <1>1, RateLimiterInvariant, PTL

\* No refusal of allow is charged to the requests that come later.
THEOREM RefusalsAreFree == LimiterSpec => RetriesCostNothing
<1>1. RateLimiterInv /\ [LimiterNext]_limiterVars => [Refuse => waited < Interval]_limiterVars
  BY FullHoldsOne, RateLimiterAssumption
  DEF RateLimiterInv, RateLimiterTypeOK, BucketInv, Refuse, Refilled, AtMost
<1> QED BY <1>1, RateLimiterInvariant, PTL DEF LimiterSpec, RetriesCostNothing

-----------------------------------------------------------------------------
(***************************************************************************)
(* The limiter behind UploadRateLimitMiddleware.                           *)
(***************************************************************************)

\* Requests of all connections, each with its calls in between, use the limiter as
\* module RateLimiter says: at most one call of allow per step and nothing else.
THEOREM HttpUsesLimiter == HttpSpec => LimiterSpec
<1>1. HttpInit => LimiterInit
  BY DEF HttpInit
<1>2. [HttpNext]_httpVars => [LimiterNext]_limiterVars
  BY DEF HttpNext, Receive, Route, UploadAvatar, CountUpload, CountRequest, LimiterNext,
     httpVars
<1> QED BY <1>1, <1>2, PTL DEF HttpSpec, LimiterSpec

\* Hence the rate of the uploads that pass the middleware is bounded.
THEOREM UploadRateIsBounded == HttpSpec => []RateBounded
BY HttpUsesLimiter, RateIsBounded, PTL

-----------------------------------------------------------------------------
(***************************************************************************)
(* The size limits.  An upload on its way to UploadAvatar carries one of   *)
(* the bodies clients send, and what UploadAvatar decides follows from it. *)
(***************************************************************************)
ConnInv ==
    /\ conn = [c \in Connections |-> conn[c]]
    /\ \A c \in Connections :
         conn[c].stage = "route" /\ IsUpload(conn[c].request) => conn[c].body \in Contents

Exact(result, body) ==
    /\ result.code = 202 => result.stored = body.size
    /\ result.stored \in {0, body.size}
    /\ result.stored > 0 \/ result.code = 202 => body.size \in 1..UploadLimit
    /\ result.code = 413 => body.size > UploadLimit \/ body.framing > Overhead

\* The limit in force is a positive number, whatever was configured.
LEMMA UploadLimitPositive == UploadLimit \in Nat /\ UploadLimit >= 1
BY HttpAssumption DEF UploadLimit

\* Whichever early return is taken, UploadAvatar decides exactly.
LEMMA ResultsExact ==
    ASSUME NEW r, NEW body \in Contents, NEW result \in Results(r, body)
    PROVE  Exact(result, body)
<1>1. body.size \in Nat /\ body.framing \in Nat /\ Overhead \in Nat
  BY HttpAssumption DEF Content
<1>2. /\ ReadFile(body) = 0 <=> body.size = 0
      /\ ReadFile(body) > UploadLimit <=> body.size > UploadLimit
      /\ body.size <= UploadLimit => ReadFile(body) = body.size
  BY <1>1, UploadLimitPositive DEF ReadFile, AtMost
<1> DEFINE cut == ReadFile(body) > UploadLimit
           accepted == {[code |-> 202, status |-> "success", stored |-> ReadFile(body)],
                        [code |-> 500, status |-> "error", stored |-> ReadFile(body)],
                        Rejected(500)}
<1>3. \/ result = Rejected(400)
      \/ (TooLarge(body) \/ cut) /\ result = Rejected(413)
      \/ ReadFile(body) # 0 /\ ~cut /\ result \in accepted
  <2> DEFINE blank == r.path = "/api/avatars/ "
             broken == body.form = "broken"
             large == {x \in {Rejected(413)} : TooLarge(body)}
             empty == body.form = "nofile" \/ ReadFile(body) = 0
  <2>1. Results(r, body) = IF blank THEN {Rejected(400)}
                           ELSE IF broken THEN {Rejected(400)} \union large
                           ELSE IF TooLarge(body) THEN {Rejected(413)}
                           ELSE IF empty THEN {Rejected(400)}
                           ELSE IF cut THEN {Rejected(413)}
                           ELSE IF ~body.image THEN {Rejected(400)}
                           ELSE accepted
    BY DEF Results
  <2>2. ~empty => ReadFile(body) # 0
    OBVIOUS
  <2>3. result \in large => result = Rejected(413) /\ TooLarge(body)
    OBVIOUS
  <2> HIDE DEF blank, broken, large, empty, cut, accepted
  <2>4. \/ Results(r, body) = {Rejected(400)}
        \/ Results(r, body) = {Rejected(400)} \union large
        \/ (TooLarge(body) \/ cut) /\ Results(r, body) = {Rejected(413)}
        \/ ReadFile(body) # 0 /\ ~cut /\ Results(r, body) = accepted
    BY <2>1, <2>2, Zenon
  <2>5. result \in Results(r, body)
    OBVIOUS
  <2> QED BY <2>3, <2>4, <2>5
<1>4. CASE result = Rejected(400)
  BY <1>4, <1>1, UploadLimitPositive DEF Rejected, Exact
<1>5. CASE (TooLarge(body) \/ cut) /\ result = Rejected(413)
  BY <1>5, <1>1, <1>2, UploadLimitPositive DEF Rejected, Exact, TooLarge
<1>6. CASE ReadFile(body) # 0 /\ ~cut /\ result \in accepted
  <2>1. body.size \in 1..UploadLimit /\ ReadFile(body) = body.size
    BY <1>6, <1>1, <1>2, UploadLimitPositive
  <2>2. \/ result.code \in {202, 500} /\ result.stored = ReadFile(body)
        \/ result.code = 500 /\ result.stored = 0
    BY <1>6 DEF Rejected
  <2> QED BY <2>1, <2>2, <1>1, UploadLimitPositive DEF Exact
<1> HIDE DEF cut, accepted
<1> QED BY <1>3, <1>4, <1>5, <1>6

\* The invariant, and the limits with it.
LEMMA ConnStep == ConnInv /\ LimitIsExact /\ [HttpNext]_httpVars => (ConnInv /\ LimitIsExact)'
<1> SUFFICES ASSUME ConnInv, LimitIsExact, [HttpNext]_httpVars
             PROVE  ConnInv' /\ LimitIsExact'
  OBVIOUS
<1>1. ASSUME NEW c \in Connections, Receive(c) PROVE ConnInv' /\ LimitIsExact'
  <2>1. CASE \E r \in Requests : Goto(c, [stage |-> "leave", request |-> r, code |-> 429])
    BY <2>1 DEF Goto, ConnInv, LimitIsExact, Busy
  <2>2. CASE \E r \in Requests : \E body \in Bodies(r) :
               Goto(c, [stage |-> "route", request |-> r, body |-> body])
    BY <2>2 DEF Goto, Bodies, ConnInv, LimitIsExact, Busy
  <2> QED BY <1>1, <2>1, <2>2 DEF Receive
<1>2. ASSUME NEW c \in Connections, Route(c) PROVE ConnInv' /\ LimitIsExact'
  <2>1. PICK code : conn' = [conn EXCEPT ![c] = [stage |-> "leave",
                                                 request |-> conn[c].request, code |-> code]]
    BY <1>2 DEF Route, Goto
  <2> QED BY <2>1 DEF ConnInv, LimitIsExact, Busy
<1>3. ASSUME NEW c \in Connections, UploadAvatar(c) PROVE ConnInv' /\ LimitIsExact'
  <2>1. conn[c].body \in Contents
    BY <1>3 DEF UploadAvatar, ConnInv
  <2>2. PICK result \in Results(conn[c].request, conn[c].body) :
          conn' = [conn EXCEPT ![c] =
                     [stage |-> "defer", request |-> conn[c].request, body |-> conn[c].body,
                      code |-> result.code, status |-> result.status,
                      stored |-> result.stored]]
    BY <1>3 DEF UploadAvatar, Goto
  <2>3. Exact(result, conn[c].body)
    BY <2>1, ResultsExact
  <2>4. ConnInv'
    BY <2>2 DEF ConnInv
  <2>5. LimitIsExact'
    <3> SUFFICES ASSUME NEW d \in Connections, (conn[d] # Idle)', conn'[d].stage = "defer"
                 PROVE  Exact(conn'[d], conn'[d].body)
      BY DEF LimitIsExact, Busy, Exact
    <3>1. CASE d = c
      BY <3>1, <2>2, <2>3 DEF ConnInv, Exact
    <3>2. CASE d # c
      BY <3>2, <2>2 DEF ConnInv, LimitIsExact, Busy, Exact
    <3> QED BY <3>1, <3>2
  <2> QED BY <2>4, <2>5
<1>4. ASSUME NEW c \in Connections, CountUpload(c) PROVE ConnInv' /\ LimitIsExact'
  BY <1>4 DEF CountUpload, Goto, ConnInv, LimitIsExact, Busy
<1>5. ASSUME NEW c \in Connections, CountRequest(c) PROVE ConnInv' /\ LimitIsExact'
  BY <1>5 DEF CountRequest, Goto, Idle, ConnInv, LimitIsExact, Busy
<1>6. CASE UNCHANGED conn
  BY <1>6 DEF ConnInv, LimitIsExact, Busy
<1> QED
  BY <1>1, <1>2, <1>3, <1>4, <1>5, <1>6 DEF HttpNext, httpVars

\* For every configured limit: no accepted file is cut short or larger than the limit,
\* and none within it is refused as too large unless its framing is.
THEOREM SizeLimitIsExact == HttpSpec => []LimitIsExact
<1>1. HttpInit => ConnInv /\ LimitIsExact
  BY DEF HttpInit, Idle, ConnInv, LimitIsExact, Busy
<1> QED BY <1>1, ConnStep, PTL DEF HttpSpec

-----------------------------------------------------------------------------
(***************************************************************************)
(* The metrics.  What a connection holds says how its request was answered *)
(* (StageInv): an answer of UploadAvatar carries the status that its code  *)
(* stands for, and no other request reaches the label of the uploads with  *)
(* one of its codes.  The uploads that UploadAvatar has counted, and those *)
(* it may still count, are no more than the requests received (CountInv).  *)
(***************************************************************************)
UploadCodes == {202, 400, 413, 500}

StatusOf(code) == IF code = 202 THEN "success" ELSE "error"

Waiting == {c \in Connections : conn[c].stage \in {"route", "defer"}}

Served(state) ==
    \/ state = Idle
    \/ /\ state.stage = "route"
       /\ state.request \in Requests
    \/ /\ state.stage = "defer"
       /\ state.request \in Requests /\ IsUpload(state.request)
       /\ state.code \in UploadCodes /\ state.status = StatusOf(state.code)
    \/ /\ state.stage = "leave"
       /\ state.request \in Requests
       /\ state.code \in Codes
       /\ IsUpload(state.request) => state.code \in UploadCodes \union {429}
       /\ ~IsUpload(state.request) /\ state.request.method = "POST" =>
            state.code \in {301, 405, 429}
       /\ state.request.path \in Unclean \ ApiPaths => state.code = 301

StageInv ==
    /\ conn = [c \in Connections |-> conn[c]]
    /\ \A c \in Connections : Served(conn[c])

CountInv ==
    /\ served \in 0..MaxRequests
    /\ uploadsTotal \in [{"success", "error"} -> Nat]
    /\ IsFiniteSet(Waiting)
    /\ uploadsTotal["success"] + uploadsTotal["error"] + Cardinality(Waiting) <= served

LabelInv ==
    /\ DOMAIN requestsTotal \subseteq Labels
    /\ requestsTotal \in [DOMAIN requestsTotal -> Nat]

AheadInv == \A codes \in SUBSET UploadCodes : IsFiniteSet(Ahead(codes))

HttpInv == StageInv /\ CountInv /\ LabelInv /\ AheadInv /\ UploadsAgree

\* Whichever early return is taken, UploadAvatar sets the status its code stands for.
LEMMA ResultsCounted ==
    ASSUME NEW r, NEW body, NEW result \in Results(r, body)
    PROVE  result.code \in UploadCodes /\ result.status = StatusOf(result.code)
<1> DEFINE accepted == {[code |-> 202, status |-> "success", stored |-> ReadFile(body)],
                        [code |-> 500, status |-> "error", stored |-> ReadFile(body)],
                        Rejected(500)}
<1>1. result = Rejected(400) \/ result = Rejected(413) \/ result \in accepted
  <2> DEFINE blank == r.path = "/api/avatars/ "
             broken == body.form = "broken"
             large == {x \in {Rejected(413)} : TooLarge(body)}
             empty == body.form = "nofile" \/ ReadFile(body) = 0
             cut == ReadFile(body) > UploadLimit
  <2>1. Results(r, body) = IF blank THEN {Rejected(400)}
                           ELSE IF broken THEN {Rejected(400)} \union large
                           ELSE IF TooLarge(body) THEN {Rejected(413)}
                           ELSE IF empty THEN {Rejected(400)}
                           ELSE IF cut THEN {Rejected(413)}
                           ELSE IF ~body.image THEN {Rejected(400)}
                           ELSE accepted
    BY DEF Results
  <2>2. result \in large => result = Rejected(413)
    OBVIOUS
  <2> HIDE DEF blank, broken, large, empty, cut, accepted
  <2>3. \/ Results(r, body) = {Rejected(400)}
        \/ Results(r, body) = {Rejected(400)} \union large
        \/ Results(r, body) = {Rejected(413)}
        \/ Results(r, body) = accepted
    BY <2>1, Zenon
  <2>4. result \in Results(r, body)
    OBVIOUS
  <2> QED BY <2>2, <2>3, <2>4
<1>2. CASE result = Rejected(400) \/ result = Rejected(413)
  BY <1>2 DEF Rejected, UploadCodes, StatusOf
<1>3. CASE result \in accepted
  BY <1>3 DEF Rejected, UploadCodes, StatusOf
<1> HIDE DEF accepted
<1> QED BY <1>1, <1>2, <1>3

\* What the router answers to a request that is no upload.
LEMMA AnswersCounted ==
    ASSUME NEW r \in Requests, NEW code \in Answers(r)
    PROVE  /\ code \in Codes
           /\ r.method = "POST" => code \in {301, 405}
           /\ r.path \in Unclean => code = 301
<1> DEFINE
      unclean == r.path \in Unclean
      page == r.method = "GET" /\ r.path \in {"/", "/health"}
      unknown == r.method = "GET" /\ r.path \in {"/other", "/api/avatars/u/x"}
      ping == r.method = "GET" /\ r.path = "/ping"
      get == r.method = "GET" /\ r.path = "/api/avatars/u"
      delete == r.method = "DELETE" /\ r.path = "/api/avatars/u"
      blank == r.method \in {"GET", "DELETE"} /\ r.path = "/api/avatars/ "
      post == r.method = "POST"
<1>1. Answers(r) = CASE unclean -> {301}
                     [] page -> {200}
                     [] unknown -> {404}
                     [] ping -> {200, 500, 503}
                     [] get -> {200, 404, 500}
                     [] delete -> {204, 404, 500}
                     [] blank -> {400}
                     [] OTHER -> {405}
  BY DEF Answers
<1>2. post => ~page /\ ~unknown /\ ~ping /\ ~get /\ ~delete /\ ~blank
  OBVIOUS
<1>3. unclean => ~page /\ ~unknown /\ ~ping /\ ~get /\ ~delete /\ ~blank
  BY DEF Unclean
<1>4. PICK A : A = Answers(r) /\ code \in A
  OBVIOUS
<1>5. A = {301} \/ A = {200} \/ A = {404} \/ A = {400} \/ A = {405} => code \in Codes
  BY <1>4 DEF Codes
<1>6. A = {200, 500, 503} \/ A = {200, 404, 500} \/ A = {204, 404, 500} => code \in Codes
  BY <1>4 DEF Codes
<1> HIDE DEF unclean, page, unknown, ping, get, delete, blank
<1>7. CASE unclean
  <2>1. A = {301}
    BY <1>1, <1>3, <1>4, <1>7, ZenonT(60)
  <2>2. code \in Codes
    BY <1>5, <2>1
  <2> QED BY <1>4, <2>1, <2>2
<1>8. CASE ~unclean
  <2>1. /\ \/ A = {200} \/ A = {404} \/ A = {200, 500, 503} \/ A = {200, 404, 500}
           \/ A = {204, 404, 500} \/ A = {400} \/ A = {405}
        /\ post => A = {405}
    BY <1>1, <1>2, <1>4, <1>8, ZenonT(60)
  <2>2. code \in Codes
    BY <1>5, <1>6, <2>1
  <2> QED BY <1>4, <1>8, <2>1, <2>2 DEF unclean
<1> QED BY <1>7, <1>8

\* The route of the uploads is matched by clean paths only.
LEMMA UploadsAreClean == \A r : IsUpload(r) => r.path \in ApiPaths /\ r.path \notin Unclean
BY DEF IsUpload, ApiPaths, Unclean

\* One connection at a time moves on, to a state in which its request is still served.
LEMMA Moves ==
    ASSUME StageInv, HttpNext
    PROVE  \/ UNCHANGED conn
           \/ \E c \in Connections : \E s :
                Served(s) /\ conn' = [conn EXCEPT ![c] = s]
<1>1. ASSUME NEW c \in Connections, Receive(c)
      PROVE  \E s : Served(s) /\ conn' = [conn EXCEPT ![c] = s]
  <2>1. PICK r \in Requests :
          \/ IsLimited(r) /\ Goto(c, [stage |-> "leave", request |-> r, code |-> 429])
          \/ \E body \in Bodies(r) : Goto(c, [stage |-> "route", request |-> r, body |-> body])
    BY <1>1 DEF Receive
  <2>2. IsLimited(r) => Served([stage |-> "leave", request |-> r, code |-> 429])
    BY DEF Served, Codes, IsLimited
  <2>3. ASSUME NEW body PROVE Served([stage |-> "route", request |-> r, body |-> body])
    BY DEF Served
  <2> QED BY <2>1, <2>2, <2>3 DEF Goto
<1>2. ASSUME NEW c \in Connections, Route(c)
      PROVE  \E s : Served(s) /\ conn' = [conn EXCEPT ![c] = s]
  <2>1. PICK r : r = conn[c].request
    OBVIOUS
  <2>2. r \in Requests /\ ~IsUpload(r)
    BY <1>2, <2>1 DEF Route, StageInv, Served, Idle
  <2>3. PICK code \in Answers(r) :
          conn' = [conn EXCEPT ![c] = [stage |-> "leave", request |-> r, code |-> code]]
    BY <1>2, <2>1 DEF Route, Goto
  <2>4. Served([stage |-> "leave", request |-> r, code |-> code])
    BY <2>2, AnswersCounted DEF Served
  <2> QED BY <2>3, <2>4
<1>3. ASSUME NEW c \in Connections, UploadAvatar(c)
      PROVE  \E s : Served(s) /\ conn' = [conn EXCEPT ![c] = s]
  <2>1. PICK r, body : r = conn[c].request /\ body = conn[c].body
    OBVIOUS
  <2>2. r \in Requests /\ IsUpload(r)
    BY <1>3, <2>1 DEF UploadAvatar, StageInv, Served, Idle
  <2>3. PICK result \in Results(r, body) :
          conn' = [conn EXCEPT ![c] =
                     [stage |-> "defer", request |-> r, body |-> body, code |-> result.code,
                      status |-> result.status, stored |-> result.stored]]
    BY <1>3, <2>1 DEF UploadAvatar, Goto
  <2>4. result.code \in UploadCodes /\ result.status = StatusOf(result.code)
    BY ResultsCounted
  <2>5. Served([stage |-> "defer", request |-> r, body |-> body, code |-> result.code,
                status |-> result.status, stored |-> result.stored])
    BY <2>2, <2>4 DEF Served
  <2> QED BY <2>3, <2>5
<1>4. ASSUME NEW c \in Connections, CountUpload(c)
      PROVE  \E s : Served(s) /\ conn' = [conn EXCEPT ![c] = s]
  <2>1. PICK r, code : r = conn[c].request /\ code = conn[c].code
    OBVIOUS
  <2>2. r \in Requests /\ IsUpload(r) /\ code \in UploadCodes
    BY <1>4, <2>1 DEF CountUpload, StageInv, Served, Idle
  <2>3. Served([stage |-> "leave", request |-> r, code |-> code])
    BY <2>2, UploadsAreClean DEF Served, UploadCodes, Codes
  <2> QED BY <1>4, <2>1, <2>3 DEF CountUpload, Goto
<1>5. ASSUME NEW c \in Connections, CountRequest(c)
      PROVE  \E s : Served(s) /\ conn' = [conn EXCEPT ![c] = s]
  <2>1. Served(Idle)
    BY DEF Served
  <2> QED BY <1>5, <2>1 DEF CountRequest, Goto
<1> QED BY <1>1, <1>2, <1>3, <1>4, <1>5 DEF HttpNext

\* So every request is at one of the stages of Served, with what belongs there.
LEMMA StageStep == StageInv /\ [HttpNext]_httpVars => StageInv'
<1> SUFFICES ASSUME StageInv, UNCHANGED conn \/ HttpNext PROVE StageInv'
  BY DEF httpVars
<1>1. CASE UNCHANGED conn
  BY <1>1 DEF StageInv, Served
<1>2. ASSUME NEW c \in Connections, NEW s, Served(s), conn' = [conn EXCEPT ![c] = s]
      PROVE  StageInv'
  <2>1. \A d \in Connections : conn'[d] = IF d = c THEN s ELSE conn[d]
    BY <1>2 DEF StageInv
  <2>2. \A d \in Connections : Served(conn'[d])
    BY <1>2, <2>1 DEF StageInv
  <2>3. \A d \in Connections : Served(conn[d])'
    BY <2>2 DEF Served
  <2> QED BY <1>2, <2>3 DEF StageInv
<1> QED BY <1>1, <1>2, Moves

-----------------------------------------------------------------------------
\* How the sets of connections that are counted change when one connection moves.
LEMMA OneMoves ==
    ASSUME NEW S, NEW T, NEW c, IsFiniteSet(S), \A d : d # c => (d \in T <=> d \in S)
    PROVE  /\ IsFiniteSet(T)
           /\ Cardinality(S) \in Nat /\ Cardinality(T) \in Nat
           /\ (c \in T <=> c \in S) => Cardinality(T) = Cardinality(S)
           /\ c \in T /\ c \notin S => Cardinality(T) = Cardinality(S) + 1
           /\ c \notin T /\ c \in S => Cardinality(T) = Cardinality(S) - 1
<1>1. Cardinality(S) \in Nat
  BY FS_CardinalityType
<1>2. CASE c \in T <=> c \in S
  <2>1. T = S
    BY <1>2
  <2> QED BY <1>1, <2>1
<1>3. CASE c \in T /\ c \notin S
  <2>1. T = S \cup {c}
    BY <1>3
  <2>2. IsFiniteSet(T) /\ Cardinality(T) = Cardinality(S) + 1
    BY <1>3, <2>1, FS_AddElement
  <2> QED BY <1>1, <1>3, <2>2
<1>4. CASE c \notin T /\ c \in S
  <2>1. T = S \ {c}
    BY <1>4
  <2>2. IsFiniteSet(T) /\ Cardinality(T) = Cardinality(S) - 1
    BY <1>4, <2>1, FS_RemoveElement
  <2>3. Cardinality(T) \in Nat
    BY <2>2, FS_CardinalityType
  <2> QED BY <1>1, <1>4, <2>2, <2>3
<1> QED BY <1>2, <1>3, <1>4

Leaving(state, codes) ==
    state.stage = "leave" /\ IsUpload(state.request) /\ state.code \in codes

\* A connection that moves from b to s changes the count of those Ahead by itself.
LEMMA AheadMoves ==
    ASSUME StageInv, NEW c \in Connections, NEW s, conn' = [conn EXCEPT ![c] = s],
           NEW codes, IsFiniteSet(Ahead(codes)), NEW b, b = conn[c]
    PROVE  /\ IsFiniteSet(Ahead(codes)')
           /\ Cardinality(Ahead(codes)) \in Nat /\ Cardinality(Ahead(codes)') \in Nat
           /\ (Leaving(s, codes) <=> Leaving(b, codes)) =>
                Cardinality(Ahead(codes)') = Cardinality(Ahead(codes))
           /\ Leaving(s, codes) /\ ~Leaving(b, codes) =>
                Cardinality(Ahead(codes)') = Cardinality(Ahead(codes)) + 1
           /\ ~Leaving(s, codes) /\ Leaving(b, codes) =>
                Cardinality(Ahead(codes)') = Cardinality(Ahead(codes)) - 1
<1>1. PICK S, T : S = Ahead(codes) /\ T = Ahead(codes)'
  OBVIOUS
<1>2. \A d \in Connections : conn'[d] = IF d = c THEN s ELSE conn[d]
  BY DEF StageInv
<1>3. \A d : d \in S <=> d \in Connections /\ Leaving(conn[d], codes)
  BY <1>1 DEF Ahead, Busy, Leaving, Idle
<1>4. \A d : d \in T <=> d \in Connections /\ Leaving(conn'[d], codes)
  BY <1>1 DEF Ahead, Busy, Leaving, Idle
<1>5. \A d : d # c => (d \in T <=> d \in S)
  BY <1>2, <1>3, <1>4
<1>6. /\ c \in S <=> Leaving(b, codes)
      /\ c \in T <=> Leaving(s, codes)
  BY <1>2, <1>3, <1>4
<1>7. IsFiniteSet(S)
  BY <1>1
<1>8. /\ IsFiniteSet(T)
      /\ Cardinality(S) \in Nat /\ Cardinality(T) \in Nat
      /\ (c \in T <=> c \in S) => Cardinality(T) = Cardinality(S)
      /\ c \in T /\ c \notin S => Cardinality(T) = Cardinality(S) + 1
      /\ c \notin T /\ c \in S => Cardinality(T) = Cardinality(S) - 1
  BY <1>5, <1>7, OneMoves
<1> QED BY <1>1, <1>6, <1>8

\* And the count of those that UploadAvatar may still count.
LEMMA WaitingMoves ==
    ASSUME StageInv, NEW c \in Connections, NEW s, conn' = [conn EXCEPT ![c] = s],
           IsFiniteSet(Waiting)
    PROVE  /\ IsFiniteSet(Waiting')
           /\ Cardinality(Waiting) \in Nat /\ Cardinality(Waiting') \in Nat
           /\ Cardinality(Waiting') <= Cardinality(Waiting) + 1
           /\ conn[c].stage \in {"route", "defer"} =>
                Cardinality(Waiting') <= Cardinality(Waiting)
           /\ conn[c].stage = "defer" /\ s.stage = "leave" =>
                Cardinality(Waiting') = Cardinality(Waiting) - 1
           /\ s.stage \in {"idle", "leave"} => Cardinality(Waiting') <= Cardinality(Waiting)
<1>1. PICK S, T : S = Waiting /\ T = Waiting'
  OBVIOUS
<1>2. \A d \in Connections : conn'[d] = IF d = c THEN s ELSE conn[d]
  BY DEF StageInv
<1>3. \A d : d # c => (d \in T <=> d \in S)
  BY <1>1, <1>2 DEF Waiting
<1>4. /\ c \in S <=> conn[c].stage \in {"route", "defer"}
      /\ c \in T <=> s.stage \in {"route", "defer"}
  BY <1>1, <1>2 DEF Waiting
<1>5. IsFiniteSet(S)
  BY <1>1
<1>6. /\ IsFiniteSet(T)
      /\ Cardinality(S) \in Nat /\ Cardinality(T) \in Nat
      /\ (c \in T <=> c \in S) => Cardinality(T) = Cardinality(S)
      /\ c \in T /\ c \notin S => Cardinality(T) = Cardinality(S) + 1
      /\ c \notin T /\ c \in S => Cardinality(T) = Cardinality(S) - 1
  BY <1>3, <1>5, OneMoves
<1>7. /\ Cardinality(T) <= Cardinality(S) + 1
      /\ c \in S \/ c \notin T => Cardinality(T) <= Cardinality(S)
  BY <1>6
<1>8. /\ conn[c].stage = "defer" /\ s.stage = "leave" => c \in S /\ c \notin T
      /\ s.stage \in {"idle", "leave"} => c \notin T
  BY <1>4
<1> QED BY <1>1, <1>4, <1>6, <1>7, <1>8

\* While no counter moves, nor a connection into the uploads that are ahead or out of
\* them, the two metrics agree as before.
LEMMA AgreementKept ==
    ASSUME StageInv, AheadInv, LabelInv, UploadsAgree, NEW c \in Connections, NEW s,
           conn' = [conn EXCEPT ![c] = s], UNCHANGED metricVars, NEW b, b = conn[c],
           \A codes \in SUBSET UploadCodes : Leaving(s, codes) <=> Leaving(b, codes)
    PROVE  AheadInv' /\ LabelInv' /\ UploadsAgree'
<1>1. ASSUME NEW codes \in SUBSET UploadCodes
      PROVE  /\ IsFiniteSet(Ahead(codes)')
             /\ Cardinality(Ahead(codes)') = Cardinality(Ahead(codes))
  BY <1>1, AheadMoves DEF AheadInv
<1>2. AheadInv' /\ LabelInv'
  BY <1>1 DEF AheadInv, LabelInv, metricVars
<1>3. {202} \in SUBSET UploadCodes /\ {400, 413, 500} \in SUBSET UploadCodes
  BY DEF UploadCodes
<1>4. \A code \in UploadCodes : RequestsWith(code)' = RequestsWith(code)
  BY DEF RequestsWith, metricVars
<1>5. UploadsAgree'
  BY <1>1, <1>3, <1>4 DEF UploadsAgree, metricVars, UploadCodes
<1> QED BY <1>2, <1>5

\* No label names a user, but for the redirects.
LEMMA LabelOfRequest ==
    ASSUME NEW r \in Requests, NEW code \in Codes,
           Served([stage |-> "leave", request |-> r, code |-> code])
    PROVE  <<r.method, NormalizePath(r.path), code>> \in Labels
<1>1. r.method \in Methods /\ r.path \in Paths
  BY HttpAssumption DEF Request
<1>2. NormalizePath(r.path) \in (Paths \ ApiPaths) \union {"/api/avatars/{user_id}"}
  BY <1>1 DEF NormalizePath
<1>3. r.path \in Unclean \ ApiPaths => code = 301
  BY DEF Served, Idle
<1>4. NormalizePath(r.path) \in Unclean => r.path \in Unclean \ ApiPaths
  BY DEF NormalizePath, Unclean, ApiPaths
<1>5. PICK n : n = NormalizePath(r.path)
  OBVIOUS
<1>6. <<r.method, n, code>>[2] = n /\ <<r.method, n, code>>[3] = code
  OBVIOUS
<1> QED BY <1>1, <1>2, <1>3, <1>4, <1>5, <1>6 DEF Labels

\* An answer to an upload, and no other answer, adds to the series of its code.
LEMMA LabelOfUpload ==
    ASSUME NEW r \in Requests, NEW code, NEW k \in UploadCodes,
           Served([stage |-> "leave", request |-> r, code |-> code])
    PROVE  <<r.method, NormalizePath(r.path), code>> = <<"POST", "/api/avatars/{user_id}", k>>
             <=> IsUpload(r) /\ code = k
<1>1. r.method \in Methods /\ r.path \in Paths
  BY HttpAssumption DEF Request
<1>2. r.path \in ApiPaths <=> NormalizePath(r.path) = "/api/avatars/{user_id}"
  BY <1>1 DEF NormalizePath, Paths, ApiPaths, Unclean
<1>3. ~IsUpload(r) /\ r.method = "POST" => code \in {301, 405, 429}
  BY DEF Served, Idle
<1>4. IsUpload(r) => r.method = "POST" /\ r.path \in ApiPaths
  BY DEF IsUpload, ApiPaths
<1>5. PICK n : n = NormalizePath(r.path)
  OBVIOUS
<1>6. <<r.method, n, code>> = <<"POST", "/api/avatars/{user_id}", k>>
        <=> r.method = "POST" /\ n = "/api/avatars/{user_id}" /\ code = k
  OBVIOUS
<1>7. code = k /\ r.method = "POST" => IsUpload(r)
  BY <1>3 DEF UploadCodes
<1> QED BY <1>2, <1>4, <1>5, <1>6, <1>7

\* The deferred function of UploadAvatar counts the upload that it puts ahead.
LEMMA CountUploadAgrees ==
    ASSUME StageInv, CountInv, AheadInv, LabelInv, UploadsAgree,
           NEW c \in Connections, CountUpload(c)
    PROVE  AheadInv' /\ LabelInv' /\ UploadsAgree'
<1>1. PICK r, k, b : r = conn[c].request /\ k = conn[c].code /\ b = conn[c]
  OBVIOUS
<1>2. IsUpload(r) /\ k \in UploadCodes /\ conn[c].status = StatusOf(k) /\ b.stage = "defer"
  BY <1>1 DEF CountUpload, StageInv, Served, Idle
<1>3. PICK s : s = [stage |-> "leave", request |-> r, code |-> k]
  OBVIOUS
<1>4. conn' = [conn EXCEPT ![c] = s]
  BY <1>1, <1>3 DEF CountUpload, Goto
<1>5. \A codes : ~Leaving(b, codes) /\ (Leaving(s, codes) <=> k \in codes)
  BY <1>2, <1>3 DEF Leaving
<1>6. ASSUME NEW codes \in SUBSET UploadCodes
      PROVE  /\ IsFiniteSet(Ahead(codes)')
             /\ Cardinality(Ahead(codes)) \in Nat
             /\ Cardinality(Ahead(codes)') =
                  IF k \in codes THEN Cardinality(Ahead(codes)) + 1 ELSE Cardinality(Ahead(codes))
  <2>1. IsFiniteSet(Ahead(codes))
    BY DEF AheadInv
  <2> QED BY <1>1, <1>4, <1>5, <2>1, AheadMoves
<1>7. AheadInv' /\ LabelInv'
  BY <1>6 DEF AheadInv, LabelInv, CountUpload
<1>8. {202} \in SUBSET UploadCodes /\ {400, 413, 500} \in SUBSET UploadCodes
  BY DEF UploadCodes
<1>9. \A code \in UploadCodes : RequestsWith(code) \in Nat /\ RequestsWith(code)' = RequestsWith(code)
  BY DEF RequestsWith, LabelInv, CountUpload
<1>10. uploadsTotal' = [uploadsTotal EXCEPT ![StatusOf(k)] = @ + 1]
  BY <1>2 DEF CountUpload
<1>11. UploadsAgree'
  <2>1. PICK a, e : a = Cardinality(Ahead({202})) /\ e = Cardinality(Ahead({400, 413, 500}))
    OBVIOUS
  <2>2. a \in Nat /\ e \in Nat
    BY <1>6, <1>8, <2>1
  <2>3. CASE k = 202
    <3>1. Cardinality(Ahead({202})') = a + 1 /\ Cardinality(Ahead({400, 413, 500})') = e
      BY <1>6, <1>8, <2>1, <2>3
    <3>2. /\ uploadsTotal'["success"] = uploadsTotal["success"] + 1
          /\ uploadsTotal'["error"] = uploadsTotal["error"]
      BY <1>10, <2>3 DEF StatusOf, CountInv
    <3> QED BY <1>9, <2>1, <2>2, <3>1, <3>2 DEF UploadsAgree, UploadCodes
  <2>4. CASE k \in {400, 413, 500}
    <3>1. Cardinality(Ahead({202})') = a /\ Cardinality(Ahead({400, 413, 500})') = e + 1
      BY <1>6, <1>8, <2>1, <2>4
    <3>2. /\ uploadsTotal'["success"] = uploadsTotal["success"]
          /\ uploadsTotal'["error"] = uploadsTotal["error"] + 1
      BY <1>10, <2>4 DEF StatusOf, CountInv
    <3> QED BY <1>9, <2>1, <2>2, <3>1, <3>2 DEF UploadsAgree, UploadCodes
  <2> QED BY <1>2, <2>3, <2>4 DEF UploadCodes
<1> QED BY <1>7, <1>11

\* The middleware counts the request, which is then ahead no more.
LEMMA CountRequestAgrees ==
    ASSUME StageInv, CountInv, AheadInv, LabelInv, UploadsAgree,
           NEW c \in Connections, CountRequest(c)
    PROVE  AheadInv' /\ LabelInv' /\ UploadsAgree'
<1>1. PICK r, k, b : r = conn[c].request /\ k = conn[c].code /\ b = conn[c]
  OBVIOUS
<1>2. r \in Requests /\ k \in Codes /\ Served([stage |-> "leave", request |-> r, code |-> k])
      /\ b.stage = "leave"
  BY <1>1 DEF CountRequest, StageInv, Served, Idle
<1>3. conn' = [conn EXCEPT ![c] = Idle]
  BY DEF CountRequest, Goto
<1>4. \A codes : ~Leaving(Idle, codes) /\ (Leaving(b, codes) <=> IsUpload(r) /\ k \in codes)
  BY <1>1, <1>2 DEF Leaving, Idle
<1>5. PICK label : label = <<r.method, NormalizePath(r.path), k>>
  OBVIOUS
<1>6. requestsTotal' = BagAdd(requestsTotal, label)
  BY <1>1, <1>5 DEF CountRequest
<1>7. LabelInv'
  <2>1. label \in Labels
    BY <1>2, <1>5, LabelOfRequest
  <2>2. CASE label \in DOMAIN requestsTotal
    BY <1>6, <2>1, <2>2 DEF BagAdd, LabelInv
  <2>3. CASE label \notin DOMAIN requestsTotal
    BY <1>6, <2>1, <2>3 DEF BagAdd, LabelInv
  <2> QED BY <2>2, <2>3
<1>8. ASSUME NEW code \in UploadCodes
      PROVE  /\ RequestsWith(code) \in Nat
             /\ RequestsWith(code)' =
                  IF IsUpload(r) /\ k = code THEN RequestsWith(code) + 1 ELSE RequestsWith(code)
  <2>1. PICK l : l = <<"POST", "/api/avatars/{user_id}", code>>
    OBVIOUS
  <2>2. label = l <=> IsUpload(r) /\ k = code
    BY <1>2, <1>5, <2>1, LabelOfUpload
  <2>3. /\ RequestsWith(code) = IF l \in DOMAIN requestsTotal THEN requestsTotal[l] ELSE 0
        /\ RequestsWith(code)' = IF l \in DOMAIN requestsTotal' THEN requestsTotal'[l] ELSE 0
    BY <2>1 DEF RequestsWith
  <2>4. CASE label \in DOMAIN requestsTotal
    <3>1. requestsTotal' = [e \in DOMAIN requestsTotal |->
                              IF e = label THEN requestsTotal[e] + 1 ELSE requestsTotal[e]]
      BY <1>6, <2>4 DEF BagAdd
    <3> QED BY <2>2, <2>3, <2>4, <3>1 DEF LabelInv
  <2>5. CASE label \notin DOMAIN requestsTotal
    <3>1. requestsTotal' = [e \in DOMAIN requestsTotal \union {label} |->
                              IF e = label THEN 1 ELSE requestsTotal[e]]
      BY <1>6, <2>5 DEF BagAdd
    <3> QED BY <2>2, <2>3, <2>5, <3>1 DEF LabelInv
  <2> QED BY <2>4, <2>5
<1>9. ASSUME NEW codes \in SUBSET UploadCodes
      PROVE  /\ IsFiniteSet(Ahead(codes)')
             /\ Cardinality(Ahead(codes)) \in Nat /\ Cardinality(Ahead(codes)') \in Nat
             /\ Cardinality(Ahead(codes)') =
                  IF IsUpload(r) /\ k \in codes THEN Cardinality(Ahead(codes)) - 1
                  ELSE Cardinality(Ahead(codes))
  <2>1. IsFiniteSet(Ahead(codes))
    BY DEF AheadInv
  <2> QED BY <1>1, <1>3, <1>4, <2>1, AheadMoves
<1>10. AheadInv'
  BY <1>9 DEF AheadInv
<1>11. UploadsAgree'
  <2>1. PICK a, e, a1, e1 :
          /\ a = Cardinality(Ahead({202})) /\ e = Cardinality(Ahead({400, 413, 500}))
          /\ a1 = Cardinality(Ahead({202})') /\ e1 = Cardinality(Ahead({400, 413, 500})')
    OBVIOUS
  <2>2. /\ a \in Nat /\ e \in Nat
        /\ a1 = IF IsUpload(r) /\ k = 202 THEN a - 1 ELSE a
        /\ e1 = IF IsUpload(r) /\ k \in {400, 413, 500} THEN e - 1 ELSE e
    BY <1>9, <2>1 DEF UploadCodes
  <2>3. PICK x, y, z, t : /\ x = RequestsWith(202) /\ y = RequestsWith(400)
                          /\ z = RequestsWith(413) /\ t = RequestsWith(500)
    OBVIOUS
  <2>4. /\ x \in Nat /\ y \in Nat /\ z \in Nat /\ t \in Nat
        /\ RequestsWith(202)' = IF IsUpload(r) /\ k = 202 THEN x + 1 ELSE x
        /\ RequestsWith(400)' = IF IsUpload(r) /\ k = 400 THEN y + 1 ELSE y
        /\ RequestsWith(413)' = IF IsUpload(r) /\ k = 413 THEN z + 1 ELSE z
        /\ RequestsWith(500)' = IF IsUpload(r) /\ k = 500 THEN t + 1 ELSE t
    BY <1>8, <2>3 DEF UploadCodes
  <2>5. /\ uploadsTotal'["success"] = x + a
        /\ uploadsTotal'["error"] = y + z + t + e
    BY <2>1, <2>3 DEF UploadsAgree, CountRequest
  <2>6. /\ RequestsWith(202)' + a1 = x + a
        /\ RequestsWith(400)' + RequestsWith(413)' + RequestsWith(500)' + e1 = y + z + t + e
    BY <2>2, <2>4
  <2> QED BY <2>1, <2>5, <2>6 DEF UploadsAgree
<1> QED BY <1>7, <1>10, <1>11

\* Every step keeps the metrics in agreement.
LEMMA AgreeStep == HttpInv /\ [HttpNext]_httpVars => AheadInv' /\ LabelInv' /\ UploadsAgree'
<1> SUFFICES ASSUME HttpInv, [HttpNext]_httpVars PROVE AheadInv' /\ LabelInv' /\ UploadsAgree'
  OBVIOUS
<1> USE DEF HttpInv
<1>1. ASSUME NEW c \in Connections, Receive(c) PROVE AheadInv' /\ LabelInv' /\ UploadsAgree'
  <2>1. PICK b : b = conn[c]
    OBVIOUS
  <2>2. b.stage = "idle" /\ UNCHANGED metricVars
    BY <1>1, <2>1 DEF Receive, Idle
  <2>3. ASSUME NEW s, conn' = [conn EXCEPT ![c] = s], s.stage = "route" \/ s.code = 429
        PROVE  AheadInv' /\ LabelInv' /\ UploadsAgree'
    <3>1. \A codes \in SUBSET UploadCodes : Leaving(s, codes) <=> Leaving(b, codes)
      BY <2>2, <2>3 DEF Leaving, UploadCodes
    <3>2. conn' = [conn EXCEPT ![c] = s] /\ UNCHANGED metricVars
      BY <2>2, <2>3
    <3>3. StageInv /\ AheadInv /\ LabelInv /\ UploadsAgree
      OBVIOUS
    <3> HIDE DEF HttpInv
    <3> QED BY <2>1, <3>1, <3>2, <3>3, AgreementKept
  <2>4. PICK r \in Requests :
          \/ conn' = [conn EXCEPT ![c] = [stage |-> "leave", request |-> r, code |-> 429]]
          \/ \E body \in Bodies(r) :
               conn' = [conn EXCEPT ![c] = [stage |-> "route", request |-> r, body |-> body]]
    BY <1>1 DEF Receive, Goto
  <2>5. [stage |-> "leave", request |-> r, code |-> 429].code = 429
    OBVIOUS
  <2>6. \A body : [stage |-> "route", request |-> r, body |-> body].stage = "route"
    OBVIOUS
  <2>7. CASE conn' = [conn EXCEPT ![c] = [stage |-> "leave", request |-> r, code |-> 429]]
    <3>1. PICK s : s = [stage |-> "leave", request |-> r, code |-> 429]
      OBVIOUS
    <3>2. conn' = [conn EXCEPT ![c] = s] /\ s.code = 429
      BY <2>5, <2>7, <3>1
    <3> QED BY <2>3, <3>2
  <2>8. ASSUME NEW body,
               conn' = [conn EXCEPT ![c] = [stage |-> "route", request |-> r, body |-> body]]
        PROVE  AheadInv' /\ LabelInv' /\ UploadsAgree'
    <3>1. PICK s : s = [stage |-> "route", request |-> r, body |-> body]
      OBVIOUS
    <3>2. conn' = [conn EXCEPT ![c] = s] /\ s.stage = "route"
      BY <2>6, <2>8, <3>1
    <3> QED BY <2>3, <3>2
  <2> QED BY <2>4, <2>7, <2>8
<1>2. ASSUME NEW c \in Connections, Route(c) PROVE AheadInv' /\ LabelInv' /\ UploadsAgree'
  <2>1. PICK b : b = conn[c]
    OBVIOUS
  <2>2. b.stage = "route" /\ ~IsUpload(b.request) /\ UNCHANGED metricVars
    BY <1>2, <2>1 DEF Route
  <2>3. PICK s : conn' = [conn EXCEPT ![c] = s] /\ s.request = b.request
    BY <1>2, <2>1 DEF Route, Goto
  <2>4. \A codes \in SUBSET UploadCodes : ~Leaving(s, codes) /\ ~Leaving(b, codes)
    BY <2>2, <2>3 DEF Leaving
  <2> QED BY <2>1, <2>2, <2>3, <2>4, AgreementKept
<1>3. ASSUME NEW c \in Connections, UploadAvatar(c)
      PROVE  AheadInv' /\ LabelInv' /\ UploadsAgree'
  <2>1. PICK b : b = conn[c]
    OBVIOUS
  <2>2. b.stage = "route" /\ UNCHANGED metricVars
    BY <1>3, <2>1 DEF UploadAvatar
  <2>3. PICK result \in Results(b.request, b.body) :
          conn' = [conn EXCEPT ![c] =
                     [stage |-> "defer", request |-> b.request, body |-> b.body,
                      code |-> result.code, status |-> result.status,
                      stored |-> result.stored]]
    BY <1>3, <2>1 DEF UploadAvatar, Goto
  <2>4. PICK s : s = [stage |-> "defer", request |-> b.request, body |-> b.body,
                      code |-> result.code, status |-> result.status,
                      stored |-> result.stored]
    OBVIOUS
  <2>5. conn' = [conn EXCEPT ![c] = s]
    BY <2>3, <2>4
  <2>6. \A codes \in SUBSET UploadCodes : ~Leaving(s, codes) /\ ~Leaving(b, codes)
    BY <2>2, <2>4 DEF Leaving
  <2> QED BY <2>1, <2>2, <2>5, <2>6, AgreementKept
<1>4. ASSUME NEW c \in Connections, CountUpload(c)
      PROVE  AheadInv' /\ LabelInv' /\ UploadsAgree'
  BY <1>4, CountUploadAgrees
<1>5. ASSUME NEW c \in Connections, CountRequest(c)
      PROVE  AheadInv' /\ LabelInv' /\ UploadsAgree'
  BY <1>5, CountRequestAgrees
<1>6. CASE UNCHANGED <<conn, metricVars>>
  <2>1. /\ \A codes : Ahead(codes)' = Ahead(codes)
        /\ \A code : RequestsWith(code)' = RequestsWith(code)
    BY <1>6 DEF Ahead, Busy, RequestsWith, metricVars
  <2>2. uploadsTotal' = uploadsTotal /\ requestsTotal' = requestsTotal
    BY <1>6 DEF metricVars
  <2>3. AheadInv' /\ LabelInv'
    BY <2>1, <2>2 DEF AheadInv, LabelInv
  <2> QED BY <2>1, <2>2, <2>3 DEF UploadsAgree
<1> QED BY <1>1, <1>2, <1>3, <1>4, <1>5, <1>6 DEF HttpNext, httpVars

\* No step counts more uploads than requests were received.
LEMMA CountStep == StageInv /\ CountInv /\ [HttpNext]_httpVars => CountInv'
<1> SUFFICES ASSUME StageInv, CountInv, [HttpNext]_httpVars PROVE CountInv'
  OBVIOUS
<1>1. PICK n, x, y : /\ n = Cardinality(Waiting)
                     /\ x = uploadsTotal["success"] /\ y = uploadsTotal["error"]
  OBVIOUS
<1>2. /\ n \in Nat /\ x \in Nat /\ y \in Nat /\ served \in 0..MaxRequests
      /\ MaxRequests \in Nat
      /\ x + y + n <= served
  BY <1>1, FS_CardinalityType, HttpAssumption DEF CountInv
<1>3. ASSUME NEW c \in Connections, Receive(c) PROVE CountInv'
  <2>1. PICK s : conn' = [conn EXCEPT ![c] = s]
    BY <1>3 DEF Receive, Goto
  <2>2. IsFiniteSet(Waiting') /\ Cardinality(Waiting') \in Nat /\ Cardinality(Waiting') <= n + 1
    BY <1>1, <2>1, WaitingMoves DEF CountInv
  <2>3. served' = served + 1 /\ served' \in 0..MaxRequests /\ uploadsTotal' = uploadsTotal
    BY <1>2, <1>3 DEF Receive, metricVars
  <2> QED BY <1>1, <1>2, <2>2, <2>3 DEF CountInv
<1>4. ASSUME NEW c \in Connections, Route(c) \/ UploadAvatar(c) PROVE CountInv'
  <2>1. PICK s : conn' = [conn EXCEPT ![c] = s]
    BY <1>4 DEF Route, UploadAvatar, Goto
  <2>2. conn[c].stage = "route" /\ UNCHANGED <<served, uploadsTotal>>
    BY <1>4 DEF Route, UploadAvatar, metricVars
  <2>3. IsFiniteSet(Waiting') /\ Cardinality(Waiting') \in Nat /\ Cardinality(Waiting') <= n
    BY <1>1, <2>1, <2>2, WaitingMoves DEF CountInv
  <2> QED BY <1>1, <1>2, <2>2, <2>3 DEF CountInv
<1>5. ASSUME NEW c \in Connections, CountUpload(c) PROVE CountInv'
  <2>1. PICK s : s = [stage |-> "leave", request |-> conn[c].request, code |-> conn[c].code]
    OBVIOUS
  <2>2. IsFiniteSet(Waiting') /\ Cardinality(Waiting') \in Nat /\ Cardinality(Waiting') = n - 1
    <3>1. conn[c].stage = "defer" /\ s.stage = "leave" /\ conn' = [conn EXCEPT ![c] = s]
      BY <1>5, <2>1 DEF CountUpload, Goto
    <3> QED BY <1>1, <3>1, WaitingMoves DEF CountInv
  <2>3. conn[c].status \in {"success", "error"}
    BY <1>5 DEF CountUpload, StageInv, Served, StatusOf, Idle
  <2>4. uploadsTotal' = [uploadsTotal EXCEPT ![conn[c].status] = @ + 1] /\ served' = served
    BY <1>5 DEF CountUpload
  <2>5. uploadsTotal' \in [{"success", "error"} -> Nat]
    BY <2>3, <2>4 DEF CountInv
  <2>6. \/ uploadsTotal'["success"] = x + 1 /\ uploadsTotal'["error"] = y
        \/ uploadsTotal'["success"] = x /\ uploadsTotal'["error"] = y + 1
    BY <1>1, <2>3, <2>4 DEF CountInv
  <2>7. uploadsTotal'["success"] + uploadsTotal'["error"] + Cardinality(Waiting') <= served'
    BY <1>2, <2>2, <2>4, <2>6
  <2> QED BY <1>2, <2>2, <2>4, <2>5, <2>7 DEF CountInv
<1>6. ASSUME NEW c \in Connections, CountRequest(c) PROVE CountInv'
  <2>1. conn' = [conn EXCEPT ![c] = Idle] /\ Idle.stage = "idle"
    BY <1>6 DEF CountRequest, Goto, Idle
  <2>2. IsFiniteSet(Waiting') /\ Cardinality(Waiting') \in Nat /\ Cardinality(Waiting') <= n
    BY <1>1, <2>1, WaitingMoves DEF CountInv
  <2> QED BY <1>1, <1>2, <1>6, <2>2 DEF CountInv, CountRequest
<1>7. CASE UNCHANGED <<conn, served, metricVars>>
  BY <1>7 DEF CountInv, Waiting, metricVars
<1> QED BY <1>3, <1>4, <1>5, <1>6, <1>7 DEF HttpNext, httpVars

\* Before the first request all counters are at zero.
LEMMA HttpInvInit == HttpInit => HttpInv
<1> SUFFICES ASSUME HttpInit PROVE HttpInv
  OBVIOUS
<1>1. \A c \in Connections : conn[c] = Idle
  BY DEF HttpInit
<1>2. StageInv
  BY <1>1 DEF HttpInit, StageInv, Served
<1>3. Waiting = {} /\ \A codes : Ahead(codes) = {}
  BY <1>1 DEF Waiting, Ahead, Busy, Idle
<1>4. CountInv
  BY <1>3, FS_EmptySet, HttpAssumption DEF HttpInit, CountInv
<1>5. LabelInv
  BY DEF HttpInit, LabelInv
<1>6. \A codes : IsFiniteSet(Ahead(codes)) /\ Cardinality(Ahead(codes)) = 0
  BY <1>3, FS_EmptySet
<1>7. \A code : RequestsWith(code) = 0
  BY DEF HttpInit, RequestsWith
<1>8. AheadInv /\ UploadsAgree
  BY <1>6, <1>7 DEF HttpInit, AheadInv, UploadsAgree
<1> QED BY <1>2, <1>4, <1>5, <1>8 DEF HttpInv

\* The invariant holds in every reachable state.
THEOREM HttpInvariant == HttpSpec => []HttpInv
<1>1. HttpInv /\ [HttpNext]_httpVars => HttpInv'
  BY StageStep, CountStep, AgreeStep DEF HttpInv
<1> QED BY <1>1, HttpInvInit, PTL DEF HttpSpec

\* Type correctness: the counters stay below the number of requests, and of all labels
\* of http_requests_total only those of redirects hold a path with a user in it.
THEOREM HttpTypeCorrect == HttpSpec => []HttpTypeOK
<1>1. HttpInv => HttpTypeOK
  <2> SUFFICES ASSUME HttpInv PROVE HttpTypeOK
    OBVIOUS
  <2>1. \A c \in Busy :
          /\ conn[c].stage \in {"route", "defer", "leave"}
          /\ conn[c].request \in Requests
          /\ conn[c].stage # "route" => conn[c].code \in Codes
    BY DEF HttpInv, StageInv, Busy, Served, UploadCodes, Codes
  <2>2. uploadsTotal \in [{"success", "error"} -> 0..MaxRequests]
    <3>1. PICK n, x, y : /\ n = Cardinality(Waiting)
                         /\ x = uploadsTotal["success"] /\ y = uploadsTotal["error"]
      OBVIOUS
    <3>2. n \in Nat /\ x \in Nat /\ y \in Nat /\ x + y + n <= MaxRequests
      BY <3>1, FS_CardinalityType, HttpAssumption DEF HttpInv, CountInv
    <3>3. x \in 0..MaxRequests /\ y \in 0..MaxRequests
      BY <3>2, HttpAssumption
    <3> QED BY <3>1, <3>3 DEF HttpInv, CountInv
  <2> QED BY <2>1, <2>2 DEF HttpInv, CountInv, LabelInv, HttpTypeOK
<1> QED BY <1>1, HttpInvariant, PTL

\* However many requests are in flight, avatars_uploads_total is http_requests_total's
\* count of the uploads, plus the uploads between the two counters.
THEOREM MetricsAgree == HttpSpec => []UploadsAgree
BY HttpInvariant, PTL DEF HttpInv
=============================================================================
