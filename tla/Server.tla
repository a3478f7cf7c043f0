------------------------------- MODULE Server -------------------------------
(***************************************************************************)
(* The event handler of server.c: connection admission (ACL and limit),    *)
(* the checks and the dispatch of a request, and the counters of stats_t   *)
(* they feed.  mongoose calls the handler from one thread, so a handler is *)
(* one step; the worker is reduced to busy or idle (see JobProtocol).      *)
(***************************************************************************)
EXTENDS Integers, FiniteSets

CONSTANTS
    Conns,           \* connections, each accepted at most once (c->id is unique)
    MaxConnections,  \* PROF_MAX_CONNECTIONS (32)
    MaxRequests      \* bound on the requests of a behaviour

ASSUME LimitAssumption == MaxConnections \in Nat \ {0}
ASSUME BoundAssumption == MaxRequests \in Nat /\ IsFiniteSet(Conns)

VARIABLES
    allow_ips,             \* configuration: is there an allow_ip list?
    api_key,               \* configuration: is there a key?
    sock,                  \* life of each connection
    active_connections,    \* server_ctx_t, mirrored in stats_t
    connections_total, connections_rejected,
    job,                   \* c->fn_data: the job a connection waits for
    stream,                \* job->stream of that job
    busy,                  \* worker_is_busy
    err,                   \* err_400 ... err_500
    requests,              \* req_chat + req_completion
    req_stream, req_health, req_models,
    inferences_total,
    served, replies, refused, dropped           \* history

conf  == <<allow_ips, api_key>>
conns == <<sock, active_connections, connections_total, connections_rejected>>
info  == <<req_health, req_models>>
stats == <<err, requests, req_stream, info, inferences_total>>
hist  == <<served, replies, refused, dropped>>
work  == <<job, stream, busy>>
vars  == <<conf, conns, work, stats, hist>>

Uris     == {"health", "whatif", "stats", "models", "chat", "completion", "other"}
Methods  == {"GET", "POST"}
Infer    == {"chat", "completion"}
Statuses == {200, 400, 401, 404, 405, 500, 503}
Counted  == {400, 401, 405, 500, 503}
Requests == [uri : Uris, method : Methods, key : BOOLEAN, large : BOOLEAN]

Open == {c \in Conns : sock[c] = "open"}
Live == {c \in Conns : sock[c] \in {"open", "closing"}}

Init ==
    /\ allow_ips \in BOOLEAN /\ api_key \in BOOLEAN
    /\ sock = [c \in Conns |-> "none"]
    /\ active_connections = 0 /\ connections_total = 0 /\ connections_rejected = 0
    /\ job = [c \in Conns |-> "none"] /\ stream = [c \in Conns |-> FALSE] /\ busy = FALSE
    /\ err = [s \in Counted |-> 0] /\ requests = 0 /\ inferences_total = 0
    /\ req_stream = 0 /\ req_health = 0 /\ req_models = 0
    /\ served = 0 /\ replies = [s \in Statuses |-> 0]
    /\ refused = 0 /\ dropped = 0

-----------------------------------------------------------------------------
(* MG_EV_ACCEPT and MG_EV_CLOSE                                            *)

(* An address that is not on the list: dropped before it is counted.       *)
AclRejects(c) ==
    /\ allow_ips /\ sock[c] = "none"
    /\ connections_rejected' = connections_rejected + 1
    /\ sock' = [sock EXCEPT ![c] = "closing"]
    /\ UNCHANGED <<conf, active_connections, connections_total, work, stats, hist>>

(* Mutant: the limit is compared before the new connection is counted.     *)
MutantOverLimit(n) == n - 1 > MaxConnections

(* n connections, the new one included, are too many.                      *)
OverLimit(n) == n > MaxConnections

(* A connection is counted, and closed again when it is one too many.      *)
Accept(c) ==
    /\ sock[c] = "none"
    /\ active_connections' = active_connections + 1
    /\ connections_total' = connections_total + 1
    /\ IF OverLimit(active_connections')
       THEN /\ connections_rejected' = connections_rejected + 1
            /\ sock' = [sock EXCEPT ![c] = "closing"]
       ELSE /\ sock' = [sock EXCEPT ![c] = "open"]
            /\ UNCHANGED connections_rejected
    /\ UNCHANGED <<conf, work, stats, hist>>

(* Mutant: a connection that waits for a job is not uncounted.             *)
MutantUncount(c) ==
    IF active_connections > 0 /\ job[c] = "none"
    THEN active_connections - 1 ELSE active_connections

(* Mutant: the count is not kept from becoming negative.                   *)
MutantUncountBlind(c) == active_connections - 1

Uncount(c) == IF active_connections > 0 THEN active_connections - 1 ELSE 0

(* The client leaves, the server drops the connection, or it has drained:  *)
(* a job it waits for is cancelled and left to the worker.                 *)
Close(c) ==
    /\ sock[c] \in {"open", "closing"}
    /\ active_connections' = Uncount(c)
    /\ sock' = [sock EXCEPT ![c] = "closed"]
    /\ dropped' = IF job[c] = "none" THEN dropped ELSE dropped + 1
    /\ job' = [job EXCEPT ![c] = "none"] /\ stream' = [stream EXCEPT ![c] = FALSE]
    /\ UNCHANGED <<conf, connections_total, connections_rejected, busy, stats,
                   served, replies, refused>>

-----------------------------------------------------------------------------
(* MG_EV_HTTP_MSG                                                          *)

(* Mutant: a 404 is counted as a bad request.                              *)
MutantErrorSlot(status) == IF status = 404 THEN 400 ELSE status

(* send_error counts a status it does not know as an internal error.       *)
ErrorSlot(status) == IF status \in Counted THEN status ELSE 500

(* A reply; that error_to_json may run out of memory and leave a bare 500  *)
(* is not modelled.                                                        *)
Reply(status) ==
    /\ replies' = [replies EXCEPT ![status] = @ + 1]
    /\ err' = IF status = 200 THEN err
              ELSE [err EXCEPT ![ErrorSlot(status)] = @ + 1]
    /\ served' = served + 1

(* check_auth, skipped for two endpoints.                                  *)
OpenTo(r) == r.uri \in {"health", "whatif"} \/ ~api_key \/ r.key

Allowed(r) ==
    /\ r.uri = "models" => r.method = "GET"
    /\ r.uri \in Infer => r.method = "POST"

(* The checks of ev_handler in their order, 0 when a handler is reached.   *)
Refusal(r) ==
    IF r.large THEN 400
    ELSE IF ~OpenTo(r) THEN 401
    ELSE IF ~Allowed(r) THEN 405
    ELSE IF r.uri = "other" THEN 404 ELSE 0

(* mongoose delivers no request on a connection that waits for an answer.  *)
Ready(c) == sock[c] = "open" /\ job[c] = "none" /\ served < MaxRequests

Refuse(c, r) ==
    /\ Ready(c) /\ Refusal(r) # 0
    /\ Reply(Refusal(r))
    /\ UNCHANGED <<conf, conns, work, requests, req_stream, info, inferences_total,
                   refused, dropped>>

(* handle_health, handle_whatif, handle_stats, handle_models; the last two *)
(* allocate.                                                               *)
Inform(c, r) ==
    /\ Ready(c) /\ Refusal(r) = 0 /\ r.uri \notin Infer
    /\ \E status \in IF r.uri \in {"stats", "models"} THEN {200, 500} ELSE {200} :
          Reply(status)
    /\ req_health' = req_health + (IF r.uri = "health" THEN 1 ELSE 0)
    /\ req_models' = req_models + (IF r.uri = "models" THEN 1 ELSE 0)
    /\ UNCHANGED <<conf, conns, work, requests, req_stream, inferences_total, refused, dropped>>

(* submit_inference_job: busy or out of memory before the request counts.  *)
Admission(c, r) ==
    /\ Ready(c) /\ Refusal(r) = 0 /\ r.uri \in Infer
    /\ Reply(IF busy THEN 503 ELSE 500)
    /\ UNCHANGED <<conf, conns, work, requests, req_stream, info, inferences_total,
                   refused, dropped>>

(* Mutant: no return after the 400, so the job is submitted as well.       *)
MutantBadBody(c, r) ==
    /\ Ready(c) /\ Refusal(r) = 0 /\ r.uri \in Infer /\ ~busy
    /\ Reply(400)
    /\ requests' = requests + 1
    /\ job' = [job EXCEPT ![c] = "running"] /\ busy' = TRUE
    /\ UNCHANGED <<conf, conns, stream, req_stream, info, inferences_total, refused, dropped>>

(* The body does not parse.                                                *)
BadBody(c, r) ==
    /\ Ready(c) /\ Refusal(r) = 0 /\ r.uri \in Infer /\ ~busy
    /\ Reply(400)
    /\ requests' = requests + 1 /\ refused' = refused + 1
    /\ UNCHANGED <<conf, conns, work, req_stream, info, inferences_total, dropped>>

(* The job is handed to the worker; a stream's status line is sent now.    *)
(* worker_submit cannot refuse it: only this thread submits, and it has    *)
(* just found the worker idle.                                             *)
Submit(c, r) ==
    /\ Ready(c) /\ Refusal(r) = 0 /\ r.uri \in Infer /\ ~busy
    /\ requests' = requests + 1
    /\ job' = [job EXCEPT ![c] = "running"] /\ busy' = TRUE
    /\ \E s \in BOOLEAN : stream' = [stream EXCEPT ![c] = s]
    /\ served' = served + 1
    /\ UNCHANGED <<conf, conns, err, req_stream, info, inferences_total, replies, refused, dropped>>

(* The worker is done with its job, whose connection may be gone.          *)
WorkerDone ==
    /\ busy
    /\ busy' = FALSE
    /\ job' = [c \in Conns |-> IF job[c] = "running" THEN "done" ELSE job[c]]
    /\ UNCHANGED <<conf, conns, stream, stats, hist>>

(* Mutant: a job that failed is not counted.                               *)
MutantAnswer(c) ==
    /\ sock[c] = "open" /\ job[c] = "done" /\ ~stream[c]
    /\ \E status \in {200, 400, 500} :
          /\ replies' = [replies EXCEPT ![status] = @ + 1]
          /\ err' = IF status = 200 THEN err ELSE [err EXCEPT ![status] = @ + 1]
          /\ inferences_total' = inferences_total + (IF status = 200 THEN 1 ELSE 0)
    /\ job' = [job EXCEPT ![c] = "none"]
    /\ UNCHANGED <<conf, conns, stream, busy, requests, req_stream, info, served, refused,
                   dropped>>

(* drain_stream_ring answers the connection the finished job belongs to.   *)
Answer(c) ==
    /\ sock[c] = "open" /\ job[c] = "done" /\ ~stream[c]
    /\ \E status \in {200, 400, 500} :
          /\ replies' = [replies EXCEPT ![status] = @ + 1]
          /\ err' = IF status = 200 THEN err ELSE [err EXCEPT ![status] = @ + 1]
    /\ job' = [job EXCEPT ![c] = "none"]
    /\ inferences_total' = inferences_total + 1
    /\ UNCHANGED <<conf, conns, stream, busy, requests, req_stream, info, served, refused,
                   dropped>>

(* The end of a stream, which may be seen in the ring before the worker is *)
(* done: whatever became of the inference, the status was 200, and the     *)
(* connection is drained and closed.                                       *)
EndStream(c) ==
    /\ sock[c] = "open" /\ job[c] \in {"running", "done"} /\ stream[c]
    /\ replies' = [replies EXCEPT ![200] = @ + 1]
    /\ job' = [job EXCEPT ![c] = "none"] /\ stream' = [stream EXCEPT ![c] = FALSE]
    /\ sock' = [sock EXCEPT ![c] = "closing"]
    /\ inferences_total' = inferences_total + 1 /\ req_stream' = req_stream + 1
    /\ UNCHANGED <<conf, active_connections, connections_total, connections_rejected, busy,
                   err, requests, info, served, refused, dropped>>

(* What stats_report adds up.                                              *)
req_total == requests + req_stream
err_total == err[400] + err[401] + err[405] + err[503] + err[500]

Next ==
    \/ \E c \in Conns : AclRejects(c) \/ Accept(c) \/ Close(c) \/ Answer(c) \/ EndStream(c)
    \/ \E c \in Conns, r \in Requests :
          \/ Refuse(c, r) \/ Inform(c, r) \/ Admission(c, r)
          \/ BadBody(c, r) \/ Submit(c, r)
    \/ WorkerDone

Spec == Init /\ [][Next]_vars

-----------------------------------------------------------------------------
(* Properties                                                              *)

(* The fields keep their types; the connection count stays in range even   *)
(* when connections that were never counted are closed.                    *)
TypeOK ==
    /\ allow_ips \in BOOLEAN /\ api_key \in BOOLEAN
    /\ sock \in [Conns -> {"none", "open", "closing", "closed"}]
    /\ active_connections \in 0..Cardinality(Conns)
    /\ connections_total \in Nat /\ connections_rejected \in Nat
    /\ job \in [Conns -> {"none", "running", "done"}] /\ busy \in BOOLEAN
    /\ stream \in [Conns -> BOOLEAN] /\ {req_stream, req_health, req_models} \subseteq Nat
    /\ err \in [Counted -> Nat] /\ requests \in Nat /\ inferences_total \in Nat
    /\ served \in 0..MaxRequests /\ replies \in [Statuses -> Nat]
    /\ refused \in Nat /\ dropped \in Nat

(* No connection is counted twice or after it closed, so a client is never *)
(* turned away because of connections that are gone (server.c:653, 667);   *)
(* without an ACL the count is exact, and the limit kept, however accepts, *)
(* rejections and closes follow each other.                                *)
CountExact ==
    /\ active_connections <= Cardinality(Live)
    /\ ~allow_ips => /\ active_connections = Cardinality(Live)
                     /\ Cardinality(Open) <= MaxConnections

(* ARCHITECTURE.md:468 "connections <= 32": the limit bounds the clients   *)
(* that are served at a time.                                              *)
LimitKept == Cardinality(Open) <= MaxConnections

Pending == {c \in Conns : job[c] # "none"}

ErrorReplies ==
    replies[400] + replies[401] + replies[404] + replies[405] + replies[500] + replies[503]

(* Every request mongoose delivered gets exactly one status, unless its    *)
(* client left first: no endpoint, check or job answers twice or not at    *)
(* all.                                                                    *)
OneReplyEach ==
    served = replies[200] + ErrorReplies + dropped + Cardinality(Pending)

(* The statistics agree with what clients saw.  Every inference request    *)
(* that was counted was refused for its body, answered, dropped with its   *)
(* connection, or is pending; the report counts the streams among the      *)
(* answered once more (stats.c:34).  Each error counter is the number of   *)
(* such replies, the internal errors include the 404s (server.c:83), and   *)
(* the report's total misses none and counts none twice (stats.c:41).      *)
StatsExact ==
    /\ requests = refused + inferences_total + dropped + Cardinality(Pending)
    /\ req_total \in requests..(requests + inferences_total)
    /\ \A s \in Counted \ {500} : err[s] = replies[s]
    /\ err[500] = replies[500] + replies[404]
    /\ err_total = ErrorReplies
=============================================================================
