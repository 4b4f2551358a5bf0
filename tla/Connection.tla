------------------------------ MODULE Connection ------------------------------
(***************************************************************************)
(* The requests a client has open with the App Server: request, receive,    *)
(* receiveResponse, failProtocol and close of CodexAppServerClient          *)
(* (packages/codex-app-server/src/client.ts) over its transport.            *)
(*                                                                          *)
(* Identifiers are never reused, so a request is named by what it is for.   *)
(* The App Server may answer anything, at any time, any number of times.    *)
(***************************************************************************)
CONSTANT Requests

VARIABLES
  request,     \* what became of each request's promise
  completed,   \* completedResponses: how each answered request was answered
  failure,     \* protocolFailure is set
  link         \* the transport: close() ends its input, "closed" is its exit

connectionVars == <<request, completed, failure, link>>

Promise  == {"unsent", "pending", "resolved", "rejected"}
Response == {"result", "error"}
Settled  == {"resolved", "rejected"}

ConnectionType ==
  /\ request \in [Requests -> Promise]
  /\ completed \in [Requests -> Response \cup {"none"}]
  /\ failure \in BOOLEAN
  /\ link \in {"open", "ended", "closed"}

ConnectionInit ==
  /\ request = [r \in Requests |-> "unsent"]
  /\ completed = [r \in Requests |-> "none"]
  /\ failure = FALSE
  /\ link = "open"

(* receive() ignores whatever comes after a protocol failure, but not what is  *)
(* still read after the process exited.                                        *)
Listening == ~failure

(* A request on a failed or closed connection is rejected at once.             *)
Sent(r) == [request EXCEPT ![r] = IF failure \/ link # "open" THEN "rejected" ELSE "pending"]

(* Mutant of Rejected: the requests in progress are forgotten, not rejected.   *)
RejectedForgotten == request

(* failProtocol() rejects every request in progress.                           *)
Rejected == [r \in Requests |-> IF request[r] = "pending" THEN "rejected" ELSE request[r]]

(* An answer to nothing: to a request that was never made, that timed out, or  *)
(* that was answered otherwise before.                                         *)
Corrupt(r, a) ==
  \/ completed[r] = "none" /\ request[r] # "pending"
  \/ completed[r] # "none" /\ completed[r] # a

Answered(r, a) ==
  /\ completed[r] = "none" /\ request[r] = "pending"
  /\ completed' = [completed EXCEPT ![r] = a]
  /\ request' = [request EXCEPT ![r] = IF a = "result" THEN "resolved" ELSE "rejected"]
  /\ UNCHANGED <<failure, link>>

TimedOut(r) ==
  /\ request[r] = "pending"
  /\ request' = [request EXCEPT ![r] = "rejected"]
  /\ UNCHANGED <<completed, failure, link>>
=============================================================================
