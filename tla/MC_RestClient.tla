---------------------------- MODULE MC_RestClient ----------------------------
(* Two goroutines, each calling a different array, on the one client.     *)
EXTENDS RestClient, TLC

CONSTANTS r1, r2, a1, a2

MCReqs == {r1, r2}
MCArrays == {a1, a2}
MCHostOf == [r \in MCReqs |-> IF r = r1 THEN a1 ELSE a2]

\* Every reply.
MCReplies == Reply

\* One reply of each kind checkResponse tells apart: a result, a 401, a
\* 503, a transport error, an error object, no "result" key, no JSON.
MCKinds ==
    {[status |-> 200, terr |-> FALSE, body |-> "result"],
     [status |-> 401, terr |-> FALSE, body |-> "result"],
     [status |-> 503, terr |-> FALSE, body |-> "result"],
     [status |-> 200, terr |-> TRUE, body |-> "result"],
     [status |-> 200, terr |-> FALSE, body |-> "error"],
     [status |-> 200, terr |-> FALSE, body |-> "noResult"],
     [status |-> 200, terr |-> FALSE, body |-> "notJson"]}
=============================================================================
