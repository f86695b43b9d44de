----------------------------- MODULE RestClient -----------------------------
(***************************************************************************)
(* The process-wide REST client (src/api/client/restclient.go).  One      *)
(* resty client rClient, created lazily, serves every request.  Each      *)
(* Get/Post/Put/Delete sets the host URL and the basic-auth credentials   *)
(* of its HostConfig on that shared client, sends, and classifies the     *)
(* reply with checkResponse.  resty reads the host URL and credentials    *)
(* from the client when the request is sent.  Requests run in their own   *)
(* goroutines; nothing orders their accesses to rClient.                  *)
(***************************************************************************)
EXTENDS Naturals

CONSTANTS
    Reqs,     \* goroutines issuing requests
    Arrays,   \* arrays (an ApiHost with its UserName and Password)
    HostOf,   \* HostOf[r]: the array request r is meant for
    Replies   \* the replies the array and the transport may produce

None == "none"

\* The reply's HTTP status, whether resty returned a transport error, and
\* the JSON body: an object with a result, with an error object, with
\* "result": null, without a result key, the literal null, a JSON array,
\* or no JSON at all.
Status == {200, 401, 503, 500}
Body == {"result", "error", "nullResult", "noResult", "null", "array", "notJson"}
Reply == [status : Status, terr : BOOLEAN, body : Body]

ASSUME HostAssumption ==
    /\ HostOf \in [Reqs -> Arrays]
    /\ Replies \subseteq Reply
    /\ \E rep \in Replies : rep.terr

\* Mutant: resty's error tested only after the JSON body is decoded.
CheckResponseLateErr(rep, withStruct) ==
    IF rep.status \in {401, 503} \/ rep.body = "notJson" THEN "err"
    ELSE IF withStruct
         THEN IF rep.body \in {"result", "noResult", "null"} THEN "ok" ELSE "err"
         ELSE IF rep.body = "result" THEN "ok" ELSE "err"

\* checkResponse and parseError.  withStruct: the caller passed an
\* expectedResp (Get, Post, Put); Delete passes nil.  Unmarshalling into a
\* struct leaves the preset Result when the body has no "result" key or is
\* null; the untyped path asserts the body is a map (a panic, recovered
\* into an error, otherwise).
CheckResponse(rep, withStruct) ==
    IF rep.status \in {401, 503} \/ rep.terr \/ rep.body = "notJson" THEN "err"
    ELSE IF withStruct
         THEN IF rep.body \in {"result", "noResult", "null"} THEN "ok" ELSE "err"
         ELSE IF rep.body = "result" THEN "ok" ELSE "err"

VARIABLES
    client,   \* rClient: "nil", "new" (resty.New, not yet configured) or "ready"
    hostURL,  \* the shared client's host URL: an array, or None
    auth,     \* the shared client's basic-auth credentials: an array's, or None
    withStruct, \* withStruct[r]: r passes an expectedResp (fixed)
    pc,       \* pc[r]: the next step of r's request
    sent,     \* sent[r]: where r's last request went and on which client
    result    \* result[r]: what r's last request returned

vars == <<client, hostURL, auth, withStruct, pc, sent, result>>

NoReply == [status |-> 0, terr |-> FALSE, body |-> None]
NoSend == [host |-> None, auth |-> None, tls |-> FALSE, reply |-> NoReply]

TypeOK ==
    /\ client \in {"nil", "new", "ready"}
    /\ hostURL \in Arrays \cup {None}
    /\ auth \in Arrays \cup {None}
    /\ withStruct \in [Reqs -> BOOLEAN]
    /\ pc \in [Reqs -> {"check", "init", "config", "setHost", "setAuth", "send"}]
    /\ sent \in [Reqs -> [host : Arrays \cup {None}, auth : Arrays \cup {None},
                          tls : BOOLEAN, reply : Replies \cup {NoReply}]]
    /\ result \in [Reqs -> {"none", "ok", "err"}]

Init ==
    /\ client = "nil"
    /\ hostURL = None
    /\ auth = None
    /\ withStruct \in [Reqs -> BOOLEAN]
    /\ pc = [r \in Reqs |-> "check"]
    /\ sent = [r \in Reqs |-> NoSend]
    /\ result = [r \in Reqs |-> "none"]

Goto(r, l) == pc' = [pc EXCEPT ![r] = l]

-----------------------------------------------------------------------------
\* checkHttpClient: NewRestClient when rClient is nil.
CheckHttpClient(r) ==
    /\ pc[r] = "check"
    /\ Goto(r, IF client = "nil" THEN "init" ELSE "setHost")
    /\ UNCHANGED <<client, hostURL, auth, withStruct, sent, result>>

\* NewRestClient re-tests rClient and assigns a fresh client, with no host
\* URL and no credentials, before configuring it.
NewRestClient(r) ==
    /\ pc[r] = "init"
    /\ \/ /\ client = "nil"
          /\ client' = "new"
          /\ hostURL' = None
          /\ auth' = None
          /\ Goto(r, "config")
       \/ client # "nil" /\ Goto(r, "setHost") /\ UNCHANGED <<client, hostURL, auth>>
    /\ UNCHANGED <<withStruct, sent, result>>

\* The header, TLS (InsecureSkipVerify), warning and 60 s timeout settings,
\* each applied to whatever rClient holds at the time.
Configure(r) ==
    /\ pc[r] = "config"
    /\ client' = "ready"
    /\ Goto(r, "setHost")
    /\ UNCHANGED <<hostURL, auth, withStruct, sent, result>>

SetHostURL(r) ==
    /\ pc[r] = "setHost"
    /\ hostURL' = HostOf[r]
    /\ Goto(r, "setAuth")
    /\ UNCHANGED <<client, auth, withStruct, sent, result>>

SetBasicAuth(r) ==
    /\ pc[r] = "setAuth"
    /\ auth' = HostOf[r]
    /\ Goto(r, "send")
    /\ UNCHANGED <<client, hostURL, withStruct, sent, result>>

\* R().Get/Post/Put/Delete and checkResponse: the request goes to the
\* client's host URL with its credentials.  No host URL is a transport
\* error; an unconfigured client verifies the array's certificate, which
\* may fail.  The goroutine then issues its next request.
Send(r) ==
    /\ pc[r] = "send"
    /\ \E rep \in Replies :
        /\ hostURL = None => rep.terr
        /\ sent' = [sent EXCEPT ![r] = [host |-> hostURL, auth |-> auth,
                                        tls |-> client = "ready", reply |-> rep]]
        /\ result' = [result EXCEPT ![r] = CheckResponse(rep, withStruct[r])]
    /\ Goto(r, "check")
    /\ UNCHANGED <<client, hostURL, auth, withStruct>>

Next ==
    \E r \in Reqs :
        \/ CheckHttpClient(r) \/ NewRestClient(r) \/ Configure(r)
        \/ SetHostURL(r) \/ SetBasicAuth(r) \/ Send(r)

Spec == Init /\ [][Next]_vars

-----------------------------------------------------------------------------
(* Properties.                                                             *)

\* checkResponse turns every reply the array or the transport marks as a
\* failure (401, 503, a transport error, a body that is not JSON or not an
\* object, an error object, "result": null) into an error, on the struct
\* path and the untyped path alike, whatever the goroutines interleave.
OkNotRejected ==
    \A r \in Reqs :
        result[r] = "ok" =>
            /\ sent[r].reply.status \notin {401, 503}
            /\ ~sent[r].reply.terr
            /\ sent[r].reply.body \notin {"notJson", "array", "error", "nullResult"}

\* Each request goes to the array its caller named, with that array's
\* credentials (spec 9 calls the shared SetHostURL/SetBasicAuth racy).
SentToOwnArray ==
    \A r \in Reqs : sent[r] # NoSend => sent[r].host = HostOf[r] /\ sent[r].auth = HostOf[r]

=============================================================================
