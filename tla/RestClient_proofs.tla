-------------------------- MODULE RestClient_proofs --------------------------
(***************************************************************************)
(* Proofs about the shared REST client: checkResponse never lets a failed *)
(* reply through as a success, whatever the goroutines interleave and     *)
(* however many goroutines and arrays there are.                          *)
(***************************************************************************)
EXTENDS RestClient, TLAPS

\* A goroutine's "ok" is what checkResponse said of the reply it recorded,
\* on the path (struct or untyped) that goroutine takes.
OkInv ==
    \A r \in Reqs : result[r] = "ok" => CheckResponse(sent[r].reply, withStruct[r]) = "ok"

IInv == TypeOK /\ OkInv

\* checkResponse classifies as "ok" only a reply with a success status, no
\* transport error and a JSON object body that is not an error object and
\* not "result": null.
LEMMA CheckResponseOk ==
    ASSUME NEW rep, NEW w,
           CheckResponse(rep, w) = "ok"
    PROVE  /\ rep.status \notin {401, 503}
           /\ ~rep.terr
           /\ rep.body \notin {"notJson", "array", "error", "nullResult"}
BY DEF CheckResponse

LEMMA InitIInv == Init => IInv
BY DEF Init, IInv, TypeOK, OkInv, NoSend, NoReply, None

LEMMA TypeStep == TypeOK /\ [Next]_vars => TypeOK'
<1> SUFFICES ASSUME TypeOK, [Next]_vars PROVE TypeOK'
  OBVIOUS
<1> USE HostAssumption
<1>1. ASSUME NEW r \in Reqs, CheckHttpClient(r) PROVE TypeOK'
  BY <1>1 DEF CheckHttpClient, Goto, TypeOK
<1>2. ASSUME NEW r \in Reqs, NewRestClient(r) PROVE TypeOK'
  BY <1>2 DEF NewRestClient, Goto, TypeOK
<1>3. ASSUME NEW r \in Reqs, Configure(r) PROVE TypeOK'
  BY <1>3 DEF Configure, Goto, TypeOK
<1>4. ASSUME NEW r \in Reqs, SetHostURL(r) PROVE TypeOK'
  BY <1>4 DEF SetHostURL, Goto, TypeOK
<1>5. ASSUME NEW r \in Reqs, SetBasicAuth(r) PROVE TypeOK'
  BY <1>5 DEF SetBasicAuth, Goto, TypeOK
<1>6. ASSUME NEW r \in Reqs, Send(r) PROVE TypeOK'
  <2>1. PICK rep \in Replies :
          /\ sent' = [sent EXCEPT ![r] = [host |-> hostURL, auth |-> auth,
                                          tls |-> client = "ready", reply |-> rep]]
          /\ result' = [result EXCEPT ![r] = CheckResponse(rep, withStruct[r])]
    BY <1>6 DEF Send
  <2>2. CheckResponse(rep, withStruct[r]) \in {"ok", "err"}
    BY DEF CheckResponse
  <2>3. QED
    BY <1>6, <2>1, <2>2 DEF Send, Goto, TypeOK
<1>7. CASE UNCHANGED vars
  BY <1>7 DEF vars, TypeOK
<1>8. QED
  BY <1>1, <1>2, <1>3, <1>4, <1>5, <1>6, <1>7 DEF Next

\* Only Send writes result and sent, and it writes both from one reply.
LEMMA OkStep == IInv /\ [Next]_vars => OkInv'
<1> SUFFICES ASSUME IInv, [Next]_vars PROVE OkInv'
  OBVIOUS
<1>1. ASSUME NEW r \in Reqs, Send(r) PROVE OkInv'
  <2>1. PICK rep \in Replies :
          /\ sent' = [sent EXCEPT ![r] = [host |-> hostURL, auth |-> auth,
                                          tls |-> client = "ready", reply |-> rep]]
          /\ result' = [result EXCEPT ![r] = CheckResponse(rep, withStruct[r])]
    BY <1>1 DEF Send
  <2>2. withStruct' = withStruct
    BY <1>1 DEF Send
  <2>3. QED
    BY <2>1, <2>2 DEF IInv, TypeOK, OkInv
<1>2. ASSUME NEW r \in Reqs,
             CheckHttpClient(r) \/ NewRestClient(r) \/ Configure(r)
             \/ SetHostURL(r) \/ SetBasicAuth(r)
      PROVE  OkInv'
  <2>1. UNCHANGED <<withStruct, sent, result>>
    BY <1>2 DEF CheckHttpClient, NewRestClient, Configure, SetHostURL, SetBasicAuth
  <2>2. QED
    BY <2>1 DEF IInv, OkInv
<1>3. CASE UNCHANGED vars
  BY <1>3 DEF vars, IInv, OkInv
<1>4. QED
  BY <1>1, <1>2, <1>3 DEF Next

LEMMA IInvOk == IInv => OkNotRejected
BY CheckResponseOk DEF IInv, OkInv, OkNotRejected

\* checkResponse, on the Get/Post/Put and the Delete paths, never reports
\* success for a 401 or 503, a transport error, a body that is not a JSON
\* object, an error object or "result": null, for any number of goroutines
\* and arrays and any interleaving of their use of the shared client.
THEOREM OkNotRejectedHolds == Spec => []OkNotRejected
<1>1. Init => IInv
  BY InitIInv
<1>2. IInv /\ [Next]_vars => IInv'
  BY TypeStep, OkStep DEF IInv
<1>3. IInv => OkNotRejected
  BY IInvOk
<1>4. QED
  BY <1>1, <1>2, <1>3, PTL DEF Spec

=============================================================================
