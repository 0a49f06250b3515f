--------------------------- MODULE PtpTransaction ---------------------------
(***************************************************************************)
(* PTP transactions over a TCP connection: ptp_transaction_new             *)
(* (camlibs/ptp2/ptp.c) with the functions of the PTP/IP transport         *)
(* (ptpip.c) and of Fuji's variant of it (fujiptpip.c).  The driver sends  *)
(* a request and reads the packets of the answer, one after the other,     *)
(* from one stream; nothing but the order of the packets, and the          *)
(* transaction id of responses, says which request a packet answers.       *)
(*                                                                         *)
(* The camera is the environment: it answers the requests in their order,  *)
(* with data and a response.  Requests are numbered by ghosts, since       *)
(* transaction ids start again with every OpenSession.                     *)
(***************************************************************************)
EXTENDS Integers, Sequences

CONSTANTS
  Transports,     \* "ptpip", "fuji": one is chosen when the camera connects
  HandlerFails,   \* the receiver of the data may fail (a full disk)
  FujiRefuses,    \* a Fuji camera refuses to send data with a response alone
  MaxStale,       \* responses of an earlier session that are still to be read
  MaxSize,        \* bound on the units of data of an answer
  MaxRequests     \* bound on the number of requests

ASSUME PtpTransactionAssumption ==
  /\ Transports \subseteq {"ptpip", "fuji"}
  /\ HandlerFails \in BOOLEAN /\ FujiRefuses \in BOOLEAN
  /\ MaxStale \in Nat /\ MaxSize \in Nat /\ MaxRequests \in Nat

VARIABLES
  transport,  \* which functions params->sendreq_func etc. are
  connected,  \* the camera is reachable
  session,    \* "none", "open", "closed"
  nextTid,    \* params->transaction_id
  pc,         \* where ptp_transaction_new is
  ptp,        \* its PTPContainer, and the request it stands for
  left,       \* toread - curread of the data phase
  tries,      \* how many responses are still looked at
  got,        \* ghost: for each unit of data received, the request it answers
  requests,   \* the requests the camera has not answered
  stream,     \* the packets sent by the camera and not read
  answers,    \* ghost: what the camera answered to each request
  result      \* what the last transaction returned

host == <<session, nextTid, pc, ptp, left, tries, got, result>>
vars == <<transport, connected, host, requests, stream, answers>>

\* ok and error are response codes; "request" is the operation code that the
\* container holds until a response is read into it.
Codes == {"ok", "error", "request"}
Commands == {"open", "close", "other"}
Directions == {"none", "get", "send"}

Packet(type, n, tid, size, code) ==
  [type |-> type, n |-> n, tid |-> tid, size |-> size, code |-> code]
Response(n, tid, code) == Packet("response", n, tid, 0, code)
NoRequest == [n |-> 0, cmd |-> "other", dir |-> "none", tid |-> 0, code |-> "request",
              resp |-> 0]
NoResult == [n |-> 0, code |-> "request", resp |-> 0, data |-> <<>>]

Count == Len(answers)
Expected == nextTid - 1
Times(n, k) == [i \in 1..k |-> n]

\* camera_init: a new connection.  What is left of an earlier session carries
\* ids that OpenSession, which starts again with 0, does not have.
Init ==
  /\ transport \in Transports /\ connected = TRUE /\ session = "none"
  /\ nextTid = 0 /\ pc = "idle" /\ ptp = NoRequest /\ left = 0 /\ tries = 0
  /\ got = <<>> /\ requests = <<>> /\ answers = <<>> /\ result = NoResult
  /\ \E k \in 0..MaxStale : stream = [i \in 1..k |-> Response(0, i, "ok")]
-----------------------------------------------------------------------------
(* The camera.                                                             *)

\* The data phase of an answer with s units of data.
Data(r, s) ==
  IF transport = "fuji" THEN <<Packet("data", r.n, r.tid, s, "ok")>>
  ELSE <<Packet("start", r.n, r.tid, s, "ok")>>
       \o [i \in 1..(s - 1) |-> Packet("data", r.n, r.tid, 1, "ok")]
       \o <<Packet("end", r.n, r.tid, IF s = 0 THEN 0 ELSE 1, "ok")>>

\* The camera answers, with data if it was asked for data and does not refuse.
\* A Leica answers CloseSession with transaction id 0.
Answer ==
  /\ connected /\ requests # <<>> /\ requests' = Tail(requests)
  /\ LET r == Head(requests) IN
     \E code \in {"ok", "error"}, s \in (IF r.dir = "get" THEN 0..MaxSize ELSE {0}),
        t \in (IF r.cmd = "close" THEN {0, r.tid} ELSE {r.tid}) :
       /\ code = "error" => s = 0
       /\ code = "error" /\ r.dir = "get" /\ transport = "fuji" => FujiRefuses
       /\ stream' = stream \o (IF r.dir = "get" /\ code = "ok" THEN Data(r, s) ELSE <<>>)
                           \o <<Response(r.n, t, code)>>
       /\ answers' = [answers EXCEPT ![r.n] = [code |-> code, size |-> s]]
  /\ UNCHANGED <<transport, connected, host>>

\* The connection breaks: a part of what was sent still arrives.
Disconnect ==
  /\ connected /\ connected' = FALSE /\ requests' = <<>>
  /\ \E k \in 0..Len(stream) : stream' = SubSeq(stream, 1, k)
  /\ UNCHANGED <<transport, host, answers>>
-----------------------------------------------------------------------------
(* ptp_transaction_new.                                                    *)

Return(c, code) ==
  /\ pc' = "idle" /\ ptp' = c
  /\ result' = [n |-> c.n, code |-> code, resp |-> c.resp, data |-> got']
  /\ session' = CASE c.cmd = "open" /\ code = "ok" -> "open"
                  [] c.cmd = "close" -> "closed"
                  [] OTHER -> session

\* sendreq: a request that cannot be written is not an error.
SendRequest(r) ==
  requests' = IF connected
              THEN Append(requests, [n |-> r.n, cmd |-> r.cmd, dir |-> r.dir, tid |-> r.tid])
              ELSE requests

\* senddata: data that cannot be written is.
SendDataFails(dir) == dir = "send" /\ ~connected

\* Mutant: what the last transaction received is still there.
StartKeepsData(cmd, dir) ==
  LET tid == IF cmd = "open" THEN 0 ELSE nextTid
      r == [NoRequest EXCEPT !.n = Count + 1, !.cmd = cmd, !.dir = dir, !.tid = tid]
  IN /\ pc = "idle" /\ Count < MaxRequests
     /\ nextTid' = tid + 1 /\ UNCHANGED got /\ left' = 0 /\ tries' = 3
     /\ answers' = Append(answers, [code |-> "request", size |-> 0])
     /\ SendRequest(r)
     /\ IF SendDataFails(dir) THEN Return(r, "error")
        ELSE /\ pc' = (IF dir = "get" THEN "data" ELSE "response")
             /\ ptp' = r /\ UNCHANGED <<result, session>>
     /\ UNCHANGED <<transport, connected, stream>>

\* The request is sent, with its data if it has any.
Start(cmd, dir) ==
  LET tid == IF cmd = "open" THEN 0 ELSE nextTid
      r == [NoRequest EXCEPT !.n = Count + 1, !.cmd = cmd, !.dir = dir, !.tid = tid]
  IN /\ pc = "idle" /\ Count < MaxRequests
     /\ nextTid' = tid + 1 /\ got' = <<>> /\ left' = 0 /\ tries' = 3
     /\ answers' = Append(answers, [code |-> "request", size |-> 0])
     /\ SendRequest(r)
     /\ IF SendDataFails(dir) THEN Return(r, "error")
        ELSE /\ pc' = (IF dir = "get" THEN "data" ELSE "response")
             /\ ptp' = r /\ UNCHANGED <<result, session>>
     /\ UNCHANGED <<transport, connected, stream>>

\* ptp_opensession, until one is answered with ok (SessionAlreadyOpened counts
\* as ok); then every other operation;
\* ptp_closesession ends it.
OpenSession == session = "none" /\ Start("open", "none")
Operation == session = "open" /\ \E dir \in Directions : Start("other", dir)
CloseSession == session = "open" /\ Start("close", "none")

Reading(at) == pc = at /\ stream # <<>> /\ stream' = Tail(stream)
Others == <<transport, connected, requests, answers, nextTid>>

\* Mutant: a response instead of the data is not recognised.
GetDataNoResponse ==
  /\ Reading("data") /\ transport = "ptpip"
  /\ LET p == Head(stream) IN
     IF p.type # "start" THEN UNCHANGED <<session, pc, ptp, result, left, got>>
     ELSE /\ left' = p.size
          /\ pc' = (IF p.size = 0 THEN "response" ELSE "payload")
          /\ UNCHANGED <<session, ptp, result, got>>
  /\ UNCHANGED <<Others, tries>>

\* ptp_ptpip_getdata, the first packet: a response is taken for the end of the
\* data phase, and its code for the result of the phase.
GetData ==
  /\ Reading("data") /\ transport = "ptpip"
  /\ UNCHANGED got
  /\ LET p == Head(stream) IN
     CASE p.type = "response" /\ p.code = "ok" ->
            pc' = "response" /\ UNCHANGED <<session, ptp, result, left>>
       [] p.type \in {"data", "end"} \/ (p.type = "response" /\ p.code # "ok") ->
            Return(ptp, "error") /\ UNCHANGED left
       [] p.type = "start" ->
            /\ left' = p.size
            /\ pc' = (IF p.size = 0 THEN "response" ELSE "payload")
            /\ UNCHANGED <<session, ptp, result>>
  /\ UNCHANGED <<Others, tries>>

\* The loop over the data packets; other packets are only logged.
GetPayload ==
  /\ Reading("payload")
  /\ LET p == Head(stream) IN
     \/ /\ p.type \notin {"data", "end"}
        /\ UNCHANGED <<session, pc, ptp, result, left, got>>
     \/ /\ p.type \in {"data", "end"} /\ (p.size > left \/ HandlerFails)
        /\ UNCHANGED <<left, got>> /\ Return(ptp, "error")
     \/ /\ p.type \in {"data", "end"} /\ p.size <= left
        /\ got' = got \o Times(p.n, p.size) /\ left' = left - p.size
        /\ pc' = (IF left' = 0 THEN "response" ELSE "payload")
        /\ UNCHANGED <<session, ptp, result>>
  /\ UNCHANGED <<Others, tries>>

\* ptp_fujiptpip_getdata: one packet, of whatever type, is the data.
FujiGetData ==
  /\ Reading("data") /\ transport = "fuji"
  /\ LET p == Head(stream) IN
     \/ /\ got' = Times(p.n, p.size) /\ pc' = "response"
        /\ UNCHANGED <<session, ptp, result>>
     \/ HandlerFails /\ UNCHANGED got /\ Return(ptp, "error")
  /\ UNCHANGED <<Others, left, tries>>

\* Mutant: the id of a response is not looked at.
CheckedAnyId(c) == UNCHANGED tries /\ Return(c, c.code)

\* Mutant: a response that carries another id ends the transaction at once.
CheckedOnce(c) ==
  /\ UNCHANGED tries
  /\ IF c.tid # Expected /\ c.cmd # "close" THEN Return(c, "error") ELSE Return(c, c.code)

\* Mutant: CloseSession insists on its transaction id.
CheckedClose(c) ==
  IF c.tid < Expected
  THEN ptp' = c /\ UNCHANGED <<session, pc, result, tries>>
  ELSE UNCHANGED tries /\ Return(c, c.code)

\* What ptp_transaction_new makes of a response: one with a smaller id is an
\* old reply, one with a greater id an error, except that OpenSession looks at
\* three of them.
Checked(c) ==
  CASE c.tid < Expected /\ c.cmd # "close" ->
         ptp' = c /\ UNCHANGED <<session, pc, result, tries>>
    [] c.tid > Expected /\ c.cmd = "open" /\ tries > 1 ->
         ptp' = c /\ tries' = tries - 1 /\ UNCHANGED <<session, pc, result>>
    [] c.tid > Expected /\ (c.cmd # "open" \/ tries <= 1) ->
         UNCHANGED tries /\ Return(c, "error")
    [] c.tid = Expected \/ (c.tid < Expected /\ c.cmd = "close") ->
         UNCHANGED tries /\ Return(c, c.code)

\* The container filled from a response.
Received(p) == [ptp EXCEPT !.code = p.code, !.tid = p.tid, !.resp = p.n]

\* Mutant: the end of a data phase is taken like any other packet.
GetResponseNoEnd ==
  /\ Reading("response") /\ transport = "ptpip"
  /\ UNCHANGED got
  /\ LET p == Head(stream) IN
     Checked(IF p.type = "response" THEN Received(p) ELSE ptp)
  /\ UNCHANGED <<Others, left>>

\* ptp_ptpip_getresp: the end of a data phase is skipped, but its id is taken;
\* a packet that is no response leaves the container as it is.
GetResponse ==
  /\ Reading("response") /\ transport = "ptpip"
  /\ UNCHANGED got
  /\ LET p == Head(stream) IN
     CASE p.type = "end" ->
            ptp' = [ptp EXCEPT !.tid = p.tid] /\ UNCHANGED <<session, pc, result, tries>>
       [] p.type = "response" -> Checked(Received(p))
       [] p.type \in {"start", "data"} -> Checked(ptp)
  /\ UNCHANGED <<Others, left>>

\* ptp_fujiptpip_getresp
FujiGetResponse ==
  /\ Reading("response") /\ transport = "fuji"
  /\ UNCHANGED got
  /\ LET p == Head(stream) IN Checked(IF p.type = "response" THEN Received(p) ELSE ptp)
  /\ UNCHANGED <<Others, left>>

\* Nothing can be read any more.
ReadFails ==
  /\ pc # "idle" /\ stream = <<>> /\ ~connected
  /\ UNCHANGED got /\ Return(ptp, "error")
  /\ UNCHANGED <<Others, stream, left, tries>>
-----------------------------------------------------------------------------
Driver ==
  \/ GetData \/ GetPayload \/ GetResponse \/ FujiGetData \/ FujiGetResponse
  \/ ReadFails

Next == OpenSession \/ Operation \/ CloseSession \/ Driver \/ Answer \/ Disconnect

Spec == Init /\ [][Next]_vars

\* The driver reads what there is to read, and a connected camera answers.
FairSpec == Spec /\ WF_vars(Driver) /\ WF_vars(Answer)
-----------------------------------------------------------------------------
Packets ==
  [type : {"start", "data", "end", "response"}, n : 0..MaxRequests, tid : 0..(MaxRequests + MaxStale),
   size : 0..MaxSize, code : {"ok", "error"}]

TypeOK ==
  /\ transport \in Transports /\ connected \in BOOLEAN
  /\ session \in {"none", "open", "closed"}
  /\ nextTid \in 0..MaxRequests
  /\ pc \in {"idle", "data", "payload", "response"}
  /\ ptp \in [n : 0..MaxRequests, cmd : Commands, dir : Directions,
              tid : 0..(MaxRequests + MaxStale), code : Codes, resp : 0..MaxRequests]
  /\ left \in 0..MaxSize /\ tries \in 0..3
  /\ got \in Seq(1..MaxRequests) /\ Len(got) <= MaxSize
  /\ requests \in Seq([n : 1..MaxRequests, cmd : Commands, dir : Directions,
                       tid : 0..MaxRequests])
  /\ stream \in Seq(Packets)
  /\ answers \in Seq([code : Codes, size : 0..MaxSize]) /\ Count <= MaxRequests
  /\ result \in [n : 0..MaxRequests, code : Codes, resp : 0..MaxRequests,
                 data : Seq(1..MaxRequests)]

\* The data of a transaction that succeeds is all of the data the camera sent
\* for it, and nothing else (ptp_transaction: "filled with such a pointer
\* address if data are received").
DataIsOwn ==
  result.code = "ok" => result.data = Times(result.n, answers[result.n].size)

\* A transaction that succeeds was answered with ok, and gives back its own
\* response and data, not those of an earlier request.
SuccessIsOwn ==
  /\ DataIsOwn
  /\ result.code = "ok" => result.resp = result.n /\ answers[result.n].code = "ok"

\* While the camera is connected, a transaction fails only when the camera
\* refused it, and with the camera's code: stale responses of an earlier
\* session and CloseSession's odd ids are no failures.
FailureIsReal ==
  connected /\ result.n # 0 /\ result.code # "ok" =>
    result.code = "error" /\ answers[result.n].code = "error"

\* Between two transactions nothing of an answer is left to be mistaken for
\* the answer to the next request.
NothingLeft ==
  pc = "idle" /\ connected /\ Count > 0 => stream = <<>> /\ requests = <<>>

\* Every transaction returns, also when the connection breaks in the middle.
TransactionsReturn == pc # "idle" ~> pc = "idle"
=============================================================================
