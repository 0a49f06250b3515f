------------------------ MODULE PtpTransactionProofs ------------------------
(***************************************************************************)
(* Proofs about PtpTransaction, for answers of any size and any number of  *)
(* requests: over a stream in which only the order of the packets tells    *)
(* which request they answer, every transaction gets its own answer, as    *)
(* long as the receiver of the data does not fail, and an earlier session  *)
(* left at most two responses behind.                                      *)
(***************************************************************************)
EXTENDS PtpTransaction, SequenceTheorems, TLAPS

\* Both conditions are needed: a receiver that fails leaves the data phase unread, and
\* OpenSession looks at three responses only.
Benign == ~HandlerFails /\ MaxStale <= 2

Size == answers[Count].size

\* The response to the request that runs.
Own(p) ==
  /\ p.type = "response" /\ p.n = Count /\ p.code = answers[Count].code
  /\ p.code \in {"ok", "error"} /\ p.size = 0
  /\ p.tid = Expected \/ (p.tid = 0 /\ ptp.cmd = "close")

\* A response that an earlier session left.
StalePacket(p) == p.type = "response" /\ p.tid >= 1

\* What can come before the response when it is awaited: stale responses, if the
\* session is being opened, or the end of an empty data phase.
Prelude(p) ==
  (p.type = "end" /\ transport = "ptpip") \/ (StalePacket(p) /\ ptp.cmd = "open")

\* The stream holds d more packets and the response, or a part of that when the
\* connection broke.
Rest(d) ==
  /\ Len(stream) <= d + 1 /\ (connected => Len(stream) = d + 1)
  /\ \A i \in 1..Len(stream) : i = d + 1 => Own(stream[i])

\* One unit of the data of the request that runs.
Unit(p) == p.n = Count /\ p.size = 1 /\ p.type \in {"data", "end"}

\* The camera has not answered: only stale responses can be read.
Waiting ==
  /\ connected
  /\ requests = <<[n |-> Count, cmd |-> ptp.cmd, dir |-> ptp.dir, tid |-> Expected]>>
  /\ pc = IF ptp.dir = "get" THEN "data" ELSE "response"
  /\ got = <<>> /\ answers[Count] = [code |-> "request", size |-> 0]
  /\ Len(stream) < tries /\ \A i \in 1..Len(stream) : StalePacket(stream[i])
  /\ stream # <<>> => ptp.cmd = "open"

\* The data phase is still to be read: it was lost, or refused, or is there.
DataAhead ==
  \/ stream = <<>> /\ ~connected
  \/ answers[Count].code = "error" /\ Size = 0 /\ Rest(0)
  \/ /\ transport = "fuji" /\ Rest(1)
     /\ \A i \in 1..Len(stream) : i = 1 => stream[i].n = Count /\ stream[i].size = Size
  \/ /\ transport = "ptpip" /\ Rest(IF Size = 0 THEN 2 ELSE Size + 1)
     /\ \A i \in 1..Len(stream) :
         /\ i = 1 => stream[i].type = "start" /\ stream[i].size = Size
         /\ i = 2 /\ Size = 0 => stream[i].type = "end"
         /\ i > 1 /\ i <= Size + 1 => Unit(stream[i])

\* Fewer packets come before the response than are looked at.
ResponseAhead ==
  \E k \in 0..(tries - 1) :
    Rest(k) /\ \A i \in 1..Len(stream) : i <= k => Prelude(stream[i])

\* The refusal was taken for the data: the driver waits for another response.
ResponseTaken == transport = "fuji" /\ answers[Count].code = "error" /\ stream = <<>>

\* The camera has answered, or never will.
Answered ==
  /\ pc = "data" => got = <<>> /\ DataAhead
  /\ pc = "payload" =>
       /\ left \in 1..Size /\ transport = "ptpip" /\ got = Times(Count, Size - left)
       /\ Rest(left) /\ \A i \in 1..Len(stream) : i <= left => Unit(stream[i])
  /\ pc = "response" => got = Times(Count, Size) /\ (ResponseAhead \/ ResponseTaken)

BusyInv ==
  pc # "idle" =>
    /\ Count >= 1 /\ ptp.n = Count /\ result.n < Count
    /\ IF ptp.cmd = "open" THEN nextTid = 1 /\ ptp.dir = "none" ELSE nextTid >= 2
    /\ pc \in {"data", "payload"} => ptp.dir = "get" /\ tries = 3
    /\ IF requests # <<>> THEN Waiting ELSE Answered

IdleInv ==
  pc = "idle" =>
    /\ requests = <<>>
    /\ IF Count = 0 THEN /\ session = "none" /\ Len(stream) <= 2
                         /\ \A i \in 1..Len(stream) : StalePacket(stream[i])
                    ELSE stream = <<>>

SessionInv ==
  /\ session # "none" => Count >= 1 /\ nextTid >= 1
  /\ nextTid <= Count
  /\ ~connected => requests = <<>>

ResultInv ==
  /\ result.n <= Count
  /\ result.n = 0 => result.code = "request"
  /\ SuccessIsOwn /\ FailureIsReal

TransactionInv == TypeOK /\ BusyInv /\ IdleInv /\ SessionInv /\ ResultInv
-----------------------------------------------------------------------------
(* Sequences.                                                              *)

LEMMA TailOf ==
  ASSUME NEW S, NEW s \in Seq(S), s # <<>>, NEW t, t = Tail(s)
  PROVE  /\ Len(s) \in Nat /\ Len(s) >= 1 /\ Head(s) = s[1] /\ Head(s) \in S
         /\ t \in Seq(S) /\ Len(t) = Len(s) - 1
         /\ \A i \in 1..Len(t) : t[i] = s[i + 1]
<1>1. Len(s) \in Nat /\ Len(s) >= 1
  BY EmptySeq
<1>2. Tail(s) \in Seq(S) /\ Len(Tail(s)) = Len(s) - 1
  BY <1>1
<1>3. \A i \in 1..Len(Tail(s)) : Tail(s)[i] = s[i + 1]
  BY <1>1
<1> QED
  BY <1>1, <1>2, <1>3

LEMMA NoneLeft ==
  ASSUME NEW S, NEW s \in Seq(S), Len(s) = 0
  PROVE  s = <<>>
BY EmptySeq

LEMMA TimesSeq ==
  ASSUME NEW n \in 1..MaxRequests, NEW k \in Nat
  PROVE  Times(n, k) \in Seq(1..MaxRequests) /\ Len(Times(n, k)) = k
BY DEF Times

LEMMA TimesNone == ASSUME NEW n PROVE Times(n, 0) = <<>>
BY DEF Times

LEMMA TimesMore ==
  ASSUME NEW n, NEW k \in Nat
  PROVE  Times(n, k) \o Times(n, 1) = Times(n, k + 1)
BY DEF Times

LEMMA SameSeq ==
  ASSUME NEW S, NEW m \in Nat, NEW u, m > 0 => u \in S, NEW t, t = [i \in 1..m |-> u]
  PROVE  t \in Seq(S) /\ Len(t) = m /\ \A i \in 1..m : t[i] = u
<1>1. \A i \in 1..m : u \in S
  OBVIOUS
<1> QED
  BY <1>1

\* The packets of one data phase of PTP/IP and of Fuji.
LEMMA DataPhase ==
  ASSUME NEW r, r.n \in 0..MaxRequests, r.tid \in 0..(MaxRequests + MaxStale),
         NEW s \in 0..MaxSize
  PROVE  /\ Data(r, s) \in Seq(Packets)
         /\ transport = "fuji" =>
              /\ Len(Data(r, s)) = 1
              /\ Data(r, s)[1] = Packet("data", r.n, r.tid, s, "ok")
         /\ transport # "fuji" =>
              /\ Len(Data(r, s)) = IF s = 0 THEN 2 ELSE s + 1
              /\ Data(r, s)[1] = Packet("start", r.n, r.tid, s, "ok")
              /\ s = 0 => Data(r, s)[2] = Packet("end", r.n, r.tid, 0, "ok")
              /\ \A i \in 2..s : Data(r, s)[i] = Packet("data", r.n, r.tid, 1, "ok")
              /\ s > 0 => Data(r, s)[s + 1] = Packet("end", r.n, r.tid, 1, "ok")
<1> DEFINE first == Packet("start", r.n, r.tid, s, "ok")
           last == Packet("end", r.n, r.tid, IF s = 0 THEN 0 ELSE 1, "ok")
           unit == Packet("data", r.n, r.tid, 1, "ok")
           one == Packet("data", r.n, r.tid, s, "ok")
           m == IF s = 0 THEN 0 ELSE s - 1
           inner == [i \in 1..(s - 1) |-> unit]
<1>1. /\ first \in Packets /\ last \in Packets /\ one \in Packets
      /\ s > 0 => unit \in Packets
  BY PtpTransactionAssumption DEF Packet, Packets
<1>2. m \in Nat /\ 1..(s - 1) = 1..m
  BY PtpTransactionAssumption
<1>3. inner \in Seq(Packets) /\ Len(inner) = m /\ \A i \in 1..m : inner[i] = unit
  <2>1. inner = [i \in 1..m |-> unit]
    BY <1>2
  <2>2. m > 0 => unit \in Packets
    BY <1>1
  <2> HIDE DEF m, unit, inner
  <2> QED
    BY <1>2, <2>1, <2>2, SameSeq
<1>4. transport = "fuji" => Data(r, s) = <<one>>
  BY DEF Data
<1>5. transport # "fuji" => Data(r, s) = <<first>> \o inner \o <<last>>
  BY DEF Data
<1> DEFINE a == <<first>> \o inner
           b == a \o <<last>>
<1> HIDE DEF first, last, unit, one, inner
<1>6. /\ a \in Seq(Packets) /\ Len(a) = 1 + m /\ a[1] = first
      /\ \A i \in 2..(m + 1) : a[i] = unit
  BY <1>1, <1>2, <1>3
<1> HIDE DEF a
<1>7. /\ b \in Seq(Packets) /\ Len(b) = m + 2 /\ b[1] = first
      /\ \A i \in 2..(m + 1) : b[i] = unit
      /\ b[m + 2] = last
  BY <1>1, <1>2, <1>6
<1>8. Data(r, s) = IF transport = "fuji" THEN <<one>> ELSE b
  BY <1>4, <1>5 DEF a
<1> HIDE DEF b
<1>9. <<one>> \in Seq(Packets) /\ Len(<<one>>) = 1 /\ <<one>>[1] = one
  BY <1>1
<1>10. CASE transport = "fuji"
  BY <1>8, <1>9, <1>10 DEF one
<1>11. CASE transport # "fuji" /\ s = 0
  BY <1>7, <1>8, <1>11 DEF first, last
<1>12. CASE transport # "fuji" /\ s # 0
  <2>1. m = s - 1 /\ s > 0
    BY <1>12
  <2> QED
    BY <1>7, <1>8, <1>12, <2>1 DEF first, last, unit
<1> QED
  BY <1>10, <1>11, <1>12
-----------------------------------------------------------------------------
(* Beginning and ending a transaction.                                     *)

LEMMA SizeType == ASSUME TypeOK, Count >= 1 PROVE Size \in 0..MaxSize
<1>1. Count \in 1..Len(answers) /\ answers \in Seq([code : Codes, size : 0..MaxSize])
  BY DEF TypeOK, Count
<1>2. answers[Count] \in [code : Codes, size : 0..MaxSize]
  BY <1>1, ElementOfSeq
<1> QED
  BY <1>2 DEF Size

\* What a transaction returned stays true.
LEMMA ResultKept ==
  ASSUME TypeOK, ResultInv, result' = result, connected' => connected, Count' >= Count,
         result.n # 0 => answers'[result.n] = answers[result.n]
  PROVE  ResultInv'
<1>1. result.n \in Nat /\ Count \in Nat /\ result.n <= Count /\ Count' >= result.n
  BY PtpTransactionAssumption DEF TypeOK, ResultInv, Count
<1>2. SuccessIsOwn'
  BY <1>1 DEF ResultInv, SuccessIsOwn, DataIsOwn
<1>3. FailureIsReal'
  BY <1>1 DEF ResultInv, FailureIsReal
<1> QED
  BY <1>1, <1>2, <1>3 DEF ResultInv

LEMMA InitInv == ASSUME Benign, Init PROVE TransactionInv
<1>1. PICK k \in 0..MaxStale : stream = [i \in 1..k |-> Response(0, i, "ok")]
  BY DEF Init
<1>2. /\ stream \in Seq(Packets) /\ Len(stream) = k /\ k <= 2
      /\ \A i \in 1..Len(stream) : StalePacket(stream[i])
  <2>1. \A i \in 1..k : Response(0, i, "ok") \in Packets /\ StalePacket(Response(0, i, "ok"))
    BY <1>1, PtpTransactionAssumption DEF Response, Packet, Packets, StalePacket
  <2>2. k \in Nat /\ k <= 2
    BY <1>1, PtpTransactionAssumption DEF Benign
  <2> QED
    BY <1>1, <2>1, <2>2
<1>3. Count = 0
  BY EmptySeq DEF Init, Count
<1>4. TypeOK
  <2>1. /\ ptp \in [n : 0..MaxRequests, cmd : Commands, dir : Directions,
                    tid : 0..(MaxRequests + MaxStale), code : Codes, resp : 0..MaxRequests]
        /\ result \in [n : 0..MaxRequests, code : Codes, resp : 0..MaxRequests,
                       data : Seq(1..MaxRequests)]
    BY PtpTransactionAssumption DEF Init, NoRequest, NoResult, Commands, Directions, Codes
  <2>2. Len(got) = 0 /\ got \in Seq(1..MaxRequests)
    BY EmptySeq DEF Init
  <2> QED
    BY <1>2, <1>3, <2>1, <2>2, PtpTransactionAssumption DEF Init, TypeOK
<1>5. BusyInv /\ IdleInv /\ SessionInv
  BY <1>2, <1>3 DEF Init, BusyInv, IdleInv, SessionInv
<1>6. ResultInv
  BY <1>3 DEF Init, ResultInv, NoResult, SuccessIsOwn, DataIsOwn, FailureIsReal
<1> QED
  BY <1>4, <1>5, <1>6 DEF TransactionInv

\* ptp_transaction_new returns: what it was asked, or an error for which there is a
\* reason.
LEMMA ReturnStep ==
  ASSUME TransactionInv, pc # "idle", NEW c, NEW code \in Codes, Return(c, code),
         c \in [n : 0..MaxRequests, cmd : Commands, dir : Directions,
                tid : 0..(MaxRequests + MaxStale), code : Codes, resp : 0..MaxRequests],
         c.n = Count, stream' = <<>>, requests' = <<>>,
         UNCHANGED <<transport, connected, answers, nextTid>>,
         tries' \in 0..3, left' \in 0..MaxSize,
         got' \in Seq(1..MaxRequests), Len(got') <= MaxSize,
         code = "ok" => /\ got' = Times(Count, Size) /\ c.resp = Count
                        /\ answers[Count].code = "ok",
         code # "ok" /\ connected => code = "error" /\ answers[Count].code = "error"
  PROVE  TransactionInv'
<1>1. Count >= 1 /\ Count \in Nat /\ Count' = Count
  BY DEF TransactionInv, TypeOK, BusyInv, Count
<1>2. /\ result' = [n |-> Count, code |-> code, resp |-> c.resp, data |-> got']
      /\ ptp' = c /\ pc' = "idle"
      /\ session' \in {"open", "closed", session}
  BY DEF Return
<1>3. TypeOK'
  <2>1. result' \in [n : 0..MaxRequests, code : Codes, resp : 0..MaxRequests,
                     data : Seq(1..MaxRequests)]
    BY <1>1, <1>2 DEF TransactionInv, TypeOK
  <2>2. stream' \in Seq(Packets) /\ requests' \in Seq([n : 1..MaxRequests, cmd : Commands,
                                                      dir : Directions, tid : 0..MaxRequests])
    OBVIOUS
  <2> QED
    BY <1>1, <1>2, <2>1, <2>2 DEF TransactionInv, TypeOK
<1>4. BusyInv' /\ IdleInv'
  BY <1>1, <1>2 DEF BusyInv, IdleInv
<1>5. SessionInv'
  <2>1. nextTid >= 1
    BY DEF TransactionInv, TypeOK, BusyInv
  <2> QED
    BY <1>1, <1>2, <2>1 DEF TransactionInv, SessionInv
<1>6. ResultInv'
  BY <1>1, <1>2 DEF ResultInv, SuccessIsOwn, DataIsOwn, FailureIsReal, Size
<1> QED
  BY <1>3, <1>4, <1>5, <1>6 DEF TransactionInv

LEMMA StartStep ==
  ASSUME TransactionInv, NEW cmd \in Commands, NEW dir \in Directions, Start(cmd, dir),
         IF cmd = "open" THEN session = "none" /\ dir = "none" ELSE session = "open"
  PROVE  TransactionInv'
<1> DEFINE tid == IF cmd = "open" THEN 0 ELSE nextTid
           r == [NoRequest EXCEPT !.n = Count + 1, !.cmd = cmd, !.dir = dir, !.tid = tid]
           q == [n |-> Count + 1, cmd |-> cmd, dir |-> dir, tid |-> tid]
<1>0. Count \in Nat /\ nextTid \in Nat /\ MaxRequests \in Nat /\ MaxStale \in Nat
  BY PtpTransactionAssumption DEF TransactionInv, TypeOK, Count
<1>1. /\ Count + 1 \in 1..MaxRequests /\ pc = "idle" /\ requests = <<>>
      /\ nextTid <= Count
      /\ cmd # "open" => nextTid >= 1 /\ Count >= 1
      /\ IF Count = 0 THEN /\ Len(stream) <= 2
                           /\ \A i \in 1..Len(stream) : StalePacket(stream[i])
                      ELSE stream = <<>>
  <2>1. pc = "idle" /\ Count < MaxRequests
    BY DEF Start
  <2>2. Count + 1 \in 1..MaxRequests
    BY <1>0, <2>1
  <2> QED
    BY <2>1, <2>2 DEF TransactionInv, IdleInv, SessionInv
<1>2. /\ tid \in 0..MaxRequests /\ tid <= Count
      /\ r \in [n : 0..MaxRequests, cmd : Commands, dir : Directions,
                tid : 0..(MaxRequests + MaxStale), code : Codes, resp : 0..MaxRequests]
      /\ q \in [n : 1..MaxRequests, cmd : Commands, dir : Directions, tid : 0..MaxRequests]
  <2>1. tid \in 0..MaxRequests /\ tid <= Count
    BY <1>0, <1>1
  <2>2. tid \in 0..(MaxRequests + MaxStale) /\ Count + 1 \in 0..MaxRequests
    BY <1>0, <1>1, <2>1
  <2> HIDE DEF tid
  <2>3. NoRequest \in [n : 0..MaxRequests, cmd : Commands, dir : Directions,
                      tid : 0..(MaxRequests + MaxStale), code : Codes, resp : 0..MaxRequests]
    BY <1>0 DEF NoRequest, Commands, Directions, Codes
  <2>4. r \in [n : 0..MaxRequests, cmd : Commands, dir : Directions,
               tid : 0..(MaxRequests + MaxStale), code : Codes, resp : 0..MaxRequests]
    BY <1>1, <2>2, <2>3
  <2>5. q \in [n : 1..MaxRequests, cmd : Commands, dir : Directions, tid : 0..MaxRequests]
    BY <1>1, <2>1
  <2> QED
    BY <2>1, <2>4, <2>5
<1>3. /\ answers' = Append(answers, [code |-> "request", size |-> 0])
      /\ nextTid' = tid + 1 /\ got' = <<>> /\ left' = 0 /\ tries' = 3
      /\ UNCHANGED <<transport, connected, stream>>
      /\ SendRequest(r)
      /\ IF SendDataFails(dir) THEN Return(r, "error")
         ELSE /\ pc' = (IF dir = "get" THEN "data" ELSE "response")
              /\ ptp' = r /\ UNCHANGED <<result, session>>
  BY DEF Start
<1>4. requests' = IF connected THEN <<q>> ELSE <<>>
  BY <1>1, <1>3 DEF SendRequest, NoRequest
<1>5. /\ answers' \in Seq([code : Codes, size : 0..MaxSize]) /\ Count' = Count + 1
      /\ answers'[Count + 1] = [code |-> "request", size |-> 0]
      /\ \A i \in 1..Count : answers'[i] = answers[i]
  <2>1. [code |-> "request", size |-> 0] \in [code : Codes, size : 0..MaxSize]
    BY PtpTransactionAssumption DEF Codes
  <2>2. answers \in Seq([code : Codes, size : 0..MaxSize])
    BY DEF TransactionInv, TypeOK
  <2> QED
    BY <1>3, <2>1, <2>2 DEF Count
<1> HIDE DEF tid, r, q
<1>6. requests' \in Seq([n : 1..MaxRequests, cmd : Commands, dir : Directions,
                         tid : 0..MaxRequests])
  <2> DEFINE Q == [n : 1..MaxRequests, cmd : Commands, dir : Directions, tid : 0..MaxRequests]
  <2>1. q \in Q
    BY <1>2
  <2> HIDE DEF Q
  <2>2. <<q>> \in Seq(Q) /\ <<>> \in Seq(Q)
    BY <2>1
  <2>3. requests' \in Seq(Q)
    BY <1>4, <2>2
  <2> QED
    BY <2>3 DEF Q
<1>7. /\ r.n = Count + 1 /\ r.cmd = cmd /\ r.dir = dir /\ r.resp = 0 /\ r.tid = tid
      /\ r.code = "request" /\ tid = IF cmd = "open" THEN 0 ELSE nextTid
  BY DEF r, tid, NoRequest
<1>8. got' \in Seq(1..MaxRequests) /\ Len(got') = 0
  BY <1>3, EmptySeq
<1>9. ASSUME pc' \in {"idle", "data", "response"}, ptp' = r,
             session' \in {"none", "open", "closed"},
             result' \in [n : 0..MaxRequests, code : Codes, resp : 0..MaxRequests,
                          data : Seq(1..MaxRequests)]
      PROVE  TypeOK'
  <2>1. nextTid' \in 0..MaxRequests
    BY <1>0, <1>1, <1>2, <1>3
  <2>2. left' \in 0..MaxSize /\ tries' \in 0..3 /\ Len(got') <= MaxSize
    BY <1>3, <1>8, PtpTransactionAssumption
  <2>3. Count' <= MaxRequests
    BY <1>0, <1>1, <1>5
  <2> QED
    BY <1>2, <1>3, <1>5, <1>6, <1>8, <1>9, <2>1, <2>2, <2>3 DEF TransactionInv, TypeOK
<1>10. nextTid' >= 1 /\ nextTid' <= Count'
  BY <1>0, <1>2, <1>3, <1>5
<1>11. SessionInv'
  BY <1>0, <1>3, <1>4, <1>5, <1>10 DEF SessionInv
<1>12. CASE SendDataFails(dir)
  <2>1. /\ ~connected /\ dir = "send" /\ Return(r, "error")
    BY <1>3, <1>12 DEF SendDataFails
  <2>2. cmd # "open" /\ stream = <<>> /\ requests' = <<>>
    BY <1>0, <1>1, <1>4, <2>1
  <2>3. /\ result' = [n |-> Count + 1, code |-> "error", resp |-> 0, data |-> got']
        /\ pc' = "idle" /\ ptp' = r /\ session' \in {"open", "closed", session}
    BY <1>7, <2>1 DEF Return
  <2>4. result' \in [n : 0..MaxRequests, code : Codes, resp : 0..MaxRequests,
                     data : Seq(1..MaxRequests)]
    <3>1. Count + 1 \in 0..MaxRequests /\ 0 \in 0..MaxRequests /\ "error" \in Codes
      BY <1>0, <1>1 DEF Codes
    <3> QED
      BY <1>8, <2>3, <3>1
  <2>5. TypeOK'
    BY <1>9, <2>3, <2>4 DEF TransactionInv, TypeOK
  <2>6. BusyInv' /\ IdleInv'
    BY <1>0, <1>3, <1>5, <2>2, <2>3 DEF BusyInv, IdleInv
  <2>7. ResultInv'
    <3>1. result'.n = Count + 1 /\ result'.code = "error" /\ ~connected'
      BY <1>3, <2>1, <2>3
    <3> QED
      BY <1>0, <1>5, <3>1 DEF ResultInv, SuccessIsOwn, DataIsOwn, FailureIsReal
  <2> QED
    BY <1>11, <2>5, <2>6, <2>7 DEF TransactionInv
<1>13. CASE ~SendDataFails(dir)
  <2>1. /\ pc' = (IF dir = "get" THEN "data" ELSE "response")
        /\ ptp' = r /\ result' = result /\ session' = session
    BY <1>3, <1>13
  <2>2. TypeOK'
    BY <1>9, <2>1 DEF TransactionInv, TypeOK
  <2>3. result.n \in Nat /\ result.n <= Count
    BY DEF TransactionInv, TypeOK, ResultInv
  <2>4. ResultInv'
    <3>1. result.n # 0 => answers'[result.n] = answers[result.n]
      BY <1>0, <1>5, <2>3
    <3>2. Count' >= Count /\ (connected' => connected)
      BY <1>0, <1>3, <1>5
    <3> QED
      BY <2>1, <3>1, <3>2, ResultKept DEF TransactionInv
  <2>5. /\ Len(stream) < 3 /\ \A i \in 1..Len(stream) : StalePacket(stream[i])
        /\ stream # <<>> => cmd = "open"
        /\ Len(stream) \in Nat
    <3>1. Len(stream) \in Nat
      BY DEF TransactionInv, TypeOK
    <3>2. CASE Count = 0
      BY <1>1, <3>1, <3>2
    <3>3. CASE Count # 0
      BY <1>1, <3>3, EmptySeq
    <3> QED
      BY <3>2, <3>3
  <2>6. ASSUME IF requests' # <<>> THEN Waiting' ELSE Answered'
        PROVE  TransactionInv'
    <3>1. /\ Count' >= 1 /\ ptp'.n = Count' /\ result'.n < Count'
          /\ pc' \in {"data", "payload"} => ptp'.dir = "get" /\ tries' = 3
      BY <1>0, <1>3, <1>5, <1>7, <2>1, <2>3
    <3>2. IF ptp'.cmd = "open" THEN nextTid' = 1 /\ ptp'.dir = "none" ELSE nextTid' >= 2
      BY <1>0, <1>1, <1>3, <1>7, <2>1
    <3>3. BusyInv' /\ IdleInv'
      BY <2>1, <2>6, <3>1, <3>2 DEF BusyInv, IdleInv
    <3> QED
      BY <1>11, <2>2, <2>4, <3>3 DEF TransactionInv
  <2>7. CASE connected
    <3>1. Expected' = tid /\ Count' = Count + 1
      BY <1>0, <1>2, <1>3, <1>5 DEF Expected
    <3>2. requests' = <<[n |-> Count', cmd |-> ptp'.cmd, dir |-> ptp'.dir, tid |-> Expected']>>
      BY <1>4, <1>7, <2>1, <2>7, <3>1 DEF q
    <3>3. \A i \in 1..Len(stream') : StalePacket(stream[i])
      BY <1>3, <2>5
    <3>4. Waiting'
      BY <1>3, <1>5, <1>7, <2>1, <2>5, <2>7, <3>1, <3>2, <3>3 DEF Waiting, StalePacket
    <3> QED
      BY <2>6, <3>2, <3>4
  <2>8. CASE ~connected
    <3>1. requests' = <<>> /\ Size' = 0 /\ pc' \in {"data", "response"}
      BY <1>4, <1>5, <2>1, <2>8 DEF Size
    <3>2. dir = "get" => stream = <<>>
      BY <1>1, <1>0, <2>5
    <3>3. ResponseAhead'
      <4>1. Len(stream) \in 0..(tries' - 1)
        <5>1. tries' - 1 = 2
          BY <1>3
        <5> QED
          BY <2>5, <5>1
      <4>2. Len(stream) <= Len(stream) + 1
            /\ \A i \in 1..Len(stream) : i # Len(stream) + 1
        BY <2>5
      <4>3. \A i \in 1..Len(stream) : StalePacket(stream[i]) /\ ptp'.cmd = "open"
        BY <1>7, <2>1, <2>5
      <4> QED
        BY <1>3, <2>8, <4>1, <4>2, <4>3 DEF ResponseAhead, Rest, Prelude, StalePacket
    <3>4. Answered'
      <4>1. Times(Count', Size') = <<>>
        BY <3>1, TimesNone
      <4>2. pc' = "data" => stream' = <<>> /\ ~connected'
        BY <1>3, <2>1, <2>8, <3>2
      <4> QED
        BY <1>3, <3>1, <3>3, <4>1, <4>2 DEF Answered, DataAhead
    <3> QED
      BY <2>6, <3>1, <3>4
  <2> QED
    BY <2>7, <2>8
<1> QED
  BY <1>12, <1>13
-----------------------------------------------------------------------------
(* The camera.                                                             *)

\* A step in the middle of a transaction.
LEMMA BusyStep ==
  ASSUME TransactionInv, pc # "idle", pc' \in {"data", "payload", "response"},
         TypeOK', IF requests' # <<>> THEN Waiting' ELSE Answered',
         connected' => connected, Count' = Count,
         UNCHANGED <<transport, session, nextTid, result>>,
         ptp'.n = ptp.n /\ ptp'.cmd = ptp.cmd /\ ptp'.dir = ptp.dir,
         pc' \in {"data", "payload"} => pc \in {"data", "payload"} /\ tries' = tries,
         \A i \in 1..(Count - 1) : answers'[i] = answers[i]
  PROVE  TransactionInv'
<1>1. /\ Count \in Nat /\ result.n \in Nat /\ result.n < Count
      /\ Count >= 1 /\ ptp.n = Count
      /\ IF ptp.cmd = "open" THEN nextTid = 1 /\ ptp.dir = "none" ELSE nextTid >= 2
      /\ pc \in {"data", "payload"} => ptp.dir = "get" /\ tries = 3
  BY DEF TransactionInv, TypeOK, BusyInv, Count
<1>2. BusyInv' /\ IdleInv'
  BY <1>1 DEF BusyInv, IdleInv
<1>3. SessionInv'
  BY DEF TransactionInv, SessionInv, Waiting
<1>4. ResultInv'
  <2>1. result.n # 0 => answers'[result.n] = answers[result.n]
    BY <1>1
  <2> QED
    BY <1>1, <2>1, ResultKept DEF TransactionInv
<1> QED
  BY <1>2, <1>3, <1>4 DEF TransactionInv

LEMMA DisconnectStep == ASSUME TransactionInv, Disconnect PROVE TransactionInv'
<1>1. /\ connected' = FALSE /\ requests' = <<>>
      /\ UNCHANGED <<transport, session, nextTid, pc, ptp, left, tries, got, result, answers>>
  BY DEF Disconnect, host
<1>2. PICK k \in 0..Len(stream) : stream' = SubSeq(stream, 1, k)
  BY DEF Disconnect
<1>3. stream \in Seq(Packets) /\ Len(stream) \in Nat
  BY DEF TransactionInv, TypeOK
<1>4. /\ stream' \in Seq(Packets) /\ Len(stream') = k /\ k <= Len(stream) /\ k \in Nat
      /\ \A i \in 1..k : stream'[i] = stream[i]
  <2>1. k \in Nat /\ k <= Len(stream)
    BY <1>3
  <2> QED
    BY <1>2, <1>3, <2>1
<1>5. TypeOK' /\ Count' = Count
  <2>1. requests' \in Seq([n : 1..MaxRequests, cmd : Commands, dir : Directions,
                           tid : 0..MaxRequests])
    BY <1>1
  <2>2. Count' = Count
    BY <1>1 DEF Count
  <2> QED
    BY <1>1, <1>4, <2>1, <2>2 DEF TransactionInv, TypeOK
<1>6. CASE pc = "idle"
  <2>1. IF Count = 0 THEN /\ session = "none" /\ Len(stream') <= 2
                          /\ \A i \in 1..Len(stream') : StalePacket(stream[i])
                     ELSE stream' = <<>>
    <3>1. CASE Count = 0
      BY <1>3, <1>4, <1>6, <3>1 DEF TransactionInv, IdleInv
    <3>2. CASE Count # 0
      <4>1. Len(stream') = 0
        BY <1>3, <1>4, <1>6, <3>2, EmptySeq DEF TransactionInv, IdleInv
      <4> QED
        BY <1>4, <3>2, <4>1, NoneLeft
    <3> QED
      BY <3>1, <3>2
  <2>2. BusyInv' /\ IdleInv'
    BY <1>1, <1>4, <1>5, <1>6, <2>1 DEF BusyInv, IdleInv, StalePacket
  <2>3. SessionInv'
    BY <1>1, <1>5 DEF TransactionInv, SessionInv
  <2>4. ResultInv'
    <3>1. Count' >= Count
      BY <1>5 DEF TransactionInv, TypeOK, Count
    <3> QED
      BY <1>1, <3>1, ResultKept DEF TransactionInv
  <2> QED
    BY <1>5, <2>2, <2>3, <2>4 DEF TransactionInv
<1>7. CASE pc # "idle"
  <2>1. Answered'
    <3>1. CASE requests # <<>>
      <4>1. Waiting /\ (ptp.cmd = "open" => ptp.dir = "none")
        BY <1>7, <3>1 DEF TransactionInv, BusyInv
      <4>2. Times(Count', Size') = <<>> /\ got' = <<>>
        BY <1>1, <4>1, TimesNone DEF Waiting, Size, Count
      <4>3. pc' = "data" => stream' = <<>>
        <5>1. pc' = "data" => Len(stream) = 0
          BY <1>1, <4>1, EmptySeq DEF Waiting
        <5> QED
          BY <1>3, <1>4, <5>1, NoneLeft
      <4>4. ResponseAhead'
        <5>1. k \in 0..(tries' - 1)
          BY <1>1, <1>3, <1>4, <4>1 DEF Waiting, TransactionInv, TypeOK
        <5>2. \A i \in 1..Len(stream') : StalePacket(stream'[i]) /\ ptp.cmd = "open"
          BY <1>3, <1>4, <4>1, EmptySeq DEF Waiting
        <5>3. Len(stream') <= k + 1 /\ \A i \in 1..Len(stream') : i # k + 1
          BY <1>4
        <5> QED
          BY <1>1, <5>1, <5>2, <5>3 DEF ResponseAhead, Rest, Prelude, StalePacket
      <4>5. pc' \in {"data", "response"}
        BY <1>1, <4>1 DEF Waiting
      <4> QED
        BY <1>1, <4>2, <4>3, <4>4, <4>5 DEF Answered, DataAhead
    <3>2. CASE requests = <<>>
      <4>1. Answered
        BY <1>7, <3>2 DEF TransactionInv, BusyInv
      <4>2. ASSUME NEW d \in Nat, Rest(d) PROVE Rest(d)'
        BY <1>1, <1>3, <1>4, <1>5, <4>2 DEF Rest, Own, Expected
      <4>3. Size' = Size /\ Size \in Nat
        <5>1. Size \in Nat
          BY <1>7, SizeType, PtpTransactionAssumption DEF TransactionInv, BusyInv
        <5> QED
          BY <1>1, <1>5, <5>1 DEF Size
      <4>4. pc = "data" => DataAhead'
        <5>1. ASSUME pc = "data", stream = <<>> PROVE stream' = <<>>
          BY <1>3, <1>4, <5>1, EmptySeq, NoneLeft
        <5>2. CASE pc = "data" /\ stream = <<>>
          BY <1>1, <5>1, <5>2 DEF DataAhead
        <5>3. CASE answers[Count].code = "error" /\ Size = 0 /\ Rest(0)
          BY <1>1, <1>5, <4>2, <4>3, <5>3 DEF DataAhead
        <5>4. CASE transport = "fuji" /\ Rest(1)
                   /\ \A i \in 1..Len(stream) : i = 1 => stream[i].n = Count /\ stream[i].size = Size
          <6>1. \A i \in 1..Len(stream') : i = 1 => stream'[i].n = Count /\ stream'[i].size = Size
            BY <1>3, <1>4, <5>4
          <6> QED
            BY <1>1, <1>5, <4>2, <4>3, <5>4, <6>1 DEF DataAhead
        <5>5. CASE /\ transport = "ptpip" /\ Rest(IF Size = 0 THEN 2 ELSE Size + 1)
                   /\ \A i \in 1..Len(stream) :
                       /\ i = 1 => stream[i].type = "start" /\ stream[i].size = Size
                       /\ i = 2 /\ Size = 0 => stream[i].type = "end"
                       /\ i > 1 /\ i <= Size + 1 => Unit(stream[i])
          <6>1. \A i \in 1..Len(stream') :
                  /\ i = 1 => stream'[i].type = "start" /\ stream'[i].size = Size
                  /\ i = 2 /\ Size = 0 => stream'[i].type = "end"
                  /\ i > 1 /\ i <= Size + 1 => Unit(stream'[i])
            BY <1>3, <1>4, <5>5
          <6>2. PICK m \in Nat : m = IF Size = 0 THEN 2 ELSE Size + 1
            BY <4>3
          <6>3. Rest(m)'
            BY <4>2, <5>5, <6>2
          <6>4. m = IF Size' = 0 THEN 2 ELSE Size' + 1
            BY <4>3, <6>2
          <6> QED
            BY <1>1, <1>5, <4>3, <5>5, <6>1, <6>3, <6>4 DEF DataAhead, Unit, Rest
        <5> QED
          BY <4>1, <5>2, <5>3, <5>4, <5>5 DEF Answered, DataAhead
      <4>5. pc = "payload" => /\ Rest(left)'
                              /\ \A i \in 1..Len(stream') : i <= left => Unit(stream'[i])
        <5>1. left \in Nat
          BY PtpTransactionAssumption DEF TransactionInv, TypeOK
        <5> QED
          BY <1>1, <1>3, <1>4, <4>1, <4>2, <5>1 DEF Answered
      <4>6. pc = "response" /\ ResponseAhead => ResponseAhead'
        <5>1. SUFFICES ASSUME pc = "response", ResponseAhead PROVE ResponseAhead'
          OBVIOUS
        <5>2. PICK j \in 0..(tries - 1) :
                Rest(j) /\ \A i \in 1..Len(stream) : i <= j => Prelude(stream[i])
          BY <5>1 DEF ResponseAhead
        <5>3. j \in Nat
          BY <5>2 DEF TransactionInv, TypeOK
        <5>4. \A i \in 1..Len(stream') : i <= j => Prelude(stream'[i])
          BY <1>3, <1>4, <5>2
        <5>5. Rest(j)'
          BY <4>2, <5>2, <5>3
        <5> QED
          BY <1>1, <5>2, <5>4, <5>5 DEF ResponseAhead, Prelude, StalePacket
      <4>7. ResponseTaken => ResponseTaken'
        <5>1. stream = <<>> => stream' = <<>>
          BY <1>3, <1>4, EmptySeq, NoneLeft
        <5> QED
          BY <1>1, <1>5, <5>1 DEF ResponseTaken
      <4> QED
        BY <1>1, <1>5, <4>1, <4>3, <4>4, <4>5, <4>6, <4>7 DEF Answered, Unit
    <3> QED
      BY <3>1, <3>2
  <2>2. pc' \in {"data", "payload", "response"}
    BY <1>1, <1>7 DEF TransactionInv, TypeOK
  <2> QED
    BY <1>1, <1>5, <1>7, <2>1, <2>2, BusyStep
<1> QED
  BY <1>6, <1>7
LEMMA Appended ==
  ASSUME NEW S, NEW s \in Seq(S), NEW d \in Seq(S), NEW x \in S, NEW t, t = s \o d \o <<x>>
  PROVE  /\ t \in Seq(S) /\ Len(t) = Len(s) + Len(d) + 1
         /\ \A i \in 1..Len(s) : t[i] = s[i]
         /\ \A i \in 1..Len(d) : t[Len(s) + i] = d[i]
         /\ t[Len(s) + Len(d) + 1] = x
<1> DEFINE u == s \o d
<1>1. /\ u \in Seq(S) /\ Len(u) = Len(s) + Len(d)
      /\ \A i \in 1..Len(s) : u[i] = s[i]
      /\ \A i \in 1..Len(d) : u[Len(s) + i] = d[i]
  OBVIOUS
<1>2. Len(s) \in Nat /\ Len(d) \in Nat
  OBVIOUS
<1>3. t = u \o <<x>>
  OBVIOUS
<1> HIDE DEF u
<1>4. /\ t \in Seq(S) /\ Len(t) = Len(u) + 1 /\ t[Len(u) + 1] = x
      /\ \A i \in 1..Len(u) : t[i] = u[i]
  <2>a. <<x>> \in Seq(S) /\ Len(<<x>>) = 1 /\ <<x>>[1] = x
    OBVIOUS
  <2>b. PICK v : v = <<x>>
    OBVIOUS
  <2>1. v \in Seq(S) /\ Len(v) = 1 /\ v[1] = x
    BY <2>a, <2>b
  <2>c. u \in Seq(S) /\ v \in Seq(S)
    BY <1>1, <2>1
  <2>d. /\ u \o v \in Seq(S) /\ Len(u \o v) = Len(u) + Len(v)
        /\ \A i \in 1..(Len(u) + Len(v)) :
             (u \o v)[i] = IF i <= Len(u) THEN u[i] ELSE v[i - Len(u)]
    BY ONLY <2>c, ConcatProperties, Zenon
  <2>2. /\ u \o v \in Seq(S) /\ Len(u \o v) = Len(u) + 1
        /\ \A i \in 1..(Len(u) + 1) : (u \o v)[i] = IF i <= Len(u) THEN u[i] ELSE v[i - Len(u)]
    BY <2>1, <2>d
  <2>3. Len(u) \in Nat
    BY <1>1
  <2>4. t = u \o v
    BY <1>3, <2>b
  <2>5. t[Len(u) + 1] = v[Len(u) + 1 - Len(u)]
    BY <2>2, <2>3, <2>4
  <2>6. Len(u) + 1 - Len(u) = 1
    BY <2>3
  <2> QED
    BY <2>1, <2>2, <2>3, <2>4, <2>5, <2>6
<1> QED
  BY <1>1, <1>2, <1>4

LEMMA AnswerStep == ASSUME TransactionInv, Answer PROVE TransactionInv'
<1> DEFINE r == Head(requests)
<1>1. /\ requests # <<>> /\ requests' = Tail(requests) /\ connected' = connected
      /\ UNCHANGED <<transport, session, nextTid, pc, ptp, left, tries, got, result>>
  BY DEF Answer, host
<1>2. PICK code \in {"ok", "error"}, s \in (IF r.dir = "get" THEN 0..MaxSize ELSE {0}),
           t \in (IF r.cmd = "close" THEN {0, r.tid} ELSE {r.tid}) :
        /\ code = "error" => s = 0
        /\ code = "error" /\ r.dir = "get" /\ transport = "fuji" => FujiRefuses
        /\ stream' = stream \o (IF r.dir = "get" /\ code = "ok" THEN Data(r, s) ELSE <<>>)
                            \o <<Response(r.n, t, code)>>
        /\ answers' = [answers EXCEPT ![r.n] = [code |-> code, size |-> s]]
  BY DEF Answer
<1>3. /\ pc # "idle" /\ Waiting /\ Count >= 1
      /\ IF ptp.cmd = "open" THEN nextTid = 1 /\ ptp.dir = "none" ELSE nextTid >= 2
  BY <1>1 DEF TransactionInv, IdleInv, BusyInv
<1>4. /\ r = [n |-> Count, cmd |-> ptp.cmd, dir |-> ptp.dir, tid |-> Expected]
      /\ requests' = <<>>
  BY <1>1, <1>3 DEF Waiting
<1>5. r.n = Count /\ r.cmd = ptp.cmd /\ r.dir = ptp.dir /\ r.tid = Expected
  BY <1>4
<1> HIDE DEF r
<1>6. /\ MaxRequests \in Nat /\ MaxStale \in Nat /\ MaxSize \in Nat
      /\ nextTid \in 0..MaxRequests /\ Count \in Nat /\ Count <= MaxRequests
      /\ stream \in Seq(Packets) /\ Len(stream) \in Nat
  BY PtpTransactionAssumption DEF TransactionInv, TypeOK, Count
<1>7. /\ s \in 0..MaxSize /\ (ptp.dir # "get" => s = 0)
      /\ t \in 0..(MaxRequests + MaxStale)
      /\ t = Expected \/ (t = 0 /\ ptp.cmd = "close")
      /\ r.n \in 0..MaxRequests /\ r.tid \in 0..(MaxRequests + MaxStale)
  BY <1>2, <1>3, <1>5, <1>6 DEF Expected
<1>a. PICK resp : resp = Response(r.n, t, code)
  OBVIOUS
<1>b. PICK d : d = IF r.dir = "get" /\ code = "ok" THEN Data(r, s) ELSE <<>>
  OBVIOUS
<1>8. /\ resp \in Packets /\ resp.type = "response" /\ resp.n = Count /\ resp.tid = t
      /\ resp.code = code /\ resp.size = 0
  BY <1>a, <1>2, <1>5, <1>6, <1>7 DEF Response, Packet, Packets
<1>9. d \in Seq(Packets)
  BY <1>b, <1>7, DataPhase
<1>10. stream' = stream \o d \o <<resp>>
  BY <1>a, <1>b, <1>2
<1>11. /\ stream' \in Seq(Packets) /\ Len(stream') = Len(stream) + Len(d) + 1
       /\ \A i \in 1..Len(stream) : stream'[i] = stream[i]
       /\ \A i \in 1..Len(d) : stream'[Len(stream) + i] = d[i]
       /\ stream'[Len(stream) + Len(d) + 1] = resp
  BY <1>6, <1>8, <1>9, <1>10, Appended
<1>12. /\ answers' \in Seq([code : Codes, size : 0..MaxSize]) /\ Count' = Count
       /\ answers'[Count] = [code |-> code, size |-> s]
       /\ \A i \in 1..(Count - 1) : answers'[i] = answers[i]
  <2>1. answers \in Seq([code : Codes, size : 0..MaxSize]) /\ Count \in 1..Len(answers)
    BY <1>3, <1>6 DEF TransactionInv, TypeOK, Count
  <2>2. [code |-> code, size |-> s] \in [code : Codes, size : 0..MaxSize]
    BY <1>2, <1>7 DEF Codes
  <2>3. answers' = [answers EXCEPT ![Count] = [code |-> code, size |-> s]]
    BY <1>2, <1>5
  <2>4. /\ answers' \in Seq([code : Codes, size : 0..MaxSize]) /\ Len(answers') = Len(answers)
        /\ \A j \in 1..Len(answers) :
             answers'[j] = IF j = Count THEN [code |-> code, size |-> s] ELSE answers[j]
    BY <2>1, <2>2, <2>3, ExceptSeq
  <2> QED
    BY <2>1, <2>4 DEF Count
<1>13. TypeOK'
  <2>1. requests' \in Seq([n : 1..MaxRequests, cmd : Commands, dir : Directions,
                           tid : 0..MaxRequests])
    BY <1>4
  <2> QED
    BY <1>1, <1>6, <1>11, <1>12, <2>1 DEF TransactionInv, TypeOK
<1>14. Size' = s /\ Expected' = Expected
  BY <1>1, <1>12 DEF Size, Expected
<1>15. resp.code = answers'[Count'].code /\ resp.n = Count'
  BY <1>8, <1>12
<1>16. Own(resp)'
  BY <1>1, <1>2, <1>7, <1>8, <1>14, <1>15 DEF Own
<1>17. Answered'
  <2>1. CASE ptp.dir # "get"
    <3>1. d = <<>> /\ pc = "response" /\ s = 0 /\ got' = <<>>
      BY <1>b, <1>1, <1>3, <1>5, <1>7, <2>1 DEF Waiting
    <3>a. PICK k \in Nat : k = Len(stream)
      BY <1>6
    <3>2. Len(stream') = k + 1 /\ stream'[k + 1] = resp
      BY <1>6, <1>11, <3>a, <3>1
    <3>3. \A i \in 1..k : StalePacket(stream'[i]) /\ ptp.cmd = "open"
      BY <1>3, <1>11, <3>a, EmptySeq DEF Waiting
    <3>4. k \in 0..(tries' - 1)
      BY <1>1, <1>3, <1>6, <3>a DEF Waiting, TransactionInv, TypeOK
    <3>5. Rest(k)'
      BY <1>6, <1>16, <3>2 DEF Rest
    <3>6. ResponseAhead'
      BY <1>1, <3>3, <3>4, <3>5 DEF ResponseAhead, Prelude, StalePacket
    <3>7. got' = Times(Count', Size')
      BY <1>14, <3>1, TimesNone
    <3> QED
      BY <1>1, <3>1, <3>6, <3>7 DEF Answered
  <2>2. CASE ptp.dir = "get"
    <3>1. stream = <<>> /\ pc = "data" /\ got' = <<>>
      BY <1>1, <1>3, <2>2 DEF Waiting
    <3>2. Len(stream) = 0
      BY <3>1, EmptySeq
    <3>3. CASE code = "error"
      <4>1. Size' = 0
        BY <1>2, <1>14, <3>3
      <4>2. d = <<>>
        BY <1>b, <3>3
      <4>3. Len(stream') = 1 /\ stream'[1] = resp
        BY <1>11, <3>2, <4>2
      <4>4. answers'[Count'].code = "error"
        BY <1>8, <1>15, <3>3
      <4>5. Rest(0)'
        BY <1>16, <4>3 DEF Rest
      <4> QED
        BY <1>1, <3>1, <4>1, <4>4, <4>5 DEF Answered, DataAhead
    <3>4. CASE code = "ok"
      <4>1. d = Data(r, s)
        BY <1>b, <1>5, <2>2, <3>4
      <4>2. Len(d) \in Nat /\ Len(stream') = Len(d) + 1 /\ stream'[Len(d) + 1] = resp
            /\ \A i \in 1..Len(d) : stream'[i] = d[i]
        BY <1>9, <1>11, <3>2
      <4>3. CASE transport = "fuji"
        <5>1. Len(d) = 1 /\ d[1] = Packet("data", r.n, r.tid, s, "ok")
          BY <1>7, <4>1, <4>3, DataPhase
        <5>2. Rest(1)'
          BY <1>16, <4>2, <5>1 DEF Rest
        <5>3. stream'[1].n = Count' /\ stream'[1].size = Size'
          BY <1>5, <1>12, <1>14, <4>2, <5>1 DEF Packet
        <5> QED
          BY <1>1, <3>1, <4>3, <5>2, <5>3 DEF Answered, DataAhead
      <4>4. CASE transport # "fuji"
        <5>1. transport' = "ptpip"
          BY <1>1, <4>4, PtpTransactionAssumption DEF TransactionInv, TypeOK
        <5>2. /\ Len(d) = IF s = 0 THEN 2 ELSE s + 1
              /\ d[1] = Packet("start", r.n, r.tid, s, "ok")
              /\ s = 0 => d[2] = Packet("end", r.n, r.tid, 0, "ok")
              /\ \A i \in 2..s : d[i] = Packet("data", r.n, r.tid, 1, "ok")
              /\ s > 0 => d[s + 1] = Packet("end", r.n, r.tid, 1, "ok")
          BY <1>7, <4>1, <4>4, DataPhase
        <5>3. PICK m \in Nat : m = Len(d) /\ m = IF Size' = 0 THEN 2 ELSE Size' + 1
          BY <1>14, <4>2, <5>2
        <5>7. Rest(m)'
          BY <1>16, <4>2, <5>3 DEF Rest
        <5>4. stream'[1].type = "start" /\ stream'[1].size = Size'
          BY <1>7, <1>14, <4>2, <5>2 DEF Packet
        <5>5. Size' = 0 => stream'[2].type = "end"
          BY <1>14, <4>2, <5>2 DEF Packet
        <5>6. ASSUME NEW i \in 1..Len(stream'), i > 1, i <= s + 1
              PROVE  /\ stream'[i].n = Count /\ stream'[i].size = 1
                     /\ stream'[i].type \in {"data", "end"}
          <6>1. s \in Nat /\ s > 0 /\ Len(d) = s + 1 /\ i \in 1..Len(d) /\ stream'[i] = d[i]
            BY <1>6, <1>7, <4>2, <5>2, <5>6
          <6>2. d[i] \in {Packet("data", r.n, r.tid, 1, "ok"), Packet("end", r.n, r.tid, 1, "ok")}
            BY <5>2, <5>6, <6>1
          <6> QED
            BY <1>5, <6>1, <6>2 DEF Packet
        <5> QED
          BY <1>1, <1>12, <1>14, <3>1, <5>1, <5>3, <5>4, <5>5, <5>6, <5>7
             DEF Answered, DataAhead, Unit, Rest
      <4> QED
        BY <4>3, <4>4
    <3> QED
      BY <1>2, <3>3, <3>4
  <2> QED
    BY <2>1, <2>2
<1>18. pc' \in {"data", "payload", "response"}
  BY <1>1, <1>3 DEF TransactionInv, TypeOK
<1> QED
  BY <1>1, <1>3, <1>4, <1>12, <1>13, <1>17, <1>18, BusyStep
-----------------------------------------------------------------------------
(* Reading the answer.                                                     *)

LEMMA RestTail ==
  ASSUME TypeOK, NEW d \in Nat, d >= 1, Rest(d), stream # <<>>, stream' = Tail(stream),
         UNCHANGED <<transport, connected, answers, nextTid>>, ptp'.cmd = ptp.cmd,
         NEW e, e = d - 1
  PROVE  Rest(e)'
<1>1. stream \in Seq(Packets)
  BY DEF TypeOK
<1>2. /\ Len(stream) \in Nat /\ Len(stream) >= 1 /\ Len(stream') = Len(stream) - 1
      /\ \A i \in 1..Len(stream') : stream'[i] = stream[i + 1]
  BY <1>1, TailOf
<1>3. e + 1 = d /\ e \in Nat
  OBVIOUS
<1>a. Len(stream) <= d + 1 /\ \A i \in 1..Len(stream) : i = d + 1 => Own(stream[i])
  BY DEF Rest
<1>b. connected' => Len(stream) = d + 1
  <2>1. connected' => connected
    OBVIOUS
  <2> QED
    BY <2>1 DEF Rest
<1>c. /\ transport' = transport /\ answers' = answers /\ Count' = Count
      /\ Expected' = Expected
  BY DEF Count, Expected
<1>4. ASSUME NEW i \in 1..Len(stream'), i = e + 1
      PROVE  stream'[i] = stream[d + 1] /\ Own(stream[d + 1])
  <2>1. stream'[i] = stream[d + 1] /\ d + 1 \in 1..Len(stream)
    BY <1>2, <1>3, <1>4
  <2> QED
    BY <1>a, <2>1
<1>5. Len(stream') <= e + 1 /\ (connected' => Len(stream') = e + 1)
  <2>1. Len(stream') <= e + 1
    BY <1>2, <1>3, <1>a
  <2>2. ASSUME connected' PROVE Len(stream') = e + 1
    <3>1. Len(stream) = d + 1
      BY <1>b, <2>2
    <3> QED
      BY <1>2, <1>3, <3>1
  <2> QED
    BY <2>1, <2>2
<1> QED
  BY <1>c, <1>4, <1>5 DEF Rest, Own

LEMMA RestDone ==
  ASSUME TypeOK, Rest(0), stream # <<>>, stream' = Tail(stream)
  PROVE  Own(stream[1]) /\ stream' = <<>>
<1>1. stream \in Seq(Packets)
  BY DEF TypeOK
<1>2. /\ Len(stream) \in Nat /\ Len(stream) >= 1 /\ Len(stream') = Len(stream) - 1
      /\ stream' \in Seq(Packets)
  BY <1>1, TailOf
<1>3. Len(stream) = 1 /\ Len(stream') = 0
  BY <1>2 DEF Rest
<1> QED
  BY <1>2, <1>3, NoneLeft DEF Rest

\* A response with the awaited id, or with CloseSession's, ends the transaction.
LEMMA CheckedOwn ==
  ASSUME NEW c, Checked(c), Expected \in Nat,
         c.tid = Expected \/ (c.tid = 0 /\ c.cmd = "close")
  PROVE  tries' = tries /\ Return(c, c.code)
<1>1. CASE c.tid = Expected
  BY <1>1 DEF Checked
<1>2. CASE c.tid = 0 /\ c.cmd = "close" /\ Expected > 0
  BY <1>2 DEF Checked
<1> QED
  BY <1>1, <1>2

\* A response of an earlier session costs one of the three looks.
LEMMA CheckedStale ==
  ASSUME NEW c, Checked(c), Expected = 0, c.tid \in Nat, c.tid >= 1, c.cmd = "open",
         tries > 1, tries \in Nat
  PROVE  ptp' = c /\ tries' = tries - 1 /\ UNCHANGED <<session, pc, result>>
<1>1. /\ ~(c.tid < Expected) /\ c.tid > Expected /\ c.tid # Expected /\ ~(tries <= 1)
  OBVIOUS
<1> QED
  BY <1>1 DEF Checked

LEMMA ReceivedType ==
  ASSUME TypeOK, NEW p \in Packets
  PROVE  /\ Received(p) \in [n : 0..MaxRequests, cmd : Commands, dir : Directions,
                             tid : 0..(MaxRequests + MaxStale), code : Codes,
                             resp : 0..MaxRequests]
         /\ Received(p).n = ptp.n /\ Received(p).cmd = ptp.cmd /\ Received(p).dir = ptp.dir
         /\ Received(p).code = p.code /\ Received(p).tid = p.tid /\ Received(p).resp = p.n
<1>1. /\ ptp \in [n : 0..MaxRequests, cmd : Commands, dir : Directions,
                  tid : 0..(MaxRequests + MaxStale), code : Codes, resp : 0..MaxRequests]
      /\ p.code \in Codes /\ p.tid \in 0..(MaxRequests + MaxStale) /\ p.n \in 0..MaxRequests
  BY DEF TypeOK, Packets, Codes
<1> QED
  BY <1>1 DEF Received

LEMMA ReadFailsStep == ASSUME TransactionInv, ReadFails PROVE TransactionInv'
<1>1. /\ pc # "idle" /\ stream = <<>> /\ ~connected /\ Return(ptp, "error")
      /\ UNCHANGED <<transport, connected, requests, answers, nextTid, stream, left, tries, got>>
  BY DEF ReadFails, Others
<1>2. /\ requests = <<>> /\ ptp.n = Count /\ left \in 0..MaxSize /\ tries \in 0..3
      /\ got \in Seq(1..MaxRequests) /\ Len(got) <= MaxSize
      /\ ptp \in [n : 0..MaxRequests, cmd : Commands, dir : Directions,
                  tid : 0..(MaxRequests + MaxStale), code : Codes, resp : 0..MaxRequests]
  BY <1>1 DEF TransactionInv, TypeOK, SessionInv, BusyInv
<1>3. "error" \in Codes
  BY DEF Codes
<1> QED
  BY <1>1, <1>2, <1>3, ReturnStep

\* The first packet of a data phase: the camera has answered.
LEMMA ReadsData ==
  ASSUME TransactionInv, pc = "data", stream # <<>>
  PROVE  requests = <<>> /\ got = <<>> /\ DataAhead /\ tries = 3
<1>1. /\ IF requests # <<>> THEN Waiting ELSE Answered
      /\ ptp.dir = "get" /\ (ptp.cmd = "open" => ptp.dir = "none") /\ tries = 3
  BY DEF TransactionInv, BusyInv
<1>2. ~Waiting
  BY <1>1 DEF Waiting
<1> QED
  BY <1>1, <1>2 DEF Answered
LEMMA GetDataStep == ASSUME TransactionInv, GetData PROVE TransactionInv'
<1> DEFINE p == Head(stream)
<1>1. /\ pc = "data" /\ stream # <<>> /\ stream' = Tail(stream) /\ transport = "ptpip"
      /\ UNCHANGED <<transport, connected, requests, answers, nextTid, tries, got>>
      /\ CASE p.type = "response" /\ p.code = "ok" ->
                pc' = "response" /\ UNCHANGED <<session, ptp, result, left>>
           [] p.type \in {"data", "end"} \/ (p.type = "response" /\ p.code # "ok") ->
                Return(ptp, "error") /\ UNCHANGED left
           [] p.type = "start" ->
                /\ left' = p.size
                /\ pc' = (IF p.size = 0 THEN "response" ELSE "payload")
                /\ UNCHANGED <<session, ptp, result>>
  BY DEF GetData, Reading, Others
<1> HIDE DEF p
<1>2. requests = <<>> /\ got = <<>> /\ DataAhead /\ tries = 3 /\ requests' = <<>>
  BY <1>1, ReadsData
<1>3. /\ stream \in Seq(Packets) /\ Len(stream) \in Nat /\ Len(stream) >= 1
      /\ p = stream[1] /\ p \in Packets
      /\ stream' \in Seq(Packets) /\ Len(stream') = Len(stream) - 1
      /\ \A i \in 1..Len(stream') : stream'[i] = stream[i + 1]
  BY <1>1, TailOf DEF TransactionInv, TypeOK, p
<1>4. /\ TypeOK /\ Count \in Nat /\ Count >= 1 /\ ptp.n = Count /\ Size \in 0..MaxSize
      /\ MaxSize \in Nat
  BY <1>1, SizeType, PtpTransactionAssumption DEF TransactionInv, TypeOK, BusyInv, Count
<1>5. Count' = Count /\ Size' = Size
  BY <1>1 DEF Count, Size
<1>6. CASE answers[Count].code = "error" /\ Size = 0 /\ Rest(0)
  <2>1. Own(p) /\ stream' = <<>>
    BY <1>1, <1>3, <1>4, <1>6, RestDone
  <2>2. Return(ptp, "error") /\ left' = left
    BY <1>1, <1>6, <2>1 DEF Own
  <2>3. "error" \in Codes /\ left \in 0..MaxSize /\ tries \in 0..3
        /\ got \in Seq(1..MaxRequests) /\ Len(got) <= MaxSize
        /\ ptp \in [n : 0..MaxRequests, cmd : Commands, dir : Directions,
                    tid : 0..(MaxRequests + MaxStale), code : Codes, resp : 0..MaxRequests]
    BY <1>4 DEF TypeOK, Codes
  <2> QED
    BY <1>1, <1>2, <1>4, <1>6, <2>1, <2>2, <2>3, ReturnStep
<1>7. ASSUME /\ Rest(IF Size = 0 THEN 2 ELSE Size + 1)
             /\ \A i \in 1..Len(stream) :
                  /\ i = 1 => stream[i].type = "start" /\ stream[i].size = Size
                  /\ i = 2 /\ Size = 0 => stream[i].type = "end"
                  /\ i > 1 /\ i <= Size + 1 => Unit(stream[i])
      PROVE  TransactionInv'
  <2>1. p.type = "start" /\ p.size = Size
    BY <1>3, <1>7
  <2>2. /\ left' = Size /\ pc' = (IF Size = 0 THEN "response" ELSE "payload")
        /\ UNCHANGED <<session, ptp, result>>
    BY <1>1, <2>1
  <2>3. TypeOK'
    BY <1>1, <1>3, <1>4, <1>5, <2>2 DEF TypeOK
  <2>4. CASE Size = 0
    <3>1. Rest(2)
      BY <1>7, <2>4
    <3>2. Rest(1)'
      BY <1>1, <1>4, <2>2, <3>1, RestTail
    <3>3. ASSUME NEW i \in 1..Len(stream'), i <= 1 PROVE stream'[i].type = "end"
      <4>1. i = 1 /\ 2 \in 1..Len(stream) /\ stream'[i] = stream[2]
        BY <1>3, <3>3
      <4> QED
        BY <1>7, <2>4, <4>1
    <3>4. ResponseAhead'
      <4>1. 1 \in 0..(tries' - 1)
        BY <1>1, <1>2
      <4> QED
        BY <1>1, <3>2, <3>3, <4>1 DEF ResponseAhead, Prelude
    <3>5. got' = Times(Count', Size')
      BY <1>1, <1>2, <1>5, <2>4, TimesNone
    <3>6. pc' = "response"
      BY <2>2, <2>4
    <3>7. Answered'
      BY <3>4, <3>5, <3>6 DEF Answered
    <3> QED
      BY <1>1, <1>2, <1>5, <2>2, <2>3, <3>6, <3>7, BusyStep
  <2>5. CASE Size # 0
    <3>1. PICK m \in Nat : m = Size + 1 /\ m >= 1
      BY <1>4
    <3>2. Rest(m)
      BY <1>7, <2>5, <3>1
    <3>3. PICK s \in Nat : s = Size /\ s = m - 1 /\ s >= 1
      BY <1>4, <2>5, <3>1
    <3>4. Rest(s)'
      BY <1>1, <1>4, <2>2, <3>1, <3>2, <3>3, RestTail
    <3>5. ASSUME NEW i \in 1..Len(stream'), i <= s
          PROVE  /\ stream'[i].n = Count /\ stream'[i].size = 1
                 /\ stream'[i].type \in {"data", "end"}
      <4>1. i + 1 \in 1..Len(stream) /\ i + 1 > 1 /\ i + 1 <= Size + 1
            /\ stream'[i] = stream[i + 1]
        BY <1>3, <3>3, <3>5
      <4>2. Unit(stream[i + 1])
        BY <1>7, <4>1
      <4> QED
        BY <4>1, <4>2 DEF Unit
    <3>6. got' = Times(Count', s - left') /\ left' \in 1..s
      BY <1>1, <1>2, <1>5, <2>2, <3>3, TimesNone
    <3>7. pc' = "payload"
      BY <2>2, <2>5
    <3>8. Answered'
      <4>1. left' = s /\ Size' = s
        BY <1>5, <2>2, <3>3
      <4> QED
        BY <1>1, <1>5, <3>4, <3>5, <3>6, <3>7, <4>1 DEF Answered, Unit, Rest
    <3> QED
      BY <1>1, <1>2, <1>5, <2>2, <2>3, <3>7, <3>8, BusyStep
  <2> QED
    BY <2>4, <2>5
<1> QED
  BY <1>1, <1>2, <1>6, <1>7 DEF DataAhead

LEMMA GetPayloadStep == ASSUME Benign, TransactionInv, GetPayload PROVE TransactionInv'
<1> DEFINE p == Head(stream)
<1>1. /\ pc = "payload" /\ stream # <<>> /\ stream' = Tail(stream)
      /\ UNCHANGED <<transport, connected, requests, answers, nextTid, tries>>
      /\ \/ p.type \notin {"data", "end"}
         \/ p.size > left
         \/ /\ p.type \in {"data", "end"} /\ p.size <= left
            /\ got' = got \o Times(p.n, p.size) /\ left' = left - p.size
            /\ pc' = (IF left' = 0 THEN "response" ELSE "payload")
            /\ UNCHANGED <<session, ptp, result>>
  BY DEF GetPayload, Reading, Others, Benign
<1> HIDE DEF p
<1>2. /\ requests = <<>> /\ requests' = <<>> /\ Answered /\ tries = 3
      /\ Count >= 1 /\ ptp.n = Count
  BY <1>1 DEF TransactionInv, BusyInv, Waiting
<1>3. /\ left \in 1..Size /\ transport = "ptpip" /\ got = Times(Count, Size - left)
      /\ Rest(left) /\ \A i \in 1..Len(stream) : i <= left => Unit(stream[i])
  BY <1>1, <1>2 DEF Answered
<1>4. /\ stream \in Seq(Packets) /\ Len(stream) \in Nat /\ Len(stream) >= 1
      /\ p = stream[1]
      /\ stream' \in Seq(Packets) /\ Len(stream') = Len(stream) - 1
      /\ \A i \in 1..Len(stream') : stream'[i] = stream[i + 1]
  BY <1>1, TailOf DEF TransactionInv, TypeOK, p
<1>5. /\ TypeOK /\ Count \in 1..MaxRequests /\ Size \in 0..MaxSize /\ MaxSize \in Nat
      /\ Size \in Nat /\ left \in Nat /\ left >= 1 /\ left <= Size
  BY <1>2, <1>3, SizeType, PtpTransactionAssumption DEF TransactionInv, TypeOK, Count
<1>6. Count' = Count /\ Size' = Size
  BY <1>1 DEF Count, Size
<1>7. p.n = Count /\ p.size = 1 /\ p.type \in {"data", "end"}
  BY <1>3, <1>4, <1>5 DEF Unit
<1>8. PICK e \in Nat : e = left - 1 /\ e < Size /\ Size - left + 1 = Size - e
  BY <1>5
<1>9. /\ got' = got \o Times(Count, 1) /\ left' = e
      /\ pc' = (IF e = 0 THEN "response" ELSE "payload")
      /\ UNCHANGED <<session, ptp, result>>
  BY <1>1, <1>5, <1>7, <1>8
<1>10. got' = Times(Count, Size - e)
  <2>1. Size - left \in Nat
    BY <1>5
  <2> QED
    BY <1>3, <1>8, <1>9, <2>1, TimesMore
<1>11. Rest(e)'
  BY <1>1, <1>3, <1>5, <1>8, <1>9, RestTail
<1>12. TypeOK'
  <2>1. Size - e \in Nat /\ Size - e <= MaxSize
    BY <1>5, <1>8
  <2>2. got' \in Seq(1..MaxRequests) /\ Len(got') = Size - e
    BY <1>5, <1>10, <2>1, TimesSeq
  <2>3. left' \in 0..MaxSize
    BY <1>5, <1>8, <1>9
  <2> QED
    BY <1>1, <1>4, <1>5, <1>6, <1>9, <2>1, <2>2, <2>3 DEF TypeOK
<1>13. CASE e = 0
  <2>1. pc' = "response" /\ got' = Times(Count', Size')
    BY <1>5, <1>6, <1>9, <1>10, <1>13
  <2>2. ResponseAhead'
    <3>1. 0 \in 0..(tries' - 1) /\ Rest(0)'
      BY <1>1, <1>2, <1>11, <1>13
    <3> QED
      BY <3>1 DEF ResponseAhead
  <2>3. Answered'
    BY <2>1, <2>2 DEF Answered
  <2> QED
    BY <1>1, <1>2, <1>6, <1>9, <1>12, <2>1, <2>3, BusyStep
<1>14. CASE e # 0
  <2>1. pc' = "payload" /\ left' \in 1..Size'
    BY <1>5, <1>6, <1>8, <1>9, <1>14
  <2>2. ASSUME NEW i \in 1..Len(stream'), i <= e
        PROVE  /\ stream'[i].n = Count /\ stream'[i].size = 1
               /\ stream'[i].type \in {"data", "end"}
    <3>1. i + 1 \in 1..Len(stream) /\ i + 1 <= left /\ stream'[i] = stream[i + 1]
      BY <1>4, <1>5, <1>8, <2>2
    <3>2. Unit(stream[i + 1])
      BY <1>3, <3>1
    <3> QED
      BY <3>1, <3>2 DEF Unit
  <2>3. Answered'
    BY <1>1, <1>3, <1>6, <1>9, <1>10, <1>11, <2>1, <2>2 DEF Answered, Unit, Rest
  <2> QED
    BY <1>1, <1>2, <1>6, <1>9, <1>12, <2>1, <2>3, BusyStep
<1> QED
  BY <1>13, <1>14

LEMMA FujiGetDataStep == ASSUME Benign, TransactionInv, FujiGetData PROVE TransactionInv'
<1> DEFINE p == Head(stream)
<1>1. /\ pc = "data" /\ stream # <<>> /\ stream' = Tail(stream) /\ transport = "fuji"
      /\ UNCHANGED <<transport, connected, requests, answers, nextTid, tries, left>>
      /\ got' = Times(p.n, p.size) /\ pc' = "response" /\ UNCHANGED <<session, ptp, result>>
  BY DEF FujiGetData, Reading, Others, Benign
<1> HIDE DEF p
<1>2. requests = <<>> /\ DataAhead /\ tries = 3 /\ requests' = <<>>
  BY <1>1, ReadsData
<1>3. /\ stream \in Seq(Packets) /\ Len(stream) \in Nat /\ Len(stream) >= 1
      /\ p = stream[1] /\ stream' \in Seq(Packets)
  BY <1>1, TailOf DEF TransactionInv, TypeOK, p
<1>4. /\ TypeOK /\ Count \in 1..MaxRequests /\ Size \in 0..MaxSize /\ MaxSize \in Nat
  BY <1>1, SizeType, PtpTransactionAssumption DEF TransactionInv, TypeOK, BusyInv, Count
<1>5. Count' = Count /\ Size' = Size
  BY <1>1 DEF Count, Size
<1>6. /\ p.n = Count /\ p.size = Size
      /\ ResponseAhead' \/ ResponseTaken'
  <2>1. CASE /\ Rest(1)
             /\ \A i \in 1..Len(stream) : i = 1 => stream[i].n = Count /\ stream[i].size = Size
    <3>1. p.n = Count /\ p.size = Size
      BY <1>3, <2>1
    <3>2. Rest(0)' /\ 0 \in 0..(tries' - 1)
      BY <1>1, <1>2, <1>4, <2>1, RestTail
    <3> QED
      BY <3>1, <3>2 DEF ResponseAhead
  <2>2. CASE answers[Count].code = "error" /\ Size = 0 /\ Rest(0)
    <3>1. Own(p) /\ stream' = <<>>
      BY <1>1, <1>3, <1>4, <2>2, RestDone
    <3> QED
      BY <1>1, <1>5, <2>2, <3>1 DEF Own, ResponseTaken
  <2> QED
    BY <1>1, <1>2, <2>1, <2>2 DEF DataAhead
<1>7. Answered'
  BY <1>1, <1>5, <1>6 DEF Answered
<1>8. TypeOK'
  <2>1. got' \in Seq(1..MaxRequests) /\ Len(got') <= MaxSize
    BY <1>1, <1>4, <1>6, TimesSeq
  <2> QED
    BY <1>1, <1>3, <1>4, <1>5, <2>1 DEF TypeOK
<1> QED
  BY <1>1, <1>2, <1>5, <1>7, <1>8, BusyStep

\* The container looks at one packet while the response is awaited.
LEMMA LookStep ==
  ASSUME TransactionInv, pc = "response", stream # <<>>, stream' = Tail(stream),
         UNCHANGED <<transport, connected, requests, answers, nextTid, left, got>>,
         NEW p, p = Head(stream),
         p.type = "response" => Checked(Received(p)),
         p.type = "end" /\ transport = "ptpip" =>
           ptp' = [ptp EXCEPT !.tid = p.tid] /\ UNCHANGED <<session, pc, result, tries>>
  PROVE  TransactionInv'
<1>1. /\ stream \in Seq(Packets) /\ Len(stream) \in Nat /\ Len(stream) >= 1
      /\ p = stream[1] /\ p \in Packets
      /\ stream' \in Seq(Packets) /\ Len(stream') = Len(stream) - 1
      /\ \A i \in 1..Len(stream') : stream'[i] = stream[i + 1]
  BY TailOf DEF TransactionInv, TypeOK
<1>2. /\ TypeOK /\ Count \in 1..MaxRequests /\ Size \in 0..MaxSize /\ ptp.n = Count
      /\ tries \in 0..3 /\ left \in 0..MaxSize
      /\ got \in Seq(1..MaxRequests) /\ Len(got) <= MaxSize
      /\ IF ptp.cmd = "open" THEN nextTid = 1 /\ ptp.dir = "none" ELSE nextTid >= 2
      /\ nextTid \in Nat
      /\ IF requests # <<>> THEN Waiting ELSE Answered
  BY SizeType, PtpTransactionAssumption DEF TransactionInv, TypeOK, BusyInv, Count
<1>3. Count' = Count /\ Size' = Size /\ Expected' = Expected /\ Expected \in Nat
  BY <1>2 DEF Count, Size, Expected
<1>4. PICK c : c = Received(p)
  OBVIOUS
<1>5. /\ c \in [n : 0..MaxRequests, cmd : Commands, dir : Directions,
                tid : 0..(MaxRequests + MaxStale), code : Codes, resp : 0..MaxRequests]
      /\ c.n = Count /\ c.cmd = ptp.cmd /\ c.dir = ptp.dir
      /\ c.code = p.code /\ c.tid = p.tid /\ c.resp = p.n
  BY <1>1, <1>2, <1>4, ReceivedType
<1>6. c.tid \in Nat
  BY <1>5, PtpTransactionAssumption
<1>7. ASSUME ptp' \in [n : 0..MaxRequests, cmd : Commands, dir : Directions,
                      tid : 0..(MaxRequests + MaxStale), code : Codes, resp : 0..MaxRequests],
             tries' \in 0..3, UNCHANGED <<session, pc, result>>
      PROVE  TypeOK'
  BY <1>1, <1>2, <1>3, <1>7 DEF TypeOK
<1>8. ASSUME StalePacket(p), ptp.cmd = "open", tries > 1
      PROVE  ptp' = c /\ tries' = tries - 1 /\ UNCHANGED <<session, pc, result>>
  <2>1. Checked(c) /\ c.tid >= 1 /\ c.cmd = "open" /\ Expected = 0 /\ tries \in Nat
    BY <1>2, <1>4, <1>5, <1>8 DEF StalePacket, Expected
  <2> QED
    BY <1>6, <1>8, <2>1, CheckedStale
<1>9. CASE requests # <<>>
  <2>1. Waiting
    BY <1>2, <1>9
  <2>2. /\ StalePacket(p) /\ ptp.cmd = "open" /\ tries > 1
        /\ Len(stream) < tries /\ \A i \in 1..Len(stream) : StalePacket(stream[i])
    BY <1>1, <1>2, <2>1 DEF Waiting
  <2>3. ptp' = c /\ tries' = tries - 1 /\ UNCHANGED <<session, pc, result>>
    BY <1>8, <2>2
  <2>4. TypeOK'
    BY <1>2, <1>5, <1>7, <2>2, <2>3
  <2>5. /\ Len(stream') < tries' /\ \A i \in 1..Len(stream') : StalePacket(stream'[i])
    BY <1>1, <1>2, <2>2, <2>3
  <2>6. /\ connected' /\ got' = <<>> /\ ptp'.cmd = "open"
        /\ requests' = <<[n |-> Count', cmd |-> ptp'.cmd, dir |-> ptp'.dir, tid |-> Expected']>>
        /\ pc' = IF ptp'.dir = "get" THEN "data" ELSE "response"
        /\ answers'[Count'] = [code |-> "request", size |-> 0]
    BY <1>3, <1>5, <2>1, <2>2, <2>3 DEF Waiting
  <2>7. Waiting'
    BY <2>5, <2>6 DEF Waiting, StalePacket
  <2>8. requests' # <<>> /\ pc' = "response" /\ pc # "idle"
    BY <1>9, <2>3
  <2> QED
    BY <1>2, <1>3, <1>5, <2>3, <2>4, <2>7, <2>8, BusyStep
<1>10. CASE requests = <<>>
  <2>1. got = Times(Count, Size) /\ ResponseAhead
    BY <1>2, <1>10 DEF Answered, ResponseTaken
  <2>2. PICK k \in 0..(tries - 1) :
          Rest(k) /\ \A i \in 1..Len(stream) : i <= k => Prelude(stream[i])
    BY <2>1 DEF ResponseAhead
  <2>3. k \in Nat /\ k <= tries - 1
    BY <1>2, <2>2
  <2>4. CASE k = 0
    <3>1. Own(p) /\ stream' = <<>>
      BY <1>1, <1>2, <2>2, <2>4, RestDone
    <3>2. Checked(c) /\ (c.tid = Expected \/ (c.tid = 0 /\ c.cmd = "close"))
      BY <1>4, <1>5, <3>1 DEF Own
    <3>3. tries' = tries /\ Return(c, c.code)
      BY <1>3, <3>2, CheckedOwn
    <3>4. /\ c.code \in {"ok", "error"} /\ c.code = answers[Count].code /\ c.resp = Count
          /\ c.code \in Codes
      BY <1>5, <3>1 DEF Own, Codes
    <3> QED
      BY <1>2, <1>5, <1>10, <2>1, <3>1, <3>3, <3>4, ReturnStep
  <2>5. CASE k >= 1
    <3>1. PICK e \in Nat : e = k - 1
      BY <2>3, <2>5
    <3>2. Prelude(p)
      BY <1>1, <2>2, <2>5
    <3>3. /\ UNCHANGED <<session, pc, result>> /\ e \in 0..(tries' - 1) /\ tries' \in 0..3
          /\ ptp'.n = ptp.n /\ ptp'.cmd = ptp.cmd /\ ptp'.dir = ptp.dir
          /\ ptp' \in [n : 0..MaxRequests, cmd : Commands, dir : Directions,
                       tid : 0..(MaxRequests + MaxStale), code : Codes, resp : 0..MaxRequests]
      <4>1. CASE p.type = "end" /\ transport = "ptpip"
        <5>1. ptp' = [ptp EXCEPT !.tid = p.tid] /\ UNCHANGED <<session, pc, result, tries>>
          BY <4>1
        <5>2. ptp \in [n : 0..MaxRequests, cmd : Commands, dir : Directions,
                       tid : 0..(MaxRequests + MaxStale), code : Codes, resp : 0..MaxRequests]
              /\ p.tid \in 0..(MaxRequests + MaxStale)
          BY <1>1, <1>2 DEF TypeOK, Packets
        <5>3. e \in 0..(tries - 1) /\ tries \in 0..3
          BY <1>2, <2>3, <3>1
        <5>4. /\ ptp'.n = ptp.n /\ ptp'.cmd = ptp.cmd /\ ptp'.dir = ptp.dir
              /\ ptp' \in [n : 0..MaxRequests, cmd : Commands, dir : Directions,
                           tid : 0..(MaxRequests + MaxStale), code : Codes, resp : 0..MaxRequests]
          BY <5>1, <5>2
        <5> QED
          BY <5>1, <5>3, <5>4
      <4>2. CASE StalePacket(p) /\ ptp.cmd = "open"
        <5>1. tries > 1
          BY <1>2, <2>3, <2>5
        <5>2. ptp' = c /\ tries' = tries - 1 /\ UNCHANGED <<session, pc, result>>
          BY <1>8, <4>2, <5>1
        <5> QED
          BY <1>2, <1>5, <2>3, <3>1, <5>1, <5>2
      <4> QED
        BY <3>2, <4>1, <4>2 DEF Prelude
    <3>4. Rest(e)'
      BY <1>2, <2>2, <2>3, <2>5, <3>1, <3>3, RestTail
    <3>5. ASSUME NEW i \in 1..Len(stream'), i <= e
          PROVE  \/ stream'[i].type = "end" /\ transport = "ptpip"
                 \/ StalePacket(stream'[i]) /\ ptp.cmd = "open"
      <4>1. i + 1 \in 1..Len(stream) /\ i + 1 <= k /\ stream'[i] = stream[i + 1]
        BY <1>1, <2>3, <3>1, <3>5
      <4>2. Prelude(stream[i + 1])
        BY <2>2, <4>1
      <4> QED
        BY <4>1, <4>2 DEF Prelude
    <3>6. ResponseAhead'
      BY <3>3, <3>4, <3>5 DEF ResponseAhead, Prelude, StalePacket
    <3>7. Answered'
      BY <1>3, <2>1, <3>3, <3>6 DEF Answered
    <3>8. TypeOK'
      BY <1>7, <3>3
    <3>9. requests' = <<>> /\ pc # "idle" /\ pc' = "response"
      BY <1>10, <3>3
    <3> QED
      BY <1>3, <3>3, <3>7, <3>8, <3>9, BusyStep
  <2> QED
    BY <2>3, <2>4, <2>5
<1> QED
  BY <1>9, <1>10

LEMMA GetResponseStep == ASSUME TransactionInv, GetResponse PROVE TransactionInv'
<1> DEFINE p == Head(stream)
<1>1. /\ pc = "response" /\ stream # <<>> /\ stream' = Tail(stream) /\ transport = "ptpip"
      /\ UNCHANGED <<transport, connected, requests, answers, nextTid, left, got>>
      /\ p.type = "response" => Checked(Received(p))
      /\ p.type = "end" =>
           ptp' = [ptp EXCEPT !.tid = p.tid] /\ UNCHANGED <<session, pc, result, tries>>
  BY DEF GetResponse, Reading, Others
<1> QED
  BY <1>1, LookStep

LEMMA FujiGetResponseStep == ASSUME TransactionInv, FujiGetResponse PROVE TransactionInv'
<1> DEFINE p == Head(stream)
<1>1. /\ pc = "response" /\ stream # <<>> /\ stream' = Tail(stream) /\ transport = "fuji"
      /\ UNCHANGED <<transport, connected, requests, answers, nextTid, left, got>>
      /\ p.type = "response" => Checked(Received(p))
  BY DEF FujiGetResponse, Reading, Others
<1> QED
  BY <1>1, LookStep
-----------------------------------------------------------------------------
LEMMA TransactionInvInductive ==
  ASSUME Benign
  PROVE  /\ Init => TransactionInv
         /\ TransactionInv /\ [Next]_vars => TransactionInv'
<1>1. Init => TransactionInv
  BY InitInv
<1>2. ASSUME TransactionInv, [Next]_vars PROVE TransactionInv'
  <2>1. CASE OpenSession
    BY <1>2, <2>1, StartStep DEF OpenSession, Commands, Directions
  <2>2. CASE Operation
    <3>1. PICK dir \in Directions : session = "open" /\ Start("other", dir)
      BY <2>2 DEF Operation
    <3> QED
      BY <1>2, <3>1, StartStep DEF Commands
  <2>3. CASE CloseSession
    BY <1>2, <2>3, StartStep DEF CloseSession, Commands, Directions
  <2>4. CASE Driver
    BY <1>2, <2>4, GetDataStep, GetPayloadStep, GetResponseStep, FujiGetDataStep,
       FujiGetResponseStep, ReadFailsStep DEF Driver
  <2>5. CASE Answer
    BY <1>2, <2>5, AnswerStep
  <2>6. CASE Disconnect
    BY <1>2, <2>6, DisconnectStep
  <2>7. CASE UNCHANGED vars
    BY <1>2, <2>7
       DEF vars, host, TransactionInv, TypeOK, Count, BusyInv, IdleInv, SessionInv, ResultInv,
           SuccessIsOwn, DataIsOwn, FailureIsReal, Waiting, Answered, DataAhead,
           ResponseAhead, ResponseTaken, Rest, Own, Prelude, StalePacket, Unit, Size,
           Expected
  <2> QED
    BY <1>2, <2>1, <2>2, <2>3, <2>4, <2>5, <2>6, <2>7 DEF Next
<1> QED
  BY <1>1, <1>2

LEMMA TransactionInvAlways == ASSUME Benign PROVE Spec => []TransactionInv
BY TransactionInvInductive, PTL DEF Spec

\* The types, of a connection that is as Benign says.
THEOREM TransactionTypes == ASSUME Benign PROVE Spec => []TypeOK
BY TransactionInvAlways, PTL DEF TransactionInv

\* ptp_transaction_new gives every caller the response and all of the data of its own
\* request, whatever a session before left to be read.
THEOREM OwnAnswers == ASSUME Benign PROVE Spec => []SuccessIsOwn
BY TransactionInvAlways, PTL DEF TransactionInv, ResultInv

\* While the camera is connected a transaction fails only when the camera refused it.
THEOREM RealFailures == ASSUME Benign PROVE Spec => []FailureIsReal
BY TransactionInvAlways, PTL DEF TransactionInv, ResultInv

\* Between two transactions the stream is empty: none of its packets can be taken for
\* the answer to the next request.
THEOREM StreamIsRead == ASSUME Benign PROVE Spec => []NothingLeft
<1>1. TransactionInv => NothingLeft
  <2>1. ASSUME TransactionInv, pc = "idle", Count > 0 PROVE stream = <<>> /\ requests = <<>>
    BY <2>1 DEF TransactionInv, IdleInv
  <2> QED
    BY <2>1 DEF NothingLeft
<1> QED
  BY <1>1, TransactionInvAlways, PTL
=============================================================================
