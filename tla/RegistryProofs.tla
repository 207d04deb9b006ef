---------------------------- MODULE RegistryProofs ----------------------------
(***************************************************************************)
(* What holds of the clients list and of what a client is sent of it, for  *)
(* any number of connections and clients.                                  *)
(***************************************************************************)
EXTENDS MessageUServerProofs

-----------------------------------------------------------------------------
\* The list as far as it goes is the clients list.
SameSoFar(list) ==
  /\ list \in Seq(ClientRecord)
  /\ Len(list) <= Len(clientsList)
  /\ \A i \in DOMAIN list : list[i] = clientsList[i]

\* A payload is the last thing a handler writes, its header not before the
\* request is routed.
NothingSentEarly(c) ==
  /\ pc[c] \notin {"done", "sendall"} => payload[c] = <<>>
  /\ pc[c] \in {"free", "recvHeader"} => header[c] = <<>>

\* Between the header and the list either the header is on the wire, and the list
\* is no shorter than it says, or the connection is gone, and nothing will be.
Announced(c) ==
  pc[c] \in {"listStart", "listNext"} =>
    IF header[c] = <<>> THEN ~Connected(c)
                        ELSE header[c][1].records <= Len(clientsList)

Collected(c) == pc[c] = "listNext" => SameSoFar(listing[c].records)

Delivered(c) ==
  req[c].op = "CLIENTS_LIST_REQ" /\ payload[c] # <<>> =>
    SameSoFar(payload[c]) /\ header[c][1].records <= Len(payload[c])

ListThreadInv(c) ==
  NothingSentEarly(c) /\ Announced(c) /\ Collected(c) /\ Delivered(c)

ListInv == \A c \in Conn : ListThreadInv(c)

\* Nothing of a connection changes; the client or its socket may be gone.
SameConnection(c) ==
  /\ pc'[c] = pc[c] /\ req'[c] = req[c]
  /\ header'[c] = header[c] /\ payload'[c] = payload[c] /\ listing'[c] = listing[c]
  /\ peer[c] = "gone" => peer'[c] = "gone"
  /\ open'[c] => open[c]

-----------------------------------------------------------------------------
\* The clients list only grows: by a registration, at its end.
ListGrows ==
  /\ Len(clientsList) <= Len(clientsList')
  /\ \A i \in DOMAIN clientsList : i \in DOMAIN clientsList' /\ clientsList'[i] = clientsList[i]

LEMMA ListOnlyGrows ==
  ASSUME TypeOK, [Next]_vars
  PROVE  ListGrows
<1>1. clientsList \in Seq(ClientRecord)
  BY DEF TypeOK, RegistryTypeOK
<1>2. clientsList' = clientsList \/ \E x : clientsList' = Append(clientsList, x)
  <2>1. ASSUME NEW c \in Conn, ThreadStep(c)
        PROVE  clientsList' = clientsList \/ \E x : clientsList' = Append(clientsList, x)
    BY <2>1 DEF ThreadStep, RegistryStep, RegisterWhole, RegisterRefused, RegisterReset,
       addNewClient, ListRefused, ListAnnounce, ListStart, ListNext, ListChanged, ListSend,
       KeyRefused, KeyReset, KeyOfNobody, KeyAnswer, registryVars
  <2> QED
    BY <2>1 DEF Next, LoseAccept, Connect, Talk, Hangup, Release, vars, registryVars
<1>3. CASE clientsList' = clientsList
  BY <1>1, <1>3 DEF ListGrows
<1>4. ASSUME NEW x, clientsList' = Append(clientsList, x)  PROVE ListGrows
  BY <1>1, <1>4 DEF ListGrows
<1> QED
  BY <1>2, <1>3, <1>4

\* What is a part of the list stays one.
LEMMA SameSoFarStays ==
  ASSUME TypeOK, ListGrows, TypeOK', NEW list, SameSoFar(list)
  PROVE  SameSoFar(list)'
<1>1. /\ Len(clientsList) \in Nat /\ Len(clientsList') \in Nat
      /\ clientsList \in Seq(ClientRecord)
  BY DEF TypeOK, RegistryTypeOK
<1>2. \A i \in DOMAIN list : i \in DOMAIN clientsList
  BY <1>1 DEF SameSoFar
<1> QED
  BY <1>1, <1>2 DEF SameSoFar, ListGrows

-----------------------------------------------------------------------------
\* A step of one connection, or of the accept loop, leaves the others what they
\* are, except that accept() may close a socket that was abandoned.
LEMMA OthersSame ==
  ASSUME TypeOK, NEW c \in Conn, NEW d \in Conn,
         \/ LoseAccept
         \/ Talk(c)
         \/ Hangup(c)
         \/ d # c /\ (Connect(c) \/ Release(c) \/ ThreadStep(c))
  PROVE  SameConnection(d)
<1>0. /\ pc \in [Conn -> Label] /\ req \in [Conn -> Request \cup {NoRequest}]
      /\ peer \in [Conn -> {"connected", "wrote", "reads", "gone"}]
      /\ open \in [Conn -> BOOLEAN]
      /\ header \in [Conn -> Seq(Response)] /\ DOMAIN payload = Conn
      /\ listing \in [Conn -> [size : Nat, records : Seq(ClientRecord)]]
  BY DEF TypeOK, ConnTypeOK, RegistryTypeOK
<1> USE <1>0 DEF SameConnection, registryVars
<1>1. CASE LoseAccept
  BY <1>1 DEF LoseAccept, AcceptError
<1>2. CASE Talk(c) \/ Hangup(c)
  BY <1>2 DEF Talk, Write, Read, Hangup, Drop
<1>3. CASE d # c /\ (Connect(c) \/ Release(c))
  <2>1. CASE d # c /\ Connect(c)
    BY <2>1 DEF Connect, Accept, Goto
  <2>2. CASE d # c /\ Release(c)
    BY <2>2 DEF Release, Leave, Goto
  <2> QED
    BY <1>3, <2>1, <2>2
<1> USE DEF Raise, AbandonSocket, returnGeneralError, CloseAndEnd, Reply, ReplyLong, Advance,
            Goto, SendHeader, SendPayload, connVars
<1>4. CASE d # c /\ RegistryStep(c)
  <2>1. CASE d # c /\ \/ RegisterWhole(c) \/ RegisterRefused(c) \/ RegisterReset(c)
                      \/ addNewClient(c)
    BY <2>1 DEF RegisterWhole, RegisterRefused, RegisterReset, addNewClient
  <2>2. CASE d # c /\ \/ ListRefused(c) \/ ListAnnounce(c) \/ ListStart(c)
                      \/ ListNext(c) \/ ListChanged(c) \/ ListSend(c)
    BY <2>2 DEF ListRefused, ListAnnounce, ListStart, ListNext, ListChanged, ListSend
  <2>3. CASE d # c /\ (KeyRefused(c) \/ KeyReset(c) \/ KeyOfNobody(c) \/ KeyAnswer(c))
    BY <2>3 DEF KeyRefused, KeyReset, KeyOfNobody, KeyAnswer
  <2> QED
    BY <1>4, <2>1, <2>2, <2>3 DEF RegistryStep
<1>5. CASE d # c /\ SendStep(c) /\ UNCHANGED registryVars
  BY <1>5 DEF SendStep, SendReset, SendHeadless, SendUnparsed, SendRefused, SendChecked,
     TakeID, ReadID, LoadID, StoreID, addMessageToList
<1>6. CASE d # c /\ PullStep(c) /\ UNCHANGED registryVars
  BY <1>6 DEF PullStep, PullRefused, PullBegin, PullChanged, PullVisit, PackHeader,
     PackContent, PackGone, PullEnd, PullDelete, PullDeleteGone, PullSend, FramePopped
<1>7. CASE d # c /\ (RejectHeader(c) \/ EndSend(c)) /\ UNCHANGED registryVars
  BY <1>7 DEF RejectHeader, EndSend
<1>8. CASE d # c /\ ThreadStep(c)
  BY <1>4, <1>5, <1>6, <1>7, <1>8 DEF ThreadStep, MailboxStep
<1> QED
  BY <1>1, <1>2, <1>3, <1>8

\* What the others do, growth of the list included, leaves the invariant of a
\* connection alone.
LEMMA SameConnectionInv ==
  ASSUME TypeOK, TypeOK', ListGrows, NEW c \in Conn, SameConnection(c), ListThreadInv(c)
  PROVE  ListThreadInv(c)'
<1>1. NothingSentEarly(c)'
  BY DEF ListThreadInv, NothingSentEarly, SameConnection
<1>2. Announced(c)'
  <2>1. header[c] # <<>> => header[c][1].records \in Nat
    <3>1. header[c] \in Seq(Response)
      BY DEF TypeOK, ConnTypeOK
    <3>2. header[c] # <<>> => header[c][1] \in Response
      BY <3>1
    <3> QED
      BY <3>2 DEF Response
  <2>2. Len(clientsList) \in Nat /\ Len(clientsList') \in Nat
    BY DEF TypeOK, RegistryTypeOK
  <2>3. ~Connected(c) => ~Connected(c)'
    BY DEF Connected, SameConnection
  <2> QED
    BY <2>1, <2>2, <2>3 DEF ListThreadInv, Announced, SameConnection, ListGrows
<1>3. Collected(c)'
  <2> DEFINE list == listing[c].records
  <2>1. SUFFICES ASSUME pc'[c] = "listNext"  PROVE SameSoFar(listing[c].records)'
    BY DEF Collected
  <2>2. SameSoFar(list) /\ listing'[c].records = list
    BY <2>1 DEF ListThreadInv, Collected, SameConnection
  <2> QED
    BY <2>2, SameSoFarStays DEF SameSoFar
<1>4. Delivered(c)'
  <2> DEFINE list == payload[c]
  <2>1. SUFFICES ASSUME req'[c].op = "CLIENTS_LIST_REQ", payload'[c] # <<>>
                 PROVE  (SameSoFar(payload[c]) /\ header[c][1].records <= Len(payload[c]))'
    BY DEF Delivered
  <2>2. /\ SameSoFar(list) /\ header[c][1].records <= Len(list)
        /\ payload'[c] = list /\ header'[c] = header[c]
    BY <2>1 DEF ListThreadInv, Delivered, SameConnection
  <2> QED
    BY <2>2, SameSoFarStays DEF SameSoFar
<1> QED
  BY <1>1, <1>2, <1>3, <1>4 DEF ListThreadInv

-----------------------------------------------------------------------------
\* A handler that goes on or ends without a payload.
LEMMA NothingSentStep ==
  ASSUME NEW c \in Conn, ListThreadInv(c), pc[c] \notin {"done", "sendall"},
         payload'[c] = payload[c],
         pc'[c] \notin {"free", "recvHeader", "listStart", "listNext"}
  PROVE  ListThreadInv(c)'
BY DEF ListThreadInv, NothingSentEarly, Announced, Collected, Delivered

\* A handler that ends with something else than a list.
LEMMA OtherAnswerStep ==
  ASSUME NEW c \in Conn, pc'[c] \in {"done", "sendall"}, req'[c].op # "CLIENTS_LIST_REQ"
  PROVE  ListThreadInv(c)'
BY DEF ListThreadInv, NothingSentEarly, Announced, Collected, Delivered

\* The handler of the clients list, from the header to the last record.
LEMMA ListHandlerInv ==
  ASSUME TypeOK, NEW c \in Conn, ListThreadInv(c),
         ListAnnounce(c) \/ ListStart(c) \/ ListNext(c) \/ ListSend(c)
  PROVE  ListThreadInv(c)'
<1>0. /\ pc \in [Conn -> Label] /\ header \in [Conn -> Seq(Response)]
      /\ DOMAIN payload = Conn
      /\ listing \in [Conn -> [size : Nat, records : Seq(ClientRecord)]]
      /\ clientsList \in Seq(ClientRecord) /\ Len(clientsList) \in Nat
  BY DEF TypeOK, ConnTypeOK, RegistryTypeOK
<1>1. CASE ListAnnounce(c)
  <2>1. /\ pc[c] = "recvHeader" /\ pc'[c] = "listStart"
        /\ UNCHANGED <<payload, peer, open, clientsList>>
    BY <1>0, <1>1 DEF ListAnnounce, Routed, Goto, registryVars
  <2>2. header[c] = <<>> /\ payload[c] = <<>>
    BY <2>1 DEF ListThreadInv, NothingSentEarly
  <2>3. header' = IF Connected(c)
                  THEN [header EXCEPT ![c] = Append(<<>>, [code |-> "CLIENTS_LIST_RESP",
                                                           records |-> Len(clientsList)])]
                  ELSE header
    BY <1>1, <2>2 DEF ListAnnounce, SendHeader
  <2>4. Announced(c)'
    <3>1. CASE Connected(c)
      <4>1. header'[c] = <<[code |-> "CLIENTS_LIST_RESP", records |-> Len(clientsList)]>>
        BY <1>0, <2>3, <3>1
      <4> QED
        BY <1>0, <2>1, <4>1 DEF Announced
    <3>2. CASE ~Connected(c)
      BY <2>1, <2>2, <2>3, <3>2 DEF Announced, Connected
    <3> QED
      BY <3>1, <3>2
  <2> QED
    BY <2>1, <2>2, <2>4 DEF ListThreadInv, NothingSentEarly, Collected, Delivered
<1>2. CASE ListStart(c)
  <2>1. /\ pc[c] = "listStart" /\ pc'[c] = "listNext"
        /\ UNCHANGED <<header, payload, peer, open, clientsList>>
        /\ listing'[c].records = <<>>
    BY <1>0, <1>2 DEF ListStart, Advance, Goto
  <2>2. Collected(c)'
    BY <1>0, <2>1 DEF Collected, SameSoFar
  <2>3. Announced(c)'
    BY <2>1 DEF ListThreadInv, Announced, Connected
  <2> QED
    BY <2>1, <2>2, <2>3 DEF ListThreadInv, NothingSentEarly, Delivered
<1>3. CASE ListNext(c)
  <2> DEFINE list == listing[c].records
             next == Append(list, clientsList[Len(list) + 1])
  <2>1. /\ UNCHANGED <<pc, req, header, payload, peer, open, clientsList>>
        /\ pc[c] = "listNext" /\ Len(list) < Len(clientsList)
        /\ listing'[c].records = next
    BY <1>0, <1>3 DEF ListNext, connVars
  <2>2. SameSoFar(list)
    BY <2>1 DEF ListThreadInv, Collected
  <2>3. clientsList[Len(list) + 1] \in ClientRecord
    BY <1>0, <2>1, <2>2 DEF SameSoFar
  <2>4. SameSoFar(next)
    BY <1>0, <2>1, <2>2, <2>3 DEF SameSoFar
  <2>5. Collected(c)'
    BY <2>1, <2>4 DEF Collected, SameSoFar
  <2>6. Announced(c)'
    BY <2>1 DEF ListThreadInv, Announced, Connected
  <2> QED
    BY <2>1, <2>5, <2>6 DEF ListThreadInv, NothingSentEarly, Delivered, SameSoFar
<1>4. CASE ListSend(c)
  <2> DEFINE list == listing[c].records
  <2>1. /\ UNCHANGED <<req, header, peer, clientsList>>
        /\ pc[c] = "listNext" /\ pc'[c] = "sendall" /\ Len(list) = Len(clientsList)
        /\ payload' = IF Connected(c) THEN [payload EXCEPT ![c] = list] ELSE payload
    BY <1>0, <1>4 DEF ListSend, Goto, SendPayload
  <2>2. payload[c] = <<>> /\ SameSoFar(list) /\ Announced(c)
    BY <2>1 DEF ListThreadInv, NothingSentEarly, Collected
  <2>3. CASE Connected(c)
    <3>1. payload'[c] = list
      BY <1>0, <2>1, <2>3
    <3>2. header[c][1].records <= Len(list)
      BY <2>1, <2>2, <2>3 DEF Announced
    <3>3. Delivered(c)'
      BY <2>1, <2>2, <3>1, <3>2 DEF Delivered, SameSoFar
    <3> QED
      BY <2>1, <3>3 DEF ListThreadInv, NothingSentEarly, Announced, Collected
  <2>4. CASE ~Connected(c)
    <3>1. payload'[c] = <<>>
      BY <2>1, <2>2, <2>4
    <3> QED
      BY <2>1, <3>1 DEF ListThreadInv, NothingSentEarly, Announced, Collected, Delivered
  <2> QED
    BY <2>3, <2>4
<1> QED
  BY <1>1, <1>2, <1>3, <1>4

\* The other steps of a thread.
LEMMA ListThreadStep ==
  ASSUME TypeOK, LabelsFit, NEW c \in Conn, ListThreadInv(c), ThreadStep(c)
  PROVE  ListThreadInv(c)'
<1>0. pc \in [Conn -> Label] /\ req \in [Conn -> Request \cup {NoRequest}]
      /\ Fits(pc[c], req[c], sending[c].id)
  BY DEF TypeOK, ConnTypeOK, LabelsFit
<1>1. CASE \/ RejectHeader(c) \/ RegisterRefused(c) \/ RegisterReset(c) \/ ListRefused(c)
           \/ ListChanged(c) \/ KeyRefused(c) \/ KeyReset(c) \/ KeyOfNobody(c)
           \/ SendReset(c) \/ SendUnparsed(c) \/ SendRefused(c) \/ PullRefused(c)
           \/ PullChanged(c) \/ PackGone(c) \/ PullDeleteGone(c)
  <2>1. pc[c] \notin {"done", "sendall"} /\ pc'[c] = "done" /\ payload' = payload
    BY <1>0, <1>1 DEF RejectHeader, RegisterRefused, RegisterReset, ListRefused,
       ListChanged, KeyRefused, KeyReset, KeyOfNobody, SendReset, SendUnparsed, SendRefused,
       PullRefused, PullChanged, PackGone, PullDeleteGone, Routed, Raise, AbandonSocket,
       returnGeneralError, CloseAndEnd, Goto
  <2> QED
    BY <2>1, NothingSentStep
<1>2. CASE \/ RegisterWhole(c) \/ SendHeadless(c) \/ SendChecked(c) \/ TakeID(c)
           \/ ReadID(c) \/ LoadID(c) \/ StoreID(c) \/ PullBegin(c) \/ PullVisit(c)
           \/ PackHeader(c) \/ PackContent(c) \/ PullEnd(c) \/ PullDelete(c)
  <2>1. /\ pc[c] \notin {"done", "sendall"} /\ payload' = payload
        /\ pc'[c] \notin {"free", "recvHeader", "listStart", "listNext"}
    BY <1>0, <1>2 DEF RegisterWhole, SendHeadless, SendChecked, TakeID, ReadID, LoadID,
       StoreID, PullBegin, PullVisit, PackHeader, PackContent, PullEnd, PullDelete, Routed,
       Advance, Goto, connVars
  <2> QED
    BY <2>1, NothingSentStep
<1>3. CASE addNewClient(c) \/ KeyAnswer(c) \/ addMessageToList(c) \/ PullSend(c)
  <2>1. pc'[c] \in {"done", "sendall"} /\ req' = req /\ req[c].op # "CLIENTS_LIST_REQ"
    BY <1>0, <1>3 DEF addNewClient, KeyAnswer, addMessageToList, PullSend, Routed, Reply,
       ReplyLong, CloseAndEnd, Goto, Fits
  <2> QED
    BY <2>1, OtherAnswerStep
<1>4. CASE EndSend(c) /\ UNCHANGED registryVars
  <2>1. pc'[c] = "done" /\ UNCHANGED <<req, header, payload, clientsList>>
    BY <1>0, <1>4 DEF EndSend, CloseAndEnd, Goto, registryVars
  <2> QED
    BY <2>1 DEF ListThreadInv, NothingSentEarly, Announced, Collected, Delivered, SameSoFar
<1> QED
  BY <1>1, <1>2, <1>3, <1>4, ListHandlerInv DEF ThreadStep, RegistryStep, MailboxStep, SendStep,
     PullStep

-----------------------------------------------------------------------------
LEMMA ListInit == Init => ListInv
BY DEF Init, ConnInit, ListInv, ListThreadInv, NothingSentEarly, Announced, Collected,
   Delivered

\* Every step keeps the invariant: a thread's own steps by the lemmas above, those
\* of the others because the list only grows.
LEMMA ListStep ==
  ASSUME TypeOK, LabelsFit, TypeOK', ListInv, [Next]_vars
  PROVE  ListInv'
<1>0. ListGrows
  BY ListOnlyGrows
<1>1. ASSUME \A c \in Conn : SameConnection(c)  PROVE ListInv'
  BY <1>0, <1>1, SameConnectionInv DEF ListInv
<1>2. ASSUME NEW c \in Conn, \A d \in Conn \ {c} : SameConnection(d), ListThreadInv(c)'
      PROVE  ListInv'
  BY <1>0, <1>2, SameConnectionInv DEF ListInv
<1>3. CASE UNCHANGED vars
  BY <1>1, <1>3 DEF vars, connVars, registryVars, SameConnection
<1>4. CASE LoseAccept \/ \E c \in Conn : Talk(c) \/ Hangup(c)
  BY <1>1, <1>4, OthersSame
<1>5. ASSUME NEW c \in Conn, Connect(c)  PROVE ListInv'
  <2>1. /\ pc[c] = "free" /\ pc'[c] = "recvHeader"
        /\ UNCHANGED <<header, payload>>
    BY <1>5 DEF Connect, Accept, Goto, TypeOK, ConnTypeOK
  <2>2. ListThreadInv(c)'
    BY <2>1 DEF ListInv, ListThreadInv, NothingSentEarly, Announced, Collected, Delivered
  <2> QED
    BY <1>2, <1>5, <2>2, OthersSame
<1>6. ASSUME NEW c \in Conn, Release(c)  PROVE ListInv'
  <2>1. pc'[c] = "free" /\ header'[c] = <<>> /\ payload'[c] = <<>>
    BY <1>6 DEF Release, Leave, Goto, TypeOK, ConnTypeOK
  <2>2. ListThreadInv(c)'
    BY <2>1 DEF ListThreadInv, NothingSentEarly, Announced, Collected, Delivered
  <2> QED
    BY <1>2, <1>6, <2>2, OthersSame
<1>7. ASSUME NEW c \in Conn, ThreadStep(c)  PROVE ListInv'
  BY <1>2, <1>7, ListThreadStep, OthersSame DEF ListInv
<1> QED
  BY <1>3, <1>4, <1>5, <1>6, <1>7 DEF Next

\* The invariant holds throughout.
LEMMA ListCorrect == Spec => []ListInv
<1>1. Init => ListInv
  BY ListInit
<1>2. TypeOK /\ LabelsFit /\ TypeOK' /\ ListInv /\ [Next]_vars => ListInv'
  BY ListStep
<1> QED
  BY <1>1, <1>2, TypeAndLabels, PTL DEF Spec

\* However many clients register while lists are sent, and whoever goes away: a list
\* that is sent is the clients list as it was when the last record was packed, and
\* has at least the length its header announced.
THEOREM ListIsSnapshotCorrect == Spec => []ListIsSnapshot
<1>1. ListInv => ListIsSnapshot
  BY DEF ListInv, ListThreadInv, Delivered, SameSoFar, ListIsSnapshot
<1> QED
  BY <1>1, ListCorrect, PTL
===============================================================================
