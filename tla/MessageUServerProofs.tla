------------------------ MODULE MessageUServerProofs ------------------------
(***************************************************************************)
(* What holds of the server for every set of connections, clients,         *)
(* contents and requests.                                                  *)
(***************************************************************************)
EXTENDS MessageUServer, FiniteSetTheorems, SequenceTheorems, TLAPS

-----------------------------------------------------------------------------
\* Which requests the labels inside a handler belong to, and that a message is
\* numbered before it is stored: what TypeOK needs to be inductive.
Fits(label, r, id) ==
  /\ label \in {"sendUnparsed", "takeID", "loadID", "storeID", "addMessageToList"}
       => r.op = "SEND_MESSAGE_REQ"
  /\ label = "addNewClient" => r.op = "REGISTER_REQ"
  /\ label \in {"listStart", "listNext"} => r.op = "CLIENTS_LIST_REQ"
  /\ label \in {"pullNext", "packHeader", "packContent", "pullDelete"}
       => r.op = "PULL_WAITING_MESSAGES_REQ"
  /\ label \in {"loadID", "storeID", "addMessageToList"} => id # Gone

LabelsFit == \A c \in Conn : Fits(pc[c], req[c], sending[c].id)

\* The request of a thread has the fields its kind has.
LEMMA RequestFields ==
  ASSUME NEW r \in Request \cup {NoRequest}
  PROVE  /\ r.op = "REGISTER_REQ" => r.username \in Username
         /\ r.op = "SEND_MESSAGE_REQ" =>
              r.src \in AnyUUID /\ r.dest \in AnyUUID /\ r.body \in Body
BY DEF Request, NoRequest

-----------------------------------------------------------------------------
\* What the ways to move a thread on, or to end it, do to the connection's part
\* of the type.
LEMMA AdvanceType ==
  ASSUME ConnTypeOK, NEW c \in Conn, NEW label \in Label, Advance(c, label)
  PROVE  ConnTypeOK'
BY DEF ConnTypeOK, Advance, Goto

LEMMA ReturnErrorType ==
  ASSUME ConnTypeOK, NEW c \in Conn, returnGeneralError(c)
  PROVE  ConnTypeOK'
BY DEF ConnTypeOK, returnGeneralError, SendHeader, CloseAndEnd, Goto, Response, Label

LEMMA RaiseType ==
  ASSUME ConnTypeOK, NEW c \in Conn, Raise(c)
  PROVE  ConnTypeOK'
BY DEF ConnTypeOK, Raise, AbandonSocket, Goto, Label

LEMMA SendHeaderType ==
  ASSUME header \in [Conn -> Seq(Response)], NEW c \in Conn, NEW n \in Nat,
         NEW code \in {"GENERAL_ERROR_RESP", "REGISTER_SUCCESS_RESP",
                       "CLIENTS_LIST_RESP", "GET_PUBLIC_KEY_RESP",
                       "MESSAGE_SENT_RESP", "PULL_WAITING_MESSAGES_RESP"},
         SendHeader(c, code, n)
  PROVE  header' \in [Conn -> Seq(Response)]
BY DEF SendHeader, Response

LEMMA SendPayloadType ==
  ASSUME DOMAIN payload = Conn, NEW c \in Conn, NEW records, SendPayload(c, records)
  PROVE  DOMAIN payload' = Conn
BY DEF SendPayload

LEMMA CloseType ==
  ASSUME pc \in [Conn -> Label], open \in [Conn -> BOOLEAN], NEW c \in Conn,
         CloseAndEnd(c)
  PROVE  pc' \in [Conn -> Label] /\ open' \in [Conn -> BOOLEAN]
BY DEF CloseAndEnd, Goto, Label

LEMMA ReplyType ==
  ASSUME ConnTypeOK, NEW c \in Conn, NEW records, Len(records) \in Nat,
         NEW code \in {"GENERAL_ERROR_RESP", "REGISTER_SUCCESS_RESP",
                       "CLIENTS_LIST_RESP", "GET_PUBLIC_KEY_RESP",
                       "MESSAGE_SENT_RESP", "PULL_WAITING_MESSAGES_RESP"},
         Reply(c, code, records)
  PROVE  ConnTypeOK'
<1>1. SendHeader(c, code, Len(records)) /\ SendPayload(c, records) /\ CloseAndEnd(c)
  BY DEF Reply
<1>2. header' \in [Conn -> Seq(Response)]
  BY <1>1, SendHeaderType DEF ConnTypeOK
<1>3. DOMAIN payload' = Conn
  BY <1>1, SendPayloadType DEF ConnTypeOK
<1>4. pc' \in [Conn -> Label] /\ open' \in [Conn -> BOOLEAN]
  BY <1>1, CloseType DEF ConnTypeOK
<1> QED
  BY <1>2, <1>3, <1>4 DEF ConnTypeOK, Reply

LEMMA ReplyLongType ==
  ASSUME ConnTypeOK, NEW c \in Conn, NEW records, Len(records) \in Nat,
         NEW code \in {"GENERAL_ERROR_RESP", "REGISTER_SUCCESS_RESP",
                       "CLIENTS_LIST_RESP", "GET_PUBLIC_KEY_RESP",
                       "MESSAGE_SENT_RESP", "PULL_WAITING_MESSAGES_RESP"},
         ReplyLong(c, code, records)
  PROVE  ConnTypeOK'
<1>1. SendHeader(c, code, Len(records)) /\ SendPayload(c, records) /\ Goto(c, "sendall")
  BY DEF ReplyLong
<1>2. header' \in [Conn -> Seq(Response)]
  BY <1>1, SendHeaderType DEF ConnTypeOK
<1>3. DOMAIN payload' = Conn
  BY <1>1, SendPayloadType DEF ConnTypeOK
<1>4. pc' \in [Conn -> Label]
  BY <1>1 DEF ConnTypeOK, Goto, Label
<1> QED
  BY <1>2, <1>3, <1>4 DEF ConnTypeOK, ReplyLong

\* The accept loop and the ends of a connection.
LEMMA ConnectionType ==
  ASSUME ConnTypeOK, NEW c \in Conn,
         \/ \E r \in Request : Accept(c, r)
         \/ AcceptError
         \/ Drop(c)
         \/ Leave(c)
         \/ Write(c) \/ Read(c)
         \/ RejectHeader(c)
         \/ EndSend(c)
  PROVE  ConnTypeOK'
<1>1. ASSUME NEW r \in Request, Accept(c, r)  PROVE ConnTypeOK'
  BY <1>1 DEF ConnTypeOK, Accept, Goto, Label
<1>2. CASE Drop(c)
  BY <1>2 DEF ConnTypeOK, Drop
<1>3. CASE Leave(c)
  BY <1>3 DEF ConnTypeOK, Leave, Goto, Label
<1>4. CASE RejectHeader(c)
  BY <1>4, ReturnErrorType DEF RejectHeader
<1>5. CASE AcceptError
  BY <1>5 DEF ConnTypeOK, AcceptError
<1>6. CASE Write(c) \/ Read(c)
  BY <1>6 DEF ConnTypeOK, Write, Read
<1>7. CASE EndSend(c)
  BY <1>7, CloseType DEF ConnTypeOK, EndSend
<1> QED
  BY <1>1, <1>2, <1>3, <1>4, <1>5, <1>6, <1>7

\* The handlers of the clients list keep the connection's and the registry's
\* part of the type.
LEMMA RegistryType ==
  ASSUME TypeOK, LabelsFit, NEW c \in Conn, RegistryStep(c)
  PROVE  ConnTypeOK' /\ RegistryTypeOK'
<1> USE DEF TypeOK
<1>0. Len(clientsList) \in Nat /\ clientsList \in Seq(ClientRecord)
  BY DEF RegistryTypeOK
<1>1. CASE RegisterWhole(c)
  <2>1. header' \in [Conn -> Seq(Response)]
    BY <1>1, SendHeaderType DEF RegisterWhole, ConnTypeOK
  <2>2. pc' \in [Conn -> Label]
    BY <1>1 DEF RegisterWhole, ConnTypeOK, Goto, Label
  <2> QED
    BY <1>1, <2>1, <2>2 DEF RegisterWhole, ConnTypeOK, RegistryTypeOK, registryVars
<1>2. CASE RegisterRefused(c) \/ ListRefused(c) \/ KeyRefused(c)
  BY <1>2, ReturnErrorType
  DEF RegisterRefused, ListRefused, KeyRefused, RegistryTypeOK, registryVars
<1>3. CASE RegisterReset(c) \/ KeyReset(c) \/ KeyOfNobody(c)
  BY <1>3, RaiseType
  DEF RegisterReset, KeyReset, KeyOfNobody, RegistryTypeOK, registryVars
<1>4. CASE addNewClient(c)
  <2>1. PICK uuid \in UUID \ UUIDsOf(clientsList) :
          /\ clientsList' = Append(clientsList, [uuid |-> uuid, username |-> req[c].username])
          /\ SendPayload(c, <<uuid>>)
    BY <1>4 DEF addNewClient
  <2>2. req[c].username \in Username
    BY <1>4, RequestFields DEF addNewClient, LabelsFit, Fits, ConnTypeOK
  <2>3. clientsList' \in Seq(ClientRecord)
    BY <1>0, <2>1, <2>2 DEF ClientRecord
  <2>4. DOMAIN payload' = Conn
    BY <2>1, SendPayloadType DEF ConnTypeOK
  <2>5. pc' \in [Conn -> Label] /\ open' \in [Conn -> BOOLEAN]
    BY <1>4, CloseType DEF addNewClient, ConnTypeOK
  <2> QED
    BY <1>4, <2>3, <2>4, <2>5 DEF addNewClient, ConnTypeOK, RegistryTypeOK
<1>5. CASE ListAnnounce(c)
  <2>1. header' \in [Conn -> Seq(Response)]
    BY <1>0, <1>5, SendHeaderType DEF ListAnnounce, ConnTypeOK
  <2>2. pc' \in [Conn -> Label]
    BY <1>5 DEF ListAnnounce, ConnTypeOK, Goto, Label
  <2> QED
    BY <1>5, <2>1, <2>2 DEF ListAnnounce, ConnTypeOK, RegistryTypeOK, registryVars
<1>6. CASE ListStart(c)
  <2>1. ConnTypeOK'
    BY <1>6, AdvanceType DEF ListStart, Label
  <2> QED
    BY <1>0, <1>6, <2>1 DEF ListStart, RegistryTypeOK
<1>7. CASE ListNext(c)
  <2>1. /\ listing[c].records \in Seq(ClientRecord)
        /\ Len(listing[c].records) + 1 \in 1 .. Len(clientsList)
    BY <1>0, <1>7 DEF ListNext, RegistryTypeOK
  <2>2. clientsList[Len(listing[c].records) + 1] \in ClientRecord
    BY <1>0, <2>1
  <2>3. Append(listing[c].records, clientsList[Len(listing[c].records) + 1])
          \in Seq(ClientRecord)
    BY <2>1, <2>2
  <2> QED
    BY <1>7, <2>3 DEF ListNext, ConnTypeOK, RegistryTypeOK, connVars
<1>8. CASE ListChanged(c)
  BY <1>8, RaiseType DEF ListChanged, RegistryTypeOK, NoListing
<1>9. CASE ListSend(c)
  <2>1. DOMAIN payload' = Conn
    BY <1>9, SendPayloadType DEF ListSend, ConnTypeOK
  <2>2. pc' \in [Conn -> Label]
    BY <1>9 DEF ListSend, ConnTypeOK, Goto, Label
  <2>3. ConnTypeOK'
    BY <1>9, <2>1, <2>2 DEF ListSend, ConnTypeOK
  <2>4. RegistryTypeOK'
    BY <1>9 DEF ListSend, RegistryTypeOK, NoListing
  <2> QED
    BY <2>3, <2>4
<1>10. CASE KeyAnswer(c)
  <2>1. Len(<<req[c].dest>>) \in Nat
    OBVIOUS
  <2>2. ConnTypeOK'
    BY <1>10, <2>1, ReplyType DEF KeyAnswer
  <2> QED
    BY <1>10, <2>2 DEF KeyAnswer, RegistryTypeOK, registryVars
<1> QED
  BY <1>1, <1>2, <1>3, <1>4, <1>5, <1>6, <1>7, <1>8, <1>9, <1>10 DEF RegistryStep

\* A thread's locals keep their shape when one field is assigned.
LEMMA SendingUpdate ==
  ASSUME NEW r \in SendingRecord
  PROVE  /\ NoSending \in SendingRecord
         /\ \A n \in Nat : [r EXCEPT !.id = n] \in SendingRecord
         /\ \A n \in Nat : [r EXCEPT !.loaded = n] \in SendingRecord
BY DEF SendingRecord, NoSending, Gone

\* The locals of a pull at rest have their shape.
LEMMA NoPullingType == NoPulling \in PullingRecord
<1>1. <<>> \in Seq(PackedRecord)
  OBVIOUS
<1>2. <<>> \in Message \cup {<<>>}
  OBVIOUS
<1> QED
  BY <1>1, <1>2 DEF NoPulling, PullingRecord, Gone

\* The locals of a pull keep their shape when one field is assigned.
LEMMA PullingUpdate ==
  ASSUME NEW r \in PullingRecord
  PROVE  /\ \A m, n, k \in Nat :
              [r EXCEPT !.used = m, !.left = n, !.made = k] \in PullingRecord
         /\ \A m, n, k \in Nat :
              [r EXCEPT !.pos = m, !.id = n, !.left = k] \in PullingRecord
         /\ \A m \in Message : [r EXCEPT !.head = m] \in PullingRecord
         /\ \A s \in Seq(PackedRecord) : [r EXCEPT !.packed = s] \in PullingRecord
         /\ \A n \in Nat : [r EXCEPT !.deleted = n] \in PullingRecord
<1> DEFINE M == Message \cup {<<>>}
           S == Seq(PackedRecord)
<1>1. r \in [used : Nat, left : Nat, pos : Nat, made : Nat, id : Nat,
             head : M, packed : S, deleted : Nat]
  BY DEF PullingRecord
<1>2. \A m \in Message : m \in M
  OBVIOUS
<1> HIDE DEF M, S
<1>3. PullingRecord = [used : Nat, left : Nat, pos : Nat, made : Nat, id : Nat,
                      head : M, packed : S, deleted : Nat]
  BY DEF PullingRecord, M, S
<1>4. S = Seq(PackedRecord)
  BY DEF S
<1> QED
  BY <1>1, <1>2, <1>3, <1>4

\* The handlers of the waiting messages: their own variables.
LEMMA SendingType ==
  ASSUME TypeOK, LabelsFit, NEW c \in Conn, SendStep(c)
  PROVE  ConnTypeOK' /\ MailboxTypeOK'
<1> USE DEF TypeOK
<1>0. sending[c] \in SendingRecord /\ ID \in Nat /\ ID + 1 \in Nat \ {Gone}
  BY DEF MailboxTypeOK, LocalsTypeOK, TableTypeOK, Gone
<1>1. CASE SendReset(c)
  BY <1>1, RaiseType DEF SendReset, MailboxTypeOK, TableTypeOK, LocalsTypeOK,
                         HistoryTypeOK, mailVars, tableVars
<1>2. CASE SendHeadless(c)
  <2>1. header' \in [Conn -> Seq(Response)]
    BY <1>2, SendHeaderType DEF SendHeadless, ConnTypeOK
  <2>2. pc' \in [Conn -> Label]
    BY <1>2 DEF SendHeadless, ConnTypeOK, Goto, Label
  <2>3. ConnTypeOK'
    BY <1>2, <2>1, <2>2 DEF SendHeadless, ConnTypeOK
  <2> QED
    BY <1>2, <2>3 DEF SendHeadless, MailboxTypeOK, TableTypeOK, LocalsTypeOK,
                      HistoryTypeOK, mailVars, tableVars
<1>3. CASE SendUnparsed(c)
  BY <1>3, RaiseType, ReturnErrorType
  DEF SendUnparsed, MailboxTypeOK, TableTypeOK, LocalsTypeOK, HistoryTypeOK, mailVars,
      tableVars
<1>4. CASE SendRefused(c)
  BY <1>4, ReturnErrorType
  DEF SendRefused, MailboxTypeOK, TableTypeOK, LocalsTypeOK, HistoryTypeOK, mailVars,
      tableVars
<1>5. CASE SendChecked(c)
  <2>1. ConnTypeOK'
    BY <1>5, AdvanceType DEF SendChecked, Label
  <2> QED
    BY <1>5, <2>1 DEF SendChecked, MailboxTypeOK, TableTypeOK, LocalsTypeOK, HistoryTypeOK,
                      mailVars, tableVars
<1>6. CASE TakeID(c) \/ ReadID(c)
  <2>1. ConnTypeOK'
    BY <1>6, AdvanceType DEF TakeID, ReadID, Label
  <2>2. sending' = [sending EXCEPT ![c] = [sending[c] EXCEPT !.id = ID]]
    BY <1>6 DEF TakeID, ReadID
  <2>3. [sending[c] EXCEPT !.id = ID] \in SendingRecord
    BY <1>0, SendingUpdate
  <2>4. LocalsTypeOK'
    BY <1>6, <2>2, <2>3 DEF TakeID, ReadID, MailboxTypeOK, LocalsTypeOK
  <2>5. TableTypeOK'
    BY <1>0, <1>6 DEF TakeID, ReadID, MailboxTypeOK, TableTypeOK, tableVars
  <2> QED
    BY <1>6, <2>1, <2>4, <2>5 DEF TakeID, ReadID, MailboxTypeOK, HistoryTypeOK
<1>7. CASE LoadID(c)
  <2>1. ConnTypeOK'
    BY <1>7, AdvanceType DEF LoadID, Label
  <2>2. sending' = [sending EXCEPT ![c] = [sending[c] EXCEPT !.loaded = ID]]
    BY <1>7 DEF LoadID
  <2>3. [sending[c] EXCEPT !.loaded = ID] \in SendingRecord
    BY <1>0, SendingUpdate
  <2>4. LocalsTypeOK'
    BY <1>7, <2>2, <2>3 DEF LoadID, MailboxTypeOK, LocalsTypeOK
  <2> QED
    BY <1>7, <2>1, <2>4 DEF LoadID, MailboxTypeOK, TableTypeOK, HistoryTypeOK, tableVars
<1>8. CASE StoreID(c)
  <2>1. ConnTypeOK'
    BY <1>8, AdvanceType DEF StoreID, Label
  <2>2. ID' \in Nat \ {Gone}
    BY <1>0, <1>8 DEF StoreID, SendingRecord, Gone
  <2>3. TableTypeOK'
    BY <1>8, <2>2 DEF StoreID, MailboxTypeOK, TableTypeOK, tableVars
  <2> QED
    BY <1>8, <2>1, <2>3 DEF StoreID, MailboxTypeOK, LocalsTypeOK, HistoryTypeOK
<1>9. CASE addMessageToList(c)
  <2> DEFINE id == sending[c].id
  <2>1. id \in Nat \ {Gone}
    BY <1>0, <1>9 DEF addMessageToList, LabelsFit, Fits, SendingRecord
  <2>3. /\ req[c].src \in AnyUUID
        /\ req[c].dest \in AnyUUID
        /\ req[c].body \in Body
    BY <1>9, RequestFields DEF addMessageToList, LabelsFit, Fits, ConnTypeOK
  <2>4. NewMessage(c) \in Message
    BY <2>1, <2>3 DEF NewMessage, Message
  <2>5. EnvelopeOf(NewMessage(c)) \in Envelope
    BY <2>4 DEF EnvelopeOf, Envelope, Message
  <2>6. ConnTypeOK'
    <3>1. Len(<<[dest |-> req[c].dest, id |-> id]>>) \in Nat
      OBVIOUS
    <3> QED
      BY <1>9, <3>1, ReplyType DEF addMessageToList
  <2>7. TableTypeOK'
    <3>1. DOMAIN messages' = DOMAIN messages \cup {id}
      BY <1>9 DEF addMessageToList
    <3>2. IsFiniteSet(DOMAIN messages)
      BY DEF MailboxTypeOK, TableTypeOK
    <3>3. IsFiniteSet(DOMAIN messages')
      BY <3>1, <3>2, FS_AddElement
    <3>4. messages' \in [DOMAIN messages' -> Message]
      BY <1>9, <2>4, <3>1 DEF addMessageToList, MailboxTypeOK, TableTypeOK
    <3>5. entries' \in Seq(Nat)
      BY <1>9, <2>1 DEF addMessageToList, MailboxTypeOK, TableTypeOK
    <3> QED
      BY <1>9, <2>1, <3>1, <3>3, <3>4, <3>5
      DEF addMessageToList, MailboxTypeOK, TableTypeOK
  <2>8. LocalsTypeOK'
    BY <1>0, <1>9, SendingUpdate DEF addMessageToList, MailboxTypeOK, LocalsTypeOK
  <2>9. HistoryTypeOK'
    BY <1>9, <2>5 DEF addMessageToList, MailboxTypeOK, HistoryTypeOK
  <2> QED
    BY <2>6, <2>7, <2>8, <2>9 DEF MailboxTypeOK
<1> QED
  BY <1>1, <1>2, <1>3, <1>4, <1>5, <1>6, <1>7, <1>8, <1>9 DEF SendStep

\* The pull handler: its own variables.
LEMMA PullingType ==
  ASSUME TypeOK, LabelsFit, NEW c \in Conn, PullStep(c)
  PROVE  ConnTypeOK' /\ MailboxTypeOK'
<1> USE DEF TypeOK
<1>0. pulling[c] \in PullingRecord
  BY DEF MailboxTypeOK, LocalsTypeOK
<1>a. ASSUME NEW r \in PullingRecord, pulling' = [pulling EXCEPT ![c] = r],
             sending' = sending
      PROVE  LocalsTypeOK'
  BY <1>a DEF MailboxTypeOK, LocalsTypeOK
<1>1. CASE PullRefused(c)
  BY <1>1, ReturnErrorType
  DEF PullRefused, MailboxTypeOK, TableTypeOK, LocalsTypeOK, HistoryTypeOK, mailVars,
      tableVars
<1>2. CASE PullBegin(c)
  <2> DEFINE size == Cardinality(DOMAIN messages)
             new == [NoPulling EXCEPT !.used = size, !.left = size, !.made = Len(entries)]
  <2>1. ConnTypeOK'
    BY <1>2, AdvanceType DEF PullBegin, Label
  <2>2. size \in Nat /\ Len(entries) \in Nat
    <3>1. IsFiniteSet(DOMAIN messages) /\ entries \in Seq(Nat)
      BY DEF MailboxTypeOK, TableTypeOK
    <3> QED
      BY <3>1, FS_CardinalityType
  <2>3. new \in PullingRecord
    BY <2>2, NoPullingType, PullingUpdate
  <2>4. pulling' = [pulling EXCEPT ![c] = new]
    BY <1>2 DEF PullBegin
  <2> HIDE DEF new
  <2>5. LocalsTypeOK'
    BY <1>2, <1>a, <2>3, <2>4 DEF PullBegin
  <2> QED
    BY <1>2, <2>1, <2>5 DEF PullBegin, MailboxTypeOK, TableTypeOK, HistoryTypeOK, tableVars
<1>3. CASE PullChanged(c) \/ PackGone(c) \/ PullDeleteGone(c)
  <2>1. ConnTypeOK'
    BY <1>3, RaiseType DEF PullChanged, PackGone, PullDeleteGone
  <2>2. FramePopped(c)
    BY <1>3 DEF PullChanged, PackGone, PullDeleteGone
  <2>3. LocalsTypeOK'
    BY <1>a, <2>2, NoPullingType DEF FramePopped
  <2> QED
    BY <2>1, <2>2, <2>3 DEF FramePopped, MailboxTypeOK, TableTypeOK, HistoryTypeOK, tableVars
<1>4. CASE PullVisit(c)
  <2>1. PICK k \in Ahead(c) :
          /\ pulling' = [pulling EXCEPT ![c] =
                           [pulling[c] EXCEPT !.pos = k, !.id = entries[k],
                                              !.left = pulling[c].left - 1]]
          /\ Advance(c, IF messages[entries[k]].dest = req[c].src
                        THEN "packHeader" ELSE "pullNext")
    BY <1>4 DEF PullVisit
  <2>2. ConnTypeOK'
    BY <2>1, AdvanceType DEF Label
  <2>3. k \in Nat /\ entries[k] \in Nat
    BY <2>1 DEF Ahead, MailboxTypeOK, TableTypeOK
  <2>4. pulling[c].left - 1 \in Nat
    BY <1>0, <1>4 DEF PullVisit, PullingRecord
  <2> DEFINE new == [pulling[c] EXCEPT !.pos = k, !.id = entries[k],
                                       !.left = pulling[c].left - 1]
  <2>5. new \in PullingRecord
    BY <1>0, <2>3, <2>4, PullingUpdate
  <2>6. pulling' = [pulling EXCEPT ![c] = new]
    BY <2>1
  <2> HIDE DEF new
  <2>7. LocalsTypeOK'
    BY <1>4, <1>a, <2>5, <2>6 DEF PullVisit
  <2> QED
    BY <1>4, <2>2, <2>7 DEF PullVisit, MailboxTypeOK, TableTypeOK, HistoryTypeOK, tableVars
<1>5. CASE PackHeader(c)
  <2>1. ConnTypeOK'
    BY <1>5, AdvanceType DEF PackHeader, Label
  <2>2. messages[pulling[c].id] \in Message
    BY <1>5 DEF PackHeader, MailboxTypeOK, TableTypeOK
  <2> DEFINE new == [pulling[c] EXCEPT !.head = messages[pulling[c].id]]
  <2>3. new \in PullingRecord
    BY <1>0, <2>2, PullingUpdate
  <2>4. pulling' = [pulling EXCEPT ![c] = new]
    BY <1>5 DEF PackHeader
  <2> HIDE DEF new
  <2>5. LocalsTypeOK'
    BY <1>5, <1>a, <2>3, <2>4 DEF PackHeader
  <2> QED
    BY <1>5, <2>1, <2>5 DEF PackHeader, MailboxTypeOK, TableTypeOK, HistoryTypeOK, tableVars
<1>6. CASE PackContent(c)
  <2>1. ConnTypeOK'
    BY <1>6, AdvanceType DEF PackContent, Label
  <2> DEFINE rec == Packed(pulling[c].id, pulling[c].head, messages[pulling[c].id])
             new == [pulling[c] EXCEPT !.packed = Append(pulling[c].packed, rec)]
  <2>2. messages[pulling[c].id] \in Message
    BY <1>6 DEF PackContent, MailboxTypeOK, TableTypeOK
  <2>3. pulling[c].id \in Nat /\ pulling[c].head \in Message \cup {<<>>}
        /\ pulling[c].packed \in Seq(PackedRecord)
    BY <1>0 DEF PullingRecord
  <2>4. rec \in PackedRecord
    BY <2>2, <2>3 DEF Packed, PackedRecord
  <2>5. pulling' = [pulling EXCEPT ![c] = new]
    BY <1>6 DEF PackContent
  <2> HIDE DEF rec
  <2>6. Append(pulling[c].packed, rec) \in Seq(PackedRecord)
    BY <2>3, <2>4
  <2>7. new \in PullingRecord
    BY <1>0, <2>6, PullingUpdate
  <2> HIDE DEF new
  <2>8. LocalsTypeOK'
    BY <1>6, <1>a, <2>5, <2>7 DEF PackContent
  <2> QED
    BY <1>6, <2>1, <2>8 DEF PackContent, MailboxTypeOK, TableTypeOK, HistoryTypeOK, tableVars
<1>7. CASE PullEnd(c)
  BY <1>7, AdvanceType
  DEF PullEnd, Label, MailboxTypeOK, TableTypeOK, LocalsTypeOK, HistoryTypeOK, mailVars,
      tableVars
<1>8. CASE PullDelete(c)
  <2> DEFINE id == NextToDelete(c)
             new == [pulling[c] EXCEPT !.deleted = pulling[c].deleted + 1]
  <2>1. messages' = [i \in DOMAIN messages \ {id} |-> messages[i]]
    BY <1>8 DEF PullDelete
  <2>2. entries' = [k \in DOMAIN entries |-> IF entries[k] = id THEN Gone ELSE entries[k]]
    BY <1>8 DEF PullDelete
  <2>3. pulling' = [pulling EXCEPT ![c] = new]
    BY <1>8 DEF PullDelete
  <2>4. new \in PullingRecord
    <3>1. pulling[c].deleted + 1 \in Nat
      BY <1>0 DEF PullingRecord
    <3> QED
      BY <1>0, <3>1, PullingUpdate
  <2> HIDE DEF id, new
  <2>5. LocalsTypeOK'
    BY <1>8, <1>a, <2>3, <2>4 DEF PullDelete
  <2>6. entries' \in Seq(Nat)
    <3>1. entries \in Seq(Nat) /\ DOMAIN entries = 1 .. Len(entries) /\ Len(entries) \in Nat
      BY DEF MailboxTypeOK, TableTypeOK
    <3>2. entries' \in [1 .. Len(entries) -> Nat]
      BY <2>2, <3>1 DEF Gone
    <3> QED
      BY <3>1, <3>2, SeqDef
  <2>7. IsFiniteSet(DOMAIN messages')
    <3>1. DOMAIN messages' = DOMAIN messages \ {id}
      BY <2>1
    <3>2. IsFiniteSet(DOMAIN messages)
      BY DEF MailboxTypeOK, TableTypeOK
    <3> QED
      BY <3>1, <3>2, FS_RemoveElement
  <2>8. TableTypeOK'
    BY <1>8, <2>1, <2>6, <2>7 DEF PullDelete, MailboxTypeOK, TableTypeOK
  <2> QED
    BY <1>8, <2>5, <2>8 DEF PullDelete, MailboxTypeOK, HistoryTypeOK, ConnTypeOK, connVars
<1>9. CASE PullSend(c)
  <2>1. pulling[c].packed \in Seq(PackedRecord)
    BY <1>0 DEF PullingRecord
  <2>2. ConnTypeOK'
    <3>1. Len(pulling[c].packed) \in Nat
      BY <2>1
    <3> QED
      BY <1>9, <3>1, ReplyLongType DEF PullSend
  <2>3. \A b : TimesPacked(c, b) \in Nat
    <3>1. IsFiniteSet(1 .. Len(pulling[c].packed))
      BY <2>1, FS_Interval
    <3>2. DOMAIN pulling[c].packed = 1 .. Len(pulling[c].packed)
      BY <2>1
    <3> QED
      BY <3>1, <3>2, FS_Subset, FS_CardinalityType DEF TimesPacked
  <2>4. HistoryTypeOK'
    BY <1>9, <2>3 DEF PullSend, MailboxTypeOK, HistoryTypeOK
  <2>5. LocalsTypeOK'
    BY <1>9, <1>a, NoPullingType DEF PullSend
  <2> QED
    BY <1>9, <2>2, <2>4, <2>5 DEF PullSend, MailboxTypeOK, TableTypeOK, tableVars
<1> QED
  BY <1>1, <1>2, <1>3, <1>4, <1>5, <1>6, <1>7, <1>8, <1>9 DEF PullStep

-----------------------------------------------------------------------------
\* The other threads stay where they are.
LEMMA FitsStep ==
  ASSUME LabelsFit, NEW c \in Conn,
         \A d \in Conn \ {c} :
           pc'[d] = pc[d] /\ req'[d] = req[d] /\ sending'[d].id = sending[d].id,
         Fits(pc'[c], req'[c], sending'[c].id)
  PROVE  LabelsFit'
BY DEF LabelsFit

\* A thread that waits for its client, or has ended, fits any request.
LEMMA FitsOutside ==
  ASSUME NEW label \in {"free", "recvHeader", "sendall", "done"}, NEW r, NEW id
  PROVE  Fits(label, r, id)
BY DEF Fits

\* The send handler only moves to labels that fit the request.
LEMMA LabelsFitSending ==
  ASSUME TypeOK, LabelsFit, NEW c \in Conn, SendStep(c)
  PROVE  LabelsFit'
<1>1. pc \in [Conn -> Label] /\ sending \in [Conn -> SendingRecord] /\ ID # Gone
  BY DEF TypeOK, ConnTypeOK, MailboxTypeOK, LocalsTypeOK, TableTypeOK
<1>2. Fits(pc[c], req[c], sending[c].id) /\ sending[c] \in SendingRecord
  BY <1>1 DEF LabelsFit
<1>3. \A d \in Conn \ {c} :
        pc'[d] = pc[d] /\ req'[d] = req[d] /\ sending'[d].id = sending[d].id
  BY <1>1 DEF SendStep, SendReset, SendHeadless, SendUnparsed, SendRefused, SendChecked,
     TakeID, ReadID, LoadID, StoreID, addMessageToList, Raise, AbandonSocket,
     returnGeneralError, CloseAndEnd, Reply, Advance, Goto, mailVars
<1>4. CASE SendReset(c) \/ SendUnparsed(c) \/ SendRefused(c) \/ addMessageToList(c)
  <2>1. pc'[c] = "done"
    BY <1>1, <1>4 DEF SendReset, SendUnparsed, SendRefused, addMessageToList, Raise,
       AbandonSocket, returnGeneralError, CloseAndEnd, Reply, Goto
  <2> QED
    BY <1>3, <2>1, FitsOutside, FitsStep
<1>5. CASE SendHeadless(c)
  BY <1>1, <1>3, <1>5, FitsStep DEF SendHeadless, Routed, Goto, Fits
<1>6. CASE SendChecked(c)
  BY <1>1, <1>3, <1>6, FitsStep DEF SendChecked, Routed, Advance, Goto, Fits
<1>7. CASE TakeID(c) \/ ReadID(c)
  <2>1. sending'[c].id = ID
    BY <1>1, <1>2, <1>7 DEF TakeID, ReadID, SendingRecord
  <2> QED
    BY <1>1, <1>2, <1>3, <1>7, <2>1, FitsStep DEF TakeID, ReadID, Advance, Goto, Fits
<1>8. CASE LoadID(c) \/ StoreID(c)
  <2>1. sending'[c].id = sending[c].id
    BY <1>1, <1>2, <1>8 DEF LoadID, StoreID, SendingRecord
  <2> QED
    BY <1>1, <1>2, <1>3, <1>8, <2>1, FitsStep DEF LoadID, StoreID, Advance, Goto, Fits
<1> QED
  BY <1>4, <1>5, <1>6, <1>7, <1>8 DEF SendStep

\* The pull handler only moves to labels that fit the request.
LEMMA LabelsFitPulling ==
  ASSUME TypeOK, LabelsFit, NEW c \in Conn, PullStep(c)
  PROVE  LabelsFit'
<1>1. pc \in [Conn -> Label]
  BY DEF TypeOK, ConnTypeOK
<1>2. Fits(pc[c], req[c], sending[c].id)
  BY DEF LabelsFit
<1>3. \A d \in Conn \ {c} :
        pc'[d] = pc[d] /\ req'[d] = req[d] /\ sending'[d].id = sending[d].id
  BY <1>1 DEF PullStep, PullRefused, PullBegin, PullChanged, PullVisit, PackHeader,
     PackContent, PackGone, PullEnd, PullDelete, PullDeleteGone, PullSend, FramePopped,
     Raise, AbandonSocket, returnGeneralError, CloseAndEnd, ReplyLong, Advance, Goto,
     mailVars, connVars
<1>4. CASE \/ PullRefused(c) \/ PullChanged(c) \/ PackGone(c) \/ PullDeleteGone(c)
           \/ PullSend(c)
  <2>1. pc'[c] \in {"done", "sendall"}
    BY <1>1, <1>4 DEF PullRefused, PullChanged, PackGone, PullDeleteGone, PullSend,
       Raise, AbandonSocket, returnGeneralError, CloseAndEnd, ReplyLong, Goto
  <2> QED
    BY <1>3, <2>1, FitsOutside, FitsStep
<1>5. CASE PullBegin(c)
  BY <1>1, <1>3, <1>5, FitsStep DEF PullBegin, Routed, Advance, Goto, Fits
<1>6. CASE PullVisit(c) \/ PackHeader(c) \/ PackContent(c) \/ PullEnd(c) \/ PullDelete(c)
  <2>1. pc[c] \in {"pullNext", "packHeader", "packContent", "pullDelete"}
        /\ pc'[c] \in {"pullNext", "packHeader", "packContent", "pullDelete"}
    BY <1>1, <1>6 DEF PullVisit, PackHeader, PackContent, PullEnd, PullDelete, Advance,
       Goto, connVars
  <2>2. req'[c] = req[c]
    BY <1>6 DEF PullVisit, PackHeader, PackContent, PullEnd, PullDelete, Advance, connVars
  <2> QED
    BY <1>2, <1>3, <2>1, <2>2, FitsStep DEF Fits
<1> QED
  BY <1>4, <1>5, <1>6 DEF PullStep

\* The handlers of the clients list only move to labels that fit the request.
LEMMA LabelsFitRegistry ==
  ASSUME TypeOK, LabelsFit, NEW c \in Conn, RegistryStep(c), UNCHANGED mailVars
  PROVE  LabelsFit'
<1>1. pc \in [Conn -> Label]
  BY DEF TypeOK, ConnTypeOK
<1>2. \A d \in Conn \ {c} :
        pc'[d] = pc[d] /\ req'[d] = req[d] /\ sending'[d].id = sending[d].id
  BY <1>1 DEF RegistryStep, RegisterWhole, RegisterRefused, RegisterReset, addNewClient,
     ListRefused, ListAnnounce, ListStart, ListNext, ListChanged, ListSend, KeyRefused,
     KeyReset, KeyOfNobody, KeyAnswer, Raise, AbandonSocket, returnGeneralError,
     CloseAndEnd, Reply, Advance, Goto, mailVars, connVars
<1>3. CASE RegisterWhole(c) \/ ListAnnounce(c)
  BY <1>1, <1>2, <1>3, FitsStep DEF RegisterWhole, ListAnnounce, Routed, Goto, Fits
<1>4. CASE ListStart(c) \/ ListNext(c)
  <2>1. /\ pc[c] \in {"listStart", "listNext"} /\ pc'[c] = "listNext"
        /\ req'[c] = req[c]
    BY <1>1, <1>4 DEF ListStart, ListNext, Advance, Goto, connVars
  <2>2. req[c].op = "CLIENTS_LIST_REQ"
    BY <2>1 DEF LabelsFit, Fits
  <2> QED
    BY <1>2, <2>1, <2>2, FitsStep DEF Fits
<1>5. CASE ~(RegisterWhole(c) \/ ListAnnounce(c) \/ ListStart(c) \/ ListNext(c))
  <2>1. pc'[c] \in {"done", "sendall"}
    BY <1>1, <1>5 DEF RegistryStep, RegisterRefused, RegisterReset, addNewClient,
       ListRefused, ListChanged, ListSend, KeyRefused, KeyReset, KeyOfNobody, KeyAnswer,
       Raise, AbandonSocket, returnGeneralError, CloseAndEnd, Reply, Goto
  <2> QED
    BY <1>2, <2>1, FitsOutside, FitsStep
<1> QED
  BY <1>3, <1>4, <1>5

-----------------------------------------------------------------------------
\* At the start every thread is free and every table empty.
LEMMA TypeInit == Init => TypeOK /\ LabelsFit
<1> SUFFICES ASSUME Init PROVE TypeOK /\ LabelsFit
  OBVIOUS
<1> USE DEF Init, ConnInit, RegistryInit, MailboxInit
<1>1. ConnTypeOK
  BY DEF ConnTypeOK, Label
<1>2. RegistryTypeOK
  <2>1. <<>> \in Seq(ClientRecord)
    OBVIOUS
  <2> QED
    BY <2>1, ConstantsAssumption DEF RegistryTypeOK, ConstantsAssumption, NoListing
<1>3. TableTypeOK
  <2>1. DOMAIN messages = {}
    OBVIOUS
  <2> QED
    BY <2>1, FS_EmptySet DEF TableTypeOK, Gone
<1>4. LocalsTypeOK
  <2>1. NoSending \in SendingRecord
    BY DEF NoSending, SendingRecord, Gone
  <2> QED
    BY <2>1, NoPullingType DEF LocalsTypeOK
<1>5. HistoryTypeOK
  BY DEF HistoryTypeOK
<1>6. LabelsFit
  <2>1. \A c \in Conn : pc[c] = "free"
    OBVIOUS
  <2> QED
    BY <2>1, FitsOutside DEF LabelsFit
<1> QED
  BY <1>1, <1>2, <1>3, <1>4, <1>5, <1>6 DEF TypeOK, MailboxTypeOK

\* Every step keeps the shapes and the fit of labels to requests.
LEMMA TypeStep ==
  ASSUME TypeOK, LabelsFit, [Next]_vars
  PROVE  TypeOK' /\ LabelsFit'
<1> USE DEF TypeOK
<1>1. CASE UNCHANGED vars
  BY <1>1 DEF vars, connVars, registryVars, mailVars, tableVars, ConnTypeOK,
     RegistryTypeOK, MailboxTypeOK, TableTypeOK, LocalsTypeOK, HistoryTypeOK, LabelsFit
<1>2. ASSUME NEW c \in Conn, Connect(c) \/ Talk(c) \/ Hangup(c) \/ Release(c)
      PROVE  TypeOK' /\ LabelsFit'
  <2>1. ConnTypeOK'
    <3>1. Offered \subseteq Request
      BY ConstantsAssumption DEF Offered, ConstantsAssumption
    <3> QED
      BY <1>2, <3>1, ConnectionType DEF Connect, Talk, Hangup, Release
  <2>2. UNCHANGED <<registryVars, mailVars>>
    BY <1>2 DEF Connect, Talk, Hangup, Release
  <2>3. RegistryTypeOK' /\ MailboxTypeOK'
    BY <2>2 DEF registryVars, mailVars, tableVars, RegistryTypeOK, MailboxTypeOK,
       TableTypeOK, LocalsTypeOK, HistoryTypeOK
  <2>4. pc \in [Conn -> Label]
    BY DEF ConnTypeOK
  <2>5. CASE Connect(c) \/ Release(c)
    <3>1. pc'[c] \in {"recvHeader", "free"}
      BY <2>4, <2>5 DEF Connect, Release, Accept, Leave, Goto
    <3>2. \A d \in Conn \ {c} :
            pc'[d] = pc[d] /\ req'[d] = req[d] /\ sending'[d].id = sending[d].id
      BY <2>2, <2>4, <2>5 DEF Connect, Release, Accept, Leave, Goto, ConnTypeOK, mailVars
    <3>3. LabelsFit'
      BY <3>1, <3>2, FitsOutside, FitsStep
    <3> QED
      BY <2>1, <2>3, <3>3
  <2>6. CASE Talk(c) \/ Hangup(c)
    BY <2>1, <2>2, <2>3, <2>6 DEF Talk, Write, Read, Hangup, Drop, LabelsFit, mailVars
  <2> QED
    BY <1>2, <2>5, <2>6
<1>3. ASSUME NEW c \in Conn, ThreadStep(c)
      PROVE  TypeOK' /\ LabelsFit'
  <2>1. CASE (RejectHeader(c) \/ EndSend(c)) /\ UNCHANGED <<registryVars, mailVars>>
    <3>1. ConnTypeOK'
      BY <2>1, ConnectionType
    <3>2. RegistryTypeOK' /\ MailboxTypeOK'
      BY <2>1 DEF registryVars, mailVars, tableVars, RegistryTypeOK, MailboxTypeOK,
         TableTypeOK, LocalsTypeOK, HistoryTypeOK
    <3>3. pc'[c] = "done" /\ \A d \in Conn \ {c} : pc'[d] = pc[d]
      BY <2>1 DEF RejectHeader, EndSend, returnGeneralError, CloseAndEnd, Goto, ConnTypeOK
    <3>4. \A d \in Conn : req'[d] = req[d] /\ sending'[d].id = sending[d].id
      BY <2>1 DEF RejectHeader, EndSend, returnGeneralError, mailVars
    <3> QED
      BY <3>1, <3>2, <3>3, <3>4, FitsOutside, FitsStep
  <2>2. CASE RegistryStep(c) /\ UNCHANGED mailVars
    <3>1. MailboxTypeOK'
      BY <2>2 DEF mailVars, tableVars, MailboxTypeOK, TableTypeOK, LocalsTypeOK,
         HistoryTypeOK
    <3> QED
      BY <2>2, <3>1, RegistryType, LabelsFitRegistry
  <2>3. CASE MailboxStep(c) /\ UNCHANGED registryVars
    <3>1. RegistryTypeOK'
      BY <2>3 DEF registryVars, RegistryTypeOK
    <3> QED
      BY <2>3, <3>1, SendingType, PullingType, LabelsFitSending, LabelsFitPulling
      DEF MailboxStep
  <2> QED
    BY <1>3, <2>1, <2>2, <2>3 DEF ThreadStep
<1>4. ASSUME LoseAccept  PROVE TypeOK' /\ LabelsFit'
  <2>1. ConnTypeOK'
    BY <1>4, ConnectionType DEF LoseAccept, AcceptError, ConnTypeOK
  <2>2. UNCHANGED <<registryVars, mailVars, pc, req>>
    BY <1>4 DEF LoseAccept, AcceptError
  <2>3. RegistryTypeOK' /\ MailboxTypeOK'
    BY <2>2 DEF registryVars, mailVars, tableVars, RegistryTypeOK, MailboxTypeOK,
       TableTypeOK, LocalsTypeOK, HistoryTypeOK
  <2> QED
    BY <2>1, <2>2, <2>3 DEF LabelsFit, mailVars
<1> QED
  BY <1>1, <1>2, <1>3, <1>4 DEF Next

\* The shapes, with what makes them inductive, hold throughout.
LEMMA TypeAndLabels == Spec => [](TypeOK /\ LabelsFit)
<1>1. Init => TypeOK /\ LabelsFit
  BY TypeInit
<1>2. TypeOK /\ LabelsFit /\ [Next]_vars => (TypeOK /\ LabelsFit)'
  BY TypeStep
<1> QED
  BY <1>1, <1>2, PTL DEF Spec

\* Whatever the clients ask and however the threads take turns, the clients
\* list, the table of messages and every thread's locals keep their shape; in
\* particular no key of the table is ever Gone, and the ID counter never is.
THEOREM TypeCorrect == Spec => []TypeOK
BY TypeAndLabels, PTL

-----------------------------------------------------------------------------
\* A thread inside a handler goes on, ends with its socket closed, or ends with
\* a socket that only the accept loop may still refer to.
LEMMA ThreadEndsOrGoesOn ==
  ASSUME TypeOK, NEW c \in Conn, ThreadStep(c)
  PROVE  /\ UNCHANGED lastAccepted
         /\ \A d \in Conn \ {c} : pc'[d] = pc[d] /\ open'[d] = open[d]
         /\ pc'[c] # "done" \/ ~open'[c] \/ c = lastAccepted
<1>0. pc \in [Conn -> Label] /\ open \in [Conn -> BOOLEAN]
  BY DEF TypeOK, ConnTypeOK
<1> USE <1>0 DEF Raise, AbandonSocket, returnGeneralError, CloseAndEnd, Reply, ReplyLong,
      Advance, Goto, connVars
<1>1. CASE RejectHeader(c) \/ EndSend(c)
  BY <1>1 DEF RejectHeader, EndSend
<1>2. CASE RegistryStep(c)
  BY <1>2 DEF RegistryStep, RegisterWhole, RegisterRefused, RegisterReset, addNewClient,
     ListRefused, ListAnnounce, ListStart, ListNext, ListChanged, ListSend, KeyRefused,
     KeyReset, KeyOfNobody, KeyAnswer
<1>3. CASE SendStep(c)
  BY <1>3 DEF SendStep, SendReset, SendHeadless, SendUnparsed, SendRefused, SendChecked,
     TakeID, ReadID, LoadID, StoreID, addMessageToList
<1>4. CASE PullStep(c)
  BY <1>4 DEF PullStep, PullRefused, PullBegin, PullChanged, PullVisit, PackHeader,
     PackContent, PackGone, PullEnd, PullDelete, PullDeleteGone, PullSend, FramePopped
<1> QED
  BY <1>1, <1>2, <1>3, <1>4 DEF ThreadStep, MailboxStep

\* However threads end, clients leave and accept() fails, a socket whose thread is
\* over and that is still open is the one the accept loop's variable refers to.
THEOREM OnlyLastStaysOpenCorrect == Spec => []OnlyLastStaysOpen
<1>1. Init => OnlyLastStaysOpen
  BY DEF Init, ConnInit, OnlyLastStaysOpen
<1>2. ASSUME TypeOK, OnlyLastStaysOpen, [Next]_vars  PROVE OnlyLastStaysOpen'
  <2>0. pc \in [Conn -> Label] /\ open \in [Conn -> BOOLEAN]
    BY <1>2 DEF TypeOK, ConnTypeOK
  <2>1. CASE UNCHANGED vars
    BY <1>2, <2>1 DEF vars, connVars, OnlyLastStaysOpen
  <2>2. CASE LoseAccept
    BY <1>2, <2>0, <2>2 DEF LoseAccept, AcceptError, OnlyLastStaysOpen
  <2>3. ASSUME NEW c \in Conn, Connect(c)  PROVE OnlyLastStaysOpen'
    <3>1. pc'[c] = "recvHeader" /\ \A d \in Conn \ {c} : pc'[d] = pc[d]
      BY <2>0, <2>3 DEF Connect, Accept, Goto
    <3>2. \A d \in Conn \ {c} : open'[d] => open[d] /\ ~(d = lastAccepted /\ pc[d] = "done")
      BY <2>3 DEF Connect, Accept
    <3> QED
      BY <1>2, <3>1, <3>2 DEF OnlyLastStaysOpen
  <2>4. ASSUME NEW c \in Conn, Talk(c) \/ Hangup(c) \/ Release(c)
        PROVE  OnlyLastStaysOpen'
    BY <1>2, <2>0, <2>4 DEF Talk, Write, Read, Hangup, Release, Drop, Leave, Goto,
                            OnlyLastStaysOpen
  <2>5. ASSUME NEW c \in Conn, ThreadStep(c)  PROVE OnlyLastStaysOpen'
    BY <1>2, <2>5, ThreadEndsOrGoesOn DEF OnlyLastStaysOpen
  <2> QED
    BY <1>2, <2>1, <2>2, <2>3, <2>4, <2>5 DEF Next
<1> QED
  BY <1>1, <1>2, TypeCorrect, PTL DEF Spec
=============================================================================
