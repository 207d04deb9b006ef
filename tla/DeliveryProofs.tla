---------------------------- MODULE DeliveryProofs ----------------------------
(***************************************************************************)
(* What becomes of a message, for any number of connections and messages,  *)
(* when threads are switched only at calls and at the ends of loop turns:  *)
(* the IDs its senders are told, and that the two handlers together do     *)
(* what the abstract mailbox does.                                         *)
(***************************************************************************)
EXTENDS MailboxProofs, RegistryProofs

-----------------------------------------------------------------------------
\* The answers to senders

\* The connections that were told the ID of their message.
Acked == {c \in Conn : req[c].op = "SEND_MESSAGE_REQ" /\ payload[c] # <<>>}
AckedID(c) == payload[c][1].id

\* An ID a sender was told has been taken and stored, and by this sender.
AckInv ==
  /\ \A c \in Acked : AckedID(c) \in Nat /\ AckedID(c) < ID /\ AckedID(c) \notin Pending
  /\ \A c, d \in Acked : AckedID(c) = AckedID(d) => c = d

\* Every thread but the one that stores a message leaves the answers to senders
\* alone.
LEMMA AnswersStay ==
  ASSUME TypeOK, LabelsFit, ListInv, NEW c \in Conn,
         Connect(c) \/ Release(c) \/ (ThreadStep(c) /\ ~addMessageToList(c))
  PROVE  \A d \in Acked' : d \in Acked /\ payload'[d] = payload[d]
<1>0. pc \in [Conn -> Label] /\ req \in [Conn -> Request \cup {NoRequest}]
      /\ Fits(pc[c], req[c], sending[c].id)
  BY DEF TypeOK, ConnTypeOK, LabelsFit
<1>1. \A d \in Conn \ {c} : req'[d] = req[d] /\ payload'[d] = payload[d]
  BY OthersSame DEF SameConnection
<1>2. CASE Connect(c)
  <2>1. payload'[c] = <<>>
    BY <1>2 DEF Connect, Accept, ListInv, ListThreadInv, NothingSentEarly
  <2> QED
    BY <1>1, <2>1 DEF Acked
<1>3. CASE Release(c)
  <2>1. payload'[c] = <<>>
    BY <1>3 DEF Release, Leave, TypeOK, ConnTypeOK
  <2> QED
    BY <1>1, <2>1 DEF Acked
<1>4. CASE ThreadStep(c) /\ ~addMessageToList(c)
  <2>1. CASE addNewClient(c) \/ ListSend(c) \/ KeyAnswer(c) \/ PullSend(c)
    <3>1. req' = req /\ req[c].op # "SEND_MESSAGE_REQ"
      BY <1>0, <2>1 DEF addNewClient, ListSend, KeyAnswer, PullSend, Routed, Reply,
         ReplyLong, Fits
    <3> QED
      BY <1>1, <3>1 DEF Acked
  <2>2. CASE ~(addNewClient(c) \/ ListSend(c) \/ KeyAnswer(c) \/ PullSend(c))
    <3>1. req' = req /\ payload' = payload
      BY <1>4, <2>2 DEF ThreadStep, RejectHeader, EndSend, RegistryStep, RegisterWhole,
         RegisterRefused, RegisterReset, ListRefused, ListAnnounce, ListStart, ListNext,
         ListChanged, KeyRefused, KeyReset, KeyOfNobody, MailboxStep, SendStep, SendReset,
         SendHeadless, SendUnparsed, SendRefused, SendChecked, TakeID, ReadID, LoadID,
         StoreID, PullStep, PullRefused, PullBegin, PullChanged, PullVisit, PackHeader,
         PackContent, PackGone, PullEnd, PullDelete, PullDeleteGone, Raise,
         returnGeneralError, Advance, connVars
    <3> QED
      BY <3>1 DEF Acked
  <2> QED
    BY <2>1, <2>2
<1> QED
  BY <1>2, <1>3, <1>4

\* A step that tells nobody an ID, and takes none.
LEMMA AckKept ==
  ASSUME AckInv, Pending' \subseteq Pending, ID' = ID,
         \A d \in Acked' : d \in Acked /\ payload'[d] = payload[d]
  PROVE  AckInv'
BY DEF AckInv, AckedID

\* Where the threads touch the counter and the table of messages.
LEMMA MailboxUntouched ==
  ASSUME TypeOK, MailInv, ~SwitchAnywhere, NEW c \in Conn,
         \/ Connect(c) \/ Release(c)
         \/ ThreadStep(c) /\ ~(TakeID(c) \/ addMessageToList(c))
  PROVE  ID' = ID /\ accepted' = accepted /\ pc'[c] # "addMessageToList"
<1>0. pc \in [Conn -> Label] /\ ThreadInv(c)
  BY DEF TypeOK, ConnTypeOK, MailInv
<1>1. CASE Connect(c) \/ Release(c)
  BY <1>0, <1>1 DEF Connect, Accept, Release, Leave, Goto, mailVars
<1> USE <1>0 DEF Raise, AbandonSocket, returnGeneralError, CloseAndEnd, Reply, ReplyLong,
            Advance, Goto, connVars, mailVars
<1>2. CASE (RejectHeader(c) \/ EndSend(c)) /\ UNCHANGED mailVars
  BY <1>2 DEF RejectHeader, EndSend
<1>3. CASE RegistryStep(c) /\ UNCHANGED mailVars
  BY <1>3 DEF RegistryStep, RegisterWhole, RegisterRefused, RegisterReset, addNewClient,
     ListRefused, ListAnnounce, ListStart, ListNext, ListChanged, ListSend, KeyRefused,
     KeyReset, KeyOfNobody, KeyAnswer
<1>4. CASE SendStep(c) /\ ~(TakeID(c) \/ addMessageToList(c))
  BY <1>4 DEF SendStep, SendReset, SendHeadless, SendUnparsed, SendRefused, SendChecked,
     ReadID, LoadID, StoreID, ThreadInv
<1>5. CASE PullStep(c)
  BY <1>5 DEF PullStep, PullRefused, PullBegin, PullChanged, PullVisit, PackHeader,
     PackContent, PackGone, PullEnd, PullDelete, PullDeleteGone, PullSend, FramePopped
<1> QED
  BY <1>1, <1>2, <1>3, <1>4, <1>5 DEF ThreadStep, MailboxStep

LEMMA AckStep ==
  ASSUME ~SwitchAnywhere, TypeOK, LabelsFit, MailInv, ListInv, AckInv, [Next]_vars
  PROVE  AckInv'
<1>0. /\ pc \in [Conn -> Label] /\ ID \in Nat
      /\ sending \in [Conn -> SendingRecord] /\ DOMAIN payload = Conn
  BY DEF TypeOK, ConnTypeOK, MailboxTypeOK, LocalsTypeOK, TableTypeOK
<1>1. CASE UNCHANGED vars
  BY <1>1 DEF vars, connVars, mailVars, AckInv, Acked, AckedID, Pending, Storing
<1>2. CASE LoseAccept \/ \E c \in Conn : Talk(c) \/ Hangup(c)
  BY <1>2 DEF LoseAccept, AcceptError, Talk, Write, Read, Hangup, Drop, mailVars, AckInv,
     Acked, AckedID, Pending, Storing
<1>3. ASSUME NEW c \in Conn,
             \/ Connect(c) \/ Release(c)
             \/ ThreadStep(c) /\ ~(TakeID(c) \/ addMessageToList(c))
      PROVE  AckInv'
  BY <1>3, AckKept, AnswersStay, MailboxUntouched, OneThread, PendingShrinks
<1>4. ASSUME NEW c \in Conn, TakeID(c), ThreadStep(c)  PROVE AckInv'
  <2>1. /\ pc[c] = "takeID" /\ ID' = ID + 1 /\ UNCHANGED <<req, payload>>
        /\ sending'[c].id = ID
    BY <1>0, <1>4 DEF TakeID, Advance, SendingRecord
  <2>2. Pending' \subseteq Pending \cup {ID}
    <3>1. \A d \in Conn \ {c} : pc'[d] = pc[d] /\ sending'[d] = sending[d]
      BY <1>4, OneThread DEF OthersStay
    <3> QED
      BY <2>1, <3>1 DEF Pending, Storing
  <2>3. Acked' = Acked /\ \A d \in Acked : AckedID(d)' = AckedID(d)
    BY <2>1 DEF Acked, AckedID
  <2>4. \A n \in Nat : n < ID => n < ID + 1 /\ n # ID
    BY <1>0
  <2> QED
    BY <1>0, <2>1, <2>2, <2>3, <2>4 DEF AckInv
<1>5. ASSUME NEW c \in Conn, addMessageToList(c), ThreadStep(c)  PROVE AckInv'
  <2> DEFINE id == sending[c].id
             record == [dest |-> req[c].dest, id |-> id]
  <2>1. /\ c \in Storing /\ pc'[c] = "done" /\ UNCHANGED <<ID, req>>
        /\ payload' = IF Connected(c) THEN [payload EXCEPT ![c] = <<record>>] ELSE payload
    BY <1>0, <1>5 DEF addMessageToList, Storing, Reply, SendPayload, CloseAndEnd, Goto
  <2>2. id \in Nat /\ id < ID /\ id \in Pending
    BY <1>0, <2>1 DEF SendingRecord, MailInv, ThreadInv, StoringInv, Pending
  <2>3. /\ Storing' \subseteq Storing \ {c} /\ Pending' \subseteq Pending
        /\ \A d \in Storing' : sending'[d] = sending[d]
    BY <1>5, <2>1, OneThread, PendingShrinks
  <2>4. id \notin Pending'
    BY <2>1, <2>3 DEF Pending, MailInv, PendingDistinct
  <2>5. \A d \in Acked' : \/ d = c /\ AckedID(d)' = id
                          \/ d \in Acked /\ AckedID(d)' = AckedID(d)
    <3>1. CASE Connected(c)
      <4>1. payload'[c] = <<record>> /\ \A d \in Conn \ {c} : payload'[d] = payload[d]
        BY <1>0, <2>1, <3>1
      <4>2. payload'[c][1].id = id
        BY <4>1
      <4> QED
        BY <2>1, <4>1, <4>2 DEF Acked, AckedID
    <3>2. CASE ~Connected(c)
      BY <2>1, <3>2 DEF Acked, AckedID
    <3> QED
      BY <3>1, <3>2
  <2> HIDE DEF id
  <2> QED
    BY <2>1, <2>2, <2>3, <2>4, <2>5 DEF AckInv
<1> QED
  BY <1>1, <1>2, <1>3, <1>4, <1>5 DEF Next

\* No two senders that read their answers hold one ID, however their threads and
\* the pulls that delete messages take turns.
THEOREM IDsDistinctCorrect == ASSUME ~SwitchAnywhere PROVE Spec => []IDsDistinct
<1>1. Init => AckInv
  <2>1. Init => Acked = {}
    BY DEF Init, ConnInit, Acked
  <2> QED
    BY <2>1 DEF AckInv
<1>2. TypeOK /\ LabelsFit /\ MailInv /\ ListInv /\ AckInv /\ [Next]_vars => AckInv'
  BY AckStep
<1>3. AckInv => IDsDistinct
  BY DEF AckInv, Acked, AckedID, IDsDistinct
<1> QED
  BY <1>1, <1>2, <1>3, TypeAndLabels, MailCorrect, ListCorrect, PTL DEF Spec

-----------------------------------------------------------------------------
\* The contents

Writing(c) == req[c].op = "SEND_MESSAGE_REQ"

\* A content that a request still carries has not been stored.
NotStoredYet(c) ==
  Writing(c) /\ pc[c] # "done" => \A e \in accepted : e.body # req[c].body

\* A content is in one request, and belongs to one stored message.
BodyInv ==
  /\ \A c, d \in Conn : Writing(c) /\ Writing(d) /\ req[c].body = req[d].body => c = d
  /\ \A c \in Conn : NotStoredYet(c)

LEMMA BodyStep ==
  ASSUME ~SwitchAnywhere, TypeOK, LabelsFit, MailInv, BodyInv, [Next]_vars
  PROVE  BodyInv'
<1>0. /\ pc \in [Conn -> Label] /\ req \in [Conn -> Request \cup {NoRequest}]
      /\ \A c \in Conn : Fits(pc[c], req[c], sending[c].id)
  BY DEF TypeOK, ConnTypeOK, LabelsFit
<1>1. CASE UNCHANGED vars \/ LoseAccept \/ \E c \in Conn : Talk(c) \/ Hangup(c)
  BY <1>1 DEF vars, connVars, mailVars, LoseAccept, AcceptError, Talk, Write, Read, Hangup,
     Drop, BodyInv, Writing, NotStoredYet
<1>2. ASSUME NEW c \in Conn, Connect(c)  PROVE BodyInv'
  <2>1. PICK r \in Offered :
          /\ r.op = "SEND_MESSAGE_REQ" => FreshBody(r.body)
          /\ Accept(c, r)
    BY <1>2 DEF Connect
  <2>2. /\ req'[c] = r /\ accepted' = accepted
        /\ \A d \in Conn \ {c} : req'[d] = req[d] /\ pc'[d] = pc[d]
    BY <1>0, <1>2, <2>1 DEF Connect, Accept, Goto, mailVars
  <2> QED
    BY <2>1, <2>2 DEF FreshBody, BodyInv, Writing, NotStoredYet
<1>3. ASSUME NEW c \in Conn, Release(c)  PROVE BodyInv'
  <2>1. /\ req'[c] = NoRequest /\ accepted' = accepted
        /\ \A d \in Conn \ {c} : req'[d] = req[d] /\ pc'[d] = pc[d]
    BY <1>0, <1>3 DEF Release, Leave, Goto, mailVars
  <2> QED
    BY <2>1 DEF BodyInv, Writing, NotStoredYet, NoRequest
<1>4. ASSUME NEW c \in Conn, ThreadStep(c)  PROVE BodyInv'
  <2>1. pc[c] # "done" /\ req' = req
    BY <1>4 DEF ThreadStep, RejectHeader, EndSend, RegistryStep, RegisterWhole, RegisterRefused,
       RegisterReset, addNewClient, ListRefused, ListAnnounce, ListStart, ListNext,
       ListChanged, ListSend, KeyRefused, KeyReset, KeyOfNobody, KeyAnswer, MailboxStep,
       SendStep, SendReset, SendHeadless, SendUnparsed, SendRefused, SendChecked, TakeID,
       ReadID, LoadID, StoreID, addMessageToList, PullStep, PullRefused, PullBegin,
       PullChanged, PullVisit, PackHeader, PackContent, PackGone, PullEnd, PullDelete,
       PullDeleteGone, PullSend, Routed, Raise, returnGeneralError, Reply, ReplyLong, Advance,
       connVars
  <2>2. \A d \in Conn : pc'[d] # "done" => pc[d] # "done"
    BY <1>4, <2>1, OneThread DEF OthersStay
  <2>3. CASE addMessageToList(c)
    <3>1. Writing(c) /\ pc'[c] = "done"
      BY <1>0, <2>3 DEF addMessageToList, Fits, Writing, Reply, CloseAndEnd, Goto
    <3>2. accepted' = accepted \cup {EnvelopeOf(NewMessage(c))}
      BY <2>3 DEF addMessageToList
    <3>3. EnvelopeOf(NewMessage(c)).body = req[c].body
      BY DEF EnvelopeOf, NewMessage
    <3> QED
      BY <2>1, <2>2, <3>1, <3>2, <3>3 DEF BodyInv, Writing, NotStoredYet
  <2>4. CASE ~addMessageToList(c)
    <3>1. accepted' = accepted
      BY <1>4, <2>4, MailboxUntouched DEF TakeID
    <3> QED
      BY <2>1, <2>2, <3>1 DEF BodyInv, Writing, NotStoredYet
  <2> QED
    BY <2>3, <2>4
<1> QED
  BY <1>1, <1>2, <1>3, <1>4 DEF Next

-----------------------------------------------------------------------------
\* The envelopes of the abstract mailbox

WaitingApart ==
  \A i, j \in DOMAIN messages : EnvelopeOf(messages[i]) = EnvelopeOf(messages[j]) => i = j

Deleted(c) == 1 .. pulling[c].deleted
EnvelopeAt(c, k) == EnvelopeOf(pulling[c].packed[k].content)

DeletedApart(c) ==
  \A j, k \in Deleted(c) : EnvelopeAt(c, j) = EnvelopeAt(c, k) => j = k

\* Different messages have different envelopes, ...
ApartInv == WaitingApart /\ \A c \in Conn : DeletedApart(c)

\* ... and each envelope that was stored waits, has been taken by one pull, or
\* neither; one that was handed over does neither.
PlacesInv ==
  /\ Waiting \subseteq accepted
  /\ \A c \in Conn : TakenBy(c) \subseteq accepted \ Waiting
  /\ \A c, d \in Conn : c # d => TakenBy(c) \cap TakenBy(d) = {}
  /\ \A e \in Envelope :
       handed[e] > 0 => /\ e \in accepted \ Waiting
                        /\ \A c \in Conn : e \notin TakenBy(c)
                        /\ handed[e] = 1

DeliveryInv == ApartInv /\ PlacesInv

\* What a step does to the envelopes: it stores one, takes one, empties the hands
\* of a pull, which gives them over or does not, or leaves them where they are.
OthersHold(c) == \A d \in Conn \ {c} : TakenBy(d)' = TakenBy(d)

StoresOne ==
  \E e \in Envelope \ accepted :
    /\ accepted' = accepted \cup {e}
    /\ Waiting' = Waiting \cup {e}
    /\ \A d \in Conn : TakenBy(d)' = TakenBy(d)
    /\ handed' = handed

TakesOne(c) ==
  \E e \in Waiting :
    /\ Waiting' = Waiting \ {e}
    /\ TakenBy(c)' = TakenBy(c) \cup {e}
    /\ OthersHold(c)
    /\ UNCHANGED <<accepted, handed>>

LetsGo(c) ==
  /\ TakenBy(c)' = {}
  /\ OthersHold(c)
  /\ Waiting' = Waiting
  /\ accepted' = accepted

Loses(c) == LetsGo(c) /\ handed' = handed

Hands(c) ==
  /\ LetsGo(c)
  /\ handed' = [e \in Envelope |-> handed[e] + IF e \in TakenBy(c) THEN 1 ELSE 0]
  /\ \A e, f \in TakenBy(c) : e.dest = f.dest

NothingMoves ==
  /\ \A d \in Conn : TakenBy(d)' = TakenBy(d)
  /\ Waiting' = Waiting
  /\ UNCHANGED <<accepted, handed>>

\* What is left of DeletedApart and TakenBy when a pull's locals stay, or when it
\* only packs more.
LEMMA HoldsSame ==
  ASSUME NEW c \in Conn, pulling'[c].deleted = pulling[c].deleted,
         \A k \in Deleted(c) : pulling'[c].packed[k] = pulling[c].packed[k]
  PROVE  TakenBy(c)' = TakenBy(c) /\ (DeletedApart(c) => DeletedApart(c)')
BY DEF TakenBy, DeletedApart, Deleted, EnvelopeAt

LEMMA HoldsNothing ==
  ASSUME NEW c \in Conn, pulling'[c].deleted = 0
  PROVE  TakenBy(c)' = {} /\ DeletedApart(c)'
BY DEF TakenBy, DeletedApart, Deleted

\* A step that leaves the table of messages, the history and a pull's hands alone.
LEMMA NothingMovesStep ==
  ASSUME ApartInv, UNCHANGED <<messages, pulling, accepted, handed>>
  PROVE  ApartInv' /\ NothingMoves
BY DEF ApartInv, WaitingApart, DeletedApart, Deleted, EnvelopeAt, NothingMoves, Waiting,
   TakenBy

LEMMA StoreEffect ==
  ASSUME TypeOK, LabelsFit, MailInv, BodyInv, DeliveryInv, NEW c \in Conn,
         addMessageToList(c)
  PROVE  ApartInv' /\ StoresOne
<1> DEFINE id == sending[c].id
           m == NewMessage(c)
           e == EnvelopeOf(m)
<1>0. /\ pc[c] = "addMessageToList"
      /\ messages' = [i \in DOMAIN messages \cup {id} |-> IF i = id THEN m ELSE messages[i]]
      /\ accepted' = accepted \cup {e} /\ UNCHANGED <<pulling, handed>>
  BY DEF addMessageToList
<1>1. id \notin DOMAIN messages
  BY <1>0 DEF MailInv, ThreadInv, StoringInv, Storing
<1>2. Writing(c) /\ pc[c] # "done"
  BY <1>0 DEF LabelsFit, Fits, Writing
<1>3. e \in Envelope \ accepted
  <2>1. req[c] \in Request \cup {NoRequest}
    BY DEF TypeOK, ConnTypeOK
  <2>2. req[c].dest \in AnyUUID /\ req[c].body \in Body
    BY <1>2, <2>1, RequestFields DEF Writing
  <2>3. e = [dest |-> req[c].dest, body |-> req[c].body]
    BY DEF EnvelopeOf, NewMessage
  <2>4. e.body = req[c].body
    BY <2>3
  <2> QED
    BY <1>2, <2>2, <2>3, <2>4 DEF Envelope, BodyInv, NotStoredYet
<1> HIDE DEF id, m, e
<1>4. /\ DOMAIN messages' = DOMAIN messages \cup {id} /\ messages'[id] = m
      /\ \A i \in DOMAIN messages : messages'[i] = messages[i]
  BY <1>0, <1>1
<1>5. e = EnvelopeOf(m)
  BY DEF e
<1>6. Waiting' = Waiting \cup {e}
  BY <1>4, <1>5 DEF Waiting
<1>7. \A i \in DOMAIN messages : EnvelopeOf(messages[i]) # e
  BY <1>3 DEF DeliveryInv, PlacesInv, Waiting
<1>8. WaitingApart'
  BY <1>4, <1>5, <1>7 DEF DeliveryInv, ApartInv, WaitingApart
<1>9. \A d \in Conn : TakenBy(d)' = TakenBy(d) /\ DeletedApart(d)'
  BY <1>0, HoldsSame DEF DeliveryInv, ApartInv
<1> QED
  BY <1>0, <1>3, <1>6, <1>8, <1>9 DEF ApartInv, StoresOne

LEMMA TakeEffect ==
  ASSUME TypeOK, MailInv, DeliveryInv, NEW c \in Conn, PullDelete(c), OthersStay(c)
  PROVE  ApartInv' /\ TakesOne(c)
<1>a. PICK n \in Nat : n = pulling[c].deleted
  BY DEF TypeOK, MailboxTypeOK, LocalsTypeOK, PullingRecord
<1> DEFINE p == pulling[c].packed[n + 1]
           e == EnvelopeOf(p.content)
<1>0. /\ pc[c] = "pullDelete" /\ n # Len(pulling[c].packed) /\ p.id \in DOMAIN messages
      /\ messages' = [i \in DOMAIN messages \ {p.id} |-> messages[i]]
      /\ UNCHANGED <<accepted, handed>>
  BY <1>a DEF PullDelete, NextToDelete, AllDeleted
<1>1. /\ pulling[c] \in PullingRecord
      /\ pulling[c].packed \in Seq(PackedRecord)
      /\ pulling'[c].deleted = n + 1 /\ pulling'[c].packed = pulling[c].packed
  BY <1>a DEF PullDelete, TypeOK, MailboxTypeOK, LocalsTypeOK, PullingRecord
<1>2. n + 1 \in DOMAIN pulling[c].packed /\ PackedInv(c) /\ c \in Pulls
  <2>1. PackedInv(c) /\ c \in Pulls
    BY <1>0 DEF MailInv, ThreadInv, Pulls
  <2> QED
    BY <1>0, <1>1, <1>a, <2>1 DEF PackedInv
<1>3. messages[p.id] = p.content
  BY <1>0, <1>2 DEF PackedInv, Copy
<1>4. Deleted(c) = 1 .. n /\ Deleted(c)' = Deleted(c) \cup {n + 1}
  <2>1. Deleted(c) = 1 .. n
    BY <1>a DEF Deleted
  <2>2. Deleted(c)' = 1 .. (n + 1)
    BY <1>1 DEF Deleted
  <2> QED
    BY <1>1, <2>1, <2>2
<1>5. /\ \A k \in Deleted(c) : EnvelopeAt(c, k)' = EnvelopeAt(c, k)
      /\ EnvelopeAt(c, n + 1)' = e
  BY <1>1 DEF EnvelopeAt
<1>6. TakenBy(c) = {EnvelopeAt(c, k) : k \in Deleted(c)}
      /\ TakenBy(c)' = {EnvelopeAt(c, k)' : k \in Deleted(c)'}
  BY DEF TakenBy, EnvelopeAt, Deleted
<1>7. TakenBy(c)' = TakenBy(c) \cup {e}
  BY <1>4, <1>5, <1>6
<1>8. e \in Waiting
  BY <1>0, <1>3 DEF Waiting
<1>9. Waiting' = Waiting \ {e}
  <2>1. \A i \in DOMAIN messages : i # p.id <=> EnvelopeOf(messages[i]) # e
    BY <1>0, <1>3 DEF DeliveryInv, ApartInv, WaitingApart
  <2>2. /\ DOMAIN messages' = DOMAIN messages \ {p.id}
        /\ \A i \in DOMAIN messages' : messages'[i] = messages[i]
    BY <1>0
  <2> HIDE DEF p, e
  <2> QED
    BY <2>1, <2>2 DEF Waiting
<1>10. WaitingApart'
  BY <1>0 DEF DeliveryInv, ApartInv, WaitingApart
<1>11. DeletedApart(c)'
  <2>1. e \notin TakenBy(c)
    BY <1>8 DEF DeliveryInv, PlacesInv
  <2> HIDE DEF e
  <2>2. \A k \in Deleted(c) : EnvelopeAt(c, k) # e
    BY <1>6, <2>1
  <2> QED
    BY <1>4, <1>5, <2>2 DEF DeliveryInv, ApartInv, DeletedApart
<1>12. \A d \in Conn \ {c} : TakenBy(d)' = TakenBy(d) /\ DeletedApart(d)'
  BY HoldsSame DEF OthersStay, DeliveryInv, ApartInv
<1> QED
  BY <1>0, <1>7, <1>8, <1>9, <1>10, <1>11, <1>12 DEF ApartInv, TakesOne, OthersHold

\* A step of a pull that does not delete.
LEMMA PullKeeps ==
  ASSUME ApartInv, NEW c \in Conn, OthersStay(c), UNCHANGED <<messages, accepted>>,
         DeletedApart(c)'
  PROVE  ApartInv' /\ OthersHold(c) /\ Waiting' = Waiting
<1>1. \A d \in Conn \ {c} : TakenBy(d)' = TakenBy(d) /\ DeletedApart(d)'
  BY HoldsSame DEF OthersStay, ApartInv
<1> QED
  BY <1>1 DEF ApartInv, WaitingApart, OthersHold, Waiting

\* How often a response holds a content, when all of it has been deleted: as often
\* as the pull holds the envelope, which is once or never.
LEMMA TimesPackedIsOnce ==
  ASSUME TypeOK, MailInv, NEW c \in Pulls, DeletedApart(c), AllDeleted(c),
         NEW e \in Envelope, e.dest = req[c].src
  PROVE  TimesPacked(c, e.body) = IF e \in TakenBy(c) THEN 1 ELSE 0
<1> DEFINE packed == pulling[c].packed
           places == {i \in DOMAIN packed : packed[i].content.body = e.body}
<1>1. packed \in Seq(PackedRecord) /\ DOMAIN packed = Deleted(c)
  BY DEF TypeOK, MailboxTypeOK, LocalsTypeOK, PullingRecord, Pulls, AllDeleted, Deleted
<1>2. \A i \in DOMAIN packed : packed[i].content.dest = req[c].src
  BY DEF MailInv, ThreadInv, PackedInv, Copy, Pulls
<1>3. e = [dest |-> e.dest, body |-> e.body]
  BY DEF Envelope
<1>4. \A i \in DOMAIN packed : i \in places <=> EnvelopeAt(c, i) = e
  BY <1>2, <1>3 DEF EnvelopeAt, EnvelopeOf
<1>5. TimesPacked(c, e.body) = Cardinality(places)
  BY DEF TimesPacked
<1>6. TakenBy(c) = {EnvelopeAt(c, i) : i \in DOMAIN packed}
  BY <1>1 DEF TakenBy, EnvelopeAt, Deleted
<1>7. CASE e \in TakenBy(c)
  <2>1. PICK i \in DOMAIN packed : EnvelopeAt(c, i) = e
    BY <1>6, <1>7
  <2>2. \A j \in DOMAIN packed : EnvelopeAt(c, j) = e => j = i
    BY <1>1, <2>1 DEF DeletedApart
  <2>3. places = {i}
    BY <1>4, <2>1, <2>2
  <2> QED
    BY <1>5, <1>7, <2>3, FS_Singleton
<1>8. CASE e \notin TakenBy(c)
  <2>1. places = {}
    BY <1>4, <1>6, <1>8
  <2> QED
    BY <1>5, <1>8, <2>1, FS_EmptySet
<1> QED
  BY <1>7, <1>8

LEMMA SendEffect ==
  ASSUME TypeOK, MailInv, DeliveryInv, NEW c \in Conn, PullSend(c), OthersStay(c)
  PROVE  ApartInv' /\ (Loses(c) \/ Hands(c))
<1>0. /\ c \in Pulls /\ AllDeleted(c) /\ UNCHANGED <<messages, accepted>>
      /\ handed' = [e \in Envelope |->
                      handed[e] + IF Connected(c) /\ e.dest = req[c].src
                                  THEN TimesPacked(c, e.body) ELSE 0]
  BY DEF PullSend, Pulls, tableVars
<1>1. pulling'[c].deleted = 0
  BY DEF PullSend, NoPulling, TypeOK, MailboxTypeOK, LocalsTypeOK
<1>2. ApartInv' /\ LetsGo(c)
  BY <1>0, <1>1, HoldsNothing, PullKeeps DEF DeliveryInv, LetsGo
<1>3. \A e \in TakenBy(c) : e.dest = req[c].src
  <2>1. \A k \in Deleted(c) : k \in DOMAIN pulling[c].packed
    BY <1>0 DEF AllDeleted, Deleted, TypeOK, MailboxTypeOK, LocalsTypeOK, PullingRecord
  <2>2. \A k \in Deleted(c) : pulling[c].packed[k].content.dest = req[c].src
    BY <1>0, <2>1 DEF MailInv, ThreadInv, PackedInv, Copy, Pulls
  <2> QED
    BY <2>2 DEF TakenBy, EnvelopeOf, Deleted
<1>4. CASE Connected(c)
  <2>1. \A e \in Envelope : e.dest = req[c].src =>
          TimesPacked(c, e.body) = IF e \in TakenBy(c) THEN 1 ELSE 0
    BY <1>0, TimesPackedIsOnce DEF DeliveryInv, ApartInv
  <2>2. \A e \in Envelope :
          (IF Connected(c) /\ e.dest = req[c].src THEN TimesPacked(c, e.body) ELSE 0)
            = (IF e \in TakenBy(c) THEN 1 ELSE 0)
    BY <1>3, <1>4, <2>1
  <2>3. handed' = [e \in Envelope |-> handed[e] + IF e \in TakenBy(c) THEN 1 ELSE 0]
    BY <1>0, <2>2
  <2> QED
    BY <1>2, <1>3, <2>3 DEF Hands
<1>5. CASE ~Connected(c)
  <2>1. handed \in [Envelope -> Nat]
    BY DEF TypeOK, MailboxTypeOK, HistoryTypeOK
  <2>2. handed' = handed
    BY <1>0, <1>5, <2>1
  <2> QED
    BY <1>2, <2>2 DEF Loses
<1> QED
  BY <1>4, <1>5

LEMMA PullEffect ==
  ASSUME TypeOK, MailInv, DeliveryInv, NEW c \in Conn, PullStep(c), ~PullDelete(c),
         OthersStay(c)
  PROVE  ApartInv' /\ (NothingMoves \/ Loses(c) \/ Hands(c))
<1>0. pulling \in [Conn -> PullingRecord] /\ pulling[c] \in PullingRecord
  BY DEF TypeOK, MailboxTypeOK, LocalsTypeOK
<1>1. CASE PullRefused(c) \/ PullEnd(c)
  BY <1>1, NothingMovesStep DEF PullRefused, PullEnd, mailVars, tableVars, DeliveryInv
<1>2. CASE PullVisit(c) \/ PackHeader(c) \/ PackContent(c)
  <2>1. UNCHANGED <<messages, accepted, handed>>
    BY <1>2 DEF PullVisit, PackHeader, PackContent, tableVars
  <2>2. pulling'[c].deleted = pulling[c].deleted
    <3>1. CASE PullVisit(c)
      BY <1>0, <3>1 DEF PullVisit, PullingRecord
    <3>2. CASE PackHeader(c)
      BY <1>0, <3>2 DEF PackHeader, PullingRecord
    <3>3. CASE PackContent(c)
      BY <1>0, <3>3 DEF PackContent, PullingRecord
    <3> QED
      BY <1>2, <3>1, <3>2, <3>3
  <2>3. \A k \in Deleted(c) : pulling'[c].packed[k] = pulling[c].packed[k]
    <3>1. CASE PullVisit(c)
      BY <1>0, <3>1 DEF PullVisit, PullingRecord
    <3>2. CASE PackHeader(c)
      BY <1>0, <3>2 DEF PackHeader, PullingRecord
    <3>3. CASE PackContent(c)
      <4>1. /\ pulling[c].packed \in Seq(PackedRecord) /\ pulling[c].deleted \in Nat
            /\ \E r : pulling'[c].packed = Append(pulling[c].packed, r)
        BY <1>0, <3>3 DEF PackContent, PullingRecord
      <4>2. pulling[c].deleted <= Len(pulling[c].packed)
        BY <3>3 DEF MailInv, ThreadInv, PackedInv, Pulls, PackContent
      <4> QED
        BY <4>1, <4>2 DEF Deleted
    <3> QED
      BY <1>2, <3>1, <3>2, <3>3
  <2>4. TakenBy(c)' = TakenBy(c) /\ DeletedApart(c)'
    BY <2>2, <2>3, HoldsSame DEF DeliveryInv, ApartInv
  <2> QED
    BY <2>1, <2>4, PullKeeps DEF DeliveryInv, NothingMoves, OthersHold
<1>3. CASE PullBegin(c) \/ PullChanged(c) \/ PackGone(c) \/ PullDeleteGone(c)
  <2>1. UNCHANGED <<messages, accepted, handed>>
    BY <1>3 DEF PullBegin, PullChanged, PackGone, PullDeleteGone, FramePopped, tableVars
  <2>2. pulling'[c].deleted = 0
    <3>1. CASE PullBegin(c)
      BY <1>0, <3>1 DEF PullBegin, NoPulling
    <3>2. CASE PullChanged(c) \/ PackGone(c) \/ PullDeleteGone(c)
      BY <1>0, <3>2 DEF PullChanged, PackGone, PullDeleteGone, FramePopped, NoPulling
    <3> QED
      BY <1>3, <3>1, <3>2
  <2> QED
    BY <2>1, <2>2, HoldsNothing, PullKeeps DEF DeliveryInv, Loses, LetsGo
<1>4. CASE PullSend(c)
  BY <1>4, SendEffect
<1> QED
  BY <1>1, <1>2, <1>3, <1>4 DEF PullStep

\* Every step has one of these effects.
LEMMA StepEffect ==
  ASSUME ~SwitchAnywhere, TypeOK, LabelsFit, MailInv, BodyInv, DeliveryInv, [Next]_vars
  PROVE  /\ ApartInv'
         /\ \/ NothingMoves
            \/ StoresOne
            \/ \E c \in Conn : TakesOne(c) \/ Loses(c) \/ Hands(c)
<1>0. ApartInv
  BY DEF DeliveryInv
<1>1. CASE UNCHANGED vars \/ LoseAccept
  BY <1>0, <1>1, NothingMovesStep DEF vars, LoseAccept, mailVars, tableVars
<1>2. ASSUME NEW c \in Conn, Connect(c) \/ Talk(c) \/ Hangup(c) \/ Release(c)
      PROVE  ApartInv' /\ NothingMoves
  BY <1>0, <1>2, NothingMovesStep DEF Connect, Talk, Hangup, Release, mailVars,
     tableVars
<1>3. ASSUME NEW c \in Conn, ThreadStep(c)
      PROVE  /\ ApartInv'
             /\ NothingMoves \/ StoresOne \/ TakesOne(c) \/ Loses(c) \/ Hands(c)
  <2>1. CASE UNCHANGED mailVars
    BY <1>0, <2>1, NothingMovesStep DEF mailVars, tableVars
  <2>2. CASE addMessageToList(c)
    BY <2>2, StoreEffect
  <2>3. CASE SendStep(c) /\ ~addMessageToList(c)
    BY <1>0, <2>3, NothingMovesStep DEF SendStep, SendReset, SendHeadless, SendUnparsed,
       SendRefused, SendChecked, TakeID, ReadID, LoadID, StoreID, mailVars, tableVars
  <2>4. CASE PullStep(c)
    BY <1>3, <2>4, OneThread, TakeEffect, PullEffect
  <2> QED
    BY <1>3, <2>1, <2>2, <2>3, <2>4 DEF ThreadStep, MailboxStep
<1> QED
  BY <1>1, <1>2, <1>3 DEF Next

LEMMA EffectKeepsPlaces ==
  ASSUME PlacesInv, handed \in [Envelope -> Nat],
         \/ NothingMoves
         \/ StoresOne
         \/ \E c \in Conn : TakesOne(c) \/ Loses(c) \/ Hands(c)
  PROVE  PlacesInv'
<1>1. CASE NothingMoves
  BY <1>1 DEF NothingMoves, PlacesInv
<1>2. CASE StoresOne
  BY <1>2 DEF StoresOne, PlacesInv
<1>3. ASSUME NEW c \in Conn, TakesOne(c)  PROVE PlacesInv'
  BY <1>3 DEF TakesOne, OthersHold, PlacesInv
<1>4. ASSUME NEW c \in Conn, Loses(c)  PROVE PlacesInv'
  BY <1>4 DEF Loses, LetsGo, OthersHold, PlacesInv
<1>5. ASSUME NEW c \in Conn, Hands(c)  PROVE PlacesInv'
  <2>1. /\ Waiting' = Waiting /\ accepted' = accepted /\ TakenBy(c)' = {}
        /\ \A d \in Conn \ {c} : TakenBy(d)' = TakenBy(d)
    BY <1>5 DEF Hands, LetsGo, OthersHold
  <2>2. \A e \in Envelope :
          handed'[e] = handed[e] + IF e \in TakenBy(c) THEN 1 ELSE 0
    BY <1>5 DEF Hands
  <2>3. ASSUME NEW e \in Envelope, handed'[e] > 0
        PROVE  /\ e \in accepted \ Waiting
               /\ \A d \in Conn : e \notin TakenBy(d)'
               /\ handed'[e] = 1
    <3>0. handed[e] \in Nat
      OBVIOUS
    <3>1. CASE e \in TakenBy(c)
      BY <2>1, <2>2, <2>3, <3>0, <3>1 DEF PlacesInv
    <3>2. CASE e \notin TakenBy(c)
      BY <2>1, <2>2, <2>3, <3>0, <3>2 DEF PlacesInv
    <3> QED
      BY <3>1, <3>2
  <2> QED
    BY <2>1, <2>3 DEF PlacesInv
<1> QED
  BY <1>1, <1>2, <1>3, <1>4, <1>5

-----------------------------------------------------------------------------
\* The abstract mailbox

BoxHanded == {e \in Envelope : handed[e] > 0}

\* Each effect is a step of the abstract mailbox, or leaves it as it is.
LEMMA EffectIsBoxStep ==
  ASSUME PlacesInv, TypeOK,
         \/ NothingMoves
         \/ StoresOne
         \/ \E c \in Conn : TakesOne(c) \/ Loses(c) \/ Hands(c)
  PROVE  [Box!Next]_(Box!boxVars)
<1>0. handed \in [Envelope -> Nat] /\ accepted \subseteq Envelope
  BY DEF TypeOK, MailboxTypeOK, HistoryTypeOK
<1>a. Waiting \subseteq Envelope
  BY <1>0 DEF PlacesInv
<1>b. ASSUME NEW c \in Conn, LetsGo(c)
      PROVE  TakenBy(c) \in SUBSET Taken /\ Taken' = Taken \ TakenBy(c)
  <2>1. \A d \in Conn \ {c} : TakenBy(d)' = TakenBy(d) /\ TakenBy(d) \cap TakenBy(c) = {}
    BY <1>b DEF LetsGo, OthersHold, PlacesInv
  <2>2. TakenBy(c)' = {}
    BY <1>b DEF LetsGo
  <2> QED
    BY <2>1, <2>2 DEF Taken
<1>1. CASE NothingMoves
  <2>1. Taken' = Taken /\ Waiting' = Waiting /\ accepted' = accepted /\ BoxHanded' = BoxHanded
    BY <1>1 DEF NothingMoves, Taken, BoxHanded
  <2> QED
    BY <2>1 DEF Box!boxVars, BoxHanded
<1>2. CASE StoresOne
  <2>1. Taken' = Taken /\ BoxHanded' = BoxHanded
    BY <1>2 DEF StoresOne, Taken, BoxHanded
  <2>2. \E e \in Envelope : Box!Store(e)
    BY <1>2, <2>1 DEF StoresOne, Box!Store, BoxHanded
  <2> QED
    BY <2>2 DEF Box!Next
<1>3. ASSUME NEW c \in Conn, TakesOne(c)  PROVE Box!Next
  <2>1. PICK e \in Waiting :
          /\ Waiting' = Waiting \ {e}
          /\ TakenBy(c)' = TakenBy(c) \cup {e}
          /\ OthersHold(c)
          /\ UNCHANGED <<accepted, handed>>
    BY <1>3 DEF TakesOne
  <2>2. Taken' = Taken \cup {e} /\ BoxHanded' = BoxHanded
    BY <2>1 DEF Taken, OthersHold, BoxHanded
  <2>3. Box!Take(e)
    BY <2>1, <2>2 DEF Box!Take, BoxHanded
  <2> QED
    BY <1>a, <2>3 DEF Box!Next
<1>4. ASSUME NEW c \in Conn, Loses(c)  PROVE Box!Next
  <2>1. BoxHanded' = BoxHanded /\ Waiting' = Waiting /\ accepted' = accepted
    BY <1>4 DEF Loses, LetsGo, BoxHanded
  <2>2. TakenBy(c) \in SUBSET Taken /\ Taken' = Taken \ TakenBy(c)
    BY <1>4, <1>b DEF Loses
  <2>3. Box!Lose(TakenBy(c))
    BY <2>1, <2>2 DEF Box!Lose, BoxHanded
  <2> QED
    BY <2>2, <2>3 DEF Box!Next
<1>5. ASSUME NEW c \in Conn, Hands(c)  PROVE Box!Next
  <2>1. /\ handed' = [e \in Envelope |-> handed[e] + IF e \in TakenBy(c) THEN 1 ELSE 0]
        /\ Waiting' = Waiting /\ accepted' = accepted
        /\ \A e, f \in TakenBy(c) : e.dest = f.dest
    BY <1>5 DEF Hands, LetsGo
  <2>2. TakenBy(c) \in SUBSET Taken /\ Taken' = Taken \ TakenBy(c)
    BY <1>5, <1>b DEF Hands
  <2>3. BoxHanded' = BoxHanded \cup TakenBy(c)
    <3>1. TakenBy(c) \subseteq Envelope
      BY <1>0 DEF PlacesInv
    <3>2. \A e \in Envelope : handed'[e] > 0 <=> handed[e] > 0 \/ e \in TakenBy(c)
      BY <1>0, <2>1
    <3> QED
      BY <3>1, <3>2 DEF BoxHanded
  <2>4. PICK batch \in SUBSET Taken : batch = TakenBy(c)
    BY <2>2
  <2>5. Box!Hand(batch)
    BY <2>1, <2>2, <2>3, <2>4 DEF Box!Hand, BoxHanded
  <2> QED
    BY <2>5 DEF Box!Next
<1> QED
  BY <1>1, <1>2, <1>3, <1>4, <1>5

LEMMA DeliveryInit == Init => BodyInv /\ DeliveryInv
<1> SUFFICES ASSUME Init  PROVE BodyInv /\ DeliveryInv
  OBVIOUS
<1>1. /\ messages = <<>> /\ accepted = {} /\ req = [c \in Conn |-> NoRequest]
      /\ handed = [e \in Envelope |-> 0] /\ \A c \in Conn : pulling[c].deleted = 0
  BY DEF Init, ConnInit, MailboxInit, NoPulling
<1>2. BodyInv
  BY <1>1 DEF BodyInv, Writing, NotStoredYet, NoRequest
<1>3. ApartInv
  BY <1>1 DEF ApartInv, WaitingApart, DeletedApart, Deleted
<1>4. Waiting = {} /\ \A c \in Conn : TakenBy(c) = {}
  BY <1>1 DEF Waiting, TakenBy
<1> QED
  BY <1>1, <1>2, <1>3, <1>4 DEF DeliveryInv, PlacesInv

LEMMA DeliveryCorrect ==
  ASSUME ~SwitchAnywhere
  PROVE  Spec => [](TypeOK /\ LabelsFit /\ MailInv /\ BodyInv /\ DeliveryInv)
<1>1. TypeOK /\ LabelsFit /\ MailInv /\ BodyInv /\ DeliveryInv /\ [Next]_vars
        => BodyInv' /\ DeliveryInv'
  <2> SUFFICES ASSUME TypeOK, LabelsFit, MailInv, BodyInv, DeliveryInv, [Next]_vars
               PROVE  BodyInv' /\ DeliveryInv'
    OBVIOUS
  <2>1. handed \in [Envelope -> Nat] /\ PlacesInv
    BY DEF TypeOK, MailboxTypeOK, HistoryTypeOK, DeliveryInv
  <2> QED
    BY <2>1, BodyStep, StepEffect, EffectKeepsPlaces DEF DeliveryInv
<1> QED
  BY <1>1, DeliveryInit, TypeAndLabels, MailCorrect, PTL DEF Spec

\* A content reaches the client it was sent to at most once, and none that nobody
\* stored, whatever pulls and sends run side by side.
THEOREM HandedOnceCorrect == ASSUME ~SwitchAnywhere PROVE Spec => []HandedOnce
<1>1. TypeOK /\ DeliveryInv => HandedOnce
  <2> SUFFICES ASSUME TypeOK, DeliveryInv, NEW e \in Envelope
               PROVE  handed[e] <= IF e \in accepted THEN 1 ELSE 0
    BY DEF HandedOnce
  <2>1. handed[e] \in Nat
    BY DEF TypeOK, MailboxTypeOK, HistoryTypeOK
  <2>2. handed[e] > 0 => e \in accepted /\ handed[e] = 1
    BY DEF DeliveryInv, PlacesInv
  <2> QED
    BY <2>1, <2>2
<1> QED
  BY <1>1, DeliveryCorrect, PTL

\* The handlers of the two requests, their threads interleaved in any way,
\* implement the abstract mailbox: every step of the server is a step of it, or
\* leaves it as it is.
THEOREM ImplementsMailbox == ASSUME ~SwitchAnywhere PROVE Spec => MailboxSpec
<1>1. Init => Box!Init
  <2> SUFFICES ASSUME Init  PROVE Box!Init
    OBVIOUS
  <2>1. /\ messages = <<>> /\ accepted = {}
        /\ handed = [e \in Envelope |-> 0] /\ \A c \in Conn : pulling[c].deleted = 0
    BY DEF Init, MailboxInit, NoPulling
  <2>2. Waiting = {} /\ Taken = {}
    BY <2>1 DEF Waiting, TakenBy, Taken
  <2> QED
    BY <2>1, <2>2 DEF Box!Init
<1>2. TypeOK /\ LabelsFit /\ MailInv /\ BodyInv /\ DeliveryInv /\ [Next]_vars
        => [Box!Next]_(Box!boxVars)
  BY StepEffect, EffectIsBoxStep DEF DeliveryInv
<1> QED
  BY <1>1, <1>2, DeliveryCorrect, PTL DEF Spec, MailboxSpec, Box!Spec
===============================================================================
