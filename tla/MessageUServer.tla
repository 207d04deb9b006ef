---------------------------- MODULE MessageUServer ----------------------------
(***************************************************************************)
(* The server: the accept loop and the threads it starts, over the clients *)
(* list and the waiting messages they share.                               *)
(***************************************************************************)
EXTENDS RegistryHandlers, MailboxHandlers

vars == <<connVars, registryVars, mailVars>>

Init == ConnInit /\ RegistryInit /\ MailboxInit

\* A content belongs to one request: a request that was turned down may be made
\* again, one whose message was stored is not.
FreshBody(b) ==
  /\ \A e \in accepted : e.body # b
  /\ \A c \in Conn : req[c].op = "SEND_MESSAGE_REQ" => req[c].body # b

Connect(c) ==
  /\ \E r \in Offered :
       /\ r.op = "REGISTER_REQ" => CanRegister
       /\ r.op = "SEND_MESSAGE_REQ" => FreshBody(r.body)
       /\ Accept(c, r)
  /\ UNCHANGED <<registryVars, mailVars>>

Talk(c) == (Write(c) \/ Read(c)) /\ UNCHANGED <<registryVars, mailVars>>

Hangup(c) == Drop(c) /\ UNCHANGED <<registryVars, mailVars>>

LoseAccept == AcceptError /\ UNCHANGED <<registryVars, mailVars>>

Release(c) == Leave(c) /\ UNCHANGED <<registryVars, mailVars>>

ThreadStep(c) ==
  \/ (RejectHeader(c) \/ EndSend(c)) /\ UNCHANGED <<registryVars, mailVars>>
  \/ RegistryStep(c) /\ UNCHANGED mailVars
  \/ MailboxStep(c) /\ UNCHANGED registryVars

Next ==
  \/ LoseAccept
  \/ \E c \in Conn : Connect(c) \/ Talk(c) \/ Hangup(c) \/ Release(c) \/ ThreadStep(c)

Spec == Init /\ [][Next]_vars

\* The interpreter gives every thread that can run its turn, and the semaphore is
\* held for a bounded time.  A thread that waits for its client cannot run, and
\* nothing is assumed of clients: they need not write, read or leave.
FairSpec == Spec /\ \A c \in Conn : WF_vars(ThreadStep(c))

-----------------------------------------------------------------------------

Label == {"free", "recvHeader", "done", "addNewClient", "listStart", "listNext",
          "sendall", "sendUnparsed", "takeID", "loadID", "storeID", "addMessageToList",
          "pullNext", "packHeader", "packContent", "pullDelete"}

Response ==
  [code : {"GENERAL_ERROR_RESP", "REGISTER_SUCCESS_RESP", "CLIENTS_LIST_RESP",
           "GET_PUBLIC_KEY_RESP", "MESSAGE_SENT_RESP", "PULL_WAITING_MESSAGES_RESP"},
   records : Nat]

PackedRecord == [id : Nat, head : Message \cup {<<>>}, content : Message]

Pulls == {c \in Conn : pc[c] \in {"pullNext", "packHeader", "packContent", "pullDelete"}}

ConnTypeOK ==
  /\ pc \in [Conn -> Label]
  /\ req \in [Conn -> Request \cup {NoRequest}]
  /\ peer \in [Conn -> {"connected", "wrote", "reads", "gone"}]
  /\ open \in [Conn -> BOOLEAN]
  /\ header \in [Conn -> Seq(Response)]
  /\ DOMAIN payload = Conn
  /\ lastAccepted \in Conn \cup {NoConn}

RegistryTypeOK ==
  /\ clientsList \in Seq(ClientRecord)
  /\ listing \in [Conn -> [size : Nat, records : Seq(ClientRecord)]]

SendingRecord == [id : Nat, loaded : Nat]

PullingRecord ==
  [used : Nat, left : Nat, pos : Nat, made : Nat, id : Nat,
   head : Message \cup {<<>>}, packed : Seq(PackedRecord), deleted : Nat]

TableTypeOK ==
  /\ DOMAIN messages \subseteq Nat \ {Gone}
  /\ IsFiniteSet(DOMAIN messages)
  /\ messages \in [DOMAIN messages -> Message]
  /\ entries \in Seq(Nat)
  /\ ID \in Nat \ {Gone}

LocalsTypeOK ==
  /\ sending \in [Conn -> SendingRecord]
  /\ pulling \in [Conn -> PullingRecord]

HistoryTypeOK ==
  /\ accepted \in SUBSET Envelope
  /\ handed \in [Envelope -> Nat]

MailboxTypeOK == TableTypeOK /\ LocalsTypeOK /\ HistoryTypeOK

\* Every variable keeps its shape: the threads stand at labels of the code,
\* their locals hold what the code assigns, the two dicts stay well formed.
TypeOK == ConnTypeOK /\ RegistryTypeOK /\ MailboxTypeOK

-----------------------------------------------------------------------------
\* The waiting messages

\* A content reaches one client, the one it was sent to, once, whatever pulls
\* run side by side (getWaitingMessages packs without the lock, and deletes
\* each message in a later loop, before it sends).
HandedOnce ==
  \A e \in Envelope : handed[e] <= IF e \in accepted THEN 1 ELSE 0

\* A response in the making only holds messages for its requester, each with the
\* header and the content of one message, although the dict is read again for
\* every field and another thread may have put something else under the key.
PackedForRequester ==
  \A c \in Pulls : \A i \in DOMAIN pulling[c].packed :
    LET p == pulling[c].packed[i] IN
      /\ p.head = p.content
      /\ p.content.dest = req[c].src

\* A message that was stored stays as it is under its key until a pull of its
\* recipient that holds a copy of it takes it out: no other handler, and no
\* message of another thread, removes or replaces it.
TakenByRecipient ==
  [][\A i \in DOMAIN messages :
       \/ i \in DOMAIN messages' /\ messages'[i] = messages[i]
       \/ \E c \in Pulls :
            /\ req[c].src = messages[i].dest
            /\ \E k \in DOMAIN pulling[c].packed :
                 pulling[c].packed[k].content = messages[i]]_vars

\* What MESSAGE_SENT_RESP tells a sender identifies the message: no two senders
\* that read their answers hold one ID.
IDsDistinct ==
  \A c, d \in Conn :
    /\ c # d
    /\ \A x \in {c, d} :
         payload[x] # <<>> /\ req[x].op = "SEND_MESSAGE_REQ"
    => payload[c][1].id # payload[d][1].id

Waiting == {EnvelopeOf(messages[i]) : i \in DOMAIN messages}

\* What the pulls that run have deleted.
TakenBy(c) ==
  {EnvelopeOf(pulling[c].packed[k].content) : k \in 1 .. pulling[c].deleted}

Taken == UNION {TakenBy(c) : c \in Conn}

Box == INSTANCE Mailbox WITH
         stored <- accepted, waiting <- Waiting, taken <- Taken,
         handed <- {e \in Envelope : handed[e] > 0}

\* The two handlers, interleaved in any way, do what the abstract mailbox does:
\* a message moves from waiting to taken to handed or lost, and never back.
MailboxSpec == Box!Spec

-----------------------------------------------------------------------------
\* The clients list and the ends of a connection

\* The list a client gets is the list as it was when the iteration ended: never
\* a mixture of two states, although it is read without the lock, and never
\* shorter than the length announced before.
ListIsSnapshot ==
  \A c \in Conn :
    req[c].op = "CLIENTS_LIST_REQ" /\ payload[c] # <<>> =>
      /\ header[c][1].records <= Len(payload[c])
      /\ \A i \in DOMAIN payload[c] : payload[c][i] = clientsList[i]

\* The only socket a thread can leave open behind it is the one accept()
\* returned last.
OnlyLastStaysOpen ==
  \A c \in Conn : pc[c] = "done" /\ open[c] => c = lastAccepted

\* Every thread ends, whatever the other threads do to the dicts it iterates, to
\* the counter and to its socket, and whatever the other clients do or leave
\* undone: only a client that stays connected and neither writes nor reads holds
\* its own thread up for ever.
ThreadEnds ==
  \A c \in Conn : []<>~Held(c) => (pc[c] # "free" ~> pc[c] \in {"done", "free"})

\* Nobody is left waiting for the end of a stream who does his part, as long as
\* clients keep coming: a socket that a handler abandoned while the accept loop
\* still referred to it is closed when the next one is accepted.
SocketsClose ==
  []<><<\E c \in Conn : pc[c] = "free" /\ pc'[c] = "recvHeader">>_pc =>
    \A c \in Conn : []<>~Held(c) => (open[c] ~> ~open[c])

-----------------------------------------------------------------------------
\* What the repository's comments say and the code does not keep: each of these
\* has a run that shows how it fails.

Answer(c) ==
  /\ header[c] # <<>>
  /\ Len(payload[c]) >= header[c][Len(header[c])].records

\* "Receiving success response if the waiting messages pulled back successfuly,
\* otherwise server general error", and alike for the other requests
\* (MessageUClient.h): a client whose handler is over, and that is still there,
\* got a header and as many records as the header says.
Answered == \A c \in Conn : pc[c] = "done" /\ peer[c] # "gone" => Answer(c)
=============================================================================
