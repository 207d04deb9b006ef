--------------------------- MODULE ClientsHandler ---------------------------
(***************************************************************************)
(* The part of the server every request handler shares: the accept loop of *)
(* MessageUServer.py, one thread per connection, the request header and    *)
(* its routing, the requester check, and the ways a handler can end.       *)
(*                                                                         *)
(* A member of Conn stands for one TCP connection together with the thread *)
(* that serves it.  Between two accesses to state another thread can touch *)
(* a thread only works on its own socket, so an action is one shared       *)
(* access plus the socket work around it.  A function under @lock makes    *)
(* one such access while it holds the semaphore and releases it on every   *)
(* path, so it is one action.                                              *)
(***************************************************************************)
EXTENDS Integers, Sequences, FiniteSets

CONSTANTS
  Conn,       \* connections, each with the thread that serves it
  NoConn,     \* the accept loop has not accepted anything yet
  UUID,       \* what uuid4() can return
  ZeroUUID,   \* the all-zero UUID of a client that was given none
  Username,   \* user names
  Body,       \* message contents; each one is sent by one request only
  Requests,   \* the requests the clients of an instance may make
  StartList,  \* the clients registered before the behaviour begins
  AcceptFails \* accept() may fail

VARIABLES
  clientsList,   \* ClientsHandler.clientsList: a dict that only grows,
                 \* as the sequence of its items in insertion order
  pc,            \* where the thread of a connection stands
  req,           \* the request the client wrote on the connection
  peer,          \* the client's end of the connection: "connected", "wrote" its
                 \* request, "reads" the response, or "gone"
  open,          \* the server's socket object is not closed yet
  header,        \* response headers put on the wire
  payload,       \* response payload put on the wire
  lastAccepted   \* startReceive's clientSocket: a reference that keeps the
                 \* last accepted socket alive

connVars == <<pc, req, peer, open, header, payload, lastAccepted>>

-----------------------------------------------------------------------------

AnyUUID == UUID \cup {ZeroUUID}

\* ClientData under its key.  The public key is identified with the UUID it was
\* registered under: nothing ever changes it.
ClientRecord == [uuid : UUID, username : Username]

UUIDsOf(list) == {list[i].uuid : i \in DOMAIN list}

Request ==
       [op : {"REGISTER_REQ"}, src : {ZeroUUID}, username : Username]
  \cup [op : {"CLIENTS_LIST_REQ"}, src : AnyUUID]
  \cup [op : {"GET_PUBLIC_KEY_REQ"}, src : AnyUUID, dest : AnyUUID]
  \cup [op : {"SEND_MESSAGE_REQ"}, src : AnyUUID, dest : AnyUUID, body : Body]
  \cup [op : {"PULL_WAITING_MESSAGES_REQ"}, src : AnyUUID]

NoRequest == [op |-> "NONE"]

\* Two clients never hold one UUID: the premise under which a run may start
\* from a list that is not empty.
ASSUME ConstantsAssumption ==
  /\ NoConn \notin Conn
  /\ ZeroUUID \notin UUID
  /\ Requests \subseteq Request
  /\ StartList \in Seq(ClientRecord)
  /\ AcceptFails \in BOOLEAN
  /\ \A i, j \in DOMAIN StartList :
       StartList[i].uuid = StartList[j].uuid => i = j

-----------------------------------------------------------------------------
\* Reading clientsList

isUsernameExistsAlready(name) ==
  \E i \in DOMAIN clientsList : clientsList[i].username = name

\* isUsernameExistsAlready(getClientUsernameByUUID(uuid)).  The lookup of an
\* unknown UUID raises KeyError inside the lock, which the decorator turns into
\* None, and no client is called None.  Between the two calls the list can only
\* grow, so they are one access.
IsRegistered(uuid) == uuid \in UUIDsOf(clientsList)

-----------------------------------------------------------------------------
\* What a thread does with its socket

Goto(c, label) == pc' = [pc EXCEPT ![c] = label]

\* Both ends are there: otherwise recv and sendall raise.
Connected(c) == peer[c] # "gone" /\ open[c]

\* The failure of sendall is caught and printed.
SendHeader(c, code, records) ==
  header' = IF Connected(c)
            THEN [header EXCEPT ![c] = Append(@, [code |-> code, records |-> records])]
            ELSE header

SendPayload(c, records) ==
  payload' = IF Connected(c) THEN [payload EXCEPT ![c] = records] ELSE payload

\* The thread falls through to clientSocket.close() and ends.
CloseAndEnd(c) ==
  /\ Goto(c, "done")
  /\ open' = [open EXCEPT ![c] = FALSE]

Reply(c, code, records) ==
  /\ SendHeader(c, code, Len(records))
  /\ SendPayload(c, records)
  /\ CloseAndEnd(c)
  /\ UNCHANGED <<req, peer, lastAccepted>>

\* The payload is more than a socket buffer may take.
ReplyLong(c, code, records) ==
  /\ SendHeader(c, code, Len(records))
  /\ SendPayload(c, records)
  /\ Goto(c, "sendall")
  /\ UNCHANGED <<req, peer, open, lastAccepted>>

returnGeneralError(c) ==
  /\ SendHeader(c, "GENERAL_ERROR_RESP", 0)
  /\ CloseAndEnd(c)
  /\ UNCHANGED <<req, peer, payload, lastAccepted>>

\* A mutant: something else than the accept loop keeps the socket alive, too.
AbandonSocketKeptOpen(c) ==
  /\ Goto(c, "done")
  /\ UNCHANGED open

\* An exception leaves clientRequestHandler: close() is never reached.  The
\* socket is closed when its last reference goes, which for the last accepted
\* connection is the accept loop's own variable.
AbandonSocket(c) ==
  /\ Goto(c, "done")
  /\ open' = [open EXCEPT ![c] = @ /\ c = lastAccepted]

Raise(c) ==
  /\ AbandonSocket(c)
  /\ UNCHANGED <<req, peer, header, payload, lastAccepted>>

Advance(c, label) ==
  /\ Goto(c, label)
  /\ UNCHANGED <<req, peer, open, header, payload, lastAccepted>>

-----------------------------------------------------------------------------
\* The accept loop and the two ends of a connection

ConnInit ==
  /\ clientsList = StartList
  /\ pc = [c \in Conn |-> "free"]
  /\ req = [c \in Conn |-> NoRequest]
  /\ peer = [c \in Conn |-> "gone"]
  /\ open = [c \in Conn |-> FALSE]
  /\ header = [c \in Conn |-> <<>>]
  /\ payload = [c \in Conn |-> <<>>]
  /\ lastAccepted = NoConn

\* A client process makes one call at a time.
Calling(uuid) == \E c \in Conn : peer[c] # "gone" /\ req[c] # NoRequest /\ req[c].src = uuid

\* Requests the client programs can make now: as a UUID the server gave out or
\* as the zero UUID of a client that was left without one, to the UUIDs such a
\* client has in its contact list.
Offered ==
  {r \in Requests :
     /\ r.src = ZeroUUID \/ (IsRegistered(r.src) /\ ~Calling(r.src))
     /\ r.op \in {"GET_PUBLIC_KEY_REQ", "SEND_MESSAGE_REQ"} =>
          r.dest = ZeroUUID \/ IsRegistered(r.dest)}

\* A client that connected has a request in mind and may never write it.
\* accept() rebinds clientSocket: a socket only it still referred to is closed.
Accept(c, r) ==
  /\ pc[c] = "free"
  /\ Goto(c, "recvHeader")
  /\ req' = [req EXCEPT ![c] = r]
  /\ peer' = [peer EXCEPT ![c] = "connected"]
  /\ open' = [d \in Conn |-> d = c \/ (open[d] /\ ~(d = lastAccepted /\ pc[d] = "done"))]
  /\ lastAccepted' = c
  /\ UNCHANGED <<header, payload>>

\* accept() raised: the except clause closes clientSocket, which is the socket
\* accepted before, whatever its thread is doing with it.  Before the first
\* client the name has no value, which ends the server: nothing follows.
AcceptError ==
  /\ AcceptFails
  /\ lastAccepted # NoConn
  /\ open[lastAccepted]
  /\ open' = [open EXCEPT ![lastAccepted] = FALSE]
  /\ UNCHANGED <<pc, req, peer, header, payload, lastAccepted>>

\* The client writes its request, of which a recv may still return a part.
Write(c) ==
  /\ pc[c] = "recvHeader"
  /\ peer[c] = "connected"
  /\ peer' = [peer EXCEPT ![c] = "wrote"]
  /\ UNCHANGED <<pc, req, open, header, payload, lastAccepted>>

\* The client reads what a sendall that does not return is waiting to send.
Read(c) ==
  /\ pc[c] = "sendall"
  /\ peer[c] = "wrote"
  /\ peer' = [peer EXCEPT ![c] = "reads"]
  /\ UNCHANGED <<pc, req, open, header, payload, lastAccepted>>

\* The client goes away, or the network does, before the exchange is over.
Drop(c) ==
  /\ peer[c] # "gone"
  /\ pc[c] = "done" => open[c]
  /\ peer' = [peer EXCEPT ![c] = "gone"]
  /\ UNCHANGED <<pc, req, open, header, payload, lastAccepted>>

\* The thread has ended and the client has read to the end of the stream, or is
\* gone: the slot can serve another connection.
Leave(c) ==
  /\ pc[c] = "done"
  /\ ~Connected(c)
  /\ Goto(c, "free")
  /\ req' = [req EXCEPT ![c] = NoRequest]
  /\ peer' = [peer EXCEPT ![c] = "gone"]
  /\ open' = [open EXCEPT ![c] = FALSE]
  /\ header' = [header EXCEPT ![c] = <<>>]
  /\ payload' = [payload EXCEPT ![c] = <<>>]
  /\ UNCHANGED lastAccepted

\* clientRequestHandler: recv raised or returned fewer bytes than a header.  No
\* recv has a time limit: it waits until bytes come or the connection ends.
RejectHeader(c) ==
  /\ pc[c] = "recvHeader"
  /\ peer[c] = "connected" => ~open[c]
  /\ returnGeneralError(c)

\* clientRequestHandler: a whole header, routed to the handler of its code, whose
\* recv of a payload returns, too.
Routed(c, op) ==
  /\ pc[c] = "recvHeader"
  /\ peer[c] # "connected"
  /\ req[c].op = op

\* sendall of a payload that grows with the server's state returns, or raises,
\* when the client has made room for it or the connection ends.
EndSend(c) ==
  /\ pc[c] = "sendall"
  /\ peer[c] = "wrote" => ~open[c]
  /\ CloseAndEnd(c)
  /\ UNCHANGED <<req, peer, header, payload, lastAccepted>>

\* The thread waits for its client alone.
Held(c) ==
  \/ pc[c] = "recvHeader" /\ peer[c] = "connected"
  \/ pc[c] = "sendall" /\ peer[c] = "wrote"
=============================================================================
