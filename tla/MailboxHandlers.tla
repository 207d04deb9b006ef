--------------------------- MODULE MailboxHandlers ---------------------------
(***************************************************************************)
(* The handlers that work on the waiting messages: storing a message,      *)
(* handing a client its messages (ClientHandler.py), and the numbering of  *)
(* messages (MessageData.py).                                              *)
(***************************************************************************)
EXTENDS ClientsHandler

CONSTANT
  SwitchAnywhere   \* the interpreter may switch threads between any two
                   \* bytecodes (CPython up to 3.9, free-threaded builds) and
                   \* not only at calls and loop turns (from 3.10)

VARIABLES
  messages,   \* ClientsHandler.messages: a function on the IDs in use
  entries,    \* the entry table of that dict: the keys in insertion order,
              \* with Gone where a key was deleted
  ID,         \* MessageData.ID
  sending,    \* the send handler's locals
  pulling,    \* the pull handler's locals, its dict iterator among them
  accepted,   \* history: the envelopes stored so far
  handed      \* history: how often an envelope's content was put on the wire to
              \* a client

tableVars == <<messages, entries>>
mailVars == <<tableVars, ID, sending, pulling, accepted, handed>>

Gone == 0

\* What is stored of a content may be a part of it: see SendChecked.
Message == [id : Nat \ {Gone}, src : AnyUUID, dest : AnyUUID, body : Body]

\* A record of a pull response, under the key it was found at: the message its
\* header was read from and the message its content was read from.
Packed(id, head, content) == [id |-> id, head |-> head, content |-> content]

Envelope == [dest : AnyUUID, body : Body]

EnvelopeOf(m) == [dest |-> m.dest, body |-> m.body]

NoSending == [id |-> Gone, loaded |-> Gone]

NoPulling == [used |-> 0, left |-> 0, pos |-> 0, made |-> 0, id |-> Gone,
              head |-> <<>>, packed |-> <<>>, deleted |-> 0]

ASSUME SwitchAssumption == SwitchAnywhere \in BOOLEAN

\* A mutant: the numbering starts at zero.
MailboxInitFromZero ==
  /\ messages = <<>>
  /\ entries = <<>>
  /\ ID = 0
  /\ sending = [c \in Conn |-> NoSending]
  /\ pulling = [c \in Conn |-> NoPulling]
  /\ accepted = {}
  /\ handed = [e \in Envelope |-> 0]

MailboxInit ==
  /\ messages = <<>>
  /\ entries = <<>>
  /\ ID = 1
  /\ sending = [c \in Conn |-> NoSending]
  /\ pulling = [c \in Conn |-> NoPulling]
  /\ accepted = {}
  /\ handed = [e \in Envelope |-> 0]

-----------------------------------------------------------------------------
(***************************************************************************)
(* sendMessageRequestHandler.  Nobody looks the recipient up, and the      *)
(* types the clients send are all available ones.                          *)
(***************************************************************************)
\* recv raised: the handler goes on to a buffer it never assigned.
SendReset(c) ==
  /\ Routed(c, "SEND_MESSAGE_REQ")
  /\ ~Connected(c)
  /\ Raise(c)
  /\ UNCHANGED mailVars

\* recv returned less than a message header: the error is sent and the handler
\* goes on.
SendHeadless(c) ==
  /\ Routed(c, "SEND_MESSAGE_REQ")
  /\ SendHeader(c, "GENERAL_ERROR_RESP", 0)
  /\ Goto(c, "sendUnparsed")
  /\ UNCHANGED <<req, peer, open, payload, lastAccepted, mailVars>>

\* An unknown requester gets a second error, a known one reaches messageType,
\* which has no value.
SendUnparsed(c) ==
  /\ pc[c] = "sendUnparsed"
  /\ IF IsRegistered(req[c].src) THEN Raise(c) ELSE returnGeneralError(c)
  /\ UNCHANGED mailVars

SendRefused(c) ==
  /\ Routed(c, "SEND_MESSAGE_REQ")
  /\ ~IsRegistered(req[c].src)
  /\ returnGeneralError(c)
  /\ UNCHANGED mailVars

\* recv may have returned a part of the content: its length is not compared with
\* the size in the header, and the part is stored for the whole.
SendChecked(c) ==
  /\ Routed(c, "SEND_MESSAGE_REQ")
  /\ IsRegistered(req[c].src)
  /\ Advance(c, "takeID")
  /\ UNCHANGED mailVars

\* A mutant: a message gets the number of the messages that wait.
TakeIDBySize(c) ==
  /\ pc[c] = "takeID"
  /\ ~SwitchAnywhere
  /\ sending' = [sending EXCEPT ![c].id = Cardinality(DOMAIN messages) + 1]
  /\ ID' = ID + 1
  /\ Advance(c, "addMessageToList")
  /\ UNCHANGED <<tableVars, pulling, accepted, handed>>

\* MessageData.__init__ where it runs in one piece.
TakeID(c) ==
  /\ pc[c] = "takeID"
  /\ ~SwitchAnywhere
  /\ sending' = [sending EXCEPT ![c].id = ID]
  /\ ID' = ID + 1
  /\ Advance(c, "addMessageToList")
  /\ UNCHANGED <<tableVars, pulling, accepted, handed>>

\* MessageData.__init__ where it does not: self.msgID = MessageData.ID, then
\* the two halves of MessageData.ID += 1.
ReadID(c) ==
  /\ pc[c] = "takeID"
  /\ SwitchAnywhere
  /\ sending' = [sending EXCEPT ![c].id = ID]
  /\ Advance(c, "loadID")
  /\ UNCHANGED <<tableVars, ID, pulling, accepted, handed>>

LoadID(c) ==
  /\ pc[c] = "loadID"
  /\ sending' = [sending EXCEPT ![c].loaded = ID]
  /\ Advance(c, "storeID")
  /\ UNCHANGED <<tableVars, ID, pulling, accepted, handed>>

StoreID(c) ==
  /\ pc[c] = "storeID"
  /\ ID' = sending[c].loaded + 1
  /\ Advance(c, "addMessageToList")
  /\ UNCHANGED <<tableVars, sending, pulling, accepted, handed>>

NewMessage(c) ==
  [id |-> sending[c].id, src |-> req[c].src, dest |-> req[c].dest,
   body |-> req[c].body]

\* A key in use keeps its entry and gets the new value.
addMessageToList(c) ==
  /\ pc[c] = "addMessageToList"
  /\ LET id == sending[c].id IN
       /\ messages' = [i \in DOMAIN messages \cup {id} |->
                         IF i = id THEN NewMessage(c) ELSE messages[i]]
       /\ entries' = IF id \in DOMAIN messages THEN entries ELSE Append(entries, id)
       /\ accepted' = accepted \cup {EnvelopeOf(NewMessage(c))}
       /\ Reply(c, "MESSAGE_SENT_RESP", <<[dest |-> req[c].dest, id |-> id]>>)
  /\ sending' = [sending EXCEPT ![c] = NoSending]
  /\ UNCHANGED <<ID, pulling, handed>>

SendStep(c) ==
  \/ SendReset(c) \/ SendHeadless(c) \/ SendUnparsed(c) \/ SendRefused(c)
  \/ SendChecked(c) \/ TakeID(c) \/ ReadID(c) \/ LoadID(c) \/ StoreID(c)
  \/ addMessageToList(c)

-----------------------------------------------------------------------------
(***************************************************************************)
(* getWaitingMessages.  No part of it holds the lock: it iterates the dict *)
(* while other threads add to it and delete from it.                       *)
(***************************************************************************)
PullRefused(c) ==
  /\ Routed(c, "PULL_WAITING_MESSAGES_REQ")
  /\ ~IsRegistered(req[c].src)
  /\ returnGeneralError(c)
  /\ UNCHANGED mailVars

\* The dict iterator notes the size and starts before the first entry.
PullBegin(c) ==
  /\ Routed(c, "PULL_WAITING_MESSAGES_REQ")
  /\ IsRegistered(req[c].src)
  /\ LET size == Cardinality(DOMAIN messages) IN
       pulling' = [pulling EXCEPT ![c] =
                     [NoPulling EXCEPT !.used = size, !.left = size,
                                       !.made = Len(entries)]]
  /\ Advance(c, "pullNext")
  /\ UNCHANGED <<tableVars, ID, sending, accepted, handed>>

\* The entries the iterator has not passed.
Ahead(c) == {k \in DOMAIN entries : k > pulling[c].pos /\ entries[k] # Gone}

SameSize(c) == Cardinality(DOMAIN messages) = pulling[c].used

\* An insertion may rebuild the entry table without its gaps: the iterator,
\* which counts entries, can then be past some it never returned.
MayHaveMoved(c) == Len(entries) > pulling[c].made

\* An exception ends the handler, and its locals go.
FramePopped(c) ==
  /\ pulling' = [pulling EXCEPT ![c] = NoPulling]
  /\ UNCHANGED <<tableVars, ID, sending, accepted, handed>>

\* RuntimeError: the size changed, or an entry is found that was not expected.
PullChanged(c) ==
  /\ pc[c] = "pullNext"
  /\ \/ ~SameSize(c)
     \/ pulling[c].left = 0 /\ Ahead(c) # {}
  /\ Raise(c)
  /\ FramePopped(c)

\* A mutant: the recipient is not compared.
PullVisitAll(c) ==
  /\ pc[c] = "pullNext"
  /\ SameSize(c)
  /\ pulling[c].left > 0
  /\ \E k \in Ahead(c) :
       /\ MayHaveMoved(c) \/ \A j \in Ahead(c) : k <= j
       /\ pulling' = [pulling EXCEPT ![c].pos = k, ![c].id = entries[k],
                                     ![c].left = @ - 1]
       /\ Advance(c, "packHeader")
  /\ UNCHANGED <<tableVars, ID, sending, accepted, handed>>

\* One turn of the loop, up to the comparison of the recipient.  A key deleted
\* before its value is read ends the handler here instead of at the next turn,
\* where the size has changed.
PullVisit(c) ==
  /\ pc[c] = "pullNext"
  /\ SameSize(c)
  /\ pulling[c].left > 0
  /\ \E k \in Ahead(c) :
       /\ MayHaveMoved(c) \/ \A j \in Ahead(c) : k <= j
       /\ pulling' = [pulling EXCEPT ![c].pos = k, ![c].id = entries[k],
                                     ![c].left = @ - 1]
       /\ Advance(c, IF messages[entries[k]].dest = req[c].src
                     THEN "packHeader" ELSE "pullNext")
  /\ UNCHANGED <<tableVars, ID, sending, accepted, handed>>

PackHeader(c) ==
  /\ pc[c] = "packHeader"
  /\ pulling[c].id \in DOMAIN messages
  /\ pulling' = [pulling EXCEPT ![c].head = messages[pulling[c].id]]
  /\ Advance(c, "packContent")
  /\ UNCHANGED <<tableVars, ID, sending, accepted, handed>>

PackContent(c) ==
  /\ pc[c] = "packContent"
  /\ pulling[c].id \in DOMAIN messages
  /\ LET p == pulling[c] IN
       pulling' = [pulling EXCEPT ![c].packed =
                     Append(@, Packed(p.id, p.head, messages[p.id]))]
  /\ Advance(c, "pullNext")
  /\ UNCHANGED <<tableVars, ID, sending, accepted, handed>>

\* A mutant: the lookup of the content waits for a message to be there.
PackGoneAtHeaderOnly(c) ==
  /\ pc[c] = "packHeader"
  /\ pulling[c].id \notin DOMAIN messages
  /\ Raise(c)
  /\ FramePopped(c)

\* KeyError: another pull deleted the message first.
PackGone(c) ==
  /\ pc[c] \in {"packHeader", "packContent"}
  /\ pulling[c].id \notin DOMAIN messages
  /\ Raise(c)
  /\ FramePopped(c)

PullEnd(c) ==
  /\ pc[c] = "pullNext"
  /\ SameSize(c)
  /\ Ahead(c) = {} \/ MayHaveMoved(c)
  /\ Advance(c, "pullDelete")
  /\ UNCHANGED mailVars

AllDeleted(c) == pulling[c].deleted = Len(pulling[c].packed)

NextToDelete(c) == pulling[c].packed[pulling[c].deleted + 1].id

\* A mutant: the second loop is there, the del in it is not.
PullDeleteNothing(c) ==
  /\ pc[c] = "pullDelete"
  /\ ~AllDeleted(c)
  /\ NextToDelete(c) \in DOMAIN messages
  /\ pulling' = [pulling EXCEPT ![c].deleted = @ + 1]
  /\ UNCHANGED <<connVars, tableVars, ID, sending, accepted, handed>>

\* One turn of the second loop: the message goes before anything is sent.
PullDelete(c) ==
  /\ pc[c] = "pullDelete"
  /\ ~AllDeleted(c)
  /\ LET id == NextToDelete(c) IN
       /\ id \in DOMAIN messages
       /\ messages' = [i \in DOMAIN messages \ {id} |-> messages[i]]
       /\ entries' = [k \in DOMAIN entries |-> IF entries[k] = id THEN Gone ELSE entries[k]]
  /\ pulling' = [pulling EXCEPT ![c].deleted = @ + 1]
  /\ UNCHANGED <<connVars, ID, sending, accepted, handed>>

\* KeyError: what this handler has deleted already is lost.
PullDeleteGone(c) ==
  /\ pc[c] = "pullDelete"
  /\ ~AllDeleted(c)
  /\ NextToDelete(c) \notin DOMAIN messages
  /\ Raise(c)
  /\ FramePopped(c)

\* How often the response on its way to the requester holds a content.
TimesPacked(c, b) ==
  Cardinality({i \in DOMAIN pulling[c].packed : pulling[c].packed[i].content.body = b})

\* A mutant: the response goes out before the messages are deleted.
PullSendFirst(c) ==
  /\ pc[c] = "pullDelete"
  /\ ReplyLong(c, "PULL_WAITING_MESSAGES_RESP", pulling[c].packed)
  /\ handed' = [e \in Envelope |->
                  handed[e] + IF Connected(c) /\ e.dest = req[c].src
                              THEN TimesPacked(c, e.body) ELSE 0]
  /\ pulling' = [pulling EXCEPT ![c] = NoPulling]
  /\ UNCHANGED <<tableVars, ID, sending, accepted>>

PullSend(c) ==
  /\ pc[c] = "pullDelete"
  /\ AllDeleted(c)
  /\ ReplyLong(c, "PULL_WAITING_MESSAGES_RESP", pulling[c].packed)
  /\ handed' = [e \in Envelope |->
                  handed[e] + IF Connected(c) /\ e.dest = req[c].src
                              THEN TimesPacked(c, e.body) ELSE 0]
  /\ pulling' = [pulling EXCEPT ![c] = NoPulling]
  /\ UNCHANGED <<tableVars, ID, sending, accepted>>

PullStep(c) ==
  \/ PullRefused(c) \/ PullBegin(c) \/ PullChanged(c) \/ PullVisit(c)
  \/ PackHeader(c) \/ PackContent(c) \/ PackGone(c) \/ PullEnd(c)
  \/ PullDelete(c) \/ PullDeleteGone(c) \/ PullSend(c)

MailboxStep(c) == SendStep(c) \/ PullStep(c)
=============================================================================
