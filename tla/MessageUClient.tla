---------------------------- MODULE MessageUClient ----------------------------
(***************************************************************************)
(* The client programs: the command loop and the handlers of               *)
(* MessageUClient.cpp, the exchange with the server of                     *)
(* ServerCommunication.cpp, and the keys the clients agree on through it.  *)
(*                                                                         *)
(* A handler is three steps: it checks its contacts and writes the         *)
(* request, the server acts on it, and the handler works on what came      *)
(* back.  The server is taken as coarsely as its clients can tell: a       *)
(* request takes effect in one step, but for the registration, whose test  *)
(* and insertion are two (MessageUServer has the threads).  A client that  *)
(* gives up does not stop the server, whose thread goes on without it.     *)
(***************************************************************************)
EXTENDS Client, FiniteSets

CONSTANTS
  Program,      \* running copies of the client program
  Picks,        \* the user names the user of a program may enter
  Types,        \* the types of message the users of an instance send
  Losses,       \* programs whose requests or responses may be lost
  Cuts,         \* programs whose connections may break inside a response
  NameParts,    \* for every name, what is left of it when its end never came
  Orphan,       \* bound: server threads that go on without their client
  MaxRestarts,  \* bound: how often the server is started again
  MailboxBound  \* bound: messages that wait at one time

VARIABLES
  registered,  \* Client::_registerStatus
  uuid,        \* Client::_UUID
  store,       \* Client::_clientsList and _contactsList
  call,        \* the exchange a handler waits in, or an orphan works on
  running,     \* FALSE after an exception nobody catches
  directory,   \* the server's clients list
  mailbox,     \* the server's waiting messages, in dict order
  restarts,    \* how often the server was started again
  issued,      \* history: the UUIDs given out
  doubled,     \* history: the names the server has inserted for a second time
  made,        \* history: who made a key, and for whom
  sent,        \* history: the keys whose message the server has stored
  unprinted    \* history: programs that received a message and did not print it

localVars == <<registered, uuid, store, running>>
serverVars == <<directory, mailbox, restarts, issued, doubled>>
history == <<made, sent, unprinted>>
vars == <<localVars, call, serverVars, history>>

Exchange == Program \cup Orphan

NoCall == [stage |-> "idle"]
NoPayload == <<>>
Nobody == [by |-> ZeroUUID, for |-> ZeroUUID]

MessageTypes == {"ASK_SYM_KEY", "SEND_SYM_KEY", "SEND_TEXT_MSG", "SEND_FILE"}

ASSUME PicksAssumption ==
  /\ Picks \in [Program -> SUBSET AnyName]
  /\ Types \subseteq MessageTypes
  /\ Losses \cup Cuts \subseteq Program
  /\ Program \cap Orphan = {}
  /\ NameParts \in [AnyName -> SUBSET AnyName]
  /\ MaxRestarts \in Nat
  /\ MailboxBound \in Nat
  /\ ZeroUUID \notin UUID /\ EmptyName \notin Username
  /\ PartUUID \cap (UUID \cup {ZeroUUID}) = {}
  /\ NoKey \notin Key /\ {NoKey, ZeroKey} \cap UUID = {}

\* key is the key sent, encrypted for the owner of the public key "sealed", or
\* the key a text or a file is encrypted with.
Message == [type : MessageTypes, src : AnyUUID, dest : AnyUUID,
            key : Key \cup {NoKey}, sealed : UUID \cup {NoKey}]

Init ==
  /\ registered = [p \in Program |-> FALSE]
  /\ uuid = [p \in Program |-> ZeroUUID]
  /\ store = [p \in Program |-> EmptyStore]
  /\ call = [x \in Exchange |-> NoCall]
  /\ running = [p \in Program |-> TRUE]
  /\ directory = <<>>
  /\ mailbox = <<>>
  /\ restarts = 0
  /\ issued = {}
  /\ doubled = {}
  /\ made = [k \in Key |-> Nobody]
  /\ sent = {}
  /\ unprinted = {}

-----------------------------------------------------------------------------
(***************************************************************************)
(* Commands: what start() lets through, and a handler up to its request.   *)
(***************************************************************************)
Idle(p) == running[p] /\ call[p] = NoCall

Request(p, op, args) ==
  call' = [call EXCEPT ![p] = [stage |-> "asked", op |-> op, src |-> uuid[p],
                               args |-> args]]

Unregistered(p) == Idle(p) /\ ~registered[p]
Registered(p) == Idle(p) /\ registered[p]

\* A name the user may enter: one that is in the list of clients.
Known(p) == DOMAIN store[p].clientsList

Dest(p, name) == getClientUUIDfromClientsList(store[p], name)

Register(p) ==
  /\ Unregistered(p)
  /\ \E name \in Picks[p] : Request(p, "REGISTER", name)
  /\ UNCHANGED <<localVars, serverVars, history>>

GetClientsList(p) ==
  /\ Registered(p)
  /\ Request(p, "LIST", NoPayload)
  /\ UNCHANGED <<localVars, serverVars, history>>

GetPublicKey(p) ==
  /\ Registered(p)
  /\ \E name \in Known(p) :
       /\ ~contactHasPublicKey(store[p], Dest(p, name))
       /\ Request(p, "KEY", Dest(p, name))
  /\ UNCHANGED <<localVars, serverVars, history>>

GetWaitingMessages(p) ==
  /\ Registered(p)
  /\ Request(p, "PULL", NoPayload)
  /\ UNCHANGED <<localVars, serverVars, history>>

Send(p, type, dest, key, sealed) ==
  type \in Types /\ Request(p, "SEND", [type |-> type, src |-> uuid[p], dest |-> dest,
                                        key |-> key, sealed |-> sealed])

AskForSymmetricKey(p) ==
  /\ Registered(p)
  /\ \E name \in Known(p) : Send(p, "ASK_SYM_KEY", Dest(p, name), NoKey, NoKey)
  /\ UNCHANGED <<localVars, serverVars, history>>

SendTextOrFile(p) ==
  /\ Registered(p)
  /\ \E name \in Known(p), type \in {"SEND_TEXT_MSG", "SEND_FILE"} :
       /\ contactHasSymmetricKey(store[p], Dest(p, name))
       /\ Send(p, type, Dest(p, name),
               getContact(store[p], Dest(p, name)).symmetricKey, NoKey)
  /\ UNCHANGED <<localVars, serverVars, history>>

CanMakeKeyFor(p, name) ==
  /\ contactHasPublicKey(store[p], Dest(p, name))
  /\ ~contactHasSymmetricKey(store[p], Dest(p, name))

\* RSAPublicWrapper throws on a key that lacks its end.
RSALoads(publicKey) == publicKey # ZeroKey

SendSymmetricKey(p) ==
  /\ Registered(p)
  /\ \E name \in Known(p), key \in {k \in Key : made[k] = Nobody} :
       LET dest == Dest(p, name)
           publicKey == getContact(store[p], dest).publicKey IN
         /\ CanMakeKeyFor(p, name)
         /\ RSALoads(publicKey)
         /\ Send(p, "SEND_SYM_KEY", dest, key, publicKey)
         /\ made' = [made EXCEPT ![key] = [by |-> uuid[p], for |-> dest]]
  /\ UNCHANGED <<localVars, serverVars, sent, unprinted>>

\* An exception nobody catches.
Terminate(p) ==
  /\ running' = [running EXCEPT ![p] = FALSE]
  /\ call' = [call EXCEPT ![p] = NoCall]

SendKeyToZero(p) ==
  /\ Registered(p)
  /\ \E name \in Known(p) :
       /\ CanMakeKeyFor(p, name)
       /\ ~RSALoads(getContact(store[p], Dest(p, name)).publicKey)
  /\ Terminate(p)
  /\ UNCHANGED <<registered, uuid, store, serverVars, history>>

-----------------------------------------------------------------------------
(***************************************************************************)
(* The server.                                                             *)
(***************************************************************************)
UUIDsInUse == {directory[i].uuid : i \in DOMAIN directory}
NamesInUse == {directory[i].username : i \in DOMAIN directory}

Asked(x, op) == call[x].stage = "asked" /\ call[x].op = op

\* Nobody reads what an orphan answers.
Answer(x, response) ==
  call' = [call EXCEPT ![x] =
             IF x \in Orphan THEN NoCall
             ELSE [stage |-> "answered", op |-> @.op, src |-> @.src, args |-> @.args,
                   response |-> response]]

\* A mutant: a refusal is taken for a success.
RefuseKeySet(x) ==
  /\ call[x].stage = "asked"
  /\ call[x].op \in {"LIST", "KEY", "SEND", "PULL"} /\ call[x].src \notin UUIDsInUse
  /\ store' = IF x \in Program /\ call[x].op = "SEND" /\ call[x].args.type = "SEND_SYM_KEY"
              THEN [store EXCEPT ![x] = setSymmetricKey(@, call[x].args.dest, call[x].args.key)]
              ELSE store
  /\ call' = [call EXCEPT ![x] = NoCall]
  /\ UNCHANGED <<registered, uuid, running, serverVars, history>>

\* A refusal leaves the handler, and the client, as they were.
Refuse(x) ==
  /\ call[x].stage = "asked"
  /\ \/ call[x].op = "REGISTER" /\ call[x].args \in NamesInUse
     \/ call[x].op \in {"LIST", "KEY", "SEND", "PULL"} /\ call[x].src \notin UUIDsInUse
  /\ call' = [call EXCEPT ![x] = NoCall]
  /\ UNCHANGED <<localVars, serverVars, history>>

\* Bound: the UUIDs that are left suffice for the registrations under way.
UUIDsLeft ==
  Cardinality({x \in Exchange : call[x].stage = "checked"}) < Cardinality(UUID \ issued)

CheckName(x) ==
  /\ Asked(x, "REGISTER")
  /\ call[x].args \notin NamesInUse
  /\ UUIDsLeft
  /\ call' = [call EXCEPT ![x].stage = "checked"]
  /\ UNCHANGED <<localVars, serverVars, history>>

AddClient(x) ==
  /\ call[x].stage = "checked"
  /\ \E new \in UUID \ issued :
       /\ directory' = Append(directory, [uuid |-> new, username |-> call[x].args])
       /\ issued' = issued \cup {new}
       /\ Answer(x, new)
  /\ doubled' = doubled \cup ({call[x].args} \cap NamesInUse)
  /\ UNCHANGED <<localVars, mailbox, restarts, history>>

GiveList(x) ==
  /\ Asked(x, "LIST")
  /\ call[x].src \in UUIDsInUse
  /\ Answer(x, directory)
  /\ UNCHANGED <<localVars, serverVars, history>>

\* An unknown target is not answered at all: see Unanswered.
GiveKey(x) ==
  /\ Asked(x, "KEY")
  /\ call[x].src \in UUIDsInUse
  /\ call[x].args \in UUIDsInUse
  /\ Answer(x, call[x].args)
  /\ UNCHANGED <<localVars, serverVars, history>>

StoreMessage(x) ==
  /\ Asked(x, "SEND")
  /\ call[x].src \in UUIDsInUse
  /\ Len(mailbox) < MailboxBound
  /\ mailbox' = Append(mailbox, call[x].args)
  /\ sent' = sent \cup ({call[x].args.key} \ {NoKey})
  /\ Answer(x, NoKey)
  /\ UNCHANGED <<localVars, directory, restarts, issued, doubled, made, unprinted>>

\* The messages for some recipients, in the order of the dict.
MessagesFor(recipients, messages) ==
  LET found[n \in 0 .. Len(messages)] ==
        IF n = 0 THEN <<>>
        ELSE IF messages[n].dest \in recipients THEN Append(found[n - 1], messages[n])
        ELSE found[n - 1]
  IN  found[Len(messages)]

HandMessages(x) ==
  /\ Asked(x, "PULL")
  /\ call[x].src \in UUIDsInUse
  /\ Answer(x, MessagesFor({call[x].src}, mailbox))
  /\ mailbox' = MessagesFor(AnyUUID \ {call[x].src}, mailbox)
  /\ UNCHANGED <<localVars, directory, restarts, issued, doubled, history>>

\* The server ends and is started again: both dicts are attributes of a class and
\* are written nowhere.  The exchanges it was in the middle of get no answer.
ServerRestart ==
  /\ restarts < MaxRestarts
  /\ restarts' = restarts + 1
  /\ directory' = <<>>
  /\ mailbox' = <<>>
  /\ call' = [x \in Exchange |->
               IF call[x].stage \in {"asked", "checked"} THEN NoCall ELSE call[x]]
  /\ UNCHANGED <<localVars, issued, doubled, history>>

-----------------------------------------------------------------------------
(***************************************************************************)
(* The response.  sendAndReceive reports no failure: a handler finds a     *)
(* zeroed header, which is an undefined code, or a header and a payload    *)
(* whose missing bytes are zero.                                           *)
(***************************************************************************)
Done(p) == call' = [call EXCEPT ![p] = NoCall]

\* The server's thread goes on with a request whose client is gone.
GoOn(p) ==
  /\ call[p].stage \in {"asked", "checked"}
  /\ \E x \in Orphan :
       /\ call[x] = NoCall
       /\ call' = [call EXCEPT ![p] = NoCall, ![x] = call[p]]

\* A client gives up: its request did not arrive, or it was answered, or the
\* thread goes on with it, which only matters when it changes something.
Abandon(p) ==
  \/ call[p] = NoCall /\ UNCHANGED call
  \/ call[p].stage \in {"asked", "answered"} /\ Done(p)
  \/ call[p] # NoCall /\ call[p].op \in {"REGISTER", "SEND", "PULL"} /\ GoOn(p)

\* A mutant: the key is set whatever came back.
UnansweredKeySet(p) ==
  /\ call[p] # NoCall
  /\ p \in Losses
  /\ store' = IF call[p].op = "SEND" /\ call[p].args.type = "SEND_SYM_KEY"
              THEN [store EXCEPT ![p] = setSymmetricKey(@, call[p].args.dest, call[p].args.key)]
              ELSE store
  /\ Abandon(p)
  /\ UNCHANGED <<registered, uuid, running, serverVars, history>>

\* No header came: the request or the response was lost, or the server's thread
\* ended in an exception.
Unanswered(p) ==
  /\ call[p] # NoCall
  /\ p \in Losses \/ (Asked(p, "KEY") /\ call[p].args \notin UUIDsInUse)
  /\ Abandon(p)
  /\ UNCHANGED <<localVars, serverVars, history>>

Answered(p, op) == call[p].stage = "answered" /\ call[p].op = op

\* How many records of a payload may come.
WholeRecords(p, records) ==
  {Len(records)} \cup IF p \in Cuts THEN 0 .. Len(records) ELSE {}

\* The file my.info cannot be written: the handler gives up, the server does not.
InfoNotWritten(p) ==
  /\ Answered(p, "REGISTER")
  /\ Done(p)
  /\ UNCHANGED <<localVars, serverVars, history>>

\* A UUID, or what came of it.
Payloads(p, whole) == {whole} \cup IF p \in Cuts THEN {ZeroUUID} \cup PartUUID ELSE {}

BecomeRegistered(p) ==
  /\ Answered(p, "REGISTER")
  /\ \E payload \in Payloads(p, call[p].response) : uuid' = [uuid EXCEPT ![p] = payload]
  /\ registered' = [registered EXCEPT ![p] = TRUE]
  /\ Done(p)
  /\ UNCHANGED <<store, running, serverVars, history>>

\* The header of the answer is sent before the client is added: when the
\* connection breaks in between, the client takes the zeros for its UUID, and the
\* server's thread goes on.
BecomeRegisteredEarly(p) ==
  /\ call[p].stage = "checked" /\ p \in Cuts
  /\ uuid' = [uuid EXCEPT ![p] = ZeroUUID]
  /\ registered' = [registered EXCEPT ![p] = TRUE]
  /\ GoOn(p)
  /\ UNCHANGED <<store, running, serverVars, history>>

\* What came of a record: a part of its UUID, or its UUID and a part of its name.
Broken(record) ==
  [uuid : {ZeroUUID} \cup PartUUID, username : {EmptyName}]
  \cup [uuid : {record.uuid}, username : NameParts[record.username]]

\* The records that came, the one the connection broke in, and zeros for the others.
CutAt(records, n, part) ==
  [i \in DOMAIN records |->
     IF i < n THEN records[i] ELSE IF i = n THEN part ELSE ZeroRecord]

Received(p, records) ==
  {records} \cup
    IF p \in Cuts
    THEN UNION {{CutAt(records, n, part) : part \in Broken(records[n])} : n \in DOMAIN records}
    ELSE {}

AddAllContacts(p) ==
  /\ Answered(p, "LIST")
  /\ \E records \in Received(p, call[p].response) :
       store' = [store EXCEPT ![p] = addContacts(@, records)]
  /\ Done(p)
  /\ UNCHANGED <<registered, uuid, running, serverVars, history>>

\* The UUID and the key, the UUID and a part of the key, or what came of the UUID.
KeyPayloads(p, target) ==
  {[uuid |-> target, key |-> target]} \cup
    IF p \in Cuts THEN [uuid : {target, ZeroUUID} \cup PartUUID, key : {ZeroKey}] ELSE {}

KeepPublicKey(p) ==
  /\ Answered(p, "KEY")
  /\ \E payload \in KeyPayloads(p, call[p].response) :
       /\ isContactExistInList(store[p], payload.uuid)
       /\ store' = [store EXCEPT ![p] = setPublicKey(@, payload.uuid, payload.key)]
  /\ Done(p)
  /\ UNCHANGED <<registered, uuid, running, serverVars, history>>

\* getContact of an UUID that is no contact: the end iterator is dereferenced.
KeyForNoContact(p) ==
  /\ Answered(p, "KEY")
  /\ \E payload \in KeyPayloads(p, call[p].response) :
       ~isContactExistInList(store[p], payload.uuid)
  /\ Terminate(p)
  /\ UNCHANGED <<registered, uuid, store, serverVars, history>>

\* A mutant: the sealed key is kept in place of the key.
MessageSentSealed(p) ==
  /\ Answered(p, "SEND")
  /\ LET m == call[p].args IN
       store' = IF m.type = "SEND_SYM_KEY"
                THEN [store EXCEPT ![p] = setSymmetricKey(@, m.dest, m.sealed)]
                ELSE store
  /\ Done(p)
  /\ UNCHANGED <<registered, uuid, running, serverVars, history>>

\* The handlers of the commands that send: only one has something to keep.
MessageSent(p) ==
  /\ Answered(p, "SEND")
  /\ LET m == call[p].args IN
       store' = IF m.type = "SEND_SYM_KEY"
                THEN [store EXCEPT ![p] = setSymmetricKey(@, m.dest, m.key)]
                ELSE store
  /\ Done(p)
  /\ UNCHANGED <<registered, uuid, running, serverVars, history>>

-----------------------------------------------------------------------------
(***************************************************************************)
(* getWaitingMessagesHandler: the loop over the messages of a response, a  *)
(* turn for each.  The loop goes on, has returned, or has terminated the   *)
(* program.                                                                *)
(***************************************************************************)
\* A mutant: the recipient is taken for the sender.
FiledUnderRecipient(s, m) ==
  getClientUUIDfromClientsList(s, getContact(s, m.dest).username)

\* The contact a message is filed under: the one its sender's name leads to.
FiledUnder(s, m) ==
  getClientUUIDfromClientsList(s, getContact(s, m.src).username)

AESDecrypts(key, m) == key = m.key

RSADecrypts(p, m) == m.sealed = uuid[p]

\* Decryption with a wrong key throws unless the padding happens to fit, and
\* then prints garbage; without a key, the key is an unset buffer.  A file that
\* cannot be written ends the loop.
OpenText(state, m, luck) ==
  IF ~AESDecrypts(getContact(state.store, FiledUnder(state.store, m)).symmetricKey, m)
    THEN IF luck.fits THEN [state EXCEPT !.complete = FALSE]
                      ELSE [state EXCEPT !.at = "terminated"]
    ELSE IF m.type = "SEND_FILE" /\ ~luck.writes
         THEN [state EXCEPT !.at = "returned", !.complete = FALSE]
         ELSE state

OpenKey(p, state, m) ==
  IF RSADecrypts(p, m)
    THEN [state EXCEPT !.store = setSymmetricKey(@, FiledUnder(@, m), m.key)]
    ELSE [state EXCEPT !.at = "terminated"]

PrintMessage(p, state, m, luck) ==
  IF state.at # "loop" THEN [state EXCEPT !.complete = FALSE]
  ELSE IF m.type = "ASK_SYM_KEY" THEN state
  ELSE IF ~isContactExistInList(state.store, m.src) THEN [state EXCEPT !.at = "returned"]
  ELSE IF m.type = "SEND_SYM_KEY" THEN OpenKey(p, state, m)
  ELSE OpenText(state, m, luck)

PrintBatch(p, batch, luck) ==
  LET turn[n \in 0 .. Len(batch)] ==
        IF n = 0 THEN [at |-> "loop", store |-> store[p], complete |-> TRUE]
        ELSE PrintMessage(p, turn[n - 1], batch[n], luck)
  IN  turn[Len(batch)]

\* A cut response ends in zeros, which are messages of no type until the loop
\* runs past the end of the buffer (see Wire for a record that lacks its end).
PrintMessages(p) ==
  /\ Answered(p, "PULL")
  /\ \E n \in WholeRecords(p, call[p].response), luck \in [fits : BOOLEAN, writes : BOOLEAN] :
       LET batch == call[p].response
           end == PrintBatch(p, SubSeq(batch, 1, n), luck)
       IN  /\ store' = [store EXCEPT ![p] = end.store]
           /\ unprinted' = IF end.complete THEN unprinted ELSE unprinted \cup {p}
           /\ \E overrun \in {FALSE, n < Len(batch) /\ end.at = "loop"} :
                running' = [running EXCEPT ![p] = ~overrun /\ end.at # "terminated"]
  /\ Done(p)
  /\ UNCHANGED <<registered, uuid, serverVars, made, sent>>

-----------------------------------------------------------------------------
\* A mutant: the contacts of the last session are there again.
RestartWithContacts(p) ==
  /\ registered' = [registered EXCEPT ![p] = FALSE]
  /\ uuid' = [uuid EXCEPT ![p] = ZeroUUID]
  /\ running' = [running EXCEPT ![p] = TRUE]
  /\ Abandon(p)
  /\ UNCHANGED <<store, serverVars, history>>

\* The user leaves, or the program has terminated, and it is started again: the
\* singleton is new, and nothing reads my.info.
Restart(p) ==
  /\ registered' = [registered EXCEPT ![p] = FALSE]
  /\ uuid' = [uuid EXCEPT ![p] = ZeroUUID]
  /\ store' = [store EXCEPT ![p] = EmptyStore]
  /\ running' = [running EXCEPT ![p] = TRUE]
  /\ Abandon(p)
  /\ UNCHANGED <<serverVars, history>>

Command(p) ==
  \/ Register(p) \/ GetClientsList(p) \/ GetPublicKey(p) \/ GetWaitingMessages(p)
  \/ AskForSymmetricKey(p) \/ SendTextOrFile(p) \/ SendSymmetricKey(p)
  \/ SendKeyToZero(p)

Serve(x) ==
  \/ Refuse(x) \/ CheckName(x) \/ AddClient(x) \/ GiveList(x) \/ GiveKey(x)
  \/ StoreMessage(x) \/ HandMessages(x)

Finish(p) ==
  \/ Unanswered(p) \/ InfoNotWritten(p) \/ BecomeRegistered(p) \/ BecomeRegisteredEarly(p)
  \/ AddAllContacts(p) \/ KeepPublicKey(p) \/ KeyForNoContact(p)
  \/ MessageSent(p) \/ PrintMessages(p)

Next ==
  \/ ServerRestart
  \/ \E p \in Program : Command(p) \/ Finish(p) \/ Restart(p)
  \/ \E x \in Exchange : Serve(x)

Spec == Init /\ [][Next]_vars

-----------------------------------------------------------------------------

Calls ==
  {NoCall}
  \cup [stage : {"asked", "checked"}, op : {"REGISTER"}, src : AnyUUID, args : AnyName]
  \cup [stage : {"asked"}, op : {"LIST", "PULL"}, src : AnyUUID, args : {NoPayload}]
  \cup [stage : {"asked"}, op : {"KEY"}, src : AnyUUID, args : AnyUUID]
  \cup [stage : {"asked"}, op : {"SEND"}, src : AnyUUID, args : Message]

\* An answered call holds what the server gave.
IsAnswer(c) ==
  /\ DOMAIN c = {"stage", "op", "src", "args", "response"}
  /\ c.stage = "answered"
  /\ c.src \in AnyUUID
  /\ \/ c.op = "REGISTER" /\ c.args \in AnyName /\ c.response \in UUID
     \/ c.op = "LIST" /\ c.response \in Seq(ClientRecord)
     \/ c.op = "KEY" /\ c.args \in UUID /\ c.response = c.args
     \/ c.op = "SEND" /\ c.args \in Message
     \/ c.op = "PULL" /\ c.response \in Seq(Message)

\* Every variable keeps its shape: the maps hold names, UUIDs and contacts, a
\* call stands at a stage of its handler.
TypeOK ==
  /\ registered \in [Program -> BOOLEAN]
  /\ uuid \in [Program -> AnyUUID]
  /\ DOMAIN store = Program /\ DOMAIN call = Exchange
  /\ \A p \in Program : IsStore(store[p]) /\ (call[p] \in Calls \/ IsAnswer(call[p]))
  /\ \A x \in Orphan : call[x] \in Calls
  /\ running \in [Program -> BOOLEAN]
  /\ directory \in Seq(ClientRecord)
  /\ mailbox \in Seq(Message) /\ Len(mailbox) <= MailboxBound
  /\ restarts \in 0 .. MaxRestarts
  /\ UUIDsInUse \subseteq issued /\ issued \subseteq UUID
  /\ doubled \subseteq AnyName
  /\ made \in [Key -> [by : AnyUUID, for : AnyUUID]]
  /\ sent \subseteq Key
  /\ unprinted \subseteq Program

\* The lookups by a name, and those of a contact's name, find something, although
\* the handlers do not test what find returns (getContact, contactHasPublicKey and
\* getClientUUIDfromClientsList): the UUID a name leads to is a contact, and the
\* name of a contact is in the list of clients, also after lists that were cut
\* anywhere or name two clients alike.  The lookup of the UUID of a key response is
\* not one of these: see KeySetForTarget.
LookupsFind ==
  \A p \in Program :
    /\ \A name \in Known(p) : isContactExistInList(store[p], Dest(p, name))
    /\ \A u \in DOMAIN store[p].contactsList :
         isClientExistInList(store[p], getContact(store[p], u).username)

SymmetricKey(p, u) == getContact(store[p], u).symmetricKey

HasKeyFor(p, u) ==
  isContactExistInList(store[p], u) /\ contactHasSymmetricKey(store[p], u)

\* A key kept under u was made for u, or by u for this client.
KeyIsBetween(p, u) ==
  made[SymmetricKey(p, u)] \in {[by |-> uuid[p], for |-> u], [by |-> u, for |-> uuid[p]]}

\* A key a client keeps for a contact was made for it, or by it for this client.
\* The sender of a key is found by its name, so this is kept for the names the server
\* has inserted once only, in a program whose lists come whole (a cut record has a
\* shorter name, which may be another's).  It holds whatever else is lost, whoever
\* gives up and tries again, and whoever is started again.
KeyFiledUnderSender ==
  \A p \in Program \ Cuts : \A u \in DOMAIN store[p].contactsList :
    HasKeyFor(p, u) /\ getContact(store[p], u).username \notin doubled => KeyIsBetween(p, u)

\* Every message that waits has somebody to wait for: although the server never
\* looks a recipient up and forgets everybody when it is started again, nobody it
\* serves has contacts from before.  Only where connections break inside a list, a
\* message may wait for what is left of a UUID, or for the zero UUID.
RecipientsKnown ==
  \A i \in DOMAIN mailbox :
    mailbox[i].dest \in UUIDsInUse \cup IF Cuts = {} THEN {} ELSE {ZeroUUID} \cup PartUUID

\* A client only uses a key the other side can get: whatever was lost on the
\* way, the server has stored the message that carries it.
KeyHeldWasSent ==
  \A p \in Program : \A u \in DOMAIN store[p].contactsList :
    HasKeyFor(p, u) => SymmetricKey(p, u) \in sent

-----------------------------------------------------------------------------
\* What the repository says and the code does not keep: each of these has a run
\* that shows how it fails.

\* Nothing is under way that could still change the keys of two clients.
Settled(p, q) ==
  /\ \A x \in {p, q} \cup Orphan : call[x] = NoCall
  /\ \A i \in DOMAIN mailbox :
       mailbox[i].type = "SEND_SYM_KEY" => mailbox[i].dest \notin {uuid[p], uuid[q]}

\* "has a symmetric key already. You can send a text message."
\* (MessageUClient.cpp): when two clients have a key for each other and none is
\* on its way, it is the same key.
KeysAgree ==
  \A p, q \in Program :
    /\ p # q /\ Settled(p, q)
    /\ HasKeyFor(p, uuid[q]) /\ HasKeyFor(q, uuid[p])
    => SymmetricKey(p, uuid[q]) = SymmetricKey(q, uuid[p])

\* "Sets the symmetric key to the sending client in the contacts list"
\* (MessageUClient.cpp): a key kept for a contact was made for it, or by it for
\* this client, whatever the names.
KeyOfSender ==
  \A p \in Program : \A u \in DOMAIN store[p].contactsList :
    HasKeyFor(p, u) => KeyIsBetween(p, u)

\* "Sets the target client's public key in the list of contacts of the current
\* client." (MessageUClient.h): the handler that was given a key has set the key
\* of the client it asked for.
KeySetForTarget ==
  [][\A p \in Program :
       KeepPublicKey(p) \/ KeyForNoContact(p) =>
         /\ isContactExistInList(store'[p], call[p].args)
         /\ contactHasPublicKey(store'[p], call[p].args)]_vars

\* "Prints the messages one by one, after decrypting them." (MessageUClient.h):
\* a client prints every message it received.
AllPrinted == unprinted = {}
=============================================================================
