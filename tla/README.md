# MessageU: a verification project

MessageU is an end-to-end encrypted messenger: a Python server that registers
clients and keeps their messages until they are pulled, and a C++ command line
client that agrees on symmetric keys with other clients through it. This
directory holds TLA+ modules translated from the sources, TLC configurations
that check them on small instances, and proofs checked by TLAPS.

The sources are modelled as what they evidently do. As committed, the server file
does not load (`src/Server/ClientHandler.py` is indented inconsistently at lines
334, 343 and 423) and the client does not compile (`src/Client/MessageUClient.cpp`
passes `Client*` where `Client&` is declared, narrows lengths in braces and clears an
undeclared `msgContentBuffer`); the models follow the program one gets when these slips are
set right, and nothing they leave out depends on them.

## Inventory

| Part | State | Operations | Hard about it | Correct when |
|---|---|---|---|---|
| accept loop and threads (`Server/MessageUServer.py`, `clientRequestHandler`) | sockets, `clientSocket` of the loop, one thread per connection | accept, route by request code, close | a thread that raises never reaches `close()`; only reference counting closes its socket; a failing `accept()` closes the socket accepted before; `recv` and `sendall` have no time limit | every thread ends unless its own client holds it up for ever; no socket but the loop's own outlives its thread, and that one is closed too as long as clients keep connecting |
| registry (`ClientHandler.py` 27-233) | `clientsList`, a class attribute, a dict by UUID | register, list, public key | test and insertion are two critical sections; the list is announced, then iterated, without the lock | a list that is sent is the list of one moment (names should not be given twice, and are) |
| waiting messages (`ClientHandler.py` 235-375, `MessageData.py`) | `messages`, a dict by ID; the counter `MessageData.ID` | send, pull | nothing but `addMessageToList` holds the lock; `messages[id]` is looked up again for every field; deleted first, sent later | a content reaches its recipient once and nobody else; only a pull of the recipient removes it |
| client handlers (`Client/MessageUClient.cpp`) | UUID, registration flag, the exchange in progress | register, list, public key, pull, text, file, ask for a key, send a key | `sendAndReceive` reports no failure; the server's thread goes on with a call its client has given up; keys cross; a batch that was pulled exists nowhere else | a key is kept for whom it was made; both ends agree; everything pulled is printed |
| contact store (`Client/Client.cpp`, `Contact.cpp`) | a map name to UUID, a map UUID to contact | add, look up, set keys | lookups dereference what `find` returns; lists and keys come in part | a name that is known leads to a contact, a contact's name to a UUID (the lookup of a key response should find its contact, and need not) |
| exchange (`Client/ServerCommunication.cpp`) | none between calls | connect, write, read header, read payload | cut responses leave zeros in resized buffers, behind a part of a UUID or a name too; no read has a time limit | a cut response shows no message that was not sent, and leaves no message waiting for a UUID but what is left of one |
| wire structs (`Request.h`, `Response.h`, `Message.h`, `Definitions.py`) | none | layout | 32-bit sizes against an unbounded mailbox and files of any length; a content that was stored in part | the size announced is the size sent; a response is taken apart into the messages it was made from |
| wrappers and utilities | none | AES, RSA, Base64, hex, `rand()` file names | a wrong key throws or prints garbage; names repeat after a restart | - |

Clients and server share nothing but connections: one connection is one request
and one response. The server's threads share the two dicts and the counter, under
one semaphore that most accesses do not take. A client is one thread and makes one
call at a time.

## Modules

* `ClientsHandler`: connections, threads and the parts of a response that all
  handlers use. `pc[c]` is where the thread of connection `c` stands, named after
  the statement it runs next; `req[c]` the request its client makes; `open[c]` the server's
  end of the socket, `peer[c]` the client's, which has connected, has written, reads the
  response, or is gone; `header`/`payload` what went out on the wire.
* `RegistryHandlers` and `MailboxHandlers`: the five request handlers, one action
  per access to shared state.
* `MessageUServer`: their composition, its specification and its properties.
* `Mailbox`: what the server promises about a message, without threads, IDs and
  dicts: waiting, taken by a pull of the recipient, handed over or lost.
* `Client` and `MessageUClient`: the contact store, the command loop and the client's
  handlers, against a server as coarse as clients can tell.
* `Wire`: the bytes of a message from the client that writes it, through what the server
  stores of it and packs into a response, to the loop that takes the response apart.
* `MCMessageUServer`, `MCMessageUClient`, `MCWire`: the instances for TLC.
* The theorems: `MessageUServerProofs`, `RegistryProofs`, `MailboxProofs` and
  `DeliveryProofs` about the server, `ClientProofs` and `MessageUClientProofs` about the
  clients, `WireProofs` about the bytes. `Recursion` has what the last three need about
  loops.

### How the server's code became actions

*One shared access per action.* Between two accesses to `clientsList`, `messages` or
`MessageData.ID` a thread touches its own locals and its own socket only, so such
stretches are joined to the access before or after them. A stretch that sends and then
accesses is kept apart where a client could tell (`RegisterWhole`/`addNewClient`,
`ListAnnounce`/`ListStart`). Where a value is tested and then used without the lock
the two are separate actions. A few joins deserve a word. `IsRegistered` stands for
two calls that each take the semaphore; `clientsList` only grows, so that the answer
cannot change from one to the other. `PullVisit` takes the iterator's step and the
comparison of the recipient as one; a deletion between the two would raise `KeyError`
where the model raises `RuntimeError` one step later, with the same effect.
`PackHeader` and `PackContent` each take the lookups of `messages[id]` for one half of a
record as one (lines 330-333 and 341-348), although there are calls between them. That
hides no mixture of two messages: whatever could change the entry between two joined
lookups can change it between the two actions.

*Dict iterators.* CPython's iterator notes the size of the dict and raises when it has
changed at the next step, and otherwise walks the entry table. `entries` is that table,
with `Gone` at deleted keys; `SameSize`, `Ahead` and `MayHaveMoved` say what the
iterator finds. A table may be rebuilt without its gaps when keys are inserted; the
model lets a rebuild happen whenever entries were added since the iterator began, which
allows more than CPython does.

*Threads are switched* anywhere between bytecodes (CPython up to 3.9, free-threaded
builds: `SwitchAnywhere = TRUE`) or only at calls and at the ends of loop turns (from
3.10: `FALSE`). The difference shows in one place, `MessageData.__init__`, where
`self.msgID = MessageData.ID` and `MessageData.ID += 1` hold no call: `TakeID` is one
action there, `ReadID`, `LoadID`, `StoreID` are three.

*Failures.* A client may connect and write nothing, or write (`Write`) and not read what it
is sent (`Read`), for as long as it likes. Until it writes, the thread stands in `recv`;
`Held` says so. The payloads that grow with the server's state, the list and the
messages, may be more than a socket buffer takes, so that their `sendall` returns only when
the client reads (`ReplyLong`, the label `sendall`, `EndSend`); a header or a record of one
size always finds room. A client may go away at any moment (`Drop`): sends to it fail and
are only printed, `recv` returns less or raises. A handler that goes on to an unassigned
buffer raises (`Raise`): no answer, no `close()`. `accept()` may fail (`AcceptError`, where
`AcceptFails`): the except clause closes `clientSocket`, which is still the socket of the
client before, and the thread of that client goes on with it.

*The environment.* `Offered` lists the requests the client program can make: as a UUID
the server gave out, one call at a time, or as the zero UUID that a client is left with
when the register payload is lost. Names, contents and UUIDs are members of small
sets; a content belongs to one stored message (`FreshBody`), so that contents tell
messages apart even when IDs do not. A public key is identified with the UUID it was
registered under.

### How the client's code became actions

A handler is three steps: it checks its contacts and writes the request (`Command`),
the server acts (`Serve`), and the handler works on what came back (`Finish`). The
registration is two steps at the server, for its header goes out between the test of the
name and the insertion. An exception that nobody catches ends the program (`running`).
`Restart` begins the program again with an empty singleton: nothing reads `my.info`.
`ServerRestart` empties both dicts at any moment and leaves the exchanges that were going on
without an answer; `uuid4()` gives no UUID again (`issued`).

*Giving up.* The response can be lost at any point (`Unanswered`, for the programs in
`Losses`: a zeroed header is an undefined code), and the user may leave the program and start
it again in the middle of a call. Neither stops the server (`Abandon`): the request did not
arrive, or it was answered, or it moves to a member of `Orphan`, a server thread that has
lost its client and goes on (`GoOn`). So a registration can insert its name, and a message
be stored, after the client has made the call again; a pull can take messages for nobody.
An abandoned list or key request changes nothing and is not kept.

*Breaking off.* The payload can be cut (for the programs in `Cuts`) at every byte. A UUID
that lacks its end is a member of `PartUUID`, a non-zero UUID that nobody has; one of which
nothing came is `ZeroUUID`. A record of a list may be cut in its UUID or in its name, of
which some beginning is left (`NameParts`), and zeros follow (`Broken`, `CutAt`); the UUID a
client is registered under and the one a key response names are cut alike (`Payloads`,
`KeyPayloads`), a public key may lack its end (`ZeroKey`). The connection can also
break between the header of a registration and its payload, before the server has
inserted the client (`BecomeRegisteredEarly`).

*Loops.* The loop of `getWaitingMessagesHandler` is a recursive function of the number of
turns (`PrintBatch`), a turn `PrintMessage`, and so is the loop over the records of a list
(`addContacts`). The printing loop ends the handler at a message of an unknown sender and
the program at a message that does not decrypt.

### How bytes became cells

`Wire` is one client that writes to itself, one exchange at a time, with the sizes the
other modules leave out. A field nobody computes with is one cell, a 32-bit size is two
digits to the base `Base`, the lower first, so that a size can be cut in the middle as four
bytes can. A cell carries the message it belongs to (`of`), which nothing in the model
reads and the properties compare. C++ narrows to the field (`Wrapped`), `struct.pack`
raises (`Packable`). `Chunks` is what one `recv` may return; `Padded` what `struct.pack` of a
string that is shorter than its size puts on the wire; `ReadPayload` fills a buffer of the
announced size with as much of the response as came. `PrintRecord` is one turn of the
loop; `Overrun` stands for the undefined behaviour of an iterator past the end, after
which the model prints nothing more.

## Runs

All are small enough for two workers and five minutes. `CHECK_DEADLOCK` is on in all of
them: some step is always possible.

| Run | Checks | Instance |
|---|---|---|
| `mailbox` | `HandedOnce`, `PackedForRequester`, `IDsDistinct`, `TakenByRecipient`, `MailboxSpec` | three connections, two contents, two clients that write to each other, one of which pulls, a client without a UUID tries both |
| `threads` | `TypeOK`, `OnlyLastStaysOpen`, `ListIsSnapshot`, `ThreadEnds`, `SocketsClose` | every kind of request, two connections, clients that may never write or read, threads switched anywhere, `accept()` failing, fairness |
| `clients` | `LookupsFind`, `RecipientsKnown`, `KeyHeldWasSent` | one program that writes to itself, as the list has it too, and to what an abandoned registration left there; responses lost and cut anywhere, an orphan, restarts of the program and the server |
| `exchange` | `TypeOK`, `KeyFiledUnderSender`, `RecipientsKnown`, `KeyHeldWasSent` | two programs, a key, calls given up at a restart of the program and made again, an orphan, a restart of the server |
| `wire` | `TypeOK`, `ContentInSize`, `AnnouncedIsSent`, `PrintedAsPacked`, `NothingInvented` | three messages of any type, lengths 0, 4, 22 and 24 of at most 24, a new counter and one about to outgrow its field |

These pass. What they say together: with threads switched only at calls, a message
that the server acknowledged is read by its recipient at most once and by nobody else,
although the handlers lock almost nothing. What saves it is that IDs are never used
again and that a pull deletes everything before it sends anything: of two pulls that
have packed a message, only one gets past its deletion. `IDsDistinct` is the plainest of the
five, close to the shape of `TakeID` when threads switch at calls only; what it rests on,
and what `overwritten` breaks, is that nothing comes between reading the counter and writing
it back.
`MailboxSpec` says the same as a refinement: `stored <- accepted`, `waiting` the
envelopes of `messages`, `taken` what the running pulls have deleted, `handed` the
envelopes that were sent.

In `threads`, a client that neither writes nor reads holds its own thread up, and nobody
else's. The premise of `ThreadEnds` and of the conclusion of `SocketsClose` is `[]<>~Held(c)`: the
thread does not wait for its client for ever. Nothing else
is asked of any client.

On the client, the two maps of the contact store stay in step whatever is cut
(`LookupsFind`), and a client only keeps a key the server has stored. `LookupsFind` speaks of
the lookups by a name the user entered or a contact has. The lookup of the UUID in a key
response is another matter: that one can come to nothing, as `key_for_nobody` shows.

The server never looks a recipient up; `RecipientsKnown` says why no message waits for nobody
all the same: a program that was registered with the server of before is refused by the one
that runs now, one that registers with it begins with an empty store, and a request that a
thread goes on with was written by a client of the same server. Only where connections break
inside lists can a message wait for the zero UUID or for a part of a UUID, as happens in
`clients`; in `exchange` it cannot.

`KeyFiledUnderSender` is about names the server has inserted once (`doubled` keeps the
others) in programs whose lists come whole. Names of one's own do not make the exception
unnecessary: in `exchange` each user has one, and a registration given up after the test of
the name and made again puts one user into the list twice. The key that its second UUID
sends is then filed under the first. Without the exception the property is `KeyOfSender`,
which `key_misfiled` refutes.

On the wire, the sizes and the contents stay in step although nothing compares them: a
content shorter than its size is padded, and one longer than its size is never stored,
because the server reads no more than the payload size, which has wrapped together with
the size of the content (`ContentInSize`). So a part of a message that was stored does not
shift the ones behind it, the loop of the client ends where the buffer ends, and what a
broken connection leaves are zeros, which are no message and no size.

Three actors on the mailbox are enough for the cases of interest: two pulls race while
a message is stored, or a pull races with two stores. Two contents are the fewest with
which a batch can be handed over in part. In `threads` two connections let a registration
race an iteration of the list, which begins with one client, and an `accept()` that fails
race the thread of the client before. In `clients` one program is enough: its three
properties relate one client's store, the mailbox and the server's list, the client is in
that list itself, and a registration that was given up and made again, or made with a new
server, gives it other UUIDs. That leaves room for cuts everywhere, an orphan and a server that
is started again; `exchange` checks two of the three with two programs, and has a third UUID
for the program that registers again. One key is enough there, for the question is under whom
it is filed; `keys_disagree` has two, the fewest that cross. In `wire` three messages let a record stand before, between and behind others;
`Base = 5` makes 24 the largest size, and of the lengths 4 takes two digits for its size
when it is encrypted, 22 makes the size of the payload wrap around and 24 both sizes.
Three contents of length 4 are more than the size of a response holds.

Seven runs end in a violation: each shows where the code does not keep what a comment
says. `PROJECT.json` quotes the comments.

* `overwritten` (`TakenByRecipient`, threads switched anywhere): two messages get one
  ID and the first is lost although its sender was answered.
* `unanswered` (`Answered`): a message is stored while a pull iterates; the pull's
  client gets neither messages nor an error. TLC's shortest trace stores it before the
  iterator's first step, where CPython from 3.10 on does not switch; there the same happens at
  the end of the loop's first turn. The list and the public key of an unknown UUID fail
  alike.
* `keys_disagree` (`KeysAgree`): two clients make keys for each other at one time; each
  ends up with the other's.
* `key_misfiled` (`KeyOfSender`, names not kept apart): two registrations of one name pass
  the test side by side, and a key from one of the two is set for the other.
* `key_for_nobody` (`KeySetForTarget`): a key response breaks off inside its UUID, and the
  handler dereferences the end iterator of its contacts.
* `batch_dropped` (`AllPrinted`): a key from a sender that is not in the list ends the
  loop, and the rest of the batch is gone.
* `part_stored` (`ContentAsSent`): one `recv` returns a part of a message, which is stored
  and acknowledged.

Bounds. `CanRegister` offers a registration only while a UUID is left for it.
`FreshBody` bounds the messages by `Body`. `MailboxBound` bounds the coarse mailbox of
the client model. `made` gives every key one maker, so `Key` bounds the keys. Message
IDs are bounded by the contents and by the requests that fail before they use one.
`MaxRestarts` bounds the restarts of the server, `Orphan` the threads that go on without
their client at one time, `UUIDsLeft` the registrations under way by the UUIDs that are
left, `MaxMessages` the messages of `Wire`, whose responses are as long as those allow.
`Losses` and `Cuts` name the programs whose connections fail: the one of `clients`, none of
`exchange`, where programs that are left and started again lose their calls.
Symmetry: connections, contents, UUIDs and keys are compared with nothing but
themselves; programs are interchangeable where they fail alike, in `exchange` together with
the names they own (`Swap`). `threads` uses none, for it checks liveness, and
`key_for_nobody` none, for it checks an action property of one program.

Fairness. `FairSpec` is weak fairness of every thread's steps: the interpreter gives every
runnable thread its turn, and the semaphore is held for a bounded time. A thread that
stands in `recv` or in a long `sendall` has no step until its client writes, reads or goes
away, or the accept loop closes the socket, and nothing makes the client do so: there is no
fairness of clients, and the properties name the threads a client holds (`Held`) in their
premise instead. `ThreadEnds` needs no more because every loop of a handler is bounded by the
dict it iterates and gives up when that dict changes size. `SocketsClose` has one more
premise: if clients keep connecting, every socket is closed in the end whose client does not
hold its thread; without it the socket a thread abandoned last stays open.

## Proofs

Every safety property that a passing run checks is also a theorem, for all values of the
constants that satisfy the modules' assumptions, and so is the refinement of `Mailbox`.
What stays with TLC is at the end of this section.

### The server

`MessageUServerProofs`, from `ConstantsAssumption` and `SwitchAssumption`:

* `TypeCorrect`: `Spec => []TypeOK`. `TypeOK` is not inductive: a thread that stands
  inside a handler reads fields of its request (`req[c].body`, `req[c].username`) and
  the ID it took. `LabelsFit` adds which request the labels of each handler belong to and
  that a message is numbered before it is stored. Each way to move a thread on, or to
  end it, has a lemma (`AdvanceType`, `ReplyType`, `RaiseType`, ...), each handler one
  (`RegistryType`, `SendingType`, `PullingType`), and `TypeStep` puts them together.

* `OnlyLastStaysOpenCorrect`: `Spec => []OnlyLastStaysOpen`, inductive as it stands beside
  the types. `ThreadEndsOrGoesOn` says in one lemma what every handler's step does to the
  socket: the thread goes on, or the socket is closed, or it is the one the accept loop
  refers to; `Accept`, which moves that reference, closes the socket it moves from.

`RegistryProofs`, likewise without an assumption about switching:

* `ListIsSnapshotCorrect`: `Spec => []ListIsSnapshot`. `ListInv` follows a list request
  through its handler: nothing goes out before the header, the header announces no more
  than the list has by then, and what the iteration has collected is the list as far as it
  goes (`SameSoFar`). Other threads keep it because the list only grows (`ListOnlyGrows`), and
  an iteration that ends normally has found its size unchanged.

`MailboxProofs` and `DeliveryProofs` have the properties of messages, with the assumption
`~SwitchAnywhere`. The assumption is needed: with threads switched anywhere the run
`overwritten` refutes `TakenByRecipient`.

* `PackedCorrect`: `Spec => []PackedForRequester`.
* `TakenCorrect`: `Spec => TakenByRecipient`.
* `IDsDistinctCorrect`: `Spec => []IDsDistinct`.
* `HandedOnceCorrect`: `Spec => []HandedOnce`.
* `ImplementsMailbox`: `Spec => MailboxSpec`.

The first two are not inductive, for what a pull has packed is a copy of entries that other
threads go on changing. `MailInv` says why the copies stay good:

* `TableInv`: a message lies under its own ID, and that ID is below the counter; every
  entry of the iterated table that is not `Gone` leads to a message.
* `PendingDistinct`, `StoringInv`: the IDs that threads have taken and not yet stored
  are below the counter, differ from each other, and have no message under them.
* `PackingInv`, `PackedInv`: an ID a pull works with was stored once and is nobody's
  pending ID, so `Copy` holds of it: the message is there as it was read, or the key
  is empty and stays so.

`LocalStep` shows that a step which leaves the table and the counter alone is of no concern
to the other threads; `SendStepInv` and `PullStepInv` go through the actions of the two
handlers, of which only `TakeID`, `addMessageToList` and `PullDelete` disturb others.
`MailStep` puts them together with the steps outside the mailbox, and needs `TypeCorrect`
beside it. `TakenStep` reads the action property off the same invariant: only
`addMessageToList`, which finds its ID unused, and `PullDelete`, which holds a copy of
what it deletes, change the table.

`AckInv` carries the IDs on to the answers: one that a sender was told is below the counter,
nobody's pending ID, and no other sender's. For the last two theorems every step of the
server is put into one of five effects on the envelopes (`StepEffect`): it stores one, moves
one from the dict into the hands of a pull, hands over or loses what a pull holds, or moves
nothing. `DeliveryInv` says that the places an envelope can be in (waiting, with one pull,
handed over) exclude each other, which needs `BodyInv`: a content belongs to one request
and is not stored before its time. `EffectKeepsPlaces` preserves it, and `EffectIsBoxStep`
maps each effect to the step of `Mailbox` it is.

### The clients

`ClientProofs` is about the contact store alone: what `addContacts` leaves in the two maps
for any list (`addContactsFills`). `MessageUClientProofs` has the programs, from the
assumptions of `MessageUClient`:

* `ClientTypeCorrect` and `LookupsFindCorrect`: `TypeOK` and `LookupsFind` are inductive
  together, once every loop of a handler is known to keep a store a store and the maps in
  step (`addContactsFills`, `PrintBatchKeeps`).
* `KeyHeldWasSentCorrect`: `SentInv` follows a key from the request that carries it through
  the mailbox and the batch into the store of the other side; a client sets its own key
  only when the server has answered.
* `RecipientsKnownCorrect`: `RecipientInv` says that a client the running server knows has only
  contacts the server knows, or what is left of UUIDs where lists are cut, and that a call made
  under such a UUID, an orphan's too, names no other recipient. It holds because a program that
  registers begins with an empty store; `SessionInv` ties the UUIDs of programs and of calls to
  the registrations they came from, so that a new UUID is nobody's yet.
* `KeyFiledUnderSenderCorrect`, without a hypothesis: the exception for names in `doubled`
  is in the property. `NamesInv` says that clients of one name in the server's list, in a list
  on its way and in a client's contacts are one client, unless their name is in `doubled`;
  `KeyInv` that every key on its way, in the mailbox, in a batch or in an orphan's hands, was made
  by one end of its message for the other. A program in `Cuts` is left out, for a record cut
  in its name bears a shorter one, which may be another's.

### The bytes

`WireProofs` has the five properties of `Wire` for every base above three, all lengths that
fit a field and any number of messages:

* `WireTypeCorrect`, `ContentInSizeCorrect`, `AnnouncedIsSentCorrect` from `WireInv`. Its core
  is `IsRequest`: the content has at most two cells more than a field can count, so that
  the sizes of payload and content have both wrapped, or the payload's alone, or neither,
  and in each case the server reads no more content than the size field says
  (`StoredIsMessage`). `PayloadLengths`, by induction over the messages, gives the sum of the
  sizes for the length of what is packed.
* `PrintedAsPackedCorrect` and `NothingInventedCorrect` from `PrintInv`: the loop stands where a
  record ends and has shown everything before (`InStep`), or it is behind the cell the
  response broke off at (`Behind`), and then only the record with the break may differ
  from what was packed and nothing after it has a type. `PayloadAt` finds a record where it
  was packed, whatever comes behind; `HeaderCame` and `ContentCame` say what is read of a
  record of which a part has come: never a size beyond the message's, so that the loop
  overruns its buffer only among the zeros.

### Loops

The loops are recursive functions over the turns. `Recursion` proves that a recursive
function whose every turn stays in a set is defined and stays in it (`LoopExists`), and
gives induction as a statement about a set of turns (`TurnInduction`), drawn from the
well-foundedness of `<`; the library's own induction theorems take an operator as
a parameter, which the provers cannot instantiate. What a loop does to all lists is
therefore proved, not only checked.

### Only model-checked

`ThreadEnds` and `SocketsClose`, since liveness under fairness and `ENABLED` are out of the
prover's reach, and the counterexamples of the seven runs that end in a violation.

## Not modelled

* The layout of the payloads that have one size (registration, list, public key), names of
  254 or 255 characters, types of message that no client sends, protocol versions (the
  client sends 2, the server answers 1, nobody compares them).
* `accept()` failing before the first client, which ends the server: nothing follows.
* A name that is taken for good when `my.info` cannot be written, as a property: the
  step is in the model (`InfoNotWritten`), and no text says what should become of it.
* Reading `port.info` and `server.info`, the resolver, printing, hexadecimal.
* The ciphers: a message opens with the right key and otherwise throws or, where the
  padding happens to fit, prints garbage.
* The names of received files: `rand()` without a seed is one fixed sequence, which begins
  again with the program.
* Conversions and reading a command (`Utils.cpp`): functions of their arguments without
  state.

## Plan

1. Done: the server with its threads and the failure of `accept()`, the abstract mailbox,
   the clients with their contacts under restarts of either side, cut responses and calls
   the server goes on with, the bytes of a message.
2. Done: proofs of every safety property that the passing runs check, and of the refinement
   of `Mailbox` for the server whose threads switch at calls only.
3. Open: what remains true of messages when threads switch anywhere (`PackedForRequester`
   needs IDs that nobody else holds, but a weaker statement about recipients may not), and
   an abstract specification of the exchange of keys for the clients to implement.
