--------------------------------- MODULE Wire ---------------------------------
(***************************************************************************)
(* The bytes of a message on its way: the request that carries it to the   *)
(* server, what the server stores of it, the response to a pull with all   *)
(* waiting messages one behind the other, and the loop of the client that  *)
(* takes them apart again.  Lengths are written in two digits, the lower   *)
(* one first, where the program has four bytes in that order, and a field  *)
(* nobody computes with is one cell.  One client, one exchange at a time:  *)
(* MessageUServer has what happens when exchanges overlap.                 *)
(***************************************************************************)
EXTENDS Integers, Sequences

CONSTANTS
  Base,          \* values of a digit
  Lengths,       \* lengths of the texts and files the user sends
  FirstIDs,      \* what MessageData.ID may have come to
  MaxMessages    \* bound: messages the user writes

VARIABLES
  stage,         \* what is going on: "idle", "requested", "responded", "printing"
  serial,        \* messages written so far
  ID,            \* MessageData.ID
  request,       \* the request on the wire
  waiting,       \* the stored messages of the client, in dict order
  response,      \* the response on the wire
  packed,        \* history: the messages the response was made from
  buffer,        \* the client's respPayloadBuffer
  pos,           \* the client's messageIterator
  printed,       \* the records the loop has come by
  cut,           \* the connection broke inside the response
  overran        \* the loop has read past the end of the buffer

loopVars == <<pos, printed, overran>>
readVars == <<packed, buffer, cut>>
vars == <<stage, serial, ID, request, waiting, response, readVars, loopVars>>

-----------------------------------------------------------------------------
\* Fields

\* UINT_MAX: the largest length a field holds.
MaxLength == Base * Base - 1

Fits(n) == n <= MaxLength

\* A conversion to uint32_t.
Wrapped(n) == n % (MaxLength + 1)

NoType == 0
AskSymKey == 1
SendSymKey == 2
Textual == {3, 4}

Cell == [field : {"dest", "src", "id", "type", "low", "high", "content", "zero"},
         value : Nat, of : Nat]

Zero == [field |-> "zero", value |-> 0, of |-> 0]

Field(name, value, n) == [field |-> name, value |-> value, of |-> n]

Digits(n, size) ==
  <<Field("low", size % Base, n), Field("high", size \div Base, n)>>

ValueOf(low, high) == low.value + Base * high.value

\* MessageHeaderData and MessageRecordHeaderData.
MessageHeader(n, type, size) ==
  <<Field("dest", 1, n), Field("type", type, n)>> \o Digits(n, size)

MessageHeaderLen == 4

RecordHeader(m) ==
  <<Field("src", 1, m.of), Field("id", m.id, m.of), Field("type", m.type, m.of)>>
    \o Digits(m.of, m.size)

RecordHeaderLen == 5

Content(n, length) == [i \in 1 .. length |-> Field("content", 1, n)]

ASSUME WireAssumption ==
  /\ Base \in Nat /\ Base > 3
  /\ Lengths \subseteq 0 .. MaxLength
  /\ FirstIDs \subseteq Nat \ {0}
  /\ MaxMessages \in Nat

NoMessage == [payloadSize |-> 0, written |-> 0, cells |-> <<>>]
NoAnswer == [code |-> "GENERAL_ERROR_RESP", size |-> 0, cells |-> <<>>]

Init ==
  /\ stage = "idle"
  /\ serial = 0
  /\ ID \in FirstIDs
  /\ request = NoMessage
  /\ waiting = <<>>
  /\ response = NoAnswer
  /\ packed = <<>> /\ buffer = <<>> /\ cut = FALSE
  /\ pos = 0 /\ printed = <<>> /\ overran = FALSE

-----------------------------------------------------------------------------
\* The client sends

\* AES in blocks of two cells with PKCS padding: at least one cell longer.
Encrypted(length) == (length \div 2 + 1) * 2

\* RSA gives one length for every key.
SealedKeyLength == 3

\* The contents a message of a type may have: the limit is compared with the
\* length before the encryption.
ContentLengths(type) ==
  CASE type = AskSymKey -> {0}
    [] type = SendSymKey -> {SealedKeyLength}
    [] type \in Textual -> {Encrypted(n) : n \in {k \in Lengths : Fits(k)}}

\* A mutant: the fields are taken to hold whatever they are given.
WriteMessageUnbounded(type) ==
  /\ stage = "idle"
  /\ serial < MaxMessages
  /\ \E length \in ContentLengths(type) :
       request' = [payloadSize |-> MessageHeaderLen + length,
                   written |-> length,
                   cells |-> MessageHeader(serial + 1, type, length)
                               \o Content(serial + 1, length)]
  /\ serial' = serial + 1
  /\ stage' = "requested"
  /\ UNCHANGED <<ID, waiting, response, readVars, loopVars>>

\* Both sizes are narrowed to their fields, the request is written whole.
WriteMessage(type) ==
  /\ stage = "idle"
  /\ serial < MaxMessages
  /\ \E length \in ContentLengths(type) :
       request' = [payloadSize |-> Wrapped(MessageHeaderLen + length),
                   written |-> length,
                   cells |-> MessageHeader(serial + 1, type, Wrapped(length))
                               \o Content(serial + 1, length)]
  /\ serial' = serial + 1
  /\ stage' = "requested"
  /\ UNCHANGED <<ID, waiting, response, readVars, loopVars>>

-----------------------------------------------------------------------------
\* The server stores

\* recv(payloadSize), once: what has come by then, up to that size.
Chunks == 0 .. IF request.payloadSize < Len(request.cells)
               THEN request.payloadSize ELSE Len(request.cells)

\* Less than a message header: an error, or an exception, and nothing stored.
RefuseMessage ==
  /\ stage = "requested"
  /\ \E n \in Chunks : n < MessageHeaderLen
  /\ stage' = "idle"
  /\ request' = NoMessage
  /\ UNCHANGED <<serial, ID, waiting, response, readVars, loopVars>>

\* A message as it is stored, "written" being the length the client wrote.
Stored(n) ==
  LET cells == SubSeq(request.cells, 1, n) IN
    [id |-> ID, type |-> cells[2].value, size |-> ValueOf(cells[3], cells[4]),
     content |-> SubSeq(cells, MessageHeaderLen + 1, n),
     written |-> request.written, of |-> serial]

\* A mutant: the server reads on to the end of the stream.
StoreMessageToEnd ==
  /\ stage = "requested"
  /\ Len(request.cells) >= MessageHeaderLen
  /\ waiting' = Append(waiting, Stored(Len(request.cells)))
  /\ ID' = ID + 1
  /\ stage' = "idle"
  /\ request' = NoMessage
  /\ UNCHANGED <<serial, response, readVars, loopVars>>

\* The length of the content is not compared with the size in its header.  The
\* client is told that the message was delivered.
StoreMessage ==
  /\ stage = "requested"
  /\ \E n \in Chunks :
       /\ n >= MessageHeaderLen
       /\ waiting' = Append(waiting, Stored(n))
  /\ ID' = ID + 1
  /\ stage' = "idle"
  /\ request' = NoMessage
  /\ UNCHANGED <<serial, response, readVars, loopVars>>

-----------------------------------------------------------------------------
\* The server hands out

\* A mutant: a content is packed as it is stored.
AsItIs(content, size) == content

\* struct.pack of a string: zeros up to the size.
Padded(content, size) ==
  [i \in 1 .. size |-> IF i <= Len(content) THEN content[i] ELSE Zero]

Record(m) == RecordHeader(m) \o Padded(m.content, m.size)

\* A mutant: the headers are not counted.
TotalOfContents(batch) ==
  LET sum[n \in 0 .. Len(batch)] == IF n = 0 THEN 0 ELSE sum[n - 1] + batch[n].size
  IN  sum[Len(batch)]

\* What the first messages of a batch come to: the sizes added up, and the bytes.
Sizes(batch) ==
  LET sum[n \in 0 .. Len(batch)] ==
        IF n = 0 THEN 0 ELSE sum[n - 1] + RecordHeaderLen + batch[n].size
  IN  sum

Payloads(batch) ==
  LET payload[n \in 0 .. Len(batch)] ==
        IF n = 0 THEN <<>> ELSE payload[n - 1] \o Record(batch[n])
  IN  payload

responsePayloadSize(batch) == Sizes(batch)[Len(batch)]

\* struct.pack of a number raises where C would wrap.
Packable(batch) ==
  /\ \A i \in DOMAIN batch : Fits(batch[i].id)
  /\ Fits(responsePayloadSize(batch))

\* A number that does not fit makes the first header on the wire an error, and
\* no client reads on behind it.  The messages are deleted before that.
HandOut ==
  /\ stage = "idle"
  /\ response' = IF Packable(waiting)
                 THEN [code |-> "PULL_WAITING_MESSAGES_RESP",
                       size |-> responsePayloadSize(waiting),
                       cells |-> Payloads(waiting)[Len(waiting)]]
                 ELSE NoAnswer
  /\ packed' = waiting
  /\ waiting' = <<>>
  /\ stage' = "responded"
  /\ UNCHANGED <<serial, ID, request, buffer, cut, loopVars>>

-----------------------------------------------------------------------------
\* The client reads and prints

Forget ==
  /\ stage' = "idle"
  /\ response' = NoAnswer
  /\ packed' = <<>> /\ buffer' = <<>> /\ cut' = FALSE
  /\ pos' = 0 /\ printed' = <<>> /\ overran' = FALSE
  /\ UNCHANGED <<serial, ID, request, waiting>>

\* An error, an empty payload, or a header that did not come whole.
ReadNothing == stage = "responded" /\ Forget

\* The buffer has the announced size before anything is read into it.
ReadPayload ==
  /\ stage = "responded"
  /\ response.size > 0
  /\ \E n \in 0 .. Len(response.cells) :
       /\ cut' = (n < Len(response.cells))
       /\ buffer' = [i \in 1 .. response.size |->
                       IF i <= n THEN response.cells[i] ELSE Zero]
  /\ stage' = "printing"
  /\ UNCHANGED <<serial, ID, request, waiting, response, packed, loopVars>>

AtEnd == pos >= Len(buffer)

HeaderFits == pos + RecordHeaderLen <= Len(buffer)

\* What the loop finds at its iterator.
RecordAt == [id |-> buffer[pos + 2].value, type |-> buffer[pos + 3].value,
             size |-> ValueOf(buffer[pos + 4], buffer[pos + 5])]

RecordFits == HeaderFits /\ pos + RecordHeaderLen + RecordAt.size <= Len(buffer)

\* A mutant: the iterator is not moved past the content.
PrintRecordInPlace ==
  /\ stage = "printing"
  /\ RecordFits
  /\ LET start == pos + RecordHeaderLen IN
       /\ pos' = start
       /\ printed' = Append(printed,
            [id |-> RecordAt.id, type |-> RecordAt.type,
             content |-> SubSeq(buffer, start + 1, start + RecordAt.size)])
  /\ UNCHANGED <<stage, serial, ID, request, waiting, response, readVars, overran>>

\* One turn of the loop, also for a record whose type is invalid.
PrintRecord ==
  /\ stage = "printing"
  /\ RecordFits
  /\ LET start == pos + RecordHeaderLen
         end == start + RecordAt.size
     IN  /\ pos' = end
         /\ printed' = Append(printed,
              [id |-> RecordAt.id, type |-> RecordAt.type,
               content |-> SubSeq(buffer, start + 1, end)])
  /\ UNCHANGED <<stage, serial, ID, request, waiting, response, readVars, overran>>

\* The header or the content lies past the end: undefined, and taken for the end
\* of the loop.
Overrun ==
  /\ stage = "printing"
  /\ ~AtEnd /\ ~RecordFits
  /\ overran' = TRUE
  /\ pos' = Len(buffer)
  /\ UNCHANGED <<stage, serial, ID, request, waiting, response, readVars, printed>>

\* The end of the buffer, or of the handler: a sender nobody knows, a content
\* that cannot be decrypted.
PrintEnd ==
  /\ stage = "printing"
  /\ \/ AtEnd
     \/ printed # <<>> /\ printed[Len(printed)].type \in {SendSymKey} \cup Textual
  /\ Forget

Next ==
  \/ \E type \in {AskSymKey, SendSymKey} \cup Textual : WriteMessage(type)
  \/ RefuseMessage \/ StoreMessage \/ HandOut
  \/ ReadNothing \/ ReadPayload \/ PrintRecord \/ Overrun \/ PrintEnd

Spec == Init /\ [][Next]_vars

-----------------------------------------------------------------------------

\* The fields on the wire hold numbers of their width, the buffer cells.
TypeOK ==
  /\ stage \in {"idle", "requested", "responded", "printing"}
  /\ serial \in 0 .. MaxMessages
  /\ ID \in Nat
  /\ Fits(request.payloadSize)
  /\ \A i \in DOMAIN request.cells : request.cells[i] \in Cell
  /\ \A i \in DOMAIN waiting : Fits(waiting[i].size)
  /\ Fits(response.size)
  /\ \A i \in DOMAIN buffer : buffer[i] \in Cell
  /\ pos \in 0 .. Len(buffer)
  /\ cut \in BOOLEAN /\ overran \in BOOLEAN

\* No message has more content than its header says, also when both sizes of a
\* large file have wrapped: else struct.pack would cut the content off in the
\* middle of what the server has.
ContentInSize == \A i \in DOMAIN waiting : Len(waiting[i].content) <= waiting[i].size

\* The size in the header of a pull response is the size of what follows it,
\* whatever part of their contents the server has stored (getWaitingMessages adds
\* up the announced sizes and packs the contents).
AnnouncedIsSent == response.size = Len(response.cells)

AsPacked(m) == [id |-> m.id, type |-> m.type, content |-> Padded(m.content, m.size)]

\* A response that came whole is taken apart into the messages it was made from:
\* the loop ends exactly at its end, and a message stored in part does not shift
\* the ones behind it.
PrintedAsPacked ==
  stage = "printing" /\ ~cut =>
    /\ ~overran
    /\ AtEnd => printed = [i \in DOMAIN packed |-> AsPacked(packed[i])]

CutShort(r, m) ==
  /\ r.id = m.id /\ r.type = m.type
  /\ Len(r.content) <= Len(m.content)
  /\ \A i \in DOMAIN r.content : r.content[i] \in {m.content[i], Zero}

\* A response that broke off anywhere, inside a number too, shows no message that
\* was not sent: the valid ones are those that came, in order, and only the last
\* may lack an end (the loop trusts the zeros behind the cut).
NothingInvented ==
  \A i \in DOMAIN printed :
    printed[i].type # NoType =>
      /\ i <= Len(packed)
      /\ \A j \in 1 .. i - 1 : printed[j] = AsPacked(packed[j])
      /\ CutShort(printed[i], AsPacked(packed[i]))

-----------------------------------------------------------------------------
\* "Receicing success response if the text file saved in the server successfuly."
\* (MessageUClient.h): what the server stored, and told its sender so, is all the
\* sender wrote.
ContentAsSent == \A i \in DOMAIN waiting : Len(waiting[i].content) = waiting[i].written
===============================================================================
