------------------------------ MODULE WireProofs ------------------------------
(***************************************************************************)
(* Theorems about the bytes of messages: what the server packs and the     *)
(* client takes apart, whatever the lengths and wherever a response        *)
(* breaks off.                                                             *)
(***************************************************************************)
EXTENDS Wire, Recursion, SequenceTheorems

-----------------------------------------------------------------------------
\* Lengths and their digits

LEMMA Widths ==
  /\ Base \in Nat /\ Base > 3
  /\ MaxLength \in Nat /\ MaxLength + 1 = Base * Base /\ MaxLength > 14
<1>1. Base \in Nat /\ Base > 3 /\ Base * Base \in Nat
  BY WireAssumption
<1>2. Base * Base > 15
  BY <1>1
<1> QED
  BY <1>1, <1>2 DEF MaxLength

Digit == 0 .. Base - 1

LEMMA ValueFits ==
  ASSUME NEW low \in Digit, NEW high \in Digit
  PROVE  low + Base * high \in 0 .. MaxLength
<1>1. /\ Base \in Nat /\ low \in Nat /\ high \in Nat /\ low <= Base - 1 /\ high <= Base - 1
      /\ MaxLength = Base * Base - 1
  BY Widths DEF Digit
<1>2. Base * high <= Base * (Base - 1) /\ Base * high \in Nat
  BY <1>1
<1>3. Base * (Base - 1) = Base * Base - Base
  BY <1>1
<1> QED
  BY <1>1, <1>2, <1>3, Widths

\* The two digits of a length that fits are digits, and stand for the length.
LEMMA DigitsHold ==
  ASSUME NEW size \in 0 .. MaxLength
  PROVE  /\ size % Base \in Digit /\ size \div Base \in Digit
         /\ size = (size % Base) + Base * (size \div Base)
<1>1. /\ size \in Nat /\ Base \in Nat /\ Base > 0 /\ size < Base * Base
  BY Widths
<1>2. /\ size % Base \in 0 .. Base - 1 /\ size \div Base \in Nat
      /\ size = (size % Base) + Base * (size \div Base)
  BY <1>1
<1>3. size \div Base < Base
  <2> SUFFICES ASSUME size \div Base >= Base PROVE FALSE
    BY <1>1, <1>2
  <2>1. Base * (size \div Base) >= Base * Base
    BY <1>1, <1>2
  <2> QED
    BY <1>1, <1>2, <2>1
<1> QED
  BY <1>1, <1>2, <1>3 DEF Digit

\* A length that has wrapped: the longest content is longer than a field by two.
LEMMA WrappedLengths ==
  ASSUME NEW n \in Nat, n <= MaxLength + 6
  PROVE  /\ Wrapped(n) \in 0 .. MaxLength
         /\ Wrapped(n) = IF n <= MaxLength THEN n ELSE n - (MaxLength + 1)
<1>1. MaxLength \in Nat /\ MaxLength > 14
  BY Widths
<1> HIDE DEF MaxLength
<1> QED
  BY <1>1 DEF Wrapped

LEMMA EncryptedLengths ==
  ASSUME NEW n \in 0 .. MaxLength
  PROVE  Encrypted(n) \in Nat /\ Encrypted(n) <= MaxLength + 2
<1>1. n \in Nat /\ n <= MaxLength /\ MaxLength \in Nat
  BY Widths
<1> HIDE DEF MaxLength
<1> QED
  BY <1>1 DEF Encrypted


-----------------------------------------------------------------------------
\* Requests, and what is stored of them

MessageCells(n, type, length) ==
  MessageHeader(n, type, Wrapped(length)) \o Content(n, length)

LEMMA FieldIsCell ==
  ASSUME NEW name \in {"dest", "src", "id", "type", "low", "high", "content", "zero"},
         NEW value \in Nat, NEW n \in Nat
  PROVE  Field(name, value, n) \in Cell
BY DEF Field, Cell

\* The message of a request: its size and content may have wrapped, its size field
\* holds what its payload's holds, less the header, or both have wrapped.
IsRequest(r) ==
  /\ r.payloadSize \in 0 .. MaxLength /\ r.written \in Nat /\ r.cells \in Seq(Cell)
  /\ \E length \in 0 .. MaxLength + 2 :
       /\ r.payloadSize = Wrapped(MessageHeaderLen + length)
       /\ Len(r.cells) = MessageHeaderLen + length
       /\ r.cells[3].value \in Digit /\ r.cells[4].value \in Digit
       /\ ValueOf(r.cells[3], r.cells[4]) = Wrapped(length)

LEMMA RequestIsWritten ==
  ASSUME NEW n \in Nat, NEW type \in Nat, NEW length \in 0 .. MaxLength + 2, NEW r,
         r = [payloadSize |-> Wrapped(MessageHeaderLen + length), written |-> length,
              cells |-> MessageCells(n, type, length)]
  PROVE  IsRequest(r)
<1> DEFINE size == Wrapped(length)
           low == size % Base
           high == size \div Base
           header == <<Field("dest", 1, n), Field("type", type, n), Field("low", low, n),
                       Field("high", high, n)>>
           content == Content(n, length)
<1>0. length \in Nat /\ length <= MaxLength + 2 /\ MaxLength \in Nat
  BY Widths
<1>1. size \in 0 .. MaxLength /\ Wrapped(MessageHeaderLen + length) \in 0 .. MaxLength
  <2> HIDE DEF MaxLength
  <2> QED
    BY <1>0, WrappedLengths DEF MessageHeaderLen
<1>2. low \in Digit /\ high \in Digit /\ size = low + Base * high
  BY <1>1, DigitsHold
<1>3. low \in Nat /\ high \in Nat
  BY <1>2, Widths DEF Digit
<1> HIDE DEF low, high, size
<1>4. header \in Seq(Cell) /\ Len(header) = 4
  BY <1>3, FieldIsCell
<1>5. content \in Seq(Cell) /\ Len(content) = length
  <2>1. Field("content", 1, n) \in Cell
    BY FieldIsCell
  <2> QED
    BY <1>0, <2>1 DEF Content
<1>6. r.cells = header \o content
  BY DEF MessageCells, MessageHeader, Digits, low, high, size
<1>7. header[3].value = low /\ header[4].value = high
  BY DEF Field
<1> HIDE DEF header, content
<1>8. /\ header \o content \in Seq(Cell)
      /\ Len(header \o content) = 4 + length
      /\ (header \o content)[3] = header[3] /\ (header \o content)[4] = header[4]
  <2>1. /\ header \o content \in Seq(Cell)
        /\ Len(header \o content) = Len(header) + Len(content)
        /\ \A i \in 1 .. Len(header) + Len(content) :
             (header \o content)[i] =
               IF i <= Len(header) THEN header[i] ELSE content[i - Len(header)]
    BY <1>4, <1>5, ConcatProperties
  <2>2. 3 \in 1 .. 4 + length /\ 4 \in 1 .. 4 + length
    BY <1>0
  <2> QED
    BY <1>4, <1>5, <2>1, <2>2
<1>9. ValueOf(r.cells[3], r.cells[4]) = Wrapped(length)
  BY <1>2, <1>6, <1>7, <1>8 DEF ValueOf, size
<1>10. r.payloadSize = Wrapped(MessageHeaderLen + length) /\ r.written = length
  OBVIOUS
<1> QED
  BY <1>0, <1>1, <1>2, <1>6, <1>7, <1>8, <1>9, <1>10 DEF IsRequest, MessageHeaderLen

\* What the user sends has at most two cells more than a field can count.
LEMMA ContentLengthsBound ==
  ASSUME NEW type \in {AskSymKey, SendSymKey} \cup Textual, NEW length \in ContentLengths(type)
  PROVE  length \in 0 .. MaxLength + 2
<1>0. MaxLength \in Nat /\ MaxLength > 14
  BY Widths
<1>1. CASE type = AskSymKey
  BY <1>0, <1>1 DEF ContentLengths, AskSymKey, SendSymKey, Textual
<1>2. CASE type = SendSymKey
  BY <1>0, <1>2 DEF ContentLengths, AskSymKey, SendSymKey, Textual, SealedKeyLength
<1>3. CASE type \in Textual
  <2>1. PICK n \in Lengths : length = Encrypted(n)
    BY <1>3 DEF ContentLengths, AskSymKey, SendSymKey, Textual
  <2>2. n \in 0 .. MaxLength
    BY <2>1, WireAssumption
  <2> QED
    BY <1>0, <2>1, <2>2, EncryptedLengths
<1> QED
  BY <1>1, <1>2, <1>3

StoredMessage ==
  [id : Nat, type : Nat, size : 0 .. MaxLength, content : Seq(Cell), written : Nat, of : Nat]

\* The message is stored with the length its header says, and no more content.
LEMMA StoredIsMessage ==
  ASSUME IsRequest(request), ID \in Nat, serial \in Nat, NEW n \in Chunks, n >= MessageHeaderLen
  PROVE  Stored(n) \in StoredMessage /\ Len(Stored(n).content) <= Stored(n).size
<1> DEFINE cells == request.cells
           read == SubSeq(cells, 1, n)
<1>1. PICK length \in 0 .. MaxLength + 2 :
        /\ request.payloadSize = Wrapped(4 + length)
        /\ Len(cells) = 4 + length
        /\ cells[3].value \in Digit /\ cells[4].value \in Digit
        /\ ValueOf(cells[3], cells[4]) = Wrapped(length)
  BY DEF IsRequest, MessageHeaderLen
<1>2. MaxLength \in Nat /\ MaxLength > 14 /\ cells \in Seq(Cell)
  BY Widths DEF IsRequest
<1>3. n \in Nat /\ n >= 4 /\ n <= Wrapped(4 + length) /\ n <= 4 + length
  <2>1. request.payloadSize \in Nat
    BY <1>2 DEF IsRequest
  <2> HIDE DEF MaxLength
  <2> QED
    BY <1>1, <1>2, <2>1 DEF Chunks, MessageHeaderLen
<1>4. n - 4 <= Wrapped(length) /\ Wrapped(length) \in 0 .. MaxLength
  <2> HIDE DEF MaxLength
  <2>1. /\ length \in Nat /\ length <= MaxLength + 6
        /\ 4 + length \in Nat /\ 4 + length <= MaxLength + 6
    BY <1>1, <1>2
  <2>2. /\ Wrapped(length) \in 0 .. MaxLength
        /\ Wrapped(length) = IF length <= MaxLength THEN length ELSE length - (MaxLength + 1)
    BY <2>1, WrappedLengths
  <2>3. Wrapped(4 + length) =
          IF 4 + length <= MaxLength THEN 4 + length ELSE 4 + length - (MaxLength + 1)
    <3> DEFINE payload == 4 + length
    <3>1. payload \in Nat /\ payload <= MaxLength + 6
      BY <2>1
    <3> HIDE DEF payload
    <3>2. Wrapped(payload) =
            IF payload <= MaxLength THEN payload ELSE payload - (MaxLength + 1)
      BY <3>1, WrappedLengths
    <3> QED
      BY <1>2, <2>1, <3>2 DEF payload
  <2> QED
    BY <1>2, <1>3, <2>1, <2>2, <2>3
<1>5. n <= Len(cells)
  BY <1>1, <1>3
<1> HIDE DEF cells
<1>6. /\ read \in Seq(Cell) /\ Len(read) = n
      /\ read[2] = cells[2] /\ read[3] = cells[3] /\ read[4] = cells[4]
  BY <1>2, <1>3, <1>5
<1>7. SubSeq(read, 5, n) \in Seq(Cell) /\ Len(SubSeq(read, 5, n)) = n - 4
  <2> HIDE DEF read
  <2> QED
    BY <1>3, <1>6
<1>8. read[2].value \in Nat
  <2> HIDE DEF read
  <2>1. read[2] \in Cell
    BY <1>3, <1>6
  <2> QED
    BY <2>1 DEF Cell
<1>9. Stored(n) = [id |-> ID, type |-> read[2].value, size |-> ValueOf(read[3], read[4]),
                   content |-> SubSeq(read, 5, n), written |-> request.written, of |-> serial]
  BY DEF Stored, MessageHeaderLen, cells
<1>10. request.written \in Nat
  BY DEF IsRequest
<1> HIDE DEF read
<1> QED
  BY <1>1, <1>4, <1>6, <1>7, <1>8, <1>9, <1>10 DEF StoredMessage


-----------------------------------------------------------------------------
\* The payload of a response: its sizes and its bytes

\* The cells of a record: its header, then its content, filled up.
IsRecord(r, m) ==
  /\ r \in Seq(Cell) /\ Len(r) = RecordHeaderLen + m.size
  /\ r[2].value = m.id /\ r[3].value = m.type
  /\ r[4].value \in Digit /\ r[5].value \in Digit /\ ValueOf(r[4], r[5]) = m.size
  /\ \A i \in 1 .. m.size : r[RecordHeaderLen + i] = Padded(m.content, m.size)[i]

LEMMA PaddedIsCells ==
  ASSUME NEW content \in Seq(Cell), NEW size \in Nat
  PROVE  /\ Padded(content, size) \in Seq(Cell) /\ Len(Padded(content, size)) = size
         /\ \A i \in 1 .. size :
              Padded(content, size)[i] = IF i <= Len(content) THEN content[i] ELSE Zero
<1>1. Zero \in Cell
  BY DEF Zero, Cell
<1>2. \A i \in 1 .. size : i <= Len(content) => content[i] \in Cell
  OBVIOUS
<1>3. Padded(content, size) \in [1 .. size -> Cell]
  BY <1>1, <1>2 DEF Padded
<1> QED
  BY <1>3 DEF Padded

LEMMA RecordIsPacked ==
  ASSUME NEW m \in StoredMessage
  PROVE  IsRecord(Record(m), m)
<1> DEFINE low == m.size % Base
           high == m.size \div Base
           header == <<Field("src", 1, m.of), Field("id", m.id, m.of),
                       Field("type", m.type, m.of), Field("low", low, m.of),
                       Field("high", high, m.of)>>
           content == Padded(m.content, m.size)
           record == header \o content
<1>1. /\ m.id \in Nat /\ m.type \in Nat /\ m.of \in Nat /\ m.size \in 0 .. MaxLength
      /\ m.size \in Nat /\ m.content \in Seq(Cell)
  BY Widths DEF StoredMessage
<1>2. low \in Digit /\ high \in Digit /\ m.size = low + Base * high
  BY <1>1, DigitsHold
<1>3. low \in Nat /\ high \in Nat
  BY <1>2, Widths DEF Digit
<1> HIDE DEF low, high
<1>4. header \in Seq(Cell) /\ Len(header) = 5
  BY <1>1, <1>3, FieldIsCell
<1>5. content \in Seq(Cell) /\ Len(content) = m.size
  BY <1>1, PaddedIsCells
<1>6. Record(m) = record
  <2>1. ASSUME NEW a, NEW b, NEW c, NEW d, NEW e
        PROVE  <<a, b, c>> \o <<d, e>> = <<a, b, c, d, e>>
    <3> DEFINE S == {a, b, c, d, e}
               s == <<a, b, c>>
               t == <<d, e>>
    <3>1. s \in Seq(S) /\ t \in Seq(S) /\ Len(s) = 3 /\ Len(t) = 2
      OBVIOUS
    <3>2. /\ s \o t \in Seq(S) /\ Len(s \o t) = 5
          /\ \A i \in 1 .. 5 : (s \o t)[i] = IF i <= 3 THEN s[i] ELSE t[i - 3]
      <4> HIDE DEF S, s, t
      <4>1. /\ s \o t \in Seq(S) /\ Len(s \o t) = Len(s) + Len(t)
            /\ \A i \in 1 .. Len(s) + Len(t) :
                 (s \o t)[i] = IF i <= Len(s) THEN s[i] ELSE t[i - Len(s)]
        BY <3>1, ConcatProperties
      <4>2. Len(s) = 3 /\ Len(s) + Len(t) = 5
        BY <3>1
      <4> QED
        BY <4>1, <4>2
    <3>3. \A i \in 1 .. 5 : (s \o t)[i] = <<a, b, c, d, e>>[i]
      <4>1. \A i \in 1 .. 5 : i = 1 \/ i = 2 \/ i = 3 \/ i = 4 \/ i = 5
        OBVIOUS
      <4> QED
        BY <3>2, <4>1
    <3>4. <<a, b, c, d, e>> \in Seq(S) /\ Len(<<a, b, c, d, e>>) = 5
      OBVIOUS
    <3> HIDE DEF s, t, S
    <3>5. s \o t = <<a, b, c, d, e>>
      BY <3>2, <3>3, <3>4, SeqEqual
    <3> QED
      BY <3>5 DEF s, t
  <2> QED
    BY <2>1 DEF Record, RecordHeader, Digits, low, high
<1>7. /\ header[2].value = m.id /\ header[3].value = m.type
      /\ header[4].value = low /\ header[5].value = high
  BY DEF Field
<1> HIDE DEF header, content
<1>8. /\ record \in Seq(Cell)
      /\ Len(record) = Len(header) + Len(content)
      /\ \A i \in 1 .. Len(header) + Len(content) :
           record[i] =
             IF i <= Len(header) THEN header[i] ELSE content[i - Len(header)]
  BY <1>4, <1>5, ConcatProperties
<1>9. \A i \in 1 .. 5 : record[i] = header[i]
  BY <1>1, <1>4, <1>5, <1>8
<1>10. ASSUME NEW i \in 1 .. m.size  PROVE record[5 + i] = content[i]
  <2>1. 5 + i \in 1 .. 5 + m.size /\ ~(5 + i <= 5) /\ (5 + i) - 5 = i
    BY <1>1
  <2> QED
    BY <1>4, <1>5, <1>8, <2>1
<1> HIDE DEF record
<1>11. ValueOf(Record(m)[4], Record(m)[5]) = m.size
  <2>1. Record(m)[4] = header[4] /\ Record(m)[5] = header[5]
    <3>1. 4 \in 1 .. 5 /\ 5 \in 1 .. 5
      OBVIOUS
    <3> QED
      BY <1>6, <1>9, <3>1
  <2> QED
    BY <1>2, <1>7, <2>1 DEF ValueOf
<1> QED
  BY <1>2, <1>4, <1>5, <1>6, <1>7, <1>8, <1>9, <1>10, <1>11 DEF IsRecord, RecordHeaderLen,
     content

\* What the loops over the messages of a response come to, turn by turn.
LEMMA SizesAdd ==
  ASSUME NEW batch \in Seq(StoredMessage)
  PROVE  /\ Sizes(batch) \in [0 .. Len(batch) -> Nat]
         /\ Sizes(batch)[0] = 0
         /\ \A n \in 1 .. Len(batch) :
              Sizes(batch)[n] = Sizes(batch)[n - 1] + RecordHeaderLen + batch[n].size
<1> DEFINE N == Len(batch)
           turn(n, t) == t + RecordHeaderLen + batch[n].size
           Turns(f) == [n \in 0 .. N |-> IF n = 0 THEN 0 ELSE turn(n, f[n - 1])]
           step == [n \in 1 .. N |-> [t \in Nat |-> turn(n, t)]]
           sum == CHOOSE f : f = Turns(f)
<1>1. N \in Nat /\ DOMAIN batch = 1 .. N
  OBVIOUS
<1>2. \A n \in 1 .. N : batch[n].size \in Nat
  <2>1. \A m \in StoredMessage : m.size \in Nat
    BY Widths DEF StoredMessage
  <2> QED
    BY <1>1, <2>1
<1>3. Sizes(batch) = sum
  BY DEF Sizes
<1>4. \A n \in 1 .. N : \A t \in Nat : turn(n, t) \in Nat
  BY <1>2 DEF RecordHeaderLen
<1> HIDE DEF N, turn
<1>5. step \in [1 .. N -> [Nat -> Nat]]
  BY <1>4
<1>6. PICK f \in [0 .. N -> Nat] : f[0] = 0 /\ \A n \in 1 .. N : f[n] = step[n][f[n - 1]]
  <2> HIDE DEF step
  <2>1. Loops(Nat, N, 0, step) # {}
    BY <1>1, <1>5, LoopExists
  <2> QED
    BY <2>1 DEF Loops
<1>7. \A n \in 1 .. N : step[n][f[n - 1]] = turn(n, f[n - 1])
  BY <1>1
<1> HIDE DEF step
<1>8. f = Turns(f)
  BY <1>6, <1>7
<1>9. \E g : g = Turns(g)
  BY <1>8
<1>10. sum = Turns(sum)
  BY <1>9
<1> HIDE DEF sum
<1>11. sum[0] = 0 /\ DOMAIN sum = 0 .. N /\ \A n \in 1 .. N : sum[n] = turn(n, sum[n - 1])
  BY <1>1, <1>10
<1>12. 0 .. N \subseteq {n \in 0 .. N : sum[n] \in Nat}
  <2> DEFINE T == {n \in 0 .. N : sum[n] \in Nat}
  <2>1. 0 \in T
    BY <1>1, <1>11
  <2>2. ASSUME NEW n \in 1 .. N, n - 1 \in T  PROVE n \in T
    BY <1>4, <1>11, <2>2
  <2> HIDE DEF T
  <2>3. 0 .. N \subseteq T
    BY <1>1, <2>1, <2>2, TurnInduction
  <2> QED
    BY <2>3 DEF T
<1>13. sum \in [0 .. N -> Nat]
  BY <1>10, <1>11, <1>12
<1> QED
  BY <1>3, <1>11, <1>13 DEF N, turn

LEMMA PayloadsAdd ==
  ASSUME NEW batch \in Seq(StoredMessage)
  PROVE  /\ Payloads(batch) \in [0 .. Len(batch) -> Seq(Cell)]
         /\ Payloads(batch)[0] = <<>>
         /\ \A n \in 1 .. Len(batch) :
              Payloads(batch)[n] = Payloads(batch)[n - 1] \o Record(batch[n])
<1> DEFINE N == Len(batch)
           S == Seq(Cell)
           start == <<>>
           turn(n, t) == t \o Record(batch[n])
           Turns(f) == [n \in 0 .. N |-> IF n = 0 THEN start ELSE turn(n, f[n - 1])]
           step == [n \in 1 .. N |-> [t \in S |-> turn(n, t)]]
           payload == CHOOSE f : f = Turns(f)
<1>1. N \in Nat /\ DOMAIN batch = 1 .. N /\ start \in S
  OBVIOUS
<1>2. \A n \in 1 .. N : Record(batch[n]) \in S
  <2>1. \A n \in 1 .. N : batch[n] \in StoredMessage
    BY <1>1
  <2> QED
    BY <2>1, RecordIsPacked DEF IsRecord
<1>3. Payloads(batch) = payload
  BY DEF Payloads
<1>4. \A n \in 1 .. N : \A t \in S : turn(n, t) \in S
  BY <1>2, ConcatProperties
<1> HIDE DEF N, turn, start, S
<1>5. step \in [1 .. N -> [S -> S]]
  BY <1>4
<1>6. PICK f \in [0 .. N -> S] : f[0] = start /\ \A n \in 1 .. N : f[n] = step[n][f[n - 1]]
  <2> HIDE DEF step
  <2>1. Loops(S, N, start, step) # {}
    BY <1>1, <1>5, LoopExists
  <2> QED
    BY <2>1 DEF Loops
<1>7. \A n \in 1 .. N : step[n][f[n - 1]] = turn(n, f[n - 1])
  BY <1>1
<1> HIDE DEF step
<1>8. f = Turns(f)
  BY <1>6, <1>7
<1>9. \E g : g = Turns(g)
  BY <1>8
<1>10. payload = Turns(payload)
  BY <1>9
<1> HIDE DEF payload
<1>11. /\ payload[0] = start /\ DOMAIN payload = 0 .. N
       /\ \A n \in 1 .. N : payload[n] = turn(n, payload[n - 1])
  BY <1>1, <1>10
<1>12. 0 .. N \subseteq {n \in 0 .. N : payload[n] \in S}
  <2> DEFINE T == {n \in 0 .. N : payload[n] \in S}
  <2>1. 0 \in T
    BY <1>1, <1>11
  <2>2. ASSUME NEW n \in 1 .. N, n - 1 \in T  PROVE n \in T
    BY <1>4, <1>11, <2>2
  <2> HIDE DEF T
  <2>3. 0 .. N \subseteq T
    BY <1>1, <2>1, <2>2, TurnInduction
  <2> QED
    BY <2>3 DEF T
<1>13. payload \in [0 .. N -> S]
  BY <1>10, <1>11, <1>12
<1> QED
  BY <1>3, <1>11, <1>13 DEF N, turn, start, S


\* A turn of both loops.
LEMMA RecordTurn ==
  ASSUME NEW batch \in Seq(StoredMessage), NEW n \in 1 .. Len(batch)
  PROVE  /\ batch[n] \in StoredMessage /\ batch[n].size \in Nat
         /\ Record(batch[n]) \in Seq(Cell)
         /\ Len(Record(batch[n])) = RecordHeaderLen + batch[n].size
         /\ Payloads(batch)[n - 1] \in Seq(Cell) /\ Payloads(batch)[n] \in Seq(Cell)
         /\ Len(Payloads(batch)[n]) = Len(Payloads(batch)[n - 1]) + Len(Record(batch[n]))
         /\ \A x \in 1 .. Len(Payloads(batch)[n - 1]) + Len(Record(batch[n])) :
              Payloads(batch)[n][x] =
                IF x <= Len(Payloads(batch)[n - 1]) THEN Payloads(batch)[n - 1][x]
                ELSE Record(batch[n])[x - Len(Payloads(batch)[n - 1])]
         /\ Sizes(batch)[n - 1] \in Nat /\ Sizes(batch)[n] \in Nat
         /\ Sizes(batch)[n] = Sizes(batch)[n - 1] + RecordHeaderLen + batch[n].size
<1> DEFINE p == Payloads(batch)[n - 1]
           r == Record(batch[n])
<1>1. n \in 0 .. Len(batch) /\ n - 1 \in 0 .. Len(batch) /\ batch[n] \in StoredMessage
  OBVIOUS
<1>2. batch[n].size \in Nat
  BY <1>1, Widths DEF StoredMessage
<1>3. p \in Seq(Cell) /\ Payloads(batch)[n] \in Seq(Cell) /\ Payloads(batch)[n] = p \o r
  BY <1>1, PayloadsAdd
<1>4. r \in Seq(Cell) /\ Len(r) = RecordHeaderLen + batch[n].size
  BY <1>1, RecordIsPacked DEF IsRecord
<1>5. /\ Sizes(batch)[n - 1] \in Nat /\ Sizes(batch)[n] \in Nat
      /\ Sizes(batch)[n] = Sizes(batch)[n - 1] + RecordHeaderLen + batch[n].size
  BY <1>1, SizesAdd
<1> HIDE DEF p, r
<1>6. /\ Len(p \o r) = Len(p) + Len(r)
      /\ \A x \in 1 .. Len(p) + Len(r) :
           (p \o r)[x] = IF x <= Len(p) THEN p[x] ELSE r[x - Len(p)]
  BY <1>3, <1>4, ConcatProperties
<1>7. /\ Len(Payloads(batch)[n]) = Len(p) + Len(r)
      /\ \A x \in 1 .. Len(p) + Len(r) :
           Payloads(batch)[n][x] = IF x <= Len(p) THEN p[x] ELSE r[x - Len(p)]
  BY <1>3, <1>6
<1> QED
  BY <1>1, <1>2, <1>3, <1>4, <1>5, <1>7 DEF p, r

LEMMA Regrouped == \A a, b, c \in Nat : a + b + c = a + (b + c) /\ b + c \in Nat
OBVIOUS

\* The bytes are as many as the sizes say.
LEMMA PayloadLengths ==
  ASSUME NEW batch \in Seq(StoredMessage), NEW n \in 0 .. Len(batch)
  PROVE  Len(Payloads(batch)[n]) = Sizes(batch)[n]
<1> DEFINE N == Len(batch)
           Equal(k) == Len(Payloads(batch)[k]) = Sizes(batch)[k]
           T == {k \in 0 .. N : Equal(k)}
<1>1. N \in Nat
  OBVIOUS
<1>2. Equal(0)
  <2>1. Payloads(batch)[0] = <<>> /\ Sizes(batch)[0] = 0
    BY SizesAdd, PayloadsAdd
  <2> QED
    BY <2>1
<1>3. ASSUME NEW k \in 1 .. N, Equal(k - 1)  PROVE Equal(k)
  <2>1. /\ Len(Record(batch[k])) = RecordHeaderLen + batch[k].size
        /\ Len(Payloads(batch)[k]) = Len(Payloads(batch)[k - 1]) + Len(Record(batch[k]))
        /\ Sizes(batch)[k] = Sizes(batch)[k - 1] + RecordHeaderLen + batch[k].size
        /\ Sizes(batch)[k - 1] \in Nat /\ batch[k].size \in Nat
    BY RecordTurn
  <2>2. Len(Payloads(batch)[k - 1]) = Sizes(batch)[k - 1]
    BY <1>3
  <2>3. Len(Payloads(batch)[k]) = Sizes(batch)[k - 1] + (RecordHeaderLen + batch[k].size)
    BY <2>1, <2>2
  <2>4. Sizes(batch)[k] = Sizes(batch)[k - 1] + (RecordHeaderLen + batch[k].size)
    <3>1. RecordHeaderLen \in Nat
      BY DEF RecordHeaderLen
    <3> QED
      BY <2>1, <3>1, Regrouped
  <2> QED
    BY <2>3, <2>4
<1> HIDE DEF Equal
<1>4. 0 \in T
  BY <1>1, <1>2
<1>5. \A k \in 1 .. N : k - 1 \in T => k \in T
  BY <1>1, <1>3
<1> HIDE DEF T
<1>6. 0 .. N \subseteq T
  BY <1>1, <1>4, <1>5, TurnInduction
<1> QED
  BY <1>6 DEF T, Equal

\* Where a record ends: behind its header and content, and before the end.
LEMMA SizesGrow ==
  ASSUME NEW batch \in Seq(StoredMessage), NEW n \in 1 .. Len(batch),
         NEW k \in n .. Len(batch)
  PROVE  /\ Sizes(batch)[n - 1] \in Nat /\ Sizes(batch)[n] \in Nat /\ Sizes(batch)[k] \in Nat
         /\ Sizes(batch)[n] = Sizes(batch)[n - 1] + RecordHeaderLen + batch[n].size
         /\ Sizes(batch)[n] <= Sizes(batch)[k]
<1> DEFINE N == Len(batch)
           Grown(j) == j >= n => Sizes(batch)[n] <= Sizes(batch)[j]
           T == {j \in 0 .. N : Grown(j)}
<1>1. N \in Nat /\ n \in 1 .. N /\ k \in 0 .. N /\ k >= n
  OBVIOUS
<1>2. \A j \in 0 .. N : Sizes(batch)[j] \in Nat
  BY SizesAdd
<1>3. Grown(0)
  BY <1>1
<1>4. ASSUME NEW j \in 1 .. N, Grown(j - 1)  PROVE Grown(j)
  <2>1. /\ Sizes(batch)[j] = Sizes(batch)[j - 1] + RecordHeaderLen + batch[j].size
        /\ Sizes(batch)[j - 1] \in Nat /\ batch[j].size \in Nat
    BY RecordTurn
  <2>2. Sizes(batch)[j - 1] <= Sizes(batch)[j]
    BY <2>1 DEF RecordHeaderLen
  <2>3. Sizes(batch)[n] \in Nat /\ Sizes(batch)[j] \in Nat
    BY <1>1, <1>2
  <2>4. CASE n = j
    BY <2>3, <2>4
  <2>5. CASE n <= j - 1
    BY <1>4, <2>1, <2>2, <2>3, <2>5
  <2>6. CASE ~(j >= n)
    BY <2>6
  <2> QED
    BY <1>1, <2>4, <2>5, <2>6
<1>5. Sizes(batch)[n] = Sizes(batch)[n - 1] + RecordHeaderLen + batch[n].size
  BY SizesAdd
<1> HIDE DEF Grown
<1>6. 0 \in T
  BY <1>1, <1>3
<1>7. \A j \in 1 .. N : j - 1 \in T => j \in T
  BY <1>1, <1>4
<1> HIDE DEF T
<1>8. k \in T
  BY <1>1, <1>6, <1>7, TurnInduction
<1>9. n - 1 \in 0 .. N /\ n \in 0 .. N
  BY <1>1
<1> QED
  BY <1>1, <1>2, <1>5, <1>8, <1>9 DEF T, Grown

\* A record stays where it was packed, whatever is packed behind it.
LEMMA PayloadAt ==
  ASSUME NEW batch \in Seq(StoredMessage), NEW n \in 1 .. Len(batch),
         NEW k \in n .. Len(batch), NEW i \in 1 .. RecordHeaderLen + batch[n].size
  PROVE  Payloads(batch)[k][Sizes(batch)[n - 1] + i] = Record(batch[n])[i]
<1> DEFINE N == Len(batch)
           at == Sizes(batch)[n - 1] + i
           There(j) == j >= n => Payloads(batch)[j][at] = Record(batch[n])[i]
           T == {j \in 0 .. N : There(j)}
<1>1. N \in Nat /\ n \in 1 .. N /\ k \in 0 .. N /\ k >= n
  OBVIOUS
<1>2. /\ Sizes(batch)[n - 1] \in Nat /\ batch[n].size \in Nat
      /\ i \in Nat /\ i >= 1 /\ i <= RecordHeaderLen + batch[n].size
  <2>1. Sizes(batch)[n - 1] \in Nat /\ batch[n].size \in Nat
    BY RecordTurn
  <2> QED
    BY <2>1 DEF RecordHeaderLen
<1>3. There(0)
  BY <1>1
<1>4. ASSUME NEW j \in 1 .. N, There(j - 1)  PROVE There(j)
  <2> DEFINE len == Len(Payloads(batch)[j - 1])
             more == Len(Record(batch[j]))
  <2>1. /\ more = RecordHeaderLen + batch[j].size
        /\ \A x \in 1 .. len + more :
             Payloads(batch)[j][x] = IF x <= len THEN Payloads(batch)[j - 1][x]
                                     ELSE Record(batch[j])[x - len]
        /\ batch[j].size \in Nat /\ Sizes(batch)[j - 1] \in Nat
    BY RecordTurn
  <2>2. len = Sizes(batch)[j - 1]
    <3>1. j - 1 \in 0 .. Len(batch)
      BY <1>1
    <3> QED
      BY <3>1, PayloadLengths
  <2>3. len \in Nat /\ more \in Nat
    BY <2>1, <2>2 DEF RecordHeaderLen
  <2>4. at = Sizes(batch)[n - 1] + i
    OBVIOUS
  <2> HIDE DEF len, more, at
  <2>5. ASSUME n = j  PROVE Payloads(batch)[j][at] = Record(batch[n])[i]
    <3>1. at = len + i /\ i <= more
      BY <1>2, <2>1, <2>2, <2>4, <2>5
    <3>2. at \in 1 .. len + more /\ ~(at <= len) /\ at - len = i
      BY <1>2, <2>3, <3>1
    <3> QED
      BY <2>1, <2>5, <3>2
  <2>6. ASSUME n <= j - 1  PROVE Payloads(batch)[j][at] = Record(batch[n])[i]
    <3>1. /\ Sizes(batch)[n] = Sizes(batch)[n - 1] + RecordHeaderLen + batch[n].size
          /\ Sizes(batch)[n] <= Sizes(batch)[j - 1]
          /\ Sizes(batch)[n] \in Nat
      <4>1. j - 1 \in n .. Len(batch)
        BY <1>1, <2>6
      <4> QED
        BY <4>1, SizesGrow
    <3>2. at \in Nat /\ at >= 1 /\ at <= Sizes(batch)[n]
      <4> DEFINE start == Sizes(batch)[n - 1]
                 size == batch[n].size
      <4>1. /\ start \in Nat /\ size \in Nat /\ i \in Nat /\ i >= 1 /\ i <= 5 + size
            /\ at = start + i /\ Sizes(batch)[n] = start + 5 + size
        BY <1>2, <2>4, <3>1 DEF RecordHeaderLen
      <4> HIDE DEF start, size
      <4> QED
        BY <4>1
    <3>3. at \in 1 .. len + more /\ at <= len
      BY <2>2, <2>3, <3>1, <3>2
    <3>4. Payloads(batch)[j - 1][at] = Record(batch[n])[i]
      BY <1>1, <1>4, <2>6 DEF at
    <3> QED
      BY <2>1, <3>3, <3>4
  <2>7. There(j)
    BY <1>1, <2>5, <2>6
  <2> QED
    BY <2>7
<1> HIDE DEF There
<1>5. 0 \in T
  BY <1>1, <1>3
<1>6. \A j \in 1 .. N : j - 1 \in T => j \in T
  BY <1>1, <1>4
<1> HIDE DEF T
<1>7. k \in T
  BY <1>1, <1>5, <1>6, TurnInduction
<1> QED
  BY <1>1, <1>7 DEF T, There


-----------------------------------------------------------------------------
\* What every step keeps of the requests, the messages and the loop

PrintedRecord == [id : Nat, type : Nat, content : Seq(Cell)]

\* The request in flight is one message; else there is none.
RequestInv ==
  /\ stage \in {"idle", "requested", "responded", "printing"}
  /\ serial \in 0 .. MaxMessages /\ ID \in Nat
  /\ request.payloadSize \in 0 .. MaxLength /\ request.cells \in Seq(Cell)
  /\ stage = "requested" => IsRequest(request)

\* The stored messages hold their contents, a response what was packed.
BatchInv ==
  /\ waiting \in Seq(StoredMessage) /\ ContentInSize
  /\ packed \in Seq(StoredMessage)
  /\ response.size \in 0 .. MaxLength /\ response.cells \in Seq(Cell)
  /\ AnnouncedIsSent
  /\ response.size > 0 => response.cells = Payloads(packed)[Len(packed)]

\* The loop stays in its buffer, and there is none when nothing is printed.
LoopInv ==
  /\ buffer \in Seq(Cell) /\ pos \in 0 .. Len(buffer)
  /\ printed \in Seq(PrintedRecord)
  /\ cut \in BOOLEAN /\ overran \in BOOLEAN
  /\ stage = "printing" => response.size > 0
  /\ stage # "printing" => printed = <<>> /\ pos = 0 /\ buffer = <<>> /\ overran = FALSE

WireInv == RequestInv /\ BatchInv /\ LoopInv

LEMMA EmptyLoop ==
  /\ <<>> \in Seq(Cell) /\ <<>> \in Seq(PrintedRecord)
  /\ \A b : b = <<>> => 0 \in 0 .. Len(b)
<1>1. <<>> \in Seq(Cell)
  OBVIOUS
<1>2. <<>> \in Seq(PrintedRecord)
  OBVIOUS
<1>3. \A b : b = <<>> => 0 \in 0 .. Len(b)
  OBVIOUS
<1> QED
  BY <1>1, <1>2, <1>3

LEMMA InitWire == Init => WireInv
<1> SUFFICES ASSUME Init PROVE WireInv
  OBVIOUS
<1>1. MaxLength \in Nat
  BY Widths
<1> HIDE DEF MaxLength
<1>2. RequestInv
  BY <1>1, WireAssumption DEF Init, RequestInv, NoMessage
<1>3. BatchInv
  <2>1. waiting = <<>> /\ packed = <<>> /\ response.size = 0 /\ response.cells = <<>>
    BY DEF Init, NoAnswer
  <2> QED
    BY <1>1, <2>1 DEF BatchInv, ContentInSize, AnnouncedIsSent
<1>4. LoopInv
  <2>1. /\ buffer = <<>> /\ pos = 0 /\ printed = <<>> /\ cut = FALSE /\ overran = FALSE
        /\ stage # "printing"
    BY DEF Init
  <2> QED
    BY <2>1, EmptyLoop DEF LoopInv
<1> QED
  BY <1>2, <1>3, <1>4 DEF WireInv

\* A request is written: the messages and the loop are left alone.
LEMMA WriteKeepsWire ==
  ASSUME WireInv, NEW type \in {AskSymKey, SendSymKey} \cup Textual, WriteMessage(type)
  PROVE  WireInv'
<1>1. PICK length \in ContentLengths(type) :
        request' = [payloadSize |-> Wrapped(MessageHeaderLen + length), written |-> length,
                    cells |-> MessageCells(serial + 1, type, length)]
  BY DEF WriteMessage, MessageCells
<1>2. length \in 0 .. MaxLength + 2 /\ serial + 1 \in Nat /\ type \in Nat
  BY ContentLengthsBound DEF WireInv, RequestInv, AskSymKey, SendSymKey, Textual
<1>3. IsRequest(request')
  BY <1>1, <1>2, RequestIsWritten
<1>4. RequestInv'
  <2>1. serial + 1 \in 0 .. MaxMessages
    BY WireAssumption DEF WriteMessage, WireInv, RequestInv
  <2> QED
    BY <1>3, <2>1 DEF WriteMessage, WireInv, RequestInv, IsRequest
<1>5. BatchInv'
  BY DEF WriteMessage, WireInv, BatchInv, ContentInSize, AnnouncedIsSent, readVars
<1>6. LoopInv'
  BY DEF WriteMessage, WireInv, LoopInv, readVars, loopVars
<1> QED
  BY <1>4, <1>5, <1>6 DEF WireInv

LEMMA RefuseKeepsWire ==
  ASSUME WireInv, RefuseMessage
  PROVE  WireInv'
<1>1. MaxLength \in Nat
  BY Widths
<1> HIDE DEF MaxLength
<1>2. RequestInv'
  BY <1>1 DEF RefuseMessage, WireInv, RequestInv, NoMessage
<1>3. BatchInv'
  BY DEF RefuseMessage, WireInv, BatchInv, ContentInSize, AnnouncedIsSent, readVars
<1>4. LoopInv'
  BY DEF RefuseMessage, WireInv, LoopInv, readVars, loopVars
<1> QED
  BY <1>2, <1>3, <1>4 DEF WireInv

LEMMA StoreKeepsWire ==
  ASSUME WireInv, StoreMessage
  PROVE  WireInv'
<1>1. PICK n \in Chunks : n >= MessageHeaderLen /\ waiting' = Append(waiting, Stored(n))
  BY DEF StoreMessage
<1>2. Stored(n) \in StoredMessage /\ Len(Stored(n).content) <= Stored(n).size
  BY <1>1, StoredIsMessage DEF StoreMessage, WireInv, RequestInv
<1>3. MaxLength \in Nat
  BY Widths
<1> HIDE DEF MaxLength
<1>4. RequestInv'
  BY <1>3 DEF StoreMessage, WireInv, RequestInv, NoMessage
<1>5. BatchInv'
  <2>1. waiting' \in Seq(StoredMessage)
    BY <1>1, <1>2 DEF WireInv, BatchInv
  <2>2. ContentInSize'
    <3>1. ASSUME NEW i \in DOMAIN waiting'  PROVE Len(waiting'[i].content) <= waiting'[i].size
      <4>1. CASE i \in DOMAIN waiting
        BY <1>1, <4>1 DEF WireInv, BatchInv, ContentInSize
      <4>2. CASE i = Len(waiting) + 1
        BY <1>1, <1>2, <4>2 DEF WireInv, BatchInv
      <4> QED
        BY <1>1, <4>1, <4>2 DEF WireInv, BatchInv
    <3> QED
      BY <3>1 DEF ContentInSize
  <2> QED
    BY <2>1, <2>2 DEF StoreMessage, WireInv, BatchInv, AnnouncedIsSent, readVars
<1>6. LoopInv'
  BY DEF StoreMessage, WireInv, LoopInv, readVars, loopVars
<1> QED
  BY <1>4, <1>5, <1>6 DEF WireInv

\* The size in the header is that of the payload, since both are made of the
\* same messages.
LEMMA HandOutKeepsWire ==
  ASSUME WireInv, HandOut
  PROVE  WireInv'
<1>1. MaxLength \in Nat
  BY Widths
<1>2. RequestInv'
  BY DEF HandOut, WireInv, RequestInv
<1>3. BatchInv'
  <2>1. waiting \in Seq(StoredMessage) /\ packed' = waiting /\ waiting' = <<>>
    BY DEF HandOut, WireInv, BatchInv
  <2>2. ContentInSize' /\ waiting' \in Seq(StoredMessage)
    BY <2>1 DEF ContentInSize
  <2>3. CASE Packable(waiting)
    <3> DEFINE N == Len(waiting)
               size == responsePayloadSize(waiting)
               cells == Payloads(waiting)[N]
    <3>1. response'.size = size /\ response'.cells = cells
      BY <2>3 DEF HandOut
    <3>2. N \in 0 .. N
      BY <2>1
    <3>3. /\ Sizes(waiting)[N] \in Nat /\ cells \in Seq(Cell)
          /\ Len(cells) = Sizes(waiting)[N]
      BY <2>1, <3>2, SizesAdd, PayloadsAdd, PayloadLengths
    <3>4. size = Sizes(waiting)[N] /\ size <= MaxLength
      BY <2>3 DEF Packable, Fits, responsePayloadSize
    <3>5. cells = Payloads(packed')[Len(packed')]
      BY <2>1
    <3> HIDE DEF MaxLength, N, size, cells
    <3> QED
      BY <1>1, <2>1, <2>2, <3>1, <3>3, <3>4, <3>5 DEF BatchInv, AnnouncedIsSent
  <2>4. CASE ~Packable(waiting)
    <3> HIDE DEF MaxLength
    <3>1. response'.size = 0 /\ response'.cells = <<>>
      BY <2>4 DEF HandOut, NoAnswer
    <3> QED
      BY <1>1, <2>1, <2>2, <3>1 DEF BatchInv, AnnouncedIsSent
  <2> QED
    BY <2>3, <2>4
<1>4. LoopInv'
  BY DEF HandOut, WireInv, LoopInv, loopVars
<1> QED
  BY <1>2, <1>3, <1>4 DEF WireInv

LEMMA ForgetKeepsWire ==
  ASSUME WireInv, Forget
  PROVE  WireInv'
<1>1. MaxLength \in Nat
  BY Widths
<1> HIDE DEF MaxLength
<1>2. RequestInv'
  BY DEF Forget, WireInv, RequestInv
<1>3. BatchInv'
  BY <1>1 DEF Forget, WireInv, BatchInv, ContentInSize, AnnouncedIsSent, NoAnswer
<1>4. LoopInv'
  <2>1. /\ buffer' = <<>> /\ pos' = 0 /\ printed' = <<>> /\ cut' = FALSE
        /\ overran' = FALSE /\ stage' # "printing"
    BY DEF Forget
  <2> QED
    BY <2>1, EmptyLoop DEF LoopInv
<1> QED
  BY <1>2, <1>3, <1>4 DEF WireInv

LEMMA ReadKeepsWire ==
  ASSUME WireInv, ReadPayload
  PROVE  WireInv'
<1>1. PICK n \in 0 .. Len(response.cells) :
        /\ cut' = (n < Len(response.cells))
        /\ buffer' = [i \in 1 .. response.size |->
                        IF i <= n THEN response.cells[i] ELSE Zero]
  BY DEF ReadPayload
<1>2. response.size \in Nat /\ response.cells \in Seq(Cell) /\ response.size = Len(response.cells)
  BY Widths DEF WireInv, BatchInv, AnnouncedIsSent
<1>3. Zero \in Cell
  BY DEF Zero, Cell
<1>4. buffer' \in Seq(Cell)
  BY <1>1, <1>2, <1>3
<1>5. RequestInv'
  BY DEF ReadPayload, WireInv, RequestInv
<1>6. BatchInv'
  BY DEF ReadPayload, WireInv, BatchInv, ContentInSize, AnnouncedIsSent
<1>7. LoopInv'
  <2>1. pos' = 0 /\ printed' = <<>> /\ overran' = FALSE /\ response'.size > 0
        /\ stage' = "printing"
    BY DEF ReadPayload, WireInv, LoopInv, loopVars
  <2>2. cut' \in BOOLEAN
    BY <1>1
  <2>3. pos' \in 0 .. Len(buffer')
    BY <1>4, <2>1
  <2>4. printed' \in Seq(PrintedRecord) /\ overran' \in BOOLEAN
    BY <2>1, EmptyLoop
  <2> QED
    BY <1>4, <2>1, <2>2, <2>3, <2>4 DEF LoopInv
<1> QED
  BY <1>5, <1>6, <1>7 DEF WireInv

\* What the loop finds where a header fits.
LEMMA RecordIsRead ==
  ASSUME WireInv, HeaderFits
  PROVE  /\ pos + 1 \in 1 .. Len(buffer) /\ pos + 2 \in 1 .. Len(buffer)
         /\ pos + 3 \in 1 .. Len(buffer) /\ pos + 4 \in 1 .. Len(buffer)
         /\ pos + 5 \in 1 .. Len(buffer)
         /\ RecordAt.id = buffer[pos + 2].value /\ RecordAt.type = buffer[pos + 3].value
         /\ RecordAt.size = ValueOf(buffer[pos + 4], buffer[pos + 5])
         /\ RecordAt.id \in Nat /\ RecordAt.type \in Nat /\ RecordAt.size \in Nat
<1>1. /\ pos \in Nat /\ pos + 5 <= Len(buffer) /\ buffer \in Seq(Cell)
      /\ Len(buffer) \in Nat
  BY DEF HeaderFits, RecordHeaderLen, WireInv, LoopInv
<1>2. /\ pos + 1 \in 1 .. Len(buffer) /\ pos + 2 \in 1 .. Len(buffer)
      /\ pos + 3 \in 1 .. Len(buffer) /\ pos + 4 \in 1 .. Len(buffer)
      /\ pos + 5 \in 1 .. Len(buffer)
  BY <1>1
<1>3. \A i \in 1 .. Len(buffer) : buffer[i].value \in Nat
  <2>1. \A i \in 1 .. Len(buffer) : buffer[i] \in Cell
    BY <1>1
  <2> QED
    BY <2>1 DEF Cell
<1>4. \A a, b \in Nat : a + Base * b \in Nat
  BY Widths
<1>5. /\ RecordAt.id = buffer[pos + 2].value /\ RecordAt.type = buffer[pos + 3].value
      /\ RecordAt.size = ValueOf(buffer[pos + 4], buffer[pos + 5])
  BY DEF RecordAt
<1> QED
  BY <1>2, <1>3, <1>4, <1>5 DEF ValueOf

LEMMA PrintKeepsWire ==
  ASSUME WireInv, PrintRecord
  PROVE  WireInv'
<1> DEFINE start == pos + RecordHeaderLen
           end == start + RecordAt.size
           record == [id |-> RecordAt.id, type |-> RecordAt.type,
                      content |-> SubSeq(buffer, start + 1, end)]
<1>1. pos' = end /\ printed' = Append(printed, record) /\ end <= Len(buffer) /\ HeaderFits
  BY DEF PrintRecord, RecordFits
<1>2. RecordAt.id \in Nat /\ RecordAt.type \in Nat /\ RecordAt.size \in Nat
  BY <1>1, RecordIsRead
<1>3. buffer \in Seq(Cell) /\ pos \in Nat /\ printed \in Seq(PrintedRecord)
  BY DEF WireInv, LoopInv
<1>4. start \in Nat /\ end \in Nat
  BY <1>2, <1>3 DEF RecordHeaderLen
<1> HIDE DEF start, end
<1>5. SubSeq(buffer, start + 1, end) \in Seq(Cell)
  BY <1>1, <1>3, <1>4
<1>6. record \in PrintedRecord
  BY <1>2, <1>5 DEF PrintedRecord
<1> HIDE DEF record
<1>7. RequestInv'
  BY DEF PrintRecord, WireInv, RequestInv
<1>8. BatchInv'
  BY DEF PrintRecord, WireInv, BatchInv, ContentInSize, AnnouncedIsSent, readVars
<1>9. LoopInv'
  <2>1. printed' \in Seq(PrintedRecord)
    BY <1>1, <1>3, <1>6
  <2>2. pos' \in 0 .. Len(buffer) /\ buffer' = buffer
    BY <1>1, <1>3, <1>4 DEF PrintRecord, readVars
  <2> QED
    BY <2>1, <2>2 DEF PrintRecord, WireInv, LoopInv, readVars
<1> QED
  BY <1>7, <1>8, <1>9 DEF WireInv

LEMMA OverrunKeepsWire ==
  ASSUME WireInv, Overrun
  PROVE  WireInv'
<1>1. RequestInv'
  BY DEF Overrun, WireInv, RequestInv
<1>2. BatchInv'
  BY DEF Overrun, WireInv, BatchInv, ContentInSize, AnnouncedIsSent, readVars
<1>3. LoopInv'
  <2>1. Len(buffer) \in 0 .. Len(buffer)
    BY DEF WireInv, LoopInv
  <2> QED
    BY <2>1 DEF Overrun, WireInv, LoopInv, readVars
<1> QED
  BY <1>1, <1>2, <1>3 DEF WireInv

LEMMA NextWire == WireInv /\ [Next]_vars => WireInv'
<1> SUFFICES ASSUME WireInv, [Next]_vars PROVE WireInv'
  OBVIOUS
<1>1. CASE UNCHANGED vars
  BY <1>1 DEF vars, readVars, loopVars, WireInv, RequestInv, BatchInv, LoopInv, ContentInSize,
     AnnouncedIsSent
<1>2. ASSUME NEW type \in {AskSymKey, SendSymKey} \cup Textual, WriteMessage(type)
      PROVE  WireInv'
  BY <1>2, WriteKeepsWire
<1>3. CASE RefuseMessage
  BY <1>3, RefuseKeepsWire
<1>4. CASE StoreMessage
  BY <1>4, StoreKeepsWire
<1>5. CASE HandOut
  BY <1>5, HandOutKeepsWire
<1>6. CASE ReadNothing
  BY <1>6, ForgetKeepsWire DEF ReadNothing
<1>7. CASE ReadPayload
  BY <1>7, ReadKeepsWire
<1>8. CASE PrintRecord
  BY <1>8, PrintKeepsWire
<1>9. CASE Overrun
  BY <1>9, OverrunKeepsWire
<1>10. CASE PrintEnd
  BY <1>10, ForgetKeepsWire DEF PrintEnd
<1> QED
  BY <1>1, <1>2, <1>3, <1>4, <1>5, <1>6, <1>7, <1>8, <1>9, <1>10 DEF Next

LEMMA WireCorrect == Spec => []WireInv
<1> QED
  BY InitWire, NextWire, PTL DEF Spec

\* The fields on the wire hold numbers of their width in every exchange, also
\* when a file is longer than a field can count.
THEOREM WireTypeCorrect == Spec => []TypeOK
<1>1. WireInv => TypeOK
  <2> SUFFICES ASSUME WireInv PROVE TypeOK
    OBVIOUS
  <2>1. \A m \in StoredMessage : m.size <= MaxLength
    BY Widths DEF StoredMessage
  <2>2. \A i \in DOMAIN waiting : waiting[i] \in StoredMessage
    BY DEF WireInv, BatchInv
  <2>3. /\ \A i \in DOMAIN request.cells : request.cells[i] \in Cell
        /\ \A i \in DOMAIN buffer : buffer[i] \in Cell
    BY DEF WireInv, RequestInv, LoopInv
  <2>4. request.payloadSize <= MaxLength /\ response.size <= MaxLength
    BY Widths DEF WireInv, RequestInv, BatchInv
  <2> QED
    BY <2>1, <2>2, <2>3, <2>4 DEF WireInv, RequestInv, LoopInv, TypeOK, Fits
<1> QED
  BY <1>1, WireCorrect, PTL

\* No stored message has more content than its header says, whichever sizes have
\* wrapped (__handleSendMessage stores what recv gave).
THEOREM ContentInSizeCorrect == Spec => []ContentInSize
<1>1. WireInv => ContentInSize
  BY DEF WireInv, BatchInv
<1> QED
  BY <1>1, WireCorrect, PTL

\* The size in the header of a pull response is the size of what follows it.
THEOREM AnnouncedIsSentCorrect == Spec => []AnnouncedIsSent
<1>1. WireInv => AnnouncedIsSent
  BY DEF WireInv, BatchInv
<1> QED
  BY <1>1, WireCorrect, PTL


-----------------------------------------------------------------------------
\* Where the loop is in a response that broke off

\* The first n cells of the payload have come.
Came(n) ==
  /\ n \in 0 .. Len(buffer) /\ Len(buffer) = response.size
  /\ cut = (n < Len(buffer))
  /\ \A i \in 1 .. Len(buffer) : buffer[i] = IF i <= n THEN response.cells[i] ELSE Zero

ShownAsPacked(count) == \A i \in 1 .. count : printed[i] = AsPacked(packed[i])

\* The loop stands where a record ends, and has shown all before it.
InStep ==
  /\ ~overran
  /\ Len(printed) <= Len(packed)
  /\ pos = Sizes(packed)[Len(printed)]
  /\ ShownAsPacked(Len(printed))

\* The loop is in the zeros: of what it has shown only the record in which the
\* payload broke off may be another than was packed, and what follows has no type.
Behind(n) ==
  /\ n < Len(buffer) /\ n <= pos
  /\ \E j \in 1 .. Len(packed) :
       /\ j <= Len(printed)
       /\ ShownAsPacked(j - 1)
       /\ printed[j].type # NoType => CutShort(printed[j], AsPacked(packed[j]))
       /\ \A i \in j + 1 .. Len(printed) : printed[i].type = NoType

PrintInv ==
  stage = "printing" => \E n \in 0 .. Len(buffer) : Came(n) /\ (InStep \/ Behind(n))


-----------------------------------------------------------------------------
\* What the loop reads where a record begins

\* The cells of the record are in the buffer, as far as they have come.
LEMMA CellsCame ==
  ASSUME WireInv, stage = "printing", NEW n, Came(n), NEW k \in 1 .. Len(packed),
         pos = Sizes(packed)[k - 1]
  PROVE  /\ packed[k] \in StoredMessage /\ packed[k].size \in Nat
         /\ Sizes(packed)[k] = pos + RecordHeaderLen + packed[k].size
         /\ Sizes(packed)[k] <= Len(buffer)
         /\ \A x \in 1 .. RecordHeaderLen + packed[k].size :
              buffer[pos + x] = IF pos + x <= n THEN Record(packed[k])[x] ELSE Zero
<1> DEFINE N == Len(packed)
           size == packed[k].size
<1>1. /\ packed \in Seq(StoredMessage) /\ N \in Nat /\ N \in 0 .. N /\ N \in k .. N
      /\ response.size = Len(response.cells) /\ response.cells = Payloads(packed)[N]
      /\ Len(buffer) = response.size /\ pos \in Nat
  BY DEF WireInv, BatchInv, LoopInv, AnnouncedIsSent, Came
<1>2. Len(buffer) = Sizes(packed)[N]
  BY <1>1, PayloadLengths
<1>3. packed[k] \in StoredMessage /\ size \in Nat
  BY <1>1, RecordTurn
<1>4. /\ Sizes(packed)[k] = pos + RecordHeaderLen + size
      /\ Sizes(packed)[k] <= Len(buffer) /\ Len(buffer) \in Nat
  BY <1>1, <1>2, SizesGrow
<1>5. ASSUME NEW x \in 1 .. RecordHeaderLen + size
      PROVE  buffer[pos + x] = IF pos + x <= n THEN Record(packed[k])[x] ELSE Zero
  <2>1. response.cells[pos + x] = Record(packed[k])[x]
    BY <1>1, PayloadAt
  <2>2. x \in Nat /\ x >= 1 /\ x <= RecordHeaderLen + size
    BY <1>3 DEF RecordHeaderLen
  <2>3. pos + x \in 1 .. Len(buffer)
    <3> DEFINE length == RecordHeaderLen + size
    <3>1. /\ pos + length <= Len(buffer) /\ length \in Nat /\ x <= length
          /\ pos \in Nat /\ Len(buffer) \in Nat
      <4> HIDE DEF size
      <4>1. pos + RecordHeaderLen + size <= Len(buffer)
        BY <1>4
      <4>2. /\ pos + length = pos + RecordHeaderLen + size /\ length \in Nat
            /\ pos \in Nat /\ Len(buffer) \in Nat
        <5>1. pos \in Nat /\ RecordHeaderLen \in Nat /\ size \in Nat
          BY <1>1, <1>3 DEF RecordHeaderLen
        <5> QED
          BY <1>4, <5>1, Regrouped
      <4> QED
        BY <2>2, <4>1, <4>2
    <3> HIDE DEF length
    <3> QED
      BY <2>2, <3>1
  <2> QED
    BY <2>1, <2>3 DEF Came
<1> QED
  BY <1>3, <1>4, <1>5

\* Its header, zeros where it has not come: no size read is more than the message's.
LEMMA HeaderCame ==
  ASSUME WireInv, stage = "printing", NEW n, Came(n), NEW k \in 1 .. Len(packed),
         pos = Sizes(packed)[k - 1]
  PROVE  /\ RecordAt.id = IF pos + 2 <= n THEN packed[k].id ELSE 0
         /\ RecordAt.type = IF pos + 3 <= n THEN packed[k].type ELSE NoType
         /\ RecordAt.size \in 0 .. packed[k].size
         /\ pos + RecordHeaderLen <= n => RecordAt.size = packed[k].size
         /\ RecordFits
<1> DEFINE m == packed[k]
           r == Record(m)
<1>1. /\ m \in StoredMessage /\ m.size \in Nat
      /\ pos + RecordHeaderLen + m.size <= Len(buffer)
      /\ \A x \in 1 .. RecordHeaderLen + m.size :
           buffer[pos + x] = IF pos + x <= n THEN r[x] ELSE Zero
  BY CellsCame
<1>2. IsRecord(r, m)
  BY <1>1, RecordIsPacked
<1>3. pos \in Nat /\ n \in Nat /\ Len(buffer) \in Nat
  BY DEF WireInv, LoopInv, Came
<1> HIDE DEF m, r
<1>4. HeaderFits
  BY <1>1, <1>3 DEF HeaderFits, RecordHeaderLen
<1>5. /\ RecordAt.id = buffer[pos + 2].value /\ RecordAt.type = buffer[pos + 3].value
      /\ RecordAt.size = ValueOf(buffer[pos + 4], buffer[pos + 5])
  BY <1>4, RecordIsRead
<1>6. \A x \in 1 .. 5 : buffer[pos + x] = IF pos + x <= n THEN r[x] ELSE Zero
  <2>1. \A x \in 1 .. 5 : x \in 1 .. RecordHeaderLen + m.size
    BY <1>1 DEF RecordHeaderLen
  <2> QED
    BY <1>1, <2>1
<1>7. /\ buffer[pos + 2] = IF pos + 2 <= n THEN r[2] ELSE Zero
      /\ buffer[pos + 3] = IF pos + 3 <= n THEN r[3] ELSE Zero
      /\ buffer[pos + 4] = IF pos + 4 <= n THEN r[4] ELSE Zero
      /\ buffer[pos + 5] = IF pos + 5 <= n THEN r[5] ELSE Zero
  <2>1. 2 \in 1 .. 5 /\ 3 \in 1 .. 5 /\ 4 \in 1 .. 5 /\ 5 \in 1 .. 5
    OBVIOUS
  <2> QED
    BY <1>6, <2>1
<1>8. /\ RecordAt.id = IF pos + 2 <= n THEN m.id ELSE 0
      /\ RecordAt.type = IF pos + 3 <= n THEN m.type ELSE NoType
  BY <1>2, <1>5, <1>7 DEF IsRecord, Zero, NoType
<1> DEFINE low == r[4].value
           high == r[5].value
           readLow == buffer[pos + 4].value
           readHigh == buffer[pos + 5].value
<1>9. /\ readLow = IF pos + 4 <= n THEN low ELSE 0
      /\ readHigh = IF pos + 5 <= n THEN high ELSE 0
  BY <1>7 DEF Zero
<1>10. /\ low \in Nat /\ high \in Nat /\ m.size = low + Base * high
       /\ RecordAt.size = readLow + Base * readHigh
  BY <1>2, <1>5, Widths DEF IsRecord, ValueOf, Digit
<1> HIDE DEF low, high, readLow, readHigh
<1>11. Base * high \in Nat /\ Base * 0 = 0
  BY <1>10, Widths
<1>12. RecordAt.size \in 0 .. m.size /\ (pos + 5 <= n => RecordAt.size = m.size)
  <2> DEFINE read == RecordAt.size
  <2>1. read = readLow + Base * readHigh
    BY <1>10
  <2> HIDE DEF read
  <2>2. ASSUME pos + 5 <= n  PROVE read = m.size
    <3>1. readLow = low /\ readHigh = high
      BY <1>3, <1>9, <2>2
    <3> QED
      BY <1>10, <2>1, <3>1
  <2>3. read \in 0 .. m.size
    <3>1. (readHigh = 0 \/ readHigh = high) /\ (readLow = 0 \/ readLow = low)
      BY <1>9
    <3> QED
      BY <1>10, <1>11, <2>1, <3>1
  <2> QED
    BY <2>2, <2>3 DEF read
<1>13. RecordFits
  <2> DEFINE read == RecordAt.size
  <2>1. read \in 0 .. m.size
    BY <1>12
  <2> HIDE DEF read
  <2>2. pos + RecordHeaderLen + read <= Len(buffer)
    <3> DEFINE start == pos + RecordHeaderLen
               size == m.size
    <3>1. start \in Nat /\ size \in Nat /\ read \in 0 .. size /\ start + size <= Len(buffer)
      BY <1>1, <1>3, <2>1 DEF RecordHeaderLen
    <3> HIDE DEF start, size
    <3>2. start + read <= Len(buffer)
      BY <1>3, <3>1
    <3> QED
      BY <3>2 DEF start
  <2> QED
    BY <1>4, <2>2 DEF RecordFits, read
<1> QED
  BY <1>8, <1>12, <1>13 DEF m, RecordHeaderLen

\* What the loop shows of the record at its iterator.
Found ==
  [id |-> RecordAt.id, type |-> RecordAt.type,
   content |-> SubSeq(buffer, pos + RecordHeaderLen + 1,
                      pos + RecordHeaderLen + RecordAt.size)]

\* Its content, as long as the size that was read.
LEMMA ContentCame ==
  ASSUME WireInv, stage = "printing", NEW n, Came(n), NEW k \in 1 .. Len(packed),
         pos = Sizes(packed)[k - 1]
  PROVE  /\ Found.content \in Seq(Cell) /\ Len(Found.content) = RecordAt.size
         /\ \A x \in 1 .. RecordAt.size :
              Found.content[x] = IF pos + RecordHeaderLen + x <= n
                                 THEN Padded(packed[k].content, packed[k].size)[x] ELSE Zero
<1> DEFINE size == RecordAt.size
           content == Found.content
           m == packed[k]
           start == pos + RecordHeaderLen
           all == Padded(m.content, m.size)
           r == Record(m)
<1>1. /\ m \in StoredMessage /\ m.size \in Nat
      /\ start + m.size <= Len(buffer)
      /\ \A x \in 1 .. RecordHeaderLen + m.size :
           buffer[pos + x] = IF pos + x <= n THEN r[x] ELSE Zero
  BY CellsCame
<1>2. \A x \in 1 .. m.size : r[RecordHeaderLen + x] = all[x]
  BY <1>1, RecordIsPacked DEF IsRecord
<1>3. size \in 0 .. m.size
  BY HeaderCame
<1>4. pos \in Nat /\ start \in Nat /\ Len(buffer) \in Nat /\ buffer \in Seq(Cell)
  BY DEF WireInv, LoopInv, RecordHeaderLen
<1>5. start = pos + 5 /\ RecordHeaderLen = 5
  BY DEF RecordHeaderLen
<1>6. content = SubSeq(buffer, start + 1, start + size)
  BY DEF Found
<1> HIDE DEF m, r, all, start, size, content
<1>7. /\ start + size \in Nat /\ start + size <= Len(buffer) /\ size \in Nat
      /\ start + 1 \in Nat
  BY <1>1, <1>3, <1>4
<1>8. content \in Seq(Cell) /\ Len(content) = size
      /\ \A x \in 1 .. size : content[x] = buffer[start + x]
  <2> DEFINE first == start + 1
             last == start + size
  <2>1. /\ first \in 1 .. last + 1 /\ last \in first - 1 .. Len(buffer)
        /\ last - first + 1 = size
    BY <1>4, <1>7
  <2>2. \A x \in 1 .. size : start + x = first + x - 1
    BY <1>4, <1>7
  <2> HIDE DEF first, last
  <2>3. /\ SubSeq(buffer, first, last) \in Seq(Cell)
        /\ Len(SubSeq(buffer, first, last)) = last - first + 1
        /\ \A x \in 1 .. last - first + 1 :
             SubSeq(buffer, first, last)[x] = buffer[first + x - 1]
    BY <1>4, <2>1, SubSeqProperties
  <2>4. content = SubSeq(buffer, first, last)
    BY <1>6 DEF first, last
  <2> QED
    BY <2>1, <2>2, <2>3, <2>4
<1>9. ASSUME NEW x \in 1 .. size
      PROVE  content[x] = IF start + x <= n THEN all[x] ELSE Zero
  <2>1. x \in 1 .. m.size /\ 5 + x \in 1 .. 5 + m.size /\ start + x = pos + (5 + x)
    <3>1. x \in Nat /\ 1 <= x /\ x <= m.size /\ m.size \in Nat
      BY <1>1, <1>3, <1>7
    <3>2. 5 + x \in 1 .. 5 + m.size
      BY <3>1
    <3>3. start + x = pos + (5 + x)
      <4>1. \A b, c \in Nat : pos + b + c = pos + (b + c)
        BY <1>4, Regrouped
      <4>2. 5 \in Nat /\ x \in Nat
        BY <3>1
      <4> QED
        BY <1>5, <4>1, <4>2, Zenon
    <3> QED
      BY <3>1, <3>2, <3>3
  <2>2. buffer[pos + (5 + x)] = IF pos + (5 + x) <= n THEN r[5 + x] ELSE Zero
    BY <1>1, <1>5, <2>1
  <2>3. r[5 + x] = all[x]
    BY <1>2, <1>5, <2>1
  <2> QED
    BY <1>8, <2>1, <2>2, <2>3
<1> QED
  BY <1>8, <1>9 DEF m, all, start, size, content


\* A record that has come whole is shown as it was packed.
LEMMA WholeIsShown ==
  ASSUME WireInv, stage = "printing", NEW n, Came(n), NEW k \in 1 .. Len(packed),
         pos = Sizes(packed)[k - 1], Sizes(packed)[k] <= n
  PROVE  /\ Found = AsPacked(packed[k])
         /\ pos + RecordHeaderLen + RecordAt.size = Sizes(packed)[k]
<1> DEFINE m == packed[k]
           all == Padded(m.content, m.size)
<1>1. /\ m \in StoredMessage /\ m.size \in Nat
      /\ Sizes(packed)[k] = pos + RecordHeaderLen + m.size
  BY CellsCame
<1>2. pos \in Nat /\ n \in Nat
  BY DEF WireInv, LoopInv, Came
<1>3. /\ pos + 2 <= n /\ pos + 3 <= n /\ pos + RecordHeaderLen <= n
      /\ \A x \in 1 .. m.size : pos + RecordHeaderLen + x <= n
  <2> DEFINE p == pos
             size == m.size
  <2>1. p \in Nat /\ size \in Nat /\ n \in Nat /\ p + 5 + size <= n
    BY <1>1, <1>2 DEF RecordHeaderLen
  <2> HIDE DEF p, size
  <2>2. p + 2 <= n /\ p + 3 <= n /\ p + 5 <= n /\ \A x \in 1 .. size : p + 5 + x <= n
    BY <2>1
  <2> QED
    BY <2>2 DEF p, size, RecordHeaderLen
<1>4. RecordAt.id = m.id /\ RecordAt.type = m.type /\ RecordAt.size = m.size
  BY <1>3, HeaderCame
<1>6. /\ Found.content \in Seq(Cell) /\ Len(Found.content) = m.size
      /\ \A x \in 1 .. m.size : Found.content[x] = all[x]
  <2>1. /\ Found.content \in Seq(Cell) /\ Len(Found.content) = RecordAt.size
        /\ \A x \in 1 .. RecordAt.size :
             Found.content[x] = IF pos + RecordHeaderLen + x <= n THEN all[x] ELSE Zero
    BY ContentCame
  <2> HIDE DEF m, all
  <2> QED
    BY <1>3, <1>4, <2>1
<1>7. all \in Seq(Cell) /\ Len(all) = m.size
  BY <1>1, PaddedIsCells DEF StoredMessage
<1> HIDE DEF m, all
<1>8. Found.content = all
  BY <1>6, <1>7, SeqEqual
<1>9. Found = [id |-> m.id, type |-> m.type, content |-> all]
  BY <1>4, <1>8 DEF Found
<1> QED
  BY <1>1, <1>4, <1>9 DEF AsPacked, m, all

\* The record in which the payload broke off keeps its numbers or loses its type,
\* and the loop moves on to the zeros.
LEMMA BrokenIsShown ==
  ASSUME WireInv, stage = "printing", NEW n, Came(n), NEW k \in 1 .. Len(packed),
         pos = Sizes(packed)[k - 1], ~(Sizes(packed)[k] <= n)
  PROVE  /\ n < Len(buffer) /\ n <= pos + RecordHeaderLen + RecordAt.size
         /\ Found.type # NoType => CutShort(Found, AsPacked(packed[k]))
<1> DEFINE m == packed[k]
           all == Padded(m.content, m.size)
<1>1. /\ m \in StoredMessage /\ m.size \in Nat
      /\ Sizes(packed)[k] = pos + RecordHeaderLen + m.size
      /\ Sizes(packed)[k] <= Len(buffer)
  BY CellsCame
<1>2. pos \in Nat /\ n \in Nat /\ Len(buffer) \in Nat
  BY DEF WireInv, LoopInv, Came
<1>3. /\ RecordAt.id = IF pos + 2 <= n THEN m.id ELSE 0
      /\ RecordAt.type = IF pos + 3 <= n THEN m.type ELSE NoType
      /\ RecordAt.size \in 0 .. m.size
      /\ pos + RecordHeaderLen <= n => RecordAt.size = m.size
  BY HeaderCame
<1> DEFINE p == pos
           size == RecordAt.size
           whole == m.size
<1>4. n < Len(buffer) /\ n <= p + RecordHeaderLen + size
  <2>1. /\ p \in Nat /\ size \in Nat /\ whole \in Nat /\ ~(p + 5 + whole <= n)
        /\ p + 5 + whole <= Len(buffer) /\ (p + 5 <= n => size = whole)
    BY <1>1, <1>2, <1>3 DEF RecordHeaderLen
  <2> HIDE DEF p, size, whole
  <2> QED
    BY <1>2, <2>1 DEF RecordHeaderLen
<1>5. Found.id = RecordAt.id /\ Found.type = RecordAt.type
  BY DEF Found
<1>6. /\ Found.content \in Seq(Cell) /\ Len(Found.content) = size
      /\ \A x \in 1 .. size :
           Found.content[x] = IF pos + RecordHeaderLen + x <= n THEN all[x] ELSE Zero
  BY ContentCame
<1>7. all \in Seq(Cell) /\ Len(all) = m.size
  BY <1>1, PaddedIsCells DEF StoredMessage
<1>8. ASSUME Found.type # NoType  PROVE CutShort(Found, AsPacked(m))
  <2>1. pos + 3 <= n
    BY <1>3, <1>5, <1>8
  <2>2. pos + 2 <= n
    <3>1. p \in Nat /\ p + 3 <= n
      BY <1>2, <2>1
    <3> HIDE DEF p
    <3>2. p + 2 <= n
      BY <1>2, <3>1
    <3> QED
      BY <3>2 DEF p
  <2>3. Found.id = m.id /\ Found.type = m.type
    BY <1>3, <1>5, <2>1, <2>2
  <2>4. Len(Found.content) <= Len(all)
    BY <1>3, <1>6, <1>7
  <2>5. \A i \in DOMAIN Found.content : Found.content[i] \in {all[i], Zero}
    <3>1. DOMAIN Found.content = 1 .. size
      BY <1>6
    <3> HIDE DEF all, size
    <3> QED
      BY <1>6, <3>1
  <2>6. AsPacked(m).id = m.id /\ AsPacked(m).type = m.type /\ AsPacked(m).content = all
    BY DEF AsPacked
  <2> HIDE DEF m, all
  <2> QED
    BY <2>3, <2>4, <2>5, <2>6 DEF CutShort
<1> QED
  BY <1>4, <1>8 DEF p, size, m

\* Behind the cells that came the loop finds an empty record without a type.
LEMMA NothingIsShown ==
  ASSUME WireInv, HeaderFits, NEW n, Came(n), n <= pos
  PROVE  Found.type = NoType /\ RecordAt.size = 0
<1>1. /\ pos + 3 \in 1 .. Len(buffer) /\ pos + 4 \in 1 .. Len(buffer)
      /\ pos + 5 \in 1 .. Len(buffer)
      /\ RecordAt.type = buffer[pos + 3].value
      /\ RecordAt.size = ValueOf(buffer[pos + 4], buffer[pos + 5])
  BY RecordIsRead
<1>2. pos \in Nat /\ n \in Nat
  BY DEF WireInv, LoopInv, Came
<1>3. ~(pos + 3 <= n) /\ ~(pos + 4 <= n) /\ ~(pos + 5 <= n)
  BY <1>2
<1>4. buffer[pos + 3] = Zero /\ buffer[pos + 4] = Zero /\ buffer[pos + 5] = Zero
  BY <1>1, <1>3 DEF Came
<1>5. Base * 0 = 0
  BY Widths
<1> QED
  BY <1>1, <1>4, <1>5 DEF Found, Zero, NoType, ValueOf


-----------------------------------------------------------------------------
\* The loop shows the messages that were packed

LEMMA PrintShows ==
  ASSUME WireInv, PrintRecord
  PROVE  /\ HeaderFits /\ printed' = Append(printed, Found)
         /\ pos' = pos + RecordHeaderLen + RecordAt.size
         /\ Len(printed') = Len(printed) + 1 /\ printed'[Len(printed) + 1] = Found
         /\ \A i \in 1 .. Len(printed) : printed'[i] = printed[i]
         /\ stage = "printing" /\ stage' = stage /\ response' = response /\ packed' = packed
         /\ buffer' = buffer /\ cut' = cut /\ overran' = overran
<1>1. /\ HeaderFits /\ printed' = Append(printed, Found)
      /\ pos' = pos + RecordHeaderLen + RecordAt.size
  BY DEF PrintRecord, RecordFits, Found
<1>2. printed \in Seq(PrintedRecord)
  BY DEF WireInv, LoopInv
<1>3. Found \in [id : {RecordAt.id}, type : {RecordAt.type}, content : {Found.content}]
  BY DEF Found
<1>4. /\ Len(printed') = Len(printed) + 1 /\ printed'[Len(printed) + 1] = Found
      /\ \A i \in 1 .. Len(printed) : printed'[i] = printed[i]
  BY <1>1, <1>2
<1> QED
  BY <1>1, <1>4 DEF PrintRecord, readVars

\* The loop in step has not come to the end: there is a record where it stands.
LEMMA InStepAtRecord ==
  ASSUME WireInv, stage = "printing", NEW n, Came(n), InStep, pos < Len(buffer)
  PROVE  Len(printed) + 1 \in 1 .. Len(packed)
<1> DEFINE N == Len(packed)
           k == Len(printed)
<1>1. /\ packed \in Seq(StoredMessage) /\ N \in Nat /\ N \in 0 .. N /\ k \in Nat /\ k <= N
      /\ Len(buffer) = response.size /\ response.size = Len(response.cells)
      /\ response.cells = Payloads(packed)[N] /\ pos = Sizes(packed)[k]
      /\ pos \in Nat /\ Len(buffer) \in Nat
  BY DEF WireInv, BatchInv, LoopInv, AnnouncedIsSent, Came, InStep
<1>2. Len(buffer) = Sizes(packed)[N]
  BY <1>1, PayloadLengths
<1> HIDE DEF N, k
<1>3. k # N
  BY <1>1, <1>2
<1>4. k + 1 \in 1 .. N
  BY <1>1, <1>3
<1> QED
  BY <1>4 DEF N, k

\* A turn in step shows the next message, or the one the payload broke off in.
LEMMA InStepPrints ==
  ASSUME WireInv, PrintRecord, NEW n, Came(n), InStep
  PROVE  InStep' \/ Behind(n)'
<1> DEFINE count == Len(printed)
           k == count + 1
<1>1. /\ HeaderFits /\ pos' = pos + RecordHeaderLen + RecordAt.size
      /\ Len(printed') = k /\ printed'[k] = Found
      /\ \A i \in 1 .. count : printed'[i] = printed[i]
      /\ stage = "printing" /\ packed' = packed
      /\ buffer' = buffer /\ overran' = overran
  BY PrintShows
<1>2. pos < Len(buffer) /\ count \in Nat
  BY <1>1 DEF HeaderFits, RecordHeaderLen, WireInv, LoopInv
<1>3. k \in 1 .. Len(packed)
  BY <1>1, <1>2, InStepAtRecord
<1>4. k - 1 = count
  BY <1>2
<1>5. pos = Sizes(packed)[k - 1]
  BY <1>4 DEF InStep
<1>6. \A i \in 1 .. count : printed'[i] = AsPacked(packed[i])
  BY <1>1 DEF InStep, ShownAsPacked
<1>7. ASSUME Sizes(packed)[k] <= n  PROVE InStep'
  <2>1. Found = AsPacked(packed[k]) /\ pos' = Sizes(packed)[k]
    BY <1>1, <1>3, <1>5, <1>7, WholeIsShown
  <2>2. \A i \in 1 .. k : printed'[i] = AsPacked(packed[i])
    <3>1. \A i \in 1 .. k : i \in 1 .. count \/ i = k
      BY <1>2
    <3> HIDE DEF k, count
    <3> QED
      BY <1>1, <1>6, <2>1, <3>1
  <2>3. k <= Len(packed)
    BY <1>3
  <2>4. ~overran'
    BY <1>1 DEF InStep
  <2> HIDE DEF k, count
  <2>5. ShownAsPacked(Len(printed))'
    <3>1. \A i \in 1 .. Len(printed') : printed'[i] = AsPacked(packed'[i])
      BY <1>1, <2>2
    <3> QED
      BY <3>1 DEF ShownAsPacked, AsPacked, Padded
  <2> QED
    BY <1>1, <2>1, <2>3, <2>4, <2>5 DEF InStep, Sizes
<1>8. ASSUME ~(Sizes(packed)[k] <= n)  PROVE Behind(n)'
  <2>1. /\ n < Len(buffer) /\ n <= pos'
        /\ Found.type # NoType => CutShort(Found, AsPacked(packed[k]))
    BY <1>1, <1>3, <1>5, <1>8, BrokenIsShown
  <2>2. \A i \in k + 1 .. k : FALSE
    BY <1>2
  <2> HIDE DEF k
  <2>3. /\ k <= Len(printed') /\ \A i \in 1 .. k - 1 : printed'[i] = AsPacked(packed'[i])
        /\ printed'[k].type # NoType => CutShort(printed'[k], AsPacked(packed'[k]))
        /\ \A i \in k + 1 .. Len(printed') : printed'[i].type = NoType
    <3>1. k <= Len(printed')
      BY <1>1, <1>3
    <3> QED
      BY <1>1, <1>4, <1>6, <2>1, <2>2, <3>1
  <2> QED
    BY <1>1, <1>3, <2>1, <2>3 DEF Behind, ShownAsPacked, CutShort, AsPacked, Padded
<1> QED
  BY <1>7, <1>8

\* A turn behind the cut shows nothing more.
LEMMA BehindPrints ==
  ASSUME WireInv, PrintRecord, NEW n, Came(n), Behind(n)
  PROVE  Behind(n)'
<1> DEFINE count == Len(printed)
<1>1. /\ HeaderFits /\ pos' = pos + RecordHeaderLen + RecordAt.size
      /\ Len(printed') = count + 1 /\ printed'[count + 1] = Found
      /\ \A i \in 1 .. count : printed'[i] = printed[i]
      /\ packed' = packed /\ buffer' = buffer
  BY PrintShows
<1>2. PICK j \in 1 .. Len(packed) :
        /\ j <= count
        /\ ShownAsPacked(j - 1)
        /\ printed[j].type # NoType => CutShort(printed[j], AsPacked(packed[j]))
        /\ \A i \in j + 1 .. count : printed[i].type = NoType
  BY DEF Behind
<1>3. n < Len(buffer) /\ n <= pos
  BY DEF Behind
<1>4. Found.type = NoType /\ RecordAt.size = 0
  BY <1>1, <1>3, NothingIsShown
<1>5. pos \in Nat /\ n \in Nat /\ count \in Nat
  BY DEF WireInv, LoopInv, Came
<1>6. n <= pos'
  BY <1>1, <1>3, <1>4, <1>5 DEF RecordHeaderLen
<1> HIDE DEF count
<1>7. j \in Nat /\ j >= 1 /\ j <= count /\ j <= count + 1
  BY <1>2, <1>5
<1>8. printed'[j] = printed[j] /\ \A i \in 1 .. j - 1 : printed'[i] = AsPacked(packed[i])
  <2>1. j \in 1 .. count /\ \A i \in 1 .. j - 1 : i \in 1 .. count
    BY <1>5, <1>7
  <2> QED
    BY <1>1, <1>2, <2>1 DEF ShownAsPacked
<1>9. \A i \in j + 1 .. count + 1 : printed'[i].type = NoType
  <2>1. \A i \in j + 1 .. count + 1 : (i \in j + 1 .. count /\ i \in 1 .. count) \/ i = count + 1
    BY <1>5, <1>7
  <2> QED
    BY <1>1, <1>2, <1>4, <2>1
<1>10. /\ j <= Len(printed') /\ \A i \in 1 .. j - 1 : printed'[i] = AsPacked(packed'[i])
       /\ printed'[j].type # NoType => CutShort(printed'[j], AsPacked(packed'[j]))
       /\ \A i \in j + 1 .. Len(printed') : printed'[i].type = NoType
  BY <1>1, <1>2, <1>7, <1>8, <1>9
<1> QED
  BY <1>1, <1>2, <1>3, <1>6, <1>10 DEF Behind, ShownAsPacked, CutShort, AsPacked, Padded

LEMMA InitPrint == Init => PrintInv
BY DEF Init, PrintInv

\* The buffer has what came of the payload, and the loop begins with its first record.
LEMMA ReadStarts ==
  ASSUME WireInv, ReadPayload
  PROVE  PrintInv'
<1>1. PICK n \in 0 .. Len(response.cells) :
        /\ cut' = (n < Len(response.cells))
        /\ buffer' = [i \in 1 .. response.size |->
                        IF i <= n THEN response.cells[i] ELSE Zero]
  BY DEF ReadPayload
<1>2. /\ response.size \in Nat /\ response.size = Len(response.cells)
      /\ packed \in Seq(StoredMessage)
  BY Widths DEF WireInv, BatchInv, AnnouncedIsSent
<1>3. /\ response' = response /\ packed' = packed /\ printed' = <<>> /\ pos' = 0
      /\ overran' = FALSE
  BY DEF ReadPayload, WireInv, LoopInv, loopVars
<1>4. Len(buffer') = response.size
  BY <1>1, <1>2
<1>5. Came(n)'
  <2>1. \A i \in 1 .. Len(buffer') :
          buffer'[i] = IF i <= n THEN response'.cells[i] ELSE Zero
    BY <1>1, <1>3, <1>4
  <2>2. n \in 0 .. Len(buffer') /\ Len(buffer') = response'.size /\ cut' = (n < Len(buffer'))
    BY <1>1, <1>2, <1>3, <1>4
  <2> QED
    BY <2>1, <2>2 DEF Came, Zero
<1>6. InStep'
  <2>1. Sizes(packed)[0] = 0
    BY <1>2, SizesAdd
  <2>2. Len(printed') = 0 /\ \A i \in 1 .. 0 : FALSE
    BY <1>3
  <2>3. pos' = Sizes(packed')[Len(printed')]
    BY <1>3, <2>1, <2>2
  <2>4. Len(printed') <= Len(packed')
    BY <1>2, <1>3, <2>2
  <2>5. ShownAsPacked(Len(printed))'
    BY <2>2 DEF ShownAsPacked
  <2> QED
    BY <1>3, <2>3, <2>4, <2>5 DEF InStep, Sizes
<1> QED
  BY <1>2, <1>4, <1>1, <1>5, <1>6 DEF PrintInv

LEMMA PrintKeepsPrint ==
  ASSUME WireInv, PrintInv, PrintRecord
  PROVE  PrintInv'
<1>1. /\ stage = "printing" /\ response' = response
      /\ buffer' = buffer /\ cut' = cut
  BY PrintShows
<1>2. PICK n \in 0 .. Len(buffer) : Came(n) /\ (InStep \/ Behind(n))
  BY <1>1 DEF PrintInv
<1>3. Came(n)'
  BY <1>1, <1>2 DEF Came, Zero
<1>4. InStep' \/ Behind(n)'
  BY <1>2, InStepPrints, BehindPrints
<1> QED
  BY <1>1, <1>2, <1>3, <1>4 DEF PrintInv

LEMMA BehindStays ==
  ASSUME NEW n, Behind(n), packed' = packed, printed' = printed, buffer' = buffer, n <= pos'
  PROVE  Behind(n)'
<1>1. PICK j \in 1 .. Len(packed) :
        /\ j <= Len(printed)
        /\ ShownAsPacked(j - 1)
        /\ printed[j].type # NoType => CutShort(printed[j], AsPacked(packed[j]))
        /\ \A i \in j + 1 .. Len(printed) : printed[i].type = NoType
  BY DEF Behind
<1>2. /\ n < Len(buffer') /\ j \in 1 .. Len(packed') /\ j <= Len(printed')
      /\ \A i \in 1 .. j - 1 : printed'[i] = AsPacked(packed'[i])
      /\ printed'[j].type # NoType => CutShort(printed'[j], AsPacked(packed'[j]))
      /\ \A i \in j + 1 .. Len(printed') : printed'[i].type = NoType
  BY <1>1 DEF Behind, ShownAsPacked
<1> QED
  BY <1>2 DEF Behind, ShownAsPacked, CutShort, AsPacked, Padded

\* Only behind the cut can the loop read past the end.
LEMMA OverrunKeepsPrint ==
  ASSUME WireInv, PrintInv, Overrun
  PROVE  PrintInv'
<1>1. /\ stage = "printing" /\ response' = response /\ packed' = packed
      /\ printed' = printed /\ buffer' = buffer /\ cut' = cut /\ pos' = Len(buffer)
      /\ ~(pos >= Len(buffer)) /\ ~RecordFits
  BY DEF Overrun, AtEnd, readVars
<1>2. PICK n \in 0 .. Len(buffer) : Came(n) /\ (InStep \/ Behind(n))
  BY <1>1 DEF PrintInv
<1>3. ~InStep
  <2> SUFFICES ASSUME InStep PROVE FALSE
    OBVIOUS
  <2> DEFINE k == Len(printed) + 1
  <2>1. pos < Len(buffer) /\ Len(printed) \in Nat
    BY <1>1 DEF WireInv, LoopInv
  <2>2. k \in 1 .. Len(packed) /\ k - 1 = Len(printed)
    BY <1>1, <1>2, <2>1, InStepAtRecord
  <2>3. pos = Sizes(packed)[k - 1]
    BY <2>2 DEF InStep
  <2> HIDE DEF k
  <2>4. RecordFits
    BY <1>1, <1>2, <2>2, <2>3, HeaderCame
  <2> QED
    BY <1>1, <2>4
<1>4. Came(n)'
  BY <1>1, <1>2 DEF Came, Zero
<1>5. n <= pos'
  BY <1>1, <1>2 DEF WireInv, LoopInv
<1>6. Behind(n)'
  BY <1>1, <1>2, <1>3, <1>5, BehindStays
<1> QED
  BY <1>1, <1>2, <1>4, <1>6 DEF PrintInv


LEMMA StutterKeepsPrint ==
  ASSUME PrintInv, UNCHANGED vars
  PROVE  PrintInv'
<1>1. /\ stage' = stage /\ response' = response /\ packed' = packed /\ printed' = printed
      /\ buffer' = buffer /\ cut' = cut /\ pos' = pos /\ overran' = overran
  BY DEF vars, readVars, loopVars
<1> SUFFICES ASSUME stage = "printing"
             PROVE  \E n \in 0 .. Len(buffer) : Came(n)' /\ (InStep' \/ Behind(n)')
  BY <1>1 DEF PrintInv
<1>2. PICK n \in 0 .. Len(buffer) : Came(n) /\ (InStep \/ Behind(n))
  BY DEF PrintInv
<1>3. Came(n)'
  BY <1>1, <1>2 DEF Came, Zero
<1>4. ASSUME InStep  PROVE InStep'
  BY <1>1, <1>4 DEF InStep, ShownAsPacked, AsPacked, Padded, Sizes
<1>5. ASSUME Behind(n)  PROVE Behind(n)'
  <2>1. n <= pos'
    BY <1>1, <1>5 DEF Behind
  <2> QED
    BY <1>1, <1>5, <2>1, BehindStays
<1> QED
  BY <1>2, <1>3, <1>4, <1>5

LEMMA NextPrint == WireInv /\ PrintInv /\ [Next]_vars => PrintInv'
<1> SUFFICES ASSUME WireInv, PrintInv, [Next]_vars PROVE PrintInv'
  OBVIOUS
<1>1. CASE UNCHANGED vars
  BY <1>1, StutterKeepsPrint
<1>2. ASSUME NEW type \in {AskSymKey, SendSymKey} \cup Textual, WriteMessage(type)
      PROVE  PrintInv'
  BY <1>2 DEF WriteMessage, PrintInv
<1>3. CASE RefuseMessage
  BY <1>3 DEF RefuseMessage, PrintInv
<1>4. CASE StoreMessage
  BY <1>4 DEF StoreMessage, PrintInv
<1>5. CASE HandOut
  BY <1>5 DEF HandOut, PrintInv
<1>6. CASE ReadNothing
  BY <1>6 DEF ReadNothing, Forget, PrintInv
<1>7. CASE ReadPayload
  BY <1>7, ReadStarts
<1>8. CASE PrintRecord
  BY <1>8, PrintKeepsPrint
<1>9. CASE Overrun
  BY <1>9, OverrunKeepsPrint
<1>10. CASE PrintEnd
  BY <1>10 DEF PrintEnd, Forget, PrintInv
<1> QED
  BY <1>1, <1>2, <1>3, <1>4, <1>5, <1>6, <1>7, <1>8, <1>9, <1>10 DEF Next

LEMMA PrintCorrect == Spec => [](WireInv /\ PrintInv)
<1>1. WireInv /\ PrintInv /\ [Next]_vars => (WireInv /\ PrintInv)'
  BY NextWire, NextPrint
<1> QED
  BY <1>1, InitWire, InitPrint, PTL DEF Spec

\* The loop of __handlePullWaitingMessages takes a response that came whole apart
\* into the messages getWaitingMessages made it from, and never reads past its end,
\* whatever the lengths of the messages and however much of them the server has.
THEOREM PrintedAsPackedCorrect == Spec => []PrintedAsPacked
<1>1. WireInv /\ PrintInv => PrintedAsPacked
  <2> SUFFICES ASSUME WireInv, PrintInv, stage = "printing", ~cut
               PROVE  /\ ~overran
                      /\ AtEnd => printed = [i \in DOMAIN packed |-> AsPacked(packed[i])]
    BY DEF PrintedAsPacked
  <2>1. PICK n \in 0 .. Len(buffer) : Came(n) /\ (InStep \/ Behind(n))
    BY DEF PrintInv
  <2>2. ~(n < Len(buffer))
    BY <2>1 DEF Came
  <2>3. InStep
    BY <2>1, <2>2 DEF Behind
  <2>4. ASSUME AtEnd  PROVE printed = [i \in DOMAIN packed |-> AsPacked(packed[i])]
    <3> DEFINE N == Len(packed)
               k == Len(printed)
    <3>1. /\ packed \in Seq(StoredMessage) /\ printed \in Seq(PrintedRecord)
          /\ N \in Nat /\ k \in Nat /\ k <= N /\ N \in 0 .. N
          /\ Len(buffer) = response.size /\ response.size = Len(response.cells)
          /\ response.cells = Payloads(packed)[N] /\ pos = Sizes(packed)[k]
          /\ pos \in 0 .. Len(buffer) /\ Len(buffer) \in Nat
      BY <2>1, <2>3 DEF WireInv, BatchInv, LoopInv, AnnouncedIsSent, Came, InStep
    <3>2. Len(buffer) = Sizes(packed)[N]
      BY <3>1, PayloadLengths
    <3>3. ASSUME k # N  PROVE FALSE
      <4> DEFINE next == k + 1
      <4>1. next \in 1 .. N /\ next - 1 = k /\ N \in next .. N
        BY <3>1, <3>3
      <4> HIDE DEF k, next
      <4>2. /\ Sizes(packed)[next - 1] \in Nat /\ packed[next].size \in Nat
            /\ Sizes(packed)[next] \in Nat /\ Sizes(packed)[N] \in Nat
            /\ Sizes(packed)[next] = Sizes(packed)[next - 1] + RecordHeaderLen + packed[next].size
            /\ Sizes(packed)[next] <= Sizes(packed)[N]
        BY <3>1, <4>1, SizesGrow, RecordTurn
      <4>3. pos < Sizes(packed)[N]
        BY <3>1, <4>1, <4>2 DEF RecordHeaderLen
      <4>4. pos \in Nat /\ Sizes(packed)[N] \in Nat /\ Len(buffer) = Sizes(packed)[N]
        BY <3>1, <3>2, <4>2
      <4>5. pos < Len(buffer)
        BY <4>3, <4>4
      <4>6. pos >= Len(buffer)
        BY <2>4 DEF AtEnd
      <4> QED
        BY <4>4, <4>5, <4>6
    <3>4. \A i \in 1 .. k : printed[i] = AsPacked(packed[i])
      BY <2>3 DEF InStep, ShownAsPacked
    <3>5. DOMAIN packed = 1 .. N /\ DOMAIN printed = 1 .. k
      BY <3>1
    <3>6. printed = [i \in 1 .. k |-> printed[i]]
      BY <3>1
    <3> QED
      BY <3>3, <3>4, <3>5, <3>6
  <2> QED
    BY <2>3, <2>4 DEF InStep
<1> QED
  BY <1>1, PrintCorrect, PTL

LEMMA PackedIsWhole ==
  ASSUME NEW m \in StoredMessage
  PROVE  CutShort(AsPacked(m), AsPacked(m))
<1>1. m.content \in Seq(Cell) /\ m.size \in Nat
  BY Widths DEF StoredMessage
<1>2. /\ Padded(m.content, m.size) \in Seq(Cell)
      /\ Len(Padded(m.content, m.size)) <= Len(Padded(m.content, m.size))
  BY <1>1, PaddedIsCells
<1>3. AsPacked(m).content = Padded(m.content, m.size)
  BY DEF AsPacked
<1> HIDE DEF Padded
<1> QED
  BY <1>2, <1>3 DEF CutShort

\* A response that broke off anywhere shows no message that was not packed: the
\* valid ones are those that came, in order, and only the last may lack an end.
THEOREM NothingInventedCorrect == Spec => []NothingInvented
<1>1. WireInv /\ PrintInv => NothingInvented
  <2> SUFFICES ASSUME WireInv, PrintInv, NEW i \in DOMAIN printed, printed[i].type # NoType
               PROVE  /\ i <= Len(packed)
                      /\ \A j \in 1 .. i - 1 : printed[j] = AsPacked(packed[j])
                      /\ CutShort(printed[i], AsPacked(packed[i]))
    BY DEF NothingInvented
  <2>1. printed # <<>>
    OBVIOUS
  <2>2. stage = "printing"
    BY <2>1 DEF WireInv, LoopInv
  <2>3. PICK n \in 0 .. Len(buffer) : Came(n) /\ (InStep \/ Behind(n))
    BY <2>2 DEF PrintInv
  <2>4. /\ i \in Nat /\ i >= 1 /\ i <= Len(printed) /\ Len(printed) \in Nat
        /\ Len(packed) \in Nat
    BY DEF WireInv, LoopInv, BatchInv
  <2>5. CASE InStep
    <3>1. i <= Len(packed)
      BY <2>4, <2>5 DEF InStep
    <3>2. \A j \in 1 .. i : printed[j] = AsPacked(packed[j])
      BY <2>4, <2>5 DEF InStep, ShownAsPacked
    <3>3. packed[i] \in StoredMessage
      BY <2>4, <3>1 DEF WireInv, BatchInv
    <3>4. CutShort(AsPacked(packed[i]), AsPacked(packed[i]))
      BY <3>3, PackedIsWhole
    <3> QED
      BY <2>4, <3>1, <3>2, <3>4
  <2>6. CASE Behind(n)
    <3>1. PICK j \in 1 .. Len(packed) :
            /\ j <= Len(printed)
            /\ ShownAsPacked(j - 1)
            /\ printed[j].type # NoType => CutShort(printed[j], AsPacked(packed[j]))
            /\ \A l \in j + 1 .. Len(printed) : printed[l].type = NoType
      BY <2>6 DEF Behind
    <3>2. i <= j
      BY <2>4, <3>1
    <3>3. \A l \in 1 .. j - 1 : printed[l] = AsPacked(packed[l])
      BY <3>1 DEF ShownAsPacked
    <3>4. CASE i = j
      BY <2>4, <3>1, <3>3, <3>4
    <3>5. CASE i < j
      <4>1. i \in 1 .. j - 1 /\ i <= Len(packed)
        BY <2>4, <3>1, <3>5
      <4>2. packed[i] \in StoredMessage
        BY <2>4, <4>1 DEF WireInv, BatchInv
      <4>3. CutShort(AsPacked(packed[i]), AsPacked(packed[i]))
        BY <4>2, PackedIsWhole
      <4>4. \A l \in 1 .. i - 1 : l \in 1 .. j - 1
        BY <2>4, <3>1, <3>5
      <4> QED
        BY <3>3, <4>1, <4>3, <4>4
    <3> QED
      BY <2>4, <3>1, <3>2, <3>4, <3>5
  <2> QED
    BY <2>3, <2>5, <2>6
<1> QED
  BY <1>1, PrintCorrect, PTL
===============================================================================
