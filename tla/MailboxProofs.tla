---------------------------- MODULE MailboxProofs ----------------------------
(***************************************************************************)
(* What holds of the waiting messages, for any number of connections, when *)
(* threads are switched only at calls and at the ends of loop turns.       *)
(***************************************************************************)
EXTENDS MessageUServerProofs

-----------------------------------------------------------------------------
\* The threads between taking an ID and storing the message, and their IDs.
Storing == {c \in Conn : pc[c] = "addMessageToList"}
Pending == {sending[c].id : c \in Storing}

Packing == {c \in Conn : pc[c] \in {"packHeader", "packContent"}}

\* A message is filed under its own ID, which was taken before; an entry of the
\* iterated table leads to a message.
TableInv ==
  /\ \A i \in DOMAIN messages : messages[i].id = i /\ i < ID
  /\ \A k \in DOMAIN entries : entries[k] # Gone => entries[k] \in DOMAIN messages

\* What a pull read under key i: either it is there still, or nothing will ever
\* be under that key again.
Copy(c, i, m) ==
  /\ m.id = i
  /\ m.dest = req[c].src
  /\ i < ID
  /\ i \notin Pending
  /\ i \in DOMAIN messages => messages[i] = m

StoringInv(c) ==
  c \in Storing => sending[c].id < ID /\ sending[c].id \notin DOMAIN messages

PackingInv(c) ==
  LET i == pulling[c].id IN
    /\ c \in Packing =>
         /\ i < ID
         /\ i \notin Pending
         /\ i \in DOMAIN messages => messages[i].dest = req[c].src
    /\ pc[c] = "packContent" => Copy(c, i, pulling[c].head)

PackedInv(c) ==
  c \in Pulls =>
    /\ pulling[c].deleted <= Len(pulling[c].packed)
    /\ \A k \in DOMAIN pulling[c].packed :
         LET p == pulling[c].packed[k] IN
           p.head = p.content /\ Copy(c, p.id, p.content)

ThreadInv(c) ==
  /\ pc[c] \notin {"loadID", "storeID"}
  /\ StoringInv(c)
  /\ PackingInv(c)
  /\ PackedInv(c)

\* Two threads never hold one ID that is not stored yet.
PendingDistinct ==
  \A c, d \in Storing : sending[c].id = sending[d].id => c = d

MailInv == TableInv /\ PendingDistinct /\ \A c \in Conn : ThreadInv(c)

Labels == {"loadID", "storeID", "addMessageToList", "pullNext", "packHeader",
           "packContent", "pullDelete"}

\* Every step is a step of one thread or of one connection.
OthersStay(c) ==
  \A d \in Conn \ {c} :
    /\ pc'[d] = pc[d] /\ req'[d] = req[d]
    /\ sending'[d] = sending[d] /\ pulling'[d] = pulling[d]

-----------------------------------------------------------------------------
\* A step of one connection leaves the others where they are, with their locals.
LEMMA OneThread ==
  ASSUME TypeOK, NEW c \in Conn, Connect(c) \/ Release(c) \/ ThreadStep(c)
  PROVE  OthersStay(c)
<1>0. pc \in [Conn -> Label] /\ req \in [Conn -> Request \cup {NoRequest}]
      /\ sending \in [Conn -> SendingRecord] /\ pulling \in [Conn -> PullingRecord]
  BY DEF TypeOK, ConnTypeOK, MailboxTypeOK, LocalsTypeOK
<1> USE <1>0 DEF OthersStay, mailVars
<1>1. CASE Connect(c) \/ Release(c)
  BY <1>1 DEF Connect, Release, Accept, Leave, Goto
<1> USE DEF Raise, AbandonSocket, returnGeneralError, CloseAndEnd, Reply, ReplyLong,
            Advance, Goto, connVars
<1>2. CASE (RejectHeader(c) \/ EndSend(c)) /\ UNCHANGED mailVars
  BY <1>2 DEF RejectHeader, EndSend
<1>3. CASE RegistryStep(c) /\ UNCHANGED mailVars
  BY <1>3 DEF RegistryStep, RegisterWhole, RegisterRefused, RegisterReset, addNewClient,
     ListRefused, ListAnnounce, ListStart, ListNext, ListChanged, ListSend, KeyRefused,
     KeyReset, KeyOfNobody, KeyAnswer
<1>4. CASE SendStep(c)
  BY <1>4 DEF SendStep, SendReset, SendHeadless, SendUnparsed, SendRefused, SendChecked,
     TakeID, ReadID, LoadID, StoreID, addMessageToList
<1>5. CASE PullStep(c)
  BY <1>5 DEF PullStep, PullRefused, PullBegin, PullChanged, PullVisit, PackHeader,
     PackContent, PackGone, PullEnd, PullDelete, PullDeleteGone, PullSend, FramePopped
<1> QED
  BY <1>1, <1>2, <1>3, <1>4, <1>5 DEF ThreadStep, MailboxStep

\* Only a thread that takes an ID adds to those that are not stored yet.
LEMMA PendingShrinks ==
  ASSUME NEW c \in Conn, OthersStay(c), pc'[c] # "addMessageToList"
  PROVE  /\ Storing' \subseteq Storing \ {c}
         /\ \A d \in Storing' : sending'[d] = sending[d]
         /\ Pending' \subseteq Pending
<1>1. Storing' \subseteq Storing \ {c}
  BY DEF Storing, OthersStay
<1>2. \A d \in Storing' : sending'[d] = sending[d]
  BY <1>1 DEF OthersStay, Storing
<1> QED
  BY <1>1, <1>2 DEF Pending

-----------------------------------------------------------------------------
\* A step that leaves the table and the counter alone, and does not end before
\* the storing of a message, is of no concern to the other threads.
LEMMA LocalStep ==
  ASSUME MailInv, NEW c \in Conn, UNCHANGED <<messages, entries, ID>>, OthersStay(c),
         pc'[c] # "addMessageToList", ThreadInv(c)'
  PROVE  MailInv'
<1>1. TableInv'
  BY DEF MailInv, TableInv
<1>2. Storing' \subseteq Storing
  BY PendingShrinks
<1>3. \A d \in Storing' : sending'[d] = sending[d]
  BY PendingShrinks
<1>4. Pending' \subseteq Pending
  BY PendingShrinks
<1>5. PendingDistinct'
  BY <1>2, <1>3 DEF MailInv, PendingDistinct
<1>6. ASSUME NEW d \in Conn \ {c}  PROVE ThreadInv(d)'
  <2>1. ThreadInv(d)
    BY DEF MailInv
  <2>2. /\ pc'[d] = pc[d] /\ req'[d] = req[d]
        /\ sending'[d] = sending[d] /\ pulling'[d] = pulling[d]
    BY DEF OthersStay
  <2>3. \A i, m : Copy(d, i, m) => Copy(d, i, m)'
    BY <1>4, <2>2 DEF Copy
  <2>4. StoringInv(d)'
    BY <2>1, <2>2 DEF ThreadInv, StoringInv, Storing
  <2>5. PackingInv(d)'
    BY <1>4, <2>1, <2>2, <2>3 DEF ThreadInv, PackingInv, Packing
  <2>6. PackedInv(d)'
    BY <2>1, <2>2, <2>3 DEF ThreadInv, PackedInv, Pulls
  <2> QED
    BY <2>1, <2>2, <2>4, <2>5, <2>6 DEF ThreadInv
<1> QED
  BY <1>1, <1>5, <1>6 DEF MailInv

-----------------------------------------------------------------------------
\* The steps that take a thread out of the mailbox, or leave it outside.
LEMMA LeavingStep ==
  ASSUME MailInv, NEW c \in Conn, UNCHANGED <<messages, entries, ID>>, OthersStay(c),
         pc'[c] \notin Labels
  PROVE  MailInv'
<1>1. ThreadInv(c)'
  BY DEF ThreadInv, StoringInv, PackingInv, PackedInv, Storing, Packing, Pulls, Labels
<1> QED
  BY <1>1, LocalStep DEF Labels

-----------------------------------------------------------------------------
\* The send handler.
LEMMA SendStepInv ==
  ASSUME ~SwitchAnywhere, TypeOK, MailInv, NEW c \in Conn, SendStep(c),
         UNCHANGED registryVars
  PROVE  MailInv'
<1>0. /\ pc \in [Conn -> Label] /\ req \in [Conn -> Request \cup {NoRequest}]
      /\ sending \in [Conn -> SendingRecord] /\ pulling \in [Conn -> PullingRecord]
      /\ ID \in Nat /\ DOMAIN messages \subseteq Nat /\ ThreadInv(c)
  BY DEF TypeOK, ConnTypeOK, MailboxTypeOK, LocalsTypeOK, TableTypeOK, MailInv
<1>1. OthersStay(c)
  BY OneThread DEF ThreadStep, MailboxStep
<1>2. CASE \/ SendReset(c) \/ SendHeadless(c) \/ SendUnparsed(c) \/ SendRefused(c)
           \/ SendChecked(c)
  <2>1. pc'[c] \in {"done", "sendUnparsed", "takeID"}
    BY <1>0, <1>2 DEF SendReset, SendHeadless, SendUnparsed, SendRefused, SendChecked,
       Raise, AbandonSocket, returnGeneralError, CloseAndEnd, Advance, Goto
  <2>2. UNCHANGED <<messages, entries, ID>>
    BY <1>2 DEF SendReset, SendHeadless, SendUnparsed, SendRefused, SendChecked,
       mailVars, tableVars
  <2> QED
    BY <1>1, <2>1, <2>2, LeavingStep DEF Labels
<1>3. CASE TakeID(c)
  <2>1. /\ pc[c] = "takeID" /\ pc'[c] = "addMessageToList"
        /\ UNCHANGED <<messages, entries, pulling, req>> /\ ID' = ID + 1
        /\ sending'[c].id = ID
    BY <1>0, <1>3 DEF TakeID, Advance, Goto, tableVars, SendingRecord
  <2>2. Storing' = Storing \cup {c} /\ c \notin Storing
    BY <1>1, <2>1 DEF Storing, OthersStay
  <2>3. \A d \in Storing : sending'[d].id = sending[d].id
    BY <1>1, <2>2 DEF OthersStay, Storing
  <2>4. Pending' = Pending \cup {ID}
    BY <2>1, <2>2, <2>3 DEF Pending
  <2>5. \A d \in Storing : sending[d].id < ID
    BY DEF MailInv, ThreadInv, StoringInv, Storing
  <2>6. TableInv'
    <3>1. \A i \in DOMAIN messages : i < ID => i < ID + 1
      BY <1>0
    <3> QED
      BY <2>1, <3>1 DEF MailInv, TableInv
  <2>7. PendingDistinct'
    <3>1. \A d \in Storing : sending[d].id # ID
      BY <1>0, <2>5
    <3> QED
      BY <2>1, <2>2, <2>3, <3>1 DEF MailInv, PendingDistinct
  <2>8. \A d \in Conn, i \in Nat : i < ID => i < ID' /\ i # ID
    BY <1>0, <2>1
  <2>9. \A d \in Conn, i \in Nat : \A m : Copy(d, i, m) => Copy(d, i, m)'
    BY <2>1, <2>4, <2>8 DEF Copy
  <2>10. ASSUME NEW d \in Conn  PROVE ThreadInv(d)'
    <3>1. ThreadInv(d)
      BY DEF MailInv
    <3>2. pulling[d].id \in Nat /\ pulling[d].packed \in Seq(PackedRecord)
          /\ sending[d].id \in Nat
      BY <1>0 DEF PullingRecord, SendingRecord
    <3>3. \A k \in DOMAIN pulling[d].packed : pulling[d].packed[k].id \in Nat
      <4>1. \A k \in DOMAIN pulling[d].packed : pulling[d].packed[k] \in PackedRecord
        BY <3>2
      <4> QED
        BY <4>1 DEF PackedRecord
    <3>4. d # c => pc'[d] = pc[d] /\ sending'[d] = sending[d]
      BY <1>1 DEF OthersStay
    <3>5. StoringInv(d)'
      <4>1. CASE d = c
        <5>1. ID < ID + 1 /\ ID \notin DOMAIN messages
          BY <1>0 DEF MailInv, TableInv
        <5> QED
          BY <2>1, <4>1, <5>1 DEF StoringInv
      <4>2. CASE d # c
        BY <2>1, <2>2, <2>8, <3>1, <3>2, <3>4, <4>2 DEF ThreadInv, StoringInv
      <4> QED
        BY <4>1, <4>2
    <3>6. PackingInv(d)'
      BY <2>1, <2>4, <2>8, <2>9, <3>1, <3>2, <3>4 DEF ThreadInv, PackingInv, Packing
    <3>7. PackedInv(d)'
      BY <2>1, <2>9, <3>1, <3>3, <3>4 DEF ThreadInv, PackedInv, Pulls
    <3> QED
      BY <2>1, <3>1, <3>4, <3>5, <3>6, <3>7 DEF ThreadInv
  <2> QED
    BY <2>6, <2>7, <2>10 DEF MailInv
<1>4. CASE addMessageToList(c)
  <2> DEFINE id == sending[c].id
  <2>1. /\ c \in Storing /\ pc'[c] = "done" /\ UNCHANGED <<ID, pulling, req>>
        /\ messages' = [i \in DOMAIN messages \cup {id} |->
                          IF i = id THEN NewMessage(c) ELSE messages[i]]
        /\ entries' = IF id \in DOMAIN messages THEN entries ELSE Append(entries, id)
    BY <1>0, <1>4 DEF addMessageToList, Storing, Reply, CloseAndEnd, Goto
  <2>2. id < ID /\ id \notin DOMAIN messages /\ id \in Nat
    BY <1>0, <2>1 DEF ThreadInv, StoringInv, SendingRecord
  <2>3. Storing' = Storing \ {c}
    BY <1>1, <2>1 DEF Storing, OthersStay
  <2>4. \A d \in Storing' : sending'[d].id = sending[d].id /\ sending[d].id # id
    BY <1>1, <2>1, <2>3 DEF OthersStay, Storing, MailInv, PendingDistinct
  <2>5. Pending' \subseteq Pending /\ id \in Pending
    BY <2>1, <2>3, <2>4 DEF Pending
  <2>6. /\ DOMAIN messages' = DOMAIN messages \cup {id}
        /\ \A i \in DOMAIN messages : messages'[i] = messages[i]
    BY <2>1, <2>2
  <2>7. TableInv'
    <3>1. messages'[id].id = id
      BY <2>1 DEF NewMessage
    <3>2. entries \in Seq(Nat) /\ entries' = Append(entries, id)
      BY <2>1, <2>2 DEF TypeOK, MailboxTypeOK, TableTypeOK
    <3>3. \A k \in DOMAIN entries' :
            entries'[k] = id \/ (k \in DOMAIN entries /\ entries'[k] = entries[k])
      BY <2>2, <3>2
    <3> QED
      BY <2>1, <2>2, <2>6, <3>1, <3>3 DEF MailInv, TableInv
  <2>8. PendingDistinct'
    BY <2>3, <2>4 DEF MailInv, PendingDistinct
  <2>9. \A d, i, m : Copy(d, i, m) => Copy(d, i, m)'
    BY <2>1, <2>5, <2>6 DEF Copy
  <2>10. ASSUME NEW d \in Conn  PROVE ThreadInv(d)'
    <3>1. ThreadInv(d)
      BY DEF MailInv
    <3>2. pulling'[d] = pulling[d] /\ req'[d] = req[d]
      BY <2>1
    <3>3. d # c => pc'[d] = pc[d]
      BY <1>1 DEF OthersStay
    <3>4. StoringInv(d)'
      BY <2>1, <2>3, <2>4, <2>6, <3>1 DEF ThreadInv, StoringInv
    <3>5. PackingInv(d)'
      BY <2>1, <2>5, <2>6, <2>9, <3>1, <3>2, <3>3 DEF ThreadInv, PackingInv, Packing
    <3>6. PackedInv(d)'
      BY <2>1, <2>9, <3>1, <3>2, <3>3 DEF ThreadInv, PackedInv, Pulls
    <3> QED
      BY <2>1, <3>1, <3>3, <3>4, <3>5, <3>6 DEF ThreadInv
  <2> QED
    BY <2>7, <2>8, <2>10 DEF MailInv
<1>5. CASE ReadID(c) \/ LoadID(c) \/ StoreID(c)
  BY <1>0, <1>5 DEF ReadID, LoadID, StoreID, ThreadInv
<1> QED
  BY <1>2, <1>3, <1>4, <1>5 DEF SendStep

-----------------------------------------------------------------------------
\* The pull handler.
LEMMA PullStepInv ==
  ASSUME TypeOK, MailInv, NEW c \in Conn, PullStep(c), UNCHANGED registryVars
  PROVE  MailInv'
<1>0. /\ pc \in [Conn -> Label] /\ req \in [Conn -> Request \cup {NoRequest}]
      /\ pulling \in [Conn -> PullingRecord] /\ pulling[c] \in PullingRecord
      /\ entries \in Seq(Nat) /\ ThreadInv(c)
  BY DEF TypeOK, ConnTypeOK, MailboxTypeOK, LocalsTypeOK, TableTypeOK, MailInv
<1>1. OthersStay(c)
  BY OneThread DEF ThreadStep, MailboxStep
<1>2. CASE \/ PullRefused(c) \/ PullChanged(c) \/ PackGone(c) \/ PullDeleteGone(c)
           \/ PullSend(c)
  <2>1. pc'[c] \in {"done", "sendall"}
    BY <1>0, <1>2 DEF PullRefused, PullChanged, PackGone, PullDeleteGone, PullSend,
       Raise, AbandonSocket, returnGeneralError, CloseAndEnd, ReplyLong, Goto
  <2>2. UNCHANGED <<messages, entries, ID>>
    BY <1>2 DEF PullRefused, PullChanged, PackGone, PullDeleteGone, PullSend, FramePopped,
       mailVars, tableVars
  <2> QED
    BY <1>1, <2>1, <2>2, LeavingStep DEF Labels
<1>3. CASE PullBegin(c)
  <2>1. pc'[c] = "pullNext" /\ UNCHANGED <<messages, entries, ID>>
    BY <1>0, <1>3 DEF PullBegin, Advance, Goto, tableVars
  <2>2. pulling'[c].packed = <<>> /\ pulling'[c].deleted = 0
    BY <1>0, <1>3 DEF PullBegin, NoPulling
  <2>3. ThreadInv(c)'
    BY <2>1, <2>2 DEF ThreadInv, StoringInv, PackingInv, PackedInv, Storing, Packing, Pulls
  <2> QED
    BY <1>1, <2>1, <2>3, LocalStep
<1>4. CASE PullVisit(c) \/ PackHeader(c) \/ PackContent(c) \/ PullEnd(c)
  <2>1. /\ c \in Pulls /\ c \in Pulls'
        /\ UNCHANGED <<messages, entries, ID, req, sending>>
        /\ pulling'[c].deleted = pulling[c].deleted
    <3>1. c \in Pulls /\ c \in Pulls'
      BY <1>0, <1>4 DEF PullVisit, PackHeader, PackContent, PullEnd, Pulls, Advance, Goto
    <3>2. UNCHANGED <<messages, entries, ID, req, sending>>
      BY <1>4 DEF PullVisit, PackHeader, PackContent, PullEnd, Advance, tableVars, mailVars
    <3>3. pulling'[c].deleted = pulling[c].deleted
      <4>1. CASE PullVisit(c)
        BY <1>0, <4>1 DEF PullVisit, PullingRecord
      <4>2. CASE PackHeader(c)
        BY <1>0, <4>2 DEF PackHeader, PullingRecord
      <4>3. CASE PackContent(c)
        BY <1>0, <4>3 DEF PackContent, PullingRecord
      <4>4. CASE PullEnd(c)
        BY <4>4 DEF PullEnd, mailVars
      <4> QED
        BY <1>4, <4>1, <4>2, <4>3, <4>4
    <3> QED
      BY <3>1, <3>2, <3>3
  <2>2. Storing' = Storing
    BY <1>0, <1>1, <1>4, <2>1 DEF Storing, Pulls, OthersStay
  <2>3. Pending' = Pending
    BY <2>1, <2>2 DEF Pending
  <2>4. \A i, m : Copy(c, i, m) => Copy(c, i, m)'
    BY <2>1, <2>3 DEF Copy
  <2>5. PackedInv(c)
    BY <1>0 DEF ThreadInv
  <2>6. ASSUME pulling'[c].packed = pulling[c].packed  PROVE PackedInv(c)'
    BY <2>1, <2>4, <2>5, <2>6 DEF PackedInv
  <2>7. pc'[c] \notin {"loadID", "storeID", "addMessageToList"} /\ StoringInv(c)'
    BY <2>1 DEF Pulls, StoringInv, Storing
  <2>8. PackingInv(c)' /\ PackedInv(c)'
    <3>1. CASE PullVisit(c)
      <4>1. PICK k \in Ahead(c) :
              /\ pulling' = [pulling EXCEPT ![c] =
                               [pulling[c] EXCEPT !.pos = k, !.id = entries[k],
                                                  !.left = pulling[c].left - 1]]
              /\ Advance(c, IF messages[entries[k]].dest = req[c].src
                            THEN "packHeader" ELSE "pullNext")
        BY <3>1 DEF PullVisit
      <4>2. pulling'[c].id = entries[k] /\ pulling'[c].packed = pulling[c].packed
        BY <1>0, <4>1 DEF PullingRecord
      <4>3. entries[k] \in DOMAIN messages /\ entries[k] < ID
        BY <4>1 DEF Ahead, MailInv, TableInv
      <4>4. entries[k] \notin Pending
        BY <4>3 DEF Pending, MailInv, ThreadInv, StoringInv, Storing
      <4>5. pc'[c] = "packHeader" => messages[entries[k]].dest = req[c].src
        BY <1>0, <4>1 DEF Advance, Goto
      <4>6. pc'[c] # "packContent"
        BY <1>0, <4>1 DEF Advance, Goto
      <4> QED
        BY <2>1, <2>3, <2>6, <4>2, <4>3, <4>4, <4>5, <4>6 DEF PackingInv, Packing
    <3>2. CASE PackHeader(c)
      <4>1. /\ pulling'[c].id = pulling[c].id /\ pulling'[c].packed = pulling[c].packed
            /\ pulling'[c].head = messages[pulling[c].id]
            /\ pulling[c].id \in DOMAIN messages /\ pc[c] = "packHeader"
        BY <1>0, <3>2 DEF PackHeader, PullingRecord
      <4>2. Copy(c, pulling[c].id, messages[pulling[c].id])
        BY <1>0, <4>1 DEF ThreadInv, PackingInv, Packing, Copy, MailInv, TableInv
      <4> QED
        BY <2>1, <2>3, <2>4, <2>6, <4>1, <4>2 DEF PackingInv, Copy
    <3>3. CASE PackContent(c)
      <4> DEFINE i == pulling[c].id
                 rec == Packed(i, pulling[c].head, messages[i])
      <4>1. /\ pc[c] = "packContent" /\ pc'[c] = "pullNext" /\ i \in DOMAIN messages
            /\ pulling'[c].packed = Append(pulling[c].packed, rec)
        BY <1>0, <3>3 DEF PackContent, PullingRecord, Advance, Goto
      <4>2. Copy(c, i, pulling[c].head) /\ pulling[c].head = messages[i]
        BY <1>0, <4>1 DEF ThreadInv, PackingInv, Copy
      <4>3. rec.head = rec.content /\ Copy(c, rec.id, rec.content)
        BY <4>2 DEF Packed
      <4>4. pulling[c].packed \in Seq(PackedRecord) /\ pulling[c].deleted \in Nat
        BY <1>0 DEF PullingRecord
      <4> HIDE DEF rec
      <4>5. \A k \in DOMAIN pulling'[c].packed :
              \/ pulling'[c].packed[k] = rec
              \/ k \in DOMAIN pulling[c].packed
                 /\ pulling'[c].packed[k] = pulling[c].packed[k]
        BY <4>1, <4>4
      <4>6. pulling[c].deleted <= Len(pulling'[c].packed)
        BY <2>1, <2>5, <4>1, <4>4 DEF PackedInv
      <4>7. PackedInv(c)'
        BY <2>1, <2>4, <2>5, <4>3, <4>5, <4>6 DEF PackedInv
      <4>8. PackingInv(c)'
        BY <4>1 DEF PackingInv, Packing
      <4> QED
        BY <4>7, <4>8
    <3>4. CASE PullEnd(c)
      <4>1. pc'[c] = "pullDelete" /\ pulling' = pulling
        BY <1>0, <3>4 DEF PullEnd, Advance, Goto, mailVars
      <4> QED
        BY <2>6, <4>1 DEF PackingInv, Packing
    <3> QED
      BY <1>4, <3>1, <3>2, <3>3, <3>4
  <2>9. ThreadInv(c)'
    BY <2>7, <2>8 DEF ThreadInv
  <2> QED
    BY <1>1, <2>1, <2>7, <2>9, LocalStep
<1>5. CASE PullDelete(c)
  <2> DEFINE id == NextToDelete(c)
  <2>1. /\ c \in Pulls /\ pc[c] = "pullDelete" /\ UNCHANGED <<pc, req, ID, sending>>
        /\ messages' = [i \in DOMAIN messages \ {id} |-> messages[i]]
        /\ entries' = [k \in DOMAIN entries |-> IF entries[k] = id THEN Gone ELSE entries[k]]
        /\ pulling'[c].packed = pulling[c].packed /\ ~AllDeleted(c)
        /\ pulling'[c].deleted = pulling[c].deleted + 1
    BY <1>0, <1>5 DEF PullDelete, Pulls, connVars, PullingRecord
  <2> HIDE DEF id
  <2>2. DOMAIN messages' \subseteq DOMAIN messages
        /\ \A i \in DOMAIN messages' : messages'[i] = messages[i]
    BY <2>1
  <2>3. Pending' = Pending /\ Storing' = Storing
    BY <2>1 DEF Pending, Storing
  <2>4. TableInv'
    <3>1. \A k \in DOMAIN entries' : entries'[k] # Gone =>
            k \in DOMAIN entries /\ entries'[k] = entries[k] /\ entries[k] # id
      BY <2>1
    <3> QED
      BY <2>1, <2>2, <3>1 DEF MailInv, TableInv
  <2>5. PendingDistinct'
    BY <2>1, <2>3 DEF MailInv, PendingDistinct
  <2>6. \A d, i, m : Copy(d, i, m) => Copy(d, i, m)'
    BY <2>1, <2>2, <2>3 DEF Copy
  <2>7. ASSUME NEW d \in Conn  PROVE ThreadInv(d)'
    <3>1. ThreadInv(d) /\ pc'[d] = pc[d] /\ sending'[d] = sending[d] /\ req'[d] = req[d]
      BY <2>1 DEF MailInv
    <3>2. d # c => pulling'[d] = pulling[d]
      BY <1>1 DEF OthersStay
    <3>3. StoringInv(d)'
      BY <2>1, <2>2, <2>3, <3>1 DEF ThreadInv, StoringInv
    <3>4. PackingInv(d)'
      <4>1. CASE d = c
        BY <2>1, <4>1 DEF PackingInv, Packing
      <4>2. CASE d # c
        BY <2>1, <2>2, <2>3, <2>6, <3>1, <3>2, <4>2 DEF ThreadInv, PackingInv, Packing
      <4> QED
        BY <4>1, <4>2
    <3>5. PackedInv(d)'
      <4>1. CASE d = c
        <5>1. pulling[c].deleted \in Nat /\ pulling[c].packed \in Seq(PackedRecord)
          BY <1>0 DEF PullingRecord
        <5>2. pulling[c].deleted + 1 <= Len(pulling[c].packed)
          BY <2>1, <3>1, <4>1, <5>1 DEF ThreadInv, PackedInv, AllDeleted
        <5> QED
          BY <2>1, <2>6, <3>1, <4>1, <5>2 DEF ThreadInv, PackedInv
      <4>2. CASE d # c
        BY <2>1, <2>6, <3>1, <3>2, <4>2 DEF ThreadInv, PackedInv, Pulls
      <4> QED
        BY <4>1, <4>2
    <3> QED
      BY <3>1, <3>3, <3>4, <3>5 DEF ThreadInv
  <2> QED
    BY <2>4, <2>5, <2>7 DEF MailInv
<1> QED
  BY <1>2, <1>3, <1>4, <1>5 DEF PullStep

-----------------------------------------------------------------------------
\* At the start no thread runs and no message waits.
LEMMA MailInit == Init => MailInv
<1> SUFFICES ASSUME Init PROVE MailInv
  OBVIOUS
<1> USE DEF Init, ConnInit, MailboxInit
<1>1. \A c \in Conn : pc[c] = "free"
  OBVIOUS
<1>2. DOMAIN messages = {} /\ DOMAIN entries = {}
  OBVIOUS
<1>3. TableInv
  BY <1>2 DEF TableInv
<1>4. PendingDistinct
  BY <1>1 DEF PendingDistinct, Storing
<1>5. \A c \in Conn : ThreadInv(c)
  BY <1>1 DEF ThreadInv, StoringInv, PackingInv, PackedInv, Storing, Packing, Pulls
<1> QED
  BY <1>3, <1>4, <1>5 DEF MailInv

\* Every step keeps the invariant: those of the two mailbox handlers by the lemmas
\* above, the others because they touch neither the table nor the counter.
LEMMA MailStep ==
  ASSUME ~SwitchAnywhere, TypeOK, MailInv, [Next]_vars
  PROVE  MailInv'
<1>0. pc \in [Conn -> Label] /\ req \in [Conn -> Request \cup {NoRequest}]
  BY DEF TypeOK, ConnTypeOK
<1>1. CASE UNCHANGED vars
  BY <1>1 DEF vars, connVars, mailVars, tableVars, MailInv, TableInv, PendingDistinct,
     ThreadInv, StoringInv, PackingInv, PackedInv, Copy, Storing, Packing, Pulls, Pending
<1>2. ASSUME NEW c \in Conn,
             \/ Connect(c) \/ Release(c)
             \/ ThreadStep(c) /\ (RejectHeader(c) \/ EndSend(c) \/ RegistryStep(c)),
             UNCHANGED mailVars
      PROVE  MailInv'
  <2>1. UNCHANGED <<messages, entries, ID, sending, pulling>>
    BY <1>2 DEF mailVars, tableVars
  <2>2. OthersStay(c)
    BY <1>2, OneThread
  <2>3. pc'[c] \in {"recvHeader", "free", "sendall", "done", "addNewClient", "listStart",
                    "listNext"}
    BY <1>0, <1>2 DEF Connect, Release, Accept, Leave, RejectHeader, EndSend,
       RegistryStep, RegisterWhole, RegisterRefused, RegisterReset, addNewClient,
       ListRefused, ListAnnounce, ListStart, ListNext, ListChanged, ListSend, KeyRefused,
       KeyReset, KeyOfNobody, KeyAnswer, Raise, AbandonSocket, returnGeneralError,
       CloseAndEnd, Reply, Advance, Goto, connVars
  <2> QED
    BY <2>1, <2>2, <2>3, LeavingStep DEF Labels
<1>3. ASSUME LoseAccept \/ \E c \in Conn : Talk(c) \/ Hangup(c)  PROVE MailInv'
  <2>1. UNCHANGED <<pc, req, messages, entries, ID, sending, pulling>>
    BY <1>3 DEF LoseAccept, AcceptError, Talk, Write, Read, Hangup, Drop, mailVars,
                tableVars
  <2> QED
    BY <2>1 DEF MailInv, TableInv, PendingDistinct, ThreadInv, StoringInv, PackingInv,
       PackedInv, Copy, Storing, Packing, Pulls, Pending
<1>4. ASSUME NEW c \in Conn, ThreadStep(c)  PROVE MailInv'
  BY <1>2, <1>4, SendStepInv, PullStepInv DEF ThreadStep, MailboxStep
<1>5. ASSUME NEW c \in Conn, Connect(c) \/ Release(c)  PROVE MailInv'
  BY <1>2, <1>5 DEF Connect, Release
<1> QED
  BY <1>1, <1>3, <1>4, <1>5 DEF Next

\* The invariant holds throughout.
LEMMA MailCorrect == ASSUME ~SwitchAnywhere PROVE Spec => [](TypeOK /\ MailInv)
<1>1. Init => MailInv
  BY MailInit
<1>2. TypeOK /\ MailInv /\ [Next]_vars => MailInv'
  BY MailStep
<1> QED
  BY <1>1, <1>2, TypeCorrect, PTL DEF Spec

\* However many pulls and sends run side by side, no pull packs a message for
\* anybody but its requester, and none mixes the header of one message with the
\* content of another.
THEOREM PackedCorrect == ASSUME ~SwitchAnywhere PROVE Spec => []PackedForRequester
<1>1. ASSUME MailInv  PROVE PackedForRequester
  <2> SUFFICES ASSUME NEW c \in Pulls, NEW i \in DOMAIN pulling[c].packed
               PROVE  /\ pulling[c].packed[i].head = pulling[c].packed[i].content
                      /\ pulling[c].packed[i].content.dest = req[c].src
    BY DEF PackedForRequester
  <2>1. PackedInv(c)
    BY <1>1 DEF MailInv, ThreadInv, Pulls
  <2> QED
    BY <2>1 DEF PackedInv, Copy
<1> QED
  BY <1>1, MailCorrect, PTL

\* One step: the table changes when a message is stored, under an unused ID, or
\* when a pull deletes what it has packed.
LEMMA TakenStep ==
  ASSUME TypeOK, MailInv, [Next]_vars
  PROVE  \A i \in DOMAIN messages :
           \/ i \in DOMAIN messages' /\ messages'[i] = messages[i]
           \/ \E c \in Pulls :
                /\ req[c].src = messages[i].dest
                /\ \E k \in DOMAIN pulling[c].packed :
                     pulling[c].packed[k].content = messages[i]
<1> SUFFICES ASSUME NEW i \in DOMAIN messages,
                    ~(i \in DOMAIN messages' /\ messages'[i] = messages[i])
             PROVE  \E c \in Pulls :
                      /\ req[c].src = messages[i].dest
                      /\ \E k \in DOMAIN pulling[c].packed :
                           pulling[c].packed[k].content = messages[i]
  OBVIOUS
<1>0. ~(UNCHANGED messages)
  OBVIOUS
<1>1. PICK c \in Conn : addMessageToList(c) \/ PullDelete(c)
  <2>1. PICK c \in Conn :
          Connect(c) \/ Talk(c) \/ Hangup(c) \/ Release(c) \/ ThreadStep(c)
    BY <1>0 DEF Next, LoseAccept, vars, mailVars, tableVars
  <2>2. SendStep(c) \/ PullStep(c)
    BY <1>0, <2>1 DEF Connect, Talk, Hangup, Release, ThreadStep, MailboxStep, mailVars,
                      tableVars
  <2>3. SendStep(c) => addMessageToList(c)
    BY <1>0 DEF SendStep, SendReset, SendHeadless, SendUnparsed, SendRefused, SendChecked,
       TakeID, ReadID, LoadID, StoreID, mailVars, tableVars
  <2>4. PullStep(c) => PullDelete(c)
    BY <1>0 DEF PullStep, PullRefused, PullBegin, PullChanged, PullVisit, PackHeader,
       PackContent, PackGone, PullEnd, PullDeleteGone, PullSend, FramePopped, mailVars,
       tableVars
  <2> QED
    BY <2>2, <2>3, <2>4
<1>2. ThreadInv(c)
  BY DEF MailInv
<1>3. CASE addMessageToList(c)
  <2>1. sending[c].id \notin DOMAIN messages
    BY <1>2, <1>3 DEF addMessageToList, ThreadInv, StoringInv, Storing
  <2> QED
    BY <1>3, <2>1 DEF addMessageToList
<1>4. CASE PullDelete(c)
  <2> DEFINE k == pulling[c].deleted + 1
  <2>1. c \in Pulls /\ k \in DOMAIN pulling[c].packed
    <3>1. pulling[c].packed \in Seq(PackedRecord) /\ pulling[c].deleted \in Nat
      BY DEF TypeOK, MailboxTypeOK, LocalsTypeOK, PullingRecord
    <3>2. c \in Pulls /\ pulling[c].deleted # Len(pulling[c].packed)
      BY <1>4 DEF PullDelete, Pulls, AllDeleted
    <3>3. pulling[c].deleted <= Len(pulling[c].packed)
      BY <1>2, <3>2 DEF ThreadInv, PackedInv
    <3> QED
      BY <3>1, <3>2, <3>3
  <2>2. i = pulling[c].packed[k].id
    BY <1>4 DEF PullDelete, NextToDelete
  <2>3. Copy(c, i, pulling[c].packed[k].content)
    BY <1>2, <2>1, <2>2 DEF ThreadInv, PackedInv
  <2> HIDE DEF k
  <2> QED
    BY <2>1, <2>3 DEF Copy
<1> QED
  BY <1>1, <1>3, <1>4

\* However they run side by side, a stored message stays as it is until a pull of
\* its recipient that has packed it deletes it.
THEOREM TakenCorrect == ASSUME ~SwitchAnywhere PROVE Spec => TakenByRecipient
<1>1. TypeOK /\ MailInv /\ [Next]_vars =>
        [\A i \in DOMAIN messages :
           \/ i \in DOMAIN messages' /\ messages'[i] = messages[i]
           \/ \E c \in Pulls :
                /\ req[c].src = messages[i].dest
                /\ \E k \in DOMAIN pulling[c].packed :
                     pulling[c].packed[k].content = messages[i]]_vars
  BY TakenStep
<1> QED
  BY <1>1, MailCorrect, PTL DEF Spec, TakenByRecipient
=============================================================================
