------------------------- MODULE MessageUClientProofs -------------------------
(***************************************************************************)
(* What holds of the clients for every set of programs, names, keys and    *)
(* messages, whatever is lost or cut and whoever is started again.         *)
(***************************************************************************)
EXTENDS MessageUClient, ClientProofs

-----------------------------------------------------------------------------
\* The loops of the handlers

\* The messages for some recipients.
Selected(recipients, messages) ==
  {messages[i] : i \in {j \in DOMAIN messages : messages[j].dest \in recipients}}

LEMMA SequenceOfMore ==
  ASSUME NEW S, NEW T, S \subseteq T, NEW s \in Seq(S)
  PROVE  s \in Seq(T)
<1>1. Len(s) \in Nat /\ s \in [1 .. Len(s) -> S]
  OBVIOUS
<1>2. s \in [1 .. Len(s) -> T]
  BY <1>1
<1> QED
  BY <1>1, <1>2, SeqDef

LEMMA MessagesForSelects ==
  ASSUME NEW recipients, NEW messages, NEW M, messages \in Seq(M)
  PROVE  /\ MessagesFor(recipients, messages) \in Seq(Selected(recipients, messages))
         /\ Len(MessagesFor(recipients, messages)) <= Len(messages)
<1> DEFINE N == Len(messages)
           S == Seq(Selected(recipients, messages))
           turn(n, t) == IF messages[n].dest \in recipients THEN Append(t, messages[n]) ELSE t
           start == <<>>
           Turns(f) == [n \in 0 .. N |-> IF n = 0 THEN start ELSE turn(n, f[n - 1])]
           step == [n \in 1 .. N |-> [t \in S |-> turn(n, t)]]
           found == CHOOSE f : f = Turns(f)
<1>1. N \in Nat /\ DOMAIN messages = 1 .. N
  OBVIOUS
<1>2. start \in S /\ Len(start) = 0
  OBVIOUS
<1>3. \A n \in 1 .. N : \A t \in S : turn(n, t) \in S /\ Len(turn(n, t)) <= Len(t) + 1
  <2> SUFFICES ASSUME NEW n \in 1 .. N, NEW t \in S
               PROVE  turn(n, t) \in S /\ Len(turn(n, t)) <= Len(t) + 1
    OBVIOUS
  <2>1. messages[n].dest \in recipients => messages[n] \in Selected(recipients, messages)
    BY <1>1 DEF Selected
  <2> QED
    BY <2>1
<1>7. MessagesFor(recipients, messages) = found[N]
  BY DEF MessagesFor
<1> HIDE DEF N, turn, start
<1>4. step \in [1 .. N -> [S -> S]]
  <2> HIDE DEF S
  <2> QED
    BY <1>3
<1>5. \E f : f = Turns(f)
  <2>1. PICK f \in [0 .. N -> S] :
          f[0] = start /\ \A n \in 1 .. N : f[n] = step[n][f[n - 1]]
    <3> HIDE DEF step, S
    <3>1. Loops(S, N, start, step) # {}
      BY <1>1, <1>2, <1>4, LoopExists
    <3> QED
      BY <3>1 DEF Loops
  <2>2. \A n \in 1 .. N : step[n][f[n - 1]] = turn(n, f[n - 1])
    <3> HIDE DEF S
    <3> QED
      BY <1>1
  <2> HIDE DEF step
  <2>3. f = Turns(f)
    BY <2>1, <2>2
  <2> QED
    BY <2>3
<1>6. found = Turns(found)
  BY <1>5
<1> HIDE DEF found
<1>8. found[0] = start /\ \A n \in 1 .. N : found[n] = turn(n, found[n - 1])
  BY <1>1, <1>6
<1> DEFINE T == {n \in 0 .. N : found[n] \in S /\ Len(found[n]) <= n}
<1>9. 0 .. N \subseteq T
  <2>1. 0 \in T
    <3> HIDE DEF S
    <3> QED
      BY <1>1, <1>2, <1>8
  <2>2. ASSUME NEW n \in 1 .. N, n - 1 \in T  PROVE n \in T
    <3>1. found[n - 1] \in S /\ Len(found[n - 1]) <= n - 1
      BY <2>2
    <3>2. found[n] \in S /\ Len(found[n]) <= Len(found[n - 1]) + 1
      BY <1>3, <1>8, <3>1
    <3>3. Len(found[n]) \in Nat /\ Len(found[n - 1]) \in Nat
      BY <3>1, <3>2
    <3> QED
      BY <1>1, <3>1, <3>2, <3>3
  <2> HIDE DEF T
  <2> QED
    BY <1>1, <2>1, <2>2, TurnInduction
<1>10. N \in T
  BY <1>1, <1>9
<1> QED
  BY <1>7, <1>10 DEF N

\* Where the key of a contact comes from: it was there, or was in a message that
\* is filed under this contact.
KeyFrom(p, s, batch, t, u) ==
  \/ t.contactsList[u].symmetricKey = s.contactsList[u].symmetricKey
  \/ \E i \in DOMAIN batch :
       /\ batch[i].type = "SEND_SYM_KEY" /\ batch[i].sealed = uuid[p]
       /\ batch[i].src \in DOMAIN s.contactsList /\ FiledUnder(s, batch[i]) = u
       /\ batch[i].key = t.contactsList[u].symmetricKey

\* The stores a batch can lead to: it brings keys and nothing else.
Keyed(p, s, batch) ==
  {t \in Stores :
     /\ t.clientsList = s.clientsList
     /\ DOMAIN t.contactsList = DOMAIN s.contactsList
     /\ \A u \in DOMAIN s.contactsList :
          /\ t.contactsList[u].username = s.contactsList[u].username
          /\ KeyFrom(p, s, batch, t, u)}

Printing(p, s, batch) ==
  [at : {"loop", "returned", "terminated"}, store : Keyed(p, s, batch), complete : BOOLEAN]

LEMMA OpenKeyKeeps ==
  ASSUME NEW p, NEW s, IsStore(s), Finds(s), NEW batch \in Seq(Message),
         NEW t \in Keyed(p, s, batch), NEW i \in DOMAIN batch,
         batch[i].type = "SEND_SYM_KEY", RSADecrypts(p, batch[i]),
         isContactExistInList(t, batch[i].src)
  PROVE  setSymmetricKey(t, FiledUnder(t, batch[i]), batch[i].key) \in Keyed(p, s, batch)
<1> DEFINE m == batch[i]
           w == FiledUnder(s, m)
           old == t.contactsList
           keyed == [old EXCEPT ![w].symmetricKey = m.key]
           new == [clientsList |-> t.clientsList, contactsList |-> keyed]
<1>1. /\ IsStore(t) /\ t.clientsList = s.clientsList
      /\ DOMAIN old = DOMAIN s.contactsList
      /\ \A u \in DOMAIN old : /\ old[u].username = s.contactsList[u].username
                               /\ KeyFrom(p, s, batch, t, u)
  BY StoresAreStores DEF Keyed
<1>2. m.src \in DOMAIN old /\ FiledUnder(t, m) = w /\ w \in DOMAIN old
  BY <1>1 DEF isContactExistInList, FiledUnder, getClientUUIDfromClientsList, getContact,
     Finds
<1>3. m.key \in Key \cup {NoKey}
  <2>1. m \in Message
    OBVIOUS
  <2> QED
    BY <2>1 DEF Message
<1> HIDE DEF w
<1>4. setSymmetricKey(t, FiledUnder(t, m), m.key) = new
  <2>1. setSymmetricKey(t, w, m.key) = [t EXCEPT !.contactsList = keyed]
    BY DEF setSymmetricKey
  <2>2. t = [clientsList |-> t.clientsList, contactsList |-> t.contactsList]
    BY <1>1 DEF IsStore
  <2>3. [t EXCEPT !.contactsList = keyed] = new
    <3> HIDE DEF keyed
    <3> QED
      BY <2>2
  <2> QED
    BY <1>2, <2>1, <2>3
<1>5. /\ keyed \in [DOMAIN old -> Contact]
      /\ \A u \in DOMAIN old : keyed[u].username = old[u].username
      /\ \A u \in DOMAIN old \ {w} : keyed[u] = old[u]
      /\ keyed[w].symmetricKey = m.key
  <2>1. old \in [DOMAIN old -> Contact] /\ old[w] \in Contact
    BY <1>1, <1>2 DEF IsStore
  <2> HIDE DEF m, old
  <2> QED
    BY <1>2, <1>3, <2>1 DEF Contact
<1> HIDE DEF keyed
<1>6. new.clientsList = t.clientsList /\ new.contactsList = keyed
  OBVIOUS
<1>7. new \in Stores
  BY <1>1, <1>5, <1>6, StoresAreStores DEF IsStore
<1>8. ASSUME NEW u \in DOMAIN old  PROVE KeyFrom(p, s, batch, new, u)
  <2>1. CASE u = w
    BY <1>1, <1>2, <1>5, <1>6, <2>1 DEF KeyFrom, RSADecrypts, w
  <2>2. CASE u # w
    BY <1>1, <1>5, <1>6, <1>8, <2>2 DEF KeyFrom
  <2> QED
    BY <2>1, <2>2
<1> HIDE DEF new
<1> QED
  BY <1>1, <1>4, <1>5, <1>6, <1>7, <1>8 DEF Keyed

LEMMA PrintMessageKeeps ==
  ASSUME NEW p, NEW s, IsStore(s), Finds(s), NEW batch \in Seq(Message), NEW luck,
         NEW state \in Printing(p, s, batch), NEW i \in DOMAIN batch
  PROVE  PrintMessage(p, state, batch[i], luck) \in Printing(p, s, batch)
<1> DEFINE m == batch[i]
           K == Keyed(p, s, batch)
<1>1. state \in [at : {"loop", "returned", "terminated"}, store : K, complete : BOOLEAN]
  BY DEF Printing
<1> HIDE DEF K
<1>2. CASE isContactExistInList(state.store, m.src) /\ m.type = "SEND_SYM_KEY"
           /\ RSADecrypts(p, m)
  <2>1. setSymmetricKey(state.store, FiledUnder(state.store, m), m.key) \in K
    BY <1>1, <1>2, OpenKeyKeeps DEF K
  <2> HIDE DEF m
  <2> QED
    BY <1>1, <1>2, <2>1 DEF PrintMessage, OpenKey, Printing, m, K
<1>3. CASE ~(isContactExistInList(state.store, m.src) /\ m.type = "SEND_SYM_KEY"
             /\ RSADecrypts(p, m))
  <2>1. /\ [state EXCEPT !.complete = FALSE] \in Printing(p, s, batch)
        /\ [state EXCEPT !.at = "terminated"] \in Printing(p, s, batch)
        /\ [state EXCEPT !.at = "returned"] \in Printing(p, s, batch)
        /\ [state EXCEPT !.at = "returned", !.complete = FALSE] \in Printing(p, s, batch)
    BY <1>1 DEF Printing, K
  <2> HIDE DEF m
  <2>2. PrintMessage(p, state, m, luck) \in
          {state, [state EXCEPT !.complete = FALSE], [state EXCEPT !.at = "terminated"],
           [state EXCEPT !.at = "returned"],
           [state EXCEPT !.at = "returned", !.complete = FALSE]}
    BY <1>3 DEF PrintMessage, OpenKey, OpenText
  <2> QED
    BY <2>1, <2>2 DEF m
<1> QED
  BY <1>2, <1>3

\* The loop over the messages of a response.
LEMMA PrintBatchKeeps ==
  ASSUME NEW p, IsStore(store[p]), Finds(store[p]), NEW batch \in Seq(Message), NEW luck
  PROVE  PrintBatch(p, batch, luck) \in Printing(p, store[p], batch)
<1> DEFINE N == Len(batch)
           S == Printing(p, store[p], batch)
           start == [at |-> "loop", store |-> store[p], complete |-> TRUE]
           Turns(f) == [n \in 0 .. N |->
                          IF n = 0 THEN start
                          ELSE PrintMessage(p, f[n - 1], batch[n], luck)]
           step == [n \in 1 .. N |-> [t \in S |-> PrintMessage(p, t, batch[n], luck)]]
           turn == CHOOSE f : f = Turns(f)
<1>1. N \in Nat /\ DOMAIN batch = 1 .. N
  OBVIOUS
<1>2. start \in S
  BY StoresAreStores DEF Printing, Keyed, KeyFrom
<1>3. \A n \in 1 .. N : \A t \in S : PrintMessage(p, t, batch[n], luck) \in S
  BY <1>1, PrintMessageKeeps
<1>7. PrintBatch(p, batch, luck) = turn[N]
  BY DEF PrintBatch
<1> HIDE DEF N, S, start
<1>4. step \in [1 .. N -> [S -> S]]
  BY <1>3
<1>5. \E f : f = Turns(f)
  <2>1. PICK f \in [0 .. N -> S] :
          f[0] = start /\ \A n \in 1 .. N : f[n] = step[n][f[n - 1]]
    <3> HIDE DEF step
    <3>1. Loops(S, N, start, step) # {}
      BY <1>1, <1>2, <1>4, LoopExists
    <3> QED
      BY <3>1 DEF Loops
  <2>2. \A n \in 1 .. N : step[n][f[n - 1]] = PrintMessage(p, f[n - 1], batch[n], luck)
    BY <1>1
  <2> HIDE DEF step
  <2>3. f = Turns(f)
    BY <2>1, <2>2
  <2> QED
    BY <2>3
<1>6. turn = Turns(turn)
  BY <1>5
<1> HIDE DEF turn
<1>8. turn[0] = start /\ \A n \in 1 .. N : turn[n] = PrintMessage(p, turn[n - 1], batch[n], luck)
  BY <1>1, <1>6
<1> DEFINE T == {n \in 0 .. N : turn[n] \in S}
<1>9. 0 .. N \subseteq T
  <2>1. 0 \in T
    BY <1>1, <1>2, <1>8
  <2>2. \A n \in 1 .. N : n - 1 \in T => n \in T
    BY <1>1, <1>3, <1>8
  <2> HIDE DEF T
  <2> QED
    BY <1>1, <2>1, <2>2, TurnInduction
<1> QED
  BY <1>1, <1>7, <1>9 DEF S

-----------------------------------------------------------------------------
\* Types, and the lookups nobody tests

GoodCall(c) == c \in Calls \/ IsAnswer(c)

\* What the stage and the operation of a call say of its fields.
LEMMA CallFields ==
  ASSUME NEW c, GoodCall(c)
  PROVE  /\ c # NoCall => c.src \in AnyUUID
         /\ c.stage = "asked" /\ c.op = "REGISTER" => c.args \in AnyName
         /\ c.stage = "asked" /\ c.op = "SEND" => c.args \in Message
         /\ c.stage = "checked" => c.op = "REGISTER" /\ c.args \in AnyName
         /\ c.stage = "answered" => IsAnswer(c)
         /\ c.stage # "answered" => c \in Calls
         /\ c.stage = "checked" =>
              c = [stage |-> "checked", op |-> "REGISTER", src |-> c.src, args |-> c.args]
         /\ c.stage = "asked" =>
              c = [stage |-> "asked", op |-> c.op, src |-> c.src, args |-> c.args]
BY DEF GoodCall, Calls, IsAnswer, NoCall

CallsOK ==
  /\ DOMAIN call = Exchange /\ \A x \in Exchange : GoodCall(call[x])
  /\ \A x \in Orphan : call[x] \in Calls

LEMMA CallChanges ==
  ASSUME CallsOK, NEW x \in Exchange, NEW c, GoodCall(c), x \in Orphan => c \in Calls,
         call' = [call EXCEPT ![x] = c]
  PROVE  CallsOK'
BY DEF CallsOK

\* An orphan takes over the call of a program that gives up.
TakenOver(p, x) ==
  /\ call[x] = NoCall /\ call[p].stage \in {"asked", "checked"}
  /\ call'[x] = call[p] /\ call'[p] = NoCall

\* The calls of the others, when a program's call changes.
OtherCalls(p) ==
  /\ \A q \in Program \ {p} : call'[q] = call[q]
  /\ \A x \in Orphan : call'[x] = call[x] \/ TakenOver(p, x)

LEMMA AbandonMoves ==
  ASSUME CallsOK, NEW p \in Program, Abandon(p) \/ GoOn(p)
  PROVE  CallsOK' /\ call'[p] = NoCall /\ OtherCalls(p)
<1>0. p \in Exchange /\ p \in DOMAIN call /\ p \notin Orphan
  BY PicksAssumption DEF CallsOK, Exchange
<1>1. CASE call[p] = NoCall /\ UNCHANGED call
  BY <1>1 DEF CallsOK, OtherCalls
<1>2. CASE Done(p)
  <2>1. CallsOK'
    BY <1>0, <1>2, CallChanges DEF Done, GoodCall, Calls
  <2> QED
    BY <1>0, <1>2, <2>1, PicksAssumption DEF Done, OtherCalls, CallsOK, Exchange
<1>3. CASE GoOn(p)
  <2>1. PICK x \in Orphan :
          call[x] = NoCall /\ call' = [call EXCEPT ![p] = NoCall, ![x] = call[p]]
    BY <1>3 DEF GoOn
  <2>2. call[p].stage \in {"asked", "checked"} /\ GoodCall(call[p])
    BY <1>0, <1>3 DEF GoOn, CallsOK
  <2>3. call[p] \in Calls
    BY <2>2, CallFields
  <2>4. x \in DOMAIN call /\ x # p
    BY <1>0 DEF CallsOK, Exchange
  <2>5. /\ DOMAIN call' = Exchange /\ call'[p] = NoCall /\ call'[x] = call[p]
        /\ \A y \in Exchange \ {p, x} : call'[y] = call[y]
    BY <1>0, <2>1, <2>4 DEF CallsOK
  <2>6. CallsOK'
    <3>1. NoCall \in Calls
      BY DEF Calls
    <3>2. \A y \in Exchange : GoodCall(call'[y])
      BY <2>3, <2>5, <3>1 DEF CallsOK, GoodCall
    <3>3. \A y \in Orphan : call'[y] \in Calls
      <4>1. Orphan \subseteq Exchange
        BY DEF Exchange
      <4> QED
        BY <1>0, <2>3, <2>5, <4>1 DEF CallsOK
    <3> QED
      BY <2>5, <3>2, <3>3 DEF CallsOK
  <2>7. OtherCalls(p)
    BY <1>0, <2>1, <2>2, <2>5, PicksAssumption DEF OtherCalls, TakenOver, Exchange
  <2> QED
    BY <2>5, <2>6, <2>7
<1> QED
  BY <1>1, <1>2, <1>3 DEF Abandon

StoresOK ==
  /\ DOMAIN store = Program
  /\ \A p \in Program : IsStore(store[p]) /\ Finds(store[p])

LocalsOK ==
  /\ registered \in [Program -> BOOLEAN] /\ uuid \in [Program -> AnyUUID]
  /\ running \in [Program -> BOOLEAN] /\ unprinted \subseteq Program

ServerOK ==
  /\ directory \in Seq(ClientRecord)
  /\ mailbox \in Seq(Message) /\ Len(mailbox) <= MailboxBound
  /\ restarts \in 0 .. MaxRestarts
  /\ UUIDsInUse \subseteq issued /\ issued \subseteq UUID
  /\ doubled \subseteq AnyName

KeysOK == made \in [Key -> [by : AnyUUID, for : AnyUUID]] /\ sent \subseteq Key

LEMMA TypeParts ==
  (TypeOK /\ LookupsFind) <=> (CallsOK /\ StoresOK /\ LocalsOK /\ ServerOK /\ KeysOK)
BY DEF TypeOK, LookupsFind, CallsOK, StoresOK, LocalsOK, ServerOK, KeysOK, GoodCall, Exchange,
   Finds, Known, Dest, isContactExistInList, isClientExistInList, getClientUUIDfromClientsList,
   getContact

LEMMA TypePartsPrimed ==
  (TypeOK /\ LookupsFind)' <=> (CallsOK /\ StoresOK /\ LocalsOK /\ ServerOK /\ KeysOK)'
BY TypeParts, PTL

\* The steps that write a request: only the call changes, and the key that is made.
LEMMA CommandType ==
  ASSUME TypeOK, LookupsFind, NEW p \in Program, Command(p)
  PROVE  (TypeOK /\ LookupsFind)'
<1>0. CallsOK /\ StoresOK /\ LocalsOK /\ ServerOK /\ KeysOK /\ IsStore(store[p]) /\ Finds(store[p])
  BY TypeParts DEF StoresOK
<1>1. /\ uuid[p] \in AnyUUID
      /\ \A name \in Known(p) :
           /\ Dest(p, name) \in AnyUUID
           /\ getContact(store[p], Dest(p, name)) \in Contact
  BY <1>0 DEF LocalsOK, Known, Dest, getClientUUIDfromClientsList, getContact, IsStore, Finds
<1>2. StoresOK' /\ ServerOK'
  BY <1>0 DEF Command, Register, GetClientsList, GetPublicKey, GetWaitingMessages,
     AskForSymmetricKey, SendTextOrFile, SendSymmetricKey, SendKeyToZero, localVars,
     serverVars, StoresOK, ServerOK, UUIDsInUse
<1>3. LocalsOK'
  BY <1>0 DEF Command, Register, GetClientsList, GetPublicKey, GetWaitingMessages,
     AskForSymmetricKey, SendTextOrFile, SendSymmetricKey, SendKeyToZero, Terminate,
     localVars, history, LocalsOK
<1>4. KeysOK'
  <2>1. CASE SendSymmetricKey(p)
    BY <1>0, <1>1, <2>1 DEF SendSymmetricKey, KeysOK
  <2>2. CASE ~SendSymmetricKey(p)
    BY <1>0, <2>2 DEF Command, Register, GetClientsList, GetPublicKey, GetWaitingMessages,
       AskForSymmetricKey, SendTextOrFile, SendKeyToZero, history, KeysOK
  <2> QED
    BY <2>1, <2>2
<1>5. \E c : GoodCall(c) /\ call' = [call EXCEPT ![p] = c]
  <2>1. ASSUME NEW op, NEW args, Request(p, op, args),
               [stage |-> "asked", op |-> op, src |-> uuid[p], args |-> args] \in Calls
        PROVE  \E c : GoodCall(c) /\ call' = [call EXCEPT ![p] = c]
    BY <2>1 DEF Request, GoodCall
  <2>2. ASSUME NEW type, NEW dest \in AnyUUID, NEW key \in Key \cup {NoKey},
               NEW sealed \in UUID \cup {NoKey}, Send(p, type, dest, key, sealed)
        PROVE  \E c : GoodCall(c) /\ call' = [call EXCEPT ![p] = c]
    <3> DEFINE m == [type |-> type, src |-> uuid[p], dest |-> dest, key |-> key, sealed |-> sealed]
    <3>1. m \in Message /\ Request(p, "SEND", m)
      BY <1>1, <2>2, PicksAssumption DEF Send, Message
    <3> HIDE DEF m
    <3>2. [stage |-> "asked", op |-> "SEND", src |-> uuid[p], args |-> m] \in Calls
      BY <1>1, <3>1 DEF Calls
    <3> QED
      BY <2>1, <3>1, <3>2
  <2>3. CASE Register(p)
    <3>1. PICK name \in Picks[p] : Request(p, "REGISTER", name)
      BY <2>3 DEF Register
    <3>2. name \in AnyName
      BY PicksAssumption
    <3>3. [stage |-> "asked", op |-> "REGISTER", src |-> uuid[p], args |-> name] \in Calls
      BY <1>1, <3>2 DEF Calls
    <3> QED
      BY <2>1, <3>1, <3>3
  <2>4. CASE GetClientsList(p) \/ GetWaitingMessages(p)
    <3>1. /\ [stage |-> "asked", op |-> "LIST", src |-> uuid[p], args |-> NoPayload] \in Calls
          /\ [stage |-> "asked", op |-> "PULL", src |-> uuid[p], args |-> NoPayload] \in Calls
      BY <1>1 DEF Calls
    <3> QED
      BY <2>1, <2>4, <3>1 DEF GetClientsList, GetWaitingMessages
  <2>5. CASE GetPublicKey(p)
    <3>1. PICK name \in Known(p) : Request(p, "KEY", Dest(p, name))
      BY <2>5 DEF GetPublicKey
    <3>2. [stage |-> "asked", op |-> "KEY", src |-> uuid[p], args |-> Dest(p, name)] \in Calls
      BY <1>1, <3>1 DEF Calls
    <3> QED
      BY <2>1, <3>1, <3>2
  <2>6. CASE AskForSymmetricKey(p)
    <3>1. PICK name \in Known(p) : Send(p, "ASK_SYM_KEY", Dest(p, name), NoKey, NoKey)
      BY <2>6 DEF AskForSymmetricKey
    <3> QED
      BY <1>1, <2>2, <3>1
  <2>7. CASE SendTextOrFile(p)
    <3>1. PICK name \in Known(p), type \in {"SEND_TEXT_MSG", "SEND_FILE"} :
            Send(p, type, Dest(p, name),
                 getContact(store[p], Dest(p, name)).symmetricKey, NoKey)
      BY <2>7 DEF SendTextOrFile
    <3>2. getContact(store[p], Dest(p, name)).symmetricKey \in Key \cup {NoKey}
      BY <1>1, <3>1 DEF Contact
    <3> QED
      BY <1>1, <2>2, <3>1, <3>2
  <2>8. CASE SendSymmetricKey(p)
    <3>1. PICK name \in Known(p), key \in Key :
            LET publicKey == getContact(store[p], Dest(p, name)).publicKey IN
              RSALoads(publicKey) /\ Send(p, "SEND_SYM_KEY", Dest(p, name), key, publicKey)
      BY <2>8 DEF SendSymmetricKey
    <3>2. getContact(store[p], Dest(p, name)).publicKey \in UUID \cup {NoKey}
      BY <1>1, <3>1 DEF Contact, RSALoads
    <3> QED
      BY <1>1, <2>2, <3>1, <3>2
  <2>9. CASE SendKeyToZero(p)
    BY <2>9 DEF SendKeyToZero, Terminate, GoodCall, Calls
  <2> QED
    BY <2>3, <2>4, <2>5, <2>6, <2>7, <2>8, <2>9 DEF Command
<1>6. CallsOK'
  BY <1>0, <1>5, CallChanges, PicksAssumption DEF Exchange
<1> QED
  BY <1>2, <1>3, <1>4, <1>6, TypePartsPrimed

\* The steps of the server: it answers, and keeps what its two dicts hold.
LEMMA ServeType ==
  ASSUME TypeOK, LookupsFind, NEW x \in Exchange, Serve(x)
  PROVE  (TypeOK /\ LookupsFind)'
<1>0. /\ CallsOK /\ StoresOK /\ LocalsOK /\ ServerOK /\ KeysOK
      /\ GoodCall(call[x]) /\ x \in DOMAIN call
  BY TypeParts DEF CallsOK
<1>1. StoresOK' /\ LocalsOK'
  BY <1>0 DEF Serve, Refuse, CheckName, AddClient, GiveList, GiveKey, StoreMessage,
     HandMessages, localVars, history, StoresOK, LocalsOK
<1>2. KeysOK'
  <2>1. CASE StoreMessage(x)
    <3>1. call[x].args \in Message
      BY <1>0, <2>1, CallFields DEF StoreMessage, Asked
    <3> QED
      BY <1>0, <2>1, <3>1 DEF StoreMessage, KeysOK, Message
  <2>2. CASE ~StoreMessage(x)
    BY <1>0, <2>2 DEF Serve, Refuse, CheckName, AddClient, GiveList, GiveKey, HandMessages,
       history, KeysOK
  <2> QED
    BY <2>1, <2>2
<1>3. ServerOK'
  <2>1. CASE Refuse(x) \/ CheckName(x) \/ GiveList(x) \/ GiveKey(x)
    BY <1>0, <2>1 DEF Refuse, CheckName, GiveList, GiveKey, serverVars, ServerOK, UUIDsInUse
  <2>2. CASE AddClient(x)
    <3>1. PICK new \in UUID \ issued :
            /\ directory' = Append(directory, [uuid |-> new, username |-> call[x].args])
            /\ issued' = issued \cup {new}
      BY <2>2 DEF AddClient
    <3>2. [uuid |-> new, username |-> call[x].args] \in ClientRecord /\ call[x].args \in AnyName
      BY <1>0, <2>2, CallFields DEF AddClient, ClientRecord, AnyUUID
    <3>3. UUIDsInUse' = UUIDsInUse \cup {new}
      <4>1. directory \in Seq(ClientRecord)
        BY <1>0 DEF ServerOK
      <4>2. /\ DOMAIN directory' = DOMAIN directory \cup {Len(directory) + 1}
            /\ \A i \in DOMAIN directory : directory'[i] = directory[i]
            /\ directory'[Len(directory) + 1].uuid = new
        BY <3>1, <3>2, <4>1
      <4> QED
        BY <4>2 DEF UUIDsInUse
    <3> QED
      BY <1>0, <2>2, <3>1, <3>2, <3>3 DEF AddClient, ServerOK
  <2>3. CASE StoreMessage(x)
    <3>1. call[x].args \in Message
      BY <1>0, <2>3, CallFields DEF StoreMessage, Asked
    <3> QED
      BY <1>0, <2>3, <3>1, PicksAssumption DEF StoreMessage, ServerOK, UUIDsInUse
  <2>4. CASE HandMessages(x)
    <3> DEFINE others == AnyUUID \ {call[x].src}
    <3> HIDE DEF others
    <3>1. Selected(others, mailbox) \subseteq Message
      BY <1>0 DEF Selected, ServerOK
    <3>2. /\ MessagesFor(others, mailbox) \in Seq(Selected(others, mailbox))
          /\ Len(MessagesFor(others, mailbox)) <= Len(mailbox)
      BY <1>0, MessagesForSelects DEF ServerOK
    <3>3. MessagesFor(others, mailbox) \in Seq(Message)
      BY <3>1, <3>2, SequenceOfMore
    <3>4. Len(MessagesFor(others, mailbox)) <= MailboxBound
      BY <1>0, <3>2, <3>3, PicksAssumption DEF ServerOK
    <3> QED
      BY <1>0, <2>4, <3>3, <3>4 DEF HandMessages, ServerOK, UUIDsInUse, others
  <2> QED
    BY <2>1, <2>2, <2>3, <2>4 DEF Serve
<1>4. \E c : GoodCall(c) /\ (x \in Orphan => c \in Calls) /\ call' = [call EXCEPT ![x] = c]
  <2>0. NoCall \in Calls
    BY DEF Calls
  <2>1. ASSUME NEW response, Answer(x, response),
               \A c : /\ c = [stage |-> "answered", op |-> call[x].op, src |-> call[x].src,
                              args |-> call[x].args, response |-> response]
                      => IsAnswer(c)
        PROVE  \E c : GoodCall(c) /\ (x \in Orphan => c \in Calls) /\ call' = [call EXCEPT ![x] = c]
    BY <1>0, <2>0, <2>1 DEF Answer, GoodCall
  <2>2. CASE Refuse(x)
    BY <2>0, <2>2 DEF Refuse, GoodCall
  <2>3. CASE CheckName(x)
    <3> DEFINE c == [stage |-> "checked", op |-> "REGISTER", src |-> call[x].src,
                     args |-> call[x].args]
    <3>1. call' = [call EXCEPT ![x] = c]
      <4>1. call[x] = [stage |-> "asked", op |-> "REGISTER", src |-> call[x].src,
                       args |-> call[x].args]
        BY <1>0, <2>3, CallFields DEF CheckName, Asked
      <4>2. [call[x] EXCEPT !.stage = "checked"] = c
        BY <4>1
      <4> QED
        BY <2>3, <4>2 DEF CheckName
    <3>2. c \in Calls
      <4>1. call[x].args \in AnyName /\ call[x].src \in AnyUUID
        BY <1>0, <2>3, CallFields DEF CheckName, Asked, NoCall
      <4> QED
        BY <4>1 DEF Calls
    <3> HIDE DEF c
    <3> QED
      BY <3>1, <3>2 DEF GoodCall
  <2>4. CASE AddClient(x)
    <3>1. PICK new \in UUID : Answer(x, new)
      BY <2>4 DEF AddClient
    <3>2. call[x].op = "REGISTER" /\ call[x].args \in AnyName /\ call[x].src \in AnyUUID
      BY <1>0, <2>4, CallFields DEF AddClient, NoCall
    <3> QED
      BY <2>1, <3>1, <3>2 DEF IsAnswer
  <2>5. CASE GiveList(x)
    <3>1. call[x].src \in AnyUUID
      BY <1>0, <2>5, CallFields DEF GiveList, Asked, NoCall
    <3> QED
      BY <1>0, <2>1, <2>5, <3>1 DEF GiveList, Asked, IsAnswer, ServerOK
  <2>6. CASE GiveKey(x)
    <3>1. call[x].src \in AnyUUID
      BY <1>0, <2>6, CallFields DEF GiveKey, Asked, NoCall
    <3> QED
      BY <1>0, <2>1, <2>6, <3>1 DEF GiveKey, Asked, IsAnswer, ServerOK
  <2>7. CASE StoreMessage(x)
    <3>1. call[x].src \in AnyUUID /\ call[x].args \in Message
      BY <1>0, <2>7, CallFields DEF StoreMessage, Asked, NoCall
    <3> QED
      BY <1>0, <2>1, <2>7, <3>1 DEF StoreMessage, Asked, IsAnswer
  <2>8. CASE HandMessages(x)
    <3> DEFINE own == {call[x].src}
    <3> HIDE DEF own
    <3>1. Selected(own, mailbox) \subseteq Message
      BY <1>0 DEF Selected, ServerOK
    <3>2. MessagesFor(own, mailbox) \in Seq(Selected(own, mailbox))
      BY <1>0, MessagesForSelects DEF ServerOK
    <3>3. MessagesFor(own, mailbox) \in Seq(Message)
      BY <3>1, <3>2, SequenceOfMore
    <3>4. call[x].src \in AnyUUID
      BY <1>0, <2>8, CallFields DEF HandMessages, Asked, NoCall
    <3> QED
      BY <2>1, <2>8, <3>3, <3>4 DEF HandMessages, Asked, IsAnswer, own
  <2> QED
    BY <2>2, <2>3, <2>4, <2>5, <2>6, <2>7, <2>8 DEF Serve
<1>5. CallsOK'
  BY <1>0, <1>4, CallChanges
<1> QED
  BY <1>1, <1>2, <1>3, <1>5, TypePartsPrimed

LEMMA StoreChanges ==
  ASSUME StoresOK, NEW p \in Program, NEW s, IsStore(s), Finds(s),
         store' = [store EXCEPT ![p] = s]
  PROVE  StoresOK'
BY DEF StoresOK

\* Two stores that differ in keys only, and in which symmetric keys.
SameNames(s, t) ==
  /\ t.clientsList = s.clientsList
  /\ DOMAIN t.contactsList = DOMAIN s.contactsList
  /\ \A v \in DOMAIN s.contactsList :
       t.contactsList[v].username = s.contactsList[v].username

SymmetricKeySet(s, t, u, key) ==
  /\ SameNames(s, t)
  /\ \A v \in DOMAIN s.contactsList :
       t.contactsList[v].symmetricKey =
         IF v = u THEN key ELSE s.contactsList[v].symmetricKey

SymmetricKeysStay(s, t) ==
  /\ SameNames(s, t)
  /\ \A v \in DOMAIN s.contactsList :
       t.contactsList[v].symmetricKey = s.contactsList[v].symmetricKey

\* A key that is set changes no name, and nothing that is looked up.
LEMMA ContactsReplaced ==
  ASSUME NEW s, IsStore(s), Finds(s), NEW new,
         new \in [DOMAIN s.contactsList -> Contact],
         \A v \in DOMAIN s.contactsList : new[v].username = s.contactsList[v].username,
         NEW t, t = [s EXCEPT !.contactsList = new]
  PROVE  IsStore(t) /\ Finds(t) /\ SameNames(s, t) /\ t.contactsList = new
<1>1. s = [clientsList |-> s.clientsList, contactsList |-> s.contactsList]
  BY DEF IsStore
<1>2. t = [clientsList |-> s.clientsList, contactsList |-> new]
  BY <1>1
<1>3. t.clientsList = s.clientsList /\ t.contactsList = new
  BY <1>2
<1>4. t = [clientsList |-> t.clientsList, contactsList |-> t.contactsList]
  BY <1>2, <1>3
<1> QED
  BY <1>3, <1>4 DEF IsStore, Finds, SameNames

LEMMA SymmetricKeyIsSet ==
  ASSUME NEW s, IsStore(s), Finds(s), NEW u, NEW key \in Key \cup {NoKey},
         NEW t, t = setSymmetricKey(s, u, key)
  PROVE  IsStore(t) /\ Finds(t) /\ SymmetricKeySet(s, t, u, key)
<1> DEFINE old == s.contactsList
           new == [old EXCEPT ![u].symmetricKey = key]
<1>1. old \in [DOMAIN old -> Contact]
  BY DEF IsStore
<1>2. t = [s EXCEPT !.contactsList = new]
  BY DEF setSymmetricKey
<1>3. /\ new \in [DOMAIN old -> Contact]
      /\ \A v \in DOMAIN old :
           /\ new[v].username = old[v].username
           /\ new[v].symmetricKey = IF v = u THEN key ELSE old[v].symmetricKey
  <2> HIDE DEF old
  <2> QED
    BY <1>1 DEF Contact
<1> HIDE DEF new
<1> QED
  BY <1>2, <1>3, ContactsReplaced DEF SymmetricKeySet

LEMMA PublicKeyIsSet ==
  ASSUME NEW s, IsStore(s), Finds(s), NEW u, NEW key \in UUID \cup {NoKey, ZeroKey},
         NEW t, t = setPublicKey(s, u, key)
  PROVE  IsStore(t) /\ Finds(t) /\ SymmetricKeysStay(s, t)
<1> DEFINE old == s.contactsList
           new == [old EXCEPT ![u].publicKey = key]
<1>1. old \in [DOMAIN old -> Contact]
  BY DEF IsStore
<1>2. t = [s EXCEPT !.contactsList = new]
  BY DEF setPublicKey
<1>3. /\ new \in [DOMAIN old -> Contact]
      /\ \A v \in DOMAIN old :
           /\ new[v].username = old[v].username
           /\ new[v].symmetricKey = old[v].symmetricKey
  <2> HIDE DEF old
  <2> QED
    BY <1>1 DEF Contact
<1> HIDE DEF new
<1> QED
  BY <1>2, <1>3, ContactsReplaced DEF SymmetricKeysStay

\* A payload that was cut still is a list of records.
LEMMA CutRecords ==
  ASSUME NEW records \in Seq(ClientRecord), NEW n \in DOMAIN records,
         NEW part \in Broken(records[n])
  PROVE  CutAt(records, n, part) \in Seq(ClientRecord)
<1>1. Len(records) \in Nat /\ DOMAIN records = 1 .. Len(records)
  OBVIOUS
<1>2. \A i \in DOMAIN records : records[i] \in ClientRecord
  OBVIOUS
<1>3. ZeroRecord \in ClientRecord
  BY DEF ZeroRecord, ClientRecord, AnyUUID, AnyName
<1>4. part \in ClientRecord
  <2>1. records[n].uuid \in AnyUUID /\ records[n].username \in AnyName
    <3>1. \A r \in ClientRecord : r.uuid \in AnyUUID /\ r.username \in AnyName
      BY DEF ClientRecord
    <3> QED
      BY <1>2, <3>1
  <2>2. NameParts[records[n].username] \subseteq AnyName
    BY <2>1, PicksAssumption
  <2> QED
    BY <2>1, <2>2 DEF Broken, ClientRecord, AnyUUID, AnyName
<1>5. CutAt(records, n, part) \in [1 .. Len(records) -> ClientRecord]
  BY <1>1, <1>2, <1>3, <1>4 DEF CutAt
<1> QED
  BY <1>1, <1>5, SeqDef

LEMMA ReceivedRecords ==
  ASSUME NEW p, NEW records \in Seq(ClientRecord), NEW came \in Received(p, records)
  PROVE  came \in Seq(ClientRecord)
BY CutRecords DEF Received

\* What a handler's last step does to the contacts: nothing, or it adds a list, keeps
\* the key it has sent, keeps a public key, or keeps the keys it has received.
ContactsStay(p) == store'[p] = store[p]

ListKept(p) ==
  /\ Answered(p, "LIST")
  /\ \E records \in Received(p, call[p].response) :
       records \in Seq(ClientRecord) /\ store'[p] \in Filled(store[p], records)

SentKeyKept(p) ==
  /\ Answered(p, "SEND") /\ call[p].args.type = "SEND_SYM_KEY"
  /\ SymmetricKeySet(store[p], store'[p], call[p].args.dest, call[p].args.key)

PublicKeyKept(p) == SymmetricKeysStay(store[p], store'[p])

ReceivedKeysKept(p) ==
  /\ Answered(p, "PULL")
  /\ \E batch \in Seq(Message) :
       /\ \A i \in DOMAIN batch : \E j \in DOMAIN call[p].response : batch[i] = call[p].response[j]
       /\ store'[p] \in Keyed(p, store[p], batch)

ContactsEffect(p) ==
  \/ ContactsStay(p) \/ ListKept(p) \/ SentKeyKept(p) \/ PublicKeyKept(p)
  \/ ReceivedKeysKept(p)

LEMMA FinishEffect ==
  ASSUME TypeOK, LookupsFind, NEW p \in Program, Finish(p)
  PROVE  StoresOK' /\ ContactsEffect(p)
<1>0. /\ StoresOK /\ p \in DOMAIN store
      /\ GoodCall(call[p]) /\ IsStore(store[p]) /\ Finds(store[p])
  BY TypeParts DEF CallsOK, StoresOK, Exchange
<1>1. CASE \/ Unanswered(p) \/ InfoNotWritten(p) \/ BecomeRegistered(p)
           \/ BecomeRegisteredEarly(p) \/ KeyForNoContact(p)
  BY <1>0, <1>1 DEF Unanswered, InfoNotWritten, BecomeRegistered, BecomeRegisteredEarly,
     KeyForNoContact, localVars, StoresOK, ContactsEffect, ContactsStay
<1>2. CASE AddAllContacts(p)
  <2>1. PICK records \in Received(p, call[p].response) :
          store' = [store EXCEPT ![p] = addContacts(store[p], records)]
    BY <1>2 DEF AddAllContacts
  <2>2. records \in Seq(ClientRecord)
    BY <1>0, <1>2, CallFields, ReceivedRecords DEF AddAllContacts, Answered, IsAnswer
  <2>3. addContacts(store[p], records) \in Filled(store[p], records)
    BY <1>0, <2>2, addContactsFills
  <2>4. \A t \in Filled(store[p], records) : IsStore(t) /\ Finds(t)
    BY StoresAreStores DEF Filled
  <2>5. StoresOK'
    BY <1>0, <2>1, <2>2, <2>3, <2>4, StoreChanges
  <2>6. ListKept(p)
    BY <1>0, <1>2, <2>1, <2>2, <2>3 DEF AddAllContacts, ListKept
  <2> QED
    BY <2>5, <2>6 DEF ContactsEffect
<1>3. CASE KeepPublicKey(p)
  <2>1. PICK payload \in KeyPayloads(p, call[p].response) :
          store' = [store EXCEPT ![p] = setPublicKey(store[p], payload.uuid, payload.key)]
    BY <1>3 DEF KeepPublicKey
  <2>2. payload.key \in UUID \cup {NoKey, ZeroKey}
    <3>1. call[p].response \in UUID
      BY <1>0, <1>3, CallFields DEF KeepPublicKey, Answered, IsAnswer
    <3> QED
      BY <3>1 DEF KeyPayloads
  <2> DEFINE t == setPublicKey(store[p], payload.uuid, payload.key)
  <2>3. IsStore(t) /\ Finds(t) /\ SymmetricKeysStay(store[p], t)
    BY <1>0, <2>2, PublicKeyIsSet
  <2>4. store' = [store EXCEPT ![p] = t]
    BY <2>1
  <2> HIDE DEF t
  <2>5. StoresOK' /\ store'[p] = t
    BY <1>0, <2>3, <2>4, StoreChanges
  <2> QED
    BY <2>3, <2>5 DEF ContactsEffect, PublicKeyKept
<1>4. CASE MessageSent(p)
  <2> DEFINE m == call[p].args
             t == setSymmetricKey(store[p], m.dest, m.key)
  <2>1. CASE m.type # "SEND_SYM_KEY"
    BY <1>0, <1>4, <2>1 DEF MessageSent, StoresOK, ContactsEffect, ContactsStay
  <2>2. CASE m.type = "SEND_SYM_KEY"
    <3>1. m.key \in Key \cup {NoKey}
      BY <1>0, <1>4, CallFields DEF MessageSent, Answered, IsAnswer, Message
    <3>2. IsStore(t) /\ Finds(t) /\ SymmetricKeySet(store[p], t, m.dest, m.key)
      BY <1>0, <3>1, SymmetricKeyIsSet
    <3>3. store' = [store EXCEPT ![p] = t]
      BY <1>4, <2>2 DEF MessageSent
    <3> HIDE DEF t
    <3>4. StoresOK' /\ store'[p] = t
      BY <1>0, <3>2, <3>3, StoreChanges
    <3> QED
      BY <1>4, <2>2, <3>2, <3>4 DEF MessageSent, ContactsEffect, SentKeyKept
  <2> QED
    BY <2>1, <2>2
<1>5. CASE PrintMessages(p)
  <2>1. PICK n \in WholeRecords(p, call[p].response), luck \in [fits : BOOLEAN, writes : BOOLEAN] :
          store' = [store EXCEPT ![p] =
                      PrintBatch(p, SubSeq(call[p].response, 1, n), luck).store]
    BY <1>5 DEF PrintMessages
  <2>2. call[p].response \in Seq(Message) /\ Answered(p, "PULL")
    BY <1>0, <1>5, CallFields DEF PrintMessages, Answered, IsAnswer
  <2>3. n \in 0 .. Len(call[p].response)
    BY <2>2 DEF WholeRecords
  <2> DEFINE batch == SubSeq(call[p].response, 1, n)
             t == PrintBatch(p, batch, luck).store
  <2>4. /\ batch \in Seq(Message)
        /\ \A i \in DOMAIN batch : \E j \in DOMAIN call[p].response : batch[i] = call[p].response[j]
    BY <2>2, <2>3
  <2>5. PrintBatch(p, batch, luck) \in Printing(p, store[p], batch)
    BY <1>0, <2>4, PrintBatchKeeps
  <2>6. store' = [store EXCEPT ![p] = t]
    BY <2>1
  <2> HIDE DEF batch
  <2>7. t \in Keyed(p, store[p], batch)
    BY <2>5 DEF Printing
  <2>8. \A x \in Keyed(p, store[p], batch) : IsStore(x) /\ Finds(x)
    BY <1>0, StoresAreStores DEF Keyed, Finds
  <2> HIDE DEF t
  <2>9. StoresOK' /\ store'[p] = t
    BY <1>0, <2>6, <2>7, <2>8, StoreChanges
  <2> QED
    BY <2>2, <2>4, <2>7, <2>9 DEF ContactsEffect, ReceivedKeysKept
<1> QED
  BY <1>1, <1>2, <1>3, <1>4, <1>5 DEF Finish

\* The steps that work on an answer, or on none.
LEMMA FinishCalls ==
  ASSUME CallsOK, NEW p \in Program, Finish(p)
  PROVE  CallsOK' /\ call'[p] = NoCall /\ OtherCalls(p)
<1>1. CASE Unanswered(p) \/ BecomeRegisteredEarly(p)
  BY <1>1, AbandonMoves DEF Unanswered, BecomeRegisteredEarly
<1>2. CASE ~Unanswered(p) /\ ~BecomeRegisteredEarly(p)
  <2>1. call' = [call EXCEPT ![p] = NoCall] /\ call[p].stage = "answered"
    BY <1>2 DEF Finish, InfoNotWritten, BecomeRegistered, AddAllContacts, KeepPublicKey,
       KeyForNoContact, MessageSent, PrintMessages, Done, Terminate, Answered
  <2> QED
    BY <2>1, AbandonMoves DEF Abandon, Done
<1> QED
  BY <1>1, <1>2

LEMMA FinishType ==
  ASSUME TypeOK, LookupsFind, NEW p \in Program, Finish(p)
  PROVE  (TypeOK /\ LookupsFind)'
<1>0. /\ CallsOK /\ StoresOK /\ LocalsOK /\ ServerOK /\ KeysOK
      /\ GoodCall(call[p]) /\ IsStore(store[p]) /\ Finds(store[p])
  BY TypeParts DEF CallsOK, StoresOK, Exchange
<1>1. ServerOK' /\ KeysOK'
  BY <1>0 DEF Finish, Unanswered, InfoNotWritten, BecomeRegistered, BecomeRegisteredEarly,
     AddAllContacts, KeepPublicKey, KeyForNoContact, MessageSent, PrintMessages, serverVars, history,
     ServerOK, UUIDsInUse, KeysOK
<1>2. CallsOK'
  BY <1>0, FinishCalls
<1>3. LocalsOK'
  <2>1. CASE BecomeRegistered(p)
    <3>1. IsAnswer(call[p])
      BY <1>0, <2>1, CallFields DEF BecomeRegistered, Answered
    <3>2. Payloads(p, call[p].response) \subseteq AnyUUID
      BY <2>1, <3>1 DEF BecomeRegistered, Answered, IsAnswer, Payloads, AnyUUID
    <3> QED
      BY <1>0, <2>1, <3>2 DEF BecomeRegistered, LocalsOK, history
  <2>2. CASE BecomeRegisteredEarly(p)
    BY <1>0, <2>2 DEF BecomeRegisteredEarly, LocalsOK, history, AnyUUID
  <2>3. CASE ~BecomeRegistered(p) /\ ~BecomeRegisteredEarly(p)
    BY <1>0, <2>3 DEF Finish, Unanswered, InfoNotWritten, AddAllContacts, KeepPublicKey,
       KeyForNoContact, MessageSent, PrintMessages, Terminate, localVars, history, LocalsOK
  <2> QED
    BY <2>1, <2>2, <2>3
<1>4. StoresOK'
  BY FinishEffect
<1> QED
  BY <1>1, <1>2, <1>3, <1>4, TypePartsPrimed

LEMMA ClientTypeInit == Init => TypeOK /\ LookupsFind
<1> SUFFICES ASSUME Init  PROVE TypeOK /\ LookupsFind
  OBVIOUS
<1>1. CallsOK /\ LocalsOK
  BY DEF Init, CallsOK, GoodCall, Calls, Exchange, LocalsOK, AnyUUID
<1>2. IsStore(EmptyStore) /\ Finds(EmptyStore)
  BY DEF EmptyStore, IsStore, Finds
<1>3. StoresOK
  BY <1>2 DEF Init, StoresOK
<1>4. ServerOK /\ KeysOK
  BY PicksAssumption DEF Init, ServerOK, UUIDsInUse, KeysOK, Nobody, AnyUUID
<1> QED
  BY <1>1, <1>3, <1>4, TypeParts

LEMMA ClientTypeStep == TypeOK /\ LookupsFind /\ [Next]_vars => (TypeOK /\ LookupsFind)'
<1> SUFFICES ASSUME TypeOK, LookupsFind, [Next]_vars  PROVE (TypeOK /\ LookupsFind)'
  OBVIOUS
<1>0. CallsOK /\ StoresOK /\ LocalsOK /\ ServerOK /\ KeysOK
  BY TypeParts
<1>1. CASE UNCHANGED vars
  BY <1>0, <1>1, TypePartsPrimed DEF vars, localVars, serverVars, history, CallsOK, StoresOK,
     LocalsOK, ServerOK, UUIDsInUse, KeysOK
<1>2. CASE ServerRestart
  <2>0. CallsOK'
    BY <1>0, <1>2 DEF ServerRestart, CallsOK, GoodCall, Calls, Exchange
  <2>1. StoresOK' /\ LocalsOK'
    BY <1>0, <1>2 DEF ServerRestart, localVars, history, StoresOK, LocalsOK
  <2>2. ServerOK' /\ KeysOK'
    BY <1>0, <1>2, PicksAssumption DEF ServerRestart, history, ServerOK, UUIDsInUse, KeysOK
  <2> QED
    BY <2>0, <2>1, <2>2, TypePartsPrimed
<1>3. ASSUME NEW p \in Program, Restart(p)  PROVE (TypeOK /\ LookupsFind)'
  <2>1. IsStore(EmptyStore) /\ Finds(EmptyStore)
    BY DEF EmptyStore, IsStore, Finds
  <2>2. StoresOK'
    BY <1>0, <1>3, <2>1, StoreChanges DEF Restart
  <2>3. CallsOK'
    BY <1>0, <1>3, AbandonMoves DEF Restart
  <2>4. LocalsOK' /\ ServerOK' /\ KeysOK'
    BY <1>0, <1>3 DEF Restart, serverVars, history, LocalsOK, ServerOK, UUIDsInUse, KeysOK,
       AnyUUID
  <2> QED
    BY <2>2, <2>3, <2>4, TypePartsPrimed
<1> QED
  BY <1>1, <1>2, <1>3, CommandType, ServeType, FinishType DEF Next

LEMMA TypesAndLookups == Spec => [](TypeOK /\ LookupsFind)
BY ClientTypeInit, ClientTypeStep, PTL DEF Spec

\* The programs and the server keep their shape.
THEOREM ClientTypeCorrect == Spec => []TypeOK
BY TypesAndLookups, PTL

\* A lookup by a name, and one of a contact's name, finds something, whatever lists
\* a client was given, cut anywhere, and whatever names the users chose.
THEOREM LookupsFindCorrect == Spec => []LookupsFind
BY TypesAndLookups, PTL

-----------------------------------------------------------------------------
\* Who changes what

\* A step of one program is of no concern to the others.
OthersKeep(p) ==
  /\ \A q \in Program \ {p} :
       registered'[q] = registered[q] /\ uuid'[q] = uuid[q] /\ store'[q] = store[q]
  /\ OtherCalls(p)

LEMMA OneProgram ==
  ASSUME TypeOK, LookupsFind, NEW p \in Program, Command(p) \/ Finish(p) \/ Restart(p)
  PROVE  OthersKeep(p)
<1>0. /\ DOMAIN registered = Program /\ DOMAIN uuid = Program
      /\ DOMAIN store = Program /\ CallsOK
  BY TypeParts DEF TypeOK
<1>1. CASE Command(p)
  <2>1. UNCHANGED <<registered, uuid, store>>
    BY <1>1 DEF Command, Register, GetClientsList, GetPublicKey, GetWaitingMessages,
       AskForSymmetricKey, SendTextOrFile, SendSymmetricKey, SendKeyToZero, localVars
  <2>2. \E c : call' = [call EXCEPT ![p] = c]
    BY <1>1 DEF Command, Register, GetClientsList, GetPublicKey, GetWaitingMessages,
       AskForSymmetricKey, SendTextOrFile, SendSymmetricKey, SendKeyToZero, Send, Request,
       Terminate
  <2>3. OtherCalls(p)
    BY <1>0, <2>2, PicksAssumption DEF OtherCalls, CallsOK, Exchange
  <2> QED
    BY <1>0, <2>1, <2>3 DEF OthersKeep
<1>2. CASE Finish(p)
  <2>1. OtherCalls(p)
    BY <1>0, <1>2, FinishCalls
  <2>2. \A q \in Program \ {p} :
          registered'[q] = registered[q] /\ uuid'[q] = uuid[q] /\ store'[q] = store[q]
    BY <1>0, <1>2 DEF Finish, Unanswered, InfoNotWritten, BecomeRegistered,
       BecomeRegisteredEarly, AddAllContacts, KeepPublicKey, KeyForNoContact, MessageSent,
       PrintMessages, localVars
  <2> QED
    BY <2>1, <2>2 DEF OthersKeep
<1>3. CASE Restart(p)
  <2>1. OtherCalls(p)
    BY <1>0, <1>3, AbandonMoves DEF Restart
  <2> QED
    BY <1>0, <1>3, <2>1 DEF Restart, OthersKeep
<1> QED
  BY <1>1, <1>2, <1>3

\* What a command leaves behind: a request, or no call at all.
LEMMA CommandAsks ==
  ASSUME TypeOK, NEW p \in Program, Command(p)
  PROVE  /\ UNCHANGED <<registered, uuid, store, serverVars, sent>>
         /\ call[p] = NoCall
         /\ call'[p] = NoCall \/ call'[p].stage = "asked"
<1>0. p \in DOMAIN call
  BY DEF TypeOK, Exchange
<1>1. /\ UNCHANGED <<registered, uuid, store, serverVars, sent>>
      /\ call[p] = NoCall
  BY DEF Command, Register, GetClientsList, GetPublicKey, GetWaitingMessages,
     AskForSymmetricKey, SendTextOrFile, SendSymmetricKey, SendKeyToZero, Registered,
     Unregistered, Idle, localVars, history
<1>2. CASE SendKeyToZero(p)
  BY <1>0, <1>1, <1>2 DEF SendKeyToZero, Terminate
<1>3. ASSUME NEW op, NEW args, Request(p, op, args)  PROVE call'[p].stage = "asked"
  BY <1>0, <1>3 DEF Request
<1>4. ASSUME ~SendKeyToZero(p)  PROVE call'[p].stage = "asked"
  BY <1>3, <1>4 DEF Command, Register, GetClientsList, GetPublicKey, GetWaitingMessages,
     AskForSymmetricKey, SendTextOrFile, SendSymmetricKey, Send
<1> QED
  BY <1>1, <1>2, <1>4

LEMMA FinishEnds ==
  ASSUME TypeOK, LookupsFind, NEW p \in Program, Finish(p)
  PROVE  call'[p] = NoCall /\ UNCHANGED <<serverVars, made, sent>>
<1>1. call'[p] = NoCall
  BY FinishCalls, TypeParts
<1>2. UNCHANGED <<serverVars, made, sent>>
  BY DEF Finish, Unanswered, InfoNotWritten, BecomeRegistered, BecomeRegisteredEarly,
     AddAllContacts, KeepPublicKey, KeyForNoContact, MessageSent, PrintMessages, history
<1> QED
  BY <1>1, <1>2

LEMMA RestartEmpties ==
  ASSUME TypeOK, LookupsFind, NEW p \in Program, Restart(p)
  PROVE  /\ registered'[p] = FALSE /\ uuid'[p] = ZeroUUID /\ store'[p] = EmptyStore
         /\ call'[p] = NoCall /\ UNCHANGED <<serverVars, made, sent>>
<1>1. call'[p] = NoCall
  BY AbandonMoves, TypeParts DEF Restart
<1> QED
  BY <1>1 DEF TypeOK, Restart, history

\* The steps of the server leave the programs' own state alone, and the other calls.
LEMMA ServeAnswers ==
  ASSUME TypeOK, NEW x \in Exchange, Serve(x)
  PROVE  /\ UNCHANGED <<registered, uuid, store, running, made>>
         /\ \A y \in Exchange \ {x} : call'[y] = call[y]
<1>0. DOMAIN call = Exchange
  BY DEF TypeOK
<1>1. UNCHANGED <<registered, uuid, store, running, made>>
  BY DEF Serve, Refuse, CheckName, AddClient, GiveList, GiveKey, StoreMessage, HandMessages,
     localVars, history
<1>2. \E c : call' = [call EXCEPT ![x] = c]
  BY DEF Serve, Refuse, CheckName, AddClient, GiveList, GiveKey, StoreMessage, HandMessages,
     Answer
<1> QED
  BY <1>0, <1>1, <1>2

\* When a program gives up or works on its answer, a call ends, goes on, or goes on
\* with an orphan, and then it has no answer.
LEMMA CallsGoOn ==
  ASSUME TypeOK, NEW p \in Program, OthersKeep(p), call'[p] = NoCall, NEW x \in Exchange
  PROVE  \/ call'[x] \in {NoCall, call[x]}
         \/ /\ x \in Orphan /\ TakenOver(p, x) /\ call'[x] = call[p]
            /\ call'[x].stage \in {"asked", "checked"}
BY DEF OthersKeep, OtherCalls, TakenOver, Exchange

-----------------------------------------------------------------------------
\* The keys that are kept have been sent

SentKey(key) == key \in sent \cup {NoKey}

StoreSent(s) == \A u \in DOMAIN s.contactsList : SentKey(s.contactsList[u].symmetricKey)

CallSent(x) ==
  /\ Answered(x, "SEND") => SentKey(call[x].args.key)
  /\ Answered(x, "PULL") =>
       \A i \in DOMAIN call[x].response : SentKey(call[x].response[i].key)

MailSent == \A i \in DOMAIN mailbox : SentKey(mailbox[i].key)

\* A key is in the store of a client, in an answer or in a message that waits only
\* if the server has stored a message that carries it.
SentInv ==
  /\ \A p \in Program : StoreSent(store[p])
  /\ \A x \in Exchange : CallSent(x)
  /\ MailSent

\* A call without an answer says nothing of keys.
LEMMA CallSentWithout ==
  ASSUME NEW x, call'[x].stage # "answered"
  PROVE  CallSent(x)'
BY DEF CallSent, Answered

LEMMA SentServe ==
  ASSUME TypeOK, LookupsFind, SentInv, NEW x \in Exchange, Serve(x)
  PROVE  CallSent(x)' /\ sent \subseteq sent' /\ MailSent'
<1>0. x \in DOMAIN call /\ GoodCall(call[x]) /\ mailbox \in Seq(Message)
  BY TypeParts DEF CallsOK, ServerOK
<1>1. CASE Refuse(x) \/ CheckName(x) \/ AddClient(x) \/ GiveList(x) \/ GiveKey(x)
  <2>1. UNCHANGED <<mailbox, sent>>
    BY <1>1 DEF Refuse, CheckName, AddClient, GiveList, GiveKey, serverVars, history
  <2>2. call'[x].stage # "answered" \/ call'[x].op \notin {"SEND", "PULL"}
    <3>1. CASE Refuse(x)
      BY <1>0, <3>1 DEF Refuse, NoCall
    <3>2. CASE CheckName(x)
      <4>1. call[x] = [stage |-> "asked", op |-> "REGISTER", src |-> call[x].src,
                       args |-> call[x].args]
        BY <1>0, <3>2, CallFields DEF CheckName, Asked
      <4> QED
        BY <1>0, <3>2, <4>1 DEF CheckName
    <3>3. CASE AddClient(x)
      <4>1. call[x].op = "REGISTER"
        BY <1>0, <3>3, CallFields DEF AddClient
      <4> QED
        BY <1>0, <3>3, <4>1 DEF AddClient, Answer, NoCall
    <3>4. CASE GiveList(x) \/ GiveKey(x)
      BY <1>0, <3>4 DEF GiveList, GiveKey, Asked, Answer, NoCall
    <3> QED
      BY <1>1, <3>1, <3>2, <3>3, <3>4
  <2>3. CallSent(x)'
    BY <2>2 DEF CallSent, Answered
  <2> QED
    BY <2>1, <2>3 DEF SentInv, MailSent, SentKey
<1>2. CASE StoreMessage(x)
  <2>1. /\ mailbox' = Append(mailbox, call[x].args)
        /\ sent' = sent \cup ({call[x].args.key} \ {NoKey})
        /\ \/ call'[x] = NoCall
           \/ call'[x].op = "SEND" /\ call'[x].args = call[x].args
    BY <1>0, <1>2 DEF StoreMessage, Answer, Asked
  <2>2. call[x].args \in Message
    BY <1>0, <1>2, CallFields DEF StoreMessage, Asked
  <2>3. \A i \in DOMAIN mailbox' :
          mailbox'[i] = call[x].args \/ (i \in DOMAIN mailbox /\ mailbox'[i] = mailbox[i])
    BY <1>0, <2>1, <2>2
  <2>4. CallSent(x)'
    BY <2>1, <2>2 DEF CallSent, Answered, SentKey, Message, NoCall
  <2>5. MailSent'
    BY <2>1, <2>2, <2>3 DEF SentInv, MailSent, SentKey, Message
  <2> QED
    BY <2>1, <2>4, <2>5
<1>3. CASE HandMessages(x)
  <2>1. /\ sent' = sent
        /\ \/ call'[x] = NoCall
           \/ /\ call'[x].op = "PULL"
              /\ call'[x].response = MessagesFor({call[x].src}, mailbox)
        /\ mailbox' = MessagesFor(AnyUUID \ {call[x].src}, mailbox)
    BY <1>0, <1>3 DEF HandMessages, Answer, Asked, history
  <2>2. \A recipients : \A i \in DOMAIN MessagesFor(recipients, mailbox) :
          \E j \in DOMAIN mailbox : MessagesFor(recipients, mailbox)[i] = mailbox[j]
    <3> SUFFICES ASSUME NEW recipients, NEW i \in DOMAIN MessagesFor(recipients, mailbox)
                 PROVE  MessagesFor(recipients, mailbox)[i] \in Selected(recipients, mailbox)
      BY DEF Selected
    <3> QED
      BY <1>0, MessagesForSelects
  <2>3. \A i \in DOMAIN mailbox' : \E j \in DOMAIN mailbox : mailbox'[i] = mailbox[j]
    BY <2>1, <2>2
  <2>4. \/ call'[x] = NoCall
        \/ /\ call'[x].op = "PULL"
           /\ \A i \in DOMAIN call'[x].response :
                \E j \in DOMAIN mailbox : call'[x].response[i] = mailbox[j]
    BY <2>1, <2>2
  <2>5. CallSent(x)'
    BY <2>1, <2>4 DEF SentInv, MailSent, SentKey, CallSent, Answered, NoCall
  <2>6. MailSent'
    BY <2>1, <2>3 DEF SentInv, MailSent, SentKey
  <2> QED
    BY <2>1, <2>5, <2>6
<1> QED
  BY <1>1, <1>2, <1>3 DEF Serve

LEMMA SentFinish ==
  ASSUME TypeOK, LookupsFind, SentInv, NEW p \in Program, Finish(p)
  PROVE  StoreSent(store'[p])
<1>1. StoreSent(store[p]) /\ CallSent(p)
  BY DEF SentInv, Exchange
<1>2. CASE ContactsStay(p) \/ PublicKeyKept(p)
  BY <1>1, <1>2 DEF ContactsStay, PublicKeyKept, SymmetricKeysStay, SameNames, StoreSent
<1>3. CASE ListKept(p)
  BY <1>1, <1>3 DEF ListKept, Filled, ContactFrom, StoreSent, SentKey
<1>4. CASE SentKeyKept(p)
  BY <1>1, <1>4 DEF SentKeyKept, SymmetricKeySet, SameNames, StoreSent, CallSent
<1>5. CASE ReceivedKeysKept(p)
  BY <1>1, <1>5 DEF ReceivedKeysKept, Keyed, KeyFrom, StoreSent, CallSent
<1> QED
  BY <1>2, <1>3, <1>4, <1>5, FinishEffect DEF ContactsEffect

LEMMA SentStep ==
  ASSUME TypeOK, LookupsFind, SentInv, [Next]_vars
  PROVE  SentInv'
<1>1. CASE UNCHANGED vars
  BY <1>1 DEF vars, localVars, serverVars, history, SentInv, MailSent, StoreSent, CallSent, SentKey,
     Answered
<1>2. CASE ServerRestart
  <2>1. \A x \in Exchange : call'[x] = call[x] \/ call'[x] = NoCall
    BY <1>2 DEF ServerRestart
  <2>2. UNCHANGED <<store, sent>> /\ mailbox' = <<>>
    BY <1>2 DEF ServerRestart, localVars, history
  <2> QED
    BY <2>1, <2>2 DEF SentInv, MailSent, StoreSent, CallSent, SentKey, Answered, NoCall
<1>3. ASSUME NEW p \in Program, Command(p) \/ Finish(p) \/ Restart(p),
             sent' = sent, mailbox' = mailbox, StoreSent(store[p])',
             call'[p].stage # "answered"
      PROVE  SentInv'
  <2>1. OthersKeep(p)
    BY <1>3, OneProgram
  <2>2. \A q \in Program : StoreSent(store[q])'
    BY <1>3, <2>1 DEF OthersKeep, SentInv, StoreSent, SentKey
  <2>3. ASSUME NEW x \in Exchange  PROVE CallSent(x)'
    <3>1. call'[x] = call[x] \/ call'[x].stage # "answered"
      BY <1>3, <2>1 DEF OthersKeep, OtherCalls, TakenOver, Exchange
    <3> QED
      BY <1>3, <3>1 DEF SentInv, CallSent, Answered, SentKey
  <2> QED
    BY <1>3, <2>2, <2>3 DEF SentInv, MailSent, SentKey
<1>4. ASSUME NEW p \in Program, Command(p)  PROVE SentInv'
  <2>1. UNCHANGED <<store, sent, mailbox>> /\ call'[p].stage # "answered"
    BY <1>4, CommandAsks DEF serverVars, NoCall
  <2>2. StoreSent(store[p])'
    BY <2>1 DEF SentInv, StoreSent, SentKey
  <2> QED
    BY <1>3, <1>4, <2>1, <2>2
<1>5. ASSUME NEW x \in Exchange, Serve(x)  PROVE SentInv'
  <2>1. CallSent(x)' /\ sent \subseteq sent' /\ MailSent'
    BY <1>5, SentServe
  <2>2. store' = store /\ \A y \in Exchange \ {x} : call'[y] = call[y]
    BY <1>5, ServeAnswers
  <2> QED
    BY <2>1, <2>2 DEF SentInv, StoreSent, CallSent, SentKey, Answered
<1>6. ASSUME NEW p \in Program, Finish(p)  PROVE SentInv'
  <2>1. UNCHANGED <<sent, mailbox>> /\ call'[p].stage # "answered"
    BY <1>6, FinishEnds DEF serverVars, NoCall
  <2>2. StoreSent(store[p])'
    BY <1>6, <2>1, SentFinish DEF StoreSent, SentKey
  <2> QED
    BY <1>3, <1>6, <2>1, <2>2
<1>7. ASSUME NEW p \in Program, Restart(p)  PROVE SentInv'
  <2>0. store'[p] = EmptyStore /\ call'[p] = NoCall /\ UNCHANGED <<sent, mailbox>>
    BY <1>7, RestartEmpties DEF serverVars
  <2>1. store'[p] = EmptyStore /\ call'[p].stage # "answered" /\ UNCHANGED <<sent, mailbox>>
    BY <2>0 DEF NoCall
  <2>2. StoreSent(store[p])'
    BY <2>1 DEF StoreSent, EmptyStore
  <2> QED
    BY <1>3, <1>7, <2>1, <2>2
<1> QED
  BY <1>1, <1>2, <1>4, <1>5, <1>6, <1>7 DEF Next

\* A client only uses a key the other side can get: the server has stored the
\* message that carries it, whatever was lost and whoever was started again.
THEOREM KeyHeldWasSentCorrect == Spec => []KeyHeldWasSent
<1>1. Init => SentInv
  BY DEF Init, SentInv, MailSent, StoreSent, EmptyStore, CallSent, Answered, NoCall
<1>2. TypeOK /\ LookupsFind /\ SentInv /\ [Next]_vars => SentInv'
  BY SentStep
<1>3. SentInv => KeyHeldWasSent
  BY DEF SentInv, StoreSent, SentKey, KeyHeldWasSent, HasKeyFor, isContactExistInList,
     contactHasSymmetricKey, getContact, SymmetricKey
<1> QED
  BY <1>1, <1>2, <1>3, TypesAndLookups, PTL DEF Spec

-----------------------------------------------------------------------------
\* What a command asks for, and what the server does about it

Current(p) == uuid[p] \in UUIDsInUse

AskedToSend(p) ==
  LET m == call'[p].args IN
    /\ call'[p].op = "SEND" /\ registered[p] /\ m.src = uuid[p]
    /\ \E name \in Known(p) : m.dest = Dest(p, name)
    /\ m.type = "SEND_SYM_KEY" =>
         /\ m.key \in Key /\ made[m.key] = Nobody
         /\ made' = [made EXCEPT ![m.key] = [by |-> uuid[p], for |-> m.dest]]

CommandEffect(p) ==
  \/ call'[p] = NoCall
  \/ /\ call'[p].stage = "asked" /\ call'[p].src = uuid[p]
     /\ \/ call'[p].op = "REGISTER" /\ ~registered[p]
        \/ call'[p].op \in {"LIST", "KEY", "PULL"} /\ registered[p]
        \/ AskedToSend(p)

\* A key is made once.
MadeKeysStay == \A k \in Key : made[k] # Nobody => made'[k] = made[k]

LEMMA CommandRequests ==
  ASSUME TypeOK, NEW p \in Program, Command(p)
  PROVE  CommandEffect(p) /\ MadeKeysStay
<1>0. p \in DOMAIN call /\ made \in [Key -> [by : AnyUUID, for : AnyUUID]]
  BY DEF TypeOK, Exchange
<1>1. CASE Register(p)
  BY <1>0, <1>1 DEF Register, Unregistered, Request, CommandEffect, MadeKeysStay, history
<1>2. CASE GetClientsList(p) \/ GetPublicKey(p) \/ GetWaitingMessages(p)
  BY <1>0, <1>2 DEF GetClientsList, GetPublicKey, GetWaitingMessages, Registered, Request,
     CommandEffect, MadeKeysStay, history
<1>3. CASE AskForSymmetricKey(p) \/ SendTextOrFile(p)
  <2>1. /\ made' = made /\ registered[p] /\ call'[p].stage = "asked" /\ call'[p].op = "SEND"
        /\ call'[p].src = uuid[p]
        /\ call'[p].args.src = uuid[p] /\ call'[p].args.type # "SEND_SYM_KEY"
        /\ \E name \in Known(p) : call'[p].args.dest = Dest(p, name)
    BY <1>0, <1>3 DEF AskForSymmetricKey, SendTextOrFile, Registered, Send, Request, history
  <2> QED
    BY <2>1 DEF CommandEffect, AskedToSend, MadeKeysStay
<1>4. CASE SendSymmetricKey(p)
  <2>1. PICK name \in Known(p), key \in {k \in Key : made[k] = Nobody} :
          /\ Send(p, "SEND_SYM_KEY", Dest(p, name), key,
                  getContact(store[p], Dest(p, name)).publicKey)
          /\ made' = [made EXCEPT ![key] = [by |-> uuid[p], for |-> Dest(p, name)]]
    BY <1>4 DEF SendSymmetricKey
  <2>2. /\ call'[p].stage = "asked" /\ call'[p].op = "SEND" /\ call'[p].src = uuid[p]
        /\ call'[p].args.src = uuid[p] /\ call'[p].args.dest = Dest(p, name)
        /\ call'[p].args.key = key
    BY <1>0, <2>1 DEF Send, Request
  <2>3. registered[p]
    BY <1>4 DEF SendSymmetricKey, Registered
  <2> QED
    BY <1>0, <2>1, <2>2, <2>3 DEF CommandEffect, AskedToSend, MadeKeysStay
<1>5. CASE SendKeyToZero(p)
  BY <1>0, <1>5 DEF SendKeyToZero, Terminate, CommandEffect, MadeKeysStay, history
<1> QED
  BY <1>1, <1>2, <1>3, <1>4, <1>5 DEF Command

\* The server knows whoever wrote the request.
Served(x) == call[x].src \in UUIDsInUse

\* The call goes on to its next stage, as the call it was.
Goes(x, stage) ==
  /\ call'[x].stage = stage /\ call'[x].op = call[x].op
  /\ call'[x].src = call[x].src /\ call'[x].args = call[x].args

\* The call of an orphan ends where another is answered.
Replies(x) == call'[x] = NoCall \/ Goes(x, "answered")

Refused(x) == call'[x] = NoCall /\ UNCHANGED <<directory, mailbox, issued, doubled>>

NameChecked(x) ==
  /\ call[x].op = "REGISTER"
  /\ Goes(x, "checked") /\ UNCHANGED <<directory, mailbox, issued, doubled>>

ClientAdded(x) ==
  /\ call[x].op = "REGISTER" /\ call[x].args \in AnyName
  /\ Replies(x) /\ mailbox' = mailbox
  /\ \E new \in UUID \ issued :
       /\ directory' = Append(directory, [uuid |-> new, username |-> call[x].args])
       /\ issued' = issued \cup {new}
       /\ call'[x] # NoCall => call'[x].response = new
  /\ doubled' = doubled \cup ({call[x].args} \cap NamesInUse)

ToldSomething(x) ==
  /\ call[x].op \in {"LIST", "KEY"} /\ Served(x) /\ Replies(x)
  /\ call[x].op = "LIST" /\ call'[x] # NoCall => call'[x].response = directory
  /\ UNCHANGED <<directory, mailbox, issued, doubled>>

MessageStored(x) ==
  /\ call[x].op = "SEND" /\ call[x].args \in Message /\ Served(x) /\ Replies(x)
  /\ mailbox' = Append(mailbox, call[x].args)
  /\ UNCHANGED <<directory, issued, doubled>>

MessagesHanded(x) ==
  /\ call[x].op = "PULL" /\ Served(x) /\ Replies(x)
  /\ call'[x] # NoCall =>
       \A i \in DOMAIN call'[x].response :
         \E j \in DOMAIN mailbox : /\ call'[x].response[i] = mailbox[j]
                                   /\ mailbox[j].dest = call[x].src
  /\ \A i \in DOMAIN mailbox' : \E j \in DOMAIN mailbox : mailbox'[i] = mailbox[j]
  /\ UNCHANGED <<directory, issued, doubled>>

ServeEffect(x) ==
  \/ Refused(x) \/ NameChecked(x) \/ ClientAdded(x) \/ ToldSomething(x)
  \/ MessageStored(x) \/ MessagesHanded(x)

LEMMA ServeDoes ==
  ASSUME TypeOK, LookupsFind, NEW x \in Exchange, Serve(x)
  PROVE  ServeEffect(x) /\ call[x] # NoCall
<1>0. x \in DOMAIN call /\ GoodCall(call[x]) /\ mailbox \in Seq(Message)
  BY TypeParts DEF CallsOK, ServerOK
<1>1. CASE Refuse(x)
  BY <1>0, <1>1 DEF Refuse, ServeEffect, Refused, serverVars, NoCall
<1>2. CASE CheckName(x)
  <2>1. call[x] = [stage |-> "asked", op |-> "REGISTER", src |-> call[x].src,
                   args |-> call[x].args]
    BY <1>0, <1>2, CallFields DEF CheckName, Asked
  <2>2. call'[x] = [stage |-> "checked", op |-> "REGISTER", src |-> call[x].src,
                    args |-> call[x].args]
    BY <1>0, <1>2, <2>1 DEF CheckName
  <2>3. call[x].stage = "asked" /\ call[x].op = "REGISTER" /\ Goes(x, "checked")
    BY <2>1, <2>2 DEF Goes
  <2> QED
    BY <1>2, <2>3 DEF CheckName, ServeEffect, NameChecked, serverVars, NoCall
<1>3. CASE AddClient(x)
  <2>1. PICK new \in UUID \ issued :
          /\ directory' = Append(directory, [uuid |-> new, username |-> call[x].args])
          /\ issued' = issued \cup {new}
          /\ Answer(x, new)
    BY <1>3 DEF AddClient
  <2>2. /\ call[x].stage = "checked" /\ call[x].op = "REGISTER" /\ call[x].args \in AnyName
        /\ mailbox' = mailbox /\ doubled' = doubled \cup ({call[x].args} \cap NamesInUse)
    BY <1>0, <1>3, CallFields DEF AddClient
  <2>3. Replies(x) /\ (call'[x] # NoCall => call'[x].response = new)
    BY <1>0, <2>1 DEF Answer, Goes, Replies
  <2> QED
    BY <2>1, <2>2, <2>3 DEF ServeEffect, ClientAdded, NoCall
<1>4. CASE GiveList(x) \/ GiveKey(x)
  BY <1>0, <1>4 DEF GiveList, GiveKey, Asked, Answer, Goes, Replies, Served, ServeEffect,
     ToldSomething, serverVars, NoCall
<1>5. CASE StoreMessage(x)
  <2>1. call[x].args \in Message
    BY <1>0, <1>5, CallFields DEF StoreMessage, Asked
  <2> QED
    BY <1>0, <1>5, <2>1 DEF StoreMessage, Asked, Answer, Goes, Replies, Served, ServeEffect,
       MessageStored, NoCall
<1>6. CASE HandMessages(x)
  <2>1. /\ call[x].op = "PULL" /\ Served(x) /\ Replies(x)
        /\ call'[x] # NoCall => call'[x].response = MessagesFor({call[x].src}, mailbox)
        /\ mailbox' = MessagesFor(AnyUUID \ {call[x].src}, mailbox)
        /\ UNCHANGED <<directory, issued, doubled>> /\ call[x] # NoCall
    BY <1>0, <1>6 DEF HandMessages, Asked, Answer, Goes, Replies, Served, NoCall
  <2>2. \A recipients : \A i \in DOMAIN MessagesFor(recipients, mailbox) :
          \E j \in DOMAIN mailbox :
            /\ MessagesFor(recipients, mailbox)[i] = mailbox[j]
            /\ mailbox[j].dest \in recipients
    <3> SUFFICES ASSUME NEW recipients, NEW i \in DOMAIN MessagesFor(recipients, mailbox)
                 PROVE  MessagesFor(recipients, mailbox)[i] \in Selected(recipients, mailbox)
      BY DEF Selected
    <3> QED
      BY <1>0, MessagesForSelects
  <2>3. call'[x] # NoCall =>
          \A i \in DOMAIN call'[x].response :
            \E j \in DOMAIN mailbox : /\ call'[x].response[i] = mailbox[j]
                                      /\ mailbox[j].dest = call[x].src
    BY <2>1, <2>2
  <2>4. \A i \in DOMAIN mailbox' : \E j \in DOMAIN mailbox : mailbox'[i] = mailbox[j]
    BY <2>1, <2>2
  <2> QED
    BY <2>1, <2>3, <2>4 DEF MessagesHanded, ServeEffect
<1> QED
  BY <1>1, <1>2, <1>3, <1>4, <1>5, <1>6 DEF Serve

\* A call the server works on stays the call it was, or ends.
LEMMA ServeKeepsCall ==
  ASSUME NEW x, ServeEffect(x)
  PROVE  \/ call'[x] = NoCall
         \/ /\ call'[x].op = call[x].op /\ call'[x].src = call[x].src
            /\ call'[x].args = call[x].args
BY DEF ServeEffect, Refused, NameChecked, ClientAdded, ToldSomething, MessageStored,
   MessagesHanded, Replies, Goes

\* The last step of a handler changes the name a program goes by only when it has
\* registered.
LEMMA FinishRegisters ==
  ASSUME TypeOK, LookupsFind, NEW p \in Program, Finish(p)
  PROVE  /\ call[p] # NoCall
         /\ \/ registered'[p] = registered[p] /\ uuid'[p] = uuid[p]
            \/ /\ call[p].op = "REGISTER" /\ store'[p] = store[p] /\ registered'[p] = TRUE
               /\ \/ Answered(p, "REGISTER") /\ uuid'[p] \in Payloads(p, call[p].response)
                  \/ p \in Cuts /\ uuid'[p] = ZeroUUID
<1>0. /\ p \in DOMAIN registered /\ p \in DOMAIN uuid /\ GoodCall(call[p])
  BY TypeParts DEF TypeOK, CallsOK, Exchange
<1>1. CASE Unanswered(p) \/ InfoNotWritten(p)
  BY <1>1 DEF Unanswered, InfoNotWritten, Answered, NoCall, localVars
<1>2. CASE BecomeRegistered(p)
  <2>1. /\ call[p] # NoCall /\ Answered(p, "REGISTER") /\ call[p].op = "REGISTER"
        /\ store'[p] = store[p]
    BY <1>2 DEF BecomeRegistered, Answered, NoCall
  <2>2. uuid'[p] \in Payloads(p, call[p].response)
    BY <1>0, <1>2 DEF BecomeRegistered
  <2>3. registered'[p] = TRUE
    BY <1>0, <1>2 DEF BecomeRegistered
  <2> QED
    BY <2>1, <2>2, <2>3
<1>3. CASE BecomeRegisteredEarly(p)
  <2>1. call[p] # NoCall /\ call[p].op = "REGISTER"
    BY <1>0, <1>3, CallFields DEF BecomeRegisteredEarly, NoCall
  <2> QED
    BY <1>0, <1>3, <2>1 DEF BecomeRegisteredEarly
<1>4. CASE \/ AddAllContacts(p) \/ KeepPublicKey(p) \/ KeyForNoContact(p) \/ MessageSent(p)
           \/ PrintMessages(p)
  BY <1>4 DEF AddAllContacts, KeepPublicKey, KeyForNoContact, MessageSent, PrintMessages,
     Answered, NoCall
<1> QED
  BY <1>1, <1>2, <1>3, <1>4 DEF Finish

\* The server only ever adds a client, under an UUID it has never given out.
DirectoryGrows ==
  /\ UUIDsInUse \subseteq UUIDsInUse' /\ issued \subseteq issued'
  /\ UUIDsInUse' \subseteq UUIDsInUse \cup (UUID \ issued)
  /\ doubled \subseteq doubled'

LEMMA ServerRemembers ==
  ASSUME TypeOK, LookupsFind,
         \/ UNCHANGED <<directory, issued, doubled>>
         \/ \E x \in Exchange : Serve(x)
  PROVE  DirectoryGrows
<1>1. CASE UNCHANGED <<directory, issued, doubled>>
  BY <1>1 DEF DirectoryGrows, UUIDsInUse
<1>2. ASSUME NEW x \in Exchange, ClientAdded(x)  PROVE DirectoryGrows
  <2>1. directory \in Seq(ClientRecord)
    BY DEF TypeOK
  <2>2. PICK new \in UUID \ issued :
          /\ directory' = Append(directory, [uuid |-> new, username |-> call[x].args])
          /\ issued' = issued \cup {new} /\ doubled \subseteq doubled'
    BY <1>2 DEF ClientAdded
  <2> DEFINE r == [uuid |-> new, username |-> call[x].args]
  <2>3. /\ \A i \in DOMAIN directory : i \in DOMAIN directory' /\ directory'[i] = directory[i]
        /\ \A i \in DOMAIN directory' :
             \/ directory'[i] = r
             \/ i \in DOMAIN directory /\ directory'[i] = directory[i]
    <3>1. directory' = Append(directory, r)
      BY <2>2
    <3> HIDE DEF r
    <3> QED
      BY <2>1, <3>1
  <2> QED
    BY <2>2, <2>3 DEF DirectoryGrows, UUIDsInUse
<1> QED
  BY <1>1, <1>2, ServeDoes
     DEF ServeEffect, Refused, NameChecked, ToldSomething, MessageStored, MessagesHanded

LEMMA ProgramsLeaveServer ==
  ASSUME TypeOK, LookupsFind, NEW p \in Program, Command(p) \/ Finish(p) \/ Restart(p)
  PROVE  UNCHANGED <<directory, mailbox, issued, doubled>> /\ DirectoryGrows
<1>1. UNCHANGED <<directory, mailbox, issued, doubled>>
  BY CommandAsks, FinishEnds, RestartEmpties DEF serverVars
<1> QED
  BY <1>1, ServerRemembers

-----------------------------------------------------------------------------
\* Whoever waits for nothing is not here

\* What a program can go by: an UUID of the past, or what came of one.
Past == issued \cup {ZeroUUID} \cup PartUUID

Session(p) ==
  /\ uuid[p] \in Past
  /\ ~registered[p] => uuid[p] = ZeroUUID /\ store[p] = EmptyStore
  /\ call[p] # NoCall => (call[p].op = "REGISTER" <=> ~registered[p]) /\ call[p].src = uuid[p]
  /\ Answered(p, "REGISTER") => call[p].response \in issued

Caller(x) == call[x] # NoCall => call[x].src \in Past

\* What a program does until it has registered, and how it goes by an UUID the
\* server has given out, if by one.
SessionInv == (\A p \in Program : Session(p)) /\ (\A x \in Exchange : Caller(x))

LEMMA SessionServe ==
  ASSUME TypeOK, LookupsFind, SessionInv, NEW x \in Exchange, Serve(x)
  PROVE  SessionInv'
<1>1. /\ UNCHANGED <<registered, uuid, store>> /\ issued \subseteq issued'
      /\ \A y \in Exchange \ {x} : call'[y] = call[y]
  BY ServeAnswers, ServerRemembers DEF DirectoryGrows
<1>2. ServeEffect(x) /\ call[x] # NoCall
  BY ServeDoes
<1>3. Answered(x, "REGISTER")' => call'[x].response \in issued'
  <2> SUFFICES ASSUME Answered(x, "REGISTER")'  PROVE call'[x].response \in issued'
    OBVIOUS
  <2>1. call'[x] # NoCall
    BY DEF Answered, NoCall
  <2>2. ClientAdded(x)
    BY <1>2, <2>1 DEF ServeEffect, Refused, NameChecked, ToldSomething, MessageStored,
       MessagesHanded, Replies, Goes, Answered
  <2> QED
    BY <2>1, <2>2 DEF ClientAdded
<1>4. call'[x] # NoCall => call'[x].op = call[x].op /\ call'[x].src = call[x].src
  BY <1>2, ServeKeepsCall
<1>5. Past \subseteq Past'
  BY <1>1 DEF Past
<1>6. \A y \in Exchange : Caller(y)'
  BY <1>1, <1>2, <1>4, <1>5 DEF SessionInv, Caller
<1>7. ASSUME NEW q \in Program  PROVE Session(q)'
  <2>1. Session(q) /\ q \in Exchange
    BY DEF SessionInv, Exchange
  <2>2. CASE q = x
    BY <1>1, <1>2, <1>3, <1>4, <1>5, <2>1, <2>2 DEF Session
  <2>3. CASE q # x
    BY <1>1, <1>5, <2>1, <2>3 DEF Session, Answered
  <2> QED
    BY <2>2, <2>3
<1> QED
  BY <1>6, <1>7 DEF SessionInv

LEMMA SessionStep ==
  ASSUME TypeOK, LookupsFind, SessionInv, [Next]_vars
  PROVE  SessionInv'
<1>1. CASE UNCHANGED vars
  BY <1>1 DEF vars, localVars, serverVars, SessionInv, Session, Caller, Past, Answered
<1>2. CASE ServerRestart
  <2>1. \A x \in Exchange : call'[x] = call[x] \/ call'[x] = NoCall
    BY <1>2 DEF ServerRestart
  <2>2. UNCHANGED <<registered, uuid, store, issued>>
    BY <1>2 DEF ServerRestart, localVars
  <2> QED
    BY <2>1, <2>2 DEF SessionInv, Session, Caller, Past, Exchange, Answered, NoCall
<1>3. ASSUME NEW p \in Program, Command(p) \/ Finish(p) \/ Restart(p), Session(p)'
      PROVE  SessionInv'
  <2>1. OthersKeep(p) /\ issued' = issued
    BY <1>3, OneProgram, ProgramsLeaveServer
  <2>2. \A q \in Program \ {p} : Session(q)'
    BY <2>1 DEF SessionInv, Session, Past, Answered, OthersKeep, OtherCalls
  <2>3. \A x \in Orphan : Caller(x)'
    BY <2>1 DEF SessionInv, Caller, Past, OthersKeep, OtherCalls, TakenOver, Exchange, NoCall
  <2>4. \A q \in Program : Caller(q)'
    BY <1>3, <2>2 DEF Session, Caller
  <2> QED
    BY <1>3, <2>2, <2>3, <2>4 DEF SessionInv, Exchange
<1>4. ASSUME NEW p \in Program, Command(p)  PROVE SessionInv'
  <2>1. UNCHANGED <<registered, uuid, store, issued>>
    BY <1>4, CommandAsks DEF serverVars
  <2>2. /\ call'[p].stage # "answered"
        /\ call'[p] # NoCall => (call'[p].op = "REGISTER" <=> ~registered[p])
                                /\ call'[p].src = uuid[p]
    <3>1. \/ call'[p] = NoCall
          \/ /\ call'[p].stage = "asked" /\ call'[p].src = uuid[p]
             /\ \/ call'[p].op = "REGISTER" /\ ~registered[p]
                \/ call'[p].op \in {"LIST", "KEY", "PULL", "SEND"} /\ registered[p]
      BY <1>4, CommandRequests DEF CommandEffect, AskedToSend
    <3> QED
      BY <3>1 DEF NoCall
  <2>3. Session(p)'
    BY <2>1, <2>2 DEF SessionInv, Session, Past, Answered
  <2> QED
    BY <1>3, <1>4, <2>3
<1>5. ASSUME NEW p \in Program, Finish(p)  PROVE SessionInv'
  <2>1. call'[p] = NoCall /\ issued' = issued
    BY <1>5, FinishEnds DEF serverVars
  <2>2. Session(p) /\ registered \in [Program -> BOOLEAN] /\ call[p] # NoCall
    BY <1>5, FinishRegisters DEF SessionInv, TypeOK
  <2>3. ASSUME registered'[p] = registered[p] /\ uuid'[p] = uuid[p]
        PROVE  Session(p)'
    <3>1. registered[p] \/ store'[p] = store[p]
      <4>1. CASE ~registered[p]
        <5>1. call[p].op = "REGISTER"
          BY <2>2, <4>1 DEF Session
        <5> QED
          BY <1>5, <2>2, <4>1, <5>1 DEF Finish, Unanswered, InfoNotWritten,
             BecomeRegistered, BecomeRegisteredEarly, AddAllContacts, KeepPublicKey,
             KeyForNoContact, MessageSent, PrintMessages, Answered, localVars
      <4> QED
        BY <4>1
    <3> QED
      BY <2>1, <2>2, <2>3, <3>1 DEF Session, Past, Answered, NoCall
  <2>4. ASSUME /\ registered'[p] = TRUE
               /\ \/ Answered(p, "REGISTER") /\ uuid'[p] \in Payloads(p, call[p].response)
                  \/ uuid'[p] = ZeroUUID
        PROVE  Session(p)'
    BY <2>1, <2>2, <2>4 DEF Session, Payloads, Past, Answered, NoCall
  <2> QED
    BY <1>3, <1>5, <2>3, <2>4, FinishRegisters
<1>6. ASSUME NEW p \in Program, Restart(p)  PROVE SessionInv'
  <2>1. /\ registered'[p] = FALSE /\ uuid'[p] = ZeroUUID /\ store'[p] = EmptyStore
        /\ call'[p] = NoCall
    BY <1>6, RestartEmpties
  <2>2. Session(p)'
    BY <2>1 DEF Session, Past, Answered, NoCall
  <2> QED
    BY <1>3, <1>6, <2>2
<1> QED
  BY <1>1, <1>2, <1>4, <1>5, <1>6, SessionServe DEF Next

-----------------------------------------------------------------------------
\* Every message that waits has somebody to wait for

Calling(x, op) == call[x] # NoCall /\ call[x].op = op

\* Whom a client may have among its contacts: whoever the server knows, and what
\* came of a list that was cut.
Here == UUIDsInUse \cup IF Cuts = {} THEN {} ELSE {ZeroUUID} \cup PartUUID

Contacts(p) ==
  /\ \A name \in Known(p) : Dest(p, name) \in Here
  /\ Answered(p, "LIST") =>
       \A i \in DOMAIN call[p].response : call[p].response[i].uuid \in Here

Addressed(x) == Calling(x, "SEND") => call[x].args.dest \in Here

\* RecipientsKnown itself is not inductive: a client the server knows is about to
\* send to somebody the server knows, or a thread goes on to store what it has sent.
RecipientInv ==
  /\ RecipientsKnown
  /\ \A p \in Program : Current(p) => Contacts(p)
  /\ \A x \in Exchange : Served(x) => Addressed(x)

\* Nobody becomes known to the server but by registering.
LEMMA StillInUse ==
  ASSUME DirectoryGrows, NEW u \in Past, u \in UUIDsInUse'
  PROVE  u \in UUIDsInUse
BY PicksAssumption DEF DirectoryGrows, Past

LEMMA HereGrows ==
  ASSUME DirectoryGrows
  PROVE  Here \subseteq Here'
BY DEF DirectoryGrows, Here

\* The UUIDs of a payload that was cut are those of the whole one, zero, or a part.
LEMMA ReceivedUUIDs ==
  ASSUME NEW p, NEW records, NEW came \in Received(p, records),
         \A i \in DOMAIN records : records[i].uuid \in Here
  PROVE  \A i \in DOMAIN came : came[i].uuid \in Here
<1>1. CASE came = records
  BY <1>1
<1>2. CASE came # records
  <2>1. p \in Cuts
    BY <1>2 DEF Received
  <2>2. PICK n \in DOMAIN records : \E part \in Broken(records[n]) : came = CutAt(records, n, part)
    BY <1>2, <2>1 DEF Received
  <2>3. PICK part \in Broken(records[n]) : came = CutAt(records, n, part)
    BY <2>2
  <2>4. {ZeroUUID} \cup PartUUID \subseteq Here
    BY <2>1 DEF Here
  <2>5. part.uuid \in Here
    BY <2>4 DEF Broken
  <2>6. ZeroRecord.uuid \in Here
    BY <2>4 DEF ZeroRecord
  <2> QED
    BY <2>3, <2>5, <2>6 DEF CutAt
<1> QED
  BY <1>1, <1>2

LEMMA RecipientServe ==
  ASSUME TypeOK, LookupsFind, SessionInv, RecipientInv, NEW x \in Exchange, Serve(x)
  PROVE  RecipientInv'
<1>0. mailbox \in Seq(Message)
  BY DEF TypeOK
<1>1. /\ UNCHANGED <<uuid, store>> /\ DirectoryGrows /\ ServeEffect(x) /\ call[x] # NoCall
      /\ \A y \in Exchange \ {x} : call'[y] = call[y]
  BY ServeAnswers, ServerRemembers, ServeDoes
<1>2. /\ Here \subseteq Here'
      /\ \A p \in Program : Known(p)' = Known(p)
      /\ \A p \in Program : \A name : Dest(p, name)' = Dest(p, name)
  BY <1>1, HereGrows DEF Known, Dest
<1>3. \/ call'[x] = NoCall
      \/ /\ call'[x].op = call[x].op /\ call'[x].src = call[x].src
         /\ call'[x].args = call[x].args
  BY <1>1, ServeKeepsCall
<1>4. ASSUME NEW y \in Exchange, Served(y)'  PROVE Addressed(y)'
  <2>1. call[y] # NoCall => call[y].src \in Past
    BY DEF SessionInv, Caller
  <2>2. \/ call'[y] = NoCall
        \/ /\ call[y] # NoCall => call'[y].op = call[y].op
           /\ call[y] = NoCall => call'[y] = NoCall
           /\ call'[y].src = call[y].src /\ call'[y].args = call[y].args
    BY <1>1, <1>3
  <2>3. CASE call'[y] # NoCall
    <3>1. Served(y)
      BY <1>1, <1>4, <2>1, <2>2, <2>3, StillInUse DEF Served
    <3>2. Addressed(y)
      BY <3>1 DEF RecipientInv
    <3> QED
      BY <1>2, <2>2, <2>3, <3>2 DEF Addressed, Calling
  <2> QED
    BY <2>3 DEF Addressed, Calling
<1>5. ASSUME NEW p \in Program, Current(p)'  PROVE Contacts(p)'
  <2>1. p \in Exchange /\ uuid[p] \in Past
    BY DEF Exchange, SessionInv, Session
  <2>2. Current(p)
    BY <1>1, <1>5, <2>1, StillInUse DEF Current
  <2>3. Contacts(p)
    BY <2>2 DEF RecipientInv
  <2>4. ASSUME Answered(p, "LIST")', NEW i \in DOMAIN call'[p].response
        PROVE  call'[p].response[i].uuid \in Here'
    <3>1. CASE p = x
      <4>1. call'[p] # NoCall
        BY <2>4 DEF Answered, NoCall
      <4>2. call'[p].response = directory /\ directory' = directory
        BY <1>1, <2>4, <3>1, <4>1 DEF ServeEffect, Refused, NameChecked, ClientAdded,
           ToldSomething, MessageStored, MessagesHanded, Replies, Goes, Answered
      <4> QED
        BY <2>4, <4>2 DEF Here, UUIDsInUse
    <3>2. CASE p # x
      BY <1>1, <1>2, <2>1, <2>3, <2>4, <3>2 DEF Contacts, Answered
    <3> QED
      BY <3>1, <3>2
  <2> QED
    BY <1>2, <2>3, <2>4 DEF Contacts
<1>6. RecipientsKnown'
  <2>1. CASE mailbox' = mailbox
    BY <1>2, <2>1 DEF RecipientInv, RecipientsKnown, Here
  <2>2. CASE MessageStored(x)
    <3>1. /\ call[x].args \in Message /\ Served(x) /\ Calling(x, "SEND")
          /\ mailbox' = Append(mailbox, call[x].args)
      BY <1>1, <2>2 DEF MessageStored, Calling
    <3>2. call[x].args.dest \in Here
      BY <3>1 DEF RecipientInv, Addressed
    <3>3. \A i \in DOMAIN mailbox' :
            mailbox'[i] = call[x].args \/ (i \in DOMAIN mailbox /\ mailbox'[i] = mailbox[i])
      BY <1>0, <3>1
    <3>4. \A i \in DOMAIN mailbox' : mailbox'[i].dest \in Here
      BY <3>2, <3>3 DEF RecipientInv, RecipientsKnown, Here
    <3> QED
      BY <1>2, <3>4 DEF RecipientsKnown, Here
  <2>3. CASE MessagesHanded(x)
    <3>1. \A i \in DOMAIN mailbox' : mailbox'[i].dest \in Here
      BY <2>3 DEF MessagesHanded, RecipientInv, RecipientsKnown, Here
    <3> QED
      BY <1>2, <3>1 DEF RecipientsKnown, Here
  <2> QED
    BY <1>1, <2>1, <2>2, <2>3 DEF ServeEffect, Refused, NameChecked, ClientAdded, ToldSomething
<1> QED
  BY <1>4, <1>5, <1>6 DEF RecipientInv

LEMMA RecipientFinish ==
  ASSUME TypeOK, LookupsFind, NEW p \in Program, Finish(p), Current(p) => Contacts(p),
         Session(p), Current(p)'
  PROVE  Contacts(p)'
<1>1. call'[p] = NoCall /\ UNCHANGED <<directory, mailbox, issued, doubled>> /\ DirectoryGrows
  BY FinishEnds, ProgramsLeaveServer
<1>2. Here' = Here
  BY <1>1 DEF Here, UUIDsInUse
<1>3. ~Answered(p, "LIST")'
  BY <1>1 DEF Answered, NoCall
<1>4. SUFFICES ASSUME NEW name \in DOMAIN store'[p].clientsList
               PROVE  store'[p].clientsList[name] \in Here
  BY <1>2, <1>3 DEF Contacts, Known, Dest, getClientUUIDfromClientsList
<1>5. ASSUME Current(p), name \in DOMAIN store[p].clientsList
      PROVE  store[p].clientsList[name] \in Here
  BY <1>5 DEF Contacts, Known, Dest, getClientUUIDfromClientsList
<1>6. CASE call[p].op = "REGISTER" /\ store'[p] = store[p]
  <2>1. store[p] = EmptyStore
    BY <1>6, FinishRegisters DEF Session
  <2> QED
    BY <1>4, <1>6, <2>1 DEF EmptyStore
<1>7. CASE uuid'[p] = uuid[p]
  <2>1. Current(p)
    BY <1>1, <1>7 DEF Current, UUIDsInUse
  <2>2. CASE ContactsStay(p) \/ SentKeyKept(p) \/ PublicKeyKept(p) \/ ReceivedKeysKept(p)
    <3>1. store'[p].clientsList = store[p].clientsList
      BY <2>2 DEF ContactsStay, SentKeyKept, SymmetricKeySet, PublicKeyKept,
         SymmetricKeysStay, SameNames, ReceivedKeysKept, Keyed
    <3> QED
      BY <1>4, <1>5, <2>1, <3>1
  <2>3. CASE ListKept(p)
    <3>1. PICK came \in Received(p, call[p].response) : store'[p] \in Filled(store[p], came)
      BY <2>3 DEF ListKept
    <3>2. \A i \in DOMAIN call[p].response : call[p].response[i].uuid \in Here
      BY <2>1, <2>3 DEF Contacts, ListKept
    <3>3. \A i \in DOMAIN came : came[i].uuid \in Here
      BY <3>2, ReceivedUUIDs
    <3>4. NameFrom(store[p], came, store'[p], name)
      BY <1>4, <3>1 DEF Filled
    <3> QED
      BY <1>5, <2>1, <3>3, <3>4 DEF NameFrom
  <2> QED
    BY <2>2, <2>3, FinishEffect DEF ContactsEffect
<1> QED
  BY <1>6, <1>7, FinishRegisters

LEMMA RecipientStep ==
  ASSUME TypeOK, LookupsFind, SessionInv, RecipientInv, [Next]_vars
  PROVE  RecipientInv'
<1>1. CASE UNCHANGED vars
  BY <1>1 DEF vars, localVars, serverVars, RecipientInv, RecipientsKnown, Current, Contacts,
     Known, Dest, Served, Addressed, Calling, Answered, Here, UUIDsInUse
<1>2. CASE ServerRestart
  <2>1. UUIDsInUse' = {} /\ mailbox' = <<>>
    BY <1>2 DEF ServerRestart, UUIDsInUse
  <2> QED
    BY <2>1 DEF RecipientInv, RecipientsKnown, Current, Served
<1>3. ASSUME NEW p \in Program, Command(p) \/ Finish(p) \/ Restart(p),
             Current(p)' => Contacts(p)', Served(p)' => Addressed(p)'
      PROVE  RecipientInv'
  <2>1. OthersKeep(p) /\ UNCHANGED <<directory, mailbox>>
    BY <1>3, OneProgram, ProgramsLeaveServer
  <2>2. UUIDsInUse' = UUIDsInUse /\ Here' = Here
    BY <2>1 DEF UUIDsInUse, Here
  <2>3. RecipientsKnown'
    BY <2>1, <2>2 DEF RecipientInv, RecipientsKnown
  <2>4. ASSUME NEW q \in Program \ {p}, Current(q)'  PROVE Contacts(q)'
    <3>1. UNCHANGED <<uuid[q], store[q], call[q]>>
      BY <2>1 DEF OthersKeep, OtherCalls
    <3>2. Contacts(q)
      BY <2>2, <2>4, <3>1 DEF Current, RecipientInv
    <3> QED
      BY <2>2, <3>1, <3>2 DEF Contacts, Known, Dest, Answered
  <2>5. ASSUME NEW x \in Exchange \ {p}, Served(x)'  PROVE Addressed(x)'
    <3>1. p \in Exchange
      BY DEF Exchange
    <3>2. call'[x] = call[x] \/ call'[x] = call[p]
      BY <2>1 DEF OthersKeep, OtherCalls, TakenOver, Exchange
    <3> QED
      BY <2>2, <2>5, <3>1, <3>2 DEF RecipientInv, Served, Addressed, Calling
  <2> QED
    BY <1>3, <2>3, <2>4, <2>5 DEF RecipientInv
<1>4. ASSUME NEW p \in Program, Command(p)  PROVE RecipientInv'
  <2>1. UNCHANGED <<uuid, store, directory>>
    BY <1>4, CommandAsks DEF serverVars
  <2>2. /\ UUIDsInUse' = UUIDsInUse /\ Here' = Here /\ Known(p)' = Known(p)
        /\ \A name : Dest(p, name)' = Dest(p, name)
    BY <2>1 DEF Known, Here, UUIDsInUse, Dest
  <2>3. CommandEffect(p)
    BY <1>4, CommandRequests
  <2>4. Current(p) => Contacts(p)
    BY DEF RecipientInv
  <2>5. ~Answered(p, "LIST")'
    BY <2>3 DEF CommandEffect, Answered, NoCall
  <2>6. Current(p)' => Contacts(p)'
    BY <2>1, <2>2, <2>4, <2>5 DEF Current, Contacts
  <2>7. ASSUME Served(p)', Calling(p, "SEND")'  PROVE call'[p].args.dest \in Here'
    <3>1. AskedToSend(p) /\ call'[p].src = uuid[p]
      BY <2>3, <2>7 DEF CommandEffect, Calling
    <3> QED
      BY <2>2, <2>4, <2>7, <3>1 DEF AskedToSend, Contacts, Current, Served
  <2> QED
    BY <1>3, <1>4, <2>6, <2>7 DEF Addressed
<1>5. ASSUME NEW p \in Program, call'[p] = NoCall  PROVE Addressed(p)'
  BY <1>5 DEF Addressed, Calling
<1>6. ASSUME NEW p \in Program, Finish(p)  PROVE RecipientInv'
  <2>1. call'[p] = NoCall
    BY <1>6, FinishEnds
  <2>2. Current(p)' => Contacts(p)'
    BY <1>6, RecipientFinish DEF RecipientInv, SessionInv
  <2> QED
    BY <1>3, <1>5, <1>6, <2>1, <2>2
<1>7. ASSUME NEW p \in Program, Restart(p)  PROVE RecipientInv'
  <2>1. call'[p] = NoCall /\ uuid'[p] = ZeroUUID /\ directory' = directory
    BY <1>7, RestartEmpties DEF serverVars
  <2>2. ~Current(p)'
    <3>1. UUIDsInUse \subseteq UUID
      BY DEF TypeOK
    <3> QED
      BY <2>1, <3>1, PicksAssumption DEF Current, UUIDsInUse
  <2> QED
    BY <1>3, <1>5, <1>7, <2>1, <2>2
<1> QED
  BY <1>1, <1>2, <1>4, <1>6, <1>7, RecipientServe DEF Next

\* Every message that waits has somebody to wait for, although the server never
\* looks a recipient up, forgets everybody when it is started again, and goes on
\* with what a client that is gone has sent: but for what is left of the UUIDs of a
\* list that was cut.
THEOREM RecipientsKnownCorrect == Spec => []RecipientsKnown
<1>1. Init => SessionInv /\ RecipientInv
  <2> SUFFICES ASSUME Init  PROVE SessionInv /\ RecipientInv
    OBVIOUS
  <2>1. /\ directory = <<>> /\ mailbox = <<>> /\ \A x \in Exchange : call[x] = NoCall
        /\ \A p \in Program : /\ registered[p] = FALSE /\ uuid[p] = ZeroUUID
                              /\ store[p] = EmptyStore /\ call[p] = NoCall
    BY DEF Init, Exchange
  <2>2. SessionInv
    BY <2>1 DEF SessionInv, Session, Caller, Past, Answered, NoCall
  <2>3. UUIDsInUse = {}
    BY <2>1 DEF UUIDsInUse
  <2>4. RecipientInv
    BY <2>1, <2>3 DEF RecipientInv, RecipientsKnown, Current, Served
  <2> QED
    BY <2>2, <2>4
<1>2. TypeOK /\ LookupsFind /\ SessionInv /\ RecipientInv /\ [Next]_vars
        => SessionInv' /\ RecipientInv'
  BY SessionStep, RecipientStep
<1>3. RecipientInv => RecipientsKnown
  BY DEF RecipientInv
<1> QED
  BY <1>1, <1>2, <1>3, TypesAndLookups, PTL DEF Spec

-----------------------------------------------------------------------------
\* A name the server has inserted once leads to one client only

Enrolled(u, n) == \E i \in DOMAIN directory : directory[i] = [uuid |-> u, username |-> n]

\* The pairs of an UUID and a name that are in the maps of a program, or are about
\* to be added to them.
Knows(p, u, n) ==
  \/ n \in Known(p) /\ Dest(p, n) = u
  \/ u \in DOMAIN store[p].contactsList /\ getContact(store[p], u).username = n
  \/ /\ Answered(p, "LIST")
     /\ \E i \in DOMAIN call[p].response :
          call[p].response[i] = [uuid |-> u, username |-> n]

\* An UUID has one name, and a name one UUID unless it was inserted again.
Alike(u, m, v, n) == (u = v => m = n) /\ (m = n => u = v \/ m \in doubled)

NamesAgree(p) ==
  \A u, v \in AnyUUID : \A m, n \in AnyName :
    Knows(p, u, m) /\ Knows(p, v, n) => Alike(u, m, v, n)

DirectoryAgrees ==
  \A u, v \in AnyUUID : \A m, n \in AnyName :
    Enrolled(u, m) /\ Enrolled(v, n) => Alike(u, m, v, n)

Named(p) ==
  /\ NamesAgree(p)
  /\ Current(p) => \A u \in AnyUUID : \A n \in AnyName : Knows(p, u, n) => Enrolled(u, n)

\* The server's list and those of the programs it knows are the same, as far as
\* these go, and none names a client twice.
NamesInv == DirectoryAgrees /\ \A p \in Program \ Cuts : Named(p)

\* What a handler leaves in the maps was there or in the list it was given.
LEMMA FinishKnows ==
  ASSUME TypeOK, LookupsFind, NEW p \in Program \ Cuts, Finish(p), Session(p),
         NEW u \in AnyUUID, NEW n \in AnyName, Knows(p, u, n)'
  PROVE  Knows(p, u, n) /\ uuid'[p] = uuid[p]
<1> DEFINE s == store[p]
           t == store'[p]
<1>1. call'[p] = NoCall
  BY FinishEnds
<1>2. \/ n \in DOMAIN t.clientsList /\ t.clientsList[n] = u
      \/ u \in DOMAIN t.contactsList /\ t.contactsList[u].username = n
  BY <1>1 DEF Knows, Known, Dest, getContact, getClientUUIDfromClientsList, Answered, NoCall
<1>3. ASSUME \/ n \in DOMAIN s.clientsList /\ s.clientsList[n] = u
             \/ u \in DOMAIN s.contactsList /\ s.contactsList[u].username = n
      PROVE  Knows(p, u, n)
  BY <1>3 DEF Knows, Known, Dest, getContact, getClientUUIDfromClientsList
<1>4. uuid'[p] = uuid[p]
  <2>1. CASE call[p].op = "REGISTER" /\ store'[p] = store[p]
    <3>1. t = EmptyStore
      BY <2>1, FinishRegisters DEF Session
    <3> QED
      BY <1>2, <3>1 DEF EmptyStore
  <2> QED
    BY <2>1, FinishRegisters
<1>5. CASE ContactsStay(p) \/ SentKeyKept(p) \/ PublicKeyKept(p) \/ ReceivedKeysKept(p)
  <2>1. /\ t.clientsList = s.clientsList /\ DOMAIN t.contactsList = DOMAIN s.contactsList
        /\ \A v \in DOMAIN s.contactsList :
             t.contactsList[v].username = s.contactsList[v].username
    BY <1>5 DEF ContactsStay, SentKeyKept, SymmetricKeySet, PublicKeyKept,
       SymmetricKeysStay, SameNames, ReceivedKeysKept, Keyed
  <2> QED
    BY <1>2, <1>3, <1>4, <2>1
<1>6. CASE ListKept(p)
  <2> DEFINE records == call[p].response
  <2>1. t \in Filled(s, records) /\ Answered(p, "LIST")
    BY <1>6 DEF ListKept, Received
  <2>2. ASSUME NEW i \in DOMAIN records, records[i] = [uuid |-> u, username |-> n]
        PROVE  Knows(p, u, n)
    BY <2>1, <2>2 DEF Knows
  <2>3. /\ n \in DOMAIN t.clientsList => NameFrom(s, records, t, n)
        /\ u \in DOMAIN t.contactsList => ContactFrom(s, records, t, u)
    BY <2>1 DEF Filled
  <2> HIDE DEF records
  <2> QED
    BY <1>2, <1>3, <1>4, <2>2, <2>3 DEF NameFrom, ContactFrom
<1> QED
  BY <1>5, <1>6, FinishEffect DEF ContactsEffect

LEMMA AlikeStays ==
  ASSUME doubled \subseteq doubled', NEW u, NEW m, NEW v, NEW n, Alike(u, m, v, n)
  PROVE  Alike(u, m, v, n)'
BY DEF Alike

\* The server inserts an UUID it has never given out, under a name it has not
\* inserted or that is inserted for a second time.
LEMMA DirectoryStaysAlike ==
  ASSUME TypeOK, LookupsFind, NEW x \in Exchange, DirectoryAgrees, ClientAdded(x)
  PROVE  /\ DirectoryAgrees'
         /\ \A u, n : Enrolled(u, n) => Enrolled(u, n)'
<1>0. directory \in Seq(ClientRecord) /\ UUIDsInUse \subseteq issued
  BY DEF TypeOK
<1> DEFINE name == call[x].args
<1>1. PICK new \in UUID \ issued :
        directory' = Append(directory, [uuid |-> new, username |-> name])
  BY DEF ClientAdded
<1>2. doubled' = doubled \cup ({name} \cap NamesInUse)
  BY DEF ClientAdded
<1> DEFINE r == [uuid |-> new, username |-> name]
<1>3. /\ DOMAIN directory' = DOMAIN directory \cup {Len(directory) + 1}
      /\ \A i \in DOMAIN directory : directory'[i] = directory[i]
      /\ directory'[Len(directory) + 1] = r
  <2>1. directory' = Append(directory, r)
    BY <1>1
  <2> HIDE DEF r
  <2> QED
    BY <1>0, <2>1
<1>4. ASSUME NEW u, NEW n
      PROVE  Enrolled(u, n)' <=> (Enrolled(u, n) \/ r = [uuid |-> u, username |-> n])
  BY <1>3 DEF Enrolled
<1>5. ASSUME NEW u, NEW n, Enrolled(u, n)  PROVE u # new /\ n \in NamesInUse
  BY <1>0, <1>5 DEF Enrolled, UUIDsInUse, NamesInUse
<1>6. ASSUME NEW u, NEW n  PROVE r = [uuid |-> u, username |-> n] <=> (u = new /\ n = name)
  OBVIOUS
<1> HIDE DEF r, name
<1>7. ASSUME NEW u \in AnyUUID, NEW v \in AnyUUID, NEW m \in AnyName, NEW n \in AnyName,
             Enrolled(u, m)', Enrolled(v, n)'
      PROVE  Alike(u, m, v, n)'
  <2>1. /\ Enrolled(u, m) \/ (u = new /\ m = name)
        /\ Enrolled(v, n) \/ (v = new /\ n = name)
    BY <1>4, <1>6, <1>7
  <2>2. CASE Enrolled(u, m) /\ Enrolled(v, n)
    BY <1>2, <2>2 DEF DirectoryAgrees, Alike
  <2>3. CASE Enrolled(u, m) /\ v = new /\ n = name
    BY <1>2, <1>5, <2>3 DEF Alike
  <2>4. CASE Enrolled(v, n) /\ u = new /\ m = name
    BY <1>2, <1>5, <2>4 DEF Alike
  <2>5. CASE u = new /\ m = name /\ v = new /\ n = name
    BY <2>5 DEF Alike
  <2> QED
    BY <2>1, <2>2, <2>3, <2>4, <2>5
<1>8. DirectoryAgrees'
  BY <1>7 DEF DirectoryAgrees
<1> QED
  BY <1>4, <1>8

\* A program that knows no more than it did, or that was given the server's list.
LEMMA NamedStays ==
  ASSUME NEW q \in Program, Named(q), DirectoryAgrees, doubled \subseteq doubled',
         Current(q)' => Current(q) /\ \A u, n : Enrolled(u, n) => Enrolled(u, n)',
         \A u \in AnyUUID : \A n \in AnyName :
           Knows(q, u, n)' => Knows(q, u, n) \/ (Current(q) /\ Enrolled(u, n))
  PROVE  Named(q)'
<1>1. ASSUME NEW u \in AnyUUID, NEW v \in AnyUUID, NEW m \in AnyName, NEW n \in AnyName,
             Knows(q, u, m)', Knows(q, v, n)'
      PROVE  Alike(u, m, v, n)'
  <2>1. CASE Current(q)
    <3>1. Enrolled(u, m) /\ Enrolled(v, n)
      BY <1>1, <2>1 DEF Named
    <3> QED
      BY <3>1, AlikeStays DEF DirectoryAgrees
  <2>2. CASE ~Current(q)
    <3>1. Knows(q, u, m) /\ Knows(q, v, n)
      BY <1>1, <2>2
    <3> QED
      BY <3>1, AlikeStays DEF Named, NamesAgree
  <2> QED
    BY <2>1, <2>2
<1>2. NamesAgree(q)'
  BY <1>1 DEF NamesAgree
<1>3. Current(q)' => \A u \in AnyUUID : \A n \in AnyName : Knows(q, u, n)' => Enrolled(u, n)'
  BY DEF Named
<1> QED
  BY <1>2, <1>3 DEF Named

LEMMA NamesServe ==
  ASSUME TypeOK, LookupsFind, SessionInv, NamesInv, NEW x \in Exchange, Serve(x)
  PROVE  NamesInv'
<1>1. /\ UNCHANGED <<uuid, store>> /\ DirectoryGrows /\ ServeEffect(x) /\ call[x] # NoCall
      /\ \A y \in Exchange \ {x} : call'[y] = call[y]
  BY ServeAnswers, ServerRemembers, ServeDoes
<1>2. \A q \in Program : Current(q)' => Current(q)
  BY <1>1, StillInUse DEF Current, SessionInv, Session
<1>3. /\ DirectoryAgrees' /\ doubled \subseteq doubled'
      /\ \A u, n : Enrolled(u, n) => Enrolled(u, n)'
  <2>1. CASE ClientAdded(x)
    BY <1>1, <2>1, DirectoryStaysAlike DEF NamesInv, DirectoryGrows
  <2>2. CASE UNCHANGED <<directory, doubled>>
    BY <2>2 DEF NamesInv, DirectoryAgrees, Enrolled, Alike
  <2> QED
    BY <1>1, <2>1, <2>2 DEF ServeEffect, Refused, NameChecked, ToldSomething, MessageStored,
       MessagesHanded
<1>4. ASSUME NEW q \in Program \ Cuts, NEW u, NEW n, Knows(q, u, n)'
      PROVE  Knows(q, u, n) \/ (Current(q) /\ Enrolled(u, n))
  <2>1. CASE ~Answered(q, "LIST")'
    BY <1>1, <1>4, <2>1 DEF Knows, Known, Dest
  <2>2. CASE Answered(q, "LIST")' /\ q = x
    <3>1. call'[q] # NoCall
      BY <2>2 DEF Answered, NoCall
    <3>2. ToldSomething(q) /\ call'[q].response = directory
      BY <1>1, <2>2, <3>1 DEF ServeEffect, Refused, NameChecked, ClientAdded, ToldSomething,
         MessageStored, MessagesHanded, Replies, Goes, Answered
    <3>3. Current(q)
      <4>1. call[q].src = uuid[q]
        BY <1>1, <2>2 DEF SessionInv, Session
      <4> QED
        BY <3>2, <4>1 DEF ToldSomething, Served, Current
    <3> QED
      BY <1>1, <1>4, <3>2, <3>3 DEF Knows, Known, Dest, Enrolled
  <2>3. CASE Answered(q, "LIST")' /\ q # x
    BY <1>1, <1>4, <2>3 DEF Knows, Known, Dest, Answered, Exchange
  <2> QED
    BY <2>1, <2>2, <2>3
<1>5. \A q \in Program \ Cuts : Named(q)'
  BY <1>2, <1>3, <1>4, NamedStays DEF NamesInv
<1> QED
  BY <1>3, <1>5 DEF NamesInv

LEMMA NamesStep ==
  ASSUME TypeOK, LookupsFind, SessionInv, NamesInv, [Next]_vars
  PROVE  NamesInv'
<1>1. CASE UNCHANGED vars
  <2>1. UNCHANGED <<uuid, store, call, directory, doubled>>
    BY <1>1 DEF vars, localVars, serverVars
  <2>2. /\ \A q \in Program : Current(q)' => Current(q)
        /\ \A u, n : Enrolled(u, n)' <=> Enrolled(u, n)
        /\ \A q \in Program : \A u, n : Knows(q, u, n)' <=> Knows(q, u, n)
    BY <2>1 DEF Current, UUIDsInUse, Enrolled, Knows, Known, Dest, Answered
  <2>3. \A q \in Program \ Cuts : Named(q)'
    BY <2>1, <2>2, NamedStays DEF NamesInv
  <2> QED
    BY <2>1, <2>2, <2>3 DEF NamesInv, DirectoryAgrees, Alike
<1>2. CASE ServerRestart
  <2>1. /\ directory' = <<>> /\ UNCHANGED <<uuid, store, doubled>>
        /\ \A q \in Program : call'[q] = NoCall \/ call'[q] = call[q]
    BY <1>2 DEF ServerRestart, localVars, Exchange
  <2>2. DirectoryAgrees' /\ \A q \in Program : ~Current(q)'
    BY <2>1 DEF DirectoryAgrees, Enrolled, Current, UUIDsInUse
  <2>3. ASSUME NEW q \in Program \ Cuts  PROVE Named(q)'
    <3>1. \A u, n : Knows(q, u, n)' => Knows(q, u, n)
      BY <2>1 DEF Knows, Known, Dest, Answered, NoCall
    <3> QED
      BY <2>1, <2>2, <3>1, NamedStays DEF NamesInv
  <2> QED
    BY <2>2, <2>3 DEF NamesInv
<1>3. ASSUME NEW p \in Program, Command(p) \/ Finish(p) \/ Restart(p),
             p \notin Cuts => Named(p)'
      PROVE  NamesInv'
  <2>1. OthersKeep(p) /\ UNCHANGED <<directory, doubled>>
    BY <1>3, OneProgram, ProgramsLeaveServer
  <2>2. \A u, n : Enrolled(u, n)' <=> Enrolled(u, n)
    BY <2>1 DEF Enrolled
  <2>3. ASSUME NEW q \in Program \ Cuts, q # p  PROVE Named(q)'
    <3>1. UNCHANGED <<uuid[q], store[q], call[q]>>
      BY <2>1, <2>3 DEF OthersKeep, OtherCalls
    <3>2. /\ Current(q)' => Current(q)
          /\ \A u, n : Knows(q, u, n)' <=> Knows(q, u, n)
      BY <2>1, <3>1 DEF Current, UUIDsInUse, Knows, Known, Dest, Answered
    <3> QED
      BY <2>1, <2>2, <3>2, NamedStays DEF NamesInv
  <2>4. DirectoryAgrees'
    BY <2>1, <2>2 DEF NamesInv, DirectoryAgrees, Alike
  <2> QED
    BY <1>3, <2>3, <2>4 DEF NamesInv
<1>4. ASSUME NEW p \in Program \ Cuts, UNCHANGED <<directory, doubled>>, uuid'[p] = uuid[p],
             \A u \in AnyUUID : \A n \in AnyName : Knows(p, u, n)' => Knows(p, u, n)
      PROVE  Named(p)'
  <2>1. (Current(p)' => Current(p)) /\ \A u, n : Enrolled(u, n)' <=> Enrolled(u, n)
    BY <1>4 DEF Current, UUIDsInUse, Enrolled
  <2> QED
    BY <1>4, <2>1, NamedStays DEF NamesInv
<1>5. ASSUME NEW p, \A u \in AnyUUID : \A n \in AnyName : ~Knows(p, u, n)'
      PROVE  Named(p)'
  BY <1>5 DEF Named, NamesAgree
<1>6. ASSUME NEW p \in Program, Command(p)  PROVE NamesInv'
  <2>1. UNCHANGED <<uuid, store, directory, doubled>>
    BY <1>6, CommandAsks DEF serverVars
  <2>2. ~Answered(p, "LIST")'
    BY <1>6, CommandAsks DEF Answered, NoCall
  <2>3. \A u, n : Knows(p, u, n)' => Knows(p, u, n)
    BY <2>1, <2>2 DEF Knows, Known, Dest
  <2> QED
    BY <1>3, <1>4, <1>6, <2>1, <2>3
<1>7. ASSUME NEW p \in Program, Finish(p)  PROVE NamesInv'
  <2>1. UNCHANGED <<directory, doubled>>
    BY <1>7, FinishEnds DEF serverVars
  <2>2. ASSUME p \notin Cuts  PROVE Named(p)'
    <3>1. \A u \in AnyUUID : \A n \in AnyName :
            Knows(p, u, n)' => Knows(p, u, n) /\ uuid'[p] = uuid[p]
      BY <1>7, <2>2, FinishKnows DEF SessionInv
    <3> QED
      BY <1>4, <1>5, <2>1, <2>2, <3>1
  <2> QED
    BY <1>3, <1>7, <2>2
<1>8. ASSUME NEW p \in Program, Restart(p)  PROVE NamesInv'
  <2>1. call'[p] = NoCall /\ store'[p] = EmptyStore
    BY <1>8, RestartEmpties
  <2>2. \A u, n : ~Knows(p, u, n)'
    BY <2>1 DEF Knows, Known, EmptyStore, Answered, NoCall
  <2> QED
    BY <1>3, <1>5, <1>8, <2>2
<1> QED
  BY <1>1, <1>2, <1>6, <1>7, <1>8, NamesServe DEF Next

-----------------------------------------------------------------------------
\* A key is filed under the client it is shared with

Between(key, u, v) == made[key] \in {[by |-> u, for |-> v], [by |-> v, for |-> u]}

KeysFiled(p) ==
  \A u \in DOMAIN store[p].contactsList :
    LET c == store[p].contactsList[u] IN
      c.symmetricKey # NoKey /\ c.username \notin doubled => Between(c.symmetricKey, uuid[p], u)

\* What is asked of a program whose connections never break in a response.
OwnKeys(p) == (registered[p] => uuid[p] \in UUID) /\ KeysFiled(p)

\* A message that carries a key says who made it, and for whom.
KeyMessage(m) ==
  m.type = "SEND_SYM_KEY" /\ m.src \in UUID =>
    m.key \in Key /\ made[m.key] = [by |-> m.src, for |-> m.dest]

\* The server takes messages from whom it knows only.
KeyMail(m) == KeyMessage(m) /\ m.src \in UUID

KeysCarried(x) ==
  /\ Calling(x, "SEND") => call[x].args.src = call[x].src /\ KeyMessage(call[x].args)
  /\ Answered(x, "PULL") =>
       \A i \in DOMAIN call[x].response :
         KeyMail(call[x].response[i]) /\ call[x].response[i].dest = call[x].src

MailOfKeys == \A i \in DOMAIN mailbox : KeyMail(mailbox[i])

\* The keys in the stores, in what is sent, in what waits and in what is received
\* were made by one of the two clients for the other.
KeyInv ==
  /\ MailOfKeys
  /\ \A x \in Exchange : KeysCarried(x)
  /\ \A p \in Program \ Cuts : OwnKeys(p)

LEMMA KeyMessageStays ==
  ASSUME MadeKeysStay, NEW m, KeyMessage(m)
  PROVE  KeyMessage(m)'
BY PicksAssumption DEF MadeKeysStay, KeyMessage, Nobody

LEMMA KeyMailStays ==
  ASSUME MadeKeysStay
  PROVE  \A m : KeyMail(m) => KeyMail(m)'
BY KeyMessageStays DEF KeyMail

LEMMA KeysCarriedStay ==
  ASSUME MadeKeysStay, NEW x, KeysCarried(x), NEW y, call'[y] = call[x]
  PROVE  KeysCarried(y)'
<1>1. \A m : (KeyMessage(m) => KeyMessage(m)') /\ (KeyMail(m) => KeyMail(m)')
  BY KeyMessageStays, KeyMailStays
<1>2. PICK c : c = call[x]
  OBVIOUS
<1>3. ASSUME c # NoCall, c.op = "SEND"
      PROVE  c.args.src = c.src /\ KeyMessage(c.args)'
  <2>1. c.args.src = c.src /\ KeyMessage(c.args)
    BY <1>2, <1>3 DEF KeysCarried, Calling
  <2> QED
    BY <1>1, <2>1 DEF KeyMessage
<1>4. ASSUME c.stage = "answered", c.op = "PULL", NEW i \in DOMAIN c.response
      PROVE  KeyMail(c.response[i])' /\ c.response[i].dest = c.src
  <2>1. KeyMail(c.response[i]) /\ c.response[i].dest = c.src
    BY <1>2, <1>4 DEF KeysCarried, Answered
  <2> QED
    BY <1>1, <2>1 DEF KeyMail, KeyMessage
<1> QED
  BY <1>2, <1>3, <1>4 DEF KeysCarried, Calling, Answered, KeyMail, KeyMessage

LEMMA NoKeysCarried ==
  ASSUME NEW x, call'[x] = NoCall
  PROVE  KeysCarried(x)'
BY DEF KeysCarried, Calling, Answered, NoCall

LEMMA KeysFiledStay ==
  ASSUME TypeOK, MadeKeysStay, doubled \subseteq doubled', NEW q \in Program, Session(q),
         OwnKeys(q), UNCHANGED <<uuid[q], store[q]>>
  PROVE  KeysFiled(q)'
<1>1. CASE ~registered[q]
  BY <1>1 DEF Session, KeysFiled, EmptyStore
<1>2. CASE registered[q]
  <2>1. SUFFICES ASSUME NEW u \in DOMAIN store[q].contactsList, NEW c,
                        c = store[q].contactsList[u], c.symmetricKey # NoKey,
                        c.username \notin doubled'
                 PROVE  Between(c.symmetricKey, uuid[q], u)'
    BY DEF KeysFiled, Between
  <2>2. Between(c.symmetricKey, uuid[q], u) /\ uuid[q] \in UUID
    BY <1>2, <2>1 DEF OwnKeys, KeysFiled
  <2>3. c.symmetricKey \in Key
    BY <2>1 DEF TypeOK, IsStore, Contact
  <2>4. made[c.symmetricKey] # Nobody
    BY <2>2, PicksAssumption DEF Between, Nobody
  <2> QED
    BY <2>2, <2>3, <2>4 DEF MadeKeysStay, Between
<1> QED
  BY <1>1, <1>2

LEMMA KeysServe ==
  ASSUME TypeOK, LookupsFind, SessionInv, KeyInv, NEW x \in Exchange, Serve(x)
  PROVE  KeyInv'
<1>1. /\ UNCHANGED <<registered, uuid, store, made>> /\ ServeEffect(x) /\ call[x] # NoCall
      /\ \A y \in Exchange \ {x} : call'[y] = call[y]
      /\ mailbox \in Seq(Message) /\ UUIDsInUse \subseteq UUID /\ doubled \subseteq doubled'
  BY ServeAnswers, ServeDoes, ServerRemembers DEF TypeOK, DirectoryGrows
<1>2. MadeKeysStay /\ KeysCarried(x)
  BY <1>1 DEF MadeKeysStay, KeyInv
<1>3. \A m : (KeyMessage(m)' <=> KeyMessage(m)) /\ (KeyMail(m)' <=> KeyMail(m))
  BY <1>1 DEF KeyMessage, KeyMail
<1>4. Calling(x, "SEND")' => call'[x].args.src = call'[x].src /\ KeyMessage(call'[x].args)
  <2>1. \/ call'[x] = NoCall
        \/ /\ call'[x].op = call[x].op /\ call'[x].src = call[x].src
           /\ call'[x].args = call[x].args
    BY <1>1, ServeKeepsCall
  <2> QED
    BY <1>1, <1>2, <2>1 DEF KeysCarried, Calling
<1>5. ASSUME Answered(x, "PULL")', NEW i \in DOMAIN call'[x].response
      PROVE  KeyMail(call'[x].response[i]) /\ call'[x].response[i].dest = call'[x].src
  <2>1. call'[x] # NoCall
    BY <1>5 DEF Answered, NoCall
  <2>2. MessagesHanded(x) /\ call'[x].src = call[x].src
    BY <1>1, <1>5, <2>1 DEF ServeEffect, Refused, NameChecked, ClientAdded, ToldSomething,
       MessageStored, MessagesHanded, Replies, Goes, Answered
  <2> QED
    BY <1>5, <2>1, <2>2 DEF MessagesHanded, KeyInv, MailOfKeys
<1>6. KeysCarried(x)'
  BY <1>1, <1>3, <1>4, <1>5 DEF KeysCarried, KeyMail, KeyMessage
<1>7. \A y \in Exchange : KeysCarried(y)'
  BY <1>1, <1>2, <1>6, KeysCarriedStay DEF KeyInv
<1>8. \A i \in DOMAIN mailbox' : KeyMail(mailbox'[i])
  <2>1. CASE mailbox' = mailbox
    BY <2>1 DEF KeyInv, MailOfKeys
  <2>2. CASE MessageStored(x)
    <3>1. /\ call[x].args \in Message /\ KeyMessage(call[x].args)
          /\ call[x].args.src \in UUID /\ mailbox' = Append(mailbox, call[x].args)
      BY <1>1, <1>2, <2>2 DEF MessageStored, KeysCarried, Calling, Served
    <3>2. \A i \in DOMAIN mailbox' :
            mailbox'[i] = call[x].args \/ (i \in DOMAIN mailbox /\ mailbox'[i] = mailbox[i])
      BY <1>1, <3>1
    <3> QED
      BY <3>1, <3>2 DEF KeyInv, MailOfKeys, KeyMail
  <2>3. CASE MessagesHanded(x)
    BY <2>3 DEF MessagesHanded, KeyInv, MailOfKeys
  <2> QED
    BY <1>1, <2>1, <2>2, <2>3 DEF ServeEffect, Refused, NameChecked, ClientAdded,
       ToldSomething
<1>9. MailOfKeys'
  BY <1>1, <1>8 DEF MailOfKeys, KeyMail, KeyMessage
<1>10. ASSUME NEW q \in Program \ Cuts  PROVE OwnKeys(q)'
  <2>1. OwnKeys(q) /\ Session(q)
    BY DEF KeyInv, SessionInv
  <2> QED
    BY <1>1, <1>2, <2>1, KeysFiledStay DEF OwnKeys
<1> QED
  BY <1>7, <1>9, <1>10 DEF KeyInv

\* A name that was inserted once leads from a sender back to the sender, and the
\* contact a key is filed under has the sender's name.
LEMMA FiledUnderSender ==
  ASSUME TypeOK, LookupsFind, NEW p \in Program, NamesAgree(p), NEW m,
         m.src \in DOMAIN store[p].contactsList,
         FiledUnder(store[p], m) \in DOMAIN store[p].contactsList,
         store[p].contactsList[FiledUnder(store[p], m)].username \notin doubled
  PROVE  FiledUnder(store[p], m) = m.src
<1> DEFINE s == store[p]
           name == s.contactsList[m.src].username
           to == FiledUnder(s, m)
           other == s.contactsList[to].username
<1>1. IsStore(s) /\ Finds(s)
  BY TypeParts DEF StoresOK
<1>2. name \in Known(p) /\ Dest(p, name) = to
  BY <1>1 DEF Finds, Known, Dest, FiledUnder, getContact
<1>3. m.src \in AnyUUID /\ to \in AnyUUID /\ name \in AnyName /\ other \in AnyName
  <2>1. s.contactsList[m.src] \in Contact /\ s.contactsList[to] \in Contact
    BY <1>1 DEF IsStore
  <2>2. name \in AnyName /\ other \in AnyName
    BY <2>1 DEF Contact
  <2> HIDE DEF name, other
  <2> QED
    BY <1>1, <2>2 DEF IsStore
<1>4. Knows(p, m.src, name) /\ Knows(p, to, name) /\ Knows(p, to, other)
  BY <1>2 DEF Knows, getContact
<1>5. other \notin doubled
  OBVIOUS
<1> HIDE DEF name, to, other
<1>6. Alike(to, name, to, other) /\ Alike(m.src, name, to, name)
  BY <1>3, <1>4 DEF NamesAgree
<1>7. name = other
  BY <1>6 DEF Alike
<1>8. m.src = to
  BY <1>5, <1>6, <1>7 DEF Alike
<1> QED
  BY <1>8 DEF to

LEMMA KeysFinish ==
  ASSUME TypeOK, LookupsFind, NEW p \in Program \ Cuts, Finish(p), Session(p), OwnKeys(p),
         KeysCarried(p), NamesAgree(p)
  PROVE  OwnKeys(p)'
<1> DEFINE s == store[p].contactsList
           t == store'[p].contactsList
<1>1. made' = made /\ doubled' = doubled /\ GoodCall(call[p])
  BY FinishEnds, TypeParts DEF CallsOK, serverVars, Exchange
<1>2. CASE /\ call[p].op = "REGISTER" /\ store'[p] = store[p]
           /\ Answered(p, "REGISTER") /\ uuid'[p] \in Payloads(p, call[p].response)
  <2>1. uuid'[p] \in UUID
    <3>1. call[p].response \in UUID
      BY <1>1, <1>2, CallFields DEF Answered, IsAnswer
    <3> QED
      BY <1>2, <3>1 DEF Payloads
  <2>2. store'[p] = EmptyStore
    BY <1>2, FinishRegisters DEF Session
  <2>3. KeysFiled(p)'
    BY <2>2 DEF KeysFiled, EmptyStore
  <2> QED
    BY <2>1, <2>3 DEF OwnKeys
<1>3. CASE registered'[p] = registered[p] /\ uuid'[p] = uuid[p]
  <2>1. ASSUME NEW u \in DOMAIN s, s[u].symmetricKey # NoKey, s[u].username \notin doubled
        PROVE  Between(s[u].symmetricKey, uuid[p], u)
    BY <2>1 DEF OwnKeys, KeysFiled
  <2>2. SUFFICES ASSUME NEW u \in DOMAIN t, t[u].symmetricKey # NoKey,
                        t[u].username \notin doubled
                 PROVE  Between(t[u].symmetricKey, uuid[p], u)
    BY <1>1, <1>3 DEF OwnKeys, KeysFiled, Between
  <2>3. ASSUME u \in DOMAIN s, t[u].symmetricKey = s[u].symmetricKey,
               t[u].username = s[u].username
        PROVE  Between(t[u].symmetricKey, uuid[p], u)
    BY <2>1, <2>2, <2>3
  <2>4. CASE ContactsStay(p) \/ PublicKeyKept(p)
    BY <2>2, <2>3, <2>4 DEF ContactsStay, PublicKeyKept, SymmetricKeysStay, SameNames
  <2>5. CASE ListKept(p)
    BY <2>2, <2>3, <2>5 DEF ListKept, Filled, ContactFrom
  <2>6. CASE SentKeyKept(p)
    <3>1. u \in DOMAIN s /\ t[u].username = s[u].username
      BY <2>2, <2>6 DEF SentKeyKept, SymmetricKeySet, SameNames
    <3>2. CASE u # call[p].args.dest
      BY <2>3, <2>6, <3>1, <3>2 DEF SentKeyKept, SymmetricKeySet
    <3>3. CASE u = call[p].args.dest
      <4>1. t[u].symmetricKey = call[p].args.key
        BY <2>6, <3>1, <3>3 DEF SentKeyKept, SymmetricKeySet
      <4>2. Calling(p, "SEND") /\ call[p].args.type = "SEND_SYM_KEY"
        BY <2>6 DEF SentKeyKept, Answered, Calling, NoCall
      <4>3. call[p].args.src = uuid[p] /\ uuid[p] \in UUID
        BY <4>2 DEF KeysCarried, Session, Calling, OwnKeys
      <4>4. made[call[p].args.key] = [by |-> uuid[p], for |-> u]
        BY <3>3, <4>2, <4>3 DEF KeysCarried, KeyMessage
      <4> QED
        BY <4>1, <4>4 DEF Between
    <3> QED
      BY <3>2, <3>3
  <2>7. CASE ReceivedKeysKept(p)
    <3>1. PICK batch \in Seq(Message) :
            /\ \A i \in DOMAIN batch :
                 \E j \in DOMAIN call[p].response : batch[i] = call[p].response[j]
            /\ store'[p] \in Keyed(p, store[p], batch)
      BY <2>7 DEF ReceivedKeysKept
    <3>2. /\ u \in DOMAIN s /\ t[u].username = s[u].username
          /\ KeyFrom(p, store[p], batch, store'[p], u)
      BY <2>2, <3>1 DEF Keyed
    <3>3. ASSUME NEW i \in DOMAIN batch, batch[i].type = "SEND_SYM_KEY",
                 batch[i].src \in DOMAIN s, FiledUnder(store[p], batch[i]) = u,
                 batch[i].key = t[u].symmetricKey
          PROVE  Between(t[u].symmetricKey, uuid[p], u)
      <4>1. KeyMail(batch[i]) /\ batch[i].dest = uuid[p]
        <5>1. PICK j \in DOMAIN call[p].response : batch[i] = call[p].response[j]
          BY <3>1
        <5>2. Answered(p, "PULL") /\ call[p].src = uuid[p]
          BY <2>7, FinishRegisters DEF ReceivedKeysKept, Session
        <5>3. KeyMail(call[p].response[j]) /\ call[p].response[j].dest = uuid[p]
          BY <5>2 DEF KeysCarried
        <5> QED
          BY <5>1, <5>3
      <4>2. batch[i].src = u
        BY <2>2, <3>2, <3>3, FiledUnderSender
      <4> QED
        BY <3>3, <4>1, <4>2 DEF KeyMail, KeyMessage, Between
    <3> QED
      BY <2>3, <3>2, <3>3 DEF KeyFrom
  <2> QED
    BY <2>4, <2>5, <2>6, <2>7, FinishEffect DEF ContactsEffect
<1> QED
  BY <1>2, <1>3, FinishRegisters

LEMMA KeysStep ==
  ASSUME TypeOK, LookupsFind, SessionInv, NamesInv, KeyInv, [Next]_vars
  PROVE  KeyInv'
<1>0. /\ \A q \in Program : Session(q) /\ KeysCarried(q)
      /\ \A q \in Program \ Cuts : OwnKeys(q) /\ NamesAgree(q)
  BY DEF SessionInv, KeyInv, NamesInv, Named, Exchange
<1>1. ASSUME MadeKeysStay, doubled' = doubled, UNCHANGED <<registered, uuid, store>>,
             NEW q \in Program \ Cuts
      PROVE  OwnKeys(q)'
  BY <1>0, <1>1, KeysFiledStay DEF OwnKeys
<1>2. ASSUME MadeKeysStay, mailbox' = mailbox  PROVE MailOfKeys'
  <2>1. \A m : KeyMail(m) => KeyMail(m)'
    BY <1>2, KeyMailStays
  <2> QED
    BY <1>2, <2>1 DEF KeyInv, MailOfKeys, KeyMail, KeyMessage
<1>3. CASE UNCHANGED vars
  <2>1. UNCHANGED <<registered, uuid, store, call, mailbox, made, doubled>> /\ MadeKeysStay
    BY <1>3 DEF vars, localVars, serverVars, history, MadeKeysStay
  <2>2. \A x \in Exchange : KeysCarried(x)'
    BY <2>1, KeysCarriedStay DEF KeyInv
  <2> QED
    BY <1>1, <1>2, <2>1, <2>2 DEF KeyInv
<1>4. CASE ServerRestart
  <2>1. /\ UNCHANGED <<registered, uuid, store, made, doubled>> /\ mailbox' = <<>>
        /\ \A x \in Exchange : call'[x] = call[x] \/ call'[x] = NoCall
    BY <1>4 DEF ServerRestart, localVars, history
  <2>2. MadeKeysStay
    BY <2>1 DEF MadeKeysStay
  <2>3. \A x \in Exchange : KeysCarried(x)'
    BY <2>1, <2>2, KeysCarriedStay, NoKeysCarried DEF KeyInv
  <2>4. MailOfKeys'
    BY <2>1 DEF MailOfKeys
  <2> QED
    BY <1>1, <2>1, <2>2, <2>3, <2>4 DEF KeyInv
<1>5. ASSUME NEW p \in Program, Command(p) \/ Finish(p) \/ Restart(p),
             MadeKeysStay, p \notin Cuts => OwnKeys(p)', KeysCarried(p)'
      PROVE  KeyInv'
  <2>1. OthersKeep(p) /\ UNCHANGED <<mailbox, doubled>>
    BY <1>5, OneProgram, ProgramsLeaveServer
  <2>2. ASSUME NEW q \in Program \ Cuts, q # p  PROVE OwnKeys(q)'
    <3>1. UNCHANGED <<registered[q], uuid[q], store[q]>>
      BY <2>1, <2>2 DEF OthersKeep
    <3> QED
      BY <1>0, <1>5, <2>1, <3>1, KeysFiledStay DEF OwnKeys
  <2>3. ASSUME NEW x \in Exchange, x # p  PROVE KeysCarried(x)'
    <3>1. call'[x] = call[x] \/ call'[x] = call[p]
      BY <2>1, <2>3 DEF OthersKeep, OtherCalls, TakenOver, Exchange
    <3> QED
      BY <1>0, <1>5, <3>1, KeysCarriedStay DEF KeyInv
  <2>4. MailOfKeys'
    BY <1>2, <1>5, <2>1
  <2> QED
    BY <1>5, <2>2, <2>3, <2>4 DEF KeyInv
<1>6. ASSUME NEW p \in Program, Command(p)  PROVE KeyInv'
  <2>1. UNCHANGED <<registered, uuid, store, doubled>> /\ CommandEffect(p) /\ MadeKeysStay
    BY <1>6, CommandAsks, CommandRequests DEF serverVars
  <2>2. p \notin Cuts => OwnKeys(p)'
    BY <1>1, <2>1
  <2>3. ~Answered(p, "PULL")'
    BY <2>1 DEF CommandEffect, Answered, NoCall
  <2>4. ASSUME Calling(p, "SEND")'
        PROVE  call'[p].args.src = call'[p].src /\ KeyMessage(call[p].args)'
    <3>1. AskedToSend(p) /\ call'[p].src = uuid[p] /\ call'[p].args.src = uuid[p]
      BY <2>1, <2>4 DEF CommandEffect, AskedToSend, Calling
    <3>2. made \in [Key -> [by : AnyUUID, for : AnyUUID]]
      BY DEF TypeOK
    <3>3. ASSUME call'[p].args.type = "SEND_SYM_KEY"
          PROVE  /\ call'[p].args.key \in Key
                 /\ made'[call'[p].args.key] = [by |-> uuid[p], for |-> call'[p].args.dest]
      BY <3>1, <3>2, <3>3 DEF AskedToSend
    <3> QED
      BY <3>1, <3>3 DEF KeyMessage
  <2>5. KeysCarried(p)'
    BY <2>3, <2>4 DEF KeysCarried
  <2> QED
    BY <1>5, <1>6, <2>1, <2>2, <2>5
<1>7. ASSUME NEW p \in Program, Finish(p)  PROVE KeyInv'
  <2>1. MadeKeysStay /\ KeysCarried(p)'
    BY <1>7, FinishEnds, NoKeysCarried DEF MadeKeysStay
  <2>2. p \notin Cuts => OwnKeys(p)'
    BY <1>0, <1>7, KeysFinish
  <2> QED
    BY <1>5, <1>7, <2>1, <2>2
<1>8. ASSUME NEW p \in Program, Restart(p)  PROVE KeyInv'
  <2>1. made' = made /\ call'[p] = NoCall /\ store'[p] = EmptyStore /\ registered'[p] = FALSE
    BY <1>8, RestartEmpties
  <2>2. MadeKeysStay /\ KeysCarried(p)'
    BY <2>1, NoKeysCarried DEF MadeKeysStay
  <2>3. OwnKeys(p)'
    BY <2>1 DEF OwnKeys, KeysFiled, EmptyStore
  <2> QED
    BY <1>5, <1>8, <2>2, <2>3
<1> QED
  BY <1>3, <1>4, <1>6, <1>7, <1>8, KeysServe DEF Next

\* A key a client keeps for a contact was made for it, or by it for this client, if
\* the server has inserted the contact's name once and the client's lists come whole:
\* whatever else is lost, whoever gives up and tries again, and whoever is started
\* again.
THEOREM KeyFiledUnderSenderCorrect == Spec => []KeyFiledUnderSender
<1>1. Init => SessionInv /\ NamesInv /\ KeyInv
  <2> SUFFICES ASSUME Init  PROVE SessionInv /\ NamesInv /\ KeyInv
    OBVIOUS
  <2>1. /\ directory = <<>> /\ mailbox = <<>> /\ \A x \in Exchange : call[x] = NoCall
        /\ \A p \in Program : /\ registered[p] = FALSE /\ uuid[p] = ZeroUUID
                              /\ store[p] = EmptyStore /\ call[p] = NoCall
    BY DEF Init, Exchange
  <2>2. SessionInv
    BY <2>1 DEF SessionInv, Session, Caller, Past, Answered, NoCall
  <2>3. \A p \in Program : \A u, n : ~Knows(p, u, n) /\ ~Enrolled(u, n)
    BY <2>1 DEF Knows, Known, EmptyStore, Answered, NoCall, Enrolled
  <2>4. \A u, n : ~Enrolled(u, n)
    BY <2>1 DEF Enrolled
  <2>5. NamesInv
    BY <2>3, <2>4 DEF NamesInv, DirectoryAgrees, Named, NamesAgree
  <2>6. KeyInv
    BY <2>1 DEF KeyInv, MailOfKeys, OwnKeys, KeysFiled, KeysCarried, EmptyStore, Calling,
       Answered, NoCall
  <2> QED
    BY <2>2, <2>5, <2>6
<1>2. TypeOK /\ LookupsFind /\ SessionInv /\ NamesInv /\ KeyInv /\ [Next]_vars
        => SessionInv' /\ NamesInv' /\ KeyInv'
  BY SessionStep, NamesStep, KeysStep
<1>3. KeyInv => KeyFiledUnderSender
  BY DEF KeyInv, OwnKeys, KeysFiled, Between, KeyFiledUnderSender, HasKeyFor, SymmetricKey,
     KeyIsBetween, contactHasSymmetricKey, getContact
<1> QED
  BY <1>1, <1>2, <1>3, TypesAndLookups, PTL DEF Spec
===============================================================================
