----------------------------- MODULE ClientProofs -----------------------------
(***************************************************************************)
(* The contact store: what the loop over the records of a list leaves in   *)
(* it, for any list.                                                       *)
(***************************************************************************)
EXTENDS Client, Recursion, SequenceTheorems

\* The stores, as a set.
Stores ==
  [clientsList  : UNION {[N -> AnyUUID] : N \in SUBSET AnyName},
   contactsList : UNION {[U -> Contact] : U \in SUBSET AnyUUID}]

LEMMA StoresAreStores == ASSUME NEW s PROVE IsStore(s) <=> s \in Stores
<1>1. ASSUME IsStore(s)  PROVE s \in Stores
  <2>1. s.clientsList \in UNION {[N -> AnyUUID] : N \in SUBSET AnyName}
    BY <1>1 DEF IsStore
  <2>2. s.contactsList \in UNION {[U -> Contact] : U \in SUBSET AnyUUID}
    BY <1>1 DEF IsStore
  <2> QED
    BY <1>1, <2>1, <2>2 DEF IsStore, Stores
<1>2. ASSUME s \in Stores  PROVE IsStore(s)
  <2>1. PICK N \in SUBSET AnyName : s.clientsList \in [N -> AnyUUID]
    BY <1>2 DEF Stores
  <2>2. PICK U \in SUBSET AnyUUID : s.contactsList \in [U -> Contact]
    BY <1>2 DEF Stores
  <2>3. s = [clientsList |-> s.clientsList, contactsList |-> s.contactsList]
    BY <1>2 DEF Stores
  <2> QED
    BY <2>1, <2>2, <2>3 DEF IsStore
<1> QED
  BY <1>1, <1>2

\* The lookups the handlers make without a test.
Finds(s) ==
  /\ \A name \in DOMAIN s.clientsList : s.clientsList[name] \in DOMAIN s.contactsList
  /\ \A u \in DOMAIN s.contactsList : s.contactsList[u].username \in DOMAIN s.clientsList

NameFrom(s, records, t, name) ==
  \/ name \in DOMAIN s.clientsList /\ t.clientsList[name] = s.clientsList[name]
  \/ \E i \in DOMAIN records :
       records[i] = [uuid |-> t.clientsList[name], username |-> name]

ContactFrom(s, records, t, u) ==
  \/ u \in DOMAIN s.contactsList /\ t.contactsList[u] = s.contactsList[u]
  \/ /\ t.contactsList[u].symmetricKey = NoKey
     /\ \E i \in DOMAIN records :
          records[i] = [uuid |-> u, username |-> t.contactsList[u].username]

\* The stores that come from s by records: nothing is found in vain, what was not
\* there is one of the records, and has no key yet.
Filled(s, records) ==
  {t \in Stores :
     /\ Finds(t)
     /\ \A name \in DOMAIN t.clientsList : NameFrom(s, records, t, name)
     /\ \A u \in DOMAIN t.contactsList : ContactFrom(s, records, t, u)}

LEMMA addContactFills ==
  ASSUME NEW s, NEW records \in Seq(ClientRecord), NEW t \in Filled(s, records),
         NEW i \in DOMAIN records
  PROVE  addContact(t, records[i]) \in Filled(s, records)
<1> DEFINE r == records[i]
           contact == [username |-> r.username, publicKey |-> NoKey, symmetricKey |-> NoKey]
           names == Inserted(t.clientsList, r.username, r.uuid)
           contacts == Inserted(t.contactsList, r.uuid, contact)
           new == [clientsList |-> names, contactsList |-> contacts]
<1>1. /\ r.uuid \in AnyUUID /\ r.username \in AnyName
      /\ r = [uuid |-> r.uuid, username |-> r.username]
  <2>1. r \in ClientRecord
    OBVIOUS
  <2> HIDE DEF r
  <2> QED
    BY <2>1 DEF ClientRecord
<1>2. contact \in Contact /\ contact.username = r.username /\ contact.symmetricKey = NoKey
  BY <1>1 DEF Contact
<1>3. IsStore(t) /\ Finds(t)
  BY StoresAreStores DEF Filled
<1> HIDE DEF contact, r
<1>4. /\ names \in [DOMAIN names -> AnyUUID] /\ DOMAIN names \subseteq AnyName
      /\ DOMAIN names = DOMAIN t.clientsList \cup {r.username}
      /\ \A x \in DOMAIN t.clientsList : names[x] = t.clientsList[x]
      /\ r.username \notin DOMAIN t.clientsList => names[r.username] = r.uuid
  <2>1. /\ t.clientsList \in [DOMAIN t.clientsList -> AnyUUID]
        /\ DOMAIN t.clientsList \subseteq AnyName
    BY <1>3 DEF IsStore
  <2> QED
    BY <1>1, <2>1 DEF Inserted, Assigned
<1>5. /\ contacts \in [DOMAIN contacts -> Contact] /\ DOMAIN contacts \subseteq AnyUUID
      /\ DOMAIN contacts = DOMAIN t.contactsList \cup {r.uuid}
      /\ \A x \in DOMAIN t.contactsList : contacts[x] = t.contactsList[x]
      /\ r.uuid \notin DOMAIN t.contactsList => contacts[r.uuid] = contact
  <2>1. /\ t.contactsList \in [DOMAIN t.contactsList -> Contact]
        /\ DOMAIN t.contactsList \subseteq AnyUUID
    BY <1>3 DEF IsStore
  <2> QED
    BY <1>1, <1>2, <2>1 DEF Inserted, Assigned
<1> HIDE DEF names, contacts
<1>6. new.clientsList = names /\ new.contactsList = contacts
  OBVIOUS
<1>7. new \in Stores
  BY <1>4, <1>5, StoresAreStores DEF IsStore
<1>8. Finds(new)
  BY <1>2, <1>3, <1>4, <1>5, <1>6 DEF Finds
<1>9. ASSUME NEW name \in DOMAIN names  PROVE NameFrom(s, records, new, name)
  <2>1. CASE name \in DOMAIN t.clientsList
    <3>1. NameFrom(s, records, t, name)
      BY <2>1 DEF Filled
    <3> QED
      BY <1>4, <1>6, <2>1, <3>1 DEF NameFrom
  <2>2. CASE name \notin DOMAIN t.clientsList
    <3>1. name = r.username /\ names[name] = r.uuid
      BY <1>4, <1>9, <2>2
    <3>2. records[i] = [uuid |-> names[name], username |-> name]
      BY <1>1, <3>1 DEF r
    <3> QED
      BY <1>6, <3>2 DEF NameFrom
  <2> QED
    BY <2>1, <2>2
<1>10. ASSUME NEW u \in DOMAIN contacts  PROVE ContactFrom(s, records, new, u)
  <2>1. CASE u \in DOMAIN t.contactsList
    <3>1. ContactFrom(s, records, t, u)
      BY <2>1 DEF Filled
    <3> QED
      BY <1>5, <1>6, <2>1, <3>1 DEF ContactFrom
  <2>2. CASE u \notin DOMAIN t.contactsList
    <3>1. u = r.uuid /\ contacts[u] = contact
      BY <1>5, <1>10, <2>2
    <3>2. records[i] = [uuid |-> u, username |-> contacts[u].username]
      BY <1>1, <1>2, <3>1 DEF r
    <3> QED
      BY <1>2, <1>6, <3>1, <3>2 DEF ContactFrom
  <2> QED
    BY <2>1, <2>2
<1>11. addContact(t, records[i]) = new
  BY DEF addContact, names, contacts, contact, r
<1> HIDE DEF new
<1> QED
  BY <1>6, <1>7, <1>8, <1>9, <1>10, <1>11 DEF Filled

\* The loop over the records of a list.
LEMMA addContactsFills ==
  ASSUME NEW s, IsStore(s), Finds(s), NEW records \in Seq(ClientRecord)
  PROVE  addContacts(s, records) \in Filled(s, records)
<1> DEFINE N == Len(records)
           S == Filled(s, records)
           Turns(f) == [n \in 0 .. N |-> IF n = 0 THEN s ELSE addContact(f[n - 1], records[n])]
           step == [n \in 1 .. N |-> [t \in S |-> addContact(t, records[n])]]
           filled == CHOOSE f : f = Turns(f)
<1>1. N \in Nat /\ DOMAIN records = 1 .. N
  OBVIOUS
<1>2. s \in S
  BY StoresAreStores DEF Filled, NameFrom, ContactFrom
<1>3. \A n \in 1 .. N : \A t \in S : addContact(t, records[n]) \in S
  BY <1>1, addContactFills
<1> HIDE DEF N, S
<1>4. step \in [1 .. N -> [S -> S]]
  BY <1>3
<1>5. \E f : f = Turns(f)
  <2>1. PICK f \in [0 .. N -> S] :
          f[0] = s /\ \A n \in 1 .. N : f[n] = step[n][f[n - 1]]
    <3> HIDE DEF step
    <3>1. Loops(S, N, s, step) # {}
      BY <1>1, <1>2, <1>4, LoopExists
    <3> QED
      BY <3>1 DEF Loops
  <2>2. \A n \in 1 .. N : step[n][f[n - 1]] = addContact(f[n - 1], records[n])
    BY <1>1
  <2> HIDE DEF step
  <2>3. f = Turns(f)
    BY <2>1, <2>2
  <2> QED
    BY <2>3
<1>6. filled = Turns(filled)
  BY <1>5
<1>7. addContacts(s, records) = filled[N]
  BY DEF addContacts, N
<1> HIDE DEF filled
<1>8. filled[0] = s /\ \A n \in 1 .. N : filled[n] = addContact(filled[n - 1], records[n])
  BY <1>1, <1>6
<1>9. 0 .. N \subseteq {n \in 0 .. N : filled[n] \in S}
  <2> DEFINE T == {n \in 0 .. N : filled[n] \in S}
  <2>1. 0 \in T
    BY <1>1, <1>2, <1>8
  <2>2. \A n \in 1 .. N : n - 1 \in T => n \in T
    BY <1>1, <1>3, <1>8
  <2> HIDE DEF T
  <2>3. 0 .. N \subseteq T
    BY <1>1, <2>1, <2>2, TurnInduction
  <2> QED
    BY <2>3 DEF T
<1> QED
  BY <1>1, <1>7, <1>9 DEF S
===============================================================================
