-------------------------------- MODULE Client --------------------------------
(***************************************************************************)
(* What a client program knows of the other clients (Client.cpp and        *)
(* Contact.cpp): a map from user names to UUIDs and a map from UUIDs to    *)
(* contacts with their keys.  The two are filled together and never        *)
(* emptied.                                                                *)
(***************************************************************************)
EXTENDS Integers, Sequences

CONSTANTS
  UUID,       \* UUIDs the server gives out
  ZeroUUID,   \* the UUID of a zeroed buffer
  PartUUID,   \* what is left of UUIDs whose last bytes never came
  Username,   \* user names
  EmptyName,  \* the name in a zeroed buffer
  Key,        \* symmetric keys
  NoKey,      \* the empty string of a key that was not set
  ZeroKey     \* a public key read from a buffer whose end never came

AnyUUID == UUID \cup {ZeroUUID} \cup PartUUID
AnyName == Username \cup {EmptyName}

\* The public key of a client is identified with the UUID it was registered
\* under.
Contact == [username : AnyName, publicKey : UUID \cup {NoKey, ZeroKey},
            symmetricKey : Key \cup {NoKey}]

ClientRecord == [uuid : AnyUUID, username : AnyName]

\* A record of a list response whose bytes never came.
ZeroRecord == [uuid |-> ZeroUUID, username |-> EmptyName]

EmptyStore == [clientsList |-> <<>>, contactsList |-> <<>>]

\* What the handlers use of a store: two maps, of names and of UUIDs.
IsStore(s) ==
  /\ s = [clientsList |-> s.clientsList, contactsList |-> s.contactsList]
  /\ s.clientsList \in [DOMAIN s.clientsList -> AnyUUID]
  /\ s.contactsList \in [DOMAIN s.contactsList -> Contact]
  /\ DOMAIN s.clientsList \subseteq AnyName /\ DOMAIN s.contactsList \subseteq AnyUUID

\* std::map: operator[] assigns, insert leaves an entry that is there.
Assigned(map, k, value) ==
  [x \in DOMAIN map \cup {k} |-> IF x = k THEN value ELSE map[x]]

Inserted(map, k, value) == IF k \in DOMAIN map THEN map ELSE Assigned(map, k, value)

\* A mutant: operator[] for the name, and no second look at the UUID.
addContactByName(store, record) ==
  LET contact == [username |-> record.username, publicKey |-> NoKey,
                  symmetricKey |-> NoKey]
  IN  [clientsList  |-> Assigned(store.clientsList, record.username, record.uuid),
       contactsList |-> IF record.username \in DOMAIN store.clientsList
                        THEN store.contactsList
                        ELSE Inserted(store.contactsList, record.uuid, contact)]

addContact(store, record) ==
  LET contact == [username |-> record.username, publicKey |-> NoKey,
                  symmetricKey |-> NoKey]
  IN  [clientsList  |-> Inserted(store.clientsList, record.username, record.uuid),
       contactsList |-> Inserted(store.contactsList, record.uuid, contact)]

addContacts(store, records) ==
  LET filled[n \in 0 .. Len(records)] ==
        IF n = 0 THEN store ELSE addContact(filled[n - 1], records[n])
  IN  filled[Len(records)]

isClientExistInList(store, username) == username \in DOMAIN store.clientsList

isContactExistInList(store, uuid) == uuid \in DOMAIN store.contactsList

getClientUUIDfromClientsList(store, username) == store.clientsList[username]

getContact(store, uuid) == store.contactsList[uuid]

setPublicKey(store, uuid, key) ==
  [store EXCEPT !.contactsList[uuid].publicKey = key]

setSymmetricKey(store, uuid, key) ==
  [store EXCEPT !.contactsList[uuid].symmetricKey = key]

contactHasPublicKey(store, uuid) == getContact(store, uuid).publicKey # NoKey

contactHasSymmetricKey(store, uuid) == getContact(store, uuid).symmetricKey # NoKey
===============================================================================
