-------------------------- MODULE RegistryHandlers --------------------------
(***************************************************************************)
(* The handlers that work on clientsList: registration, the clients list   *)
(* and the public key of a client (ClientHandler.py).                      *)
(***************************************************************************)
EXTENDS ClientsHandler

VARIABLE
  listing   \* the list handler's locals: the size its dict iterator recorded
            \* and the records it has packed so far

NoListing == [size |-> 0, records |-> <<>>]

registryVars == <<clientsList, listing>>

RegistryInit == listing = [c \in Conn |-> NoListing]

-----------------------------------------------------------------------------
(***************************************************************************)
(* registerRequestHandler.  The test and the insertion each hold the lock, *)
(* the handler as a whole does not.                                        *)
(***************************************************************************)
\* Bound: a registration is only offered while a fresh UUID is left for it.
CanRegister ==
  Cardinality({c \in Conn : req[c] # NoRequest /\ req[c].op = "REGISTER_REQ"
                              /\ pc[c] # "done"})
    < Cardinality(UUID \ UUIDsOf(clientsList))

RegisterWhole(c) ==
  /\ Routed(c, "REGISTER_REQ")
  /\ ~isUsernameExistsAlready(req[c].username)
  /\ SendHeader(c, "REGISTER_SUCCESS_RESP", 1)
  /\ Goto(c, "addNewClient")
  /\ UNCHANGED <<req, peer, open, payload, lastAccepted, registryVars>>

\* The name is taken, or recv returned a part of the payload.
RegisterRefused(c) ==
  /\ Routed(c, "REGISTER_REQ")
  /\ returnGeneralError(c)
  /\ UNCHANGED registryVars

\* recv raised: the handler goes on to a buffer it never assigned.
RegisterReset(c) ==
  /\ Routed(c, "REGISTER_REQ")
  /\ ~Connected(c)
  /\ Raise(c)
  /\ UNCHANGED registryVars

\* uuid4() never repeats a UUID in use.
addNewClient(c) ==
  /\ pc[c] = "addNewClient"
  /\ \E uuid \in UUID \ UUIDsOf(clientsList) :
       /\ clientsList' = Append(clientsList, [uuid |-> uuid, username |-> req[c].username])
       /\ SendPayload(c, <<uuid>>)
  /\ CloseAndEnd(c)
  /\ UNCHANGED <<req, peer, header, lastAccepted, listing>>

-----------------------------------------------------------------------------
(***************************************************************************)
(* clientsListRequestHandler.  The length goes out in the header before    *)
(* the dict is iterated, and neither holds the lock.                       *)
(***************************************************************************)
ListRefused(c) ==
  /\ Routed(c, "CLIENTS_LIST_REQ")
  /\ ~IsRegistered(req[c].src)
  /\ returnGeneralError(c)
  /\ UNCHANGED registryVars

ListAnnounce(c) ==
  /\ Routed(c, "CLIENTS_LIST_REQ")
  /\ IsRegistered(req[c].src)
  /\ SendHeader(c, "CLIENTS_LIST_RESP", Len(clientsList))
  /\ Goto(c, "listStart")
  /\ UNCHANGED <<req, peer, open, payload, lastAccepted, registryVars>>

ListStart(c) ==
  /\ pc[c] = "listStart"
  /\ listing' = [listing EXCEPT ![c] = [size |-> Len(clientsList), records |-> <<>>]]
  /\ Advance(c, "listNext")
  /\ UNCHANGED clientsList

\* One turn of the for loop: the iterator compares sizes before anything else.
ListNext(c) ==
  /\ pc[c] = "listNext"
  /\ Len(clientsList) = listing[c].size
  /\ Len(listing[c].records) < Len(clientsList)
  /\ listing' = [listing EXCEPT ![c].records =
                   Append(@, clientsList[Len(@) + 1])]
  /\ UNCHANGED <<connVars, clientsList>>

\* RuntimeError: dictionary changed size during iteration.
ListChanged(c) ==
  /\ pc[c] = "listNext"
  /\ Len(clientsList) # listing[c].size
  /\ Raise(c)
  /\ listing' = [listing EXCEPT ![c] = NoListing]
  /\ UNCHANGED clientsList

\* A mutant: the loop stops one client early.
ListSendOneShort(c) ==
  /\ pc[c] = "listNext"
  /\ Len(clientsList) = listing[c].size
  /\ Len(listing[c].records) + 1 >= Len(clientsList)
  /\ SendPayload(c, listing[c].records)
  /\ Goto(c, "sendall")
  /\ listing' = [listing EXCEPT ![c] = NoListing]
  /\ UNCHANGED <<req, peer, open, header, lastAccepted, clientsList>>

ListSend(c) ==
  /\ pc[c] = "listNext"
  /\ Len(clientsList) = listing[c].size
  /\ Len(listing[c].records) = Len(clientsList)
  /\ SendPayload(c, listing[c].records)
  /\ Goto(c, "sendall")
  /\ listing' = [listing EXCEPT ![c] = NoListing]
  /\ UNCHANGED <<req, peer, open, header, lastAccepted, clientsList>>

-----------------------------------------------------------------------------
(***************************************************************************)
(* getPublicKeyRequest: the requester is checked before the buffer, and    *)
(* the target not at all.                                                  *)
(***************************************************************************)
\* The requester is unknown, or recv returned a part of the payload.
KeyRefused(c) ==
  /\ Routed(c, "GET_PUBLIC_KEY_REQ")
  /\ returnGeneralError(c)
  /\ UNCHANGED registryVars

KeyReset(c) ==
  /\ Routed(c, "GET_PUBLIC_KEY_REQ")
  /\ ~Connected(c)
  /\ IsRegistered(req[c].src)
  /\ Raise(c)
  /\ UNCHANGED registryVars

\* clientsList.get returns None for an unknown target: AttributeError.
KeyOfNobody(c) ==
  /\ Routed(c, "GET_PUBLIC_KEY_REQ")
  /\ IsRegistered(req[c].src)
  /\ ~IsRegistered(req[c].dest)
  /\ Raise(c)
  /\ UNCHANGED registryVars

KeyAnswer(c) ==
  /\ Routed(c, "GET_PUBLIC_KEY_REQ")
  /\ IsRegistered(req[c].src)
  /\ IsRegistered(req[c].dest)
  /\ Reply(c, "GET_PUBLIC_KEY_RESP", <<req[c].dest>>)
  /\ UNCHANGED registryVars

-----------------------------------------------------------------------------

RegistryStep(c) ==
  \/ RegisterWhole(c) \/ RegisterRefused(c) \/ RegisterReset(c) \/ addNewClient(c)
  \/ ListRefused(c) \/ ListAnnounce(c) \/ ListStart(c)
  \/ ListNext(c) \/ ListChanged(c) \/ ListSend(c)
  \/ KeyRefused(c) \/ KeyReset(c) \/ KeyOfNobody(c) \/ KeyAnswer(c)
=============================================================================
