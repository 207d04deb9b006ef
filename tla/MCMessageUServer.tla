--------------------------- MODULE MCMessageUServer ---------------------------
(***************************************************************************)
(* Instances of the server for TLC.  The clients that send and pull are    *)
(* registered before the behaviour begins; in the run over all handlers a  *)
(* second one registers itself.                                            *)
(***************************************************************************)
EXTENDS MessageUServer, TLC

CONSTANTS u1, u2, n1, n2

One == <<[uuid |-> u1, username |-> n1]>>
Two == <<[uuid |-> u1, username |-> n1], [uuid |-> u2, username |-> n2]>>

\* Two clients send to each other, the second pulls; a client without a UUID does
\* both.
Post ==
  {r \in Request :
     \/ r.op = "SEND_MESSAGE_REQ" /\ <<r.src, r.dest>> \in {<<u1, u2>>, <<u2, u1>>}
     \/ r.op = "SEND_MESSAGE_REQ" /\ r.src = ZeroUUID /\ r.dest = u2
     \/ r.op = "PULL_WAITING_MESSAGES_REQ" /\ r.src \in {u2, ZeroUUID}}

\* The first client sends to the second, which pulls.
Mail ==
  {r \in Request :
     \/ r.op = "SEND_MESSAGE_REQ" /\ r.src = u1 /\ r.dest = u2
     \/ r.op = "PULL_WAITING_MESSAGES_REQ" /\ r.src = u2}

\* Every kind of request of a registered client, which writes to itself and
\* looks up its own key or that of nobody, next to registrations and requests of
\* a client that has no UUID.
Everything ==
  {r \in Request :
     \/ r.op = "REGISTER_REQ" /\ r.username = n2
     \/ r.op = "CLIENTS_LIST_REQ" /\ r.src \in {u1, ZeroUUID}
     \/ r.op = "GET_PUBLIC_KEY_REQ" /\ r.src = u1 /\ r.dest \in {u1, ZeroUUID}
     \/ r.op = "SEND_MESSAGE_REQ" /\ r.src = u1 /\ r.dest = u1
     \/ r.op = "PULL_WAITING_MESSAGES_REQ" /\ r.src = u1}

\* Connections are interchangeable, and so are contents: neither is compared
\* with anything but itself.
ConnOnly == Permutations(Conn)
ConnBody == ConnOnly \cup Permutations(Body)
=============================================================================
