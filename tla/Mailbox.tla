------------------------------- MODULE Mailbox -------------------------------
(***************************************************************************)
(* What the server promises about a message, without threads, IDs or       *)
(* dicts: it waits until a pull of its recipient takes it, and what was    *)
(* taken is handed to the recipient once or is lost for good.              *)
(***************************************************************************)
CONSTANT Envelope   \* a recipient and a content

VARIABLES
  stored,    \* every envelope ever stored
  waiting,   \* those a pull can still take
  taken,     \* those a pull has taken and not handed over yet
  handed     \* those the recipient got

boxVars == <<stored, waiting, taken, handed>>

Init == stored = {} /\ waiting = {} /\ taken = {} /\ handed = {}

Store(e) ==
  /\ e \notin stored
  /\ stored' = stored \cup {e}
  /\ waiting' = waiting \cup {e}
  /\ UNCHANGED <<taken, handed>>

Take(e) ==
  /\ e \in waiting
  /\ waiting' = waiting \ {e}
  /\ taken' = taken \cup {e}
  /\ UNCHANGED <<stored, handed>>

Hand(batch) ==
  /\ batch \subseteq taken
  /\ \A e, f \in batch : e.dest = f.dest
  /\ taken' = taken \ batch
  /\ handed' = handed \cup batch
  /\ UNCHANGED <<stored, waiting>>

Lose(batch) ==
  /\ batch \subseteq taken
  /\ taken' = taken \ batch
  /\ UNCHANGED <<stored, waiting, handed>>

Next ==
  \/ \E e \in Envelope : Store(e) \/ Take(e)
  \/ \E batch \in SUBSET taken : Hand(batch) \/ Lose(batch)

Spec == Init /\ [][Next]_boxVars
=============================================================================
