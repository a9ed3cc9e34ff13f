------------------------------ MODULE Delivery ------------------------------
(***************************************************************************)
(* What the data path of the agent promises to the monitoring server, with *)
(* no threads, queue, file or connection in it.  A reading is accepted     *)
(* when the agent takes it from the monitoring post, delivered when the    *)
(* server first stores it, and lost when the agent forgets it undelivered. *)
(* Readings are named by their data number.                                *)
(***************************************************************************)
EXTENDS Integers

CONSTANT Readings      \* the data numbers the monitoring post can assign

VARIABLES accepted, delivered, lost

vars == <<accepted, delivered, lost>>

Init ==
  /\ accepted = {}
  /\ delivered = {}
  /\ lost = {}

\* Readings the agent still owes to the server.
Pending == accepted \ (delivered \cup lost)

\* A reading that was forgotten is owed again when the post repeats it.
Accept(n) ==
  /\ accepted' = accepted \cup {n}
  /\ lost' = lost \ {n}
  /\ UNCHANGED delivered

\* Only the oldest pending reading can be delivered next.
Deliver(n) ==
  /\ n \in Pending
  /\ \A m \in Pending : n <= m
  /\ delivered' = delivered \cup {n}
  /\ UNCHANGED <<accepted, lost>>

Lose(S) ==
  /\ S \subseteq Pending
  /\ lost' = lost \cup S
  /\ UNCHANGED <<accepted, delivered>>

Next ==
  \/ \E n \in Readings : Accept(n) \/ Deliver(n)
  \/ \E S \in SUBSET Readings : Lose(S)

Spec == Init /\ [][Next]_vars
=============================================================================
