---------------------------- MODULE ReadThrough -----------------------------
(***************************************************************************)
(* What a query cache promises to the components that read through it.     *)
(*                                                                         *)
(* The backend's state only grows.  What is shown of a key is nothing, or  *)
(* mutations the backend has committed, never one it refused; while it is  *)
(* shown it loses none of them, and only dropping the key starts it afresh.*)
(***************************************************************************)
CONSTANTS
  Keys, Mutates,
  Nothing      \* not a set of mutations

VARIABLES
  truth,  \* truth[k]: the mutations the backend has committed
  shown   \* shown[k]: the ones a reader of k sees, or Nothing

Init ==
  /\ truth = [k \in Keys |-> {}]
  /\ shown = [k \in Keys |-> Nothing]

Commit(k, m) ==
  /\ truth' = [truth EXCEPT ![k] = truth[k] \cup {m}]
  /\ UNCHANGED shown

Show(k) ==
  /\ \E data \in SUBSET truth[k] :
       /\ shown[k] # Nothing => shown[k] \subseteq data
       /\ shown' = [shown EXCEPT ![k] = data]
  /\ UNCHANGED truth

Drop(k) ==
  /\ shown' = [shown EXCEPT ![k] = Nothing]
  /\ UNCHANGED truth

Next ==
  \E k \in Keys :
    \/ \E m \in Mutates : Commit(k, m)
    \/ Show(k)
    \/ Drop(k)

Spec == Init /\ [][Next]_<<truth, shown>>

=============================================================================
