---------------------------- MODULE MCQueryCache ----------------------------
(* Small applications for the query cache. *)
EXTENDS QueryCache, TLC

CONSTANTS todos, todo1, u1, u2, u3, m1, m2, w1, w2

\* Invalidate(Key{"todos"}) covers {"todos"} and {"todos", 1}.
ListAndItem == [p \in {todos, todo1} |-> IF p = todos THEN {todos, todo1} ELSE {todo1}]
OneList == [p \in {todos} |-> {todos}]

\* Uses with and without RefetchOnFocus are not interchangeable.
Interchangeable ==
  Permutations(Workers) \cup Permutations(Mutates \ (Optimistic \cup Writers))
    \cup Permutations(Uses \ FocusUses)

=============================================================================
