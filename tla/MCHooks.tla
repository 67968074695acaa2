------------------------------ MODULE MCHooks ------------------------------
(* Small component trees. *)
EXTENDS Hooks, TLC

CONSTANTS App, Item, r1, r2, r3, r4

\* A parent that calls its hooks before it renders two items, which share their
\* fiber; an item with a hook that is called in one order or the other.
ListBodies ==
  (App :> {<<"effect", "state", "ref", Item, Item>>}) @@
  (Item :> {<<"state", "effect">>, <<"effect", "memo">>, <<"state">>})

\* A parent that calls a hook after it has rendered its child.
LateHookBodies == (App :> {<<"effect", Item, "state">>}) @@ (Item :> {<<"state">>})

Interchangeable == Permutations(Run)

=============================================================================
