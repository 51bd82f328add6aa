----------------------------- MODULE MCExecutor -----------------------------
(* A small instance of the executor. *)
EXTENDS Executor

\* One slot and no budget, or two slots and one call per minute.
SmallSettings == {[max |-> 1, rate |-> 0], [max |-> 2, rate |-> 1]}
=============================================================================
