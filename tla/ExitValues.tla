----------------------------- MODULE ExitValues -----------------------------
(***************************************************************************)
(* The ring of exit values that both thread systems share,                 *)
(* pm/thread/common.c: exit_values[] with its cursor next_exit_value.      *)
(***************************************************************************)
EXTENDS Integers

CONSTANT KTHREAD_EXIT_VALUE_NUM

ASSUME ExitAssumption == KTHREAD_EXIT_VALUE_NUM \in Nat \ {0}

Ring == 0 .. KTHREAD_EXIT_VALUE_NUM - 1
NoTid == -1     \* KTHREAD_NULL_TID
NoValue == -1   \* a NULL pointer

InitExits == [entry |-> [k \in Ring |-> [tid |-> NoTid, retval |-> NoValue]],
              next |-> 0]

(* thread_save_retval(): a NULL value is not saved. *)
SaveRetval(e, tid, retval) ==
    IF retval = NoValue THEN e
    ELSE [entry |-> [e.entry EXCEPT ![e.next] = [tid |-> tid, retval |-> retval]],
          next |-> (e.next + 1) % KTHREAD_EXIT_VALUE_NUM]

(* thread_search_retval(): the first entry of the thread, NULL if it has none. *)
SearchRetval(e, tid) ==
    LET found == {k \in Ring : e.entry[k].tid = tid}
    IN  IF found = {} THEN NoValue
        ELSE e.entry[CHOOSE k \in found : \A l \in found : k <= l].retval
=============================================================================
