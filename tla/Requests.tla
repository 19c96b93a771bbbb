------------------------------ MODULE Requests ------------------------------
(***************************************************************************)
(* What jring promises a program (abi/src/lib.rs, user/src/uring.rs): a    *)
(* request is identified by its tag; the kernel completes it at most once; *)
(* the program gets the completion it waits for, exactly once, and loses   *)
(* none it has not asked for yet.  All of it ends when the program exits.  *)
(***************************************************************************)
CONSTANTS Procs, Tags

VARIABLES used,      \* tags handed out by tag()
          open,      \* submitted, not completed
          done,      \* completed, not returned by wait()
          returned   \* returned by wait()

vars == <<used, open, done, returned>>

Init ==
    /\ used = [p \in Procs |-> {}]
    /\ open = [p \in Procs |-> {}]
    /\ done = [p \in Procs |-> {}]
    /\ returned = [p \in Procs |-> {}]

Submit(p) ==
    \E t \in Tags \ used[p] :
        /\ used'[p] = used[p] \union {t}
        /\ open'[p] = open[p] \union {t}
        /\ done'[p] = done[p] /\ returned'[p] = returned[p]

Complete(p) ==
    /\ open'[p] \subseteq open[p]
    /\ done'[p] = done[p] \union (open[p] \ open'[p])
    /\ used'[p] = used[p] /\ returned'[p] = returned[p]

Return(p) ==
    \E t \in done[p] :
        /\ done'[p] = done[p] \ {t}
        /\ returned'[p] = returned[p] \union {t}
        /\ used'[p] = used[p] /\ open'[p] = open[p]

\* The program has exited: what it asked for is nobody's any more.
Abort(p) ==
    /\ open'[p] = {} /\ done'[p] = {} /\ returned'[p] = {}
    /\ used'[p] = used[p]

\* One kernel entry may complete requests of several processes, and end one.
Next == \A p \in Procs : Complete(p) \/ Submit(p) \/ Return(p) \/ Abort(p)

Spec == Init /\ [][Next]_vars
=============================================================================
