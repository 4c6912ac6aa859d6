--------------------------- MODULE PendingCallback ---------------------------
(***************************************************************************)
(* What a debouncer promises, with the identity of every callback.  At     *)
(* most one callback is pending per MAC.  A pending callback begins, once, *)
(* or it is cancelled.  A cancelled callback is gone, unless the cancel    *)
(* came when the callback was already under way: it is then late, and it   *)
(* may still begin, in place of the callback that is pending for the same  *)
(* MAC by then.  The one it displaces is late from there on.               *)
(*                                                                         *)
(* This is weaker than what debounce.go:40-43 and :59 say: TakeOver, which *)
(* runs a cancelled callback early and loses the one that was pending, is  *)
(* what the code does and no comment allows.  Without it the debouncer     *)
(* does not implement this module.                                         *)
(***************************************************************************)
CONSTANTS MAC,          \* the addresses callbacks are filed under
          Callback,     \* the identities of the callbacks alive at a time
          None          \* no callback

VARIABLES pending,      \* [MAC -> Callback or None], the callback filed
          late,         \* [MAC -> SUBSET Callback], those no longer filed
                        \* that were too far to be stopped
          running       \* [MAC -> SUBSET Callback], those that have begun

vars == <<pending, late, running>>

Init == /\ pending = [m \in MAC |-> None]
        /\ late = [m \in MAC |-> {}]
        /\ running = [m \in MAC |-> {}]

Fresh(c) == \A m \in MAC : pending[m] # c /\ c \notin late[m] \union running[m]

Enqueue(m, c) ==
    /\ pending[m] = None
    /\ Fresh(c)
    /\ pending' = [pending EXCEPT ![m] = c]
    /\ UNCHANGED <<late, running>>

Cancel(m) ==
    /\ pending[m] # None
    /\ pending' = [pending EXCEPT ![m] = None]
    /\ \/ UNCHANGED late
       \/ late' = [late EXCEPT ![m] = @ \union {pending[m]}]
    /\ UNCHANGED running

Begin(m, c) ==
    /\ c # None
    /\ pending[m] = c
    /\ pending' = [pending EXCEPT ![m] = None]
    /\ running' = [running EXCEPT ![m] = @ \union {c}]
    /\ UNCHANGED late

TakeOver(m, c) ==
    /\ c \in late[m]
    /\ pending[m] # None
    /\ pending' = [pending EXCEPT ![m] = None]
    /\ late' = [late EXCEPT ![m] = (@ \ {c}) \union {pending[m]}]
    /\ running' = [running EXCEPT ![m] = @ \union {c}]

\* A late callback that finds nothing pending for its MAC does not begin.
Drop(m, c) ==
    /\ c \in late[m]
    /\ pending[m] = None
    /\ late' = [late EXCEPT ![m] = @ \ {c}]
    /\ UNCHANGED <<pending, running>>

Finish(m, c) ==
    /\ c \in running[m]
    /\ running' = [running EXCEPT ![m] = @ \ {c}]
    /\ UNCHANGED <<pending, late>>

Next == \E m \in MAC :
            \/ Cancel(m)
            \/ \E c \in Callback :
                  \/ Enqueue(m, c) \/ Begin(m, c) \/ TakeOver(m, c)
                  \/ Drop(m, c) \/ Finish(m, c)

Spec == /\ Init
        /\ [][Next]_vars
        /\ \A m \in MAC : WF_vars(\E c \in Callback : Begin(m, c) \/ TakeOver(m, c))
==============================================================================
