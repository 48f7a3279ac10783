----------------------------- MODULE ReadService -----------------------------
(***************************************************************************)
(* What SharedReader promises the threads that call it, with no cache,     *)
(* stream or lock in sight: every call returns, and what it returns is the *)
(* file's pixels or an error, never anything else.  Which of the two a     *)
(* call may return is fixed by the file and by whether the stream can      *)
(* fail; it does not depend on what other threads do, on what is resident, *)
(* or on clear_cache and set_cache_budget.                                 *)
(***************************************************************************)
CONSTANTS
  Thread,
  Request,
  Outcomes,     \* request -> the outcomes it may have, of "pixels" and "err"
  None

VARIABLES
  pending,   \* the call each thread is in, or None
  reply      \* the outcome of each thread's last call

vars == <<pending, reply>>

Init ==
  /\ pending = [t \in Thread |-> None]
  /\ reply = [t \in Thread |-> None]

Ask(t, r) ==
  /\ pending[t] = None
  /\ pending' = [pending EXCEPT ![t] = r]
  /\ UNCHANGED reply

Answer(t) ==
  /\ pending[t] # None
  /\ \E val \in Outcomes[pending[t]] :
       reply' = [reply EXCEPT ![t] = [to |-> pending[t], val |-> val]]
  /\ pending' = [pending EXCEPT ![t] = None]

Next == \E t \in Thread : Answer(t) \/ \E r \in Request : Ask(t, r)

Spec == Init /\ [][Next]_vars /\ \A t \in Thread : WF_vars(Answer(t))
=============================================================================
