------------------------- MODULE InferenceService --------------------------
(***************************************************************************)
(* What pallet-qx-ai promises its customers and workers, without queues,   *)
(* status fields or credentials: a request is addressed to one worker, a   *)
(* worker holds a bounded number of open requests, and each request is     *)
(* answered at most once, by the worker it was addressed to.               *)
(***************************************************************************)
EXTENDS Naturals, FiniteSets

CONSTANTS Workers, Requests, Unanswered, Capacity

VARIABLES
    open,      \* open[w]: the requests that wait for worker w
    answer     \* answer[r]: the worker that answered r, or Unanswered

serviceVars == <<open, answer>>

Init ==
    /\ open = [w \in Workers |-> {}]
    /\ answer = [r \in Requests |-> Unanswered]

Ask(w, r) ==
    /\ answer[r] = Unanswered
    /\ \A v \in Workers : r \notin open[v]
    /\ Cardinality(open[w]) < Capacity
    /\ open' = [open EXCEPT ![w] = @ \cup {r}]
    /\ UNCHANGED answer

Answer(w, r) ==
    /\ r \in open[w]
    /\ open' = [open EXCEPT ![w] = @ \ {r}]
    /\ answer' = [answer EXCEPT ![r] = w]

Next == \E w \in Workers, r \in Requests : Ask(w, r) \/ Answer(w, r)

Spec == Init /\ [][Next]_serviceVars

=============================================================================
