------------------------- MODULE OperationLifecycle -------------------------
(***************************************************************************)
(* What a client of the compute queue is promised about its operations,    *)
(* without threads, files, stops or crashes: each operation moves along    *)
(* one path of the state machine below, at most one executes at a time,    *)
(* admission is bounded, and a cancelled operation cannot succeed.         *)
(* DurableOperations implements it.                                        *)
(***************************************************************************)
EXTENDS Naturals, FiniteSets

CONSTANTS Operations, Workspaces, None, Limit

VARIABLES state, owner

Outstanding == {"QUEUED", "RUNNING", "CANCELLING"}
Executing == {"RUNNING", "CANCELLING"}
Unsuccessful == {"INTERRUPTED", "FAILED", "TIMED_OUT", "CANCELLED"}

InState(S) == {o \in Operations : state[o] \in S}

Init ==
    /\ state = [o \in Operations |-> "ABSENT"]
    /\ owner = [o \in Operations |-> None]

Enqueue(o, w) ==
    /\ state[o] = "ABSENT"
    /\ Cardinality(InState(Outstanding)) < Limit
    /\ \A p \in InState(Outstanding) : owner[p] # w
    /\ state' = [state EXCEPT ![o] = "QUEUED"]
    /\ owner' = [owner EXCEPT ![o] = w]

Start(o) ==
    /\ state[o] = "QUEUED" /\ InState(Executing) = {}
    /\ state' = [state EXCEPT ![o] = "RUNNING"]
    /\ UNCHANGED owner

RequestCancel(o) ==
    /\ state[o] \in {"QUEUED", "RUNNING"}
    /\ state' = [state EXCEPT ![o] = IF @ = "QUEUED" THEN "CANCELLED"
                                                     ELSE "CANCELLING"]
    /\ UNCHANGED owner

Succeed(o) ==
    /\ state[o] = "RUNNING"
    /\ state' = [state EXCEPT ![o] = "SUCCEEDED"]
    /\ UNCHANGED owner

\* An executing or, when the join of a stop expires, a queued operation ends.
End(o, s) ==
    /\ state[o] \in Executing \/ (state[o] = "QUEUED" /\ s = "INTERRUPTED")
    /\ state' = [state EXCEPT ![o] = s]
    /\ UNCHANGED owner

InterruptQueued ==
    /\ state' = [o \in Operations |-> IF state[o] = "QUEUED" THEN "INTERRUPTED"
                                                             ELSE state[o]]
    /\ UNCHANGED owner

Next ==
    \/ \E o \in Operations :
          \/ \E w \in Workspaces : Enqueue(o, w)
          \/ Start(o) \/ RequestCancel(o) \/ Succeed(o)
          \/ \E s \in Unsuccessful : End(o, s)
    \/ InterruptQueued

Spec == Init /\ [][Next]_<<state, owner>>
=============================================================================
