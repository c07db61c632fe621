-------------------------- MODULE MCWorkspaceLedger --------------------------
(* A small instance of the ledger of the demo workspaces.                    *)
EXTENDS WorkspaceLedger, TLC

Symmetry == Permutations(Workspaces) \cup Permutations(Keys) \cup Permutations(Callers)

(* No step reads the answer of the step before it, nor when a retired         *)
(* workspace was last seen and under which release.                           *)
Told(w) ==
    IF spaces[w] # None /\ spaces[w].retired
    THEN [spaces[w] EXCEPT !.seen = 0, !.release = 1] ELSE spaces[w]

View ==
    <<now, release, [w \in Workspaces |-> Told(w)], ledger, selections, results,
      occurrences, calls>>

(* After the change of release one caller is served at a time.                *)
OneAtATime ==
    release > 1 => Cardinality({c \in Callers : calls[c] # Idle}) <= 1

=============================================================================
