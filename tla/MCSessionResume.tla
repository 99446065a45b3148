-------------------------- MODULE MCSessionResume --------------------------
(* SessionResume with the execution slots interchangeable.                 *)
EXTENDS SessionResume

Slots == Permutations(Exec)

(* Bound of the model: when two executions overlap, no database call fails *)
(* and all CLIs have been of one kind; and no session has been lost by the *)
(* time of a third execution, unless only those overlap that take the      *)
(* session mutex.                                                          *)
OverlapsUndisturbed ==
  /\ overlap # "none" => /\ faults = 0 /\ base = "acp"
                         /\ \A s \in Sessions : maker[s] # "claude"
                         /\ \A e \in Exec : t[e].kind = "acp"
  /\ overlap = "any" /\ turns = MaxTurns => \A s \in 1 .. made : maker[s] = "acp"
============================================================================
