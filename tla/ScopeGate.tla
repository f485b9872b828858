------------------------------ MODULE ScopeGate ------------------------------
(***************************************************************************)
(* What a ScopeRunner promises to the code that uses it: a gate that is    *)
(* open until somebody closes it.  While it is open anybody may enter a    *)
(* scope; it closes only when nobody is inside, and it never opens again.  *)
(***************************************************************************)
CONSTANT Callers        \* the activations of ScopeRunner::continue_lock

VARIABLES
  open,                 \* scopes may still be entered
  inside                \* the callers that are inside a scope

gateVars == <<open, inside>>

Init == /\ open = TRUE
        /\ inside = {}

Enter(c) == /\ open
            /\ c \notin inside
            /\ inside' = inside \cup {c}
            /\ UNCHANGED open

Leave(c) == /\ c \in inside
            /\ inside' = inside \ {c}
            /\ UNCHANGED open

Close == /\ inside = {}
         /\ open' = FALSE
         /\ UNCHANGED inside

Next == Close \/ \E c \in Callers : Enter(c) \/ Leave(c)

Spec == Init /\ [][Next]_gateVars
=============================================================================
