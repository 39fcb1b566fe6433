--------------------------- MODULE EvidenceLedger ---------------------------
(***************************************************************************)
(* What a native timing campaign promises about its evidence, whatever     *)
(* happens to the process that collects it.  A ledger has a set of chosen  *)
(* targets; the evidence of a target is sealed once and never replaced or  *)
(* withdrawn; and the ledger is declared complete only while every chosen  *)
(* target is sealed.  Choosing more targets withdraws the declaration.     *)
(***************************************************************************)
CONSTANTS
    Targets,    \* what a campaign may measure
    Evidence,   \* what a measurement of one target may be sealed as
    Unsealed    \* no evidence yet

VARIABLES
    sealed,     \* per target, its evidence or Unsealed
    chosen,     \* the targets the campaign is about
    declared    \* the campaign is declared complete

ledger == <<sealed, chosen, declared>>

Init ==
    /\ sealed = [t \in Targets |-> Unsealed]
    /\ chosen = {}
    /\ declared = FALSE

Choose(S) ==
    /\ chosen' = chosen \cup S
    /\ declared' = FALSE
    /\ UNCHANGED sealed

\* The evidence is any evidence, chosen as the primed value.
Seal(t) ==
    /\ ~declared
    /\ t \in chosen
    /\ sealed[t] = Unsealed
    /\ sealed'[t] \in Evidence
    /\ sealed' = [sealed EXCEPT ![t] = sealed'[t]]
    /\ UNCHANGED <<chosen, declared>>

Declare ==
    /\ \A t \in chosen : sealed[t] # Unsealed
    /\ declared' = TRUE
    /\ UNCHANGED <<sealed, chosen>>

Next ==
    \/ \E S \in SUBSET Targets : Choose(S)
    \/ \E t \in Targets : Seal(t)
    \/ Declare

Spec == Init /\ [][Next]_ledger
=============================================================================
