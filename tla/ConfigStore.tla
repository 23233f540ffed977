----------------------------- MODULE ConfigStore -----------------------------
(***************************************************************************)
(* What the redundant flash configuration promises its one user at a time: *)
(* a register that an edit replaces as a whole or not at all, whatever     *)
(* interrupts it.                                                          *)
(***************************************************************************)

CONSTANTS Configs, NoConfig

VARIABLES
    config,   \* the configuration in force
    edit      \* the one being written, or NoConfig

vars == <<config, edit>>

Init == config \in Configs /\ edit = NoConfig

Propose ==
    /\ edit = NoConfig
    /\ edit' \in Configs
    /\ UNCHANGED config

Commit ==
    /\ edit # NoConfig
    /\ config' = edit
    /\ edit' = NoConfig

Abandon ==
    /\ edit # NoConfig
    /\ edit' = NoConfig
    /\ UNCHANGED config

Next == Propose \/ Commit \/ Abandon

Spec == Init /\ [][Next]_vars

=============================================================================
