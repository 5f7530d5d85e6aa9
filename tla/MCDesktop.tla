------------------------------ MODULE MCDesktop ------------------------------
(***************************************************************************)
(* The services and the workspaces in one run: an initial state picks the     *)
(* part that moves from one of them.                                         *)
(***************************************************************************)
EXTENDS MCServices, MCWorkspaces

Init ==
    /\ ServicesInit /\ WorkspacesInit
    /\ service = "none" <=> workspace # "none"

Next ==
    \/ ServicesNext /\ UNCHANGED workspacesVars
    \/ WorkspacesNext /\ UNCHANGED servicesVars

Spec ==
    /\ Init /\ [][Next]_<<servicesVars, workspacesVars>>
    /\ ServicesFairness /\ WorkspacesFairness
=============================================================================
