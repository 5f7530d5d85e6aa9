----------------------------- MODULE MCWorkspaces -----------------------------
(***************************************************************************)
(* The workspaces a developer has (sessions, hosted environments, local       *)
(* sites, drift), the processes the desktop runs, and its two set-ups (GitHub   *)
(* login, Recon's credentials).  They share no state: an initial state picks   *)
(* the part that moves, if any.                                              *)
(***************************************************************************)
EXTENDS Sessions, Environments, LocalSites, ServerProcesses, GithubLogin, ReconSetup, DriftSignals

CONSTANTS s1, n1, m1, k1, k2, k3

MCDirOf == [f \in {k1, k2} |-> f]
MCTopicOf == [f \in {k1, k2} |-> f]

VARIABLE workspace   \* the part that moves
workspacesVars ==
    <<workspace, sessionVars, envVars, siteVars, processVars, loginVars, setupVars, driftVars>>

(* The credentials file has one initial state when another part moves. *)
WorkspacesInit ==
    /\ workspace \in {"sessions", "environments", "sites", "processes", "login", "setup", "drift", "none"}
    /\ SessionsInit /\ EnvInit /\ SitesInit /\ ProcessInit /\ LoginInit /\ SetupInit
    /\ DriftInit
    /\ workspace # "setup" => file = Empty

Works(name, next) == workspace = name /\ next /\ UNCHANGED workspace

WorkspacesNext ==
    \/ /\ Works("sessions", SessionsNext)
       /\ UNCHANGED <<envVars, siteVars, processVars, loginVars, setupVars, driftVars>>
    \/ /\ Works("environments", EnvNext)
       /\ UNCHANGED <<sessionVars, siteVars, processVars, loginVars, setupVars, driftVars>>
    \/ /\ Works("sites", SitesNext)
       /\ UNCHANGED <<sessionVars, envVars, processVars, loginVars, setupVars, driftVars>>
    \/ /\ Works("processes", ProcessNext)
       /\ UNCHANGED <<sessionVars, envVars, siteVars, loginVars, setupVars, driftVars>>
    \/ /\ Works("login", LoginNext)
       /\ UNCHANGED <<sessionVars, envVars, siteVars, processVars, setupVars, driftVars>>
    \/ /\ Works("setup", SetupNext)
       /\ UNCHANGED <<sessionVars, envVars, siteVars, processVars, loginVars, driftVars>>
    \/ /\ Works("drift", DriftNext)
       /\ UNCHANGED <<sessionVars, envVars, siteVars, processVars, loginVars, setupVars>>

WorkspacesFairness == EnvFairness /\ ProcessFairness /\ LoginFairness /\ DriftFairness
WorkspacesSpec == WorkspacesInit /\ [][WorkspacesNext]_workspacesVars /\ WorkspacesFairness

WorkspacesTypeOK ==
    /\ SessionsTypeOK /\ EnvTypeOK /\ SitesTypeOK /\ ProcessTypeOK
    /\ LoginTypeOK /\ SetupTypeOK /\ DriftTypeOK
=============================================================================
