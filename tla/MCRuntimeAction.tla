-------------------------- MODULE MCRuntimeAction --------------------------
(* Values for model checking executeRuntimeAction. *)
EXTENDS RuntimeAction, FiniteSets, TLC

CONSTANTS c1, c2, c3, j1, j2, t1, t2, a1, a2

(* One token that expires while the clock runs, one that outlives the run. *)
MCTokenExpiry == (t1 :> 1) @@ (t2 :> MaxTime + 1)

MCInput(tenant, risk, privileged, executes, provenance) ==
    [tenant |-> tenant, risk |-> risk, privileged |-> privileged,
     executes |-> executes, provenance |-> provenance]

(* Each side of every test on an input: tenant, risk, privilege, mode. *)
MCInputs ==
    {MCInput("external", "high", TRUE, TRUE, "enforce"),
     MCInput("external", "low", TRUE, TRUE, "audit"),
     MCInput("internal", "critical", TRUE, TRUE, "off"),
     MCInput("internal", "low", FALSE, FALSE, "audit")}

(* The inputs of the runs about one token: low risk, so that every path of   *)
(* a privileged action can run it.                                           *)
MCTokenInputs == {MCInput("internal", "low", TRUE, TRUE, "audit")}

Symmetry == Permutations(Calls) \cup Permutations(Artifacts) \cup Permutations(Jtis)
=============================================================================
