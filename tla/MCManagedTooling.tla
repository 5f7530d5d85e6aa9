-------------------------- MODULE MCManagedTooling --------------------------
(* Two events with the same managed matcher and an unprefixed matcher; a    *)
(* manifest that adds, one that moves the hook to the other event and to    *)
(* the project's settings, and one without bundles.                         *)
EXTENDS ManagedTooling

MCManifests == {"install", "move", "revoke"}

MCMalformed == {"garbled"}

MCIds == {"pre guard", "post guard", "bash"}

MCManaged == {"pre guard", "post guard"}

MCMatcherOf == [i \in MCIds |-> IF i \in MCManaged THEN "guard" ELSE "bash"]

MCBundles == [m \in MCManifests |-> IF m = "revoke" THEN {} ELSE {"kit"}]

MCVersions == [m \in MCManifests |-> IF m = "revoke" THEN {} ELSE {m}]

MCValues == {"v1", "v2"}

Nothing == [i \in MCIds |-> None]

MCInitialFiles == {[i \in MCIds |-> IF i \in MCManaged THEN None ELSE Mine]}

MCContent ==
    [m \in MCManifests |-> [t \in {"global", "project"} |->
        CASE m = "install" /\ t = "global" -> [Nothing EXCEPT !["pre guard"] = "v1"]
          [] m = "move" /\ t = "global" -> [Nothing EXCEPT !["post guard"] = "v2"]
          [] m = "move" /\ t = "project" ->
                [Nothing EXCEPT !["pre guard"] = "v2", !["bash"] = "v2"]
          [] OTHER -> Nothing]]
=============================================================================
