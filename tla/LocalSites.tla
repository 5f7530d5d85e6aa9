----------------------------- MODULE LocalSites -----------------------------
(***************************************************************************)
(* The local site manager: sites in SQLite, their clones on disk and their   *)
(* DDEV projects.  Each operation waits for git or ddev between the read of  *)
(* a row and its update, and nothing serialises the operations.              *)
(***************************************************************************)
EXTENDS Naturals, Sequences, FiniteSets

CONSTANTS
    Repos,         \* repository URLs; each has one clone path and DDEV name
    MaxSites, MaxSiteOps, MaxSiteFaults   \* bounds

ASSUME SiteBounds == {MaxSites, MaxSiteOps, MaxSiteFaults} \subseteq Nat

Jobs == {1, 2}     \* operations in flight
SiteStatuses == {"running", "stopped", "starting", "error"}

(* A row: the repository, the status, and whether the row is still there. *)
Site == [repo : Repos, status : SiteStatuses, there : BOOLEAN]

VARIABLES
    sites,       \* local_sites, in the order of their creation
    cloned,      \* repositories whose clone path exists
    ddev,        \* state of each repository's DDEV project
    job,         \* job[j]: what an operation in flight awaits
    crossed,     \* history: repositories that two operations in flight shared, or whose project
                 \* changed behind the manager, or whose operation a stop of the sidecar cut
                 \* short, and that no syncAll looked at since
    unremoved,   \* history: repositories whose removal failed, likewise
    spentSite    \* operations and failures so far

siteVars == <<sites, cloned, ddev, job, crossed, unremoved, spentSite>>

NoJob == [op |-> "none", repo |-> "", site |-> 0, keep |-> TRUE, seen |-> <<>>, told |-> [r \in Repos |-> "none"]]

SitesInit ==
    /\ sites = <<>> /\ cloned = {}
    /\ ddev = [r \in Repos |-> "none"]
    /\ job = [j \in Jobs |-> NoJob]
    /\ crossed = {} /\ unremoved = {}
    /\ spentSite = [ops |-> 0, faults |-> 0]

Existing == {s \in 1..Len(sites) : sites[s].there}

(* A sync is about every site there was when it listed them. *)
About(k) == IF job[k].op \in {"list", "listed"} THEN {s \in 1..Len(job[k].seen) : job[k].seen[s].there} ELSE {job[k].site} \ {0}
BusyRepo(r) == \E k \in Jobs : job[k].repo = r \/ \E s \in About(k) : sites[s].repo = r

WaitFor(j, op) == job' = [job EXCEPT ![j].op = op]
JobEnds(j) == job' = [job EXCEPT ![j] = NoJob]
NewSite(r) == [repo |-> r, status |-> "starting", there |-> TRUE]

(* The unique index on repo_path, over the rows not deleted. *)
PathTaken(r) == \E s \in Existing : sites[s].repo = r

SetStatus(s, status) == sites' = [sites EXCEPT ![s].status = status]

SiteOperation(j) ==
    /\ job[j] = NoJob
    /\ spentSite.ops < MaxSiteOps
    /\ spentSite' = [spentSite EXCEPT !.ops = @ + 1]

SiteFault ==
    /\ spentSite.faults < MaxSiteFaults
    /\ spentSite' = [spentSite EXCEPT !.faults = @ + 1]

-----------------------------------------------------------------------------
Provision(r, j) ==
    /\ SiteOperation(j)
    /\ job' = [job EXCEPT ![j] = [NoJob EXCEPT !.op = "clone", !.repo = r]]
    /\ UNCHANGED <<sites, cloned, ddev, crossed, unremoved>>

(* git refuses a path that exists; a second row for a path is refused by the *)
(* unique index, and the clone stays.                                        *)
Cloned(j) ==
    LET r == job[j].repo
    IN  /\ job[j].op = "clone"
        /\ IF r \in cloned
           THEN JobEnds(j) /\ UNCHANGED <<sites, cloned>>
           ELSE /\ cloned' = cloned \cup {r}
                /\ IF PathTaken(r)
                   THEN JobEnds(j) /\ UNCHANGED sites
                   ELSE /\ Len(sites) < MaxSites
                        /\ sites' = Append(sites, NewSite(r))
                        /\ job' = [job EXCEPT ![j] = [@ EXCEPT !.op = "start", !.site = Len(sites) + 1]]
        /\ UNCHANGED <<ddev, crossed, unremoved, spentSite>>

CloneFails(j) ==
    /\ job[j].op = "clone" /\ SiteFault
    /\ JobEnds(j)
    /\ UNCHANGED <<sites, cloned, ddev, crossed, unremoved>>

(* start and restart say so in the row first, stop and remove do not. *)
Begin(s, j, op, keep) ==
    /\ SiteOperation(j) /\ s \in Existing
    /\ job' = [job EXCEPT ![j] = [NoJob EXCEPT !.op = op, !.repo = sites[s].repo, !.site = s, !.keep = keep]]
    /\ crossed' = IF BusyRepo(sites[s].repo) THEN crossed \cup {sites[s].repo} ELSE crossed
    /\ IF op = "start" THEN SetStatus(s, "starting") ELSE UNCHANGED sites
    /\ UNCHANGED <<cloned, ddev, unremoved>>

StartSite(s, j) == Begin(s, j, "start", TRUE)
StopSite(s, j) == Begin(s, j, "stop", TRUE)
RemoveSite(s, j) == \E keep \in BOOLEAN : Begin(s, j, "delete", keep)

(* restart is a start of whatever the project's state is. *)
DdevStarts(j) ==
    /\ job[j].op = "start" /\ job[j].repo \in cloned
    /\ ddev' = [ddev EXCEPT ![job[j].repo] = "running"]
    /\ WaitFor(j, "describe")
    /\ UNCHANGED <<sites, cloned, crossed, unremoved, spentSite>>

Described(j) ==
    /\ job[j].op = "describe"
    /\ SetStatus(job[j].site, "running")
    /\ JobEnds(j)
    /\ UNCHANGED <<cloned, ddev, crossed, unremoved, spentSite>>

DdevStops(j) ==
    /\ job[j].op = "stop"
    /\ ddev' = [ddev EXCEPT ![job[j].repo] = IF @ = "none" THEN @ ELSE "stopped"]
    /\ SetStatus(job[j].site, "stopped")
    /\ JobEnds(j)
    /\ UNCHANGED <<cloned, crossed, unremoved, spentSite>>

(* Mutated form of DdevFails: the row is not told. *)
DdevFailsSilently(j) ==
    /\ \/ job[j].op \in {"start", "describe", "stop"} /\ SiteFault
       \/ job[j].op = "start" /\ job[j].repo \notin cloned /\ UNCHANGED spentSite
    /\ JobEnds(j)
    /\ UNCHANGED <<sites, cloned, ddev, crossed, unremoved>>

DdevFails(j) ==
    /\ \/ job[j].op \in {"start", "describe", "stop"} /\ SiteFault
       \/ job[j].op = "start" /\ job[j].repo \notin cloned /\ UNCHANGED spentSite
    /\ SetStatus(job[j].site, "error")
    /\ JobEnds(j)
    /\ UNCHANGED <<cloned, ddev, crossed, unremoved>>

Gone(s) == sites' = [sites EXCEPT ![s].there = FALSE]

(* remove goes on when ddev delete fails. *)
DdevDeletes(j) ==
    /\ job[j].op = "delete"
    /\ \/ ddev' = [ddev EXCEPT ![job[j].repo] = "none"] /\ UNCHANGED spentSite
       \/ SiteFault /\ UNCHANGED ddev
    /\ IF job[j].keep THEN Gone(job[j].site) /\ JobEnds(j)
                      ELSE WaitFor(j, "rm") /\ UNCHANGED sites
    /\ UNCHANGED <<cloned, crossed, unremoved>>

CloneRemoved(j) ==
    /\ job[j].op = "rm"
    /\ cloned' = cloned \ {job[j].repo}
    /\ Gone(job[j].site)
    /\ JobEnds(j)
    /\ UNCHANGED <<ddev, crossed, unremoved, spentSite>>

(* The row stays as it was, with a project that is gone. *)
RemovalFails(j) ==
    /\ job[j].op = "rm" /\ SiteFault
    /\ unremoved' = unremoved \cup {job[j].repo}
    /\ JobEnds(j)
    /\ UNCHANGED <<sites, cloned, ddev, crossed>>

-----------------------------------------------------------------------------
SyncAll(j) ==
    /\ SiteOperation(j)
    /\ job' = [job EXCEPT ![j] = [NoJob EXCEPT !.op = "list", !.seen = sites]]
    /\ crossed' = {r \in Repos : BusyRepo(r)} /\ unremoved' = {}
    /\ UNCHANGED <<sites, cloned, ddev>>

(* What ddev lists: a project is "starting" while ddev starts it. *)
DdevListed(j) ==
    /\ job[j].op = "list"
    /\ \E starting \in SUBSET {job[k].repo : k \in {i \in Jobs : job[i].op = "start"}} :
          job' = [job EXCEPT ![j] =
                    [@ EXCEPT !.op = "listed",
                              !.told = [r \in Repos |-> IF r \in starting THEN "starting" ELSE ddev[r]]]]
    /\ UNCHANGED <<sites, cloned, ddev, crossed, unremoved, spentSite>>

(* A project that ddev does not list is a stopped one. *)
NewStatus(told) == IF told = "none" THEN "stopped" ELSE told

(* The news are compared with the row as it was listed. *)
Synced(j) ==
    /\ job[j].op = "listed"
    /\ sites' = [s \in 1..Len(sites) |->
                   IF s \in About(j)
                   THEN LET was == job[j].seen[s].status
                            new == NewStatus(job[j].told[sites[s].repo])
                        IN  IF new # was THEN [sites[s] EXCEPT !.status = new] ELSE sites[s]
                   ELSE sites[s]]
    /\ JobEnds(j)
    /\ UNCHANGED <<cloned, ddev, crossed, unremoved, spentSite>>

ListFails(j) ==
    /\ job[j].op = "list" /\ SiteFault
    /\ crossed' = crossed \cup {r \in Repos : BusyRepo(r)}
    /\ JobEnds(j)
    /\ UNCHANGED <<sites, cloned, ddev, unremoved>>

(* The user starts or stops a project in a terminal. *)
DdevElsewhere(r) ==
    /\ spentSite.faults < MaxSiteFaults
    /\ spentSite' = [spentSite EXCEPT !.faults = @ + 1]
    /\ \E s \in {"running", "stopped"} \ {ddev[r]} :
          /\ ddev[r] # "none" /\ ddev' = [ddev EXCEPT ![r] = s]
    /\ crossed' = crossed \cup {r}
    /\ UNCHANGED <<sites, cloned, job, unremoved>>

(* The rows outlive the sidecar.  So do the commands: what git and ddev were  *)
(* asked for may be done by now (or later, as a change from elsewhere).      *)
InFlight(op) == {job[j].repo : j \in {i \in Jobs : job[i].op = op}}
Outcomes(r) ==
    {ddev[r]} \cup {"running" : x \in {r} \cap InFlight("start")}
              \cup {"stopped" : x \in {q \in {r} \cap InFlight("stop") : ddev[q] # "none"}}
              \cup {"none" : x \in {r} \cap InFlight("delete")}

SidecarLeaves ==
    /\ SiteFault
    /\ job' = [j \in Jobs |-> NoJob]
    /\ ddev' \in {now \in [Repos -> {"none", "running", "stopped"}] : \A r \in Repos : now[r] \in Outcomes(r)}
    /\ \E done \in SUBSET InFlight("clone"), gone \in SUBSET InFlight("rm") :
           cloned' = (cloned \cup done) \ gone
    /\ crossed' = crossed \cup {r \in Repos : BusyRepo(r)}
    /\ UNCHANGED <<sites, unremoved>>

JobMoves(j) ==
    \/ Cloned(j) \/ CloneFails(j)
    \/ DdevStarts(j) \/ Described(j) \/ DdevStops(j) \/ DdevFails(j)
    \/ DdevDeletes(j) \/ CloneRemoved(j) \/ RemovalFails(j)
    \/ DdevListed(j) \/ Synced(j) \/ ListFails(j)

SitesNext ==
    \/ \E j \in Jobs : JobMoves(j) \/ SyncAll(j)
    \/ \E r \in Repos, j \in Jobs : Provision(r, j)
    \/ \E s \in 1..MaxSites, j \in Jobs : StartSite(s, j) \/ StopSite(s, j) \/ RemoveSite(s, j)
    \/ \E r \in Repos : DdevElsewhere(r)
    \/ SidecarLeaves

SitesSpec == SitesInit /\ [][SitesNext]_siteVars

-----------------------------------------------------------------------------
SitesTypeOK ==
    /\ sites \in Seq(Site) /\ Len(sites) <= MaxSites
    /\ cloned \subseteq Repos /\ ddev \in [Repos -> {"none", "running", "stopped"}]
    /\ \A j \in Jobs :
          /\ job[j].op \in {"none", "clone", "start", "describe", "stop", "delete", "rm", "list", "listed"}
          /\ job[j].told \in [Repos -> {"none", "running", "stopped", "starting"}]
          /\ job[j].repo \in Repos \cup {""} /\ job[j].site \in 0..Len(sites)
          /\ job[j].keep \in BOOLEAN /\ job[j].seen \in Seq(Site) /\ Len(job[j].seen) <= Len(sites)
    /\ crossed \subseteq Repos /\ unremoved \subseteq Repos
    /\ spentSite \in [ops : 0..MaxSiteOps, faults : 0..MaxSiteFaults]

(* The row fits the DDEV project, or says "error".  After a removal that       *)
(* failed it may say "running" for a project that is gone.                   *)
FitsItsProject(s) ==
    LET r == sites[s].repo
    IN  /\ sites[s].status # "starting"
        /\ sites[s].status = "running" => ddev[r] = "running" \/ (ddev[r] = "none" /\ r \in unremoved)
        /\ sites[s].status = "stopped" => ddev[r] # "running"

(* Whatever git, ddev or the file system fails at, the row of a site that no  *)
(* operation is about fits.  Three things may break that, since nothing in    *)
(* the manager prevents them: operations that overlap on the site, a stop of  *)
(* the sidecar in the midst of one, and a project changed in a terminal; one  *)
(* syncAll that has the site to itself mends what any of them left, and what  *)
(* a failed removal left (localSiteManager.ts:153-237, 246-277).             *)
StatusIsTrue ==
    \A s \in Existing : sites[s].repo \notin crossed /\ ~BusyRepo(sites[s].repo) => FitsItsProject(s)
=============================================================================
