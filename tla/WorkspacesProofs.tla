--------------------------- MODULE WorkspacesProofs ---------------------------
(* What TLAPS proves of the workspaces: local sites, processes, Recon's        *)
(* credentials, environments, login and drift, each from an invariant of its   *)
(* own, and of their composition MCWorkspaces.                              *)
EXTENDS MCWorkspaces, SessionsProofs, WellFoundedInduction, FiniteSetTheorems,
        SequenceTheorems, TLAPS

-----------------------------------------------------------------------------
(* Local sites: the table of sites and the jobs that are about them. *)
SiteOps == {"start", "describe", "stop", "delete", "rm"}
ListOps == {"list", "listed"}
Told == [Repos -> {"none", "running", "stopped", "starting"}]
JobRecord ==
    [op : {"none", "clone"} \cup SiteOps \cup ListOps, repo : Repos \cup {""}, site : Nat,
     keep : BOOLEAN, seen : Seq(Site), told : Told]

SiteIds == 1..Len(sites)

(* A job is about a site that is in the table, or about none yet; what a sync *)
(* saw is a beginning of the table.                                          *)
JobFits(v) ==
    /\ v.op \in SiteOps => v.site \in SiteIds /\ v.repo = sites[v.site].repo
    /\ v.op = "clone" => v.repo \in Repos
    /\ v.op \notin SiteOps => v.site = 0
    /\ Len(v.seen) <= Len(sites)

AboutOf(v) ==
    IF v.op \in ListOps THEN {s \in 1..Len(v.seen) : v.seen[s].there} ELSE {v.site} \ {0}
Concerns(v, r) == \E s \in AboutOf(v) : sites[s].repo = r

(* The unique index. *)
OnePerRepo == \A s, q \in Existing : sites[s].repo = sites[q].repo => s = q

(* A row that fits the state of its project; a failed removal leaves one that *)
(* may say "running" of a project that is gone.                              *)
FitsTo(w, state, excused) ==
    /\ w.status # "starting"
    /\ w.status = "running" => state = "running" \/ (state = "none" /\ excused)
    /\ w.status = "stopped" => state # "running"

(* Of a repository where no operations overlapped, one job is under way at    *)
(* most, and what it knows of the site and its project is so.                *)
Alone(r) == \A k, l \in Jobs : Concerns(job[k], r) /\ Concerns(job[l], r) => k = l
Knows(v, r) ==
    \A s \in AboutOf(v) : sites[s].repo = r =>
        /\ sites[s].there
        /\ v.op \in ListOps => sites[s] = v.seen[s]
        /\ v.op = "describe" => ddev[r] = "running"
        /\ v.op = "listed" => v.told[r] = ddev[r]
        /\ v.op = "delete" => FitsTo(sites[s], ddev[r], r \in unremoved)
        /\ v.op = "rm" => FitsTo(sites[s], ddev[r], TRUE)

(* When no job is, the row tells the truth. *)
Tells(s) == FitsTo(sites[s], ddev[sites[s].repo], sites[s].repo \in unremoved)
TellsOf(r) == \A s \in Existing : sites[s].repo = r => Tells(s)
Truthful(r) == (\A k \in Jobs : ~Concerns(job[k], r)) => TellsOf(r)

Undisturbed(r) == Alone(r) /\ Truthful(r) /\ \A k \in Jobs : Knows(job[k], r)

SitesTyped ==
    /\ sites \in Seq(Site) /\ Len(sites) <= MaxSites
    /\ cloned \subseteq Repos /\ ddev \in [Repos -> {"none", "running", "stopped"}]
    /\ crossed \subseteq Repos /\ unremoved \subseteq Repos
    /\ spentSite \in [ops : 0..MaxSiteOps, faults : 0..MaxSiteFaults]
    /\ job \in [Jobs -> JobRecord]
SitesInv ==
    /\ SitesTyped
    /\ \A k \in Jobs : JobFits(job[k])
    /\ OnePerRepo
    /\ \A r \in Repos \ crossed : Undisturbed(r)

LEMMA SitesTypes == SitesInv => SitesTypeOK
<1> SUFFICES ASSUME SitesInv PROVE SitesTypeOK
    OBVIOUS
<1>1. SitesTyped
    BY DEF SitesInv
<1>2. ASSUME NEW j \in Jobs
      PROVE  /\ job[j].op \in {"none", "clone", "start", "describe", "stop", "delete", "rm", "list", "listed"}
             /\ job[j].told \in [Repos -> {"none", "running", "stopped", "starting"}]
             /\ job[j].repo \in Repos \cup {""} /\ job[j].site \in 0..Len(sites)
             /\ job[j].keep \in BOOLEAN /\ job[j].seen \in Seq(Site) /\ Len(job[j].seen) <= Len(sites)
    <2>1. job[j] \in JobRecord
        BY <1>1 DEF SitesTyped
    <2>2. JobFits(job[j])
        BY DEF SitesInv
    <2>3. job[j].site \in 0..Len(sites)
      <3>1. Len(sites) \in Nat
        BY <1>1, LenProperties DEF SitesTyped
      <3>2. job[j].site = 0 \/ job[j].site \in 1..Len(sites)
        BY <2>2 DEF JobFits, SiteIds
      <3> QED
        BY <3>1, <3>2
    <2> QED
        BY <2>1, <2>2, <2>3 DEF JobRecord, JobFits, SiteOps, ListOps, Told
<1> QED
    BY <1>1, <1>2 DEF SitesTyped, SitesTypeOK, Site

LEMMA SitesTrue == SitesInv => StatusIsTrue
<1>0. ASSUME NEW s PROVE Tells(s) => FitsItsProject(s)
    BY DEF Tells, FitsTo, FitsItsProject
<1> SUFFICES ASSUME SitesInv, NEW s \in Existing, sites[s].repo \notin crossed, ~BusyRepo(sites[s].repo)
             PROVE  Tells(s)
    BY <1>0 DEF StatusIsTrue
<1> DEFINE r == sites[s].repo
<1>1. s \in 1..Len(sites) /\ sites \in Seq(Site) /\ sites[s] \in Site
    BY ElementOfSeq DEF Existing, SitesInv, SitesTyped
<1>2. r \in Repos \ crossed
    BY <1>1 DEF Site
<1>3. \A k \in Jobs : ~Concerns(job[k], r)
    BY DEF BusyRepo, Concerns, About, AboutOf, ListOps
<1>4. Truthful(r)
    BY <1>2 DEF SitesInv, Undisturbed
<1> QED
    BY <1>3, <1>4 DEF Truthful, TellsOf

LEMMA SitesStart == SiteBounds /\ SitesInit => SitesInv
<1> SUFFICES ASSUME SiteBounds, SitesInit PROVE SitesInv
    OBVIOUS
<1>1. NoJob \in JobRecord
  <2>1. <<>> \in Seq(Site)
    BY EmptySeq
  <2>2. [r \in Repos |-> "none"] \in Told
    BY DEF Told
  <2> QED
    BY <2>1, <2>2 DEF NoJob, JobRecord
<1>2. sites = <<>> /\ sites \in Seq(Site) /\ Len(sites) = 0
    BY EmptySeq DEF SitesInit
<1>3. \A k \in Jobs : job[k] = NoJob
    BY DEF SitesInit
<1>4. Existing = {}
    BY <1>2 DEF Existing
<1>5. Len(sites) <= MaxSites /\ 0 \in 0..MaxSiteOps /\ 0 \in 0..MaxSiteFaults
    BY <1>2, SiteBounds
<1>6. SitesTyped
    BY <1>1, <1>2, <1>5 DEF SitesInit, SitesTyped
<1>7. AboutOf(NoJob) = {} /\ JobFits(NoJob)
    BY <1>2 DEF AboutOf, NoJob, JobFits, SiteOps, ListOps
<1>8. \A r \in Repos : Undisturbed(r)
    BY <1>3, <1>4, <1>7 DEF Undisturbed, Alone, Truthful, TellsOf, Knows, Concerns
<1> QED
    BY <1>3, <1>4, <1>6, <1>7, <1>8 DEF SitesInv, OnePerRepo

(* What a step of an operation does: one job moves, the table grows at most   *)
(* by one site of a repository that has none, no site comes back.             *)
Grown ==
    /\ sites' \in Seq(Site) /\ Len(sites') \in {Len(sites), Len(sites) + 1} /\ Len(sites') <= MaxSites
    /\ \A s \in SiteIds : sites'[s].repo = sites[s].repo /\ (sites'[s].there => sites[s].there)
    /\ \A s \in 1..Len(sites') : s \notin SiteIds => ~PathTaken(sites'[s].repo)
OnlyMoves(j) ==
    /\ job' \in [Jobs -> JobRecord]
    /\ \A k \in Jobs : k # j => job'[k] = job[k]
    /\ JobFits(job[j])'
StoresTyped ==
    /\ cloned \subseteq Repos /\ ddev \in [Repos -> {"none", "running", "stopped"}]
    /\ crossed \subseteq Repos /\ unremoved \subseteq Repos
    /\ spentSite \in [ops : 0..MaxSiteOps, faults : 0..MaxSiteFaults]

(* A repository is out of its reach, or its job alone is about it. *)
Aside(r, j) ==
    /\ r \notin crossed
    /\ ~Concerns(job[j], r) /\ ~Concerns(job[j], r)'
    /\ ddev'[r] = ddev[r] /\ (r \in unremoved' <=> r \in unremoved)
    /\ \A s \in 1..Len(sites') : sites'[s].repo = r => s \in SiteIds /\ sites'[s] = sites[s]
Settled(r, j) ==
    /\ \A k \in Jobs : k # j => ~Concerns(job[k], r)
    /\ Knows(job[j], r)'
    /\ ~Concerns(job[j], r)' => TellsOf(r)'

(* What an operation knows is about sites that are in the table. *)
LEMMA AboutSites ==
    ASSUME SitesInv, NEW k \in Jobs
    PROVE  AboutOf(job[k]) \subseteq SiteIds
<1>1. job[k] \in JobRecord /\ JobFits(job[k]) /\ sites \in Seq(Site)
    BY DEF SitesInv, SitesTyped
<1>2. job[k].seen \in Seq(Site) /\ Len(sites) \in Nat /\ Len(job[k].seen) \in Nat
    BY <1>1, LenProperties DEF JobRecord
<1>3. CASE job[k].op \in ListOps
    BY <1>1, <1>2, <1>3 DEF AboutOf, JobFits, SiteIds
<1>4. CASE job[k].op \notin ListOps
    BY <1>1, <1>4 DEF AboutOf, JobFits
<1> QED
    BY <1>3, <1>4

LEMMA SitesMove ==
    ASSUME SitesInv, NEW j \in Jobs, OnlyMoves(j), Grown, StoresTyped',
           \A r \in Repos \ crossed' : Aside(r, j) \/ Settled(r, j)
    PROVE  SitesInv'
<1>1. Len(sites) \in Nat /\ Len(sites') \in Nat /\ Len(sites) <= Len(sites')
    BY LenProperties DEF SitesInv, SitesTyped, Grown
<1>2. SitesTyped'
    BY DEF OnlyMoves, Grown, StoresTyped, SitesTyped
<1>3. ASSUME NEW k \in Jobs, k # j
      PROVE  /\ AboutOf(job[k])' = AboutOf(job[k])
             /\ AboutOf(job[k]) \subseteq SiteIds
             /\ \A s \in AboutOf(job[k]) : sites'[s].repo = sites[s].repo
             /\ \A r : Concerns(job[k], r)' <=> Concerns(job[k], r)
    <2>1. job'[k] = job[k]
        BY <1>3 DEF OnlyMoves
    <2>2. AboutOf(job[k])' = AboutOf(job[k])
        BY <2>1 DEF AboutOf
    <2>3. AboutOf(job[k]) \subseteq SiteIds
        BY AboutSites
    <2>4. \A s \in AboutOf(job[k]) : sites'[s].repo = sites[s].repo
        BY <2>3 DEF Grown
    <2> QED
        BY <2>2, <2>3, <2>4 DEF Concerns
<1>4. ASSUME NEW k \in Jobs
      PROVE  JobFits(job[k])'
    <2>1. CASE k = j
        BY <2>1 DEF OnlyMoves
    <2>2. CASE k # j
      <3>1. job'[k] = job[k] /\ JobFits(job[k]) /\ job[k] \in JobRecord
        BY <2>2 DEF OnlyMoves, SitesInv, SitesTyped
      <3>2. job[k].seen \in Seq(Site)
        BY <3>1 DEF JobRecord
      <3>3. Len(job[k].seen) \in Nat
        BY <3>2, LenProperties
      <3>4. job[k].site \in SiteIds => job[k].site \in SiteIds' /\ sites'[job[k].site].repo = sites[job[k].site].repo
        BY <1>1 DEF SiteIds, Grown
      <3>5. Len(job[k].seen) <= Len(sites')
        BY <1>1, <3>1, <3>3 DEF JobFits
      <3> QED
        BY <3>1, <3>4, <3>5 DEF JobFits
    <2> QED
        BY <2>1, <2>2
<1>5. OnePerRepo'
    <2> SUFFICES ASSUME NEW s \in Existing', NEW q \in Existing', sites'[s].repo = sites'[q].repo
                 PROVE  s = q
        BY DEF OnePerRepo
    <2>1. s \in 1..Len(sites') /\ q \in 1..Len(sites') /\ sites'[s].there /\ sites'[q].there
        BY DEF Existing
    <2>2. \A x \in Existing' : x \in SiteIds => x \in Existing /\ sites'[x].repo = sites[x].repo
        BY DEF Existing, SiteIds, Grown
    <2>3. \A x \in Existing' : x \notin SiteIds => x = Len(sites) + 1 /\ ~PathTaken(sites'[x].repo)
        BY <1>1 DEF Existing, SiteIds, Grown
    <2>4. CASE s \in SiteIds /\ q \in SiteIds
        BY <2>2, <2>4 DEF SitesInv, OnePerRepo
    <2>5. CASE s \notin SiteIds /\ q \in SiteIds
        BY <2>2, <2>3, <2>5 DEF PathTaken
    <2>6. CASE s \in SiteIds /\ q \notin SiteIds
        BY <2>2, <2>3, <2>6 DEF PathTaken
    <2>7. CASE s \notin SiteIds /\ q \notin SiteIds
        BY <2>3, <2>7
    <2> QED
        BY <2>4, <2>5, <2>6, <2>7
<1>6. ASSUME NEW r \in Repos \ crossed', Aside(r, j)
      PROVE  Undisturbed(r)'
    <2>1. Undisturbed(r)
        BY <1>6 DEF Aside, SitesInv
    <2>2. Alone(r)'
        BY <1>3, <1>6, <2>1 DEF Aside, Undisturbed, Alone
    <2>3. Truthful(r)'
      <3> SUFFICES ASSUME \A k \in Jobs : ~Concerns(job[k], r)', NEW s \in Existing', sites'[s].repo = r
                   PROVE  Tells(s)'
        BY DEF Truthful, TellsOf
      <3>1. \A k \in Jobs : ~Concerns(job[k], r)
        BY <1>3, <1>6 DEF Aside
      <3>2. TellsOf(r)
        BY <2>1, <3>1 DEF Undisturbed, Truthful
      <3>3. /\ sites'[s] = sites[s] /\ s \in Existing /\ ddev'[r] = ddev[r]
            /\ r \in unremoved' <=> r \in unremoved
        BY <1>6 DEF Aside, Existing, SiteIds
      <3>4. Tells(s)
        BY <3>2, <3>3 DEF TellsOf
      <3> QED
        BY <3>3, <3>4 DEF Tells, FitsTo
    <2>4. ASSUME NEW k \in Jobs
          PROVE  Knows(job[k], r)'
      <3>1. CASE k = j
        BY <1>6, <3>1 DEF Aside, Knows, Concerns
      <3>2. CASE k # j
        <4> SUFFICES ASSUME NEW s \in AboutOf(job[k]), sites[s].repo = r
                     PROVE  /\ sites'[s].there
                            /\ job'[k].op \in ListOps => sites'[s] = job'[k].seen[s]
                            /\ job'[k].op = "describe" => ddev'[r] = "running"
                            /\ job'[k].op = "listed" => job'[k].told[r] = ddev'[r]
                            /\ job'[k].op = "delete" => FitsTo(sites'[s], ddev'[r], r \in unremoved')
                            /\ job'[k].op = "rm" => FitsTo(sites'[s], ddev'[r], TRUE)
            BY <1>3, <3>2 DEF Knows
        <4>1. s \in SiteIds /\ sites'[s].repo = r
            BY <1>3, <3>2
        <4>2. s \in 1..Len(sites')
            BY <1>1, <4>1 DEF SiteIds
        <4>3. /\ sites'[s] = sites[s] /\ ddev'[r] = ddev[r] /\ job'[k] = job[k]
              /\ r \in unremoved' <=> r \in unremoved
            BY <1>6, <3>2, <4>1, <4>2 DEF Aside, OnlyMoves
        <4>4. Knows(job[k], r)
            BY <2>1 DEF Undisturbed
        <4> QED
            BY <4>3, <4>4 DEF Knows, FitsTo
      <3> QED
        BY <3>1, <3>2
    <2> QED
        BY <2>2, <2>3, <2>4 DEF Undisturbed
<1>7. ASSUME NEW r \in Repos \ crossed', Settled(r, j)
      PROVE  Undisturbed(r)'
    <2>1. \A k \in Jobs : k # j => ~Concerns(job[k], r)'
        BY <1>3, <1>7 DEF Settled
    <2>2. Alone(r)'
        BY <2>1 DEF Alone
    <2>3. Truthful(r)'
        BY <1>7 DEF Settled, Truthful
    <2>4. \A k \in Jobs : k # j => Knows(job[k], r)'
        BY <2>1 DEF Knows, Concerns
    <2>5. Knows(job[j], r)'
        BY <1>7 DEF Settled
    <2> QED
        BY <2>2, <2>3, <2>4, <2>5 DEF Undisturbed
<1> QED
    BY <1>2, <1>4, <1>5, <1>6, <1>7 DEF SitesInv

-----------------------------------------------------------------------------
(* The job that moves, and the table it leaves. *)
LEMMA OneJobMoves ==
    ASSUME SitesInv, NEW j \in Jobs, NEW v \in JobRecord, Grown,
           job' = [job EXCEPT ![j] = v],
           v.op \in SiteOps => v.site \in 1..Len(sites') /\ v.repo = sites'[v.site].repo,
           v.op = "clone" => v.repo \in Repos,
           v.op \notin SiteOps => v.site = 0,
           Len(v.seen) <= Len(sites)
    PROVE  OnlyMoves(j) /\ job'[j] = v
<1>1. job \in [Jobs -> JobRecord]
    BY DEF SitesInv, SitesTyped
<1>2. job' \in [Jobs -> JobRecord] /\ job'[j] = v /\ \A k \in Jobs : k # j => job'[k] = job[k]
    BY <1>1
<1>3. v.seen \in Seq(Site) /\ sites \in Seq(Site)
    BY DEF JobRecord, SitesInv, SitesTyped
<1>4. Len(v.seen) \in Nat /\ Len(sites) \in Nat /\ Len(sites') \in Nat
    BY <1>3, LenProperties DEF Grown
<1>5. Len(v.seen) <= Len(sites')
    BY <1>4 DEF Grown
<1>6. JobFits(job[j])'
    BY <1>2, <1>5 DEF JobFits, SiteIds
<1> QED
    BY <1>2, <1>6 DEF OnlyMoves

LEMMA SameTable ==
    ASSUME SitesInv, UNCHANGED sites
    PROVE  Grown
<1>1. sites \in Seq(Site) /\ Len(sites) <= MaxSites
    BY DEF SitesInv, SitesTyped
<1> QED
    BY <1>1 DEF Grown, SiteIds

LEMMA RowChanges ==
    ASSUME SitesInv, NEW s \in SiteIds, NEW w \in Site,
           w.repo = sites[s].repo, w.there => sites[s].there,
           sites' = [sites EXCEPT ![s] = w]
    PROVE  /\ Grown /\ Len(sites') = Len(sites)
           /\ sites'[s] = w /\ \A q \in SiteIds : q # s => sites'[q] = sites[q]
<1>1. sites \in Seq(Site) /\ Len(sites) <= MaxSites /\ s \in 1..Len(sites)
    BY DEF SitesInv, SitesTyped, SiteIds
<1>2. sites' \in Seq(Site) /\ Len(sites') = Len(sites)
    BY <1>1, ExceptSeq
<1>3. sites'[s] = w /\ \A q \in 1..Len(sites) : q # s => sites'[q] = sites[q]
    BY <1>1, ExceptSeq
<1> QED
    BY <1>1, <1>2, <1>3 DEF Grown, SiteIds

(* The count of operations and failures. *)
LEMMA SpentTyped ==
    ASSUME SiteBounds, SitesInv,
           \/ \E j \in Jobs : SiteOperation(j)
           \/ SiteFault
           \/ UNCHANGED spentSite
    PROVE  spentSite' \in [ops : 0..MaxSiteOps, faults : 0..MaxSiteFaults]
<1>1. spentSite \in [ops : 0..MaxSiteOps, faults : 0..MaxSiteFaults] /\ {MaxSiteOps, MaxSiteFaults} \subseteq Nat
    BY SiteBounds DEF SitesInv, SitesTyped
<1>2. CASE \E j \in Jobs : SiteOperation(j)
  <2>1. spentSite.ops < MaxSiteOps /\ spentSite' = [spentSite EXCEPT !.ops = @ + 1]
    BY <1>2 DEF SiteOperation
  <2>2. spentSite.ops + 1 \in 0..MaxSiteOps
    BY <1>1, <2>1
  <2> QED
    BY <1>1, <2>1, <2>2
<1>3. CASE SiteFault
  <2>1. spentSite.faults < MaxSiteFaults /\ spentSite' = [spentSite EXCEPT !.faults = @ + 1]
    BY <1>3 DEF SiteFault
  <2>2. spentSite.faults + 1 \in 0..MaxSiteFaults
    BY <1>1, <2>1
  <2> QED
    BY <1>1, <2>1, <2>2
<1> QED
    BY <1>1, <1>2, <1>3

(* What is so of a job about one site. *)
LEMMA SiteJob ==
    ASSUME SitesInv, NEW j \in Jobs, job[j].op \in SiteOps
    PROVE  /\ job[j].site \in SiteIds /\ job[j].repo = sites[job[j].site].repo /\ job[j].repo \in Repos
           /\ sites[job[j].site] \in Site
           /\ AboutOf(job[j]) = {job[j].site}
           /\ \A r : Concerns(job[j], r) <=> r = job[j].repo
           /\ job[j].repo \notin crossed =>
                 /\ \A k \in Jobs : k # j => ~Concerns(job[k], job[j].repo)
                 /\ Knows(job[j], job[j].repo)
                 /\ job[j].site \in Existing
                 /\ \A q \in Existing : sites[q].repo = job[j].repo => q = job[j].site
<1> DEFINE s == job[j].site
           r0 == job[j].repo
<1>1. s \in SiteIds /\ r0 = sites[s].repo /\ sites \in Seq(Site)
    BY DEF SitesInv, SitesTyped, JobFits
<1>2. sites[s] \in Site
    BY <1>1, ElementOfSeq DEF SiteIds
<1>3. r0 \in Repos
    BY <1>1, <1>2 DEF Site
<1>4. s # 0 /\ job[j].op \notin ListOps
    BY <1>1, LenProperties DEF SiteIds, SiteOps, ListOps
<1>5. AboutOf(job[j]) = {s}
    BY <1>4 DEF AboutOf
<1>6. \A r : Concerns(job[j], r) <=> r = r0
    BY <1>1, <1>5 DEF Concerns
<1>7. ASSUME r0 \notin crossed
      PROVE  /\ \A k \in Jobs : k # j => ~Concerns(job[k], r0)
             /\ Knows(job[j], r0)
             /\ s \in Existing
             /\ \A q \in Existing : sites[q].repo = r0 => q = s
  <2>1. Alone(r0) /\ Knows(job[j], r0)
    BY <1>3, <1>7 DEF SitesInv, Undisturbed
  <2>2. sites[s].there
    BY <1>1, <1>5, <2>1 DEF Knows
  <2>3. s \in Existing
    BY <1>1, <2>2 DEF Existing, SiteIds
  <2> QED
    BY <1>1, <1>6, <2>1, <2>3 DEF Alone, SitesInv, OnePerRepo
<1> QED
    BY <1>1, <1>2, <1>3, <1>5, <1>6, <1>7

(* A step of a job about one site: its row may change, and the project of its *)
(* repository.                                                               *)
LEMMA SiteJobMoves ==
    ASSUME SitesInv, NEW j \in Jobs, job[j].op \in SiteOps,
           NEW v \in JobRecord, job' = [job EXCEPT ![j] = v],
           \/ v.op \in SiteOps /\ v.site = job[j].site /\ v.repo = job[j].repo
           \/ v.op = "none" /\ v.site = 0,
           Len(v.seen) <= Len(sites),
           NEW w \in Site, w.repo = job[j].repo, w.there => sites[job[j].site].there,
           sites' = [sites EXCEPT ![job[j].site] = w],
           StoresTyped', crossed \subseteq crossed',
           \A r \in Repos : r # job[j].repo => ddev'[r] = ddev[r] /\ (r \in unremoved' <=> r \in unremoved),
           job[j].repo \notin crossed' =>
               /\ v.op \in SiteOps =>
                     /\ w.there
                     /\ \/ v.op = "describe" /\ ddev'[job[j].repo] = "running"
                        \/ v.op = "rm" /\ FitsTo(w, ddev'[job[j].repo], TRUE)
               /\ v.op = "none" /\ w.there => FitsTo(w, ddev'[job[j].repo], job[j].repo \in unremoved')
    PROVE  SitesInv'
<1> DEFINE s == job[j].site
           r0 == job[j].repo
<1>1. /\ s \in SiteIds /\ r0 = sites[s].repo /\ r0 \in Repos
      /\ \A r : Concerns(job[j], r) <=> r = r0
      /\ r0 \notin crossed =>
            /\ \A k \in Jobs : k # j => ~Concerns(job[k], r0)
            /\ \A q \in Existing : sites[q].repo = r0 => q = s
    BY SiteJob
<1>2. /\ Grown /\ Len(sites') = Len(sites)
      /\ sites'[s] = w /\ \A q \in SiteIds : q # s => sites'[q] = sites[q]
  <2>1. /\ s \in SiteIds /\ w.repo = sites[s].repo /\ (w.there => sites[s].there)
        /\ sites' = [sites EXCEPT ![s] = w]
    BY <1>1
  <2> HIDE DEF s
  <2> QED
    BY <2>1, RowChanges
<1>3. SiteIds' = SiteIds /\ s \in Nat /\ s # 0
    BY <1>1, <1>2, LenProperties DEF SiteIds, SitesInv, SitesTyped
<1>4. OnlyMoves(j) /\ job'[j] = v
  <2>1. v.op \in SiteOps => v.site \in 1..Len(sites') /\ v.repo = sites'[v.site].repo
    BY <1>1, <1>2 DEF SiteIds, SiteOps
  <2>2. (v.op = "clone" => v.repo \in Repos) /\ (v.op \notin SiteOps => v.site = 0)
    BY DEF SiteOps
  <2> QED
    BY <1>2, <2>1, <2>2, OneJobMoves
<1>5. AboutOf(v) = IF v.op = "none" THEN {} ELSE {s}
    BY <1>3 DEF AboutOf, SiteOps, ListOps
<1>6. AboutOf(job[j])' = AboutOf(v)
    BY <1>4 DEF AboutOf
<1>7. ASSUME NEW r \in Repos \ crossed', r # r0
      PROVE  Aside(r, j)
  <2>1. ~Concerns(job[j], r) /\ ~Concerns(job[j], r)'
    <3>1. ~Concerns(job[j], r)
      BY <1>1, <1>7
    <3>2. ASSUME NEW q \in AboutOf(job[j])'
          PROVE  sites'[q].repo # r
      <4>1. q = s
        BY <1>5, <1>6, <3>2
      <4> QED
        BY <1>2, <1>7, <4>1
    <3> QED
      BY <3>1, <3>2 DEF Concerns
  <2>2. \A q \in 1..Len(sites') : sites'[q].repo = r => q \in SiteIds /\ sites'[q] = sites[q]
    BY <1>1, <1>2, <1>7 DEF SiteIds
  <2> QED
    BY <1>7, <2>1, <2>2 DEF Aside
<1>8. ASSUME NEW r \in Repos \ crossed', r = r0
      PROVE  Settled(r, j)
  <2>1. \A k \in Jobs : k # j => ~Concerns(job[k], r)
    BY <1>1, <1>8
  <2>2. ASSUME NEW q \in AboutOf(job[j])', sites'[q].repo = r
        PROVE  /\ sites'[q].there
               /\ job'[j].op \in ListOps => sites'[q] = job'[j].seen[q]
               /\ job'[j].op = "describe" => ddev'[r] = "running"
               /\ job'[j].op = "listed" => job'[j].told[r] = ddev'[r]
               /\ job'[j].op # "delete"
               /\ job'[j].op = "rm" => FitsTo(sites'[q], ddev'[r], TRUE)
    <3>1. q = s /\ v.op \in SiteOps
      BY <1>5, <1>6, <2>2
    <3>2. v.op \notin ListOps /\ v.op # "listed"
      BY <3>1 DEF SiteOps, ListOps
    <3> QED
      BY <1>2, <1>4, <1>8, <3>1, <3>2
  <2>3. ASSUME ~Concerns(job[j], r)', NEW q \in Existing', sites'[q].repo = r
        PROVE  Tells(q)'
    <3>1. v.op = "none"
      <4>1. CASE v.op = "none"
        BY <4>1
      <4>2. CASE v.op # "none"
        <5>1. s \in AboutOf(job[j])' /\ sites'[s].repo = r
          BY <1>2, <1>5, <1>6, <1>8, <4>2
        <5> QED
          BY <2>3, <5>1 DEF Concerns
      <4> QED
        BY <4>1, <4>2
    <3>2. q \in SiteIds /\ sites'[q].there
        BY <1>3, <2>3 DEF Existing, SiteIds
    <3>3. sites[q].repo = r /\ q \in Existing
        BY <1>2, <2>3, <3>2 DEF Grown, Existing, SiteIds
    <3>4. q = s
        BY <1>1, <1>8, <3>3
    <3> QED
        BY <1>2, <1>8, <3>1, <3>2, <3>4, <2>3 DEF Tells
  <2>4. Knows(job[j], r)'
    BY <2>2 DEF Knows
  <2> QED
    BY <2>1, <2>3, <2>4 DEF Settled, TellsOf
<1> QED
    BY <1>2, <1>4, <1>7, <1>8, SitesMove

(* A job about no site moves on to another. *)
LEMMA QuietJobMoves ==
    ASSUME SitesInv, NEW j \in Jobs, AboutOf(job[j]) = {},
           NEW v \in JobRecord, job' = [job EXCEPT ![j] = v],
           v.op \in {"none", "clone"}, v.site = 0, v.op = "clone" => v.repo \in Repos,
           Len(v.seen) <= Len(sites),
           UNCHANGED <<sites, ddev, crossed, unremoved>>, StoresTyped'
    PROVE  SitesInv'
<1>1. Grown
    BY SameTable
<1>2. OnlyMoves(j) /\ job'[j] = v
    BY <1>1, OneJobMoves DEF SiteOps
<1>3. AboutOf(job[j])' = {}
    BY <1>2 DEF AboutOf, ListOps
<1>4. \A r \in Repos \ crossed' : Aside(r, j)
    BY <1>3 DEF Aside, Concerns, SiteIds
<1> QED
    BY <1>1, <1>2, <1>4, SitesMove

(* A job that has ended knows nothing. *)
LEMMA NoJobTyped ==
    ASSUME SitesInv
    PROVE  /\ NoJob \in JobRecord /\ AboutOf(NoJob) = {}
           /\ NoJob.op = "none" /\ NoJob.site = 0 /\ Len(NoJob.seen) <= Len(sites)
<1>1. <<>> \in Seq(Site) /\ Len(<<>>) = 0
    BY EmptySeq
<1>2. [r \in Repos |-> "none"] \in Told
    BY DEF Told
<1>3. Len(sites) \in Nat
    BY LenProperties DEF SitesInv, SitesTyped
<1>4. NoJob \in JobRecord
    BY <1>1, <1>2 DEF NoJob, JobRecord
<1>5. AboutOf(NoJob) = {}
    BY DEF NoJob, AboutOf, ListOps
<1>6. NoJob.op = "none" /\ NoJob.site = 0 /\ NoJob.seen = <<>>
    BY DEF NoJob
<1>7. Len(NoJob.seen) <= Len(sites)
    BY <1>1, <1>3, <1>6
<1> QED
    BY <1>4, <1>5, <1>6, <1>7

(* A job about one site that goes on to its next step. *)
LEMMA NextOp ==
    ASSUME SitesInv, NEW j \in Jobs, NEW op \in SiteOps, job[j].op \in SiteOps
    PROVE  LET v == [job[j] EXCEPT !.op = op]
           IN  /\ v \in JobRecord /\ v.op = op /\ v.site = job[j].site /\ v.repo = job[j].repo
               /\ Len(v.seen) <= Len(sites)
<1>1. job[j] \in JobRecord /\ Len(job[j].seen) <= Len(sites)
    BY DEF SitesInv, SitesTyped, JobFits
<1> QED
    BY <1>1 DEF JobRecord

LEMMA StoresKept ==
    SitesInv => StoresTyped
BY DEF SitesInv, SitesTyped, StoresTyped

LEMMA SameRow ==
    ASSUME SitesInv, NEW s \in SiteIds
    PROVE  sites = [sites EXCEPT ![s] = sites[s]]
<1>1. sites \in [1..Len(sites) -> Site]
    BY LenProperties DEF SitesInv, SitesTyped
<1> QED
    BY <1>1 DEF SiteIds

LEMMA DdevStartsKeeps ==
    ASSUME SitesInv, NEW j \in Jobs, DdevStarts(j)
    PROVE  SitesInv'
<1> DEFINE v == [job[j] EXCEPT !.op = "describe"]
           w == sites[job[j].site]
<1>1. job[j].op \in SiteOps /\ "describe" \in SiteOps
    BY DEF DdevStarts, SiteOps
<1>2. /\ job[j].site \in SiteIds /\ job[j].repo = w.repo /\ job[j].repo \in Repos /\ w \in Site
      /\ job[j].repo \notin crossed => job[j].site \in Existing
    BY <1>1, SiteJob
<1>3. /\ v \in JobRecord /\ v.op = "describe" /\ v.site = job[j].site /\ v.repo = job[j].repo
      /\ Len(v.seen) <= Len(sites)
    BY <1>1, NextOp
<1>4. sites' = [sites EXCEPT ![job[j].site] = w]
    BY <1>2, SameRow DEF DdevStarts
<1>5. /\ job \in [Jobs -> JobRecord] /\ ddev \in [Repos -> {"none", "running", "stopped"}] /\ StoresTyped
    BY StoresKept DEF SitesInv, SitesTyped
<1>6. job' = [job EXCEPT ![j] = v] /\ UNCHANGED <<cloned, crossed, unremoved, spentSite>>
    BY <1>5 DEF DdevStarts, WaitFor
<1>7. ddev' = [ddev EXCEPT ![job[j].repo] = "running"]
    BY DEF DdevStarts
<1>8. StoresTyped'
    BY <1>5, <1>6, <1>7 DEF StoresTyped
<1>9. /\ ddev'[job[j].repo] = "running"
      /\ \A r \in Repos : r # job[j].repo => ddev'[r] = ddev[r]
      /\ job[j].repo \notin crossed' => w.there
    BY <1>2, <1>5, <1>6, <1>7 DEF Existing
<1> HIDE DEF v, w
<1>10. w.there => sites[job[j].site].there
    BY DEF w
<1> QED
    BY <1>1, <1>2, <1>3, <1>4, <1>6, <1>8, <1>9, <1>10, SiteJobMoves DEF SiteOps

(* A job about one site that ends and leaves its row as w. *)
LEMMA SiteJobEnds ==
    ASSUME SitesInv, NEW j \in Jobs, job[j].op \in SiteOps, JobEnds(j),
           NEW w \in Site, w.repo = job[j].repo, w.there => sites[job[j].site].there,
           sites' = [sites EXCEPT ![job[j].site] = w],
           StoresTyped', crossed \subseteq crossed',
           \A r \in Repos : r # job[j].repo => ddev'[r] = ddev[r] /\ (r \in unremoved' <=> r \in unremoved),
           job[j].repo \notin crossed' /\ w.there =>
               FitsTo(w, ddev'[job[j].repo], job[j].repo \in unremoved')
    PROVE  SitesInv'
<1>1. /\ NoJob \in JobRecord /\ NoJob.op = "none" /\ NoJob.site = 0 /\ Len(NoJob.seen) <= Len(sites)
    BY NoJobTyped
<1>2. job' = [job EXCEPT ![j] = NoJob] /\ NoJob.op \notin SiteOps
    BY <1>1 DEF JobEnds, SiteOps
<1> QED
    BY <1>1, <1>2, SiteJobMoves

LEMMA DescribedKeeps ==
    ASSUME SitesInv, NEW j \in Jobs, Described(j)
    PROVE  SitesInv'
<1> DEFINE s == job[j].site
           w == [sites[s] EXCEPT !.status = "running"]
<1>1. job[j].op \in SiteOps /\ job[j].op = "describe" /\ JobEnds(j) /\ UNCHANGED <<cloned, ddev, crossed, unremoved, spentSite>>
    BY DEF Described, SiteOps
<1>2. /\ s \in SiteIds /\ job[j].repo = sites[s].repo /\ job[j].repo \in Repos /\ sites[s] \in Site
      /\ AboutOf(job[j]) = {s}
      /\ job[j].repo \notin crossed => Knows(job[j], job[j].repo)
    BY <1>1, SiteJob
<1>3. w \in Site /\ w.repo = job[j].repo /\ w.there = sites[s].there /\ w.status = "running"
    BY <1>2 DEF Site, SiteStatuses
<1>4. sites' = [sites EXCEPT ![s] = w]
    BY <1>2 DEF Described, SetStatus, SitesInv, SitesTyped, SiteIds
<1>5. StoresTyped'
    BY <1>1, StoresKept DEF StoresTyped
<1>6. job[j].repo \notin crossed' => FitsTo(w, ddev'[job[j].repo], job[j].repo \in unremoved')
    BY <1>1, <1>2, <1>3 DEF Knows, FitsTo
<1> HIDE DEF w
<1> QED
    BY <1>1, <1>2, <1>3, <1>4, <1>5, <1>6, SiteJobEnds

LEMMA DdevStopsKeeps ==
    ASSUME SitesInv, NEW j \in Jobs, DdevStops(j)
    PROVE  SitesInv'
<1> DEFINE s == job[j].site
           w == [sites[s] EXCEPT !.status = "stopped"]
<1>1. job[j].op \in SiteOps /\ JobEnds(j) /\ UNCHANGED <<cloned, crossed, unremoved, spentSite>>
    BY DEF DdevStops, SiteOps
<1>2. s \in SiteIds /\ job[j].repo = sites[s].repo /\ job[j].repo \in Repos /\ sites[s] \in Site
    BY <1>1, SiteJob
<1>3. w \in Site /\ w.repo = job[j].repo /\ w.there = sites[s].there /\ w.status = "stopped"
    BY <1>2 DEF Site, SiteStatuses
<1>4. sites' = [sites EXCEPT ![s] = w]
    BY <1>2 DEF DdevStops, SetStatus, SitesInv, SitesTyped, SiteIds
<1>5. ddev \in [Repos -> {"none", "running", "stopped"}] /\ StoresTyped
    BY StoresKept DEF StoresTyped
<1>6. /\ ddev' \in [Repos -> {"none", "running", "stopped"}] /\ ddev'[job[j].repo] # "running"
      /\ \A r \in Repos : r # job[j].repo => ddev'[r] = ddev[r]
    BY <1>2, <1>5 DEF DdevStops
<1>7. StoresTyped'
    BY <1>1, <1>5, <1>6 DEF StoresTyped
<1>8. FitsTo(w, ddev'[job[j].repo], job[j].repo \in unremoved')
    BY <1>3, <1>6 DEF FitsTo
<1> HIDE DEF w
<1> QED
    BY <1>1, <1>2, <1>3, <1>4, <1>6, <1>7, <1>8, SiteJobEnds

LEMMA DdevFailsKeeps ==
    ASSUME SiteBounds, SitesInv, NEW j \in Jobs, DdevFails(j)
    PROVE  SitesInv'
<1> DEFINE s == job[j].site
           w == [sites[s] EXCEPT !.status = "error"]
<1>1. job[j].op \in SiteOps /\ JobEnds(j) /\ UNCHANGED <<cloned, ddev, crossed, unremoved>>
    BY DEF DdevFails, SiteOps
<1>2. s \in SiteIds /\ job[j].repo = sites[s].repo /\ job[j].repo \in Repos /\ sites[s] \in Site
    BY <1>1, SiteJob
<1>3. w \in Site /\ w.repo = job[j].repo /\ w.there = sites[s].there /\ w.status = "error"
    BY <1>2 DEF Site, SiteStatuses
<1>4. sites' = [sites EXCEPT ![s] = w]
    BY <1>2 DEF DdevFails, SetStatus, SitesInv, SitesTyped, SiteIds
<1>5. spentSite' \in [ops : 0..MaxSiteOps, faults : 0..MaxSiteFaults]
    BY SpentTyped DEF DdevFails
<1>6. StoresTyped'
    BY <1>1, <1>5, StoresKept DEF StoresTyped
<1>7. FitsTo(w, ddev'[job[j].repo], job[j].repo \in unremoved')
    BY <1>3 DEF FitsTo
<1> HIDE DEF w
<1> QED
    BY <1>1, <1>2, <1>3, <1>4, <1>6, <1>7, SiteJobEnds

LEMMA RemovalFailsKeeps ==
    ASSUME SiteBounds, SitesInv, NEW j \in Jobs, RemovalFails(j)
    PROVE  SitesInv'
<1> DEFINE s == job[j].site
           w == sites[s]
<1>1. job[j].op \in SiteOps /\ JobEnds(j) /\ job[j].op = "rm" /\ UNCHANGED <<sites, cloned, ddev, crossed>>
    BY DEF RemovalFails, SiteOps
<1>2. /\ s \in SiteIds /\ job[j].repo = w.repo /\ job[j].repo \in Repos /\ w \in Site
      /\ AboutOf(job[j]) = {s} /\ (job[j].repo \notin crossed => Knows(job[j], job[j].repo))
    BY <1>1, SiteJob
<1>3. sites' = [sites EXCEPT ![s] = w]
    BY <1>1, <1>2, SameRow
<1>4. unremoved' = unremoved \cup {job[j].repo}
    BY DEF RemovalFails
<1>5. spentSite' \in [ops : 0..MaxSiteOps, faults : 0..MaxSiteFaults]
    BY SpentTyped DEF RemovalFails
<1>6. StoresTyped'
    BY <1>1, <1>2, <1>4, <1>5, StoresKept DEF StoresTyped
<1>7. w.there => sites[job[j].site].there
    OBVIOUS
<1>8. job[j].repo \notin crossed' => FitsTo(w, ddev'[job[j].repo], job[j].repo \in unremoved')
  <2>1. job[j].repo \notin crossed => FitsTo(w, ddev[job[j].repo], TRUE)
    BY <1>1, <1>2 DEF Knows
  <2> QED
    BY <1>1, <1>4, <2>1 DEF FitsTo
<1> HIDE DEF w
<1> QED
    BY <1>1, <1>2, <1>3, <1>4, <1>6, <1>7, <1>8, SiteJobEnds

LEMMA CloneRemovedKeeps ==
    ASSUME SitesInv, NEW j \in Jobs, CloneRemoved(j)
    PROVE  SitesInv'
<1> DEFINE s == job[j].site
           w == [sites[s] EXCEPT !.there = FALSE]
<1>1. /\ job[j].op \in SiteOps /\ JobEnds(j) /\ UNCHANGED <<ddev, crossed, unremoved, spentSite>>
      /\ cloned' = cloned \ {job[j].repo}
    BY DEF CloneRemoved, SiteOps
<1>2. s \in SiteIds /\ job[j].repo = sites[s].repo /\ sites[s] \in Site
    BY <1>1, SiteJob
<1>3. w \in Site /\ w.repo = job[j].repo /\ ~w.there
    BY <1>2 DEF Site
<1>4. sites' = [sites EXCEPT ![s] = w]
    BY <1>2 DEF CloneRemoved, Gone, SitesInv, SitesTyped, SiteIds
<1>5. StoresTyped'
    BY <1>1, StoresKept DEF StoresTyped
<1> HIDE DEF w
<1> QED
    BY <1>1, <1>2, <1>3, <1>4, <1>5, SiteJobEnds

LEMMA DdevDeletesKeeps ==
    ASSUME SiteBounds, SitesInv, NEW j \in Jobs, DdevDeletes(j)
    PROVE  SitesInv'
<1>1. job[j].op \in SiteOps /\ UNCHANGED <<cloned, crossed, unremoved>> /\ "rm" \in SiteOps
    BY DEF DdevDeletes, SiteOps
<1>2. /\ job[j].site \in SiteIds /\ job[j].repo = sites[job[j].site].repo /\ job[j].repo \in Repos
      /\ sites[job[j].site] \in Site
      /\ AboutOf(job[j]) = {job[j].site}
      /\ job[j].repo \notin crossed => job[j].site \in Existing /\ Knows(job[j], job[j].repo)
    BY <1>1, SiteJob
<1>3. /\ ddev' \in [Repos -> {"none", "running", "stopped"}]
      /\ \A r \in Repos : r # job[j].repo => ddev'[r] = ddev[r]
  <2>1. ddev' = ddev \/ ddev' = [ddev EXCEPT ![job[j].repo] = "none"]
    BY DEF DdevDeletes
  <2>2. ddev \in [Repos -> {"none", "running", "stopped"}]
    BY DEF SitesInv, SitesTyped
  <2> QED
    BY <1>2, <2>1, <2>2
<1>4. spentSite' \in [ops : 0..MaxSiteOps, faults : 0..MaxSiteFaults]
  <2>1. SiteFault \/ UNCHANGED spentSite
    BY DEF DdevDeletes
  <2> QED
    BY <2>1, SpentTyped
<1>5. StoresTyped'
    BY <1>1, <1>3, <1>4, StoresKept DEF StoresTyped
<1>6. CASE job[j].keep
  <2> DEFINE w == [sites[job[j].site] EXCEPT !.there = FALSE]
  <2>1. w \in Site /\ w.repo = job[j].repo /\ ~w.there
    BY <1>2 DEF Site
  <2>2. sites' = [sites EXCEPT ![job[j].site] = w] /\ JobEnds(j)
    BY <1>2, <1>6 DEF DdevDeletes, Gone, SitesInv, SitesTyped, SiteIds
  <2> HIDE DEF w
  <2> QED
    BY <1>1, <1>3, <1>5, <2>1, <2>2, SiteJobEnds
<1>7. CASE ~job[j].keep
  <2> DEFINE v == [job[j] EXCEPT !.op = "rm"]
             w == sites[job[j].site]
  <2>1. /\ v \in JobRecord /\ v.op = "rm" /\ v.site = job[j].site /\ v.repo = job[j].repo
        /\ Len(v.seen) <= Len(sites)
    BY <1>1, NextOp
  <2>2. sites' = sites /\ WaitFor(j, "rm")
    BY <1>7 DEF DdevDeletes
  <2>3. sites' = [sites EXCEPT ![job[j].site] = w]
    BY <1>2, <2>2, SameRow
  <2>4. job' = [job EXCEPT ![j] = v]
    BY <2>2 DEF WaitFor, SitesInv, SitesTyped
  <2>5. /\ w \in Site /\ w.repo = job[j].repo /\ (w.there => sites[job[j].site].there)
        /\ job[j].repo \notin crossed => w.there
    BY <1>2 DEF Existing
  <2>6. job[j].repo \notin crossed => FitsTo(w, ddev'[job[j].repo], TRUE)
    <3>1. job[j].op = "delete" /\ ddev'[job[j].repo] \in {ddev[job[j].repo], "none"}
      BY <1>2 DEF DdevDeletes, SitesInv, SitesTyped
    <3>2. job[j].repo \notin crossed => FitsTo(w, ddev[job[j].repo], job[j].repo \in unremoved)
      BY <1>2, <3>1 DEF Knows
    <3> QED
      BY <3>1, <3>2 DEF FitsTo
  <2> HIDE DEF v, w
  <2> QED
    BY <1>1, <1>3, <1>5, <2>1, <2>3, <2>4, <2>5, <2>6, SiteJobMoves DEF SiteOps
<1> QED
    BY <1>6, <1>7

(* A clone concerns no site. *)
LEMMA CloneFailsKeeps ==
    ASSUME SiteBounds, SitesInv, NEW j \in Jobs, CloneFails(j)
    PROVE  SitesInv'
<1>1. job[j].op = "clone" /\ job' = [job EXCEPT ![j] = NoJob] /\ UNCHANGED <<sites, cloned, ddev, crossed, unremoved>>
    BY DEF CloneFails, JobEnds
<1>2. JobFits(job[j])
    BY DEF SitesInv
<1>3. AboutOf(job[j]) = {}
    BY <1>1, <1>2 DEF JobFits, AboutOf, SiteOps, ListOps
<1>4. spentSite' \in [ops : 0..MaxSiteOps, faults : 0..MaxSiteFaults]
    BY SpentTyped DEF CloneFails
<1>5. StoresTyped'
    BY <1>1, <1>4, StoresKept DEF StoresTyped
<1> QED
    BY <1>1, <1>3, <1>5, NoJobTyped, QuietJobMoves

LEMMA ProvisionKeeps ==
    ASSUME SiteBounds, SitesInv, NEW j \in Jobs, NEW r \in Repos, Provision(r, j)
    PROVE  SitesInv'
<1> DEFINE v == [NoJob EXCEPT !.op = "clone", !.repo = r]
<1>1. job[j] = NoJob /\ job' = [job EXCEPT ![j] = v] /\ UNCHANGED <<sites, cloned, ddev, crossed, unremoved>>
    BY DEF Provision, SiteOperation
<1>2. /\ NoJob \in JobRecord /\ AboutOf(NoJob) = {}
      /\ NoJob.op = "none" /\ NoJob.site = 0 /\ Len(NoJob.seen) <= Len(sites)
    BY NoJobTyped
<1>3. v \in JobRecord /\ v.op = "clone" /\ v.site = 0 /\ Len(v.seen) <= Len(sites)
    BY <1>2 DEF JobRecord
<1>4. spentSite' \in [ops : 0..MaxSiteOps, faults : 0..MaxSiteFaults]
    BY SpentTyped DEF Provision
<1>5. StoresTyped'
    BY <1>1, <1>4, StoresKept DEF StoresTyped
<1>6. AboutOf(job[j]) = {} /\ v.repo \in Repos
    BY <1>1, <1>2 DEF JobRecord
<1> HIDE DEF v
<1> QED
    BY <1>1, <1>3, <1>5, <1>6, QuietJobMoves

(* The new site has a repository that no other job is about. *)
LEMMA ClonedKeeps ==
    ASSUME SitesInv, NEW j \in Jobs, Cloned(j)
    PROVE  SitesInv'
<1> DEFINE r0 == job[j].repo
<1>1. job[j].op = "clone" /\ UNCHANGED <<ddev, crossed, unremoved, spentSite>>
    BY DEF Cloned
<1>2. JobFits(job[j]) /\ job[j] \in JobRecord /\ job \in [Jobs -> JobRecord]
    BY DEF SitesInv, SitesTyped
<1>3. AboutOf(job[j]) = {} /\ r0 \in Repos
    BY <1>1, <1>2 DEF JobFits, AboutOf, SiteOps, ListOps
<1>4. cloned' = cloned \/ cloned' = cloned \cup {r0}
    BY DEF Cloned
<1>5. StoresTyped'
    BY <1>1, <1>3, <1>4, StoresKept DEF StoresTyped
<1>6. CASE JobEnds(j) /\ UNCHANGED sites
  <2>1. job' = [job EXCEPT ![j] = NoJob]
    BY <1>6 DEF JobEnds
  <2> QED
    BY <1>1, <1>3, <1>5, <1>6, <2>1, NoJobTyped, QuietJobMoves
<1>7. CASE /\ ~PathTaken(r0)
           /\ Len(sites) < MaxSites
           /\ sites' = Append(sites, NewSite(r0))
           /\ job' = [job EXCEPT ![j] = [@ EXCEPT !.op = "start", !.site = Len(sites) + 1]]
  <2> DEFINE v == [job[j] EXCEPT !.op = "start", !.site = Len(sites) + 1]
             n == Len(sites) + 1
  <2>1. sites \in Seq(Site) /\ Len(sites) <= MaxSites /\ Len(sites) \in Nat
    BY LenProperties DEF SitesInv, SitesTyped
  <2>2. NewSite(r0) \in Site /\ NewSite(r0).repo = r0 /\ NewSite(r0).there /\ NewSite(r0).status = "starting"
    BY <1>3 DEF NewSite, Site, SiteStatuses
  <2>3. /\ sites' \in Seq(Site) /\ Len(sites') = n /\ sites'[n] = NewSite(r0)
        /\ \A s \in 1..Len(sites) : sites'[s] = sites[s]
    BY <1>7, <2>1, <2>2, AppendProperties
  <2>4. Len(sites') <= MaxSites /\ \A s \in 1..Len(sites') : s \notin SiteIds => s = n
    <3>1. MaxSites \in Int
      BY SiteBounds
    <3> QED
      BY <1>7, <2>1, <2>3, <3>1 DEF SiteIds
  <2>5. Grown
    BY <1>7, <2>1, <2>2, <2>3, <2>4 DEF Grown, SiteIds
  <2>6. /\ v \in JobRecord /\ v.op = "start" /\ v.site = n /\ v.repo = r0
        /\ Len(v.seen) <= Len(sites) /\ job' = [job EXCEPT ![j] = v]
    <3>1. n \in Nat /\ "start" \in SiteOps
      BY <2>1 DEF SiteOps
    <3>2. v \in JobRecord
      BY <1>2, <3>1 DEF JobRecord
    <3>3. v.op = "start" /\ v.site = n /\ v.repo = r0 /\ v.seen = job[j].seen
      BY <1>2 DEF JobRecord
    <3>4. job' = [job EXCEPT ![j] = v]
      BY <1>2, <1>7
    <3> HIDE DEF v
    <3> QED
      BY <1>2, <3>2, <3>3, <3>4 DEF JobFits
  <2> HIDE DEF v
  <2>7. OnlyMoves(j) /\ job'[j] = v
    <3>1. v.site \in 1..Len(sites') /\ v.repo = sites'[v.site].repo
      BY <2>1, <2>2, <2>3, <2>6
    <3> QED
      BY <2>5, <2>6, <3>1, OneJobMoves DEF SiteOps
  <2>8. AboutOf(job[j])' = {n}
    BY <2>1, <2>6, <2>7 DEF AboutOf, ListOps
  <2>9. ASSUME NEW r \in Repos \ crossed', r # r0
        PROVE  Aside(r, j)
    <3>1. ~Concerns(job[j], r)
      BY <1>3 DEF Concerns
    <3>2. ~Concerns(job[j], r)'
      BY <2>2, <2>3, <2>8, <2>9 DEF Concerns
    <3>3. \A s \in 1..Len(sites') : sites'[s].repo = r => s \in SiteIds /\ sites'[s] = sites[s]
      BY <2>2, <2>3, <2>4, <2>9 DEF SiteIds
    <3> QED
      BY <1>1, <2>9, <3>1, <3>2, <3>3 DEF Aside
  <2>10. ASSUME NEW r \in Repos \ crossed', r = r0
         PROVE  Settled(r, j)
    <3>1. ASSUME NEW k \in Jobs, NEW s \in AboutOf(job[k]), sites[s].repo = r
          PROVE  FALSE
      <4>1. Knows(job[k], r)
        BY <1>1, <2>10 DEF SitesInv, Undisturbed
      <4>2. s \in SiteIds /\ sites[s].there
        BY <3>1, <4>1, AboutSites DEF Knows
      <4> QED
        BY <1>7, <2>10, <3>1, <4>2 DEF PathTaken, Existing, SiteIds
    <3>2. \A k \in Jobs : ~Concerns(job[k], r)
      BY <3>1 DEF Concerns
    <3>3. ASSUME NEW q \in AboutOf(job[j])'
          PROVE  /\ sites'[q].there
                 /\ job'[j].op = "start"
      BY <2>2, <2>3, <2>6, <2>7, <2>8, <3>3
    <3>4. Knows(job[j], r)'
      BY <3>3 DEF Knows, ListOps
    <3>5. Concerns(job[j], r)'
      <4>1. n \in AboutOf(job[j])' /\ sites'[n].repo = r
        BY <2>2, <2>3, <2>8, <2>10
      <4> QED
        BY <4>1 DEF Concerns
    <3> QED
      BY <3>2, <3>4, <3>5 DEF Settled
  <2> QED
    BY <1>5, <2>5, <2>7, <2>9, <2>10, SitesMove
<1> QED
    BY <1>6, <1>7 DEF Cloned

(* An operation that begins is alone on its repository, or the repository is  *)
(* crossed from now on.                                                      *)
LEMMA BusyIfConcerned ==
    ASSUME SitesInv, NEW r, NEW k \in Jobs, Concerns(job[k], r)
    PROVE  BusyRepo(r)
BY DEF Concerns, BusyRepo, About, AboutOf, ListOps

LEMMA BeginKeeps ==
    ASSUME SiteBounds, SitesInv, NEW s \in Nat, NEW j \in Jobs,
           NEW op \in {"start", "stop", "delete"}, NEW keep \in BOOLEAN, Begin(s, j, op, keep)
    PROVE  SitesInv'
<1> DEFINE r0 == sites[s].repo
           v == [NoJob EXCEPT !.op = op, !.repo = r0, !.site = s, !.keep = keep]
           w == IF op = "start" THEN [sites[s] EXCEPT !.status = "starting"] ELSE sites[s]
<1>1. /\ job[j] = NoJob /\ s \in Existing /\ job' = [job EXCEPT ![j] = v]
      /\ UNCHANGED <<cloned, ddev, unremoved>>
    BY DEF Begin, SiteOperation
<1>2. /\ NoJob \in JobRecord /\ AboutOf(NoJob) = {} /\ Len(NoJob.seen) <= Len(sites)
    BY NoJobTyped
<1>3. s \in SiteIds /\ sites[s].there /\ sites \in Seq(Site) /\ sites[s] \in Site
    BY <1>1, ElementOfSeq DEF Existing, SiteIds, SitesInv, SitesTyped
<1>4. r0 \in Repos /\ s \in Nat /\ s # 0
    BY <1>3, LenProperties DEF Site, SiteIds
<1>5. w \in Site /\ w.repo = r0 /\ w.there /\ (op # "start" => w = sites[s])
    BY <1>3 DEF Site, SiteStatuses
<1>6. sites' = [sites EXCEPT ![s] = w]
    BY <1>3, SameRow DEF Begin, SetStatus, SiteIds
<1>7. /\ Grown /\ Len(sites') = Len(sites)
      /\ sites'[s] = w /\ \A q \in SiteIds : q # s => sites'[q] = sites[q]
    BY <1>3, <1>5, <1>6, RowChanges
<1>8. v \in JobRecord /\ v.op = op /\ v.site = s /\ v.repo = r0 /\ v.seen = NoJob.seen
    BY <1>2, <1>4 DEF JobRecord, SiteOps
<1> HIDE DEF v, w
<1>9. OnlyMoves(j) /\ job'[j] = v
  <2>1. v.op \in SiteOps /\ v.op # "clone"
    BY <1>8 DEF SiteOps
  <2>2. v.site \in 1..Len(sites') /\ v.repo = sites'[v.site].repo
    BY <1>3, <1>5, <1>7, <1>8 DEF SiteIds
  <2> QED
    BY <1>1, <1>2, <1>7, <1>8, <2>1, <2>2, OneJobMoves
<1>10. AboutOf(job[j])' = {s}
    BY <1>4, <1>8, <1>9 DEF AboutOf, ListOps
<1>11. crossed' = IF BusyRepo(r0) THEN crossed \cup {r0} ELSE crossed
    BY DEF Begin
<1>12. StoresTyped'
  <2>1. spentSite' \in [ops : 0..MaxSiteOps, faults : 0..MaxSiteFaults]
    BY SpentTyped DEF Begin
  <2> QED
    BY <1>1, <1>4, <1>11, <2>1, StoresKept DEF StoresTyped
<1>13. ASSUME NEW r \in Repos \ crossed', r # r0
       PROVE  Aside(r, j)
  <2>1. ~Concerns(job[j], r)
    BY <1>1, <1>2 DEF Concerns
  <2>2. ~Concerns(job[j], r)'
    BY <1>5, <1>7, <1>10, <1>13 DEF Concerns
  <2>3. \A q \in 1..Len(sites') : sites'[q].repo = r => q \in SiteIds /\ sites'[q] = sites[q]
    BY <1>5, <1>7, <1>13 DEF SiteIds
  <2> QED
    BY <1>1, <1>11, <1>13, <2>1, <2>2, <2>3 DEF Aside
<1>14. ASSUME NEW r \in Repos \ crossed', r = r0
       PROVE  Settled(r, j)
  <2>1. ~BusyRepo(r)
    BY <1>11, <1>14
  <2>2. \A k \in Jobs : ~Concerns(job[k], r)
    BY <2>1, BusyIfConcerned
  <2>3. Knows(job[j], r)'
    <3>1. Tells(s)
      BY <1>1, <1>11, <1>14, <2>2 DEF SitesInv, Undisturbed, Truthful, TellsOf
    <3>2. op = "delete" => FitsTo(sites'[s], ddev'[r], r \in unremoved')
      BY <1>1, <1>5, <1>7, <1>14, <3>1 DEF Tells
    <3> QED
      BY <1>5, <1>7, <1>8, <1>9, <1>10, <3>2 DEF Knows, ListOps
  <2>4. Concerns(job[j], r)'
    <3>1. s \in AboutOf(job[j])' /\ sites'[s].repo = r
      BY <1>5, <1>7, <1>10, <1>14
    <3> QED
      BY <3>1 DEF Concerns
  <2> QED
    BY <2>2, <2>3, <2>4 DEF Settled
<1> QED
    BY <1>7, <1>9, <1>12, <1>13, <1>14, SitesMove

(* A syncAll saw every site of a repository that no other operation is about. *)
LEMMA SyncAllKeeps ==
    ASSUME SiteBounds, SitesInv, NEW j \in Jobs, SyncAll(j)
    PROVE  SitesInv'
<1> DEFINE v == [NoJob EXCEPT !.op = "list", !.seen = sites]
<1>1. job[j] = NoJob /\ job' = [job EXCEPT ![j] = v] /\ UNCHANGED <<sites, cloned, ddev>>
    BY DEF SyncAll, SiteOperation
<1>2. NoJob \in JobRecord /\ NoJob.site = 0
    BY NoJobTyped
<1>3. sites \in Seq(Site) /\ Len(sites) \in Nat
    BY LenProperties DEF SitesInv, SitesTyped
<1>4. v \in JobRecord /\ v.op = "list" /\ v.site = 0 /\ v.seen = sites
    BY <1>2, <1>3 DEF JobRecord, ListOps
<1> HIDE DEF v
<1>5. Grown
    BY <1>1, SameTable
<1>6. OnlyMoves(j) /\ job'[j] = v
  <2>1. Len(v.seen) <= Len(sites) /\ v.op \notin SiteOps /\ v.op # "clone"
    BY <1>3, <1>4 DEF SiteOps
  <2> QED
    BY <1>1, <1>4, <1>5, <2>1, OneJobMoves
<1>7. AboutOf(job[j])' = Existing
    BY <1>4, <1>6 DEF AboutOf, ListOps, Existing
<1>8. crossed' = {r \in Repos : BusyRepo(r)} /\ unremoved' = {}
    BY DEF SyncAll
<1>9. StoresTyped'
  <2>1. spentSite' \in [ops : 0..MaxSiteOps, faults : 0..MaxSiteFaults]
    BY SpentTyped DEF SyncAll
  <2> QED
    BY <1>1, <1>8, <2>1, StoresKept DEF StoresTyped
<1>10. ASSUME NEW r \in Repos \ crossed'
       PROVE  Settled(r, j)
  <2>1. \A k \in Jobs : ~Concerns(job[k], r)
    BY <1>8, BusyIfConcerned
  <2>2. Knows(job[j], r)'
    <3>1. \A q \in AboutOf(job[j])' : sites'[q].there /\ sites'[q] = job'[j].seen[q]
      BY <1>1, <1>4, <1>6, <1>7 DEF Existing
    <3>2. job'[j].op = "list"
      BY <1>4, <1>6
    <3> QED
      BY <3>1, <3>2 DEF Knows
  <2>3. ASSUME ~Concerns(job[j], r)', NEW q \in Existing', sites'[q].repo = r
        PROVE  FALSE
    <3>1. q \in AboutOf(job[j])'
      BY <1>1, <1>7, <2>3 DEF Existing
    <3> QED
      BY <2>3, <3>1 DEF Concerns
  <2> QED
    BY <2>1, <2>2, <2>3 DEF Settled, TellsOf
<1> QED
    BY <1>5, <1>6, <1>9, <1>10, SitesMove

(* No other operation starts a project that this one alone is about. *)
LEMMA DdevListedKeeps ==
    ASSUME SitesInv, NEW j \in Jobs, DdevListed(j)
    PROVE  SitesInv'
<1>1. job[j].op = "list" /\ UNCHANGED <<sites, cloned, ddev, crossed, unremoved, spentSite>>
    BY DEF DdevListed
<1>2. PICK starting \in SUBSET {job[k].repo : k \in {i \in Jobs : job[i].op = "start"}} :
          job' = [job EXCEPT ![j] =
                    [@ EXCEPT !.op = "listed",
                              !.told = [r \in Repos |-> IF r \in starting THEN "starting" ELSE ddev[r]]]]
    BY DEF DdevListed
<1> DEFINE told == [r \in Repos |-> IF r \in starting THEN "starting" ELSE ddev[r]]
           v == [job[j] EXCEPT !.op = "listed", !.told = told]
<1>3. job[j] \in JobRecord /\ JobFits(job[j]) /\ job \in [Jobs -> JobRecord]
    BY DEF SitesInv, SitesTyped
<1>4. told \in Told /\ \A r \in Repos \ starting : told[r] = ddev[r]
    BY DEF SitesInv, SitesTyped, Told
<1> HIDE DEF told
<1>5. /\ v \in JobRecord /\ v.op = "listed" /\ v.site = job[j].site
      /\ v.seen = job[j].seen /\ v.told = told
    BY <1>3, <1>4 DEF JobRecord, ListOps
<1>6. job' = [job EXCEPT ![j] = v]
    BY <1>2, <1>3 DEF told
<1> HIDE DEF v
<1>7. Grown
    BY <1>1, SameTable
<1>8. OnlyMoves(j) /\ job'[j] = v
  <2>1. v.site = 0 /\ Len(v.seen) <= Len(sites)
    BY <1>1, <1>3, <1>5 DEF JobFits, SiteOps
  <2> QED
    BY <1>5, <1>6, <1>7, <2>1, OneJobMoves DEF SiteOps
<1>9. AboutOf(job[j])' = AboutOf(job[j])
    BY <1>1, <1>5, <1>8 DEF AboutOf, ListOps
<1>10. \A r : Concerns(job[j], r)' <=> Concerns(job[j], r)
    BY <1>1, <1>9 DEF Concerns
<1>11. StoresTyped'
    BY <1>1, StoresKept DEF StoresTyped
<1>12. ASSUME NEW r \in Repos \ crossed', ~Concerns(job[j], r)
       PROVE  Aside(r, j)
    BY <1>1, <1>10, <1>12 DEF Aside, SiteIds
<1>13. ASSUME NEW r \in Repos \ crossed', Concerns(job[j], r)
       PROVE  Settled(r, j)
  <2>1. Alone(r) /\ Knows(job[j], r)
    BY <1>1, <1>13 DEF SitesInv, Undisturbed
  <2>2. \A k \in Jobs : k # j => ~Concerns(job[k], r)
    BY <1>13, <2>1 DEF Alone
  <2>3. r \notin starting
    <3> SUFFICES ASSUME NEW k \in Jobs, job[k].op = "start", job[k].repo = r
                 PROVE  FALSE
        BY <1>2
    <3>1. Concerns(job[k], r)
      BY SiteJob DEF SiteOps
    <3> QED
      BY <1>1, <2>2, <3>1
  <2>4. told[r] = ddev[r]
    BY <1>4, <2>3
  <2>5. ASSUME NEW q \in AboutOf(job[j])', sites'[q].repo = r
        PROVE  /\ sites'[q].there
               /\ sites'[q] = job'[j].seen[q]
               /\ job'[j].op = "listed" /\ job'[j].told[r] = ddev'[r]
    <3>1. q \in AboutOf(job[j]) /\ sites[q].repo = r
      BY <1>1, <1>9, <2>5
    <3>2. sites[q].there /\ sites[q] = job[j].seen[q]
      BY <1>1, <2>1, <3>1 DEF Knows, ListOps
    <3> QED
      BY <1>1, <1>5, <1>8, <2>4, <3>2
  <2>6. Knows(job[j], r)'
    BY <2>5 DEF Knows
  <2> QED
    BY <1>10, <1>13, <2>2, <2>6 DEF Settled
<1> QED
    BY <1>7, <1>8, <1>11, <1>12, <1>13, SitesMove

LEMMA ListFailsKeeps ==
    ASSUME SiteBounds, SitesInv, NEW j \in Jobs, ListFails(j)
    PROVE  SitesInv'
<1>1. /\ job[j].op = "list" /\ job' = [job EXCEPT ![j] = NoJob] /\ UNCHANGED <<sites, cloned, ddev, unremoved>>
      /\ crossed' = crossed \cup {r \in Repos : BusyRepo(r)}
    BY DEF ListFails, JobEnds
<1>2. Grown
    BY <1>1, SameTable
<1>3. OnlyMoves(j) /\ job'[j] = NoJob
    BY <1>1, <1>2, NoJobTyped, OneJobMoves DEF SiteOps
<1>4. AboutOf(job[j])' = {}
    BY <1>3, NoJobTyped DEF AboutOf
<1>5. StoresTyped'
  <2>1. spentSite' \in [ops : 0..MaxSiteOps, faults : 0..MaxSiteFaults]
    BY SpentTyped DEF ListFails
  <2> QED
    BY <1>1, <2>1, StoresKept DEF StoresTyped
<1>6. ASSUME NEW r \in Repos \ crossed'
      PROVE  Aside(r, j)
  <2>1. ~Concerns(job[j], r)
    BY <1>1, BusyIfConcerned
  <2>2. ~Concerns(job[j], r)'
    BY <1>4 DEF Concerns
  <2> QED
    BY <1>1, <2>1, <2>2 DEF Aside, SiteIds
<1> QED
    BY <1>2, <1>3, <1>5, <1>6, SitesMove

(* What was listed of a site that nothing else is about is still so. *)
LEMMA SyncedKeeps ==
    ASSUME SitesInv, NEW j \in Jobs, Synced(j)
    PROVE  SitesInv'
<1> DEFINE new(s) == NewStatus(job[j].told[sites[s].repo])
<1>1. /\ job[j].op = "listed" /\ job' = [job EXCEPT ![j] = NoJob]
      /\ UNCHANGED <<cloned, ddev, crossed, unremoved, spentSite>>
    BY DEF Synced, JobEnds
<1>2. /\ sites \in [1..Len(sites) -> Site] /\ Len(sites) \in Nat /\ sites \in Seq(Site)
      /\ Len(sites) <= MaxSites /\ SiteIds = 1..Len(sites)
    BY LenProperties DEF SitesInv, SitesTyped, SiteIds
<1>3. About(j) = AboutOf(job[j]) /\ AboutOf(job[j]) \subseteq SiteIds
    BY AboutSites DEF About, AboutOf, ListOps
<1>4. job[j] \in JobRecord
    BY DEF SitesInv, SitesTyped
<1>5. ASSUME NEW s \in SiteIds
      PROVE  new(s) \in SiteStatuses
  <2>1. sites[s] \in Site
    BY <1>2
  <2>2. job[j].told[sites[s].repo] \in {"none", "running", "stopped", "starting"}
    BY <1>4, <2>1 DEF JobRecord, Told, Site
  <2> QED
    BY <2>2 DEF NewStatus, SiteStatuses
<1>6. sites' = [s \in 1..Len(sites) |->
                 IF s \in AboutOf(job[j])
                 THEN IF new(s) # job[j].seen[s].status THEN [sites[s] EXCEPT !.status = new(s)] ELSE sites[s]
                 ELSE sites[s]]
    BY <1>3 DEF Synced
<1> HIDE DEF new
<1>7. ASSUME NEW s \in SiteIds
      PROVE  /\ sites'[s] \in Site
             /\ sites'[s].repo = sites[s].repo /\ sites'[s].there = sites[s].there
             /\ s \notin AboutOf(job[j]) => sites'[s] = sites[s]
             /\ s \in AboutOf(job[j]) /\ sites[s] = job[j].seen[s] => sites'[s].status = new(s)
  <2>1. sites[s] \in Site /\ new(s) \in SiteStatuses
    BY <1>2, <1>5
  <2>2. \/ sites'[s] = [sites[s] EXCEPT !.status = new(s)]
        \/ /\ sites'[s] = sites[s]
           /\ s \in AboutOf(job[j]) => new(s) = job[j].seen[s].status
    BY <1>2, <1>6
  <2>3. s \notin AboutOf(job[j]) => sites'[s] = sites[s]
    BY <1>2, <1>6
  <2> QED
    BY <2>1, <2>2, <2>3 DEF Site
<1>8. sites' \in Seq(Site) /\ Len(sites') = Len(sites)
  <2>1. sites' \in [1..Len(sites) -> Site]
    BY <1>2, <1>6, <1>7
  <2>2. sites' \in Seq(Site)
    BY <1>2, <2>1
  <2> QED
    BY <1>2, <2>1, <2>2, LenProperties
<1>9. Grown
    BY <1>2, <1>7, <1>8 DEF Grown
<1>10. OnlyMoves(j) /\ job'[j] = NoJob
    BY <1>1, <1>9, NoJobTyped, OneJobMoves DEF SiteOps
<1>11. AboutOf(job[j])' = {}
    BY <1>10, NoJobTyped DEF AboutOf
<1>12. StoresTyped'
    BY <1>1, StoresKept DEF StoresTyped
<1>13. ASSUME NEW r \in Repos \ crossed', ~Concerns(job[j], r)
       PROVE  Aside(r, j)
  <2>1. ~Concerns(job[j], r)'
    BY <1>11 DEF Concerns
  <2>2. \A s \in 1..Len(sites') : sites'[s].repo = r => s \in SiteIds /\ sites'[s] = sites[s]
    BY <1>2, <1>7, <1>8, <1>13 DEF Concerns
  <2> QED
    BY <1>1, <1>13, <2>1, <2>2 DEF Aside
<1>14. ASSUME NEW r \in Repos \ crossed', Concerns(job[j], r)
       PROVE  Settled(r, j)
  <2>1. Alone(r) /\ Knows(job[j], r)
    BY <1>1, <1>14 DEF SitesInv, Undisturbed
  <2>2. \A k \in Jobs : k # j => ~Concerns(job[k], r)
    BY <1>14, <2>1 DEF Alone
  <2>3. Knows(job[j], r)'
    BY <1>11 DEF Knows
  <2>4. PICK s \in AboutOf(job[j]) : sites[s].repo = r
    BY <1>14 DEF Concerns
  <2>5. s \in SiteIds /\ sites[s].there /\ sites[s] = job[j].seen[s] /\ job[j].told[r] = ddev[r]
    BY <1>1, <1>3, <2>1, <2>4 DEF Knows, ListOps
  <2>6. sites'[s].status = NewStatus(ddev[r]) /\ sites'[s].repo = r
    BY <1>7, <2>4, <2>5 DEF new
  <2>7. ddev[r] \in {"none", "running", "stopped"}
    BY DEF SitesInv, SitesTyped
  <2>8. ASSUME NEW q \in Existing', sites'[q].repo = r
        PROVE  Tells(q)'
    <3>1. q \in Existing /\ s \in Existing /\ sites[q].repo = r
      BY <1>2, <1>7, <1>8, <2>5, <2>8 DEF Existing
    <3>2. q = s
      BY <2>4, <3>1 DEF SitesInv, OnePerRepo
    <3> QED
      BY <1>1, <2>6, <2>7, <3>2 DEF Tells, FitsTo, NewStatus
  <2> QED
    BY <2>2, <2>3, <2>8 DEF Settled, TellsOf
<1> QED
    BY <1>9, <1>10, <1>12, <1>13, <1>14, SitesMove

(* The project of one repository changes, which is crossed from now on. *)
LEMMA DdevElsewhereKeeps ==
    ASSUME SiteBounds, SitesInv, NEW r \in Repos, DdevElsewhere(r)
    PROVE  SitesInv'
<1>1. UNCHANGED <<sites, cloned, job, unremoved>> /\ crossed' = crossed \cup {r}
    BY DEF DdevElsewhere
<1>2. /\ ddev' \in [Repos -> {"none", "running", "stopped"}]
      /\ \A q \in Repos : q # r => ddev'[q] = ddev[q]
  <2>1. PICK s \in {"running", "stopped"} : ddev' = [ddev EXCEPT ![r] = s]
    BY DEF DdevElsewhere
  <2> QED
    BY <2>1 DEF SitesInv, SitesTyped
<1>3. spentSite' \in [ops : 0..MaxSiteOps, faults : 0..MaxSiteFaults]
  <2>1. SiteFault
    BY DEF DdevElsewhere, SiteFault
  <2> QED
    BY <2>1, SpentTyped
<1>4. SitesTyped'
    BY <1>1, <1>2, <1>3 DEF SitesInv, SitesTyped
<1>5. (\A k \in Jobs : JobFits(job[k])') /\ OnePerRepo'
    BY <1>1 DEF SitesInv, JobFits, SiteIds, OnePerRepo, Existing
<1>6. ASSUME NEW q \in Repos \ crossed'
      PROVE  Undisturbed(q)'
  <2>1. Undisturbed(q) /\ ddev'[q] = ddev[q]
    BY <1>1, <1>2 DEF SitesInv
  <2>2. \A k \in Jobs : AboutOf(job[k])' = AboutOf(job[k]) /\ (Concerns(job[k], q)' <=> Concerns(job[k], q))
    BY <1>1 DEF AboutOf, Concerns
  <2>3. Alone(q)'
    BY <2>1, <2>2 DEF Undisturbed, Alone
  <2>4. \A k \in Jobs : Knows(job[k], q)'
    BY <1>1, <2>1, <2>2 DEF Undisturbed, Knows
  <2>5. Truthful(q)'
    <3>1. TellsOf(q) => TellsOf(q)'
      BY <1>1, <2>1 DEF TellsOf, Tells, Existing
    <3> QED
      BY <2>1, <2>2, <3>1 DEF Undisturbed, Truthful
  <2> QED
    BY <2>3, <2>4, <2>5 DEF Undisturbed
<1> QED
    BY <1>4, <1>5, <1>6 DEF SitesInv

(* What a stop of the sidecar cuts short leaves a repository crossed, too. *)
LEMMA SidecarLeavesKeeps ==
    ASSUME SiteBounds, SitesInv, SidecarLeaves
    PROVE  SitesInv'
<1>1. /\ UNCHANGED <<sites, unremoved>> /\ job' = [j \in Jobs |-> NoJob]
      /\ crossed' = crossed \cup {r \in Repos : BusyRepo(r)}
      /\ ddev' \in [Repos -> {"none", "running", "stopped"}]
      /\ \A r \in Repos : ddev'[r] \in Outcomes(r)
    BY DEF SidecarLeaves
<1>2. /\ NoJob \in JobRecord /\ AboutOf(NoJob) = {}
      /\ NoJob.op = "none" /\ NoJob.site = 0 /\ Len(NoJob.seen) <= Len(sites)
    BY NoJobTyped
<1>3. \A k \in Jobs : job'[k] = NoJob
    BY <1>1
<1>4. cloned' \subseteq Repos
  <2>1. PICK done \in SUBSET InFlight("clone"), gone \in SUBSET InFlight("rm") : cloned' = (cloned \cup done) \ gone
    BY DEF SidecarLeaves
  <2>2. InFlight("clone") \subseteq Repos
    BY DEF InFlight, SitesInv, JobFits
  <2> QED
    BY <2>1, <2>2 DEF SitesInv, SitesTyped
<1>5. spentSite' \in [ops : 0..MaxSiteOps, faults : 0..MaxSiteFaults]
    BY SpentTyped DEF SidecarLeaves
<1>6. SitesTyped'
    BY <1>1, <1>2, <1>4, <1>5 DEF SitesInv, SitesTyped
<1>7. (\A k \in Jobs : JobFits(job[k])') /\ OnePerRepo'
    BY <1>1, <1>2, <1>3 DEF SitesInv, JobFits, SiteIds, OnePerRepo, Existing, SiteOps
<1>8. ASSUME NEW q \in Repos \ crossed'
      PROVE  Undisturbed(q)'
  <2>1. ~BusyRepo(q) /\ Undisturbed(q)
    BY <1>1 DEF SitesInv
  <2>2. \A k \in Jobs : ~Concerns(job[k], q)
    BY <2>1, BusyIfConcerned
  <2>3. ddev'[q] = ddev[q]
    BY <1>1, <2>1 DEF Outcomes, InFlight, BusyRepo
  <2>4. \A k \in Jobs : AboutOf(job[k])' = {}
    BY <1>2, <1>3 DEF AboutOf
  <2>5. Alone(q)' /\ \A k \in Jobs : Knows(job[k], q)'
    BY <2>4 DEF Alone, Knows, Concerns
  <2>6. TellsOf(q)'
    BY <1>1, <2>1, <2>2, <2>3 DEF Undisturbed, Truthful, TellsOf, Tells, Existing
  <2> QED
    BY <2>5, <2>6 DEF Undisturbed, Truthful
<1> QED
    BY <1>6, <1>7, <1>8 DEF SitesInv

LEMMA SitesStep ==
    ASSUME SiteBounds, SitesInv, [SitesNext]_siteVars
    PROVE  SitesInv'
<1>1. CASE UNCHANGED siteVars
  <2>1. UNCHANGED <<sites, cloned, ddev, job, crossed, unremoved, spentSite>>
    BY <1>1 DEF siteVars
  <2>2. SitesTyped' /\ (\A k \in Jobs : JobFits(job[k])') /\ OnePerRepo'
    BY <2>1 DEF SitesInv, SitesTyped, JobFits, SiteIds, OnePerRepo, Existing
  <2>3. ASSUME NEW r \in Repos \ crossed
        PROVE  Undisturbed(r)'
    <3>1. Undisturbed(r)
      BY DEF SitesInv
    <3>2. \A k : Concerns(job[k], r)' <=> Concerns(job[k], r)
      BY <2>1 DEF Concerns, AboutOf
    <3>3. Alone(r)'
      BY <3>1, <3>2 DEF Undisturbed, Alone
    <3>4. \A s : Tells(s)' <=> Tells(s)
      BY <2>1 DEF Tells
    <3>5. TellsOf(r)' <=> TellsOf(r)
      BY <2>1, <3>4 DEF TellsOf, Existing
    <3>6. Truthful(r)'
      BY <3>1, <3>2, <3>5 DEF Undisturbed, Truthful
    <3>7. \A k \in Jobs : Knows(job[k], r)'
      BY <2>1, <3>1 DEF Undisturbed, Knows, AboutOf
    <3> QED
      BY <3>3, <3>6, <3>7 DEF Undisturbed
  <2> QED
    BY <2>1, <2>2, <2>3 DEF SitesInv
<1>2. ASSUME NEW j \in Jobs, JobMoves(j) \/ SyncAll(j)
      PROVE  SitesInv'
    BY <1>2, ClonedKeeps, CloneFailsKeeps, DdevStartsKeeps, DescribedKeeps, DdevStopsKeeps, DdevFailsKeeps,
       DdevDeletesKeeps, CloneRemovedKeeps, RemovalFailsKeeps, DdevListedKeeps, SyncedKeeps, ListFailsKeeps,
       SyncAllKeeps DEF JobMoves
<1>3. ASSUME NEW s \in 1..MaxSites, NEW j \in Jobs, StartSite(s, j) \/ StopSite(s, j) \/ RemoveSite(s, j)
      PROVE  SitesInv'
  <2>1. PICK op \in {"start", "stop", "delete"}, keep \in BOOLEAN : Begin(s, j, op, keep)
    BY <1>3 DEF StartSite, StopSite, RemoveSite
  <2>2. s \in Nat
    BY SiteBounds
  <2> QED
    BY <2>1, <2>2, BeginKeeps
<1> QED
    BY <1>1, <1>2, <1>3, ProvisionKeeps, DdevElsewhereKeeps, SidecarLeavesKeeps DEF SitesNext

(* Types of the local site manager's state. *)
THEOREM SitesTypeCorrect == SitesSpec => []SitesTypeOK
<1>1. SitesInv /\ [SitesNext]_siteVars => SitesInv'
    BY SiteBounds, SitesStep
<1>2. SitesInit => SitesInv
    BY SiteBounds, SitesStart
<1> QED
    BY <1>1, <1>2, SitesTypes, PTL DEF SitesSpec

(* The row of a site that no operation is about fits its project, whatever    *)
(* failed; and where operations overlapped, the sidecar stopped in the midst   *)
(* of one, or the project changed elsewhere, it does so again after one        *)
(* syncAll that had the site to itself, for any number of sites and            *)
(* operations (localSiteManager.ts:153-237, 246-277).                         *)
THEOREM StatusTellsTheTruth == SitesSpec => []StatusIsTrue
<1>1. SitesInv /\ [SitesNext]_siteVars => SitesInv'
    BY SiteBounds, SitesStep
<1>2. SitesInit => SitesInv
    BY SiteBounds, SitesStart
<1> QED
    BY <1>1, <1>2, SitesTrue, PTL DEF SitesSpec

-----------------------------------------------------------------------------
(* The processes the desktop runs. *)
OsStates == {"unborn", "runs", "told", "left", "gone"}
OsRecord == [state : OsStates, server : Servers \cup {""}]
StopRecord == [proc : {0} \cup Procs, server : Servers \cup {""}, again : BOOLEAN]

MapTyped ==
    /\ os \in [Procs -> OsRecord]
    /\ exits \subseteq Procs /\ entry \in [Servers -> {0} \cup Procs]
    /\ stop \in [Stops -> StopRecord]
    /\ untracked \subseteq Procs
HostTyped ==
    /\ sidecar \in {"up", "down"} /\ desktop \in {"on", "off"}
    /\ request \in [Requests -> {"unsent", "sent", "answered", "done", "failed"}]
    /\ serverOps \in 0..MaxServerOps

(* A name is the name of a process that was spawned for it; an exit event is  *)
(* about a process that is gone; a stop waits for one that was told.         *)
EntriesFit == \A s \in Servers : entry[s] # 0 => os[entry[s]].state # "unborn"
Named == \A p \in Procs : os[p].state # "unborn" => os[p].server \in Servers
ExitsFit == \A p \in exits : os[p].state = "gone"
StopsFit ==
    \A c \in Stops : stop[c] # NoStop =>
        /\ stop[c].proc \in Procs /\ stop[c].server \in Servers
        /\ os[stop[c].proc].state \in {"told", "left", "gone"}

MapInv == MapTyped /\ EntriesFit /\ Named /\ ExitsFit /\ StopsFit /\ ServersAreTracked
ProcessInv == MapInv /\ HostTyped

LEMMA ProcessTypes == ProcessInv => ProcessTypeOK
BY DEF ProcessInv, MapInv, MapTyped, HostTyped, ProcessTypeOK, OsRecord, OsStates, StopRecord

LEMMA ProcessStart == ProcessBounds /\ ProcessInit => ProcessInv
<1> SUFFICES ASSUME ProcessBounds, ProcessInit PROVE ProcessInv
    OBVIOUS
<1>1. MaxSpawns \in Nat /\ 0 \in 0..MaxServerOps
    BY DEF ProcessBounds
<1>2. [state |-> "unborn", server |-> ""] \in OsRecord
    BY DEF OsRecord, OsStates
<1>3. NoStop \in StopRecord
    BY DEF NoStop, StopRecord
<1>4. MapTyped
    BY <1>2, <1>3 DEF ProcessInit, MapTyped
<1>5. HostTyped
    BY <1>1 DEF ProcessInit, HostTyped
<1>6. EntriesFit /\ Named /\ ExitsFit /\ StopsFit /\ ServersAreTracked
    BY DEF ProcessInit, EntriesFit, Named, ExitsFit, StopsFit, ServersAreTracked
<1> QED
    BY <1>4, <1>5, <1>6 DEF ProcessInv, MapInv

(* The next process is one that is unborn. *)
LEMMA FreshUnborn ==
    ASSUME ProcessBounds, Unborn # {}
    PROVE  Fresh \in Unborn
<1>1. Unborn \subseteq Nat
    BY DEF Unborn, Procs, ProcessBounds
<1>2. PICK p \in Unborn : \A q \in Unborn : ~(<<q, p>> \in OpToRel(<, Nat))
    BY <1>1, NatLessThanWellFounded, WFMin
<1>3. \A q \in Unborn : ~(q < p)
    BY <1>1, <1>2 DEF OpToRel
<1>4. \A q \in Unborn : p <= q
    BY <1>1, <1>3
<1> QED
    BY <1>4 DEF Fresh

(* What holds of the record of a process in the map. *)
LEMMA MapFacts ==
    ASSUME MapInv
    PROVE  /\ \A p \in Procs : os[p] \in OsRecord
           /\ \A s \in Servers : entry[s] \in {0} \cup Procs
           /\ \A c \in Stops : stop[c] \in StopRecord
           /\ 0 \notin Procs
<1>1. 0 \notin Procs
    BY DEF Procs
<1> QED
    BY <1>1 DEF MapInv, MapTyped

LEMMA StartServerKeeps ==
    ASSUME ProcessBounds, MapInv, NEW s \in Servers, StartServer(s)
    PROVE  MapInv'
<1> DEFINE p0 == Fresh
           r == [state |-> "runs", server |-> s]
<1>1. /\ p0 \in Unborn /\ os' = [os EXCEPT ![p0] = r] /\ entry' = [entry EXCEPT ![s] = p0]
      /\ entry[s] = 0 /\ UNCHANGED <<exits, stop, untracked>>
    BY FreshUnborn DEF StartServer, Spawn
<1> HIDE DEF p0
<1>2. p0 \in Procs /\ os[p0].state = "unborn"
    BY <1>1 DEF Unborn
<1>3. r \in OsRecord /\ r.state = "runs" /\ r.server = s
    BY DEF OsRecord, OsStates
<1> HIDE DEF r
<1>4. MapTyped'
    BY <1>1, <1>2, <1>3 DEF MapInv, MapTyped
<1>5. /\ os'[p0] = r /\ \A p \in Procs : p # p0 => os'[p] = os[p]
      /\ entry'[s] = p0 /\ \A t \in Servers : t # s => entry'[t] = entry[t]
    BY <1>1, <1>2 DEF MapInv, MapTyped
<1>6. EntriesFit'
    BY <1>1, <1>3, <1>5, MapFacts DEF MapInv, EntriesFit
<1>7. Named'
    BY <1>3, <1>5 DEF MapInv, Named
<1>8. ExitsFit'
    BY <1>1, <1>2, <1>5 DEF MapInv, MapTyped, ExitsFit
<1>9. StopsFit'
    BY <1>1, <1>2, <1>5 DEF MapInv, StopsFit
<1>10. ServersAreTracked'
  <2> SUFFICES ASSUME NEW p \in Procs \ untracked, os'[p].state = "runs"
               PROVE  entry'[os'[p].server] = p
    BY <1>1 DEF ServersAreTracked
  <2>1. CASE p = p0
    BY <1>3, <1>5, <2>1
  <2>2. CASE p # p0
    <3>1. os'[p] = os[p] /\ entry[os[p].server] = p /\ os[p].server \in Servers
      BY <1>5, <2>2 DEF MapInv, ServersAreTracked, Named
    <3>2. os[p].server # s
      BY <1>1, <3>1, MapFacts
    <3> QED
      BY <1>5, <3>1, <3>2
  <2> QED
    BY <2>1, <2>2
<1> QED
    BY <1>4, <1>6, <1>7, <1>8, <1>9, <1>10 DEF MapInv

(* As many processes as names: each name gets one, and no process is forgotten. *)
LEMMA StartAllKeeps ==
    ASSUME ProcessBounds, MapInv, StartAll, UNCHANGED <<exits, stop, untracked>>
    PROVE  MapInv'
<1> DEFINE missing == {s \in Servers : entry[s] = 0}
           first == {p \in Unborn : Cardinality({q \in Unborn : q <= p}) <= Cardinality(missing)}
<1>1. first \subseteq Unborn /\ Unborn \subseteq Procs /\ missing \subseteq Servers
    BY DEF Unborn
<1>2. \A p \in first : os[p].state = "unborn"
    BY <1>1 DEF Unborn
<1>3. Cardinality(first) = Cardinality(missing)
    BY DEF StartAll
<1>4. PICK of \in [first -> missing] :
              /\ \A s \in missing : \E p \in first : of[p] = s
              /\ os' = [p \in Procs |-> IF p \in first THEN [state |-> "runs", server |-> of[p]] ELSE os[p]]
              /\ entry' = [s \in Servers |-> IF s \in missing THEN CHOOSE p \in first : of[p] = s
                                             ELSE entry[s]]
    BY DEF StartAll
<1>5. \A s \in Servers \ missing : entry[s] # 0
    OBVIOUS
<1>6. \A s \in missing : entry[s] = 0
    OBVIOUS
<1> HIDE DEF first, missing
<1>7. IsFiniteSet(first)
  <2>1. IsFiniteSet(Procs)
    BY FS_Interval DEF Procs, ProcessBounds
  <2> QED
    BY <1>1, <2>1, FS_Subset
<1>8. of \in Injection(first, missing)
  <2>1. of \in Surjection(first, missing)
    BY <1>4 DEF Surjection
  <2> QED
    BY <1>3, <1>7, <2>1, FS_SurjSameCardinalityImpliesInj
<1>9. \A p, q \in first : of[p] = of[q] => p = q
    BY <1>8 DEF Injection, IsInjective
<1>10. /\ \A p \in first : os'[p].state = "runs" /\ os'[p].server = of[p] /\ entry'[of[p]] = p
       /\ \A p \in Procs : p \notin first => os'[p] = os[p]
       /\ \A s \in missing : entry'[s] \in first
       /\ \A s \in Servers : s \notin missing => entry'[s] = entry[s]
  <2>1. \A s \in missing : entry'[s] \in first /\ of[entry'[s]] = s
    BY <1>1, <1>4
  <2>2. \A p \in first : os'[p].state = "runs" /\ os'[p].server = of[p] /\ of[p] \in missing
    BY <1>1, <1>4
  <2>3. \A p \in first : entry'[of[p]] = p
    BY <1>9, <2>1, <2>2
  <2> QED
    BY <1>4, <2>1, <2>2, <2>3
<1>11. MapTyped'
  <2>1. os' \in [Procs -> OsRecord]
    <3>1. \A p \in first : [state |-> "runs", server |-> of[p]] \in OsRecord
      BY <1>1, <1>4 DEF OsRecord, OsStates
    <3> QED
      BY <1>4, <3>1 DEF MapInv, MapTyped
  <2>2. entry' \in [Servers -> {0} \cup Procs]
    BY <1>1, <1>4, <1>10 DEF MapInv, MapTyped
  <2> QED
    BY <2>1, <2>2 DEF MapInv, MapTyped
<1>12. EntriesFit'
  <2> SUFFICES ASSUME NEW s \in Servers, entry'[s] # 0
               PROVE  os'[entry'[s]].state # "unborn"
    BY DEF EntriesFit
  <2>1. CASE s \in missing
    BY <1>10, <2>1
  <2>2. CASE s \notin missing
    <3>1. entry'[s] = entry[s] /\ os[entry[s]].state # "unborn" /\ entry[s] \in Procs
      BY <1>5, <1>10, <2>2, MapFacts DEF MapInv, EntriesFit
    <3> QED
      BY <1>2, <1>10, <3>1
  <2> QED
    BY <2>1, <2>2
<1>13. Named'
    BY <1>1, <1>4, <1>10 DEF MapInv, Named
<1>14. ExitsFit'
    BY <1>2, <1>10 DEF MapInv, MapTyped, ExitsFit
<1>15. StopsFit'
    BY <1>2, <1>10 DEF MapInv, StopsFit
<1>16. ServersAreTracked'
  <2> SUFFICES ASSUME NEW p \in Procs \ untracked, os'[p].state = "runs"
               PROVE  entry'[os'[p].server] = p
    BY DEF ServersAreTracked
  <2>1. CASE p \in first
    BY <1>10, <2>1
  <2>2. CASE p \notin first
    <3>1. os'[p] = os[p] /\ entry[os[p].server] = p /\ os[p].server \in Servers
      BY <1>10, <2>2 DEF MapInv, ServersAreTracked, Named
    <3>2. os[p].server \notin missing
      BY <1>6, <3>1, MapFacts
    <3> QED
      BY <1>10, <3>1, <3>2
  <2> QED
    BY <2>1, <2>2
<1> QED
    BY <1>11, <1>12, <1>13, <1>14, <1>15, <1>16 DEF MapInv

LEMMA StopServerKeeps ==
    ASSUME MapInv, NEW s \in Servers, NEW c \in Stops, NEW again \in BOOLEAN, StopServer(s, c, again)
    PROVE  MapInv'
<1> DEFINE p0 == entry[s]
           v == [proc |-> p0, server |-> s, again |-> again]
           r == [os[p0] EXCEPT !.state = IF @ = "runs" THEN "told" ELSE @]
<1>1. /\ p0 # 0 /\ stop' = [stop EXCEPT ![c] = v] /\ UNCHANGED <<exits, entry, untracked>>
    BY DEF StopServer
<1>2. p0 \in Procs /\ os[p0] \in OsRecord /\ os[p0].state # "unborn"
    BY <1>1, MapFacts DEF MapInv, EntriesFit
<1>3. os' = [os EXCEPT ![p0] = r]
    BY <1>2 DEF StopServer, MapInv, MapTyped
<1>4. r \in OsRecord /\ r.state \in {"told", "left", "gone"} /\ r.server = os[p0].server
      /\ (os[p0].state = "gone" => r.state = "gone")
    BY <1>2 DEF OsRecord, OsStates
<1>5. v \in StopRecord /\ v.proc = p0 /\ v.server = s
    BY <1>2 DEF StopRecord
<1> HIDE DEF p0, v, r
<1>6. MapTyped'
    BY <1>1, <1>2, <1>3, <1>4, <1>5 DEF MapInv, MapTyped
<1>7. /\ os'[p0] = r /\ \A p \in Procs : p # p0 => os'[p] = os[p]
      /\ stop'[c] = v /\ \A d \in Stops : d # c => stop'[d] = stop[d]
    BY <1>1, <1>2, <1>3 DEF MapInv, MapTyped
<1>8. EntriesFit'
    BY <1>1, <1>4, <1>7, MapFacts DEF MapInv, EntriesFit
<1>9. Named'
    BY <1>2, <1>4, <1>7 DEF MapInv, Named
<1>10. ExitsFit'
    BY <1>1, <1>4, <1>7 DEF MapInv, MapTyped, ExitsFit
<1>11. StopsFit'
    BY <1>2, <1>4, <1>5, <1>7 DEF MapInv, StopsFit
<1>12. ServersAreTracked'
    BY <1>1, <1>4, <1>7 DEF MapInv, ServersAreTracked
<1> QED
    BY <1>6, <1>8, <1>9, <1>10, <1>11, <1>12 DEF MapInv

(* A process that ends, with or without an event. *)
LEMMA ProcessGoneKeeps ==
    ASSUME MapInv, NEW p \in Procs, os' = [os EXCEPT ![p].state = "gone"],
           os[p].state # "unborn",
           exits' \in {exits, exits \cup {p}}, UNCHANGED <<entry, stop, untracked>>
    PROVE  MapInv'
<1> DEFINE r == [os[p] EXCEPT !.state = "gone"]
<1>1. os' = [os EXCEPT ![p] = r] /\ os[p] \in OsRecord
    BY MapFacts DEF MapInv, MapTyped
<1>2. r \in OsRecord /\ r.state = "gone" /\ r.server = os[p].server
    BY <1>1 DEF OsRecord, OsStates
<1> HIDE DEF r
<1>3. MapTyped'
    BY <1>1, <1>2 DEF MapInv, MapTyped
<1>4. os'[p] = r /\ \A q \in Procs : q # p => os'[q] = os[q]
    BY <1>1 DEF MapInv, MapTyped
<1>5. EntriesFit'
    BY <1>2, <1>4, MapFacts DEF MapInv, EntriesFit
<1>6. Named'
    BY <1>2, <1>4 DEF MapInv, Named
<1>7. ExitsFit'
    BY <1>2, <1>4 DEF MapInv, MapTyped, ExitsFit
<1>8. StopsFit'
    BY <1>2, <1>4 DEF MapInv, StopsFit
<1>9. ServersAreTracked'
    BY <1>2, <1>4 DEF MapInv, ServersAreTracked
<1> QED
    BY <1>3, <1>5, <1>6, <1>7, <1>8, <1>9 DEF MapInv

(* A late exit event finds another process in the entry, and leaves it. *)
LEMMA ExitEventKeeps ==
    ASSUME MapInv, NEW p \in Procs, ExitEvent(p)
    PROVE  MapInv'
<1> DEFINE s == os[p].server
<1>1. /\ p \in exits /\ exits' = exits \ {p} /\ UNCHANGED <<os, stop, untracked>>
      /\ entry' = [entry EXCEPT ![s] = IF @ = p THEN 0 ELSE @]
    BY DEF ExitEvent
<1>2. os[p].state = "gone" /\ s \in Servers
    BY <1>1 DEF MapInv, ExitsFit, Named
<1>3. /\ entry' \in [Servers -> {0} \cup Procs]
      /\ \A t \in Servers : entry'[t] = IF t = s /\ entry[t] = p THEN 0 ELSE entry[t]
    BY <1>1, <1>2 DEF MapInv, MapTyped
<1>4. MapTyped'
    BY <1>1, <1>3 DEF MapInv, MapTyped
<1>5. EntriesFit' /\ Named' /\ ExitsFit' /\ StopsFit'
    BY <1>1, <1>3 DEF MapInv, EntriesFit, Named, ExitsFit, StopsFit
<1>6. ServersAreTracked'
    BY <1>1, <1>2, <1>3 DEF MapInv, ServersAreTracked, Named
<1> QED
    BY <1>4, <1>5, <1>6 DEF MapInv

LEMMA WatchdogKeeps ==
    ASSUME MapInv, WatchdogLooks
    PROVE  MapInv'
<1>1. /\ UNCHANGED <<os, exits, stop, untracked>>
      /\ entry' = [s \in Servers |-> IF entry[s] # 0 /\ os[entry[s]].state = "gone" THEN 0 ELSE entry[s]]
    BY DEF WatchdogLooks
<1>2. MapTyped'
    BY <1>1 DEF MapInv, MapTyped
<1>3. EntriesFit' /\ Named' /\ ExitsFit' /\ StopsFit'
    BY <1>1 DEF MapInv, EntriesFit, Named, ExitsFit, StopsFit
<1>4. ServersAreTracked'
    BY <1>1 DEF MapInv, ServersAreTracked, Named
<1> QED
    BY <1>2, <1>3, <1>4 DEF MapInv

(* The stop's process is not one that runs; what else has the name is          *)
(* untracked from now on.                                                    *)
LEMMA StopReturnsKeeps ==
    ASSUME ProcessBounds, MapInv, NEW c \in Stops, StopReturns(c)
    PROVE  MapInv'
<1> DEFINE p0 == stop[c].proc
           s0 == stop[c].server
           p1 == Fresh
           r0 == [os[p0] EXCEPT !.state = KillIfLate(p0)]
           r1 == [state |-> "runs", server |-> s0]
           killed == [os EXCEPT ![p0].state = KillIfLate(p0)]
<1>1. /\ stop[c] # NoStop
      /\ untracked' = IF entry[s0] \notin {0, p0} THEN untracked \cup {entry[s0]} ELSE untracked
      /\ \/ /\ Respawns(c)
            /\ os' = [killed EXCEPT ![p1] = r1]
            /\ entry' = [entry EXCEPT ![s0] = p1]
         \/ os' = killed /\ entry' = [entry EXCEPT ![s0] = 0]
      /\ exits' \in {exits, exits \cup {p0}}
      /\ killed[p0] = os[p0] => exits' = exits
      /\ stop' = [stop EXCEPT ![c] = NoStop]
    BY DEF StopReturns
<1>2. p0 \in Procs /\ s0 \in Servers /\ os[p0].state \in {"told", "left", "gone"} /\ os[p0] \in OsRecord
    BY <1>1, MapFacts DEF MapInv, StopsFit
<1>3. /\ r0 \in OsRecord /\ r0.server = os[p0].server /\ r0.state \in {"left", "gone"}
      /\ os[p0].state = "gone" => r0.state = "gone"
      /\ r0.state # "gone" => r0 = os[p0]
    BY <1>2 DEF KillIfLate, OsRecord, OsStates
<1>4. killed = [os EXCEPT ![p0] = r0] /\ os \in [Procs -> OsRecord]
    BY <1>2 DEF MapInv, MapTyped
<1>5. /\ killed \in [Procs -> OsRecord] /\ killed[p0] = r0
      /\ \A p \in Procs : p # p0 => killed[p] = os[p]
    BY <1>2, <1>3, <1>4
<1>6. r1 \in OsRecord /\ r1.state = "runs" /\ r1.server = s0
    BY <1>2 DEF OsRecord, OsStates
<1>7. Respawns(c) => p1 \in Procs /\ os[p1].state = "unborn" /\ p1 # p0
    BY <1>2, FreshUnborn DEF Respawns, Unborn
<1> HIDE DEF p0, s0, p1, r0, r1, killed
<1>8. \E n \in {0} \cup Procs :
         /\ entry' = [entry EXCEPT ![s0] = n]
         /\ n = 0 => os' = killed
         /\ n # 0 => os[n].state = "unborn" /\ n # p0 /\ os' = [killed EXCEPT ![n] = r1]
    BY <1>1, <1>7, MapFacts
<1>9. PICK n \in {0} \cup Procs :
         /\ entry' = [entry EXCEPT ![s0] = n]
         /\ n = 0 => os' = killed
         /\ n # 0 => os[n].state = "unborn" /\ n # p0 /\ os' = [killed EXCEPT ![n] = r1]
    BY <1>8
<1>10. /\ os' \in [Procs -> OsRecord]
       /\ os'[p0] = r0
       /\ n # 0 => os'[n] = r1
       /\ \A p \in Procs : p \notin {p0, n} => os'[p] = os[p]
    BY <1>2, <1>5, <1>6, <1>9, MapFacts
<1>11. /\ entry' \in [Servers -> {0} \cup Procs] /\ entry'[s0] = n
       /\ \A s \in Servers : s # s0 => entry'[s] = entry[s]
    BY <1>2, <1>9 DEF MapInv, MapTyped
<1>12. MapTyped'
  <2>1. stop' \in [Stops -> StopRecord]
    <3>1. NoStop \in StopRecord
      BY DEF NoStop, StopRecord
    <3> QED
      BY <1>1, <3>1 DEF MapInv, MapTyped
  <2>2. exits' \subseteq Procs
    BY <1>1, <1>2 DEF MapInv, MapTyped
  <2>3. untracked' \subseteq Procs
    BY <1>1, <1>2 DEF MapInv, MapTyped
  <2> QED
    BY <1>10, <1>11, <2>1, <2>2, <2>3 DEF MapTyped
<1>13. \A p \in Procs : os[p].state # "unborn" => os'[p].state # "unborn" /\ p # n
    BY <1>3, <1>9, <1>10, MapFacts
<1>14. EntriesFit'
  <2> SUFFICES ASSUME NEW s \in Servers, entry'[s] # 0
               PROVE  os'[entry'[s]].state # "unborn"
    BY DEF EntriesFit
  <2>1. CASE s = s0
    BY <1>6, <1>10, <1>11, <2>1
  <2>2. CASE s # s0
    BY <1>11, <1>13, <2>2, MapFacts DEF MapInv, EntriesFit
  <2> QED
    BY <2>1, <2>2
<1>15. Named'
  <2> SUFFICES ASSUME NEW p \in Procs, os'[p].state # "unborn"
               PROVE  os'[p].server \in Servers
    BY DEF Named
  <2>1. CASE p = p0
    BY <1>2, <1>3, <1>10, <2>1 DEF MapInv, Named
  <2>2. CASE p = n
    BY <1>2, <1>6, <1>10, <2>2, MapFacts
  <2>3. CASE p \notin {p0, n}
    BY <1>10, <2>3 DEF MapInv, Named
  <2> QED
    BY <2>1, <2>2, <2>3
<1>16. ExitsFit'
  <2>1. \A p \in exits : os[p].state = "gone" /\ p \in Procs
    BY DEF MapInv, MapTyped, ExitsFit
  <2>2. \A p \in exits : os'[p].state = "gone"
    BY <1>3, <1>10, <1>13, <2>1
  <2>3. p0 \in exits' => os'[p0].state = "gone"
    BY <1>1, <1>3, <1>5, <1>10, <2>2
  <2> QED
    BY <1>1, <2>2, <2>3 DEF ExitsFit
<1>17. StopsFit'
  <2> SUFFICES ASSUME NEW d \in Stops, stop'[d] # NoStop
               PROVE  /\ stop'[d].proc \in Procs /\ stop'[d].server \in Servers
                      /\ os'[stop'[d].proc].state \in {"told", "left", "gone"}
    BY DEF StopsFit
  <2>1. stop'[d] = stop[d]
    BY <1>1 DEF MapInv, MapTyped
  <2>2. /\ stop[d].proc \in Procs /\ stop[d].server \in Servers
        /\ os[stop[d].proc].state \in {"told", "left", "gone"}
    BY <2>1 DEF MapInv, StopsFit
  <2> QED
    BY <1>3, <1>10, <1>13, <2>1, <2>2
<1>18. ServersAreTracked'
  <2> SUFFICES ASSUME NEW p \in Procs, p \notin untracked', os'[p].state = "runs"
               PROVE  entry'[os'[p].server] = p
    BY DEF ServersAreTracked
  <2>1. CASE p = n
    BY <1>6, <1>10, <1>11, <2>1, MapFacts
  <2>2. CASE p # n
    <3>1. p # p0
      BY <1>3, <1>10
    <3>2. os'[p] = os[p] /\ p \notin untracked
      BY <1>1, <1>10, <2>2, <3>1
    <3>3. entry[os[p].server] = p /\ os[p].server \in Servers
      BY <3>2 DEF MapInv, ServersAreTracked, Named
    <3>4. os[p].server # s0
      BY <1>1, <3>1, <3>3, MapFacts
    <3> QED
      BY <1>11, <3>2, <3>3, <3>4
  <2> QED
    BY <2>1, <2>2
<1> QED
    BY <1>12, <1>14, <1>15, <1>16, <1>17, <1>18 DEF MapInv

(* With the sidecar, its map goes; what runs is untracked.                    *)
LEMMA SidecarGoneKeeps ==
    ASSUME MapInv, SidecarGone, os' \in {os, OrphanTold}
    PROVE  MapInv'
<1>1. /\ entry' = [s \in Servers |-> 0] /\ exits' = {} /\ stop' = [c \in Stops |-> NoStop]
      /\ untracked' = untracked \cup Running
    BY DEF SidecarGone
<1>2. \A p \in Procs : os[p] \in OsRecord
    BY MapFacts
<1>3. /\ os' \in [Procs -> OsRecord]
      /\ \A p \in Procs : os'[p].server = os[p].server
                         /\ (os'[p].state = os[p].state \/ (p \in Running /\ os'[p].state = "left"))
  <2>1. CASE os' = os
    BY <2>1 DEF MapInv, MapTyped
  <2>2. CASE os' = OrphanTold
    <3>1. \A p \in Procs : [os[p] EXCEPT !.state = "left"] \in OsRecord
      BY <1>2 DEF OsRecord, OsStates
    <3>2. \A p \in Procs : [os[p] EXCEPT !.state = "left"].server = os[p].server
                         /\ [os[p] EXCEPT !.state = "left"].state = "left"
      BY <1>2 DEF OsRecord
    <3> QED
      BY <1>2, <2>2, <3>1, <3>2 DEF OrphanTold
  <2> QED
    BY <2>1, <2>2
<1>4. MapTyped'
  <2>1. NoStop \in StopRecord
    BY DEF NoStop, StopRecord
  <2>2. untracked' \subseteq Procs
    BY <1>1 DEF MapInv, MapTyped, Running
  <2> QED
    BY <1>1, <1>3, <2>1, <2>2 DEF MapTyped
<1>5. EntriesFit' /\ ExitsFit' /\ StopsFit'
    BY <1>1 DEF EntriesFit, ExitsFit, StopsFit
<1>6. Named'
    BY <1>3 DEF MapInv, Named, Running
<1>7. ServersAreTracked'
    BY <1>1, <1>3 DEF ServersAreTracked, Running
<1> QED
    BY <1>4, <1>5, <1>6, <1>7 DEF MapInv

LEMMA MapUntouched ==
    ASSUME MapInv, UNCHANGED <<os, exits, entry, stop, untracked>>
    PROVE  MapInv'
BY DEF MapInv, MapTyped, EntriesFit, Named, ExitsFit, StopsFit, ServersAreTracked

LEMMA MapStep ==
    ASSUME ProcessBounds, MapInv, [ProcessNext]_processVars
    PROVE  MapInv'
<1>1. CASE UNCHANGED processVars
    BY <1>1, MapUntouched DEF processVars
<1>2. ASSUME NEW s \in Servers, StartServer(s)
      PROVE  MapInv'
    BY <1>2, StartServerKeeps
<1>3. CASE OnboardingStart
    BY <1>3, StartAllKeeps DEF OnboardingStart
<1>4. ASSUME NEW s \in Servers, NEW c \in Stops, NEW again \in BOOLEAN, StopServer(s, c, again)
      PROVE  MapInv'
    BY <1>4, StopServerKeeps
<1>5. ASSUME NEW p \in Procs, ServerExits(p) \/ LastStop(p)
      PROVE  MapInv'
  <2>1. /\ os' = [os EXCEPT ![p].state = "gone"] /\ os[p].state # "unborn"
        /\ exits' \in {exits, exits \cup {p}} /\ UNCHANGED <<entry, stop, untracked>>
    BY <1>5 DEF ServerExits, LastStop
  <2> QED
    BY <2>1, ProcessGoneKeeps
<1>6. ASSUME NEW p \in Procs, ExitEvent(p)
      PROVE  MapInv'
    BY <1>6, ExitEventKeeps
<1>7. CASE WatchdogLooks
    BY <1>7, WatchdogKeeps
<1>8. ASSUME NEW c \in Stops, StopReturns(c)
      PROVE  MapInv'
    BY <1>8, StopReturnsKeeps
<1>9. CASE SidecarDies \/ QuitHost \/ StartHost
    BY <1>9, SidecarGoneKeeps DEF SidecarDies, QuitHost, StartHost
<1>10. CASE HostCrashes
    BY <1>10, MapUntouched DEF HostCrashes
<1>11. ASSUME NEW i \in Requests, SendRequest(i) \/ HandleRequest(i) \/ Answered(i) \/ RequestTimesOut(i)
       PROVE  MapInv'
    BY <1>11, MapUntouched DEF SendRequest, HandleRequest, Answered, RequestTimesOut
<1> QED
    BY <1>1, <1>2, <1>3, <1>4, <1>5, <1>6, <1>7, <1>8, <1>9, <1>10, <1>11 DEF ProcessNext

LEMMA HostStep ==
    ASSUME ProcessBounds, HostTyped, [ProcessNext]_processVars
    PROVE  HostTyped'
<1>1. MaxServerOps \in Nat
    BY DEF ProcessBounds
<1>2. serverOps' \in 0..MaxServerOps
  <2>1. \/ serverOps' = serverOps
        \/ serverOps < MaxServerOps /\ serverOps' = serverOps + 1
    BY DEF ProcessNext, processVars, Operate, StartServer, OnboardingStart, StopServer, ServerExits, ExitEvent,
       WatchdogLooks, StopReturns, SidecarDies, QuitHost, HostCrashes, StartHost, LastStop, SendRequest,
       HandleRequest, Answered, RequestTimesOut
  <2> QED
    BY <1>1, <2>1 DEF HostTyped
<1>3. sidecar' \in {"up", "down"} /\ desktop' \in {"on", "off"}
    BY DEF HostTyped, ProcessNext, processVars, Operate, StartServer, OnboardingStart, StopServer, ServerExits,
       ExitEvent, WatchdogLooks, StopReturns, SidecarDies, QuitHost, HostCrashes, StartHost, LastStop, SendRequest,
       HandleRequest, Answered, RequestTimesOut
<1>4. request' \in [Requests -> {"unsent", "sent", "answered", "done", "failed"}]
  <2>1. \/ request' = request
        \/ RequestsDie
        \/ \E i \in Requests, to \in {"sent", "answered", "done", "failed"} : request' = [request EXCEPT ![i] = to]
    BY DEF ProcessNext, processVars, Operate, StartServer, OnboardingStart, StopServer, ServerExits,
       ExitEvent, WatchdogLooks, StopReturns, SidecarDies, QuitHost, HostCrashes, StartHost, LastStop, SendRequest,
       HandleRequest, Answered, RequestTimesOut
  <2> QED
    BY <2>1 DEF HostTyped, RequestsDie
<1> QED
    BY <1>2, <1>3, <1>4 DEF HostTyped

LEMMA ProcessStep ==
    ASSUME ProcessBounds, ProcessInv, [ProcessNext]_processVars
    PROVE  ProcessInv'
BY MapStep, HostStep DEF ProcessInv

(* Types of the servers, the sidecar and the requests. *)
THEOREM ProcessTypeCorrect == ProcessSpec => []ProcessTypeOK
<1>1. ProcessInv /\ [ProcessNext]_processVars => ProcessInv'
    BY ProcessBounds, ProcessStep
<1>2. ProcessInit => ProcessInv
    BY ProcessBounds, ProcessStart
<1> QED
    BY <1>1, <1>2, ProcessTypes, PTL DEF ProcessSpec

(* No server that runs is lost from the map by an exit event or a watchdog's  *)
(* look that comes late (processManager.ts:81-86, 131, 188-201).             *)
THEOREM RunningIsTracked == ProcessSpec => []ServersAreTracked
<1>1. ProcessInv /\ [ProcessNext]_processVars => ProcessInv'
    BY ProcessBounds, ProcessStep
<1>2. ProcessInit => ProcessInv
    BY ProcessBounds, ProcessStart
<1>3. ProcessInv => ServersAreTracked
    BY DEF ProcessInv, MapInv
<1> QED
    BY <1>1, <1>2, <1>3, PTL DEF ProcessSpec

-----------------------------------------------------------------------------
(* Recon's credentials. *)
ValueOrNone == {NoValue} \cup Values
Store == [Fields -> ValueOrNone]
SaveSteps == {"none", "read", "write", "rename", "chmod"}
SaveRecord ==
    [at : SaveSteps, key : Fields \cup {""}, value : ValueOrNone, map : Store,
     clash : BOOLEAN, mine : BOOLEAN]

StoresSetTyped ==
    /\ keychain \in Store /\ file \in Store /\ tmp \in Store /\ saved \in Store
    /\ save \in [Slots -> SaveRecord]
PagesTyped ==
    /\ saves \in 0..MaxSaves /\ starts \in 0..MaxStarts
    /\ shown \in {"off", "away", "guard", "detect", "credentials", "dashboard"}
    /\ claude \in BOOLEAN /\ canLaunch \in BOOLEAN /\ listed \subseteq Fields
    /\ form \in [saving : SUBSET Fields, verifying : BOOLEAN, passed : BOOLEAN]

Active(c) == save[c].at # "none"
(* A save that overlapped none is the only one; what it replaces is not what  *)
(* was saved last any more.                                                  *)
SavesFit ==
    \A c \in Slots :
        /\ Active(c) => /\ save[c].key \in Fields /\ save[c].value # NoValue
                        /\ saved[save[c].key] = NoValue
        /\ ~Active(c) => save[c] = NoSave
        /\ Active(c) /\ ~save[c].clash => \A d \in Slots : d # c => ~Active(d)
(* What it writes. *)
Intended ==
    \A c \in Slots : ~save[c].clash =>
        /\ save[c].at \in {"write", "rename"} => save[c].map[save[c].key] = save[c].value
        /\ save[c].at = "rename" => tmp = save[c].map
        /\ save[c].at = "chmod" => file[save[c].key] = save[c].value
(* A save brings along the values of the keys that were saved before, but for *)
(* the blanks at their ends.                                                 *)
Preserves(store) == \A k \in Fields : saved[k] # NoValue => Trimmed(store[k]) = Trimmed(file[k])
Carried ==
    \A c \in Slots :
        /\ save[c].at \in {"write", "rename"} => Preserves(save[c].map)
        /\ save[c].at = "rename" /\ tmp # Empty => Preserves(tmp)
NoneWhenOff == shown = "off" => \A c \in Slots : ~Active(c)

StoresInv == StoresSetTyped /\ SavesFit /\ Intended /\ Carried /\ NoneWhenOff /\ SavedIsUsed
SetupInv == StoresInv /\ PagesTyped

LEMMA SetupTypes == SetupInv => SetupTypeOK
BY DEF SetupInv, StoresInv, StoresSetTyped, PagesTyped, SavedIsUsed, SetupTypeOK, Store, ValueOrNone, SaveRecord,
   SaveSteps

(* To trim twice is to trim once, and no value is lost by it. *)
LEMMA TrimFacts ==
    ASSUME NEW v \in ValueOrNone
    PROVE  /\ Trimmed(v) \in ValueOrNone /\ LineTrimmed(v) \in ValueOrNone
           /\ Trimmed(Trimmed(v)) = Trimmed(v) /\ Trimmed(LineTrimmed(v)) = Trimmed(v)
           /\ Trimmed(v) = NoValue <=> v = NoValue
<1>1. CASE v = NoValue
  <2>1. Trimmed(v) = NoValue /\ LineTrimmed(v) = NoValue
    BY <1>1 DEF Trimmed, LineTrimmed, NoValue
  <2> QED
    BY <1>1, <2>1 DEF ValueOrNone
<1>2. CASE v \in Values
  <2>1. PICK n \in 1..(MaxSaves + 1), b \in SUBSET {"before", "after"} : v = [of |-> n, blanks |-> b]
    BY <1>2 DEF Values
  <2>2. ASSUME NEW c PROVE Trimmed([of |-> n, blanks |-> c]) = [of |-> n, blanks |-> {}]
    BY DEF Trimmed
  <2>3. Trimmed(v) = [of |-> n, blanks |-> {}] /\ LineTrimmed(v) = [of |-> n, blanks |-> b \ {"after"}]
    BY <2>1 DEF Trimmed, LineTrimmed
  <2>4. b \ {"after"} \in SUBSET {"before", "after"} /\ {} \in SUBSET {"before", "after"}
    OBVIOUS
  <2>5. ASSUME NEW c \in SUBSET {"before", "after"} PROVE [of |-> n, blanks |-> c] \in Values
    BY DEF Values
  <2>6. Trimmed(v) \in Values /\ LineTrimmed(v) \in Values
    BY <2>3, <2>4, <2>5
  <2>7. \A w \in Values : w # NoValue
    BY DEF Values, NoValue
  <2>8. Trimmed(Trimmed(v)) = Trimmed(v) /\ Trimmed(LineTrimmed(v)) = Trimmed(v)
    BY <2>1, <2>3, <2>2
  <2> QED
    BY <1>2, <2>6, <2>7, <2>8 DEF ValueOrNone
<1> QED
    BY <1>1, <1>2 DEF ValueOrNone

LEMMA EmptyStore == Empty \in Store /\ NoSave \in SaveRecord /\ NoSave.at = "none"
<1>1. Empty \in Store
    BY DEF Empty, Store, ValueOrNone
<1>2. NoSave.at = "none"
    BY DEF NoSave
<1> QED
    BY <1>1, <1>2 DEF NoSave, SaveRecord, SaveSteps, ValueOrNone

(* A launch takes the file's value, or the keychain's when the file has none. *)
LEMMA LaunchedValue ==
    ASSUME NEW k \in Fields, file \in Store
    PROVE  Launched[k] = IF file[k] # NoValue THEN Trimmed(file[k]) ELSE keychain[k]
<1>1. file[k] \in ValueOrNone
    BY DEF Store
<1> QED
    BY <1>1, TrimFacts DEF Launched, Merged, ReadCredentials

LEMMA SetupStart == SetupAssumption /\ SetupInit => SetupInv
<1> SUFFICES ASSUME SetupAssumption, SetupInit PROVE SetupInv
    OBVIOUS
<1>1. 0 \in 0..MaxSaves /\ 0 \in 0..MaxStarts /\ \A b \in Blanks : [of |-> 1, blanks |-> b] \in Values
  <2>1. MaxSaves \in Nat /\ MaxStarts \in Nat /\ Blanks \subseteq SUBSET {"before", "after"}
    BY DEF SetupAssumption
  <2> QED
    BY <2>1 DEF Values
<1>2. StoresSetTyped
  <2>1. file \in Store
    BY <1>1 DEF SetupInit, Store, ValueOrNone
  <2> QED
    BY <2>1, EmptyStore DEF SetupInit, StoresSetTyped
<1>3. PagesTyped
    BY <1>1 DEF SetupInit, PagesTyped, NewForm
<1>4. \A c \in Slots : save[c] = NoSave /\ save[c].at = "none"
    BY DEF SetupInit, NoSave
<1>5. SavesFit /\ Intended /\ Carried /\ NoneWhenOff
    BY <1>4 DEF SavesFit, Active, Intended, Carried, NoneWhenOff
<1>6. SavedIsUsed
  <2>1. saved = file /\ launched = {} /\ file \in Store
    BY <1>2 DEF SetupInit, StoresSetTyped
  <2>2. ASSUME NEW k \in Fields
        PROVE  saved[k] # NoValue => Launched[k] = Trimmed(saved[k])
    BY <2>1, LaunchedValue
  <2> QED
    BY <2>1, <2>2 DEF SavedIsUsed
<1> QED
    BY <1>2, <1>3, <1>5, <1>6 DEF SetupInv, StoresInv

LEMMA StoreFacts ==
    ASSUME StoresInv
    PROVE  /\ \A k \in Fields : keychain[k] \in ValueOrNone /\ file[k] \in ValueOrNone
           /\ \A k \in Fields : saved[k] \in ValueOrNone
           /\ \A c \in Slots : save[c] \in SaveRecord
           /\ \A c \in Slots : save[c] # NoSave <=> Active(c)
<1>1. \A c \in Slots : ~Active(c) => save[c] = NoSave
    BY DEF StoresInv, SavesFit
<1>2. \A c \in Slots : save[c] = NoSave => ~Active(c)
    BY EmptyStore DEF Active
<1> QED
    BY <1>1, <1>2 DEF StoresInv, StoresSetTyped, Store

(* A migration stores what it removes: a launch sees no difference. *)
LEMMA StartDesktopKeeps ==
    ASSUME StoresInv, StartDesktop
    PROVE  StoresInv'
<1>1. shown = "off" /\ shown' = "away" /\ Migrate /\ UNCHANGED <<tmp, save, saved, launched>>
    BY DEF StartDesktop
<1>2. \A c \in Slots : save[c] = NoSave /\ save[c].at = "none" /\ save'[c] = save[c]
    BY <1>1, StoreFacts DEF StoresInv, NoneWhenOff, Active
<1>3. /\ keychain' \in Store /\ file' \in Store
      /\ \A k \in Fields : (IF file'[k] # NoValue THEN Trimmed(file'[k]) ELSE keychain'[k])
                           = IF file[k] # NoValue THEN Trimmed(file[k]) ELSE keychain[k]
  <2>1. CASE UNCHANGED <<keychain, file>>
    BY <2>1 DEF StoresInv, StoresSetTyped
  <2>2. ASSUME NEW stored \in SUBSET SetIn(file), keychain' = StoredOf(stored),
               file' \in {file} \cup {Empty : s \in {stored} \cap {SetIn(file)}}
        PROVE  <1>3!1 /\ <1>3!2
    <3>1. keychain' = [k \in Fields |-> IF k \in stored THEN Trimmed(file[k]) ELSE keychain[k]]
      BY <2>2 DEF StoredOf
    <3>2. \A k \in stored : k \in Fields /\ file[k] # NoValue
      BY DEF SetIn
    <3>3. keychain' \in Store
      BY <3>1, StoreFacts, TrimFacts DEF Store
    <3>4. CASE file' = file
      BY <3>1, <3>2, <3>3, <3>4 DEF StoresInv, StoresSetTyped
    <3>5. CASE file' = Empty /\ stored = SetIn(file)
      <4>1. \A k \in Fields : file'[k] = NoValue
        BY <3>5 DEF Empty
      <4>2. \A k \in Fields : k \in stored <=> file[k] # NoValue
        BY <3>5 DEF SetIn
      <4> QED
        BY <3>1, <3>3, <3>5, <4>1, <4>2, EmptyStore
    <3> QED
      BY <2>2, <3>4, <3>5
  <2> QED
    BY <1>1, <2>1, <2>2 DEF Migrate
<1>4. StoresSetTyped'
    BY <1>1, <1>3 DEF StoresInv, StoresSetTyped
<1>5. SavesFit' /\ Intended' /\ Carried' /\ NoneWhenOff'
    BY <1>1, <1>2 DEF SavesFit, Active, Intended, Carried, NoneWhenOff
<1>6. SavedIsUsed'
  <2>1. \A k \in Fields : Launched'[k] = Launched[k]
    BY <1>3, TrimFacts DEF StoresInv, StoresSetTyped, Launched, Merged, ReadCredentials, Store
  <2> QED
    BY <1>1, <2>1 DEF StoresInv, SavedIsUsed
<1> QED
    BY <1>4, <1>5, <1>6 DEF StoresInv

LEMMA QuitDesktopKeeps ==
    ASSUME StoresInv, QuitDesktop
    PROVE  StoresInv'
<1>1. save' = [c \in Slots |-> NoSave] /\ shown' = "off" /\ UNCHANGED <<keychain, file, tmp, saved, launched>>
    BY DEF QuitDesktop, stores
<1>2. \A c \in Slots : save'[c] = NoSave /\ save'[c].at = "none"
    BY <1>1, EmptyStore
<1>3. StoresSetTyped'
    BY <1>1, EmptyStore DEF StoresInv, StoresSetTyped
<1>4. SavesFit' /\ Intended' /\ Carried' /\ NoneWhenOff'
    BY <1>2 DEF SavesFit, Active, Intended, Carried, NoneWhenOff
<1>5. SavedIsUsed'
    BY <1>1 DEF StoresInv, SavedIsUsed, Launched, Merged, ReadCredentials
<1> QED
    BY <1>3, <1>4, <1>5 DEF StoresInv

(* Of two saves under way, both know of the other. *)
LEMMA HandleSaveKeeps ==
    ASSUME SetupAssumption, SetupInv, NEW k \in Fields, NEW c \in Slots, HandleSave(k, c)
    PROVE  StoresInv'
<1> DEFINE clash == \E d \in Slots : save[d] # NoSave
           old(d) == IF save[d] = NoSave THEN NoSave ELSE [save[d] EXCEPT !.clash = TRUE]
<1>0. PICK b \in Blanks :
          save' = [d \in Slots |->
                     IF d = c
                     THEN [NoSave EXCEPT !.at = "read", !.key = k, !.value = [of |-> saves + 2, blanks |-> b],
                                         !.clash = clash]
                     ELSE old(d)]
    BY DEF HandleSave
<1> DEFINE value == [of |-> saves + 2, blanks |-> b]
           new == [NoSave EXCEPT !.at = "read", !.key = k, !.value = value, !.clash = clash]
<1>1. /\ save[c] = NoSave /\ shown = "credentials" /\ saves < MaxSaves
      /\ save' = [d \in Slots |-> IF d = c THEN new ELSE old(d)]
      /\ saved' = [saved EXCEPT ![k] = NoValue]
      /\ UNCHANGED <<keychain, file, tmp, shown, launched>>
    BY <1>0 DEF HandleSave, stores
<1>2. StoresInv /\ StoresSetTyped
    BY DEF SetupInv, StoresInv
<1>3. value \in Values /\ value # NoValue
  <2>1. MaxSaves \in Nat /\ saves \in 0..MaxSaves
    BY DEF SetupAssumption, SetupInv, PagesTyped
  <2>2. saves < MaxSaves
    BY <1>1
  <2>3. b \subseteq {"before", "after"}
    BY <1>1 DEF SetupAssumption
  <2> HIDE DEF new, old, clash
  <2> QED
    BY <2>1, <2>2, <2>3 DEF Values, NoValue, value
<1> HIDE DEF value
<1>4. clash \in BOOLEAN
    OBVIOUS
<1>5. ASSUME ~clash
      PROVE  \A d \in Slots : save[d] = NoSave
    BY <1>5
<1> HIDE DEF clash
<1>6. /\ new \in SaveRecord /\ new.at = "read" /\ new.key = k /\ new.value = value
      /\ new.clash = clash
    BY <1>3, <1>4, EmptyStore DEF SaveRecord, SaveSteps, ValueOrNone
<1>7. ASSUME NEW d \in Slots
      PROVE  /\ old(d) \in SaveRecord
             /\ old(d).at = save[d].at /\ old(d).key = save[d].key /\ old(d).value = save[d].value
             /\ old(d).map = save[d].map
             /\ old(d).clash <=> Active(d)
             /\ save[d] = NoSave => old(d) = NoSave
  <2>1. save[d] \in SaveRecord /\ (save[d] # NoSave <=> Active(d))
    BY <1>2, StoreFacts
  <2>2. CASE save[d] = NoSave
    <3>1. old(d) = NoSave /\ ~NoSave.clash
      BY <2>2 DEF NoSave
    <3> QED
      BY <2>1, <2>2, <3>1, EmptyStore
  <2>3. CASE save[d] # NoSave
    BY <2>1, <2>3 DEF SaveRecord
  <2> QED
    BY <2>2, <2>3
<1> HIDE DEF new, old
<1>8. save'[c] = new /\ \A d \in Slots : d # c => save'[d] = old(d)
    BY <1>1
<1>9. StoresSetTyped'
  <2>1. save' \in [Slots -> SaveRecord]
    BY <1>1, <1>6, <1>7
  <2>2. saved' \in Store
    BY <1>1, <1>2 DEF StoresSetTyped, Store, ValueOrNone
  <2> QED
    BY <1>1, <1>2, <2>1, <2>2 DEF StoresSetTyped
<1>10. saved'[k] = NoValue /\ \A f \in Fields : saved'[f] \in {saved[f], NoValue}
    BY <1>1, <1>2 DEF StoresSetTyped, Store
<1>11. \A d \in Slots : d # c => (Active(d)' <=> Active(d))
    BY <1>7, <1>8 DEF Active
<1>12. Active(c)'
    BY <1>6, <1>8 DEF Active
<1>13. SavesFit'
  <2> SUFFICES ASSUME NEW d \in Slots
               PROVE  /\ Active(d)' => /\ save'[d].key \in Fields /\ save'[d].value # NoValue
                                       /\ saved'[save'[d].key] = NoValue
                      /\ ~Active(d)' => save'[d] = NoSave
                      /\ Active(d)' /\ ~save'[d].clash => \A e \in Slots : e # d => ~Active(e)'
    BY DEF SavesFit
  <2>1. CASE d = c
    <3>1. save'[d].key \in Fields /\ save'[d].value # NoValue /\ saved'[save'[d].key] = NoValue
      BY <1>3, <1>6, <1>8, <1>10, <2>1
    <3>2. ~save'[d].clash => \A e \in Slots : e # d => ~Active(e)'
      BY <1>2, <1>5, <1>6, <1>8, <1>11, <2>1, StoreFacts
    <3> QED
      BY <1>12, <2>1, <3>1, <3>2
  <2>2. CASE d # c
    <3>1. save'[d] = old(d) /\ (Active(d)' <=> Active(d)) /\ SavesFit
      BY <1>2, <1>8, <1>11, <2>2 DEF StoresInv
    <3>2. CASE Active(d)
      <4>1. save[d].key \in Fields /\ save[d].value # NoValue /\ saved[save[d].key] = NoValue
        BY <3>1, <3>2 DEF SavesFit
      <4> QED
        BY <1>7, <1>10, <3>1, <3>2, <4>1
    <3>3. CASE ~Active(d)
      BY <1>7, <3>1, <3>3 DEF SavesFit
    <3> QED
      BY <3>2, <3>3
  <2> QED
    BY <2>1, <2>2
<1>14. Intended'
  <2> SUFFICES ASSUME NEW d \in Slots, ~save'[d].clash
               PROVE  save'[d].at \notin {"write", "rename", "chmod"}
    BY DEF Intended
  <2>1. CASE d = c
    BY <1>6, <1>8, <2>1
  <2>2. CASE d # c
    BY <1>7, <1>8, <2>2 DEF Active
  <2> QED
    BY <2>1, <2>2
<1>15. Carried'
  <2>1. \A store : Preserves(store) => \A f \in Fields : saved'[f] # NoValue => Trimmed(store[f]) = Trimmed(file'[f])
    BY <1>1, <1>10 DEF Preserves
  <2>2. Carried
    BY <1>2 DEF StoresInv
  <2> SUFFICES ASSUME NEW d \in Slots
               PROVE  /\ save'[d].at \in {"write", "rename"} => Preserves(save[d].map)'
                      /\ save'[d].at = "rename" /\ tmp' # Empty' => Preserves(tmp)'
    BY DEF Carried
  <2>3. CASE d = c
    BY <1>6, <1>8, <2>3
  <2>4. CASE d # c
    <3>1. save'[d].at = save[d].at /\ save'[d].map = save[d].map /\ tmp' = tmp
      BY <1>1, <1>7, <1>8, <2>4
    <3> QED
      BY <2>1, <2>2, <3>1 DEF Carried, Preserves
  <2> QED
    BY <2>3, <2>4
<1>16. NoneWhenOff'
    BY <1>1 DEF NoneWhenOff
<1>17. SavedIsUsed'
    BY <1>1, <1>2, <1>10 DEF StoresInv, SavedIsUsed, Launched, Merged, ReadCredentials
<1> QED
    BY <1>9, <1>13, <1>14, <1>15, <1>16, <1>17 DEF StoresInv

(* One save under way becomes v. *)
LEMMA SaveReadsKeeps ==
    ASSUME StoresInv, NEW c \in Slots, SaveReads(c)
    PROVE  StoresInv'
<1> DEFINE m == [k \in Fields |-> IF k = save[c].key THEN save[c].value ELSE LineTrimmed(file[k])]
           v == [save[c] EXCEPT !.at = "write", !.map = m]
<1>1. /\ save[c].at = "read" /\ save' = [save EXCEPT ![c] = v]
      /\ UNCHANGED <<keychain, file, tmp, saved, shown, launched>>
    BY DEF SaveReads, stores, pages, StoresInv, StoresSetTyped
<1>2. /\ StoresSetTyped /\ save[c] \in SaveRecord /\ Active(c)
      /\ save[c].key \in Fields /\ saved[save[c].key] = NoValue
    BY <1>1, StoreFacts DEF StoresInv, SavesFit, Active
<1>3. /\ m \in Store /\ m[save[c].key] = save[c].value
      /\ \A k \in Fields : k # save[c].key => Trimmed(m[k]) = Trimmed(file[k])
  <2>1. \A k \in Fields : LineTrimmed(file[k]) \in ValueOrNone /\ Trimmed(LineTrimmed(file[k])) = Trimmed(file[k])
    BY StoreFacts, TrimFacts
  <2> QED
    BY <1>2, <2>1 DEF Store, SaveRecord
<1> HIDE DEF m
<1>4. /\ v \in SaveRecord /\ v.at = "write" /\ v.map = m /\ v.key = save[c].key
      /\ v.value = save[c].value /\ v.clash = save[c].clash
    BY <1>2, <1>3 DEF SaveRecord, SaveSteps
<1> HIDE DEF v
<1>5. save'[c] = v /\ \A d \in Slots : d # c => save'[d] = save[d]
    BY <1>1, <1>2 DEF StoresSetTyped
<1>6. StoresSetTyped'
    BY <1>1, <1>2, <1>4 DEF StoresSetTyped
<1>7. \A d \in Slots : Active(d)' <=> Active(d)
    BY <1>1, <1>4, <1>5 DEF Active
<1>8. SavesFit'
    BY <1>1, <1>2, <1>4, <1>5, <1>7 DEF StoresInv, SavesFit
<1>9. Intended'
    BY <1>1, <1>3, <1>4, <1>5 DEF StoresInv, Intended
<1>10. Carried'
  <2>1. Preserves(save'[c].map)
    BY <1>2, <1>3, <1>4, <1>5 DEF Preserves
  <2> QED
    BY <1>1, <1>4, <1>5, <2>1 DEF StoresInv, Carried, Preserves
<1>11. NoneWhenOff'
    BY <1>1, <1>7 DEF StoresInv, NoneWhenOff
<1>12. SavedIsUsed'
    BY <1>1 DEF StoresInv, SavedIsUsed, Launched, Merged, ReadCredentials
<1> QED
    BY <1>6, <1>8, <1>9, <1>10, <1>11, <1>12 DEF StoresInv

(* What a step of the same save moves on. *)
LEMMA StepOn ==
    ASSUME StoresInv, NEW c \in Slots, NEW step \in SaveSteps, step # "none", Active(c), SaveAt(c, step)
    PROVE  /\ save' \in [Slots -> SaveRecord]
           /\ save'[c].at = step /\ save'[c].key = save[c].key /\ save'[c].value = save[c].value
           /\ save'[c].map = save[c].map /\ save'[c].clash = save[c].clash
           /\ \A d \in Slots : d # c => save'[d] = save[d]
           /\ \A d \in Slots : Active(d)' <=> Active(d)
<1> DEFINE v == [save[c] EXCEPT !.at = step]
<1>1. save[c] \in SaveRecord /\ save \in [Slots -> SaveRecord]
    BY StoreFacts DEF StoresInv, StoresSetTyped
<1>2. /\ v \in SaveRecord /\ v.at = step /\ v.map = save[c].map /\ v.key = save[c].key
      /\ v.value = save[c].value /\ v.clash = save[c].clash
    BY <1>1 DEF SaveRecord
<1>3. save' = [save EXCEPT ![c] = v]
    BY <1>1 DEF SaveAt
<1> HIDE DEF v
<1>4. save'[c] = v /\ (\A d \in Slots : d # c => save'[d] = save[d]) /\ save' \in [Slots -> SaveRecord]
    BY <1>1, <1>2, <1>3
<1> QED
    BY <1>2, <1>4 DEF Active

LEMMA SaveWritesKeeps ==
    ASSUME StoresInv, NEW c \in Slots, SaveWrites(c)
    PROVE  StoresInv'
<1>1. /\ save[c].at = "write" /\ tmp' = save[c].map /\ SaveAt(c, "rename")
      /\ UNCHANGED <<keychain, file, saved, shown, launched>>
    BY DEF SaveWrites, pages
<1>2. StoresSetTyped /\ save[c] \in SaveRecord /\ Active(c) /\ Preserves(save[c].map)
    BY <1>1, StoreFacts DEF StoresInv, Active, Carried
<1>3. /\ save' \in [Slots -> SaveRecord]
      /\ save'[c].at = "rename" /\ save'[c].key = save[c].key /\ save'[c].value = save[c].value
      /\ save'[c].map = save[c].map /\ save'[c].clash = save[c].clash
      /\ \A d \in Slots : d # c => save'[d] = save[d]
      /\ \A d \in Slots : Active(d)' <=> Active(d)
    BY <1>1, <1>2, StepOn DEF SaveSteps
<1>4. StoresSetTyped'
    BY <1>1, <1>2, <1>3 DEF StoresSetTyped, SaveRecord
<1>5. SavesFit'
    BY <1>1, <1>2, <1>3 DEF StoresInv, SavesFit
<1>6. Intended'
  <2> SUFFICES ASSUME NEW d \in Slots, ~save'[d].clash
               PROVE  /\ save'[d].at \in {"write", "rename"} => save'[d].map[save'[d].key] = save'[d].value
                      /\ save'[d].at = "rename" => tmp' = save'[d].map
                      /\ save'[d].at = "chmod" => file'[save'[d].key] = save'[d].value
    BY DEF Intended
  <2>1. CASE d = c
    BY <1>1, <1>3, <2>1 DEF StoresInv, Intended
  <2>2. CASE d # c
    <3>1. ~Active(d)
      BY <1>2, <1>3, <2>2 DEF StoresInv, SavesFit
    <3> QED
      BY <1>3, <2>2, <3>1 DEF Active
  <2> QED
    BY <2>1, <2>2
<1>7. Carried'
  <2>1. Preserves(tmp)'
    BY <1>1, <1>2 DEF Preserves
  <2>2. ASSUME NEW d \in Slots, save'[d].at \in {"write", "rename"}
        PROVE  Preserves(save[d].map)'
    <3>1. save'[d].map = save[d].map /\ Preserves(save[d].map)
      BY <1>2, <1>3, <2>2 DEF StoresInv, Carried
    <3> QED
      BY <1>1, <3>1 DEF Preserves
  <2> QED
    BY <2>1, <2>2 DEF Carried
<1>8. NoneWhenOff'
    BY <1>1, <1>3 DEF StoresInv, NoneWhenOff
<1>9. SavedIsUsed'
    BY <1>1 DEF StoresInv, SavedIsUsed, Launched, Merged, ReadCredentials
<1> QED
    BY <1>4, <1>5, <1>6, <1>7, <1>8, <1>9 DEF StoresInv

(* The renamed file brings what the old one had of the saved keys. *)
LEMMA SaveRenamesKeeps ==
    ASSUME StoresInv, NEW c \in Slots, SaveRenames(c)
    PROVE  StoresInv'
<1>1. /\ save[c].at = "rename" /\ tmp # Empty /\ file' = tmp /\ tmp' = Empty /\ SaveAt(c, "chmod")
      /\ UNCHANGED <<keychain, saved, shown, launched>>
    BY DEF SaveRenames, pages
<1>2. StoresSetTyped /\ save[c] \in SaveRecord /\ Active(c) /\ Preserves(tmp)
    BY <1>1, StoreFacts DEF StoresInv, Active, Carried
<1>3. /\ save' \in [Slots -> SaveRecord]
      /\ save'[c].at = "chmod" /\ save'[c].key = save[c].key /\ save'[c].value = save[c].value
      /\ save'[c].map = save[c].map /\ save'[c].clash = save[c].clash
      /\ \A d \in Slots : d # c => save'[d] = save[d]
      /\ \A d \in Slots : Active(d)' <=> Active(d)
    BY <1>1, <1>2, StepOn DEF SaveSteps
<1>4. \A k \in Fields : saved[k] # NoValue => Trimmed(file'[k]) = Trimmed(file[k])
    BY <1>1, <1>2 DEF Preserves
<1>5. StoresSetTyped'
    BY <1>1, <1>2, <1>3, EmptyStore DEF StoresSetTyped
<1>6. SavesFit'
    BY <1>1, <1>2, <1>3 DEF StoresInv, SavesFit
<1>7. Intended'
  <2> SUFFICES ASSUME NEW d \in Slots, ~save'[d].clash
               PROVE  /\ save'[d].at \in {"write", "rename"} => save'[d].map[save'[d].key] = save'[d].value
                      /\ save'[d].at = "rename" => tmp' = save'[d].map
                      /\ save'[d].at = "chmod" => file'[save'[d].key] = save'[d].value
    BY DEF Intended
  <2>1. CASE d = c
    BY <1>1, <1>3, <2>1 DEF StoresInv, Intended
  <2>2. CASE d # c
    <3>1. ~Active(d)
      BY <1>2, <1>3, <2>2 DEF StoresInv, SavesFit
    <3> QED
      BY <1>3, <2>2, <3>1 DEF Active
  <2> QED
    BY <2>1, <2>2
<1>8. Carried'
  <2>1. ASSUME NEW d \in Slots, save'[d].at \in {"write", "rename"}
        PROVE  Preserves(save[d].map)'
    <3>1. save'[d].map = save[d].map /\ Preserves(save[d].map)
      BY <1>3, <2>1 DEF StoresInv, Carried
    <3> QED
      BY <1>1, <1>4, <3>1 DEF Preserves
  <2>2. Empty' = Empty
    BY DEF Empty
  <2> QED
    BY <1>1, <2>1, <2>2 DEF Carried
<1>9. NoneWhenOff'
    BY <1>1, <1>3 DEF StoresInv, NoneWhenOff
<1>10. SavedIsUsed'
  <2> SUFFICES ASSUME NEW k \in Fields, saved[k] # NoValue
               PROVE  Launched'[k] = Trimmed(saved[k])
    BY <1>1 DEF StoresInv, SavedIsUsed
  <2>1. Launched[k] = Trimmed(saved[k])
    BY DEF StoresInv, SavedIsUsed
  <2> QED
    BY <1>1, <1>4, <2>1 DEF Launched, Merged, ReadCredentials
<1> QED
    BY <1>5, <1>6, <1>7, <1>8, <1>9, <1>10 DEF StoresInv

(* A save ends: what it was to write is in the file, or is not known. *)
LEMMA SaveEndsKeeps ==
    ASSUME StoresInv, NEW c \in Slots, Active(c), SaveEnds(c), saved' \in Store,
           \A k \in Fields : saved'[k] \in {saved[k], NoValue}
              \/ (save[c].at = "chmod" /\ ~save[c].clash /\ k = save[c].key /\ saved'[k] = save[c].value)
    PROVE  StoresInv'
<1>1. /\ save' = [save EXCEPT ![c] = NoSave] /\ UNCHANGED <<keychain, file, tmp, shown, launched>>
    BY DEF SaveEnds, stores
<1>2. StoresSetTyped /\ SavesFit
    BY DEF StoresInv
<1>3. save'[c] = NoSave /\ \A d \in Slots : d # c => save'[d] = save[d]
    BY <1>1, <1>2 DEF StoresSetTyped
<1>4. ~Active(c)' /\ \A d \in Slots : d # c => (Active(d)' <=> Active(d))
    BY <1>3, EmptyStore DEF Active
<1>5. ASSUME NEW d \in Slots, d # c, Active(d)
      PROVE  \A k \in Fields : saved'[k] \in {saved[k], NoValue}
    BY <1>2, <1>5 DEF SavesFit
<1>6. StoresSetTyped'
    BY <1>1, <1>2, EmptyStore DEF StoresSetTyped
<1>7. SavesFit'
  <2> SUFFICES ASSUME NEW d \in Slots
               PROVE  /\ Active(d)' => /\ save'[d].key \in Fields /\ save'[d].value # NoValue
                                       /\ saved'[save'[d].key] = NoValue
                      /\ ~Active(d)' => save'[d] = NoSave
                      /\ Active(d)' /\ ~save'[d].clash => \A e \in Slots : e # d => ~Active(e)'
    BY DEF SavesFit
  <2>1. CASE d = c
    BY <1>3, <1>4, <2>1
  <2>2. CASE d # c
    BY <1>2, <1>3, <1>4, <1>5, <2>2 DEF SavesFit
  <2> QED
    BY <2>1, <2>2
<1>8. Intended'
    BY <1>1, <1>3, EmptyStore DEF StoresInv, Intended
<1>9. Carried'
  <2> SUFFICES ASSUME NEW d \in Slots
               PROVE  /\ save'[d].at \in {"write", "rename"} => Preserves(save[d].map)'
                      /\ save'[d].at = "rename" /\ tmp' # Empty' => Preserves(tmp)'
    BY DEF Carried
  <2>1. CASE d = c
    BY <1>3, <2>1, EmptyStore
  <2>2. CASE d # c /\ Active(d)
    <3>1. \A store : Preserves(store) => \A k \in Fields : saved'[k] # NoValue => Trimmed(store[k]) = Trimmed(file'[k])
      BY <1>1, <1>5, <2>2 DEF Preserves
    <3>2. save'[d] = save[d] /\ tmp' = tmp /\ Carried
      BY <1>1, <1>3, <2>2 DEF StoresInv
    <3> QED
      BY <3>1, <3>2 DEF Carried, Preserves
  <2>3. CASE d # c /\ ~Active(d)
    BY <1>3, <2>3 DEF Active
  <2> QED
    BY <2>1, <2>2, <2>3
<1>10. NoneWhenOff'
    BY <1>1, <1>4 DEF StoresInv, NoneWhenOff
<1>11. SavedIsUsed'
  <2>1. \A k \in Fields : Launched'[k] = Launched[k]
    BY <1>1 DEF Launched, Merged, ReadCredentials
  <2> SUFFICES ASSUME NEW k \in Fields, saved'[k] # NoValue
               PROVE  Launched[k] = Trimmed(saved'[k])
    BY <1>1, <2>1 DEF StoresInv, SavedIsUsed
  <2>2. CASE saved'[k] = saved[k]
    BY <2>2 DEF StoresInv, SavedIsUsed
  <2>3. CASE save[c].at = "chmod" /\ ~save[c].clash /\ k = save[c].key /\ saved'[k] = save[c].value
    <3>1. file[k] = saved'[k] /\ file \in Store
      BY <1>2, <2>3 DEF StoresInv, Intended, StoresSetTyped
    <3> QED
      BY <3>1, LaunchedValue
  <2> QED
    BY <2>2, <2>3
<1> QED
    BY <1>6, <1>7, <1>8, <1>9, <1>10, <1>11 DEF StoresInv

LEMMA SaveAnsweredKeeps ==
    ASSUME StoresInv, NEW c \in Slots, SaveAnswered(c)
    PROVE  StoresInv'
<1> DEFINE n == IF save[c].clash THEN NoValue ELSE save[c].value
<1>1. save[c].at = "chmod" /\ saved' = [saved EXCEPT ![save[c].key] = n] /\ SaveEnds(c) /\ Active(c)
    BY DEF SaveAnswered, Active
<1>2. save[c].key \in Fields /\ save[c] \in SaveRecord /\ saved \in Store
    BY <1>1, StoreFacts DEF StoresInv, SavesFit, StoresSetTyped
<1>3. n \in ValueOrNone /\ (n = NoValue \/ (~save[c].clash /\ n = save[c].value))
    BY <1>2 DEF SaveRecord, ValueOrNone
<1> HIDE DEF n
<1>4. /\ saved' \in Store
      /\ saved'[save[c].key] = n /\ \A k \in Fields : k # save[c].key => saved'[k] = saved[k]
    BY <1>1, <1>2, <1>3 DEF Store
<1>5. \A k \in Fields : saved'[k] \in {saved[k], NoValue}
          \/ (save[c].at = "chmod" /\ ~save[c].clash /\ k = save[c].key /\ saved'[k] = save[c].value)
    BY <1>1, <1>3, <1>4
<1> QED
    BY <1>1, <1>4, <1>5, SaveEndsKeeps

LEMMA SaveFailsKeeps ==
    ASSUME StoresInv, NEW c \in Slots, SaveFails(c)
    PROVE  StoresInv'
<1>1. save[c] # NoSave /\ SaveEnds(c) /\ saved' = saved
    BY DEF SaveFails
<1>2. Active(c) /\ saved' \in Store
    BY <1>1, StoreFacts DEF StoresInv, StoresSetTyped
<1> QED
    BY <1>1, <1>2, SaveEndsKeeps

(* The saves that are under way go on. *)
LEMMA SavesGoOn ==
    ASSUME StoresInv, UNCHANGED <<keychain, file, tmp, saved, launched>>,
           shown' # "off" \/ UNCHANGED shown, UNCHANGED save \/ shown = "detect",
           save' \in [Slots -> SaveRecord],
           \A c \in Slots :
              /\ save'[c].at = save[c].at /\ save'[c].key = save[c].key /\ save'[c].value = save[c].value
              /\ save'[c].map = save[c].map /\ save'[c].clash = save[c].clash
              /\ save[c] = NoSave => save'[c] = NoSave
    PROVE  StoresInv'
<1>1. \A c \in Slots : Active(c)' <=> Active(c)
    BY DEF Active
<1>2. StoresSetTyped'
    BY DEF StoresInv, StoresSetTyped
<1>3. SavesFit'
    BY <1>1 DEF StoresInv, SavesFit
<1>4. Intended'
    BY DEF StoresInv, Intended
<1>5. Carried'
    BY DEF StoresInv, Carried, Preserves, Empty
<1>6. NoneWhenOff'
    BY <1>1 DEF StoresInv, NoneWhenOff
<1>7. SavedIsUsed'
    BY DEF StoresInv, SavedIsUsed, Launched, Merged, ReadCredentials
<1> QED
    BY <1>2, <1>3, <1>4, <1>5, <1>6, <1>7 DEF StoresInv

LEMMA HandleNextKeeps ==
    ASSUME StoresInv, HandleNext
    PROVE  StoresInv'
<1>1. /\ shown' = "credentials" /\ UNCHANGED <<keychain, file, tmp, saved, launched>> /\ shown = "detect"
      /\ save' = [c \in Slots |-> IF save[c] = NoSave THEN NoSave ELSE [save[c] EXCEPT !.mine = FALSE]]
    BY DEF HandleNext, stores
<1>2. ASSUME NEW c \in Slots
      PROVE  /\ save'[c] \in SaveRecord
             /\ save'[c].at = save[c].at /\ save'[c].key = save[c].key /\ save'[c].value = save[c].value
             /\ save'[c].map = save[c].map /\ save'[c].clash = save[c].clash
             /\ save[c] = NoSave => save'[c] = NoSave
  <2>1. save[c] \in SaveRecord
    BY StoreFacts
  <2>2. CASE save[c] = NoSave
    BY <1>1, <2>1, <2>2
  <2>3. CASE save[c] # NoSave
    <3> DEFINE v == [save[c] EXCEPT !.mine = FALSE]
    <3>1. /\ v \in SaveRecord /\ v.at = save[c].at /\ v.map = save[c].map /\ v.key = save[c].key
          /\ v.value = save[c].value /\ v.clash = save[c].clash
      BY <2>1 DEF SaveRecord
    <3>2. save'[c] = v
      BY <1>1, <2>3
    <3> HIDE DEF v
    <3> QED
      BY <2>3, <3>1, <3>2
  <2> QED
    BY <2>2, <2>3
<1>3. save' \in [Slots -> SaveRecord]
    BY <1>1, <1>2
<1> QED
    BY <1>1, <1>2, <1>3, SavesGoOn

LEMMA PagesKeep ==
    ASSUME StoresInv, UNCHANGED <<stores, save, saved, launched>>,
           shown' # "off" \/ UNCHANGED shown
    PROVE  StoresInv'
<1>1. UNCHANGED <<keychain, file, tmp, save, saved, launched>> /\ save \in [Slots -> SaveRecord]
    BY DEF stores, StoresInv, StoresSetTyped
<1> QED
    BY <1>1, SavesGoOn

(* A launch uses what was saved. *)
LEMMA LaunchKeeps ==
    ASSUME StoresInv, LaunchRecon
    PROVE  StoresInv'
<1>1. /\ launched' = launched \cup {k \in Fields : saved[k] # NoValue /\ Launched[k] # Trimmed(saved[k])}
      /\ UNCHANGED <<stores, save, saved, shown>>
    BY DEF LaunchRecon, pages
<1>2. launched' = launched
    BY <1>1 DEF StoresInv, SavedIsUsed
<1> QED
    BY <1>1, <1>2, PagesKeep

LEMMA StoresStep ==
    ASSUME SetupAssumption, SetupInv, [SetupNext]_setupVars
    PROVE  StoresInv'
<1>1. StoresInv
    BY DEF SetupInv
<1>2. CASE UNCHANGED setupVars
    BY <1>1, <1>2, PagesKeep DEF setupVars, pages
<1>3. CASE StartDesktop
    BY <1>1, <1>3, StartDesktopKeeps
<1>4. CASE QuitDesktop
    BY <1>1, <1>4, QuitDesktopKeeps
<1>5. ASSUME NEW k \in Fields, NEW c \in Slots, HandleSave(k, c)
      PROVE  StoresInv'
    BY <1>5, HandleSaveKeeps
<1>6. ASSUME NEW c \in Slots,
             SaveReads(c) \/ SaveWrites(c) \/ SaveRenames(c) \/ SaveAnswered(c) \/ SaveFails(c)
      PROVE  StoresInv'
    BY <1>1, <1>6, SaveReadsKeeps, SaveWritesKeeps, SaveRenamesKeeps, SaveAnsweredKeeps, SaveFailsKeeps
<1>7. CASE HandleNext
    BY <1>1, <1>7, HandleNextKeeps
<1>8. CASE Detected \/ HandleBack \/ HandleVerifyAll \/ Verified \/ OpenRecon \/ SetupChecked \/ Preflight
           \/ LeaveDashboard
    BY <1>1, <1>8, PagesKeep DEF Detected, HandleBack, HandleVerifyAll, Verified, OpenRecon, SetupChecked,
       Preflight, LeaveDashboard
<1>9. CASE LaunchRecon
    BY <1>1, <1>9, LaunchKeeps
<1> QED
    BY <1>2, <1>3, <1>4, <1>5, <1>6, <1>7, <1>8, <1>9 DEF SetupNext

FormRecord == [saving : SUBSET Fields, verifying : BOOLEAN, passed : BOOLEAN]

LEMMA FormStep ==
    ASSUME SetupInv, [SetupNext]_setupVars
    PROVE  form' \in FormRecord
<1>1. form \in FormRecord /\ StoresInv
    BY DEF SetupInv, PagesTyped, FormRecord
<1>2. NewForm \in FormRecord
    BY DEF NewForm, FormRecord
<1>3. CASE UNCHANGED form
    BY <1>1, <1>3
<1>4. CASE form' = NewForm
    BY <1>2, <1>4
<1>5. ASSUME NEW k \in Fields, form' = [form EXCEPT !.saving = @ \cup {k}]
      PROVE  form' \in FormRecord
    BY <1>1, <1>5 DEF FormRecord
<1>6. ASSUME NEW c \in Slots, SaveEnds(c)
      PROVE  form' \in FormRecord
    BY <1>1, <1>6 DEF SaveEnds, FormRecord
<1>7. CASE HandleVerifyAll
    BY <1>1, <1>7 DEF HandleVerifyAll, FormRecord
<1>8. CASE Verified
  <2>1. PICK valid \in SUBSET Verifiable :
          form' = [form EXCEPT !.verifying = FALSE,
                               !.passed = @ \/ (valid = Fields /\ OtherKeys = {})]
    BY <1>8 DEF Verified, ServiceAnswers
  <2> DEFINE b == form.passed \/ (valid = Fields /\ OtherKeys = {})
  <2>2. b \in BOOLEAN
    OBVIOUS
  <2>3. form' = [form EXCEPT !.verifying = FALSE, !.passed = b]
    BY <2>1
  <2> HIDE DEF b
  <2> QED
    BY <1>1, <2>2, <2>3 DEF FormRecord
<1>9. \/ UNCHANGED form \/ form' = NewForm
      \/ \E k \in Fields : form' = [form EXCEPT !.saving = @ \cup {k}]
      \/ \E c \in Slots : SaveEnds(c)
      \/ HandleVerifyAll \/ Verified
    BY DEF SetupNext, setupVars, pages, StartDesktop, QuitDesktop, HandleSave, SaveReads, SaveWrites,
       SaveRenames, SaveAnswered, SaveFails, Detected, HandleNext, HandleBack, OpenRecon, SetupChecked, Preflight,
       LeaveDashboard, LaunchRecon
<1> QED
    BY <1>3, <1>4, <1>5, <1>6, <1>7, <1>8, <1>9

LEMMA PagesStep ==
    ASSUME SetupAssumption, SetupInv, [SetupNext]_setupVars
    PROVE  PagesTyped'
<1>1. PagesTyped /\ MaxSaves \in Nat /\ MaxStarts \in Nat
    BY DEF SetupInv, SetupAssumption
<1>2. saves' \in 0..MaxSaves
  <2>1. saves' = saves \/ (saves < MaxSaves /\ saves' = saves + 1)
    BY DEF SetupNext, setupVars, pages, StartDesktop, QuitDesktop, HandleSave, SaveReads, SaveWrites,
       SaveRenames, SaveEnds, SaveAnswered, SaveFails, Detected, HandleNext, HandleBack, HandleVerifyAll, Verified,
       OpenRecon, SetupChecked, Preflight, LeaveDashboard, LaunchRecon
  <2> QED
    BY <1>1, <2>1 DEF PagesTyped
<1>3. starts' \in 0..MaxStarts
  <2>1. starts' = starts \/ (starts < MaxStarts /\ starts' = starts + 1)
    BY DEF SetupNext, setupVars, pages, StartDesktop, QuitDesktop, HandleSave, SaveReads, SaveWrites,
       SaveRenames, SaveEnds, SaveAnswered, SaveFails, Detected, HandleNext, HandleBack, HandleVerifyAll, Verified,
       OpenRecon, SetupChecked, Preflight, LeaveDashboard, LaunchRecon
  <2> QED
    BY <1>1, <2>1 DEF PagesTyped
<1>4. shown' \in {"off", "away", "guard", "detect", "credentials", "dashboard"}
  <2>1. shown' = shown \/ shown' \in {"off", "away", "guard", "detect", "credentials", "dashboard"}
    BY DEF SetupNext, setupVars, pages, StartDesktop, QuitDesktop, HandleSave, SaveReads, SaveWrites,
       SaveRenames, SaveEnds, SaveAnswered, SaveFails, Detected, HandleNext, HandleBack, HandleVerifyAll, Verified,
       OpenRecon, SetupChecked, Preflight, LeaveDashboard, LaunchRecon
  <2> QED
    BY <1>1, <2>1 DEF PagesTyped
<1>5. claude' \in BOOLEAN
  <2>1. claude' = claude \/ claude' \in BOOLEAN
    BY DEF SetupNext, setupVars, pages, StartDesktop, QuitDesktop, HandleSave, SaveReads, SaveWrites,
       SaveRenames, SaveEnds, SaveAnswered, SaveFails, Detected, HandleNext, HandleBack, HandleVerifyAll, Verified,
       OpenRecon, SetupChecked, Preflight, LeaveDashboard, LaunchRecon
  <2> QED
    BY <1>1, <2>1 DEF PagesTyped
<1>6. canLaunch' \in BOOLEAN
  <2>1. canLaunch' = canLaunch \/ canLaunch' = FALSE \/ canLaunch' \in {FALSE, ReadyKeys \subseteq ListStoredKeys}
    BY DEF SetupNext, setupVars, pages, StartDesktop, QuitDesktop, HandleSave, SaveReads, SaveWrites,
       SaveRenames, SaveEnds, SaveAnswered, SaveFails, Detected, HandleNext, HandleBack, HandleVerifyAll, Verified,
       OpenRecon, SetupChecked, Preflight, LeaveDashboard, LaunchRecon
  <2> QED
    BY <1>1, <2>1 DEF PagesTyped
<1>7. listed' \subseteq Fields
  <2>1. listed' = listed \/ listed' = {} \/ listed' = SetIn(file)
    BY DEF SetupNext, setupVars, pages, StartDesktop, QuitDesktop, HandleSave, SaveReads, SaveWrites,
       SaveRenames, SaveEnds, SaveAnswered, SaveFails, Detected, HandleNext, HandleBack, HandleVerifyAll, Verified,
       OpenRecon, SetupChecked, Preflight, LeaveDashboard, LaunchRecon
  <2> QED
    BY <1>1, <2>1 DEF PagesTyped, SetIn
<1>8. form' \in [saving : SUBSET Fields, verifying : BOOLEAN, passed : BOOLEAN]
    BY FormStep DEF FormRecord
<1> QED
    BY <1>2, <1>3, <1>4, <1>5, <1>6, <1>7, <1>8 DEF PagesTyped

LEMMA SetupStep ==
    ASSUME SetupAssumption, SetupInv, [SetupNext]_setupVars
    PROVE  SetupInv'
BY StoresStep, PagesStep DEF SetupInv

(* Types of Recon's credentials, saves and pages. *)
THEOREM SetupTypeCorrect == SetupSpec => []SetupTypeOK
<1>1. SetupInv /\ [SetupNext]_setupVars => SetupInv'
    BY SetupAssumption, SetupStep
<1>2. SetupInit => SetupInv
    BY SetupAssumption, SetupStart
<1> QED
    BY <1>1, <1>2, SetupTypes, PTL DEF SetupSpec

(* What was saved last without another save under way is what a launch gives  *)
(* to claude, trimmed, for any fields, blanks and bounds (recon.rs:46-56,     *)
(* 108-128, keychain.rs:55-115, credentials.ts:148-191).                     *)
THEOREM LaunchUsesSaved == SetupSpec => []SavedIsUsed
<1>1. SetupInv /\ [SetupNext]_setupVars => SetupInv'
    BY SetupAssumption, SetupStep
<1>2. SetupInit => SetupInv
    BY SetupAssumption, SetupStart
<1>3. SetupInv => SavedIsUsed
    BY DEF SetupInv, StoresInv
<1> QED
    BY <1>1, <1>2, <1>3, PTL DEF SetupSpec

-----------------------------------------------------------------------------
(* Hosted environments. *)
PollSteps == {"none", "next", "sha", "deployments", "statuses", "answer"}
PollRecord ==
    [step : PollSteps, pr : PRs \cup {NoPR}, todo : SUBSET PRs, commit : Commits, status : EnvStatuses \cup {"none"}]

EnvTyped ==
    /\ envs \in Seq(EnvRecord) /\ Len(envs) <= MaxEnvRows
    /\ head \in [PRs -> Commits]
    /\ deployed \in [PRs -> [Commits -> EnvStatuses \cup {"none"}]]
    /\ debounce \subseteq PRs /\ monitoring \in BOOLEAN
    /\ ghPoll \in [Polls -> PollRecord]
    /\ spentGh \in [steps : 0..MaxDeploySteps, faults : 0..MaxGhFaults]

(* A poll is about a pull request while gh is asked, statuses are asked of a  *)
(* commit that was deployed, and the answer is a status.                     *)
PollFits(v) ==
    /\ v.step \in {"sha", "deployments", "statuses", "answer"} => v.pr \in PRs
    /\ v.step = "statuses" => deployed[v.pr][v.commit] # "none"
    /\ v.step = "answer" => v.status # "none"

EnvInv == EnvTyped /\ \A c \in Polls : PollFits(ghPoll[c])

LEMMA EnvTypes == EnvInv => EnvTypeOK
BY DEF EnvInv, EnvTyped, EnvTypeOK, EnvRecord, PollRecord, PollSteps

LEMMA NoPollTyped == EnvBounds => NoPoll \in PollRecord /\ PollFits(NoPoll)
<1> SUFFICES ASSUME EnvBounds PROVE NoPoll \in PollRecord /\ PollFits(NoPoll)
    OBVIOUS
<1>1. 0 \in Commits
    BY DEF EnvBounds, Commits
<1>2. NoPoll \in PollRecord
    BY <1>1 DEF NoPoll, PollRecord, PollSteps
<1>3. NoPoll.step = "none"
    BY DEF NoPoll
<1> QED
    BY <1>2, <1>3 DEF PollFits

LEMMA EnvStart == EnvBounds /\ EnvInit => EnvInv
<1> SUFFICES ASSUME EnvBounds, EnvInit PROVE EnvInv
    OBVIOUS
<1>1. {MaxEnvRows, MaxPushes, MaxDeploySteps, MaxGhFaults} \subseteq Nat /\ 0 \in Commits
    BY DEF EnvBounds, Commits
<1>2. envs \in Seq(EnvRecord) /\ Len(envs) <= MaxEnvRows
    BY <1>1, EmptySeq DEF EnvInit
<1>3. head \in [PRs -> Commits] /\ deployed \in [PRs -> [Commits -> EnvStatuses \cup {"none"}]]
    BY <1>1 DEF EnvInit
<1>4. spentGh \in [steps : 0..MaxDeploySteps, faults : 0..MaxGhFaults]
  <2>1. 0 \in 0..MaxDeploySteps /\ 0 \in 0..MaxGhFaults
    BY <1>1
  <2> QED
    BY <2>1 DEF EnvInit
<1>5. \A c \in Polls : ghPoll[c] = NoPoll
    BY DEF EnvInit
<1>6. ghPoll \in [Polls -> PollRecord]
    BY NoPollTyped DEF EnvInit
<1> QED
    BY <1>2, <1>3, <1>4, <1>5, <1>6, NoPollTyped DEF EnvInv, EnvTyped, EnvInit

(* One poll moves, to a record that fits. *)
LEMMA PollMoved ==
    ASSUME EnvInv, NEW c \in Polls, NEW v \in PollRecord, PollSet(c, v), PollFits(v),
           UNCHANGED <<head, deployed>>,
           envs' \in Seq(EnvRecord), Len(envs') <= MaxEnvRows,
           debounce' \subseteq PRs, monitoring' \in BOOLEAN,
           spentGh' \in [steps : 0..MaxDeploySteps, faults : 0..MaxGhFaults]
    PROVE  EnvInv'
<1>1. ghPoll' = [ghPoll EXCEPT ![c] = v]
    BY DEF PollSet
<1>2. /\ ghPoll' \in [Polls -> PollRecord]
      /\ ghPoll'[c] = v /\ \A d \in Polls : d # c => ghPoll'[d] = ghPoll[d]
    BY <1>1 DEF EnvInv, EnvTyped
<1>3. EnvTyped'
    BY <1>2 DEF EnvInv, EnvTyped
<1>4. ASSUME NEW d \in Polls
      PROVE  PollFits(ghPoll[d])'
    BY <1>2 DEF EnvInv, PollFits
<1> QED
    BY <1>3, <1>4 DEF EnvInv

LEMMA FaultTyped ==
    ASSUME EnvBounds, EnvInv, spentGh.faults < MaxGhFaults, spentGh' = [spentGh EXCEPT !.faults = @ + 1]
    PROVE  spentGh' \in [steps : 0..MaxDeploySteps, faults : 0..MaxGhFaults]
<1>1. spentGh \in [steps : 0..MaxDeploySteps, faults : 0..MaxGhFaults] /\ MaxGhFaults \in Nat
    BY DEF EnvBounds, EnvInv, EnvTyped
<1>2. spentGh.faults + 1 \in 0..MaxGhFaults
    BY <1>1
<1> QED
    BY <1>1, <1>2

LEMMA DeployStepKeeps ==
    ASSUME EnvBounds, EnvInv, DeployStep
    PROVE  EnvInv'
<1>1. /\ spentGh.steps < MaxDeploySteps /\ spentGh' = [spentGh EXCEPT !.steps = @ + 1]
      /\ UNCHANGED <<envs, debounce, monitoring, ghPoll>>
    BY DEF DeployStep
<1>2. EnvTyped /\ MaxDeploySteps \in Nat /\ MaxPushes \in Nat
    BY DEF EnvBounds, EnvInv
<1>3. spentGh' \in [steps : 0..MaxDeploySteps, faults : 0..MaxGhFaults]
  <2>1. spentGh \in [steps : 0..MaxDeploySteps, faults : 0..MaxGhFaults]
    BY <1>2 DEF EnvTyped
  <2>2. spentGh.steps + 1 \in 0..MaxDeploySteps
    BY <1>1, <1>2, <2>1
  <2> QED
    BY <1>1, <2>1, <2>2
<1>4. PICK p \in PRs :
          \/ /\ head[p] < MaxPushes
             /\ head' = [head EXCEPT ![p] = @ + 1]
             /\ UNCHANGED deployed
          \/ \E s \in GhStatuses \ {deployed[p][head[p]]} :
                /\ deployed' = [deployed EXCEPT ![p][head[p]] = s]
                /\ UNCHANGED head
    BY DEF DeployStep
<1>5. head[p] \in Commits /\ deployed[p] \in [Commits -> EnvStatuses \cup {"none"}]
    BY <1>2 DEF EnvTyped
<1>6. CASE head[p] < MaxPushes /\ head' = [head EXCEPT ![p] = @ + 1] /\ UNCHANGED deployed
  <2>1. head[p] + 1 \in Commits
    BY <1>2, <1>5, <1>6 DEF Commits
  <2>2. EnvTyped'
    BY <1>1, <1>2, <1>3, <1>6, <2>1 DEF EnvTyped
  <2>3. \A c \in Polls : PollFits(ghPoll[c])'
    BY <1>1, <1>6 DEF EnvInv, PollFits
  <2> QED
    BY <2>2, <2>3 DEF EnvInv
<1>7. ASSUME NEW s \in GhStatuses, deployed' = [deployed EXCEPT ![p][head[p]] = s], UNCHANGED head
      PROVE  EnvInv'
  <2> DEFINE row == [deployed[p] EXCEPT ![head[p]] = s]
  <2>1. s \in EnvStatuses /\ s # "none"
    BY DEF EnvBounds, EnvStatuses
  <2>2. row \in [Commits -> EnvStatuses \cup {"none"}] /\ \A k \in Commits : row[k] \in {deployed[p][k], s}
    BY <1>5, <2>1
  <2>3. deployed' = [deployed EXCEPT ![p] = row]
    BY <1>2, <1>7 DEF EnvTyped
  <2> HIDE DEF row
  <2>4. deployed' \in [PRs -> [Commits -> EnvStatuses \cup {"none"}]]
    BY <1>2, <2>2, <2>3 DEF EnvTyped
  <2>5. \A q \in PRs, k \in Commits : deployed'[q][k] \in {deployed[q][k], s}
    BY <1>2, <2>2, <2>3 DEF EnvTyped
  <2>6. EnvTyped'
    BY <1>1, <1>2, <1>3, <1>7, <2>4 DEF EnvTyped
  <2>7. ASSUME NEW c \in Polls
        PROVE  PollFits(ghPoll[c])'
    <3>1. ghPoll[c] \in PollRecord /\ PollFits(ghPoll[c])
      BY <1>2 DEF EnvInv, EnvTyped
    <3>2. ghPoll[c].commit \in Commits
      BY <3>1 DEF PollRecord
    <3> QED
      BY <1>1, <2>1, <2>5, <3>1, <3>2 DEF PollFits
  <2> QED
    BY <2>6, <2>7 DEF EnvInv
<1> QED
    BY <1>4, <1>6, <1>7

(* A row is added. *)
LEMMA InsertedKeeps ==
    ASSUME EnvBounds, EnvInv, NEW p \in PRs \cup {NoPR}, NEW s \in EnvStatuses, Inserted(p, s),
           Len(envs) < MaxEnvRows, debounce' \subseteq PRs, UNCHANGED <<head, deployed, monitoring, ghPoll, spentGh>>
    PROVE  EnvInv'
<1> DEFINE row == [pr |-> p, status |-> s]
<1>1. row \in EnvRecord /\ envs \in Seq(EnvRecord) /\ envs' = Append(envs, row)
    BY DEF EnvRecord, EnvInv, EnvTyped, Inserted
<1> HIDE DEF row
<1>2. envs' \in Seq(EnvRecord) /\ Len(envs') = Len(envs) + 1
    BY <1>1, AppendProperties
<1>3. Len(envs') <= MaxEnvRows
  <2>1. Len(envs) \in Nat /\ MaxEnvRows \in Nat
    BY <1>1, LenProperties DEF EnvBounds
  <2> QED
    BY <1>2, <2>1
<1>4. EnvTyped'
    BY <1>2, <1>3 DEF EnvInv, EnvTyped
<1> QED
    BY <1>4 DEF EnvInv, PollFits

(* A round begins. *)
LEMMA RoundKeeps ==
    ASSUME EnvBounds, EnvInv, NEW c \in Polls, NEW prs \in SUBSET PRs, Round(c, prs),
           UNCHANGED <<envs, head, deployed, spentGh>>, debounce' \subseteq PRs, monitoring' \in BOOLEAN
    PROVE  EnvInv'
<1> DEFINE v == [NoPoll EXCEPT !.step = "next", !.todo = prs]
<1>1. v \in PollRecord /\ v.step = "next"
    BY NoPollTyped DEF PollRecord, PollSteps
<1>2. PollSet(c, v)
    BY DEF Round
<1> HIDE DEF v
<1>3. PollFits(v)
    BY <1>1 DEF PollFits
<1>4. envs' \in Seq(EnvRecord) /\ Len(envs') <= MaxEnvRows
      /\ spentGh' \in [steps : 0..MaxDeploySteps, faults : 0..MaxGhFaults]
    BY DEF EnvInv, EnvTyped
<1> QED
    BY <1>1, <1>2, <1>3, <1>4, PollMoved

(* A poll goes on to its next pull request. *)
LEMMA GoOnKeeps ==
    ASSUME EnvBounds, EnvInv, NEW c \in Polls, GoOn(c),
           UNCHANGED <<head, deployed, debounce, monitoring>>,
           envs' \in Seq(EnvRecord), Len(envs') <= MaxEnvRows,
           spentGh' \in [steps : 0..MaxDeploySteps, faults : 0..MaxGhFaults]
    PROVE  EnvInv'
<1> DEFINE v == [ghPoll[c] EXCEPT !.step = "next", !.pr = NoPR, !.commit = 0, !.status = "none"]
<1>1. ghPoll[c] \in PollRecord /\ 0 \in Commits
    BY DEF EnvBounds, EnvInv, EnvTyped, Commits
<1>2. v \in PollRecord /\ v.step = "next"
    BY <1>1 DEF PollRecord, PollSteps
<1>3. PollSet(c, v)
    BY DEF GoOn
<1> HIDE DEF v
<1>4. PollFits(v) /\ debounce' \subseteq PRs /\ monitoring' \in BOOLEAN
    BY <1>2 DEF PollFits, EnvInv, EnvTyped
<1> QED
    BY <1>2, <1>3, <1>4, PollMoved

LEMMA PollMovesKeeps ==
    ASSUME EnvBounds, EnvInv, NEW c \in Polls, PollMoves(c)
    PROVE  EnvInv'
<1> DEFINE g == ghPoll[c]
<1>1. EnvTyped /\ ghPoll[c] \in PollRecord /\ PollFits(ghPoll[c])
    BY DEF EnvInv, EnvTyped
<1>2. CASE UNCHANGED <<envs, head, deployed, debounce, monitoring, spentGh>> /\ \E v \in PollRecord : PollSet(c, v) /\ PollFits(v)
    BY <1>1, <1>2, PollMoved DEF EnvTyped
<1>3. CASE PollsNext(c)
  <2>1. CASE PollSet(c, NoPoll)
    BY <1>2, <1>3, <2>1, NoPollTyped DEF PollsNext
  <2>2. ASSUME NEW p \in g.todo, PollSet(c, [g EXCEPT !.step = "sha", !.pr = p, !.todo = @ \ {p}])
        PROVE  EnvInv'
    <3> DEFINE v == [g EXCEPT !.step = "sha", !.pr = p, !.todo = @ \ {p}]
    <3>1. p \in PRs /\ v \in PollRecord /\ v.step = "sha" /\ v.pr = p
      BY <1>1 DEF PollRecord, PollSteps
    <3>2. PollSet(c, v)
      BY <2>2
    <3> HIDE DEF v
    <3>3. PollFits(v)
      BY <3>1 DEF PollFits
    <3> QED
      BY <1>2, <1>3, <3>1, <3>2, <3>3 DEF PollsNext
  <2> QED
    BY <1>3, <2>1, <2>2 DEF PollsNext
<1>4. CASE GhFails(c)
    BY <1>1, <1>4, FaultTyped, GoOnKeeps DEF GhFails, EnvTyped
<1>5. CASE HeadAnswered(c)
  <2> DEFINE v == [g EXCEPT !.step = "deployments", !.commit = PrHeadSha(c)]
  <2>1. g.step = "sha" /\ PollSet(c, v) /\ UNCHANGED <<envs, head, deployed, debounce, monitoring, spentGh>>
    BY <1>5 DEF HeadAnswered
  <2>2. g.pr \in PRs
    BY <1>1, <2>1 DEF PollFits
  <2>3. PrHeadSha(c) \in Commits
    BY <1>1, <2>2 DEF PrHeadSha, EnvTyped
  <2>4. v \in PollRecord /\ v.step = "deployments" /\ v.pr = g.pr
    BY <1>1, <2>3 DEF PollRecord, PollSteps
  <2> HIDE DEF v
  <2>5. PollFits(v)
    BY <2>2, <2>4 DEF PollFits
  <2> QED
    BY <1>2, <2>1, <2>4, <2>5
<1>6. CASE DeploymentsAnswered(c)
  <2>1. CASE DeploymentBySha(c) = "none"
    <3>1. GoOn(c) /\ UNCHANGED <<envs, head, deployed, debounce, monitoring, spentGh>>
      BY <1>6, <2>1 DEF DeploymentsAnswered
    <3> QED
      BY <1>1, <3>1, GoOnKeeps DEF EnvTyped
  <2>2. CASE DeploymentBySha(c) # "none"
    <3> DEFINE v == [g EXCEPT !.step = "statuses"]
    <3>1. g.step = "deployments" /\ PollSet(c, v) /\ UNCHANGED <<envs, head, deployed, debounce, monitoring, spentGh>>
      BY <1>6, <2>2 DEF DeploymentsAnswered
    <3>2. v \in PollRecord /\ v.step = "statuses" /\ v.pr = g.pr /\ v.commit = g.commit
      BY <1>1 DEF PollRecord, PollSteps
    <3>3. g.pr \in PRs /\ deployed[g.pr][g.commit] # "none"
      BY <1>1, <2>2, <3>1 DEF PollFits, DeploymentBySha
    <3> HIDE DEF v
    <3>4. PollFits(v)
      BY <3>2, <3>3 DEF PollFits
    <3> QED
      BY <1>2, <3>1, <3>2, <3>4
  <2> QED
    BY <2>1, <2>2
<1>7. ASSUME NEW s \in EnvStatuses, g.step = "statuses", s # "none",
             PollSet(c, [g EXCEPT !.step = "answer", !.status = s])
      PROVE  \E v \in PollRecord : PollSet(c, v) /\ PollFits(v)
  <2> DEFINE v == [g EXCEPT !.step = "answer", !.status = s]
  <2>1. v \in PollRecord /\ v.step = "answer" /\ v.pr = g.pr /\ v.status = s
    BY <1>1 DEF PollRecord, PollSteps
  <2>2. g.pr \in PRs /\ PollSet(c, v)
    BY <1>1, <1>7 DEF PollFits
  <2> HIDE DEF v
  <2>3. PollFits(v)
    BY <1>7, <2>1, <2>2 DEF PollFits
  <2> QED
    BY <2>1, <2>2, <2>3
<1>8. CASE StatusesAnswered(c)
  <2>1. g.step = "statuses" /\ UNCHANGED <<envs, head, deployed, debounce, monitoring, spentGh>>
        /\ PollSet(c, [g EXCEPT !.step = "answer", !.status = DeploymentBySha(c)])
    BY <1>8 DEF StatusesAnswered
  <2>2. g.pr \in PRs /\ deployed[g.pr][g.commit] # "none" /\ g.commit \in Commits
    BY <1>1, <2>1 DEF PollFits, PollRecord
  <2>3. DeploymentBySha(c) \in EnvStatuses
    BY <1>1, <2>2 DEF DeploymentBySha, EnvTyped
  <2>4. DeploymentBySha(c) # "none"
    BY <2>2 DEF DeploymentBySha
  <2> QED
    BY <1>2, <1>7, <2>1, <2>3, <2>4
<1>9. CASE StatusesUnread(c)
  <2>1. g.step = "statuses" /\ UNCHANGED <<envs, head, deployed, debounce, monitoring>>
        /\ PollSet(c, [g EXCEPT !.step = "answer", !.status = "building"])
        /\ spentGh' \in [steps : 0..MaxDeploySteps, faults : 0..MaxGhFaults]
    BY <1>9, FaultTyped DEF StatusesUnread
  <2>2. \E v \in PollRecord : PollSet(c, v) /\ PollFits(v)
    BY <1>7, <2>1 DEF EnvStatuses
  <2> QED
    BY <1>1, <2>1, <2>2, PollMoved DEF EnvTyped
<1>10. CASE StatusStored(c)
  <2> DEFINE n == Newest(g.pr)
             row == [envs[n] EXCEPT !.status = g.status]
  <2>1. /\ g.step = "answer" /\ GoOn(c) /\ UNCHANGED <<head, deployed, debounce, monitoring, spentGh>>
        /\ envs' = [envs EXCEPT ![n].status = g.status]
    BY <1>10 DEF StatusStored
  <2>2. g.status \in EnvStatuses
    BY <1>1, <2>1 DEF PollFits, PollRecord
  <2>3. envs \in [1..Len(envs) -> EnvRecord] /\ Len(envs) \in Nat
    BY <1>1, LenProperties DEF EnvTyped
  <2>4. envs' \in [1..Len(envs) -> EnvRecord]
    <3>1. envs' = [envs EXCEPT ![n] = row]
      BY <2>1
    <3>2. n \in 1..Len(envs) => row \in EnvRecord
      BY <2>2, <2>3 DEF EnvRecord
    <3> HIDE DEF n, row
    <3> QED
      BY <2>3, <3>1, <3>2
  <2>5. envs' \in Seq(EnvRecord)
    BY <2>3, <2>4
  <2>6. Len(envs') = Len(envs)
    BY <2>3, <2>4, <2>5, LenProperties
  <2> QED
    BY <1>1, <2>1, <2>5, <2>6, GoOnKeeps DEF EnvTyped
<1> QED
    BY <1>3, <1>4, <1>5, <1>6, <1>8, <1>9, <1>10 DEF PollMoves

LEMMA EnvStep ==
    ASSUME EnvBounds, EnvInv, [EnvNext]_envVars
    PROVE  EnvInv'
<1>1. CASE UNCHANGED envVars
    BY <1>1 DEF envVars, EnvInv, EnvTyped, PollFits
<1>2. CASE DeployStep
    BY <1>2, DeployStepKeeps
<1>3. ASSUME NEW p \in PRs, OnPrCreated(p)
      PROVE  EnvInv'
  <2>1. debounce' \subseteq PRs /\ "building" \in EnvStatuses
    BY <1>3 DEF OnPrCreated, EnvInv, EnvTyped, EnvStatuses
  <2> QED
    BY <1>3, <2>1, InsertedKeeps DEF OnPrCreated
<1>4. CASE RequestHostedEnvironment
  <2>1. debounce' \subseteq PRs /\ "provisioning" \in EnvStatuses
    BY <1>4 DEF RequestHostedEnvironment, HostedRow, EnvInv, EnvTyped, EnvStatuses
  <2> QED
    BY <1>4, <2>1, InsertedKeeps DEF RequestHostedEnvironment, HostedRow
<1>5. ASSUME NEW p \in PRs, NEW c \in Polls, DebounceFires(p, c)
      PROVE  EnvInv'
    BY <1>5, RoundKeeps DEF DebounceFires, EnvInv, EnvTyped
<1>6. ASSUME NEW c \in Polls, IntervalFires(c) \/ StartMonitor(c)
      PROVE  EnvInv'
    BY <1>6, RoundKeeps DEF IntervalFires, StartMonitor, InitialSync, Known, EnvInv, EnvTyped
<1>7. ASSUME NEW c \in Polls, PollMoves(c)
      PROVE  EnvInv'
    BY <1>7, PollMovesKeeps
<1>8. CASE StopMonitor
  <2>1. EnvTyped'
    BY <1>8 DEF StopMonitor, StopPolling, EnvInv, EnvTyped
  <2> QED
    BY <1>8, <2>1 DEF StopMonitor, StopPolling, EnvInv, PollFits
<1> QED
    BY <1>1, <1>2, <1>3, <1>4, <1>5, <1>6, <1>7, <1>8 DEF EnvNext

(* Types of the environments, GitHub and the polls. *)
THEOREM EnvTypeCorrect == EnvSpec => []EnvTypeOK
<1>1. EnvInv /\ [EnvNext]_envVars => EnvInv'
    BY EnvBounds, EnvStep
<1>2. EnvInit => EnvInv
    BY EnvBounds, EnvStart
<1> QED
    BY <1>1, <1>2, EnvTypes, PTL DEF EnvSpec

-----------------------------------------------------------------------------
(* GitHub login, and the drift signals. *)
FlowSteps == {"none", "listening", "opening", "waiting", "exchanging", "closing"}
FlowRecord ==
    [of : {NoLogin} \cup Logins, at : FlowSteps, aborted : BOOLEAN, got : {"nothing", "code", "denial"}, ok : BOOLEAN]
LoginTyped ==
    /\ asked \in {NoLogin} \cup Logins /\ logins \in 0..MaxLogins
    /\ calls \subseteq Logins /\ cancelling \in BOOLEAN /\ signedIn \in BOOLEAN /\ serves \in BOOLEAN
    /\ flow \in FlowRecord

LEMMA LoginTypes == LoginTyped => LoginTypeOK
BY DEF LoginTyped, LoginTypeOK, FlowRecord, FlowSteps

LEMMA NoFlowTyped == NoFlow \in FlowRecord
BY DEF NoFlow, FlowRecord, FlowSteps

LEMMA LoginStart == LoginAssumption /\ LoginInit => LoginTyped
<1> SUFFICES ASSUME LoginAssumption, LoginInit PROVE LoginTyped
    OBVIOUS
<1>1. 0 \in 0..MaxLogins
    BY DEF LoginAssumption
<1> QED
    BY <1>1, NoFlowTyped DEF LoginInit, LoginTyped

(* The page gets an answer. *)
LEMMA AnswerTyped ==
    ASSUME LoginTyped, NEW login, NEW ok \in BOOLEAN, Answer(login, ok)
    PROVE  asked' \in {NoLogin} \cup Logins /\ logins' \in 0..MaxLogins /\ signedIn' \in BOOLEAN
BY DEF Answer, LoginTyped

LEMMA PageStep ==
    ASSUME LoginAssumption, LoginTyped, [LoginNext]_loginVars
    PROVE  asked' \in {NoLogin} \cup Logins /\ logins' \in 0..MaxLogins /\ signedIn' \in BOOLEAN
<1>1. CASE UNCHANGED page
    BY <1>1 DEF page, LoginTyped
<1>2. CASE HandleGitHubLogin
  <2>1. logins + 1 \in Logins /\ logins + 1 \in 0..MaxLogins
    BY <1>2 DEF HandleGitHubLogin, LoginTyped, Logins, LoginAssumption
  <2> QED
    BY <1>2, <2>1 DEF HandleGitHubLogin, LoginTyped
<1>3. CASE HostTimesOut
    BY <1>3 DEF HostTimesOut, LoginTyped
<1>4. ASSUME NEW login, NEW ok \in BOOLEAN, Answer(login, ok)
      PROVE  asked' \in {NoLogin} \cup Logins /\ logins' \in 0..MaxLogins /\ signedIn' \in BOOLEAN
    BY <1>4, AnswerTyped
<1>5. CASE ServerClosed
  <2>1. Answer(flow.of, flow.ok) /\ flow.ok \in BOOLEAN
    BY <1>5 DEF ServerClosed, EndsWith, LoginTyped, FlowRecord
  <2> QED
    BY <2>1, <1>4
<1>6. CASE ServerFails
  <2>1. Answer(flow.of, FALSE)
    BY <1>6 DEF ServerFails, EndsWith
  <2> QED
    BY <2>1, <1>4
<1>7. ASSUME NEW login \in Logins, StartFlow(login)
      PROVE  asked' \in {NoLogin} \cup Logins /\ logins' \in 0..MaxLogins /\ signedIn' \in BOOLEAN
  <2>1. UNCHANGED page \/ Answer(login, FALSE)
    BY <1>7 DEF StartFlow
  <2> QED
    BY <1>1, <1>4, <2>1
<1>8. CASE HandleCancelGitHubLogin \/ CancelFlow \/ ServerListens \/ UrlOpened \/ CallbackArrives \/ CodeTaken
           \/ TimerFires \/ Exchanged
    BY <1>1, <1>8 DEF HandleCancelGitHubLogin, CancelFlow, ServerListens, UrlOpened, CallbackArrives, CodeTaken,
       TimerFires, Exchanged
<1>9. CASE UNCHANGED loginVars
    BY <1>1, <1>9 DEF loginVars
<1> QED
    BY <1>2, <1>3, <1>5, <1>6, <1>7, <1>8, <1>9 DEF LoginNext

LEMMA FlowStep ==
    ASSUME LoginAssumption, LoginTyped, [LoginNext]_loginVars
    PROVE  flow' \in FlowRecord
<1>1. flow \in FlowRecord /\ NoFlow \in FlowRecord
    BY NoFlowTyped DEF LoginTyped
<1>2. ASSUME NEW at \in FlowSteps, flow' = [flow EXCEPT !.at = at]
      PROVE  flow' \in FlowRecord
    BY <1>1, <1>2 DEF FlowRecord
<1>3. CASE CancelFlow
  <2>1. [flow EXCEPT !.aborted = TRUE, !.at = "closing"] \in FlowRecord
    BY <1>1 DEF FlowRecord, FlowSteps
  <2>2. [flow EXCEPT !.aborted = TRUE] \in FlowRecord
    BY <1>1 DEF FlowRecord
  <2> QED
    BY <1>1, <1>3, <2>1, <2>2 DEF CancelFlow
<1>4. CASE CallbackArrives
  <2>1. \/ flow' = [flow EXCEPT !.got = "code"] \/ flow' = [flow EXCEPT !.got = "denial"] \/ flow' = NoFlow
    BY <1>4 DEF CallbackArrives
  <2> QED
    BY <1>1, <2>1 DEF FlowRecord
<1>5. CASE Exchanged
  <2>1. PICK ok \in BOOLEAN : flow' = [flow EXCEPT !.at = "closing", !.ok = ok]
    BY <1>5 DEF Exchanged
  <2> QED
    BY <1>1, <2>1 DEF FlowRecord, FlowSteps
<1>6. CASE UrlOpened
  <2>1. flow' = [flow EXCEPT !.at = "closing"] \/ flow' = [flow EXCEPT !.at = "waiting"]
    BY <1>6 DEF UrlOpened, Step
  <2> QED
    BY <1>2, <2>1 DEF FlowSteps
<1>7. CASE CodeTaken
  <2>1. flow' = [flow EXCEPT !.at = "closing"] \/ flow' = [flow EXCEPT !.at = "exchanging"]
    BY <1>7 DEF CodeTaken, Step
  <2> QED
    BY <1>2, <2>1 DEF FlowSteps
<1>8. CASE ServerListens \/ TimerFires
  <2>1. flow' = [flow EXCEPT !.at = "opening"] \/ flow' = [flow EXCEPT !.at = "closing"]
    BY <1>8 DEF ServerListens, TimerFires, Step
  <2> QED
    BY <1>2, <2>1 DEF FlowSteps
<1>9. ASSUME NEW login \in Logins, StartFlow(login)
      PROVE  flow' \in FlowRecord
  <2>1. [NoFlow EXCEPT !.of = login, !.at = "listening"] \in FlowRecord
    BY <1>1 DEF FlowRecord, FlowSteps
  <2> QED
    BY <1>1, <1>9, <2>1 DEF StartFlow
<1>10. CASE ServerFails \/ ServerClosed
    BY <1>1, <1>10 DEF ServerFails, ServerClosed, EndsWith
<1>11. CASE HandleGitHubLogin \/ HandleCancelGitHubLogin \/ HostTimesOut \/ UNCHANGED loginVars
    BY <1>1, <1>11 DEF HandleGitHubLogin, HandleCancelGitHubLogin, HostTimesOut, loginVars
<1> QED
    BY <1>3, <1>4, <1>5, <1>6, <1>7, <1>8, <1>9, <1>10, <1>11 DEF LoginNext

LEMMA CallsStep ==
    ASSUME LoginAssumption, LoginTyped, [LoginNext]_loginVars
    PROVE  calls' \subseteq Logins /\ cancelling' \in BOOLEAN /\ serves' \in BOOLEAN
<1>1. calls \subseteq Logins /\ cancelling \in BOOLEAN /\ serves \in BOOLEAN
    BY DEF LoginTyped
<1>2. CASE HandleGitHubLogin
  <2>1. logins + 1 \in Logins
    BY <1>2 DEF HandleGitHubLogin, LoginTyped, Logins, LoginAssumption
  <2> QED
    BY <1>1, <1>2, <2>1 DEF HandleGitHubLogin
<1>3. CASE CallbackArrives
    BY <1>1, <1>3 DEF CallbackArrives
<1>4. CASE HandleCancelGitHubLogin \/ CancelFlow
    BY <1>1, <1>4 DEF HandleCancelGitHubLogin, CancelFlow
<1>5. ASSUME NEW login \in Logins, StartFlow(login)
      PROVE  calls' \subseteq Logins /\ cancelling' \in BOOLEAN /\ serves' \in BOOLEAN
    BY <1>1, <1>5 DEF StartFlow
<1>6. CASE HostTimesOut \/ ServerListens \/ ServerFails \/ UrlOpened \/ CodeTaken \/ TimerFires \/ Exchanged
           \/ ServerClosed \/ UNCHANGED loginVars
    BY <1>1, <1>6 DEF HostTimesOut, ServerListens, ServerFails, UrlOpened, CodeTaken, TimerFires, Exchanged,
       ServerClosed, loginVars
<1> QED
    BY <1>2, <1>3, <1>4, <1>5, <1>6 DEF LoginNext

LEMMA LoginStep ==
    ASSUME LoginAssumption, LoginTyped, [LoginNext]_loginVars
    PROVE  LoginTyped'
<1>1. asked' \in {NoLogin} \cup Logins /\ logins' \in 0..MaxLogins /\ signedIn' \in BOOLEAN
    BY PageStep
<1>2. flow' \in FlowRecord
    BY FlowStep
<1>3. calls' \subseteq Logins /\ cancelling' \in BOOLEAN /\ serves' \in BOOLEAN
    BY CallsStep
<1> QED
    BY <1>1, <1>2, <1>3 DEF LoginTyped

(* Types of the login's page, host and flow. *)
THEOREM LoginTypeCorrect == LoginSpec => []LoginTypeOK
<1>1. LoginTyped /\ [LoginNext]_loginVars => LoginTyped'
    BY LoginAssumption, LoginStep
<1>2. LoginInit => LoginTyped
    BY LoginAssumption, LoginStart
<1> QED
    BY <1>1, <1>2, LoginTypes, PTL DEF LoginSpec

-----------------------------------------------------------------------------
LEMMA DriftStart == DriftAssumption /\ DriftInit => DriftTypeOK
<1> SUFFICES ASSUME DriftAssumption, DriftInit PROVE DriftTypeOK
    OBVIOUS
<1>1. 0 \in 0..MaxTicks /\ Uncreated \in 0..Uncreated
    BY DEF DriftAssumption, Uncreated
<1> QED
    BY <1>1 DEF DriftInit, DriftTypeOK

LEMMA DriftStep ==
    ASSUME DriftAssumption, DriftTypeOK, [DriftNext]_driftVars
    PROVE  DriftTypeOK'
<1>1. MaxTicks \in Nat /\ ticks \in 0..MaxTicks
    BY DEF DriftAssumption, DriftTypeOK
<1>2. 0..MaxTicks \subseteq 0..Uncreated /\ Uncreated \in 0..Uncreated
    BY <1>1 DEF Uncreated
<1>3. CASE UNCHANGED driftVars
    BY <1>3 DEF driftVars, DriftTypeOK
<1>4. ASSUME NEW b \in Branches, BranchCreated(b)
      PROVE  DriftTypeOK'
    BY <1>1, <1>2, <1>4 DEF BranchCreated, DriftTypeOK
<1>5. ASSUME NEW b \in Branches, SessionDeleted(b)
      PROVE  DriftTypeOK'
    BY <1>2, <1>5 DEF SessionDeleted, DriftTypeOK
<1>6. ASSUME NEW b \in Branches, NEW f \in Paths, FileModified(b, f)
      PROVE  DriftTypeOK'
  <2> DEFINE paths == observed[b] \cup {f}
             confidence == Confidence(paths, ticks - born[b])
  <2>1. confidence \in Confidences
    BY DEF Confidence, Confidences
  <2>2. /\ observed' = [observed EXCEPT ![b] = paths]
        /\ notices' = IF confidence = "none" THEN notices
                      ELSE notices \cup {[branch |-> b, confidence |-> confidence]}
        /\ UNCHANGED <<ticks, born, banners>>
    BY <1>6 DEF FileModified
  <2>3. paths \in SUBSET Paths
    BY DEF DriftTypeOK
  <2> HIDE DEF paths, confidence
  <2>4. observed' \in [Branches -> SUBSET Paths]
    BY <2>2, <2>3 DEF DriftTypeOK
  <2>5. notices' \subseteq Notices
    BY <2>1, <2>2 DEF DriftTypeOK, Notices
  <2> QED
    BY <2>2, <2>4, <2>5 DEF DriftTypeOK
<1>7. CASE DetectorRestarts
    BY <1>7 DEF DetectorRestarts, DriftTypeOK
<1>8. CASE TimePasses
    BY <1>1, <1>8 DEF TimePasses, DriftTypeOK
<1>9. ASSUME NEW n \in Notices, NoticeEmitted(n)
      PROVE  DriftTypeOK'
  <2>1. n.branch \in Branches
    BY DEF Notices
  <2>2. banners' \in [PagesThatListen -> SUBSET Branches]
    BY <1>9, <2>1 DEF NoticeEmitted, DriftTypeOK
  <2>3. notices' \subseteq Notices /\ UNCHANGED <<ticks, born, observed>>
    BY <1>9 DEF NoticeEmitted, DriftTypeOK
  <2> QED
    BY <2>2, <2>3 DEF DriftTypeOK
<1> QED
    BY <1>3, <1>4, <1>5, <1>6, <1>7, <1>8, <1>9 DEF DriftNext

(* Types of the drift detector, its notices and the banners. *)
THEOREM DriftTypeCorrect == DriftSpec => []DriftTypeOK
<1>1. DriftTypeOK /\ [DriftNext]_driftVars => DriftTypeOK'
    BY DriftAssumption, DriftStep
<1>2. DriftInit => DriftTypeOK
    BY DriftAssumption, DriftStart
<1> QED
    BY <1>1, <1>2, PTL DEF DriftSpec

-----------------------------------------------------------------------------
(* The workspaces together: every part keeps the invariant of its own module, *)
(* whichever of them moves.                                                 *)
WorkspacesInv ==
    /\ SInv /\ EnvInv /\ SitesInv /\ ProcessInv
    /\ LoginTyped /\ SetupInv /\ DriftTypeOK

LEMMA WorkspacesStart == WorkspacesInit => WorkspacesInv
<1> SUFFICES ASSUME WorkspacesInit PROVE WorkspacesInv
    OBVIOUS
<1>1. SessionsInit /\ EnvInit /\ SitesInit /\ ProcessInit
    BY DEF WorkspacesInit
<1>2. LoginInit /\ SetupInit /\ DriftInit
    BY DEF WorkspacesInit
<1>3. SInv /\ EnvInv /\ SitesInv /\ ProcessInv
    BY <1>1, SessionsStart, EnvStart, SitesStart, ProcessStart, EnvBounds, SiteBounds, ProcessBounds
<1>4. LoginTyped /\ SetupInv /\ DriftTypeOK
    BY <1>2, LoginStart, SetupStart, DriftStart, LoginAssumption, SetupAssumption, DriftAssumption
<1> QED
    BY <1>3, <1>4 DEF WorkspacesInv

LEMMA PartsStep ==
    [WorkspacesNext]_workspacesVars =>
        /\ [SessionsNext]_sessionVars /\ [EnvNext]_envVars /\ [SitesNext]_siteVars
        /\ [ProcessNext]_processVars /\ [LoginNext]_loginVars /\ [SetupNext]_setupVars
        /\ [DriftNext]_driftVars
    BY Zenon DEF WorkspacesNext, Works, workspacesVars

LEMMA WorkspacesStep == WorkspacesInv /\ [WorkspacesNext]_workspacesVars => WorkspacesInv'
<1> SUFFICES ASSUME WorkspacesInv, [WorkspacesNext]_workspacesVars PROVE WorkspacesInv'
    OBVIOUS
<1>1. SInv' /\ EnvInv' /\ SitesInv' /\ ProcessInv'
    BY PartsStep, SessionsStep, EnvStep, SitesStep, ProcessStep,
       EnvBounds, SiteBounds, ProcessBounds DEF WorkspacesInv
<1>2. LoginTyped' /\ SetupInv' /\ DriftTypeOK'
    BY PartsStep, LoginStep, SetupStep, DriftStep,
       LoginAssumption, SetupAssumption, DriftAssumption DEF WorkspacesInv
<1> QED
    BY <1>1, <1>2 DEF WorkspacesInv

(* Every reachable state of the composition that the runs check is typed, for *)
(* any sessions, repositories, servers, fields and bounds: a step of one part  *)
(* is a step of that part's specification and a stutter of every other.      *)
THEOREM WorkspacesTypeCorrect == WorkspacesSpec => []WorkspacesTypeOK
<1>1. WorkspacesInv => WorkspacesTypeOK
  <2>1. SInv => SessionsTypeOK
      BY DEF SInv
  <2> QED
      BY <2>1, EnvTypes, SitesTypes, ProcessTypes, LoginTypes, SetupTypes
      DEF WorkspacesInv, WorkspacesTypeOK
<1> QED
    BY <1>1, WorkspacesStart, WorkspacesStep, PTL DEF WorkspacesSpec
=============================================================================
