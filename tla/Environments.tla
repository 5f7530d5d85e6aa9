---------------------------- MODULE Environments ----------------------------
(***************************************************************************)
(* The environment monitor: rows of remote environments made for pull        *)
(* requests, and the polls that bring GitHub's deployment statuses to them.  *)
(* Debounced polls, the rounds of the interval and the initial sync overlap, *)
(* and each is three gh calls long.  The activity log is left out.           *)
(***************************************************************************)
EXTENDS Naturals, Sequences, FiniteSets

CONSTANTS
    PRs, NoPR,
    GhStatuses,  \* what a deployment may come to, as mapGitHubStateToStatus names it
    MaxEnvRows, MaxPushes, MaxDeploySteps, MaxGhFaults   \* bounds

ASSUME EnvBounds ==
    /\ NoPR \notin PRs /\ GhStatuses \subseteq {"building", "ready", "failed", "expired"}
    /\ {MaxEnvRows, MaxPushes, MaxDeploySteps, MaxGhFaults} \subseteq Nat

Polls == {1, 2}   \* doPollForPr loops in flight
EnvStatuses == {"building", "ready", "failed", "expired", "provisioning"}

(* A row: its pull request, if it has one, and its status. *)
EnvRecord == [pr : PRs \cup {NoPR}, status : EnvStatuses]

VARIABLES
    envs,        \* remote_environments, in the order of their creation
    head,        \* GitHub: the head commit of each PR
    deployed,    \* GitHub: status of the newest deployment of each commit
    debounce,    \* PRs with a debounce timer
    monitoring,  \* the monitor is started
    ghPoll,      \* ghPoll[c]: a round, the initial sync or a single poll
    spentGh      \* deployment steps and failed gh calls so far

envVars == <<envs, head, deployed, debounce, monitoring, ghPoll, spentGh>>

NoPoll == [step |-> "none", pr |-> NoPR, todo |-> {}, commit |-> 0, status |-> "none"]

Commits == 0..MaxPushes

EnvInit ==
    /\ envs = <<>>
    /\ head = [p \in PRs |-> 0]
    /\ deployed = [p \in PRs |-> [c \in Commits |-> "none"]]
    /\ debounce = {} /\ monitoring = FALSE
    /\ ghPoll = [c \in Polls |-> NoPoll]
    /\ spentGh = [steps |-> 0, faults |-> 0]

RowsOf(p) == {r \in 1..Len(envs) : envs[r].pr = p}
Newest(p) == CHOOSE r \in RowsOf(p) : \A q \in RowsOf(p) : q <= r
Known == {p \in PRs : RowsOf(p) # {}}

(* upsertFromDeployment: without a deployment id it always inserts. *)
Inserted(p, s) == envs' = Append(envs, [pr |-> p, status |-> s])

-----------------------------------------------------------------------------
(* GitHub. *)
DeployStep ==
    /\ spentGh.steps < MaxDeploySteps
    /\ spentGh' = [spentGh EXCEPT !.steps = @ + 1]
    /\ \E p \in PRs :
          \/ /\ head[p] < MaxPushes
             /\ head' = [head EXCEPT ![p] = @ + 1]
             /\ UNCHANGED deployed
          \/ \E s \in GhStatuses \ {deployed[p][head[p]]} :
                /\ deployed' = [deployed EXCEPT ![p][head[p]] = s]
                /\ UNCHANGED head
    /\ UNCHANGED <<envs, debounce, monitoring, ghPoll>>

(* A second event for the PR makes a second row; the poll starts over its    *)
(* debounce.                                                                 *)
OnPrCreated(p) ==
    /\ Len(envs) < MaxEnvRows
    /\ Inserted(p, "building")
    /\ debounce' = debounce \cup {p}
    /\ UNCHANGED <<head, deployed, monitoring, ghPoll, spentGh>>

(* The row of a hosted environment, which has no pull request: no poll looks  *)
(* after it.                                                                 *)
HostedRow == Inserted(NoPR, "provisioning")

RequestHostedEnvironment ==
    /\ Len(envs) < MaxEnvRows
    /\ HostedRow
    /\ UNCHANGED <<head, deployed, debounce, monitoring, ghPoll, spentGh>>

-----------------------------------------------------------------------------
(* Polls. *)
PollSet(c, v) == ghPoll' = [ghPoll EXCEPT ![c] = v]

(* The PRs of a round are those listed when it starts. *)
Round(c, prs) == PollSet(c, [NoPoll EXCEPT !.step = "next", !.todo = prs])

DebounceFires(p, c) ==
    /\ p \in debounce /\ ghPoll[c] = NoPoll
    /\ debounce' = debounce \ {p}
    /\ Round(c, {p})
    /\ UNCHANGED <<envs, head, deployed, monitoring, spentGh>>

(* Mutated form of IntervalFires: what is ready or failed is not looked at. *)
IntervalFiresOnBuilding(c) ==
    /\ monitoring /\ ghPoll[c] = NoPoll /\ Known # {}
    /\ Round(c, {p \in Known : envs[Newest(p)].status = "building"})
    /\ UNCHANGED <<envs, head, deployed, debounce, monitoring, spentGh>>

(* The interval does not wait for the round before. *)
IntervalFires(c) ==
    /\ monitoring /\ ghPoll[c] = NoPoll /\ Known # {}
    /\ Round(c, Known)
    /\ UNCHANGED <<envs, head, deployed, debounce, monitoring, spentGh>>

(* runInitialSync polls each pull request that has a row, once. *)
InitialSync(c) == ghPoll[c] = NoPoll /\ Round(c, Known)

StartMonitor(c) ==
    /\ ~monitoring /\ monitoring' = TRUE
    /\ InitialSync(c)
    /\ UNCHANGED <<envs, head, deployed, debounce, spentGh>>

(* The timers are cleared; what is in flight goes on. *)
StopPolling == debounce' = {}

StopMonitor ==
    /\ monitoring /\ monitoring' = FALSE
    /\ StopPolling
    /\ UNCHANGED <<envs, head, deployed, ghPoll, spentGh>>

PollsNext(c) ==
    /\ ghPoll[c].step = "next"
    /\ IF ghPoll[c].todo = {} THEN PollSet(c, NoPoll)
       ELSE \E p \in ghPoll[c].todo :
               PollSet(c, [ghPoll[c] EXCEPT !.step = "sha", !.pr = p, !.todo = @ \ {p}])
    /\ UNCHANGED <<envs, head, deployed, debounce, monitoring, spentGh>>

GoOn(c) == PollSet(c, [ghPoll[c] EXCEPT !.step = "next", !.pr = NoPR, !.commit = 0, !.status = "none"])

(* A call that fails, or is rate limited, ends the poll of this PR. *)
GhFails(c) ==
    /\ ghPoll[c].step \in {"sha", "deployments", "statuses"}
    /\ spentGh.faults < MaxGhFaults
    /\ spentGh' = [spentGh EXCEPT !.faults = @ + 1]
    /\ GoOn(c)
    /\ UNCHANGED <<envs, head, deployed, debounce, monitoring>>

PrHeadSha(c) == head[ghPoll[c].pr]
DeploymentBySha(c) == deployed[ghPoll[c].pr][ghPoll[c].commit]

HeadAnswered(c) ==
    /\ ghPoll[c].step = "sha"
    /\ PollSet(c, [ghPoll[c] EXCEPT !.step = "deployments", !.commit = PrHeadSha(c)])
    /\ UNCHANGED <<envs, head, deployed, debounce, monitoring, spentGh>>

(* Mutated form of DeploymentsAnswered: a commit without a deployment is asked *)
(* for statuses too.                                                         *)
DeploymentsAnsweredAny(c) ==
    /\ ghPoll[c].step = "deployments"
    /\ PollSet(c, [ghPoll[c] EXCEPT !.step = "statuses"])
    /\ UNCHANGED <<envs, head, deployed, debounce, monitoring, spentGh>>

DeploymentsAnswered(c) ==
    /\ ghPoll[c].step = "deployments"
    /\ IF DeploymentBySha(c) = "none"
       THEN GoOn(c)
       ELSE PollSet(c, [ghPoll[c] EXCEPT !.step = "statuses"])
    /\ UNCHANGED <<envs, head, deployed, debounce, monitoring, spentGh>>

(* GitHub answers; the answer is under way. *)
StatusesAnswered(c) ==
    /\ ghPoll[c].step = "statuses"
    /\ PollSet(c, [ghPoll[c] EXCEPT !.step = "answer", !.status = DeploymentBySha(c)])
    /\ UNCHANGED <<envs, head, deployed, debounce, monitoring, spentGh>>

(* A failure of this call that is no rate limit reads as no status yet. *)
StatusesUnread(c) ==
    /\ ghPoll[c].step = "statuses"
    /\ spentGh.faults < MaxGhFaults
    /\ spentGh' = [spentGh EXCEPT !.faults = @ + 1]
    /\ PollSet(c, [ghPoll[c] EXCEPT !.step = "answer", !.status = "building"])
    /\ UNCHANGED <<envs, head, deployed, debounce, monitoring>>

(* No row has a deployment id, so the newest row of the PR gets the status. *)
StatusStored(c) ==
    /\ ghPoll[c].step = "answer"
    /\ envs' = [envs EXCEPT ![Newest(ghPoll[c].pr)].status = ghPoll[c].status]
    /\ GoOn(c)
    /\ UNCHANGED <<head, deployed, debounce, monitoring, spentGh>>

PollMoves(c) ==
    \/ PollsNext(c) \/ GhFails(c)
    \/ HeadAnswered(c) \/ DeploymentsAnswered(c) \/ StatusesAnswered(c) \/ StatusesUnread(c)
    \/ StatusStored(c)

EnvNext ==
    \/ DeployStep
    \/ \E p \in PRs : OnPrCreated(p)
    \/ RequestHostedEnvironment
    \/ \E p \in PRs, c \in Polls : DebounceFires(p, c)
    \/ \E c \in Polls : IntervalFires(c) \/ StartMonitor(c) \/ PollMoves(c)
    \/ StopMonitor

EnvSpec == EnvInit /\ [][EnvNext]_envVars

(* Timers fire, gh ends. *)
EnvFairness ==
    /\ \A c \in Polls : WF_envVars(PollMoves(c))
    /\ WF_envVars(\E c \in Polls : IntervalFires(c))

-----------------------------------------------------------------------------
EnvTypeOK ==
    /\ envs \in Seq(EnvRecord) /\ Len(envs) <= MaxEnvRows
    /\ head \in [PRs -> Commits]
    /\ deployed \in [PRs -> [Commits -> EnvStatuses \cup {"none"}]]
    /\ debounce \subseteq PRs /\ monitoring \in BOOLEAN
    /\ ghPoll \in [Polls -> [step : {"none", "next", "sha", "deployments", "statuses", "answer"},
                             pr : PRs \cup {NoPR}, todo : SUBSET PRs, commit : Commits,
                             status : EnvStatuses \cup {"none"}]]
    /\ spentGh \in [steps : 0..MaxDeploySteps, faults : 0..MaxGhFaults]

(* While the monitor runs, the newest row of a PR comes to show what GitHub   *)
(* says of the deployment of its head, and stays so, once GitHub is done:     *)
(* an older poll that answers late is corrected by a later round              *)
(* (deploymentStatusPoller.ts:300-343, 380-413).                             *)
Shown(p) == p \in Known => envs[Newest(p)].status = deployed[p][head[p]]
StatusShown ==
    \A p \in PRs :
        <>[](monitoring /\ deployed[p][head[p]] # "none") => <>[]Shown(p)
=============================================================================
