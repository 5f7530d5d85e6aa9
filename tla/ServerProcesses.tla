-------------------------- MODULE ServerProcesses --------------------------
(***************************************************************************)
(* The MCP servers that the sidecar spawns detached, the sidecar that the    *)
(* host spawns, and the requests that pass between the two.  Processes exit  *)
(* at any time; the exit event, the watchdog's look and a stop that waits    *)
(* come in any order.                                                        *)
(***************************************************************************)
EXTENDS Naturals, FiniteSets

CONSTANTS
    Servers,       \* names in the registry's manifest, all enabled
    MaxSpawns, MaxServerOps, MaxRequests   \* bounds

ASSUME ProcessBounds == {MaxSpawns, MaxServerOps, MaxRequests} \subseteq Nat

Procs == 1..MaxSpawns      \* processes, in the order of their spawning
Stops == {1, 2}            \* stopServer calls that wait
Requests == 1..MaxRequests

VARIABLES
    os,          \* os[p]: process p as the operating system has it, and its server
    exits,       \* processes whose exit event is not yet delivered
    entry,       \* entry[s]: the process of server s that the map names, or 0
    stop,        \* stop[c]: a stopServer that waits for its process to end
    untracked,   \* history: processes whose entry went with the sidecar, or with a stop
                 \* that was about an earlier process
    sidecar,     \* "up" or "down"
    desktop,        \* "on" or "off"
    request,     \* request[i]: where request i to the sidecar is
    serverOps    \* operations so far

processVars == <<os, exits, entry, stop, untracked, sidecar, desktop, request, serverOps>>

NoStop == [proc |-> 0, server |-> "", again |-> FALSE]

ProcessInit ==
    /\ os = [p \in Procs |-> [state |-> "unborn", server |-> ""]]
    /\ exits = {} /\ entry = [s \in Servers |-> 0]
    /\ stop = [c \in Stops |-> NoStop]
    /\ untracked = {}
    /\ sidecar = "up" /\ desktop = "on"
    /\ request = [i \in Requests |-> "unsent"]
    /\ serverOps = 0

Unborn == {p \in Procs : os[p].state = "unborn"}
Fresh == CHOOSE p \in Unborn : \A q \in Unborn : p <= q

Operate ==
    /\ sidecar = "up" /\ desktop = "on"
    /\ serverOps < MaxServerOps /\ serverOps' = serverOps + 1

(* spawnServer, unless the map has the name. *)
Spawn(s) ==
    /\ Unborn # {}
    /\ os' = [os EXCEPT ![Fresh] = [state |-> "runs", server |-> s]]

StartServer(s) ==
    /\ Operate /\ entry[s] = 0
    /\ Spawn(s)
    /\ entry' = [entry EXCEPT ![s] = Fresh]
    /\ UNCHANGED <<exits, stop, untracked, sidecar, desktop, request>>

(* registry.startAll: every server that the map lacks is spawned. *)
StartAll ==
    LET missing == {s \in Servers : entry[s] = 0}
        first == {p \in Unborn : Cardinality({q \in Unborn : q <= p}) <= Cardinality(missing)}
    IN  /\ missing # {} /\ Cardinality(first) = Cardinality(missing)
        /\ \E of \in [first -> missing] :
              /\ \A s \in missing : \E p \in first : of[p] = s
              /\ os' = [p \in Procs |-> IF p \in first THEN [state |-> "runs", server |-> of[p]] ELSE os[p]]
              /\ entry' = [s \in Servers |-> IF s \in missing THEN CHOOSE p \in first : of[p] = s
                                             ELSE entry[s]]

(* onboarding.start; the sync it starts is another part's. *)
OnboardingStart ==
    /\ Operate /\ StartAll
    /\ UNCHANGED <<exits, stop, untracked, sidecar, desktop, request>>

(* stopServer and restartServer of a server that runs. *)
StopServer(s, c, again) ==
    /\ Operate /\ entry[s] # 0 /\ stop[c] = NoStop
    /\ stop' = [stop EXCEPT ![c] = [proc |-> entry[s], server |-> s, again |-> again]]
    /\ os' = [os EXCEPT ![entry[s]].state = IF @ = "runs" THEN "told" ELSE @]
    /\ UNCHANGED <<exits, entry, untracked, sidecar, desktop, request>>

(* A server exits, told or not. *)
ServerExits(p) ==
    /\ os[p].state \in {"runs", "told", "left"}
    /\ os' = [os EXCEPT ![p].state = "gone"]
    /\ exits' = IF p \in untracked THEN exits ELSE exits \cup {p}
    /\ UNCHANGED <<entry, stop, untracked, sidecar, desktop, request, serverOps>>

(* Mutated form of ExitEvent: whatever process has the name is forgotten. *)
ExitEventByName(p) ==
    /\ p \in exits /\ sidecar # "down"
    /\ exits' = exits \ {p}
    /\ entry' = [entry EXCEPT ![os[p].server] = 0]
    /\ UNCHANGED <<os, stop, untracked, sidecar, desktop, request, serverOps>>

ExitEvent(p) ==
    /\ p \in exits /\ sidecar # "down"
    /\ exits' = exits \ {p}
    /\ entry' = [entry EXCEPT ![os[p].server] = IF @ = p THEN 0 ELSE @]
    /\ UNCHANGED <<os, stop, untracked, sidecar, desktop, request, serverOps>>

(* The watchdog forgets a dead process and notifies; nothing is restarted.   *)
WatchdogLooks ==
    /\ sidecar # "down"
    /\ \E s \in Servers : entry[s] # 0 /\ os[entry[s]].state = "gone"
    /\ entry' = [s \in Servers |-> IF entry[s] # 0 /\ os[entry[s]].state = "gone" THEN 0 ELSE entry[s]]
    /\ UNCHANGED <<os, exits, stop, untracked, sidecar, desktop, request, serverOps>>

(* SIGKILL after 5 s, when the process is still there. *)
KillIfLate(p) == IF os[p].state = "told" THEN "gone" ELSE os[p].state

(* restartServer goes on to spawn. *)
Respawns(c) == stop[c].again /\ Unborn # {}

(* The wait is over: the process ended or had its 5 s.  The entry is removed *)
(* by name; a restart spawns into it, or fails when the name is taken.       *)
StopReturns(c) ==
    LET p == stop[c].proc
        s == stop[c].server
        killed == [os EXCEPT ![p].state = KillIfLate(p)]
    IN  /\ stop[c] # NoStop
        /\ untracked' = IF entry[s] \notin {0, p} THEN untracked \cup {entry[s]} ELSE untracked
        /\ IF Respawns(c)
           THEN /\ os' = [killed EXCEPT ![Fresh] = [state |-> "runs", server |-> s]]
                /\ entry' = [entry EXCEPT ![s] = Fresh]
           ELSE os' = killed /\ entry' = [entry EXCEPT ![s] = 0]
        /\ exits' = IF killed[p] # os[p] THEN exits \cup {p} ELSE exits
        /\ stop' = [stop EXCEPT ![c] = NoStop]
        /\ UNCHANGED <<sidecar, desktop, request, serverOps>>

-----------------------------------------------------------------------------
(* The sidecar and its host. *)

Running == {p \in Procs : os[p].state \in {"runs", "told"}}

SidecarGone ==
    /\ entry' = [s \in Servers |-> 0] /\ exits' = {}
    /\ stop' = [c \in Stops |-> NoStop]
    /\ untracked' = untracked \cup Running

(* handleFatalError, or a kill: the detached servers go on. *)
SidecarDies ==
    /\ sidecar = "up" /\ serverOps < MaxServerOps
    /\ serverOps' = serverOps + 1
    /\ sidecar' = "down" /\ SidecarGone
    /\ UNCHANGED <<os, desktop, request>>

(* The host waits for the answer: the sidecar has not given it, or it is on  *)
(* its way.                                                                  *)
Awaited(i) == request[i] \in {"sent", "answered"}

RequestsDie == request' = [i \in Requests |-> IF Awaited(i) THEN "failed" ELSE request[i]]

(* CloseRequested: stdin is closed and the child is killed, so its handler   *)
(* of SIGTERM, which would stop the servers, does not run.                   *)
QuitHost ==
    /\ desktop = "on" /\ desktop' = "off"
    /\ sidecar' = "down" /\ SidecarGone
    /\ RequestsDie
    /\ UNCHANGED <<os, serverOps>>

(* The sidecar, whose timers keep it alive, outlives a host that crashes. *)
HostCrashes ==
    /\ desktop = "on" /\ desktop' = "off" /\ sidecar = "up"
    /\ RequestsDie
    /\ UNCHANGED <<os, exits, entry, stop, untracked, sidecar, serverOps>>

(* cleanup_orphans: a sidecar that the PID file names gets SIGTERM and stops *)
(* the servers in its map; nothing reads the pids of other servers.          *)
OrphanTold ==
    [p \in Procs |-> IF sidecar = "up" /\ p \in Running /\ entry[os[p].server] = p
                     THEN [os[p] EXCEPT !.state = "left"] ELSE os[p]]

StartHost ==
    /\ desktop = "off" /\ desktop' = "on"
    /\ serverOps < MaxServerOps /\ serverOps' = serverOps + 1
    /\ sidecar' = "up" /\ SidecarGone
    /\ os' = OrphanTold
    /\ UNCHANGED request

(* stopAll of the sidecar that was told to end. *)
LastStop(p) ==
    /\ os[p].state = "left"
    /\ os' = [os EXCEPT ![p].state = "gone"]
    /\ UNCHANGED <<exits, entry, stop, untracked, sidecar, desktop, request, serverOps>>

(* A page calls a command of the host, and each forwards one request. *)
Command(i) == desktop = "on" /\ request[i] = "unsent" /\ \A j \in 1..(i - 1) : request[j] # "unsent"

(* send_request: the write fails once the sidecar's end of the pipe is gone. *)
SendRequest(i) ==
    /\ Command(i)
    /\ request' = [request EXCEPT ![i] = IF sidecar = "up" THEN "sent" ELSE "failed"]
    /\ UNCHANGED <<os, exits, entry, stop, untracked, sidecar, desktop, serverOps>>

(* handleRequest answers whatever it is asked: a result or an error. *)
HandleRequest(i) ==
    /\ sidecar = "up" /\ request[i] = "sent"
    /\ request' = [request EXCEPT ![i] = "answered"]
    /\ UNCHANGED <<os, exits, entry, stop, untracked, sidecar, desktop, serverOps>>

(* The host's reader: what was written before the sidecar died is read. *)
Answered(i) ==
    /\ desktop = "on" /\ request[i] = "answered"
    /\ request' = [request EXCEPT ![i] = "done"]
    /\ UNCHANGED <<os, exits, entry, stop, untracked, sidecar, desktop, serverOps>>

(* Mutated form of RequestTimesOut: the wait ends when the sidecar is there. *)
RequestTimesOutIfUp(i) ==
    /\ desktop = "on" /\ Awaited(i) /\ sidecar = "up"
    /\ request' = [request EXCEPT ![i] = "failed"]
    /\ UNCHANGED <<os, exits, entry, stop, untracked, sidecar, desktop, serverOps>>

(* Nobody tells a request that the sidecar is gone: it has its 30 s. *)
RequestTimesOut(i) ==
    /\ desktop = "on" /\ Awaited(i)
    /\ request' = [request EXCEPT ![i] = "failed"]
    /\ UNCHANGED <<os, exits, entry, stop, untracked, sidecar, desktop, serverOps>>

ProcessNext ==
    \/ \E s \in Servers : StartServer(s)
    \/ OnboardingStart
    \/ \E s \in Servers, c \in Stops, again \in BOOLEAN : StopServer(s, c, again)
    \/ \E p \in Procs : ServerExits(p) \/ ExitEvent(p)
    \/ WatchdogLooks
    \/ \E c \in Stops : StopReturns(c)
    \/ SidecarDies \/ QuitHost \/ HostCrashes \/ StartHost
    \/ \E p \in Procs : LastStop(p)
    \/ \E i \in Requests :
        SendRequest(i) \/ HandleRequest(i) \/ Answered(i) \/ RequestTimesOut(i)

ProcessSpec == ProcessInit /\ [][ProcessNext]_processVars

(* Timers fire. *)
ProcessFairness ==
    /\ \A c \in Stops : WF_processVars(StopReturns(c))
    /\ \A i \in Requests : WF_processVars(RequestTimesOut(i))

-----------------------------------------------------------------------------
ProcessTypeOK ==
    /\ os \in [Procs -> [state : {"unborn", "runs", "told", "left", "gone"}, server : Servers \cup {""}]]
    /\ exits \subseteq Procs /\ entry \in [Servers -> {0} \cup Procs]
    /\ stop \in [Stops -> [proc : {0} \cup Procs, server : Servers \cup {""}, again : BOOLEAN]]
    /\ untracked \subseteq Procs
    /\ sidecar \in {"up", "down"} /\ desktop \in {"on", "off"}
    /\ request \in [Requests -> {"unsent", "sent", "answered", "done", "failed"}]
    /\ serverOps \in 0..MaxServerOps

(* A server that runs is in the map of the sidecar that runs, unless it was   *)
(* spawned while a stop of its predecessor waited or outlived its sidecar:    *)
(* a late exit event does not remove a new process                           *)
(* (processManager.ts:81-86, 131, 188-201).                                  *)
ServersAreTracked ==
    \A p \in Procs \ untracked : os[p].state = "runs" => entry[os[p].server] = p

(* A stop that was called ends, and then its process is gone, unless the      *)
(* sidecar went first; a host's request ends, also when the sidecar dies      *)
(* before its answer or a new one takes its place (processManager.ts:92-133,  *)
(* sidecar.rs:31-83).                                                        *)
CallsEnd ==
    /\ \A p \in Procs : os[p].state = "told" ~> (os[p].state \in {"left", "gone"} \/ p \in untracked)
    /\ \A i \in Requests : Awaited(i) ~> request[i] \in {"done", "failed"}
=============================================================================
