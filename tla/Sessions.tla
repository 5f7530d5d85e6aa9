------------------------------ MODULE Sessions ------------------------------
(***************************************************************************)
(* The task branches of the session manager: file events that create a       *)
(* worktree and a row for it, pollers that produce such events, resume,      *)
(* delete and close, all suspended at their git and gh calls while the       *)
(* others go on.  An unhandled rejection ends the sidecar, a restart reads    *)
(* the rows from SQLite and checks them.                                      *)
(***************************************************************************)
EXTENDS Naturals, Sequences, FiniteSets

CONSTANTS
    Sess,          \* session ids; one repository, one mission
    MaxTries,      \* MAX_COLLISION_RETRIES: names worktree add may try
    MaxRows, MaxSessionStops, MaxUserOps   \* bounds

ASSUME SessionBounds ==
    {MaxTries, MaxRows, MaxSessionStops, MaxUserOps} \subseteq Nat \ {0}

NoWorktree == 0            \* worktreePath "" of a failed creation
Trees == 1..MaxTries   \* tree t is the path and branch of attempt t
Calls == {1, 2}        \* suspended calls

(* A task branch: its session, worktree and status, whether it has a pull      *)
(* request, and whether it is still there.                                   *)
Row == [sess : Sess, tree : {NoWorktree} \cup Trees, live : BOOLEAN, pr : BOOLEAN,
        status : {"active", "stale", "merged", "broken"}]

VARIABLES
    rows,          \* task_branches, in the order of their ids
    trees,         \* git's view and the disk's of each tree
    pollers,       \* sessions with a poll timer
    call,          \* call[c]: what a suspended call awaits
    advisory,      \* the mode is "advisory"
    alive,         \* the sidecar runs
    remotePrs,     \* trees whose branch has a pull request on GitHub
    lostPrs,       \* history: trees whose PR was made while the answer of gh was lost
    spentOps       \* stops and user operations so far

sessionVars == <<rows, trees, pollers, call, advisory, alive, remotePrs, lostPrs, spentOps>>

NoCall == [op |-> "none", sess |-> "", row |-> 0, tree |-> NoWorktree, pr |-> FALSE]

SessionsInit ==
    /\ rows = <<>>
    /\ trees = [t \in Trees |-> "free"]
    /\ pollers = {}
    /\ call = [c \in Calls |-> NoCall]
    /\ advisory = FALSE /\ alive = TRUE
    /\ remotePrs = {} /\ lostPrs = {}
    /\ spentOps = [stops |-> 0, ops |-> 0]

Live == {r \in 1..Len(rows) : rows[r].live}
RowOf(s) == {r \in Live : rows[r].sess = s}

(* The unique index on session_id, over the rows not deleted. *)
Taken(s) == RowOf(s) # {}

Listed(t) == trees[t] \in {"there", "gone"}

(* git's list is searched for the path as a substring: "" is in every list,  *)
(* the first name is a prefix of the others.                                 *)
ListNames(t) == t = NoWorktree \/ Listed(t) \/ (t = 1 /\ \E u \in Trees : Listed(u))

Suspend(c, op, s, r, t, pr) ==
    call' = [call EXCEPT ![c] = [op |-> op, sess |-> s, row |-> r, tree |-> t, pr |-> pr]]
Return(c) == call' = [call EXCEPT ![c] = NoCall]

(* handleFatalError: the process exits and takes its calls along, the answer *)
(* that names a new PR among them.                                           *)
Fatal ==
    /\ alive' = FALSE /\ pollers' = {}
    /\ call' = [c \in Calls |-> NoCall]
    /\ lostPrs' = lostPrs \cup {call[c].tree : c \in {d \in Calls : call[d].op = "store"}}

-----------------------------------------------------------------------------
(* File events.                                                              *)

Insert(s, t, status) ==
    rows' = Append(rows, [sess |-> s, tree |-> t, status |-> status, live |-> TRUE, pr |-> FALSE])

Creating == {c \in Calls : call[c].op = "create"}
RoomForRow == Len(rows) + Cardinality(Creating) < MaxRows

FileEvent(s, c) ==
    /\ alive /\ ~advisory /\ RowOf(s) = {} /\ RoomForRow
    /\ call[c] = NoCall
    /\ Suspend(c, "create", s, 0, NoWorktree, FALSE)
    /\ UNCHANGED <<rows, trees, pollers, advisory, alive, remotePrs, lostPrs, spentOps>>

(* Mutated form of WorktreeCreated: the index on session_id is not unique. *)
WorktreeCreatedAgain(c) ==
    /\ call[c].op = "create"
    /\ \E t \in Trees :
          /\ trees[t] = "free" /\ trees' = [trees EXCEPT ![t] = "there"]
          /\ Insert(call[c].sess, t, "active")
          /\ pollers' = pollers \cup {call[c].sess}
    /\ Return(c)
    /\ UNCHANGED <<advisory, alive, remotePrs, lostPrs, spentOps>>

(* The branch is new to git, so the name is; the row is not, when the        *)
(* session got one meanwhile.                                                *)
WorktreeCreated(c) ==
    /\ call[c].op = "create"
    /\ \E t \in Trees :
          /\ trees[t] = "free" /\ trees' = [trees EXCEPT ![t] = "there"]
          /\ IF Taken(call[c].sess)
             THEN Fatal /\ UNCHANGED rows
             ELSE /\ Insert(call[c].sess, t, "active")
                  /\ pollers' = pollers \cup {call[c].sess}
                  /\ Return(c)
                  /\ UNCHANGED <<alive, lostPrs>>
    /\ UNCHANGED <<advisory, remotePrs, spentOps>>

(* Mutated form of WorktreeFails: the failure is not recorded. *)
WorktreeFailsUnseen(c) ==
    /\ call[c].op = "create"
    /\ Return(c)
    /\ UNCHANGED <<rows, trees, pollers, advisory, alive, remotePrs, lostPrs, spentOps>>

WorktreeFails(c) ==
    /\ call[c].op = "create"
    /\ IF Taken(call[c].sess)
       THEN Fatal /\ UNCHANGED rows
       ELSE /\ Insert(call[c].sess, NoWorktree, "broken")
            /\ Return(c)
            /\ UNCHANGED <<pollers, alive, lostPrs>>
    /\ UNCHANGED <<trees, advisory, remotePrs, spentOps>>

(* pollOnce: the timer does not wait for it, stopPolling does not stop it. *)
PollFires(s, c) ==
    /\ alive /\ s \in pollers /\ call[c] = NoCall
    /\ Suspend(c, "poll", s, 0, NoWorktree, FALSE)
    /\ UNCHANGED <<rows, trees, pollers, advisory, alive, remotePrs, lostPrs, spentOps>>

(* Changes in the repository are an event, unless a hook told of them. *)
ChangesPolled(c) ==
    /\ call[c].op = "poll"
    /\ \/ Return(c)
       \/ /\ ~advisory /\ RowOf(call[c].sess) = {} /\ RoomForRow
          /\ Suspend(c, "create", call[c].sess, 0, NoWorktree, FALSE)
    /\ UNCHANGED <<rows, trees, pollers, advisory, alive, remotePrs, lostPrs, spentOps>>

-----------------------------------------------------------------------------
(* Operations on a row.                                                      *)

Operation(c) ==
    /\ alive /\ call[c] = NoCall
    /\ spentOps.ops < MaxUserOps
    /\ spentOps' = [spentOps EXCEPT !.ops = @ + 1]

ResumeStarts(r, c) ==
    /\ Operation(c) /\ r \in Live
    /\ Suspend(c, "health", rows[r].sess, r, rows[r].tree, FALSE)
    /\ UNCHANGED <<rows, trees, pollers, advisory, alive, remotePrs, lostPrs>>

(* The row is updated whatever became of it since it was read. *)
Resumed(c) ==
    /\ call[c].op = "health"
    /\ \E healthy \in {ListNames(call[c].tree), FALSE} :
          /\ rows' = [rows EXCEPT ![call[c].row].status = IF healthy THEN "active" ELSE "broken"]
          /\ pollers' = IF healthy THEN pollers \cup {call[c].sess} ELSE pollers
    /\ Return(c)
    /\ UNCHANGED <<trees, advisory, alive, remotePrs, lostPrs, spentOps>>

(* With force there is no look at the changes. *)
DeleteStarts(r, c) ==
    /\ Operation(c) /\ r \in Live
    /\ \E next \in {"changes", "remove"} : Suspend(c, next, rows[r].sess, r, rows[r].tree, FALSE)
    /\ UNCHANGED <<rows, trees, pollers, advisory, alive, remotePrs, lostPrs>>

ChangesChecked(c) ==
    /\ call[c].op = "changes"
    /\ \/ Return(c)
       \/ Suspend(c, "remove", call[c].sess, call[c].row, call[c].tree, FALSE)
    /\ UNCHANGED <<rows, trees, pollers, advisory, alive, remotePrs, lostPrs, spentOps>>

(* removeWorktree swallows git's errors: the tree may stay. *)
Deleted(c) ==
    /\ call[c].op = "remove"
    /\ \/ UNCHANGED trees
       \/ /\ call[c].tree # NoWorktree
          /\ trees' = [trees EXCEPT ![call[c].tree] = "removed"]
    /\ rows' = [rows EXCEPT ![call[c].row].live = FALSE]
    /\ pollers' = pollers \ {call[c].sess}
    /\ Return(c)
    /\ UNCHANGED <<advisory, alive, remotePrs, lostPrs, spentOps>>

(* close: the PR number of the row is read here. *)
CloseStarts(r, c) ==
    /\ Operation(c) /\ r \in Live
    /\ Suspend(c, "push", rows[r].sess, r, rows[r].tree, rows[r].pr)
    /\ UNCHANGED <<rows, trees, pollers, advisory, alive, remotePrs, lostPrs>>

(* Without createPr, or with a PR in the row, the push is the end.  A row      *)
(* without a worktree has no branch name, and git refuses to push that.      *)
Pushed(c) ==
    /\ call[c].op = "push"
    /\ \/ Return(c)
       \/ /\ ~call[c].pr /\ call[c].tree # NoWorktree
          /\ Suspend(c, "pr", call[c].sess, call[c].row, call[c].tree, FALSE)
    /\ UNCHANGED <<rows, trees, pollers, advisory, alive, remotePrs, lostPrs, spentOps>>

(* gh makes the PR, unless the branch has one; its answer is under way. *)
PrMade(c) ==
    /\ call[c].op = "pr" /\ call[c].tree \notin remotePrs
    /\ remotePrs' = remotePrs \cup {call[c].tree}
    /\ Suspend(c, "store", call[c].sess, call[c].row, call[c].tree, FALSE)
    /\ UNCHANGED <<rows, trees, pollers, advisory, alive, lostPrs, spentOps>>

(* Mutated form of PrStored: the bridge is told first, and may throw. *)
PrStoredLast(c) ==
    /\ call[c].op = "store"
    /\ \/ rows' = [rows EXCEPT ![call[c].row].pr = TRUE]
       \/ UNCHANGED rows
    /\ Suspend(c, "bridge", call[c].sess, call[c].row, call[c].tree, TRUE)
    /\ UNCHANGED <<trees, pollers, advisory, alive, remotePrs, lostPrs, spentOps>>

PrStored(c) ==
    /\ call[c].op = "store"
    /\ rows' = [rows EXCEPT ![call[c].row].pr = TRUE]
    /\ Suspend(c, "bridge", call[c].sess, call[c].row, call[c].tree, TRUE)
    /\ UNCHANGED <<trees, pollers, advisory, alive, remotePrs, lostPrs, spentOps>>

(* gh fails, or prints something else, after it made the PR. *)
AnswerLost(c) ==
    /\ call[c].op = "store"
    /\ lostPrs' = lostPrs \cup {call[c].tree}
    /\ Return(c)
    /\ UNCHANGED <<rows, trees, pollers, advisory, alive, remotePrs, spentOps>>

(* A command fails, or the bridge has been told: close throws or returns. *)
CloseEnds(c) ==
    /\ call[c].op \in {"push", "pr", "bridge"}
    /\ Return(c)
    /\ UNCHANGED <<rows, trees, pollers, advisory, alive, remotePrs, lostPrs, spentOps>>

SetMode ==
    /\ alive /\ spentOps.ops < MaxUserOps
    /\ spentOps' = [spentOps EXCEPT !.ops = @ + 1]
    /\ advisory' = ~advisory
    /\ UNCHANGED <<rows, trees, pollers, call, alive, remotePrs, lostPrs>>

-----------------------------------------------------------------------------
(* The user removes a worktree's directory; git forgets it later. *)
TreeVanishes(t) ==
    /\ spentOps.ops < MaxUserOps
    /\ spentOps' = [spentOps EXCEPT !.ops = @ + 1]
    /\ \/ trees[t] = "there" /\ trees' = [trees EXCEPT ![t] = "gone"]
       \/ trees[t] = "gone" /\ trees' = [trees EXCEPT ![t] = "removed"]
    /\ UNCHANGED <<rows, pollers, call, advisory, alive, remotePrs, lostPrs>>

(* The sidecar stops; git may have made a tree for a call that is lost. *)
SidecarStops ==
    /\ alive /\ spentOps.stops < MaxSessionStops
    /\ spentOps' = [spentOps EXCEPT !.stops = @ + 1]
    /\ Fatal
    /\ \/ UNCHANGED trees
       \/ \E t \in Trees : Creating # {} /\ trees[t] = "free" /\ trees' = [trees EXCEPT ![t] = "there"]
    /\ UNCHANGED <<rows, advisory, remotePrs>>

(* initialize: scanIntegrity, then the stale threshold, then the merges.     *)
Checked(row, healthy, old, merged) ==
    LET broken == row.status = "broken" \/ ~healthy
        stale == row.status = "stale" \/ (row.status = "active" /\ old)
    IN  IF ~row.live THEN row.status
        ELSE IF broken THEN "broken"
        ELSE IF merged \/ row.status = "merged" THEN "merged"
        ELSE IF stale THEN "stale" ELSE "active"

SidecarRestarts ==
    /\ ~alive /\ alive' = TRUE /\ advisory' = FALSE
    /\ \E old, merged, failing \in SUBSET Live :
          rows' = [r \in 1..Len(rows) |-> [rows[r] EXCEPT !.status =
              Checked(rows[r], rows[r].tree # NoWorktree /\ r \notin failing /\ trees[rows[r].tree] = "there",
                      r \in old, r \in merged)]]
    /\ UNCHANGED <<trees, pollers, call, remotePrs, lostPrs, spentOps>>
-----------------------------------------------------------------------------
CallProceeds(c) ==
    \/ WorktreeCreated(c) \/ WorktreeFails(c)
    \/ ChangesPolled(c)
    \/ Resumed(c)
    \/ ChangesChecked(c) \/ Deleted(c)
    \/ Pushed(c) \/ PrMade(c) \/ PrStored(c) \/ AnswerLost(c) \/ CloseEnds(c)

SessionsNext ==
    \/ \E s \in Sess, c \in Calls : FileEvent(s, c) \/ PollFires(s, c)
    \/ \E c \in Calls : CallProceeds(c)
    \/ \E r \in 1..MaxRows, c \in Calls : ResumeStarts(r, c) \/ DeleteStarts(r, c) \/ CloseStarts(r, c)
    \/ SetMode
    \/ \E t \in Trees : TreeVanishes(t)
    \/ SidecarStops
    \/ SidecarRestarts

SessionsSpec == SessionsInit /\ [][SessionsNext]_sessionVars

-----------------------------------------------------------------------------
SessionsTypeOK ==
    /\ rows \in Seq(Row) /\ Len(rows) <= MaxRows
    /\ trees \in [Trees -> {"free", "there", "gone", "removed"}]
    /\ pollers \subseteq Sess
    /\ call \in [Calls -> [op : {"none", "create", "poll", "health", "changes", "remove", "push", "pr",
                                 "store", "bridge"},
                           sess : Sess \cup {""}, row : 0..MaxRows, tree : {NoWorktree} \cup Trees, pr : BOOLEAN]]
    /\ {advisory, alive} \subseteq BOOLEAN
    /\ remotePrs \subseteq Trees /\ lostPrs \subseteq Trees

(* Two events of a new session may both create a worktree, but the rows that *)
(* come of it are one per session and one per worktree                       *)
(* (sessionManager.ts:58-118, taskBranchStore.ts:118-140).                   *)
OneBranchPerSession ==
    \A r, q \in Live : r # q =>
        rows[r].sess # rows[q].sess /\ (rows[r].tree = rows[q].tree => rows[r].tree = NoWorktree)

(* A pull request that GitHub has is in the row of its branch, or on its way *)
(* there, unless the answer that names it was lost: closing twice at a time  *)
(* does not lose it (sessionCloser.ts:98-147).                               *)
PrsAreLinked ==
    \A t \in remotePrs \ lostPrs :
        \/ \E c \in Calls : call[c].op = "store" /\ call[c].tree = t
        \/ \E r \in 1..Len(rows) : rows[r].tree = t /\ rows[r].pr

(* A file event that found no branch leads to one, broken or not, unless the *)
(* sidecar stops or the event waits for git ever after, which it runs without *)
(* a limit on its time (sessionManager.ts:72-112, sessionWiring.ts:17-23).   *)
WorkIsTracked ==
    \A s \in Sess :
        LET Awaits(c) == call[c].op = "create" /\ call[c].sess = s
        IN  \/ (\E c \in Calls : Awaits(c)) ~> (RowOf(s) # {} \/ ~alive)
            \/ \E c \in Calls : <>[]Awaits(c)
=============================================================================
