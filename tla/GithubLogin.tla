------------------------------ MODULE GithubLogin ------------------------------
(***************************************************************************)
(* GitHub login: a page asks, the host passes the call on and waits thirty     *)
(* seconds, the sidecar runs one flow at a time (callback server, browser,     *)
(* callback or timeout or cancellation, exchange of the code).                 *)
(*                                                                         *)
(* Logins are numbered as they are asked for; 0 is none.                      *)
(* The page passes github_auth_start no `params` (Onboarding.tsx:410), which  *)
(* the host's command requires (commands.rs:196); the model is of a call that *)
(* has them.                                                                 *)
(***************************************************************************)
EXTENDS Naturals

CONSTANT MaxLogins   \* bound

ASSUME LoginAssumption == MaxLogins \in Nat

NoLogin == 0
Logins == 1..MaxLogins

VARIABLES
    asked,      \* the login whose answer the page waits for
    logins,     \* number of logins asked for
    calls,      \* calls of github-auth.start on their way to the sidecar
    cancelling,    \* a call of github-auth.cancel is
    signedIn,   \* the page went on with credentials
    serves,     \* the sidecar runs
    flow        \* the sidecar's flow, until activeAbort is reset: its login, its step,
                \* whether it was aborted, what the callback server got, how it ends

NoFlow == [of |-> NoLogin, at |-> "none", aborted |-> FALSE, got |-> "nothing", ok |-> FALSE]
page == <<asked, logins, signedIn>>
loginVars == <<page, calls, cancelling, serves, flow>>

LoginInit ==
    /\ asked = NoLogin /\ logins = 0 /\ signedIn = FALSE
    /\ calls = {} /\ cancelling = FALSE /\ serves = TRUE
    /\ flow = NoFlow

-----------------------------------------------------------------------------
(* The page and the host.  The page passes its fields where the host's command *)
(* wants one argument params; calls are taken to arrive, and one that is       *)
(* refused is a HostTimesOut that comes at once.                              *)

HandleGitHubLogin ==
    /\ ~signedIn /\ asked = NoLogin /\ logins < MaxLogins
    /\ logins' = logins + 1 /\ asked' = logins + 1
    /\ calls' = IF serves THEN calls \cup {logins + 1} ELSE calls
    /\ UNCHANGED <<signedIn, cancelling, serves, flow>>

HandleCancelGitHubLogin ==
    /\ asked # NoLogin /\ serves
    /\ cancelling' = TRUE
    /\ UNCHANGED <<page, calls, serves, flow>>

(* Thirty seconds, or a write to a sidecar that is gone. *)
HostTimesOut ==
    /\ asked # NoLogin
    /\ asked' = NoLogin
    /\ UNCHANGED <<logins, signedIn, calls, cancelling, serves, flow>>

(* An answer that nobody waits for is dropped. *)
Answer(login, ok) ==
    /\ asked' = IF asked = login THEN NoLogin ELSE asked
    /\ signedIn' = (signedIn \/ (asked = login /\ ok))
    /\ UNCHANGED logins

-----------------------------------------------------------------------------
(* github-auth.start and github-auth.cancel. *)

StartFlow(login) ==
    /\ login \in calls /\ serves
    /\ calls' = calls \ {login}
    /\ \/ /\ flow = NoFlow
          /\ flow' = [NoFlow EXCEPT !.of = login, !.at = "listening"]
          /\ UNCHANGED page
       \/ Answer(login, FALSE) /\ UNCHANGED flow   \* a flow is in progress, or no client id or url
    /\ UNCHANGED <<cancelling, serves>>

CancelFlow ==
    /\ cancelling /\ serves
    /\ cancelling' = FALSE
    /\ flow' = CASE flow = NoFlow -> flow
                 [] flow.at = "waiting" -> [flow EXCEPT !.aborted = TRUE, !.at = "closing"]
                 [] OTHER -> [flow EXCEPT !.aborted = TRUE]
    /\ UNCHANGED <<page, calls, serves>>

Step(from, to) == flow.at = from /\ flow' = [flow EXCEPT !.at = to]

ServerListens ==
    /\ Step("listening", "opening")
    /\ UNCHANGED <<page, calls, cancelling, serves>>

(* Mutated form of EndsWith: activeAbort is reset by a login that succeeds. *)
EndsWithIfOk(ok) ==
    Answer(flow.of, ok) /\ flow' = IF ok THEN NoFlow ELSE [NoFlow EXCEPT !.of = flow.of]

(* activeAbort is reset on every way out. *)
EndsWith(ok) == Answer(flow.of, ok) /\ flow' = NoFlow

ServerFails ==
    /\ flow.at = "listening"
    /\ EndsWith(FALSE)
    /\ UNCHANGED <<calls, cancelling, serves>>

(* The browser was opened, or was not; an abort meanwhile is seen now, before *)
(* what the callback brought.                                                *)
UrlOpened ==
    /\ \/ Step("opening", IF flow.aborted THEN "closing" ELSE "waiting")
       \/ Step("opening", "closing")
    /\ UNCHANGED <<page, calls, cancelling, serves>>

(* Only the first callback counts.  A denial has no handler while the browser *)
(* is being opened: the unhandled rejection ends the sidecar, and nobody      *)
(* starts it again.                                                          *)
CallbackArrives ==
    /\ flow.at \in {"opening", "waiting"} /\ flow.got = "nothing"
    /\ \/ /\ flow' = [flow EXCEPT !.got = "code"]
          /\ UNCHANGED <<calls, cancelling, serves>>
       \/ /\ flow.at = "waiting"
          /\ flow' = [flow EXCEPT !.got = "denial"]
          /\ UNCHANGED <<calls, cancelling, serves>>
       \/ /\ flow.at = "opening"
          /\ serves' = FALSE /\ flow' = NoFlow /\ calls' = {} /\ cancelling' = FALSE
    /\ UNCHANGED page

CodeTaken ==
    /\ flow.got # "nothing"
    /\ Step("waiting", IF flow.got = "code" THEN "exchanging" ELSE "closing")
    /\ UNCHANGED <<page, calls, cancelling, serves>>

(* Five minutes, counted from the opening of the browser. *)
TimerFires ==
    /\ flow.got = "nothing" /\ Step("waiting", "closing")
    /\ UNCHANGED <<page, calls, cancelling, serves>>

(* The control plane gives credentials, refuses, or is not reached; the signal *)
(* is not looked at any more.                                                *)
Exchanged ==
    /\ flow.at = "exchanging"
    /\ \E ok \in BOOLEAN : flow' = [flow EXCEPT !.at = "closing", !.ok = ok]
    /\ UNCHANGED <<page, calls, cancelling, serves>>

ServerClosed ==
    /\ flow.at = "closing"
    /\ EndsWith(flow.ok)
    /\ UNCHANGED <<calls, cancelling, serves>>

-----------------------------------------------------------------------------
LoginNext ==
    \/ HandleGitHubLogin \/ HandleCancelGitHubLogin \/ HostTimesOut
    \/ \E login \in Logins : StartFlow(login)
    \/ CancelFlow
    \/ ServerListens \/ ServerFails \/ UrlOpened \/ CallbackArrives \/ CodeTaken
    \/ TimerFires \/ Exchanged \/ ServerClosed

(* The host's timer, the flow's timer, the event loop, and an exchange that    *)
(* fetch itself gives up in the end.  Nothing bounds the command that opens    *)
(* the browser, nor the closing of the callback server, which waits for the    *)
(* connections that browsers hold open.                                      *)
LoginFairness ==
    /\ WF_loginVars(HostTimesOut)
    /\ WF_loginVars(ServerListens \/ ServerFails)
    /\ WF_loginVars(CodeTaken)
    /\ WF_loginVars(TimerFires)
    /\ WF_loginVars(Exchanged)

LoginSpec == LoginInit /\ [][LoginNext]_loginVars

LoginTypeOK ==
    /\ asked \in {NoLogin} \cup Logins /\ logins \in 0..MaxLogins
    /\ calls \subseteq Logins /\ {cancelling, signedIn, serves} \subseteq BOOLEAN
    /\ flow \in [of : {NoLogin} \cup Logins,
                 at : {"none", "listening", "opening", "waiting", "exchanging", "closing"},
                 aborted : BOOLEAN, got : {"nothing", "code", "denial"}, ok : BOOLEAN]

(* A login that was asked for is answered, and the flow ends, whether the      *)
(* callback comes, is a denial, never comes, or the login is cancelled at any  *)
(* step: the next login is refused for ever only while the command that opens  *)
(* the browser, or the callback server that closes, does not come back        *)
(* (github-auth.ts:105-109, 211-213, 274-346, 352-449; Onboarding.tsx:402-440). *)
LoginsEnd ==
    /\ asked # NoLogin ~> asked = NoLogin
    /\ \/ []<>(flow = NoFlow)
       \/ <>[](flow.at = "opening")
       \/ <>[](flow.at = "closing")
=============================================================================
