---------------------------- MODULE DecisionInbox ----------------------------
(***************************************************************************)
(* The local review surface: the HTTP listener of apps/ui/src/server.ts, the*)
(* browser tab of apps/ui/src/web/main.tsx that talks to it, and the CLI    *)
(* process that serves it (serveReview).                                    *)
(*                                                                         *)
(* Each inbox is one CLI process with one listener and one tab.  The run row*)
(* is shared; what other commands do to it is the action Elsewhere, any move*)
(* RunStates allows.  Which decision is answered is left to RunLifecycle: an*)
(* answer here is a write of the row at an expected version.  A recorded     *)
(* replay serves a private fixture nobody writes and is not modelled.       *)
(***************************************************************************)
EXTENDS Integers, FiniteSets, RunStates

CONSTANTS
  Inboxes,      \* CLI processes that serve a review of the run
  Outcomes,     \* bound: the states the run starts in, and other commands move it to
  MaxVersion,   \* bound: the writes of the run row
  MaxLease,     \* bound: the capability generations issued
  MaxLoads      \* bound: the review responses under way to one tab

ASSUME BoundsAssumption ==
  /\ Outcomes \subseteq RunState
  /\ MaxVersion \in Nat /\ MaxLease \in Nat \ {0} /\ MaxLoads \in Nat \ {0}

VARIABLES
  run,      \* the row: state, version, archived, lease (the stored generation)
  rival,    \* the generation of a listener of the same run outside Inboxes, or 0
  stage,    \* how far the process of the inbox is
  gen,      \* reviewCapabilityGeneration, 0 before it is claimed
  revoked,  \* capabilityRevoked
  due,      \* closeTimer is set: the grace period of scheduleClose runs
  stream,   \* the event stream of the tab: the version last written, or -1
  post,     \* the mutation the listener is handling
  loads,    \* review responses under way to the tab
  shown,    \* what the tab displays
  refresh   \* the tab has been told to fetch the review again

processVars  == <<stage, gen>>
listenerVars == <<revoked, due>>
tabVars      == <<stream, loads, shown, refresh>>
rowVars      == <<run, rival>>
vars         == <<rowVars, processVars, listenerVars, tabVars, post>>

Stage  == {"absent", "opened", "serving", "closing", "ended"}
Kind   == {"answer", "approve", "reopen", "cancel"}
Nothing == [version |-> -1, details |-> -1]
NoPost  == [kind |-> "none", expected |-> 0, at |-> "none"]

TypeOK ==
  /\ run \in [state : RunState \cup {"deleted"}, version : 0 .. MaxVersion,
              archived : BOOLEAN, lease : 0 .. MaxLease]
  /\ rival \in 0 .. MaxLease
  /\ stage \in [Inboxes -> Stage]
  /\ gen \in [Inboxes -> 0 .. MaxLease]
  /\ revoked \in [Inboxes -> BOOLEAN]
  /\ due \in [Inboxes -> BOOLEAN]
  /\ stream \in [Inboxes -> -1 .. MaxVersion]
  /\ post \in [Inboxes -> [kind : Kind, expected : 0 .. MaxVersion,
                           at : {"body", "probe"}] \cup {NoPost}]
  /\ loads \in [Inboxes -> SUBSET [version : 0 .. MaxVersion, details : -1 .. MaxVersion]]
  /\ shown \in [Inboxes -> [version : -1 .. MaxVersion, details : -1 .. MaxVersion]]
  /\ refresh \in [Inboxes -> BOOLEAN]

Init ==
  /\ run \in [state : Reviewable \cap Outcomes, version : {0}, archived : {FALSE}, lease : {0}]
  /\ rival = 0
  /\ stage = [p \in Inboxes |-> "absent"]
  /\ gen = [p \in Inboxes |-> 0]
  /\ revoked = [p \in Inboxes |-> FALSE]
  /\ due = [p \in Inboxes |-> FALSE]
  /\ stream = [p \in Inboxes |-> -1]
  /\ post = [p \in Inboxes |-> NoPost]
  /\ loads = [p \in Inboxes |-> {}]
  /\ shown = [p \in Inboxes |-> Nothing]
  /\ refresh = [p \in Inboxes |-> FALSE]

-----------------------------------------------------------------------------
(* The row as a listener sees it.                                              *)

Exists     == run.state # "deleted"
Live       == run.state \in Reviewable /\ ~run.archived
Current(p) == gen[p] = run.lease

(* The process is single-threaded: while it builds a review response, nothing  *)
(* else happens in it.                                                         *)
Serving(p) == stage[p] = "serving" /\ \A r \in loads[p] : r.details # -1

WriteRun(next) ==
  /\ run.version < MaxVersion
  /\ run' = [run EXCEPT !.state = next, !.version = @ + 1]

(* Mutant of NextGeneration: the generation is read, not advanced.            *)
SameGeneration == IF run.lease = 0 THEN 1 ELSE run.lease

(* claimReviewCapability advances the generation in its own transaction.       *)
NextGeneration == run.lease + 1

ClaimReviewCapability ==
  /\ Live
  /\ run.lease < MaxLease
  /\ run' = [run EXCEPT !.lease = NextGeneration]

(* What any other command does to the row: a transition, a write that keeps    *)
(* the state, the archive flag, or a deletion.                                 *)
Elsewhere ==
  /\ Exists
  /\ \/ \E next \in Outcomes : Allowed(run.state, next) /\ WriteRun(next)
     \/ run.state = "needs_review" /\ WriteRun("needs_review")
     \/ \E flag \in BOOLEAN \ {run.archived} : run' = [run EXCEPT !.archived = flag]
     \/ run.state \notin {"running", "pausing"} /\ run' = [run EXCEPT !.state = "deleted"]
  /\ UNCHANGED <<rival, processVars, listenerVars, tabVars, post>>

(* A listener of another process starts to serve the run, and ends.            *)
Rival ==
  /\ \/ ClaimReviewCapability /\ rival' = NextGeneration
     \/ rival # 0 /\ rival' = 0 /\ UNCHANGED run
  /\ UNCHANGED <<processVars, listenerVars, tabVars, post>>

-----------------------------------------------------------------------------
(* The process.                                                                *)

(* serveReview up to listen(): the run is reviewable, or nothing is served.    *)
Open(p) ==
  /\ stage[p] = "absent"
  /\ stage' = [stage EXCEPT ![p] = IF Live THEN "opened" ELSE "ended"]
  /\ UNCHANGED <<rowVars, gen, listenerVars, tabVars, post>>

(* After bind: the run is looked at again and the capability claimed, which    *)
(* repeats both conditions in its transaction; then the URL is printed.        *)
Serve(p) ==
  /\ stage[p] = "opened"
  /\ \/ /\ ClaimReviewCapability
        /\ gen' = [gen EXCEPT ![p] = NextGeneration]
        /\ stage' = [stage EXCEPT ![p] = "serving"]
     \/ /\ ~Live
        /\ stage' = [stage EXCEPT ![p] = "ended"]
        /\ UNCHANGED <<run, gen>>
  /\ UNCHANGED <<rival, listenerVars, tabVars, post>>

(* Its connections are gone: the tab keeps its display and asks no more.       *)
DropTab(p) ==
  /\ stream' = [stream EXCEPT ![p] = -1]
  /\ loads' = [loads EXCEPT ![p] = {}]
  /\ refresh' = [refresh EXCEPT ![p] = FALSE]

(* closeServer: streams end, the timers are cleared, every connection is shut. *)
CloseServer(p) ==
  /\ stage' = [stage EXCEPT ![p] = "closing"]
  /\ revoked' = [revoked EXCEPT ![p] = TRUE]
  /\ due' = [due EXCEPT ![p] = FALSE]
  /\ DropTab(p)

(* Ctrl-C, or a SIGTERM once its handler is there: the race in serveReview.    *)
Shutdown(p) ==
  /\ Serving(p)
  /\ CloseServer(p)
  /\ UNCHANGED <<rowVars, gen, shown, post>>

(* The grace period of scheduleClose is over.                                  *)
CloseWhenDue(p) ==
  /\ Serving(p)
  /\ due[p]
  /\ CloseServer(p)
  /\ UNCHANGED <<rowVars, gen, shown, post>>

(* serveReview returns and runCli stops the controller, which closes the store:*)
(* an approval that is still waiting for its compatibility probe fails.        *)
End(p) ==
  /\ stage[p] = "closing"
  /\ stage' = [stage EXCEPT ![p] = "ended"]
  /\ post' = [post EXCEPT ![p] = NoPost]
  /\ UNCHANGED <<rowVars, gen, listenerVars, tabVars>>

Die(p) ==
  /\ stage' = [stage EXCEPT ![p] = "ended"]
  /\ DropTab(p)
  /\ post' = [post EXCEPT ![p] = NoPost]

Crash(p) ==
  /\ stage[p] \in {"opened", "serving", "closing"}
  /\ Die(p)
  /\ UNCHANGED <<rowVars, gen, revoked, due, shown>>

-----------------------------------------------------------------------------
(* The listener.                                                               *)

ScheduleClose(p) ==
  /\ revoked' = [revoked EXCEPT ![p] = TRUE]
  /\ due' = [due EXCEPT ![p] = TRUE]

KeepOpen == UNCHANGED <<revoked, due>>

(* enforceRequestBoundary: what is refused for the run schedules the close.    *)
Passes(p) == ~revoked[p] /\ Live /\ Current(p)

Refuse(p) == IF revoked[p] THEN KeepOpen ELSE ScheduleClose(p)

(* Mutant of LifecyclePoll: it looks at the run, not at the generation.        *)
LifecyclePollOfRun(p) ==
  /\ Serving(p)
  /\ ~due[p]
  /\ ~Live
  /\ ScheduleClose(p)
  /\ UNCHANGED <<rowVars, processVars, tabVars, post>>

LifecyclePoll(p) ==
  /\ Serving(p)
  /\ ~due[p]
  /\ ~(Live /\ Current(p))
  /\ ScheduleClose(p)
  /\ UNCHANGED <<rowVars, processVars, tabVars, post>>

(* The same poll after idleTimeoutMs with no stream and no request.            *)
IdleTimeout(p) ==
  /\ Serving(p)
  /\ ~due[p]
  /\ stream[p] = -1 /\ loads[p] = {} /\ ~refresh[p] /\ post[p] = NoPost
  /\ ScheduleClose(p)
  /\ UNCHANGED <<rowVars, processVars, tabVars, post>>

(* Mutant of Subscribe: the initial event is kept as previous, not written.    *)
SubscribeQuietly(p) ==
  /\ Serving(p)
  /\ stream[p] = -1
  /\ \/ /\ Passes(p)
        /\ stream' = [stream EXCEPT ![p] = run.version]
        /\ UNCHANGED refresh
        /\ KeepOpen
     \/ ~Passes(p) /\ Refuse(p) /\ UNCHANGED <<stream, refresh>>
  /\ UNCHANGED <<rowVars, processVars, loads, shown, post>>

(* GET .../events: the first event is read before the stream is opened.        *)
Subscribe(p) ==
  /\ Serving(p)
  /\ stream[p] = -1
  /\ \/ /\ Passes(p)
        /\ stream' = [stream EXCEPT ![p] = run.version]
        /\ refresh' = [refresh EXCEPT ![p] = TRUE]
        /\ KeepOpen
     \/ ~Passes(p) /\ Refuse(p) /\ UNCHANGED <<stream, refresh>>
  /\ UNCHANGED <<rowVars, processVars, loads, shown, post>>

(* Every 750 ms the row is read again, without the boundary; an event is       *)
(* written when it differs from the last one.                                  *)
Push(p) ==
  /\ Serving(p)
  /\ stream[p] # -1
  /\ \/ /\ Exists
        /\ stream[p] # run.version
        /\ stream' = [stream EXCEPT ![p] = run.version]
        /\ refresh' = [refresh EXCEPT ![p] = TRUE]
        /\ KeepOpen
     \/ /\ ~Exists
        /\ stream' = [stream EXCEPT ![p] = -1]
        /\ ScheduleClose(p)
        /\ UNCHANGED refresh
  /\ UNCHANGED <<rowVars, processVars, loads, shown, post>>

(* The stream is lost, or the tab is closed and opened again.                  *)
Disconnect(p) ==
  /\ stream[p] # -1
  /\ stream' = [stream EXCEPT ![p] = -1]
  /\ UNCHANGED <<rowVars, processVars, listenerVars, loads, shown, refresh, post>>

(* GET run: toReviewDto reads the row first and then, in calls of their own,   *)
(* the decisions, the contract and the evidence (ReadDetails).                 *)
ReadRow(p) ==
  /\ Serving(p)
  /\ refresh[p]
  /\ Cardinality(loads[p]) < MaxLoads
  /\ refresh' = [refresh EXCEPT ![p] = FALSE]
  /\ \/ /\ Passes(p)
        /\ loads' = [loads EXCEPT ![p] = @ \cup {[version |-> run.version, details |-> -1]}]
        /\ KeepOpen
     \/ ~Passes(p) /\ Refuse(p) /\ UNCHANGED loads
  /\ UNCHANGED <<rowVars, processVars, stream, shown, post>>

(* Mutant of ReadDetails: the row is read after the decisions it is shown with.*)
ReadDetailsFirst(p) ==
  /\ stage[p] = "serving"
  /\ \E r \in loads[p] :
       /\ r.details = -1
       /\ loads' = [loads EXCEPT ![p] =
                      (@ \ {r}) \cup {[version |-> run.version, details |-> r.version]}]
  /\ UNCHANGED <<rowVars, processVars, listenerVars, stream, shown, refresh, post>>

ReadDetails(p) ==
  /\ stage[p] = "serving"
  /\ \E r \in loads[p] :
       /\ r.details = -1
       /\ loads' = [loads EXCEPT ![p] = (@ \ {r}) \cup {[r EXCEPT !.details = run.version]}]
  /\ UNCHANGED <<rowVars, processVars, listenerVars, stream, shown, refresh, post>>

-----------------------------------------------------------------------------
(* The tab.                                                                    *)

(* Mutant of ApplyReview: whatever response comes last is displayed.           *)
ApplyAnyReview(p, r) == shown' = [shown EXCEPT ![p] = r]

ApplyReview(p, r) ==
  shown' = [shown EXCEPT ![p] = IF r.version < @.version THEN @ ELSE r]

(* A response arrives, in whatever order the responses do.                     *)
Deliver(p) ==
  /\ \E r \in loads[p] :
       /\ r.details # -1
       /\ loads' = [loads EXCEPT ![p] = @ \ {r}]
       /\ ApplyReview(p, r)
  /\ UNCHANGED <<rowVars, processVars, listenerVars, stream, refresh, post>>

-----------------------------------------------------------------------------
(* A mutation at the listener.                                                 *)

(* The answer to the tab: a success makes it fetch the review again.           *)
Answered(p, ok) ==
  /\ post' = [post EXCEPT ![p] = NoPost]
  /\ refresh' = [refresh EXCEPT ![p] = (@ \/ ok) /\ stage[p] = "serving"]

(* mutate in the tab: the reviewer acts on what is displayed, and the buttons  *)
(* are disabled meanwhile.  The listener checks the boundary and reads the body.*)
Receive(p) ==
  /\ Serving(p)
  /\ post[p] = NoPost
  /\ shown[p].version # -1
  /\ \/ /\ Passes(p)
        /\ \E k \in Kind :
             post' = [post EXCEPT ![p] = [kind |-> k, expected |-> shown[p].version, at |-> "body"]]
        /\ KeepOpen
     \/ ~Passes(p) /\ Refuse(p) /\ UNCHANGED post
  /\ UNCHANGED <<rowVars, processVars, tabVars>>

(* The body is too large, too late or not an object, or the tab went away.     *)
LoseBody(p) ==
  /\ post[p].at = "body"
  /\ Answered(p, FALSE)
  /\ UNCHANGED <<rowVars, processVars, listenerVars, stream, loads, shown>>

(* requireUnpinned and the generation, inside the store's transaction.         *)
Accepts(p) == Exists /\ ~run.archived /\ Current(p) /\ run.version = post[p].expected

(* Where each mutation may leave the run it finds.                             *)
Effect(kind, from, to) ==
  \/ kind = "answer"  /\ from = "needs_review" /\ to \in {"needs_review", "ready_for_approval", "cancelled"}
  \/ kind = "approve" /\ from = "ready_for_approval" /\ to = "approved"
  \/ kind = "reopen"  /\ from = "ready_for_approval" /\ to = "needs_review"
  \/ kind = "cancel"  /\ from \in Reviewable /\ to = "cancelled"

(* Mutant of HasBody: readJson is not followed by a second boundary.           *)
HasBodyOnce(p) == Serving(p) /\ post[p].at = "body" /\ Exists

(* readJson is done and the boundary holds once more.                          *)
HasBody(p) == Serving(p) /\ post[p].at = "body" /\ Passes(p)

(* Answers, reopening and cancelling are one synchronous call after that;      *)
(* cancelling also schedules the end of the listener.                          *)
Mutate(p) ==
  /\ HasBody(p)
  /\ post[p].kind # "approve"
  /\ Accepts(p)
  /\ \E next \in RunState : Effect(post[p].kind, run.state, next) /\ WriteRun(next)
  /\ Answered(p, TRUE)
  /\ IF post[p].kind = "cancel" THEN ScheduleClose(p) ELSE KeepOpen
  /\ UNCHANGED <<rival, processVars, stream, loads, shown>>

(* The boundary or the transaction refuses: conflict, wrong state, revoked.    *)
Reject(p) ==
  /\ Serving(p)
  /\ post[p].at = "body"
  /\ \/ ~Passes(p) /\ Refuse(p)
     \/ Passes(p) /\ post[p].kind # "approve" /\ KeepOpen
        /\ ~(Accepts(p) /\ \E next \in RunState : Effect(post[p].kind, run.state, next))
  /\ Answered(p, FALSE)
  /\ UNCHANGED <<rowVars, processVars, stream, loads, shown>>

(* LocalController.approve opens a compatibility session before it writes.     *)
ProbeCompatibility(p) ==
  /\ HasBody(p)
  /\ post[p].kind = "approve"
  /\ post' = [post EXCEPT ![p].at = "probe"]
  /\ UNCHANGED <<rowVars, processVars, listenerVars, tabVars>>

(* The probe agrees: the listener may by now be closing, but the store is open.*)
Approve(p) ==
  /\ Serving(p) \/ stage[p] = "closing"
  /\ post[p].at = "probe"
  /\ \/ /\ Accepts(p)
        /\ Effect("approve", run.state, "approved")
        /\ WriteRun("approved")
        /\ Answered(p, TRUE)
        /\ IF stage[p] = "serving" THEN ScheduleClose(p) ELSE KeepOpen
     \/ /\ ~(Accepts(p) /\ run.state = "ready_for_approval")
        /\ Answered(p, FALSE)
        /\ IF stage[p] = "serving" /\ Exists /\ ~Current(p)
           THEN ScheduleClose(p) ELSE KeepOpen
        /\ UNCHANGED run
  /\ UNCHANGED <<rival, processVars, stream, loads, shown>>

(* The probe fails or differs: markCompatibilityStale, which reads the run anew*)
(* and asks neither for the version nor for the capability of the request.     *)
FailApproval(p) ==
  /\ Serving(p) \/ stage[p] = "closing"
  /\ post[p].at = "probe"
  /\ \/ run.state \in {"ready_for_approval", "approved"} /\ WriteRun("stale")
     \/ run.state \notin {"ready_for_approval", "approved"} /\ UNCHANGED run
  /\ Answered(p, FALSE)
  /\ UNCHANGED <<rival, processVars, listenerVars, stream, loads, shown>>

-----------------------------------------------------------------------------
Process(p)  == Open(p) \/ Serve(p) \/ Shutdown(p) \/ CloseWhenDue(p) \/ End(p) \/ Crash(p)
Listener(p) == LifecyclePoll(p) \/ IdleTimeout(p) \/ Subscribe(p) \/ Push(p) \/ Disconnect(p)
               \/ ReadRow(p) \/ ReadDetails(p) \/ Deliver(p)
Mutation(p) == Receive(p) \/ LoseBody(p) \/ Mutate(p) \/ Reject(p)
               \/ ProbeCompatibility(p) \/ Approve(p) \/ FailApproval(p)

Next ==
  \/ Elsewhere
  \/ Rival
  \/ \E p \in Inboxes : Process(p) \/ Listener(p) \/ Mutation(p)

Spec == Init /\ [][Next]_vars

(* The timers of the listener fire, a closed server reports  *)
(* it, and the tab's fetches are served: each is a timer or a callback that     *)
(* nothing else can disable for good.                                          *)
Fairness ==
  \A p \in Inboxes :
    /\ WF_vars(Serve(p)) /\ WF_vars(LifecyclePoll(p)) /\ WF_vars(CloseWhenDue(p))
    /\ WF_vars(End(p)) /\ WF_vars(Push(p)) /\ WF_vars(ReadRow(p))
    /\ WF_vars(ReadDetails(p)) /\ WF_vars(Deliver(p))

FairSpec == Spec /\ Fairness

-----------------------------------------------------------------------------
(* A generation is issued once, and never ahead of the stored one: two         *)
(* listeners of one run never both accept requests, however they started       *)
(* (claimReviewCapability, enforceRequestBoundary).                            *)
OneInboxAccepts ==
  \A p \in Inboxes :
    stage[p] = "serving" /\ Passes(p) =>
      /\ rival # gen[p]
      /\ \A q \in Inboxes \ {p} : stage[q] = "serving" => ~Passes(q)

(* A review action takes effect only on what the reviewer has on the screen:   *)
(* the decisions and the contract the tab displays, which toReviewDto reads    *)
(* apart from the version it sends back, are those of the version it changes.  *)
ActsOnWhatIsShown ==
  [][\A p \in Inboxes :
       post[p] # NoPost /\ run'.version # run.version /\ post'[p] # post[p] /\ run'.state # "stale"
         => shown[p] = [version |-> run.version, details |-> run.version]]_vars

(* Review responses may arrive in any order; the display never goes back to an *)
(* older version of the run (observedVersion in applyReview).                  *)
DisplayNeverGoesBack ==
  [][\A p \in Inboxes : shown'[p].version >= shown[p].version]_vars

(* A listener that has revoked its capability writes nothing any more, except  *)
(* for an approval that had passed its second boundary before.                 *)
RevokedIsSilent ==
  [][\A p \in Inboxes :
       revoked[p] /\ post[p].at # "probe" /\ post'[p] # post[p] => run' = run]_vars

(* Whatever a listener writes for its tab, it writes while its generation is   *)
(* the stored one and the run is not archived.                                 *)
UiWritesHoldTheLease ==
  [][\A p \in Inboxes :
       post[p] # NoPost /\ post'[p] # post[p] /\ run' # run => Current(p) /\ ~run.archived]_vars

(* A listener does not outlive its purpose: when another one has the           *)
(* capability, or the run is for ever out of review, its process ends, although*)
(* its tab keeps the event stream open and mutations are under way.            *)
InboxEnds ==
  \A p \in Inboxes :
    (stage[p] = "serving" /\ (~Current(p) \/ run.state \in Terminal \cup {"deleted"}))
      ~> (stage[p] = "ended")

(* A tab with an event stream ends up displaying the latest version, details   *)
(* included, unless its listener or its stream goes away.                      *)
DisplayCatchesUp ==
  \A p \in Inboxes :
    []<>(\/ stage[p] # "serving" \/ revoked[p] \/ stream[p] = -1
         \/ shown[p] = [version |-> run.version, details |-> run.version])
=============================================================================
