------------------------- MODULE DecisionInbox_proofs -------------------------
(***************************************************************************)
(* Proofs about DecisionInbox, for any inboxes and bounds: two listeners of  *)
(* a run never both accept requests, a mutation takes effect only on what   *)
(* the tab displays, a revoked listener writes nothing, and the display     *)
(* never goes back.                                                        *)
(***************************************************************************)
EXTENDS DecisionInbox, TLAPS

-----------------------------------------------------------------------------
(* The inductive invariant *)

(* Generations are issued once, in order, and a listener that runs has one.    *)
LeaseOK ==
  /\ rival <= run.lease /\ \A p \in Inboxes : gen[p] <= run.lease
  /\ \A p \in Inboxes : stage[p] \in {"serving", "closing"} => gen[p] # 0
  /\ \A p, q \in Inboxes : p # q /\ gen[p] # 0 => gen[p] # gen[q]
  /\ rival # 0 => \A p \in Inboxes : gen[p] # rival

(* A response holds a version of the run, and details no older than that.      *)
Holds(r) ==
  /\ r.version <= run.version
  /\ r.details # -1 => r.version <= r.details /\ r.details <= run.version

(* The display is a whole response, and a mutation under way expects a version *)
(* that was displayed.                                                         *)
SeenOK ==
  /\ \A p \in Inboxes : \A r \in loads[p] : Holds(r)
  /\ \A p \in Inboxes : Holds(shown[p]) /\ (shown[p].version # -1 => shown[p].details # -1)
  /\ \A p \in Inboxes : post[p] # NoPost => post[p].expected <= shown[p].version

IInv == TypeOK /\ LeaseOK /\ SeenOK

LEMMA InitInv == Init => IInv
<1> SUFFICES ASSUME Init PROVE IInv
  OBVIOUS
<1>1. TypeOK
  <2>1. run \in [state : RunState \cup {"deleted"}, version : 0 .. MaxVersion,
                archived : BOOLEAN, lease : 0 .. MaxLease]
    <3>1. PICK st \in Reviewable \cap Outcomes :
            run = [state |-> st, version |-> 0, archived |-> FALSE, lease |-> 0]
      BY DEF Init
    <3>2. st \in RunState /\ 0 \in 0 .. MaxVersion /\ 0 \in 0 .. MaxLease
      BY BoundsAssumption
    <3> QED
      BY <3>1, <3>2
  <2>2. /\ stream \in [Inboxes -> -1 .. MaxVersion] /\ gen \in [Inboxes -> 0 .. MaxLease]
        /\ rival \in 0 .. MaxLease
    BY BoundsAssumption DEF Init
  <2>3. -1 \in -1 .. MaxVersion
    BY BoundsAssumption
  <2>4. shown \in [Inboxes -> [version : -1 .. MaxVersion, details : -1 .. MaxVersion]]
    BY <2>3 DEF Init, Nothing
  <2> QED
    BY <2>1, <2>2, <2>4 DEF Init, TypeOK, Stage
<1>2. LeaseOK /\ SeenOK
  BY DEF Init, LeaseOK, SeenOK, Holds, Nothing
<1> QED
  BY <1>1, <1>2 DEF IInv

-----------------------------------------------------------------------------
(* The steps *)

RunType ==
  [state : RunState \cup {"deleted"}, version : 0 .. MaxVersion, archived : BOOLEAN, lease : 0 .. MaxLease]

LEMMA RowOfRun ==
  ASSUME IInv
  PROVE  /\ run \in RunType /\ run.version \in Nat /\ run.lease \in Nat
         /\ run.version <= MaxVersion /\ run.lease <= MaxLease
         /\ \A p \in Inboxes : gen[p] \in Nat /\ rival \in Nat
BY BoundsAssumption DEF IInv, TypeOK, RunType

(* The three ways the row is written.                                          *)
LEMMA RowIsWritten ==
  ASSUME IInv, NEW next \in RunState, WriteRun(next)
  PROVE  /\ run' \in RunType /\ run'.version = run.version + 1 /\ run'.lease = run.lease
         /\ run'.state = next /\ run'.archived = run.archived
<1>1. run.version + 1 \in 0 .. MaxVersion
  BY RowOfRun, BoundsAssumption DEF WriteRun
<1>2. run' = [run EXCEPT !.state = next, !.version = run.version + 1]
  BY DEF WriteRun
<1> QED
  BY <1>1, <1>2, RowOfRun DEF RunType

LEMMA CapabilityIsClaimed ==
  ASSUME IInv, ClaimReviewCapability
  PROVE  /\ run' \in RunType /\ run'.lease = run.lease + 1 /\ run'.version = run.version
         /\ NextGeneration = run.lease + 1 /\ NextGeneration \in 0 .. MaxLease
<1>1. run.lease + 1 \in 0 .. MaxLease
  BY RowOfRun, BoundsAssumption DEF ClaimReviewCapability
<1>2. run' = [run EXCEPT !.lease = run.lease + 1]
  BY DEF ClaimReviewCapability, NextGeneration
<1> QED
  BY <1>1, <1>2, RowOfRun DEF RunType, NextGeneration

(* What is held of a run is still held after it was written.                   *)
LEMMA HoldsOn ==
  ASSUME IInv, NEW r \in [version : -1 .. MaxVersion, details : -1 .. MaxVersion], Holds(r),
         run' \in RunType, run.version <= run'.version
  PROVE  Holds(r)'
<1>1. /\ r.version \in Int /\ r.details \in Int /\ run.version \in Int /\ run'.version \in Int
  BY RowOfRun, BoundsAssumption DEF RunType
<1> QED
  BY <1>1 DEF Holds

LEMMA SeenStands ==
  ASSUME IInv, run' \in RunType, run.version <= run'.version, UNCHANGED <<loads, shown>>,
         \A p \in Inboxes : post'[p] # NoPost => post[p] # NoPost /\ post'[p].expected = post[p].expected
  PROVE  SeenOK'
<1>1. \A p \in Inboxes : \A r \in loads'[p] : Holds(r)'
  <2>1. ASSUME NEW p \in Inboxes, NEW r \in loads[p]
        PROVE  Holds(r)'
    <3>1. r \in [version : -1 .. MaxVersion, details : -1 .. MaxVersion] /\ Holds(r)
      BY BoundsAssumption DEF IInv, TypeOK, SeenOK
    <3> QED
      BY <3>1, HoldsOn
  <2> QED
    BY <2>1
<1>2. \A p \in Inboxes : Holds(shown[p])' /\ (shown'[p].version # -1 => shown'[p].details # -1)
  <2>1. ASSUME NEW p \in Inboxes
        PROVE  Holds(shown[p])'
    <3>1. PICK r : r = shown[p]
      OBVIOUS
    <3>2. r \in [version : -1 .. MaxVersion, details : -1 .. MaxVersion] /\ Holds(r)
      BY <3>1 DEF IInv, TypeOK, SeenOK
    <3>3. Holds(r)'
      BY <3>2, HoldsOn
    <3> QED
      BY <3>1, <3>3 DEF Holds
  <2> QED
    BY <2>1 DEF IInv, SeenOK
<1> QED
  BY <1>1, <1>2 DEF IInv, SeenOK

LEMMA ElsewhereStep ==
  ASSUME IInv, Elsewhere
  PROVE  IInv'
<1>0. run' \in RunType /\ run.version <= run'.version /\ run'.lease = run.lease
  <2>1. ASSUME NEW next \in Outcomes, WriteRun(next)
        PROVE  run' \in RunType /\ run.version <= run'.version /\ run'.lease = run.lease
    BY <2>1, RowIsWritten, RowOfRun, BoundsAssumption
  <2>2. CASE WriteRun("needs_review")
    BY <2>2, RowIsWritten, RowOfRun DEF RunState
  <2>3. ASSUME NEW flag \in BOOLEAN, run' = [run EXCEPT !.archived = flag]
        PROVE  run' \in RunType /\ run.version <= run'.version /\ run'.lease = run.lease
    BY <2>3, RowOfRun DEF RunType
  <2>4. CASE run' = [run EXCEPT !.state = "deleted"]
    BY <2>4, RowOfRun DEF RunType
  <2> QED
    BY <2>1, <2>2, <2>3, <2>4 DEF Elsewhere
<1>1. TypeOK'
  BY <1>0 DEF Elsewhere, IInv, TypeOK, RunType, rowVars, processVars, listenerVars, tabVars
<1>2. LeaseOK'
  BY <1>0 DEF Elsewhere, IInv, LeaseOK, rowVars, processVars, listenerVars, tabVars
<1>3. SeenOK'
  BY <1>0, SeenStands DEF Elsewhere, rowVars, processVars, listenerVars, tabVars
<1> QED
  BY <1>1, <1>2, <1>3 DEF IInv

LEMMA RivalStep ==
  ASSUME IInv, Rival
  PROVE  IInv'
<1>1. TypeOK'
  BY BoundsAssumption DEF Rival, ClaimReviewCapability, NextGeneration, IInv, TypeOK, rowVars,
       processVars, listenerVars, tabVars, Stage, Kind, NoPost, Nothing, RunState, Terminal
<1>2. LeaseOK'
  BY BoundsAssumption DEF Rival, ClaimReviewCapability, NextGeneration, IInv, TypeOK, LeaseOK,
       rowVars, processVars, listenerVars, tabVars
<1>3. SeenOK'
  BY BoundsAssumption DEF Rival, ClaimReviewCapability, NextGeneration, IInv, TypeOK, SeenOK,
       Holds, rowVars, processVars, listenerVars, tabVars, NoPost
<1> QED
  BY <1>1, <1>2, <1>3 DEF IInv

LEMMA OpenStep ==
  ASSUME IInv, NEW p \in Inboxes, Open(p)
  PROVE  IInv'
<1>1. TypeOK'
  BY BoundsAssumption DEF Open, IInv, TypeOK, rowVars, processVars, listenerVars, tabVars,
       Stage, Kind, NoPost, Nothing, RunState, Terminal
<1>2. LeaseOK'
  BY BoundsAssumption DEF Open, IInv, TypeOK, LeaseOK, rowVars, processVars, listenerVars, tabVars
<1>3. SeenOK'
  BY BoundsAssumption DEF Open, IInv, TypeOK, SeenOK, Holds, rowVars, processVars, listenerVars,
       tabVars, NoPost
<1> QED
  BY <1>1, <1>2, <1>3 DEF IInv

LEMMA ServeStep ==
  ASSUME IInv, NEW p \in Inboxes, Serve(p)
  PROVE  IInv'
<1>0. \/ /\ run' \in RunType /\ run'.lease = run.lease + 1 /\ run'.version = run.version
         /\ gen' = [gen EXCEPT ![p] = run.lease + 1] /\ run.lease + 1 \in 0 .. MaxLease
         /\ stage' = [stage EXCEPT ![p] = "serving"]
      \/ run' = run /\ gen' = gen /\ stage' = [stage EXCEPT ![p] = "ended"]
  BY CapabilityIsClaimed DEF Serve
<1>1. TypeOK'
  BY <1>0 DEF Serve, IInv, TypeOK, RunType, Stage, rowVars, processVars, listenerVars, tabVars
<1>2. LeaseOK'
  <2>1. CASE run' = run /\ gen' = gen /\ stage' = [stage EXCEPT ![p] = "ended"]
    BY <2>1 DEF Serve, IInv, TypeOK, LeaseOK, rowVars, processVars, listenerVars, tabVars
  <2>2. CASE /\ run'.lease = run.lease + 1 /\ gen' = [gen EXCEPT ![p] = run.lease + 1]
             /\ stage' = [stage EXCEPT ![p] = "serving"]
    <3>1. /\ \A q \in Inboxes : gen'[q] = (IF q = p THEN run.lease + 1 ELSE gen[q])
          /\ \A q \in Inboxes : stage'[q] = (IF q = p THEN "serving" ELSE stage[q])
          /\ rival' = rival
      BY <2>2 DEF Serve, IInv, TypeOK
    <3>2. rival' <= run'.lease /\ \A q \in Inboxes : gen'[q] <= run'.lease
      BY <2>2, <3>1, RowOfRun DEF IInv, LeaseOK
    <3>3. \A q, o \in Inboxes : q # o /\ gen'[q] # 0 => gen'[q] # gen'[o]
      BY <3>1, RowOfRun DEF IInv, LeaseOK
    <3>4. rival' # 0 => \A q \in Inboxes : gen'[q] # rival'
      BY <3>1, RowOfRun DEF IInv, LeaseOK
    <3>5. \A q \in Inboxes : stage'[q] \in {"serving", "closing"} => gen'[q] # 0
      BY <3>1, RowOfRun DEF IInv, LeaseOK
    <3> QED
      BY <3>2, <3>3, <3>4, <3>5 DEF LeaseOK
  <2> QED
    BY <1>0, <2>1, <2>2
<1>3. SeenOK'
  BY BoundsAssumption DEF Serve, ClaimReviewCapability, NextGeneration, IInv, TypeOK, SeenOK,
       Holds, rowVars, processVars, listenerVars, tabVars, NoPost
<1> QED
  BY <1>1, <1>2, <1>3 DEF IInv

LEMMA ShutdownStep ==
  ASSUME IInv, NEW p \in Inboxes, Shutdown(p)
  PROVE  IInv'
<1>1. TypeOK'
  BY BoundsAssumption DEF Shutdown, CloseServer, DropTab, IInv, TypeOK, rowVars, processVars,
       listenerVars, tabVars, Stage, Kind, NoPost, Nothing, RunState, Terminal
<1>2. LeaseOK'
  <2>1. /\ stage[p] = "serving" /\ stage' = [stage EXCEPT ![p] = "closing"]
        /\ UNCHANGED <<run, rival, gen>>
    BY DEF Shutdown, Serving, CloseServer, rowVars
  <2> QED
    BY <2>1 DEF IInv, TypeOK, LeaseOK
<1>3. SeenOK'
  BY BoundsAssumption DEF Shutdown, CloseServer, DropTab, IInv, TypeOK, SeenOK, Holds, rowVars,
       processVars, listenerVars, tabVars, NoPost
<1> QED
  BY <1>1, <1>2, <1>3 DEF IInv

LEMMA CloseWhenDueStep ==
  ASSUME IInv, NEW p \in Inboxes, CloseWhenDue(p)
  PROVE  IInv'
<1>1. TypeOK'
  BY BoundsAssumption DEF CloseWhenDue, CloseServer, DropTab, IInv, TypeOK, rowVars,
       processVars, listenerVars, tabVars, Stage, Kind, NoPost, Nothing, RunState, Terminal
<1>2. LeaseOK'
  <2>1. /\ stage[p] = "serving" /\ stage' = [stage EXCEPT ![p] = "closing"]
        /\ UNCHANGED <<run, rival, gen>>
    BY DEF CloseWhenDue, Serving, CloseServer, rowVars
  <2> QED
    BY <2>1 DEF IInv, TypeOK, LeaseOK
<1>3. SeenOK'
  BY BoundsAssumption DEF CloseWhenDue, CloseServer, DropTab, IInv, TypeOK, SeenOK, Holds,
       rowVars, processVars, listenerVars, tabVars, NoPost
<1> QED
  BY <1>1, <1>2, <1>3 DEF IInv

LEMMA EndStep ==
  ASSUME IInv, NEW p \in Inboxes, End(p)
  PROVE  IInv'
<1>1. TypeOK'
  BY BoundsAssumption DEF End, IInv, TypeOK, rowVars, processVars, listenerVars, tabVars, Stage,
       Kind, NoPost, Nothing, RunState, Terminal
<1>2. LeaseOK'
  BY BoundsAssumption DEF End, IInv, TypeOK, LeaseOK, rowVars, processVars, listenerVars, tabVars
<1>3. SeenOK'
  BY BoundsAssumption DEF End, IInv, TypeOK, SeenOK, Holds, rowVars, processVars, listenerVars,
       tabVars, NoPost
<1> QED
  BY <1>1, <1>2, <1>3 DEF IInv

LEMMA CrashStep ==
  ASSUME IInv, NEW p \in Inboxes, Crash(p)
  PROVE  IInv'
<1>1. TypeOK'
  BY BoundsAssumption DEF Crash, Die, DropTab, IInv, TypeOK, rowVars, processVars, listenerVars,
       tabVars, Stage, Kind, NoPost, Nothing, RunState, Terminal
<1>2. LeaseOK'
  BY BoundsAssumption DEF Crash, Die, DropTab, IInv, TypeOK, LeaseOK, rowVars, processVars,
       listenerVars, tabVars
<1>3. SeenOK'
  BY BoundsAssumption DEF Crash, Die, DropTab, IInv, TypeOK, SeenOK, Holds, rowVars,
       processVars, listenerVars, tabVars, NoPost
<1> QED
  BY <1>1, <1>2, <1>3 DEF IInv

LEMMA LifecyclePollStep ==
  ASSUME IInv, NEW p \in Inboxes, LifecyclePoll(p)
  PROVE  IInv'
<1>1. TypeOK'
  BY BoundsAssumption DEF LifecyclePoll, ScheduleClose, IInv, TypeOK, rowVars, processVars,
       listenerVars, tabVars, Stage, Kind, NoPost, Nothing, RunState, Terminal
<1>2. LeaseOK'
  BY BoundsAssumption DEF LifecyclePoll, ScheduleClose, IInv, TypeOK, LeaseOK, rowVars,
       processVars, listenerVars, tabVars
<1>3. SeenOK'
  BY BoundsAssumption DEF LifecyclePoll, ScheduleClose, IInv, TypeOK, SeenOK, Holds, rowVars,
       processVars, listenerVars, tabVars, NoPost
<1> QED
  BY <1>1, <1>2, <1>3 DEF IInv

LEMMA IdleTimeoutStep ==
  ASSUME IInv, NEW p \in Inboxes, IdleTimeout(p)
  PROVE  IInv'
<1>1. TypeOK'
  BY BoundsAssumption DEF IdleTimeout, ScheduleClose, IInv, TypeOK, rowVars, processVars,
       listenerVars, tabVars, Stage, Kind, NoPost, Nothing, RunState, Terminal
<1>2. LeaseOK'
  BY BoundsAssumption DEF IdleTimeout, ScheduleClose, IInv, TypeOK, LeaseOK, rowVars,
       processVars, listenerVars, tabVars
<1>3. SeenOK'
  BY BoundsAssumption DEF IdleTimeout, ScheduleClose, IInv, TypeOK, SeenOK, Holds, rowVars,
       processVars, listenerVars, tabVars, NoPost
<1> QED
  BY <1>1, <1>2, <1>3 DEF IInv

LEMMA SubscribeStep ==
  ASSUME IInv, NEW p \in Inboxes, Subscribe(p)
  PROVE  IInv'
<1>1. TypeOK'
  <2>1. stream' \in [Inboxes -> -1 .. MaxVersion]
    BY RowOfRun, BoundsAssumption DEF Subscribe, IInv, TypeOK
  <2>2. /\ refresh' \in [Inboxes -> BOOLEAN] /\ revoked' \in [Inboxes -> BOOLEAN]
        /\ due' \in [Inboxes -> BOOLEAN]
    BY DEF Subscribe, KeepOpen, Refuse, ScheduleClose, IInv, TypeOK
  <2> QED
    BY <2>1, <2>2 DEF Subscribe, IInv, TypeOK, rowVars, processVars, listenerVars, tabVars
<1>2. LeaseOK'
  BY BoundsAssumption DEF Subscribe, KeepOpen, Refuse, ScheduleClose, IInv, TypeOK, LeaseOK,
       rowVars, processVars, listenerVars, tabVars
<1>3. SeenOK'
  BY BoundsAssumption DEF Subscribe, KeepOpen, Refuse, ScheduleClose, IInv, TypeOK, SeenOK,
       Holds, rowVars, processVars, listenerVars, tabVars, NoPost
<1> QED
  BY <1>1, <1>2, <1>3 DEF IInv

LEMMA PushStep ==
  ASSUME IInv, NEW p \in Inboxes, Push(p)
  PROVE  IInv'
<1>1. TypeOK'
  <2>1. stream' \in [Inboxes -> -1 .. MaxVersion]
    BY RowOfRun, BoundsAssumption DEF Push, IInv, TypeOK
  <2>2. /\ refresh' \in [Inboxes -> BOOLEAN] /\ revoked' \in [Inboxes -> BOOLEAN]
        /\ due' \in [Inboxes -> BOOLEAN]
    BY DEF Push, KeepOpen, ScheduleClose, IInv, TypeOK
  <2> QED
    BY <2>1, <2>2 DEF Push, IInv, TypeOK, rowVars, processVars, listenerVars, tabVars
<1>2. LeaseOK'
  BY BoundsAssumption DEF Push, KeepOpen, ScheduleClose, IInv, TypeOK, LeaseOK, rowVars,
       processVars, listenerVars, tabVars
<1>3. SeenOK'
  BY BoundsAssumption DEF Push, KeepOpen, ScheduleClose, IInv, TypeOK, SeenOK, Holds, rowVars,
       processVars, listenerVars, tabVars, NoPost
<1> QED
  BY <1>1, <1>2, <1>3 DEF IInv

LEMMA DisconnectStep ==
  ASSUME IInv, NEW p \in Inboxes, Disconnect(p)
  PROVE  IInv'
<1>1. TypeOK'
  BY BoundsAssumption DEF Disconnect, IInv, TypeOK, rowVars, processVars, listenerVars, tabVars,
       Stage, Kind, NoPost, Nothing, RunState, Terminal
<1>2. LeaseOK'
  BY BoundsAssumption DEF Disconnect, IInv, TypeOK, LeaseOK, rowVars, processVars, listenerVars,
       tabVars
<1>3. SeenOK'
  BY BoundsAssumption DEF Disconnect, IInv, TypeOK, SeenOK, Holds, rowVars, processVars,
       listenerVars, tabVars, NoPost
<1> QED
  BY <1>1, <1>2, <1>3 DEF IInv

LEMMA ReadRowStep ==
  ASSUME IInv, NEW p \in Inboxes, ReadRow(p)
  PROVE  IInv'
<1>1. TypeOK'
  <2>1. loads' \in [Inboxes -> SUBSET [version : 0 .. MaxVersion, details : -1 .. MaxVersion]]
    <3>1. [version |-> run.version, details |-> -1] \in [version : 0 .. MaxVersion, details : -1 .. MaxVersion]
      BY RowOfRun, BoundsAssumption
    <3> QED
      BY <3>1 DEF ReadRow, IInv, TypeOK
  <2>2. /\ refresh' \in [Inboxes -> BOOLEAN] /\ revoked' \in [Inboxes -> BOOLEAN]
        /\ due' \in [Inboxes -> BOOLEAN]
    BY DEF ReadRow, KeepOpen, Refuse, ScheduleClose, IInv, TypeOK
  <2> QED
    BY <2>1, <2>2 DEF ReadRow, IInv, TypeOK, rowVars, processVars, listenerVars, tabVars
<1>2. LeaseOK'
  BY BoundsAssumption DEF ReadRow, KeepOpen, Refuse, ScheduleClose, IInv, TypeOK, LeaseOK,
       rowVars, processVars, listenerVars, tabVars
<1>3. SeenOK'
  BY BoundsAssumption DEF ReadRow, KeepOpen, Refuse, ScheduleClose, IInv, TypeOK, SeenOK, Holds,
       rowVars, processVars, listenerVars, tabVars, NoPost
<1> QED
  BY <1>1, <1>2, <1>3 DEF IInv

LEMMA ReadDetailsStep ==
  ASSUME IInv, NEW p \in Inboxes, ReadDetails(p)
  PROVE  IInv'
<1>1. TypeOK'
  BY BoundsAssumption DEF ReadDetails, IInv, TypeOK, rowVars, processVars, listenerVars,
       tabVars, Stage, Kind, NoPost, Nothing, RunState, Terminal
<1>2. LeaseOK'
  BY BoundsAssumption DEF ReadDetails, IInv, TypeOK, LeaseOK, rowVars, processVars,
       listenerVars, tabVars
<1>3. SeenOK'
  BY BoundsAssumption DEF ReadDetails, IInv, TypeOK, SeenOK, Holds, rowVars, processVars,
       listenerVars, tabVars, NoPost
<1> QED
  BY <1>1, <1>2, <1>3 DEF IInv

LEMMA DeliverStep ==
  ASSUME IInv, NEW p \in Inboxes, Deliver(p)
  PROVE  IInv'
<1>1. TypeOK'
  BY BoundsAssumption DEF Deliver, ApplyReview, IInv, TypeOK, rowVars, processVars,
       listenerVars, tabVars, Stage, Kind, NoPost, Nothing, RunState, Terminal
<1>2. LeaseOK'
  BY BoundsAssumption DEF Deliver, ApplyReview, IInv, TypeOK, LeaseOK, rowVars, processVars,
       listenerVars, tabVars
<1>3. SeenOK'
  BY BoundsAssumption DEF Deliver, ApplyReview, IInv, TypeOK, SeenOK, Holds, rowVars,
       processVars, listenerVars, tabVars, NoPost
<1> QED
  BY <1>1, <1>2, <1>3 DEF IInv

LEMMA ReceiveStep ==
  ASSUME IInv, NEW p \in Inboxes, Receive(p)
  PROVE  IInv'
<1>0. \/ \E k \in Kind : /\ post' = [post EXCEPT ![p] = [kind |-> k, expected |-> shown[p].version, at |-> "body"]]
                        /\ shown[p].version # -1
      \/ post' = post
  BY DEF Receive
<1>1. TypeOK'
  <2>1. shown[p].version # -1 => shown[p].version \in 0 .. MaxVersion
    BY BoundsAssumption DEF IInv, TypeOK
  <2>2. post' \in [Inboxes -> [kind : Kind, expected : 0 .. MaxVersion, at : {"body", "probe"}] \cup {NoPost}]
    BY <1>0, <2>1 DEF IInv, TypeOK
  <2>3. revoked' \in [Inboxes -> BOOLEAN] /\ due' \in [Inboxes -> BOOLEAN]
    BY DEF Receive, KeepOpen, Refuse, ScheduleClose, IInv, TypeOK
  <2> QED
    BY <2>2, <2>3 DEF Receive, IInv, TypeOK, rowVars, processVars, listenerVars, tabVars
<1>2. LeaseOK'
  BY BoundsAssumption DEF Receive, KeepOpen, Refuse, ScheduleClose, IInv, TypeOK, LeaseOK,
       rowVars, processVars, listenerVars, tabVars
<1>3. SeenOK'
  <2>1. UNCHANGED <<run, loads, shown>>
    BY DEF Receive, rowVars, tabVars
  <2>2. \A q \in Inboxes : post'[q] # NoPost => post'[q].expected <= shown[q].version
    <3>1. \A q \in Inboxes : post[q] # NoPost => post[q].expected <= shown[q].version
      BY DEF IInv, SeenOK
    <3>2. ASSUME NEW k \in Kind,
                 post' = [post EXCEPT ![p] = [kind |-> k, expected |-> shown[p].version, at |-> "body"]]
          PROVE  \A q \in Inboxes : post'[q] # NoPost => post'[q].expected <= shown[q].version
      <4>1. shown[p].version \in Int
        BY BoundsAssumption DEF IInv, TypeOK
      <4> QED
        BY <3>1, <3>2, <4>1 DEF IInv, TypeOK
    <3> QED
      BY <1>0, <3>1, <3>2
  <2> QED
    BY <2>1, <2>2 DEF IInv, SeenOK, Holds
<1> QED
  BY <1>1, <1>2, <1>3 DEF IInv

LEMMA LoseBodyStep ==
  ASSUME IInv, NEW p \in Inboxes, LoseBody(p)
  PROVE  IInv'
<1>1. TypeOK'
  BY BoundsAssumption DEF LoseBody, Answered, IInv, TypeOK, rowVars, processVars, listenerVars,
       tabVars, Stage, Kind, NoPost, Nothing, RunState, Terminal
<1>2. LeaseOK'
  BY BoundsAssumption DEF LoseBody, Answered, IInv, TypeOK, LeaseOK, rowVars, processVars,
       listenerVars, tabVars
<1>3. SeenOK'
  BY BoundsAssumption DEF LoseBody, Answered, IInv, TypeOK, SeenOK, Holds, rowVars, processVars,
       listenerVars, tabVars, NoPost
<1> QED
  BY <1>1, <1>2, <1>3 DEF IInv

LEMMA MutateStep ==
  ASSUME IInv, NEW p \in Inboxes, Mutate(p)
  PROVE  IInv'
<1>0. run' \in RunType /\ run.version <= run'.version /\ run'.lease = run.lease
  BY RowIsWritten, RowOfRun DEF Mutate
<1>1. TypeOK'
  <2>1. /\ post' \in [Inboxes -> [kind : Kind, expected : 0 .. MaxVersion, at : {"body", "probe"}] \cup {NoPost}]
    BY DEF Mutate, Answered, IInv, TypeOK
  <2>2. revoked' \in [Inboxes -> BOOLEAN] /\ due' \in [Inboxes -> BOOLEAN]
    BY DEF Mutate, KeepOpen, ScheduleClose, listenerVars, IInv, TypeOK
  <2>3. refresh' \in [Inboxes -> BOOLEAN]
    BY DEF Mutate, Answered, IInv, TypeOK
  <2> QED
    BY <1>0, <2>1, <2>2, <2>3 DEF Mutate, IInv, TypeOK, RunType, rowVars, processVars,
         listenerVars, tabVars
<1>2. LeaseOK'
  BY <1>0 DEF Mutate, IInv, LeaseOK, rowVars, processVars, listenerVars, tabVars
<1>3. SeenOK'
  <2>1. UNCHANGED <<loads, shown>> /\ post' = [post EXCEPT ![p] = NoPost]
    BY DEF Mutate, Answered
  <2>2. \A q \in Inboxes : post'[q] # NoPost => post'[q] = post[q]
    BY <2>1 DEF IInv, TypeOK
  <2> QED
    BY <1>0, <2>1, <2>2, SeenStands
<1> QED
  BY <1>1, <1>2, <1>3 DEF IInv

LEMMA RejectStep ==
  ASSUME IInv, NEW p \in Inboxes, Reject(p)
  PROVE  IInv'
<1>1. TypeOK'
  BY BoundsAssumption DEF Reject, Answered, KeepOpen, Refuse, ScheduleClose, IInv, TypeOK,
       rowVars, processVars, listenerVars, tabVars, Stage, Kind, NoPost, Nothing, RunState,
       Terminal
<1>2. LeaseOK'
  BY BoundsAssumption DEF Reject, Answered, KeepOpen, Refuse, ScheduleClose, IInv, TypeOK,
       LeaseOK, rowVars, processVars, listenerVars, tabVars
<1>3. SeenOK'
  BY BoundsAssumption DEF Reject, Answered, KeepOpen, Refuse, ScheduleClose, IInv, TypeOK,
       SeenOK, Holds, rowVars, processVars, listenerVars, tabVars, NoPost
<1> QED
  BY <1>1, <1>2, <1>3 DEF IInv

LEMMA ProbeCompatibilityStep ==
  ASSUME IInv, NEW p \in Inboxes, ProbeCompatibility(p)
  PROVE  IInv'
<1>1. TypeOK'
  <2>1. post[p] \in [kind : Kind, expected : 0 .. MaxVersion, at : {"body", "probe"}]
    BY DEF ProbeCompatibility, HasBody, IInv, TypeOK, NoPost
  <2>2. post' \in [Inboxes -> [kind : Kind, expected : 0 .. MaxVersion, at : {"body", "probe"}] \cup {NoPost}]
    BY <2>1 DEF ProbeCompatibility, IInv, TypeOK
  <2> QED
    BY <2>2 DEF ProbeCompatibility, IInv, TypeOK, rowVars, processVars, listenerVars, tabVars
<1>2. LeaseOK'
  BY BoundsAssumption DEF ProbeCompatibility, HasBody, IInv, TypeOK, LeaseOK, rowVars,
       processVars, listenerVars, tabVars
<1>3. SeenOK'
  BY BoundsAssumption DEF ProbeCompatibility, HasBody, IInv, TypeOK, SeenOK, Holds, rowVars,
       processVars, listenerVars, tabVars, NoPost
<1> QED
  BY <1>1, <1>2, <1>3 DEF IInv

LEMMA ApproveStep ==
  ASSUME IInv, NEW p \in Inboxes, Approve(p)
  PROVE  IInv'
<1>0. run' \in RunType /\ run.version <= run'.version /\ run'.lease = run.lease
  <2>1. "approved" \in RunState
    BY DEF RunState
  <2> QED
    <3>1. CASE WriteRun("approved")
      BY <2>1, <3>1, RowIsWritten, RowOfRun
    <3>2. CASE run' = run
      BY <3>2, RowOfRun
    <3> QED
      BY <3>1, <3>2 DEF Approve
<1>1. TypeOK'
  <2>1. /\ post' \in [Inboxes -> [kind : Kind, expected : 0 .. MaxVersion, at : {"body", "probe"}] \cup {NoPost}]
    BY DEF Approve, Answered, IInv, TypeOK
  <2>2. revoked' \in [Inboxes -> BOOLEAN] /\ due' \in [Inboxes -> BOOLEAN]
    BY DEF Approve, KeepOpen, ScheduleClose, listenerVars, IInv, TypeOK
  <2>3. refresh' \in [Inboxes -> BOOLEAN]
    BY DEF Approve, Answered, IInv, TypeOK
  <2> QED
    BY <1>0, <2>1, <2>2, <2>3 DEF Approve, IInv, TypeOK, RunType, rowVars, processVars,
         listenerVars, tabVars
<1>2. LeaseOK'
  BY <1>0 DEF Approve, IInv, LeaseOK, rowVars, processVars, listenerVars, tabVars
<1>3. SeenOK'
  <2>1. UNCHANGED <<loads, shown>> /\ post' = [post EXCEPT ![p] = NoPost]
    BY DEF Approve, Answered
  <2>2. \A q \in Inboxes : post'[q] # NoPost => post'[q] = post[q]
    BY <2>1 DEF IInv, TypeOK
  <2> QED
    BY <1>0, <2>1, <2>2, SeenStands
<1> QED
  BY <1>1, <1>2, <1>3 DEF IInv

LEMMA FailApprovalStep ==
  ASSUME IInv, NEW p \in Inboxes, FailApproval(p)
  PROVE  IInv'
<1>0. run' \in RunType /\ run.version <= run'.version /\ run'.lease = run.lease
  <2>1. "stale" \in RunState
    BY DEF RunState, Terminal
  <2> QED
    BY <2>1, RowIsWritten, RowOfRun DEF FailApproval
<1>1. TypeOK'
  <2>1. /\ post' \in [Inboxes -> [kind : Kind, expected : 0 .. MaxVersion, at : {"body", "probe"}] \cup {NoPost}]
    BY DEF FailApproval, Answered, IInv, TypeOK
  <2>2. revoked' \in [Inboxes -> BOOLEAN] /\ due' \in [Inboxes -> BOOLEAN]
    BY DEF FailApproval, KeepOpen, ScheduleClose, listenerVars, IInv, TypeOK
  <2>3. refresh' \in [Inboxes -> BOOLEAN]
    BY DEF FailApproval, Answered, IInv, TypeOK
  <2> QED
    BY <1>0, <2>1, <2>2, <2>3 DEF FailApproval, IInv, TypeOK, RunType, rowVars, processVars,
         listenerVars, tabVars
<1>2. LeaseOK'
  BY <1>0 DEF FailApproval, IInv, LeaseOK, rowVars, processVars, listenerVars, tabVars
<1>3. SeenOK'
  <2>1. UNCHANGED <<loads, shown>> /\ post' = [post EXCEPT ![p] = NoPost]
    BY DEF FailApproval, Answered
  <2>2. \A q \in Inboxes : post'[q] # NoPost => post'[q] = post[q]
    BY <2>1 DEF IInv, TypeOK
  <2> QED
    BY <1>0, <2>1, <2>2, SeenStands
<1> QED
  BY <1>1, <1>2, <1>3 DEF IInv

-----------------------------------------------------------------------------
(* The theorems *)

LEMMA ShownType ==
  ASSUME IInv, NEW q \in Inboxes
  PROVE  /\ shown[q] \in [version : -1 .. MaxVersion, details : -1 .. MaxVersion]
         /\ shown[q].version \in Int /\ shown[q].details \in Int
         /\ \A r \in loads[q] : r.version \in Int
<1>1. shown[q] \in [version : -1 .. MaxVersion, details : -1 .. MaxVersion]
  BY DEF IInv, TypeOK
<1>2. \A v \in -1 .. MaxVersion : v \in Int
  BY BoundsAssumption
<1>3. loads[q] \subseteq [version : 0 .. MaxVersion, details : -1 .. MaxVersion]
  BY DEF IInv, TypeOK
<1>4. \A v \in 0 .. MaxVersion : v \in Int
  BY BoundsAssumption
<1> QED
  BY <1>1, <1>2, <1>3, <1>4

LEMMA NextInv == IInv /\ [Next]_vars => IInv'
<1> SUFFICES ASSUME IInv, [Next]_vars PROVE IInv'
  OBVIOUS
<1>1. CASE Elsewhere \/ Rival
  BY <1>1, ElsewhereStep, RivalStep
<1>2. ASSUME NEW p \in Inboxes, Process(p)
      PROVE  IInv'
  BY <1>2, OpenStep, ServeStep, ShutdownStep, CloseWhenDueStep, EndStep, CrashStep DEF Process
<1>3. ASSUME NEW p \in Inboxes, Listener(p)
      PROVE  IInv'
  BY <1>3, LifecyclePollStep, IdleTimeoutStep, SubscribeStep, PushStep, DisconnectStep, ReadRowStep,
     ReadDetailsStep, DeliverStep DEF Listener
<1>4. ASSUME NEW p \in Inboxes, Mutation(p)
      PROVE  IInv'
  BY <1>4, ReceiveStep, LoseBodyStep, MutateStep, RejectStep, ProbeCompatibilityStep, ApproveStep,
     FailApprovalStep DEF Mutation
<1>5. CASE UNCHANGED vars
  BY <1>5 DEF vars, rowVars, processVars, listenerVars, tabVars, IInv, TypeOK, LeaseOK, SeenOK,
       Holds
<1> QED
  BY <1>1, <1>2, <1>3, <1>4, <1>5 DEF Next

LEMMA Invariance == Spec => []IInv
BY InitInv, NextInv, PTL DEF Spec

(* Every state of the review surface is well formed.                           *)
THEOREM TypeInvariant == Spec => []TypeOK
<1>1. IInv => TypeOK
  BY DEF IInv
<1> QED
  BY <1>1, Invariance, PTL

(* However many listeners serve a run, at most one of them accepts requests    *)
(* (claimReviewCapability, enforceRequestBoundary).                            *)
THEOREM OneListener == Spec => []OneInboxAccepts
<1>1. IInv => OneInboxAccepts
  BY DEF IInv, TypeOK, LeaseOK, OneInboxAccepts, Passes, Current
<1> QED
  BY <1>1, Invariance, PTL

(* A listener's own steps are the only ones that end its mutation, and only    *)
(* three of them write the row.                                                *)
LEMMA WhoActs ==
  ASSUME IInv, [Next]_vars, NEW p \in Inboxes, post'[p] # post[p], run' # run
  PROVE  Mutate(p) \/ Approve(p) \/ FailApproval(p)
<1>1. CASE Elsewhere \/ Rival
  BY <1>1 DEF Elsewhere, Rival
<1>2. ASSUME NEW q \in Inboxes, Process(q)
      PROVE  FALSE
  BY <1>2 DEF Process, Open, Serve, Shutdown, CloseWhenDue, End, Crash, Die, rowVars
<1>3. ASSUME NEW q \in Inboxes, Listener(q)
      PROVE  FALSE
  BY <1>3 DEF Listener, LifecyclePoll, IdleTimeout, Subscribe, Push, Disconnect, ReadRow,
       ReadDetails,
    Deliver
<1>4. ASSUME NEW q \in Inboxes, Mutation(q)
      PROVE  Mutate(p) \/ Approve(p) \/ FailApproval(p)
  <2>1. CASE Receive(q) \/ LoseBody(q) \/ Reject(q) \/ ProbeCompatibility(q)
    BY <2>1 DEF Receive, LoseBody, Reject, ProbeCompatibility, rowVars
  <2>2. CASE Mutate(q) \/ Approve(q) \/ FailApproval(q)
    <3>1. post' = [post EXCEPT ![q] = NoPost]
      BY <2>2 DEF Mutate, Approve, FailApproval, Answered
    <3>2. q = p
      BY <3>1 DEF IInv, TypeOK
    <3> QED
      BY <2>2, <3>2
  <2> QED
    BY <1>4, <2>1, <2>2 DEF Mutation
<1>5. CASE UNCHANGED vars
  BY <1>5 DEF vars
<1> QED
  BY <1>1, <1>2, <1>3, <1>4, <1>5 DEF Next

(* A mutation the listener accepts changes exactly what the tab displays: the  *)
(* version it names, with the decisions and the contract of that version.      *)
THEOREM ShownThenDone == Spec => ActsOnWhatIsShown
<1>1. ASSUME IInv, [Next]_vars, NEW p \in Inboxes,
             post[p] # NoPost, run'.version # run.version, post'[p] # post[p], run'.state # "stale"
      PROVE  shown[p] = [version |-> run.version, details |-> run.version]
  <2>1. Mutate(p) \/ Approve(p) \/ FailApproval(p)
    BY <1>1, WhoActs
  <2>2. Accepts(p)
    <3>1. ~FailApproval(p)
      <4>1. ASSUME WriteRun("stale")
            PROVE  run'.state = "stale"
        BY <4>1, RowOfRun DEF WriteRun, RunType
      <4> QED
        BY <1>1, <4>1 DEF FailApproval
    <3> QED
      BY <1>1, <2>1, <3>1 DEF Mutate, Approve
  <2>3. run.version = post[p].expected /\ post[p].expected <= shown[p].version
    BY <1>1, <2>2 DEF Accepts, IInv, SeenOK
  <2>4. /\ shown[p] \in [version : -1 .. MaxVersion, details : -1 .. MaxVersion]
        /\ Holds(shown[p]) /\ (shown[p].version # -1 => shown[p].details # -1)
    BY <1>1, ShownType DEF IInv, SeenOK
  <2>5. /\ shown[p].version \in Int /\ shown[p].details \in Int /\ run.version \in Nat
    BY <1>1, ShownType, RowOfRun
  <2>6. shown[p].version = run.version /\ shown[p].details = run.version
    BY <2>3, <2>4, <2>5 DEF Holds
  <2> QED
    BY <2>4, <2>6
<1>2. IInv /\ [Next]_vars =>
        [\A p \in Inboxes :
           post[p] # NoPost /\ run'.version # run.version /\ post'[p] # post[p] /\ run'.state # "stale"
             => shown[p] = [version |-> run.version, details |-> run.version]]_vars
  BY <1>1
<1> QED
  BY <1>2, Invariance, PTL DEF Spec, ActsOnWhatIsShown

(* A listener that has revoked its capability writes nothing any more, but for *)
(* an approval that had passed its second boundary before.                     *)
THEOREM RevokedListeners == Spec => RevokedIsSilent
<1>1. ASSUME IInv, [Next]_vars, NEW p \in Inboxes,
             revoked[p], post[p].at # "probe", post'[p] # post[p]
      PROVE  run' = run
  <2>1. ~Mutate(p) /\ ~Approve(p) /\ ~FailApproval(p)
    BY <1>1 DEF Mutate, HasBody, Passes, Approve, FailApproval
  <2> QED
    BY <1>1, <2>1, WhoActs
<1>2. IInv /\ [Next]_vars =>
        [\A p \in Inboxes :
           revoked[p] /\ post[p].at # "probe" /\ post'[p] # post[p] => run' = run]_vars
  BY <1>1
<1> QED
  BY <1>2, Invariance, PTL DEF Spec, RevokedIsSilent

(* The display never goes back, in whatever order responses arrive.            *)
THEOREM DisplaysGoForward == Spec => DisplayNeverGoesBack
<1>1. ASSUME IInv, [Next]_vars, NEW p \in Inboxes
      PROVE  shown'[p].version >= shown[p].version
  <2>1. \A q \in Inboxes : shown[q].version \in Int
    BY <1>1, ShownType
  <2>2. CASE shown' = shown
    BY <2>1, <2>2
  <2>3. ASSUME NEW q \in Inboxes, Deliver(q)
        PROVE  shown'[p].version >= shown[p].version
    <3>1. PICK r \in loads[q] :
            shown' = [shown EXCEPT ![q] = IF r.version < shown[q].version THEN shown[q] ELSE r]
      BY <2>3 DEF Deliver, ApplyReview
    <3>2. r.version \in Int
      BY <1>1, ShownType
    <3>3. p # q => shown'[p] = shown[p]
      BY <1>1, <3>1 DEF IInv, TypeOK
    <3>4. p = q => shown'[p] = IF r.version < shown[p].version THEN shown[p] ELSE r
      BY <1>1, <3>1 DEF IInv, TypeOK
    <3> QED
      BY <2>1, <3>2, <3>3, <3>4
  <2>4. ASSUME shown' # shown
        PROVE  \E q \in Inboxes : Deliver(q)
    <3>1. ~Elsewhere /\ ~Rival /\ ~UNCHANGED vars
      BY <2>4 DEF Elsewhere, Rival, vars, tabVars
    <3>2. \A q \in Inboxes : ~Process(q)
      BY <2>4 DEF Process, Open, Serve, Shutdown, CloseWhenDue, End, Crash, tabVars
    <3>3. \A q \in Inboxes : Listener(q) => Deliver(q)
      BY <2>4 DEF Listener, LifecyclePoll, IdleTimeout, Subscribe, Push, Disconnect, ReadRow,
        ReadDetails, tabVars
    <3>4. \A q \in Inboxes : ~Mutation(q)
      BY <2>4 DEF Mutation, Receive, LoseBody, Mutate, Reject, ProbeCompatibility, Approve,
        FailApproval, tabVars
    <3> QED
      BY <1>1, <3>1, <3>2, <3>3, <3>4 DEF Next
  <2> QED
    BY <2>2, <2>3, <2>4
<1>2. IInv /\ [Next]_vars => [\A p \in Inboxes : shown'[p].version >= shown[p].version]_vars
  BY <1>1
<1> QED
  BY <1>2, Invariance, PTL DEF Spec, DisplayNeverGoesBack
=============================================================================
