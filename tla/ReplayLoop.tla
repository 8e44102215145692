----------------------------- MODULE ReplayLoop -----------------------------
(***************************************************************************)
(* One run of the replayer (src/replayer/replayer.go): ReplayCA, which     *)
(* takes a virtual cluster and a virtual cluster autoscaler (VCA) through  *)
(* the scale-ups of a recording, and ReplayScalingRecommender, which puts  *)
(* one reported scenario to the scaling recommender.                       *)
(*                                                                         *)
(* The replayer and the VCA talk through files: the replayer overwrites    *)
(* the autoscaler config and waits for a success or an error file, and     *)
(* after the run config for two done signals.  The VCA, the scheduler and  *)
(* the recommender are other programs; they are modelled by what the       *)
(* replayer expects of them.  Which event comes next is the subject of     *)
(* ReplayEvents; here every event has some recorded snapshot.              *)
(***************************************************************************)
EXTENDS Naturals, FiniteSets

CONSTANTS
    Configs,   \* contents of an autoscaler config, existing nodes included
    PodNames,  \* the names of application pods
    MaxEvents, \* bound: the scale-up events of the recording
    None

ASSUME EventsAssumption == MaxEvents \in Nat \ {0}

VARIABLES
    mode,      \* "CA" or "SR" (fixed)
    pc,        \* where the replayer is; "done" when Start returned
    count,     \* replayCount, the number of the snapshot
    snap,      \* clusterSnapshot of this iteration
    last,      \* lastClusterSnapshot, None at first
    todo,      \* pods of podWork.ToDeploy still to be created
    occurred,  \* scalingOccurred
    doneCount, \* done signals read
    reports,   \* the scenarios written, which also tell whether lastScenario
               \* has scaled-up nodes
    file,      \* the config file: what the VCA has not read yet, or None
    signal,    \* the success or the error file of snapshot number count
    done,      \* whether /tmp/ca-scale-up-done.txt is there
    vca,       \* the config the VCA works with, None at first
    nodes,     \* the config whose existing nodes the virtual cluster has
    scaled,    \* its virtually scaled nodes, by the iteration they came in
    pods,      \* its pods
    placed,    \* those that have a node
    pending,   \* those with an Unschedulable condition
    recorded,  \* history: the pods that were recorded for this window
    skipped    \* history: an iteration since last had nothing to apply

replayer == <<pc, count, snap, last, todo, occurred, doneCount, reports>>
files == <<file, signal, done>>
cluster == <<nodes, scaled, pods, placed, pending>>
history == <<recorded, skipped>>
vars == <<mode, replayer, files, vca, cluster, history>>

Iterations == 1..MaxEvents

(* A config's hash is its content, or the random string of an iteration.   *)
Config == [content : Configs, hash : Configs \cup Iterations, run : BOOLEAN]

(* A snapshot: its config's content and hash, the pods, and those of them  *)
(* that were assigned to one of its nodes.                                 *)
Snapshot == [content : Configs, hash : Configs \cup Iterations,
             pods : SUBSET PodNames, bound : SUBSET PodNames]

(* A written scenario: the iteration, what the virtual cluster had been    *)
(* set up with, and the nodes that count as scaled up.                     *)
Report == [number : Iterations, of : Snapshot, under : Configs \cup {None},
           pods : SUBSET PodNames, up : SUBSET Iterations]

(* The hash of a config, a SHA-256 sum, and a random string never collide. *)
ASSUME HashAssumption == Configs \cap Iterations = {}

ASSUME NoneAssumption ==
    /\ None \notin Configs /\ None \notin Config /\ None \notin Snapshot
    /\ None \notin {"success", "error"}

Locations == {"start", "next", "clear", "waitPause", "delta", "deploy", "run",
              "waitRun", "condition", "check", "doneSignal", "scenario",
              "sync", "post", "done"}

TypeOK ==
    /\ mode \in {"CA", "SR"}
    /\ pc \in Locations
    /\ count \in Iterations \cup {0}
    /\ snap \in Snapshot \cup {None}
    /\ last \in Snapshot \cup {None}
    /\ todo \in SUBSET PodNames
    /\ occurred \in BOOLEAN
    /\ doneCount \in 0..1
    /\ reports \in SUBSET Report
    /\ file \in Config \cup {None}
    /\ signal \in {None, "success", "error"}
    /\ done \in BOOLEAN
    /\ vca \in Config \cup {None}
    /\ nodes \in Configs \cup {None}
    /\ scaled \in SUBSET Iterations
    /\ pods \in SUBSET PodNames
    /\ placed \in SUBSET pods
    /\ pending \in SUBSET (pods \ placed)
    /\ recorded \in SUBSET PodNames
    /\ skipped \in BOOLEAN

(* The files in /tmp and the virtual cluster may be left from earlier runs;*)
(* Start cleans the latter.                                                *)
Init ==
    /\ mode \in {"CA", "SR"}
    /\ pc = "start"
    /\ count = 0
    /\ snap = None /\ last = None
    /\ todo = {}
    /\ occurred = FALSE
    /\ doneCount = 0
    /\ reports = {}
    /\ file = None /\ signal \in {None, "success", "error"} /\ done \in BOOLEAN
    /\ vca = None
    /\ nodes = None
    /\ scaled = {}
    /\ pods \in SUBSET PodNames
    /\ placed = pods
    /\ pending = {}
    /\ recorded = {}
    /\ skipped = FALSE

Goto(from, to) == pc = from /\ pc' = to

(* Every error ends the run: Start returns it.                             *)
Fail(from) ==
    /\ Goto(from, "done")
    /\ UNCHANGED <<mode, count, snap, last, todo, occurred, doneCount, reports,
                   files, vca, cluster, history>>

-----------------------------------------------------------------------------
(* The iteration of ReplayCA.                                              *)

(* CleanCluster: clearPods, then the nodes.                                *)
Start ==
    \/ /\ Goto("start", IF mode = "CA" THEN "next" ELSE "sync")
       /\ nodes' = None /\ scaled' = {}
       /\ pods' = {} /\ placed' = {} /\ pending' = {}
       /\ UNCHANGED <<mode, count, snap, last, todo, occurred, doneCount,
                      reports, files, vca, history>>
    \/ Fail("start")

(* What cs.Hash covers of two snapshots.  Equal ones may still differ in   *)
(* their priority classes or worker pools.                                 *)
MayHashAlike(s, t) ==
    t # None /\ s.content = t.content /\ s.pods = t.pods /\ s.bound = t.bound

(* GetRecordedClusterSnapshot.  The error of the pod query is overwritten  *)
(* by that of the next one; any other query that fails ends the run, and   *)
(* so does one that finds no row, without an error.                        *)
LoadSnapshot ==
    /\ count < MaxEvents
    /\ count' = count + 1
    /\ signal' = None
    /\ \E c \in Configs, ps \in SUBSET PodNames, failed \in BOOLEAN :
       \E bs \in SUBSET ps :
          /\ recorded' = ps
          /\ LET s == [content |-> c, hash |-> c,
                       pods |-> IF failed THEN {} ELSE ps,
                       bound |-> IF failed THEN {} ELSE bs]
             IN  /\ snap' = s
                 /\ \/ Goto("next", "clear") /\ UNCHANGED last
                    \/ \* skipped: nothing changed
                       /\ MayHashAlike(s, last)
                       /\ pc = "next" /\ UNCHANGED pc
                       /\ last' = s
    /\ UNCHANGED <<mode, todo, occurred, doneCount, reports, file, done, vca,
                   cluster, skipped>>

(* No event is left, the recording has no rows, or a query failed.         *)
NoMoreWork == Fail("next")

(* deletePendingUnscheduledPods, and the hash of the config: a random one  *)
(* makes the VCA remove the nodes it scaled up before.                     *)
HashToWriteKept(deleted) == snap.hash  \* mutant: the hash is never reset

HashToWrite(deleted) ==
    IF deleted # {} \/ reports # {} THEN count ELSE snap.hash

Write(hash, run) ==
    file' = [content |-> snap.content, hash |-> hash, run |-> run]

ClearPendingUnawaited ==  \* mutant: no wait for the pause to take effect
    \/ LET hash == HashToWrite(pending) IN
       /\ pc = "clear"
       /\ pods' = pods \ pending
       /\ pending' = {}
       /\ snap' = [snap EXCEPT !.hash = hash]
       /\ IF last = None \/ last.hash # hash
          THEN Goto("clear", "delta") /\ Write(hash, FALSE)
          ELSE Goto("clear", "delta") /\ UNCHANGED file
       /\ UNCHANGED <<mode, count, last, todo, occurred, doneCount, reports,
                      signal, done, vca, nodes, scaled, placed, history>>
    \/ Fail("clear")

ClearPending ==
    \/ LET hash == HashToWrite(pending) IN
       /\ pc = "clear"
       /\ pods' = pods \ pending
       /\ pending' = {}
       /\ snap' = [snap EXCEPT !.hash = hash]
       /\ IF last = None \/ last.hash # hash
          THEN Goto("clear", "waitPause") /\ Write(hash, FALSE)
          ELSE Goto("clear", "delta") /\ UNCHANGED file
       /\ UNCHANGED <<mode, count, last, todo, occurred, doneCount, reports,
                      signal, done, vca, nodes, scaled, placed, history>>
    \/ Fail("clear")

AwaitSignalKept(from, to) ==  \* mutant: the success file stays
    \/ /\ Goto(from, to)
       /\ signal = "success"
       /\ last' = IF to = "condition" THEN snap ELSE last
       /\ UNCHANGED signal
    \/ Goto(from, "done") /\ signal # "success" /\ UNCHANGED <<last, signal>>

(* waitForVirtualCARefresh: an error file or five minutes without a file   *)
(* end the run; the success file is removed when it is read.               *)
AwaitSignal(from, to) ==
    \/ /\ Goto(from, to)
       /\ signal = "success"
       /\ signal' = None
       /\ last' = IF to = "condition" THEN snap ELSE last
    \/ Goto(from, "done") /\ signal # "success" /\ UNCHANGED <<last, signal>>

WaitForVirtualCARefresh ==
    /\ \/ AwaitSignal("waitPause", "delta") /\ UNCHANGED skipped
       \/ AwaitSignal("waitRun", "condition") /\ skipped' = FALSE
    /\ UNCHANGED <<mode, count, snap, todo, occurred, doneCount, reports, file,
                   done, vca, cluster, recorded>>

(* applyDeltaWork, up to the deletion of all pods of the virtual cluster.  *)
ApplyDeltaWork(from) ==
    /\ Goto(from, "deploy")
    /\ todo' = snap.pods
    /\ pods' = {} /\ placed' = {} /\ pending' = {}

(* computeDeltaWork; extra stands for missing namespaces and classes.  An  *)
(* empty delta work ends the iteration of ReplayCA, which then does not    *)
(* remember the config it wrote.                                           *)
ComputeDeltaWork ==
    \/ /\ pc = "delta"
       /\ \E extra \in BOOLEAN :
             IF pods = {} /\ snap.pods = {} /\ ~extra
             THEN /\ pc' = IF mode = "CA" THEN "next" ELSE "post"
                  /\ skipped' = TRUE
                  /\ UNCHANGED <<todo, pods, placed, pending>>
             ELSE ApplyDeltaWork("delta") /\ UNCHANGED skipped
       /\ UNCHANGED <<mode, count, snap, last, occurred, doneCount, reports,
                      files, vca, nodes, scaled, recorded>>
    \/ Fail("delta")

(* doDeployPod, the pods that were assigned to a node first.               *)
DeployPod ==
    \/ /\ pc = "deploy"
       /\ \E p \in todo :
             /\ p \in snap.bound \/ todo \cap snap.bound = {}
             /\ todo' = todo \ {p}
             /\ pods' = pods \cup {p}
             /\ placed' = IF p \in snap.bound THEN placed \cup {p} ELSE placed
       /\ UNCHANGED <<mode, pc, count, snap, last, occurred, doneCount, reports,
                      files, vca, nodes, scaled, pending, history>>
    \/ Fail("deploy")

(* ... and after the stabilize interval the config of the run mode.        *)
WriteRunConfig ==
    \/ /\ todo = {}
       /\ mode = "CA"
       /\ Goto("deploy", "waitRun")
       /\ Write(snap.hash, TRUE)
       /\ UNCHANGED <<mode, count, snap, last, todo, occurred, doneCount,
                      reports, signal, done, vca, cluster, history>>
    \/ /\ todo = {}
       /\ mode = "SR"
       /\ Goto("deploy", "post")
       /\ UNCHANGED <<mode, count, snap, last, todo, occurred, doneCount,
                      reports, files, vca, cluster, history>>

(* waitForAllPodsToHaveSomeCondition; its error, after ten minutes or from *)
(* a failed call, is taken for no scaling.                                 *)
AwaitConditions ==
    /\ \/ /\ pods = placed \cup pending
          /\ Goto("condition", "check")
          /\ done' = FALSE
          /\ doneCount' = 0
          /\ occurred' = FALSE
       \/ /\ Goto("condition", "next")
          /\ UNCHANGED <<done, doneCount, occurred>>
    /\ UNCHANGED <<mode, count, snap, last, todo, reports, file, signal, vca,
                   cluster, history>>

(* The loop of waitAndCheckVirtualScaling: list the nodes, then the pods;  *)
(* return when every pod has a node, or when the pods cannot be listed.    *)
(* That the nodes cannot be listed goes unnoticed.                         *)
CheckScaling ==
    /\ \E listed \in BOOLEAN : occurred' = (occurred \/ (listed /\ scaled # {}))
    /\ \/ /\ pods # placed
          /\ Goto("check", "doneSignal")
       \/ Goto("check", IF occurred' THEN "scenario" ELSE "next")
    /\ UNCHANGED <<mode, count, snap, last, todo, doneCount, reports, files, vca,
                   cluster, history>>

ReadDoneSignalLate ==  \* mutant: one signal too many
    /\ \/ ~done /\ Goto("doneSignal", "check") /\ UNCHANGED <<done, doneCount>>
       \/ /\ done /\ doneCount <= 1
          /\ Goto("doneSignal", "check")
          /\ doneCount' = doneCount + 1
          /\ done' = FALSE
       \/ /\ done /\ doneCount > 1
          /\ Goto("doneSignal", IF occurred THEN "scenario" ELSE "next")
          /\ UNCHANGED <<done, doneCount>>
    /\ UNCHANGED <<mode, count, snap, last, todo, occurred, reports, file,
                   signal, vca, cluster, history>>

ReadDoneSignalUncounted ==  \* mutant: the signals are not counted
    /\ \/ ~done /\ Goto("doneSignal", "check") /\ UNCHANGED <<done, doneCount>>
       \/ /\ done /\ doneCount = 0
          /\ Goto("doneSignal", "check")
          /\ UNCHANGED doneCount
          /\ done' = FALSE
       \/ /\ done /\ doneCount = 1
          /\ Goto("doneSignal", IF occurred THEN "scenario" ELSE "next")
          /\ UNCHANGED <<done, doneCount>>
    /\ UNCHANGED <<mode, count, snap, last, todo, occurred, reports, file,
                   signal, vca, cluster, history>>

(* ... a minute later: read the done signal; the second one ends the loop, *)
(* with what was seen before the minute.                                   *)
ReadDoneSignal ==
    /\ \/ ~done /\ Goto("doneSignal", "check") /\ UNCHANGED <<done, doneCount>>
       \/ /\ done /\ doneCount = 0
          /\ Goto("doneSignal", "check")
          /\ doneCount' = 1
          /\ done' = FALSE
       \/ /\ done /\ doneCount = 1
          /\ Goto("doneSignal", IF occurred THEN "scenario" ELSE "next")
          /\ UNCHANGED <<done, doneCount>>
    /\ UNCHANGED <<mode, count, snap, last, todo, occurred, reports, file,
                   signal, vca, cluster, history>>

(* createScenario and writeScenario: the nodes that the snapshot has not   *)
(* count as scaled up.  A report that was written and cannot be uploaded   *)
(* ends the run.                                                           *)
Scenario ==
    [number |-> count, of |-> snap, under |-> nodes, pods |-> pods,
     up |-> scaled]

CreateScenario ==
    \/ /\ pc = "scenario"
       /\ pc' \in {IF mode = "CA" THEN "next" ELSE "done", "done"}
       /\ reports' = IF scaled = {} THEN reports ELSE reports \cup {Scenario}
       /\ UNCHANGED <<mode, count, snap, last, todo, occurred, doneCount, files,
                      vca, cluster, history>>
    \/ Fail("scenario")

-----------------------------------------------------------------------------
(* ReplayScalingRecommender.                                               *)

(* writeAutoscalerConfig, then syncNodes; nobody is asked for a signal.    *)
SyncNodes ==
    \/ /\ Goto("sync", "delta")
       /\ count' = 1
       /\ \E c \in Configs, ps \in SUBSET PodNames : \E bs \in SUBSET ps :
             /\ snap' = [content |-> c, hash |-> c, pods |-> ps, bound |-> bs]
             /\ recorded' = ps
             /\ nodes' = c
       /\ UNCHANGED <<mode, last, todo, occurred, doneCount, reports, files,
                      vca, scaled, pods, placed, pending, skipped>>
    \/ Fail("sync")

(* postClusterSnapshot; the recommender adds nodes before it answers.      *)
PostClusterSnapshot ==
    \/ /\ Goto("post", "scenario")
       /\ last' = snap
       /\ scaled' \in {scaled, scaled \cup {count}}
       /\ UNCHANGED <<mode, count, snap, todo, occurred, doneCount, reports,
                      files, vca, nodes, pods, placed, pending, history>>
    \/ Fail("post")

-----------------------------------------------------------------------------
(* The other programs.                                                     *)

(* The VCA reads a config that was written and answers.  It brings the     *)
(* nodes in line only when the hash is another one.                        *)
VCARefresh ==
    /\ file # None
    /\ file' = None
    /\ \/ /\ signal' = "success"
          /\ vca' = file
          /\ IF vca # None /\ vca.hash = file.hash
             THEN UNCHANGED <<nodes, scaled>>
             ELSE nodes' = file.content /\ scaled' = {}
       \/ signal' = "error" /\ UNCHANGED <<vca, nodes, scaled>>
    /\ UNCHANGED <<mode, replayer, done, pods, placed, pending, history>>

Running == vca # None /\ vca.run /\ pc # "done"

(* In its run mode it adds nodes for the pods that are pending.            *)
VCAScaleUp ==
    /\ Running
    /\ pending # {}
    /\ scaled' = scaled \cup {count}
    /\ UNCHANGED <<mode, replayer, files, vca, nodes, pods, placed, pending,
                   history>>

VCADone ==
    /\ Running
    /\ ~done
    /\ done' = TRUE
    /\ UNCHANGED <<mode, replayer, file, signal, vca, cluster, history>>

Schedule(p) ==
    /\ p \in pods \ placed
    /\ pc # "done"
    /\ \/ /\ p \notin pending \/ scaled # {}
          /\ placed' = placed \cup {p}
          /\ pending' = pending \ {p}
       \/ /\ p \notin pending
          /\ pending' = pending \cup {p}
          /\ UNCHANGED placed
    /\ UNCHANGED <<mode, replayer, files, vca, nodes, scaled, pods, history>>

-----------------------------------------------------------------------------

Replayer ==
    \/ Start \/ LoadSnapshot \/ NoMoreWork
    \/ ClearPending \/ WaitForVirtualCARefresh
    \/ ComputeDeltaWork \/ DeployPod \/ WriteRunConfig
    \/ AwaitConditions \/ CheckScaling \/ ReadDoneSignal \/ CreateScenario
    \/ SyncNodes \/ PostClusterSnapshot

Others == VCARefresh \/ VCAScaleUp \/ VCADone \/ \E p \in PodNames : Schedule(p)

Next == Replayer \/ Others \/ (pc = "done" /\ UNCHANGED vars)

(* The replayer goes on as long as it can.  Its wait for the end of the    *)
(* scale-ups has no timeout of its own: it relies on the VCA, which signals*)
(* the end of every round of its run mode.                                 *)
Fairness == WF_vars(Replayer) /\ WF_vars(VCADone)

Spec == Init /\ [][Next]_vars /\ Fairness

-----------------------------------------------------------------------------
(* No virtually scaled node is in the reports of two events: the nodes of  *)
(* one event are gone before the pods of the next are deployed, because the*)
(* hash of the autoscaler config is reset (replayer.go:457-465).           *)
NoNodeReportedTwice ==
    \A r, s \in reports : r # s => r.up \cap s.up = {}

(* A scenario was played on the nodes and with the pods of its own snapshot*)
(* and no others: the config that the VCA had taken over when the scale-up *)
(* happened was that of this event and not of an earlier one, and no pod   *)
(* was left from before (replayer.go:466-516, 1388-1437).                  *)
ScenarioOfItsSnapshot ==
    \A r \in reports : r.under = r.of.content /\ r.pods = r.of.pods

(* While pods are deployed, and the assigned ones bound to their nodes, the*)
(* virtual cluster has the nodes of their snapshot.  An iteration without  *)
(* any work that came before breaks this: it leaves its config to the VCA  *)
(* but lastClusterSnapshot unchanged (replayer.go:481-484).                *)
DeployedOnItsNodes ==
    pc = "deploy" => nodes = snap.content \/ skipped

(* Every run of the replayer ends (replayer.go:409-523, 1888-1953).        *)
Terminates == <>(pc = "done")
=============================================================================
