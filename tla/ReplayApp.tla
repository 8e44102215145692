----------------------------- MODULE ReplayApp -----------------------------
(***************************************************************************)
(* The app (src/app/app.go): three loops that share nothing but the pods   *)
(* of the cluster and the files of the reports directory.                  *)
(*   - RunCAReplays starts a replayer pod for every database; that pod     *)
(*     uploads CA reports, numbered anew in every replay of the database.  *)
(*   - RunSRReplays starts a replayer pod for every CA report; it downloads*)
(*     the report and uploads the SR report of the same number.            *)
(*   - GenerateCompareReports compares the CA and the SR report of every   *)
(*     pair in which the SR report is the younger one.                     *)
(* A pod is named after the kind of its replay and its cluster, so that all*)
(* reports of a cluster share the pod of their SR replays.                 *)
(***************************************************************************)
EXTENDS Naturals, FiniteSets, FiniteSetsExt

CONSTANTS
    Clusters,   \* the databases of DBDir, one for each recorded cluster
    LastReport, \* bound: the names of CA reports are 1..LastReport
    ClusterOf,  \* the cluster of a report
    MaxUploads, \* bound: how often a CA report is uploaded
    Nil

Reports == 1..LastReport  \* in the order of their names

ASSUME LastReportAssumption == LastReport \in Nat
ASSUME ClusterAssumption == ClusterOf \in [Reports -> Clusters]
ASSUME UploadsAssumption == MaxUploads \in Nat

VARIABLES
    loop,     \* the two replay loops
    pod,      \* the replayer pods, by kind and cluster
    ca,       \* the uploads of every CA report so far, 0 without one
    sr,       \* every SR report: the upload of the CA report it was made
              \* from, 0 without one, and whether it is the younger file
    compare,  \* the comparison loop
    result,   \* the uploads that the latest comparison of a report is about
    replaced  \* history: CA reports uploaded anew while an SR replay or a
              \* comparison of them was going on

appVars == <<loop, pod, ca, sr, compare, result, replaced>>

Kinds == {"CA", "SR"}
Uploads == 0..MaxUploads
Tasks(kind) == IF kind = "CA" THEN Clusters ELSE Reports

(* GetCAPodName, GetSRPodName.                                             *)
PodOf(kind, task) == IF kind = "CA" THEN task ELSE ClusterOf[task]

Phases == {"Pending", "Running", "Completed", "Terminating"}
Pods == [phase : Phases, task : Clusters \cup Reports, input : Uploads]

ASSUME NilAssumption == Nil \notin Clusters \cup Reports /\ Nil \notin Pods

AppTypeOK ==
    /\ loop \in [Kinds -> [at : {"next", "delete", "poll"},
                           todo : SUBSET (Clusters \cup Reports),
                           task : Clusters \cup Reports \cup {Nil}]]
    /\ pod \in [Kinds -> [Clusters -> Pods \cup {Nil}]]
    /\ \A k \in Kinds :
          /\ loop[k].todo \in SUBSET Tasks(k)
          /\ loop[k].task \in Tasks(k) \cup {Nil}
          /\ \A c \in Clusters : pod[k][c] # Nil =>
                pod[k][c].task \in {t \in Tasks(k) : PodOf(k, t) = c}
    /\ ca \in [Reports -> Uploads]
    /\ sr \in [Reports -> [of : Uploads, younger : BOOLEAN]]
    /\ \A r \in Reports : sr[r].of <= ca[r]
    /\ compare \in [todo : SUBSET Reports, report : Reports \cup {Nil},
                    of : Uploads]
    /\ result \in [Reports -> [ca : Uploads, sr : Uploads]]
    /\ replaced \in SUBSET Reports

AppInit ==
    /\ loop = [k \in Kinds |-> [at |-> "next", todo |-> {}, task |-> Nil]]
    /\ pod = [k \in Kinds |-> [c \in Clusters |-> Nil]]
    /\ ca = [r \in Reports |-> 0]
    /\ sr = [r \in Reports |-> [of |-> 0, younger |-> FALSE]]
    /\ compare = [todo |-> {}, report |-> Nil, of |-> 0]
    /\ result = [r \in Reports |-> [ca |-> 0, sr |-> 0]]
    /\ replaced = {}

-----------------------------------------------------------------------------
(* The replay loops: RunCAReplays with RunCAReplay, and RunSRReplays with  *)
(* RunSRReplay, which differ in what they list and how long they wait.     *)

shared == <<ca, sr, compare, result, replaced>>

ThePod(k) == pod[k][PodOf(k, loop[k].task)]

(* ListAllDBPaths, ListAllCAReportPaths, when the round before has ended.  *)
List(k) ==
    /\ loop[k].at = "next" /\ loop[k].todo = {}
    /\ loop' = [loop EXCEPT ![k].todo =
                    {t \in Tasks(k) : k = "CA" \/ ca[t] > 0}]
    /\ UNCHANGED <<pod, shared>>

LeftAfterErrorNone(todo) == {}  \* mutant: an error ends the round

(* A failed replay is logged and the round goes on.                        *)
LeftAfterError(todo) == todo

(* The step of loop k that ends at the given place, with task t.           *)
Step(k, at, t, todo) ==
    loop' = [loop EXCEPT ![k] = [at |-> at, task |-> t, todo |-> todo]]

Failed(k, t, todo) == Step(k, "next", t, LeftAfterError(todo))

SetPod(k, t, p) == pod' = [pod EXCEPT ![k][PodOf(k, t)] = p]

(* Create, where no pod of that name is left.                              *)
CreatePod(k, t, todo) ==
    \/ /\ SetPod(k, t, [phase |-> "Pending", task |-> t, input |-> 0])
       /\ Step(k, "poll", t, todo)
    \/ /\ SetPod(k, t, Nil)
       /\ Failed(k, t, todo)

(* The next of the shuffled tasks: look for its pod.  One that runs is left*)
(* alone.  To get no answer is like to find no pod, but then the one there *)
(* is makes Create fail.                                                   *)
GetPod(k) ==
    /\ loop[k].at = "next"
    /\ \E t \in loop[k].todo :
          LET p == pod[k][PodOf(k, t)]
              todo == loop[k].todo \ {t}
          IN  \/ p = Nil /\ CreatePod(k, t, todo)
              \/ /\ p # Nil /\ UNCHANGED pod
                 /\ \/ /\ p.phase \in {"Running", "Terminating"}
                       /\ Step(k, "next", t, todo)
                    \/ p.phase # "Running" /\ Step(k, "delete", t, todo)
                    \/ Failed(k, t, todo)
    /\ UNCHANGED shared

(* By now the pod may run.  Whatever was started goes away only after its  *)
(* grace period, and Create fails until then.                              *)
DeletePod(k) ==
    LET p == ThePod(k)
        t == loop[k].task
        todo == loop[k].todo
    IN  /\ loop[k].at = "delete"
        /\ \/ /\ p # Nil
              /\ p.phase \in {"Pending", "Completed"}
              /\ CreatePod(k, t, todo)
           \/ /\ p # Nil
              /\ p.phase # "Completed"
              /\ SetPod(k, t, [p EXCEPT !.phase = "Terminating"])
              /\ Failed(k, t, todo)
           \/ UNCHANGED pod /\ Failed(k, t, todo)
        /\ UNCHANGED shared

(* The poll ends when the pod has completed, with the first failed Get, or *)
(* after three hours, that of a SR replay after one.                       *)
EndPoll(k) ==
    /\ loop[k].at = "poll"
    /\ \/ /\ ThePod(k) # Nil
          /\ ThePod(k).phase = "Completed"
          /\ Step(k, "next", loop[k].task, loop[k].todo)
       \/ Failed(k, loop[k].task, loop[k].todo)
    /\ UNCHANGED <<pod, shared>>

-----------------------------------------------------------------------------
(* The replayer pods, whose restart policy is Never.                       *)

RunPodAhead(k, c) ==  \* mutant: the input is one upload ahead
    /\ pod[k][c] # Nil /\ pod[k][c].phase = "Pending"
    /\ pod' = [pod EXCEPT ![k][c].phase = "Running",
                          ![k][c].input = IF k = "SR"
                                          THEN ca[pod[k][c].task] + 1 ELSE 0]
    /\ UNCHANGED <<loop, shared>>

(* A SR replayer first downloads its CA report: DownloadReportFromApp.     *)
RunPod(k, c) ==
    /\ pod[k][c] # Nil /\ pod[k][c].phase = "Pending"
    /\ pod' = [pod EXCEPT ![k][c].phase = "Running",
                          ![k][c].input = IF k = "SR"
                                          THEN ca[pod[k][c].task] ELSE 0]
    /\ UNCHANGED <<loop, shared>>

CompletePod(k, c) ==
    /\ pod[k][c] # Nil /\ pod[k][c].phase = "Running"
    /\ pod' = [pod EXCEPT ![k][c].phase = "Completed"]
    /\ UNCHANGED <<loop, shared>>

RemovePod(k, c) ==
    /\ pod[k][c] # Nil /\ pod[k][c].phase = "Terminating"
    /\ pod' = [pod EXCEPT ![k][c] = Nil]
    /\ UNCHANGED <<loop, shared>>

(* UploadReport and PutReport, of the CA replay of a cluster ...           *)
PutCAReport(r) ==
    LET p == pod["CA"][ClusterOf[r]]
        q == pod["SR"][ClusterOf[r]]
    IN  /\ p # Nil /\ p.phase = "Running"
        /\ ca[r] < MaxUploads
        /\ ca' = [ca EXCEPT ![r] = @ + 1]
        /\ sr' = [sr EXCEPT ![r].younger = FALSE]
        /\ replaced' =
              IF (q # Nil /\ q.phase = "Running" /\ q.task = r)
                 \/ r \in compare.todo \/ compare.report = r
              THEN replaced \cup {r} ELSE replaced
        /\ UNCHANGED <<loop, pod, compare, result>>

(* ... and of the SR replay of a report.                                   *)
PutSRReport(c) ==
    LET p == pod["SR"][c]
    IN  /\ p # Nil /\ p.phase = "Running"
        /\ sr' = [sr EXCEPT ![p.task] = [of |-> p.input, younger |-> TRUE]]
        /\ UNCHANGED <<loop, pod, ca, compare, result, replaced>>

-----------------------------------------------------------------------------
(* GenerateCompareReports.                                                 *)

HasSR(r) == sr[r].of > 0

IsPairAnyAge(r) == ca[r] > 0 /\ HasSR(r)  \* mutant: whatever the ages

IsPair(r) == ca[r] > 0 /\ HasSR(r) /\ sr[r].younger

(* ListAllReplayReportPairs.  The error of a missing SR report is returned *)
(* when no other CA report comes after it, and no pair is compared then.   *)
ListPairs ==
    LET all == {r \in Reports : ca[r] > 0}
        failed == all # {} /\ ~HasSR(Max(all))
    IN  /\ compare.todo = {} /\ compare.report = Nil
        /\ ~failed
        /\ compare' = [compare EXCEPT !.todo = {r \in all : IsPair(r)}]
        /\ UNCHANGED <<loop, pod, ca, sr, result, replaced>>

(* GenerateReportFromConfig reads the CA report, then the SR report.  An   *)
(* error of either, or in what is done with them, is logged.               *)
ReadCAReport ==
    /\ compare.report = Nil
    /\ \E r \in compare.todo :
          compare' = [todo |-> compare.todo \ {r}, report |-> r, of |-> ca[r]]
    /\ UNCHANGED <<loop, pod, ca, sr, result, replaced>>

Compare ==
    /\ compare.report # Nil
    /\ result' = [result EXCEPT ![compare.report] =
                     [ca |-> compare.of, sr |-> sr[compare.report].of]]
    /\ compare' = [compare EXCEPT !.report = Nil, !.of = 0]
    /\ UNCHANGED <<loop, pod, ca, sr, replaced>>

CompareFails ==
    /\ compare.report # Nil
    /\ compare' = [compare EXCEPT !.report = Nil, !.of = 0]
    /\ UNCHANGED <<loop, pod, ca, sr, result, replaced>>

-----------------------------------------------------------------------------

ReplayStep(k) ==
    List(k) \/ GetPod(k) \/ DeletePod(k) \/ EndPoll(k)

CompareStep == ListPairs \/ ReadCAReport \/ Compare \/ CompareFails

AppNext ==
    \/ \E k \in Kinds : ReplayStep(k)
    \/ \E k \in Kinds, c \in Clusters :
          RunPod(k, c) \/ CompletePod(k, c) \/ RemovePod(k, c)
    \/ \E r \in Reports : PutCAReport(r)
    \/ \E c \in Clusters : PutSRReport(c)
    \/ CompareStep

(* The three loops run until the app is closed: no call they make waits    *)
(* for ever, every poll has its timeout and their timers go off.  Nothing  *)
(* is assumed of the replayer pods.  A comparison that neither file hinders*)
(* is made when it is tried again and again.                               *)
AppFairness ==
    /\ \A k \in Kinds : WF_appVars(ReplayStep(k))
    /\ WF_appVars(CompareStep)
    /\ \A r \in Reports : SF_appVars(compare.report = r /\ Compare)

AppSpec == AppInit /\ [][AppNext]_appVars /\ AppFairness

-----------------------------------------------------------------------------
(* A comparison is about a CA report and the SR replay of that very report.*)
(* That the SR report is the younger file (apputil.go:599) ensures it      *)
(* unless the CA report was uploaded anew during the SR replay or between  *)
(* the steps of a comparison.                                              *)
PairsMatch ==
    \A r \in Reports \ replaced : result[r].ca = result[r].sr

(* Every database is taken up again and again, whatever happens to its     *)
(* replays and those of the others: no error, hanging pod or full round    *)
(* keeps the loop from it (app.go:194-220, 246-302).                       *)
EveryDatabaseReplayed ==
    \A c \in Clusters : []<>(loop["CA"].task = c)

(* A pair that stays is compared (apputil.go:570-605).                     *)
EveryPairCompared ==
    \A r \in Reports :
        IsPair(r) ~>
            (~IsPair(r) \/ result[r] = [ca |-> ca[r], sr |-> sr[r].of])
=============================================================================
