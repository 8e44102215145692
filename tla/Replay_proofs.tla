---------------------------- MODULE Replay_proofs ----------------------------
(***************************************************************************)
(* The properties of ReplayLoop for any number of scale-up events, of      *)
(* autoscaler configs and of pods, and those of ReplayApp, which starts    *)
(* such replays, for any number of databases, reports and uploads.  The two*)
(* share no variable; the first part is that of the app.                   *)
(*                                                                         *)
(* That a replay report is about its own snapshot, and that no node is     *)
(* reported twice, rests on the exchange of files.  IInv says, conjunct by *)
(* conjunct:                                                               *)
(*   ControlInv  which places belong to which mode, and what is there once *)
(*               an iteration has its snapshot;                            *)
(*   FilesInv    the config file is what the replayer waits about, and a   *)
(*               success means that the VCA works with the content of this *)
(*               iteration's snapshot;                                     *)
(*   HashInv     a hash that is not a random one stands for its content, a *)
(*               random one for its iteration, and the VCA has the hash of *)
(*               this iteration only once it answered in it;               *)
(*   NodesInv    the virtual cluster has the nodes of the VCA's config, and*)
(*               the config of lastClusterSnapshot is the VCA's unless an  *)
(*               iteration without work came between;                      *)
(*   PodsInv     the pods are those of the snapshot once deployed;         *)
(*   ScaledInv   once there is a report, no scaled node is left of an      *)
(*               earlier iteration after the wait for the pause.           *)
(* After the end of a run a late answer of the VCA may still change the    *)
(* virtual cluster, which is why these hold until then only.               *)
(*                                                                         *)
(* AppInv says what a CA report, its SR replay and its comparison have to  *)
(* do with each other:                                                     *)
(*   InputInv    a running SR replay is of the CA report as it is;         *)
(*   PairInv     so is a younger SR report, and one that is listed or read *)
(*               for a comparison;                                         *)
(* each for reports that were not uploaded anew meanwhile.                 *)
(***************************************************************************)
EXTENDS ReplayLoop, ReplayApp, TLAPS

LoopTyped ==
    /\ loop \in [Kinds -> [at : {"next", "delete", "poll"},
                           todo : SUBSET (Clusters \cup Reports),
                           task : Clusters \cup Reports \cup {Nil}]]
    /\ \A k \in Kinds : /\ loop[k].todo \in SUBSET Tasks(k)
                        /\ loop[k].task \in Tasks(k) \cup {Nil}
                        /\ loop[k].at # "next" => loop[k].task # Nil

PodTyped ==
    /\ pod \in [Kinds -> [Clusters -> Pods \cup {Nil}]]
    /\ \A k \in Kinds : \A c \in Clusters : pod[k][c] # Nil =>
          pod[k][c].task \in Tasks(k) /\ PodOf(k, pod[k][c].task) = c

FilesTyped ==
    /\ ca \in [Reports -> Uploads]
    /\ sr \in [Reports -> [of : Uploads, younger : BOOLEAN]]
    /\ \A r \in Reports : sr[r].of <= ca[r]
    /\ compare \in [todo : SUBSET Reports, report : Reports \cup {Nil},
                    of : Uploads]
    /\ result \in [Reports -> [ca : Uploads, sr : Uploads]]
    /\ replaced \in SUBSET Reports

(* What a SR replayer downloaded is the CA report as it is, unless that was*)
(* uploaded anew meanwhile.                                                *)
InputOf(p) ==
    p # Nil => /\ p.input <= ca[p.task]
               /\ p.phase = "Running" =>
                     p.input = ca[p.task] \/ p.task \in replaced

InputInv == \A c \in Clusters : InputOf(pod["SR"][c])

(* A younger SR report, and one that is listed or being compared, is of the*)
(* CA report as it is.                                                     *)
PairOf(r) ==
    /\ sr[r].younger \/ r \in compare.todo \/ compare.report = r
       => sr[r].of = ca[r]
    /\ compare.report = r => compare.of = ca[r]

PairInv == \A r \in Reports \ replaced : PairOf(r)

AppInv ==
    /\ LoopTyped /\ PodTyped /\ FilesTyped
    /\ InputInv /\ PairInv /\ PairsMatch

LEMMA TasksAreTasks ==
    ASSUME NEW k \in Kinds, NEW t \in Tasks(k)
    PROVE  /\ t \in Clusters \cup Reports /\ t # Nil
           /\ PodOf(k, t) \in Clusters
BY ClusterAssumption, NilAssumption DEF Kinds, Tasks, PodOf

LEMMA StepTyped ==
    ASSUME LoopTyped, NEW k \in Kinds, NEW t \in Tasks(k),
           NEW rest \in SUBSET Tasks(k),
           NEW place \in {"next", "delete", "poll"},
           Step(k, place, t, rest)
    PROVE  LoopTyped'
<1> DEFINE new == [at |-> place, task |-> t, todo |-> rest]
<1>1. t \in Clusters \cup Reports /\ t # Nil
      /\ rest \in SUBSET (Clusters \cup Reports)
  BY TasksAreTasks DEF Tasks
<1>2. new \in [at : {"next", "delete", "poll"},
               todo : SUBSET (Clusters \cup Reports),
               task : Clusters \cup Reports \cup {Nil}]
      /\ new.at = place /\ new.task = t /\ new.todo = rest
  BY <1>1
<1>3. loop' = [loop EXCEPT ![k] = new]
  BY DEF Step
<1> HIDE DEF new
<1> QED BY <1>1, <1>2, <1>3 DEF LoopTyped

(* A pod that does not run may be anyone's.                                *)
LEMMA SetPodKeeps ==
    ASSUME PodTyped, FilesTyped, InputInv,
           NEW k \in Kinds, NEW c \in Clusters, NEW p \in Pods \cup {Nil},
           pod' = [pod EXCEPT ![k][c] = p],
           p # Nil => p.task \in Tasks(k) /\ PodOf(k, p.task) = c,
           k = "SR" => InputOf(p),
           UNCHANGED <<ca, replaced>>
    PROVE  PodTyped' /\ InputInv'
<1>1. /\ pod' \in [Kinds -> [Clusters -> Pods \cup {Nil}]]
      /\ \A j \in Kinds : \A d \in Clusters :
            pod'[j][d] = IF j = k /\ d = c THEN p ELSE pod[j][d]
  BY DEF PodTyped
<1>2. PodTyped'
  BY <1>1 DEF PodTyped
<1>3. "SR" \in Kinds
  BY DEF Kinds
<1>4. ASSUME NEW d \in Clusters PROVE InputOf(pod["SR"][d])'
  BY <1>1, <1>3 DEF InputInv, InputOf
<1> QED BY <1>2, <1>4 DEF InputInv

(* What is left of the invariant when the reports stay as they are.        *)
LEMMA SharedKept ==
    ASSUME AppInv, UNCHANGED shared, LoopTyped', PodTyped', InputInv'
    PROVE  AppInv'
<1>1. FilesTyped'
  BY DEF AppInv, FilesTyped, shared
<1>2. PairInv' /\ PairsMatch'
  BY DEF AppInv, PairInv, PairOf, PairsMatch, shared
<1> QED BY <1>1, <1>2 DEF AppInv

LEMMA PodsKept ==
    ASSUME AppInv, UNCHANGED <<pod, ca, replaced>>
    PROVE  PodTyped' /\ InputInv'
BY DEF AppInv, PodTyped, InputInv, InputOf

LEMMA LoopKept == ASSUME AppInv, UNCHANGED loop PROVE LoopTyped'
BY DEF AppInv, LoopTyped

LEMMA SomeType ==
    ASSUME AppInv, NEW k \in Kinds
    PROVE  /\ loop[k].todo \in SUBSET Tasks(k)
           /\ loop[k].at # "next" => loop[k].task \in Tasks(k)
BY DEF AppInv, LoopTyped

(* Create, and the failure to get one.                                     *)
LEMMA CreatePodKeeps ==
    ASSUME AppInv, NEW k \in Kinds, NEW t \in Tasks(k),
           NEW rest \in SUBSET Tasks(k), CreatePod(k, t, rest),
           UNCHANGED shared
    PROVE  AppInv'
<1> DEFINE new == [phase |-> "Pending", task |-> t, input |-> 0]
<1>1. PodOf(k, t) \in Clusters /\ t \in Clusters \cup Reports
  BY TasksAreTasks
<1>2. /\ new \in Pods /\ new # Nil
      /\ new.task = t /\ new.input = 0 /\ new.phase = "Pending"
  BY <1>1, UploadsAssumption, NilAssumption DEF Pods, Phases, Uploads
<1>3. k = "SR" => 0 <= ca[t]
  BY DEF AppInv, FilesTyped, Tasks, Uploads
<1>4. k = "SR" => InputOf(new)
  BY <1>2, <1>3 DEF InputOf
<1>5. InputOf(Nil)
  BY DEF InputOf
<1>6. \/ SetPod(k, t, new) /\ Step(k, "poll", t, rest)
      \/ SetPod(k, t, Nil) /\ Step(k, "next", t, rest)
  BY DEF CreatePod, Failed, LeftAfterError
<1> HIDE DEF new
<1>7. LoopTyped'
  BY <1>6, StepTyped DEF AppInv
<1>8. PodTyped' /\ InputInv'
  <2>1. CASE SetPod(k, t, new)
    BY <1>1, <1>2, <1>4, <2>1, SetPodKeeps DEF AppInv, SetPod, shared
  <2>2. CASE SetPod(k, t, Nil)
    BY <1>1, <1>5, <2>2, SetPodKeeps DEF AppInv, SetPod, shared
  <2> QED BY <1>6, <2>1, <2>2
<1> QED BY <1>7, <1>8, SharedKept

LEMMA ReplayStepKeeps ==
    ASSUME AppInv, NEW k \in Kinds, ReplayStep(k)
    PROVE  AppInv'
<1>1. CASE List(k)
  <2> DEFINE all == {t \in Tasks(k) : k = "CA" \/ ca[t] > 0}
  <2>1. all \in SUBSET Tasks(k) /\ all \in SUBSET (Clusters \cup Reports)
    BY DEF Tasks
  <2>2. loop' = [loop EXCEPT ![k].todo = all]
    BY <1>1 DEF List
  <2> HIDE DEF all
  <2>3. LoopTyped'
    BY <2>1, <2>2 DEF AppInv, LoopTyped
  <2>4. UNCHANGED shared /\ UNCHANGED pod
    BY <1>1 DEF List
  <2> QED BY <2>3, <2>4, PodsKept, SharedKept DEF shared
<1>2. CASE GetPod(k)
  <2>1. PICK t \in loop[k].todo :
           \/ CreatePod(k, t, loop[k].todo \ {t})
           \/ /\ UNCHANGED pod
              /\ \/ Step(k, "next", t, loop[k].todo \ {t})
                 \/ Step(k, "delete", t, loop[k].todo \ {t})
    BY <1>2 DEF GetPod, Failed, LeftAfterError
  <2>2. UNCHANGED shared
    BY <1>2 DEF GetPod
  <2>3. t \in Tasks(k) /\ loop[k].todo \ {t} \in SUBSET Tasks(k)
    BY SomeType
  <2>4. CASE CreatePod(k, t, loop[k].todo \ {t})
    BY <2>2, <2>3, <2>4, CreatePodKeeps
  <2>5. CASE UNCHANGED pod /\ \/ Step(k, "next", t, loop[k].todo \ {t})
                              \/ Step(k, "delete", t, loop[k].todo \ {t})
    <3>1. LoopTyped'
      BY <2>3, <2>5, StepTyped DEF AppInv
    <3> QED BY <2>2, <2>5, <3>1, PodsKept, SharedKept DEF shared
  <2> QED BY <2>1, <2>4, <2>5
<1>3. CASE DeletePod(k)
  <2> DEFINE t == loop[k].task
             rest == loop[k].todo
             p == ThePod(k)
             gone == [p EXCEPT !.phase = "Terminating"]
  <2>1. /\ t \in Tasks(k) /\ rest \in SUBSET Tasks(k)
        /\ UNCHANGED shared
    BY <1>3, SomeType DEF DeletePod
  <2>2. \/ CreatePod(k, t, rest)
        \/ p # Nil /\ SetPod(k, t, gone) /\ Step(k, "next", t, rest)
        \/ UNCHANGED pod /\ Step(k, "next", t, rest)
    BY <1>3 DEF DeletePod, Failed, LeftAfterError
  <2> HIDE DEF t, rest
  <2>3. CASE CreatePod(k, t, rest)
    BY <2>1, <2>3, CreatePodKeeps
  <2>4. CASE p # Nil /\ SetPod(k, t, gone) /\ Step(k, "next", t, rest)
    <3>1. PodOf(k, t) \in Clusters /\ p = pod[k][PodOf(k, t)]
      BY <2>1, TasksAreTasks DEF ThePod, t
    <3>2. /\ p \in Pods
          /\ p.task \in Tasks(k) /\ PodOf(k, p.task) = PodOf(k, t)
          /\ k = "SR" => InputOf(p)
      BY <2>4, <3>1 DEF AppInv, PodTyped, InputInv
    <3> HIDE DEF p
    <3>3. /\ gone \in Pods /\ gone.task = p.task /\ gone.input = p.input
          /\ gone.phase = "Terminating"
      BY <3>2 DEF Pods, Phases
    <3> HIDE DEF gone
    <3>4. k = "SR" => InputOf(gone)
      BY <2>4, <3>2, <3>3 DEF InputOf
    <3>5. PodTyped' /\ InputInv'
      BY <2>1, <2>4, <3>1, <3>2, <3>3, <3>4, SetPodKeeps
         DEF AppInv, SetPod, shared
    <3>6. LoopTyped'
      BY <2>1, <2>4, StepTyped DEF AppInv
    <3> QED BY <2>1, <3>5, <3>6, SharedKept
  <2>5. CASE UNCHANGED pod /\ Step(k, "next", t, rest)
    <3>1. LoopTyped'
      BY <2>1, <2>5, StepTyped DEF AppInv
    <3> QED BY <2>1, <2>5, <3>1, PodsKept, SharedKept DEF shared
  <2> QED BY <2>2, <2>3, <2>4, <2>5
<1>4. CASE EndPoll(k)
  <2>1. /\ loop[k].task \in Tasks(k) /\ loop[k].todo \in SUBSET Tasks(k)
        /\ UNCHANGED shared /\ UNCHANGED pod
        /\ Step(k, "next", loop[k].task, loop[k].todo)
    BY <1>4, SomeType DEF EndPoll, Failed, LeftAfterError
  <2>2. LoopTyped'
    BY <2>1, StepTyped DEF AppInv
  <2> QED BY <2>1, <2>2, PodsKept, SharedKept DEF shared
<1> QED BY <1>1, <1>2, <1>3, <1>4 DEF ReplayStep

(* A pod starts, with the CA report as it is, completes, or is removed.    *)
LEMMA PodStepKeeps ==
    ASSUME AppInv, NEW k \in Kinds, NEW c \in Clusters,
           RunPod(k, c) \/ CompletePod(k, c) \/ RemovePod(k, c)
    PROVE  AppInv'
<1> DEFINE p == pod[k][c]
<1>1. p \in Pods /\ p # Nil /\ p.task \in Tasks(k) /\ PodOf(k, p.task) = c
      /\ UNCHANGED shared /\ UNCHANGED loop
      /\ pod \in [Kinds -> [Clusters -> Pods \cup {Nil}]]
  BY DEF RunPod, CompletePod, RemovePod, AppInv, PodTyped
<1>2. k = "SR" => InputOf(p) /\ ca[p.task] \in Uploads
  BY <1>1 DEF AppInv, InputInv, FilesTyped, Tasks
<1>3. PICK q \in Pods \cup {Nil} :
         /\ pod' = [pod EXCEPT ![k][c] = q]
         /\ q # Nil => /\ q.task = p.task
                       /\ \/ q.input = p.input /\ q.phase # "Running"
                          \/ q.input = IF k = "SR" THEN ca[p.task] ELSE 0
  <2>1. CASE RunPod(k, c)
    <3> DEFINE in == IF k = "SR" THEN ca[p.task] ELSE 0
               q == [p EXCEPT !.phase = "Running", !.input = in]
    <3>1. pod' = [pod EXCEPT ![k][c] = q]
      BY <1>1, <2>1 DEF RunPod
    <3>2. in \in Uploads
      BY <1>2, UploadsAssumption DEF Uploads
    <3> HIDE DEF in
    <3>3. q \in Pods /\ q.task = p.task /\ q.input = in
      BY <1>1, <3>2 DEF Pods, Phases
    <3> HIDE DEF q
    <3> QED BY <3>1, <3>3 DEF in
  <2>2. CASE CompletePod(k, c)
    <3> DEFINE q == [p EXCEPT !.phase = "Completed"]
    <3>1. pod' = [pod EXCEPT ![k][c] = q]
      BY <1>1, <2>2 DEF CompletePod
    <3>2. q \in Pods /\ q.task = p.task /\ q.input = p.input
          /\ q.phase # "Running"
      BY <1>1 DEF Pods, Phases
    <3> QED BY <3>1, <3>2
  <2>3. CASE RemovePod(k, c)
    BY <2>3 DEF RemovePod
  <2> QED BY <2>1, <2>2, <2>3
<1>4. k = "SR" => InputOf(q)
  BY <1>1, <1>2, <1>3 DEF InputOf, Uploads
<1>5. PodTyped' /\ InputInv'
  BY <1>1, <1>3, <1>4, SetPodKeeps DEF AppInv, shared
<1> QED BY <1>1, <1>5, LoopKept, SharedKept

(* An upload of a CA report: its SR report is of an earlier one from then  *)
(* on, and who reads or has read the one before is written down.           *)
LEMMA PutCAReportKeeps ==
    ASSUME AppInv, NEW r \in Reports, PutCAReport(r)
    PROVE  AppInv'
<1>1. /\ ca[r] < MaxUploads
      /\ ca' = [ca EXCEPT ![r] = @ + 1]
      /\ sr' = [sr EXCEPT ![r].younger = FALSE]
      /\ UNCHANGED <<loop, pod, compare, result>>
      /\ replaced' \in {replaced, replaced \cup {r}}
      /\ \/ r \in compare.todo \/ compare.report = r
         \/ /\ pod["SR"][ClusterOf[r]] # Nil
            /\ pod["SR"][ClusterOf[r]].phase = "Running"
            /\ pod["SR"][ClusterOf[r]].task = r
         => r \in replaced'
  BY DEF PutCAReport
<1>2. /\ ca \in [Reports -> Uploads]
      /\ sr \in [Reports -> [of : Uploads, younger : BOOLEAN]]
      /\ \A x \in Reports : sr[x].of <= ca[x]
      /\ ca[r] \in Nat
  BY DEF AppInv, FilesTyped, Uploads
<1>3. /\ ca'[r] = ca[r] + 1 /\ ca' \in [Reports -> Uploads]
      /\ \A x \in Reports \ {r} : ca'[x] = ca[x] /\ sr'[x] = sr[x]
      /\ sr'[r].of = sr[r].of /\ sr'[r].younger = FALSE
      /\ sr' \in [Reports -> [of : Uploads, younger : BOOLEAN]]
  <2>1. /\ ca'[r] = ca[r] + 1 /\ ca' \in [Reports -> Uploads]
        /\ \A x \in Reports \ {r} : ca'[x] = ca[x]
    BY <1>1, <1>2, UploadsAssumption DEF Uploads
  <2> DEFINE new == [sr[r] EXCEPT !.younger = FALSE]
  <2>2. sr[r] \in [of : Uploads, younger : BOOLEAN]
    BY <1>2
  <2>3. sr' = [sr EXCEPT ![r] = new]
    BY <1>1
  <2>4. new \in [of : Uploads, younger : BOOLEAN]
    BY <2>2
  <2>5. new.of = sr[r].of /\ new.younger = FALSE
    BY <2>2
  <2> HIDE DEF new
  <2>6. /\ sr' \in [Reports -> [of : Uploads, younger : BOOLEAN]]
        /\ sr'[r] = new
        /\ \A x \in Reports \ {r} : sr'[x] = sr[x]
    BY <1>2, <2>3, <2>4
  <2> QED BY <2>1, <2>5, <2>6
<1>4. LoopTyped' /\ PodTyped'
  BY <1>1 DEF AppInv, LoopTyped, PodTyped
<1>5. FilesTyped'
  <2>1. \A x \in Reports : sr'[x].of <= ca'[x]
    BY <1>2, <1>3 DEF Uploads
  <2> QED BY <1>1, <1>3, <2>1 DEF AppInv, FilesTyped
<1>6. InputInv'
  <2> SUFFICES ASSUME NEW c \in Clusters, pod["SR"][c] # Nil
               PROVE  InputOf(pod["SR"][c])'
    BY <1>1 DEF InputInv, InputOf
  <2> DEFINE p == pod["SR"][c]
  <2>1. p \in Pods /\ p.task \in Reports /\ ClusterOf[p.task] = c
    BY DEF AppInv, PodTyped, Kinds, Tasks, PodOf
  <2>2. p.input \in Nat /\ p.input <= ca[p.task] /\ ca[p.task] \in Nat
    BY <1>2, <2>1 DEF AppInv, InputInv, InputOf, Pods, Uploads
  <2>3. p.input <= ca'[p.task]
    BY <1>2, <1>3, <2>1, <2>2
  <2>4. p.phase = "Running" => p.input = ca'[p.task] \/ p.task \in replaced'
    BY <1>1, <1>3, <2>1 DEF AppInv, InputInv, InputOf
  <2> QED BY <1>1, <2>3, <2>4 DEF InputOf
<1>7. PairInv'
  BY <1>1, <1>3 DEF AppInv, PairInv, PairOf
<1>8. PairsMatch'
  BY <1>1 DEF AppInv, PairsMatch
<1> QED BY <1>4, <1>5, <1>6, <1>7, <1>8 DEF AppInv

LEMMA PutSRReportKeeps ==
    ASSUME AppInv, NEW c \in Clusters, PutSRReport(c)
    PROVE  AppInv'
<1> DEFINE p == pod["SR"][c]
<1>1. /\ p # Nil /\ p.phase = "Running"
      /\ sr' = [sr EXCEPT ![p.task] = [of |-> p.input, younger |-> TRUE]]
      /\ UNCHANGED <<loop, pod, ca, compare, result, replaced>>
  BY DEF PutSRReport
<1>2. /\ p \in Pods /\ p.task \in Reports /\ p.input \in Uploads
      /\ p.input <= ca[p.task]
      /\ p.input = ca[p.task] \/ p.task \in replaced
  BY <1>1 DEF AppInv, PodTyped, Kinds, Tasks, Pods, InputInv, InputOf
<1> HIDE DEF p
<1>3. /\ sr' \in [Reports -> [of : Uploads, younger : BOOLEAN]]
      /\ sr'[p.task].of = p.input
      /\ \A x \in Reports \ {p.task} : sr'[x] = sr[x]
  BY <1>1, <1>2 DEF AppInv, FilesTyped
<1>4. LoopTyped' /\ PodTyped' /\ InputInv'
  BY <1>1, LoopKept, PodsKept
<1>5. FilesTyped'
  BY <1>1, <1>2, <1>3 DEF AppInv, FilesTyped
<1>6. PairInv'
  BY <1>1, <1>2, <1>3 DEF AppInv, PairInv, PairOf
<1>7. PairsMatch'
  BY <1>1 DEF AppInv, PairsMatch
<1> QED BY <1>4, <1>5, <1>6, <1>7 DEF AppInv

(* The comparison loop lists only pairs with a younger SR report.          *)
LEMMA CompareStepKeeps == ASSUME AppInv, CompareStep PROVE AppInv'
<1>1. UNCHANGED <<loop, pod, ca, sr, replaced>>
  BY DEF CompareStep, ListPairs, ReadCAReport, Compare, CompareFails
<1>2. LoopTyped' /\ PodTyped' /\ InputInv'
  BY <1>1, LoopKept, PodsKept
<1>3. /\ ca \in [Reports -> Uploads]
      /\ sr \in [Reports -> [of : Uploads, younger : BOOLEAN]]
      /\ compare \in [todo : SUBSET Reports, report : Reports \cup {Nil},
                      of : Uploads]
      /\ result \in [Reports -> [ca : Uploads, sr : Uploads]]
      /\ 0 \in Uploads
  BY UploadsAssumption DEF AppInv, FilesTyped, Uploads
<1>4. ASSUME NEW new \in [todo : SUBSET Reports, report : Reports \cup {Nil},
                          of : Uploads],
             compare' = new,
             result' \in [Reports -> [ca : Uploads, sr : Uploads]]
      PROVE  FilesTyped'
  BY <1>1, <1>4 DEF AppInv, FilesTyped
<1>5. CASE ListPairs
  <2>1. PICK all \in SUBSET Reports :
           /\ compare' = [compare EXCEPT !.todo = {r \in all : IsPair(r)}]
           /\ result' = result
    BY <1>5 DEF ListPairs
  <2>2. /\ compare' \in [todo : SUBSET Reports, report : Reports \cup {Nil},
                         of : Uploads]
        /\ \A r \in compare'.todo : sr[r].younger
        /\ compare'.report = compare.report /\ compare'.of = compare.of
    BY <1>3, <2>1 DEF IsPair
  <2>3. PairInv' /\ PairsMatch'
    BY <1>1, <2>1, <2>2 DEF AppInv, PairInv, PairOf, PairsMatch
  <2> QED BY <1>2, <1>3, <1>4, <2>1, <2>2, <2>3 DEF AppInv
<1>6. CASE ReadCAReport
  <2>1. PICK r \in compare.todo :
           /\ compare' = [todo |-> compare.todo \ {r}, report |-> r,
                          of |-> ca[r]]
           /\ result' = result
    BY <1>6 DEF ReadCAReport
  <2>2. /\ compare' \in [todo : SUBSET Reports, report : Reports \cup {Nil},
                         of : Uploads]
        /\ compare'.todo \subseteq compare.todo
        /\ compare'.report = r /\ compare'.of = ca[r]
        /\ r \in Reports
    BY <1>3, <2>1
  <2>3. PairInv' /\ PairsMatch'
    BY <1>1, <2>1, <2>2 DEF AppInv, PairInv, PairOf, PairsMatch
  <2> QED BY <1>2, <1>3, <1>4, <2>1, <2>2, <2>3 DEF AppInv
<1>7. CASE Compare \/ CompareFails
  <2> DEFINE r == compare.report
  <2>1. /\ r # Nil
        /\ compare' = [compare EXCEPT !.report = Nil, !.of = 0]
        /\ \/ result' = [result EXCEPT ![r] = [ca |-> compare.of,
                                               sr |-> sr[r].of]]
           \/ result' = result
    BY <1>7 DEF Compare, CompareFails
  <2>2. /\ r \in Reports
        /\ compare' \in [todo : SUBSET Reports, report : Reports \cup {Nil},
                         of : Uploads]
        /\ compare'.todo = compare.todo /\ compare'.report = Nil
        /\ compare.of \in Uploads /\ sr[r].of \in Uploads
    BY <1>3, <2>1
  <2> HIDE DEF r
  <2>3. /\ result' \in [Reports -> [ca : Uploads, sr : Uploads]]
        /\ \A x \in Reports \ {r} : result'[x] = result[x]
        /\ result'[r] # result[r] =>
              result'[r].ca = compare.of /\ result'[r].sr = sr[r].of
    BY <1>3, <2>1, <2>2
  <2>4. PairInv'
    BY <1>1, <2>2, NilAssumption DEF AppInv, PairInv, PairOf
  <2>5. r \notin replaced => compare.of = sr[r].of
    BY <2>2 DEF AppInv, PairInv, PairOf, r
  <2>6. PairsMatch'
    BY <1>1, <2>3, <2>5 DEF AppInv, PairsMatch
  <2> QED BY <1>2, <1>4, <2>2, <2>3, <2>4, <2>6 DEF AppInv
<1> QED BY <1>5, <1>6, <1>7 DEF CompareStep

LEMMA AppInitInv == AppInit => AppInv
<1> SUFFICES ASSUME AppInit PROVE AppInv
  OBVIOUS
<1>1. LoopTyped
  BY DEF AppInit, LoopTyped, Kinds
<1>2. PodTyped /\ InputInv
  BY DEF AppInit, PodTyped, InputInv, InputOf, Kinds
<1>3. FilesTyped
  BY UploadsAssumption DEF AppInit, FilesTyped, Uploads
<1>4. PairInv /\ PairsMatch
  BY NilAssumption DEF AppInit, PairInv, PairOf, PairsMatch
<1> QED BY <1>1, <1>2, <1>3, <1>4 DEF AppInv

LEMMA AppNextInv == AppInv /\ [AppNext]_appVars => AppInv'
<1> SUFFICES ASSUME AppInv, [AppNext]_appVars PROVE AppInv'
  OBVIOUS
<1>1. CASE UNCHANGED appVars
  BY <1>1, LoopKept, PodsKept, SharedKept DEF appVars, shared
<1>2. CASE AppNext
  BY <1>2, ReplayStepKeeps, PodStepKeeps, PutCAReportKeeps, PutSRReportKeeps,
     CompareStepKeeps DEF AppNext
<1> QED BY <1>1, <1>2

LEMMA AppInvariance == AppSpec => []AppInv
BY AppInitInv, AppNextInv, PTL DEF AppSpec

(* The variables of the app keep their types.                              *)
THEOREM AppTypeCorrect == AppSpec => []AppTypeOK
<1>1. AppInv => AppTypeOK
  BY DEF AppInv, AppTypeOK, LoopTyped, PodTyped, FilesTyped
<1> QED BY <1>1, AppInvariance, PTL

(* A comparison is about a CA report and the SR replay of that very report,*)
(* unless it was uploaded anew meanwhile (apputil.go:599), whatever fails, *)
(* hangs or is deleted of the replays.                                     *)
THEOREM ComparedPairsMatch == AppSpec => []PairsMatch
<1>1. AppInv => PairsMatch
  BY DEF AppInv
<1> QED BY <1>1, AppInvariance, PTL

-----------------------------------------------------------------------------
(* The replays.                                                            *)

HashOfContent(c) == c.hash \in Configs => c.hash = c.content

(* The iteration has its snapshot; the wait for the pause is over; the VCA *)
(* has taken over the config of the run mode.                              *)
Prepared == {"clear", "waitPause", "delta", "deploy", "waitRun", "condition",
             "check", "doneSignal", "scenario"}
AfterPause == Prepared \ {"clear", "waitPause"}
Observing == {"condition", "check", "doneSignal", "scenario"}

ControlInv ==
    /\ pc \in {"next", "clear", "waitPause", "waitRun", "condition", "check",
               "doneSignal"} => mode = "CA"
    /\ pc \in {"sync", "post"} => mode = "SR"
    /\ pc \in Prepared \cup {"post"} => count \in Iterations /\ snap # None
    /\ pc \in {"start", "sync"}
       => reports = {} /\ last = None /\ vca = None /\ count = 0
    /\ mode = "SR" => file = None /\ vca = None /\ reports = {}
    /\ file # None => pc \in {"waitPause", "waitRun"}
    /\ vca # None => count \in Iterations

FilesInv ==
    /\ file # None => /\ signal = None
                      /\ file.content = snap.content
                      /\ file.hash = snap.hash
    /\ mode = "CA" /\ pc \in {"clear", "delta", "deploy"} => signal = None
    /\ pc \in {"waitPause", "waitRun"} /\ signal = "success"
       => vca # None /\ vca.content = snap.content

HashInv ==
    /\ snap # None => HashOfContent(snap) /\ snap.hash \in Configs \cup {count}
    /\ pc = "clear" => snap.hash \in Configs
    /\ pc = "waitPause" /\ reports # {} => snap.hash = count
    /\ last # None => /\ HashOfContent(last)
                      /\ last.hash \in Configs \cup 1..count
                      /\ pc = "clear" => last.hash # count
    /\ vca # None =>
          /\ HashOfContent(vca)
          /\ vca.hash \in Configs \cup 1..count
          /\ vca.hash = count => vca.content = snap.content
          /\ pc = "clear" \/ (pc = "waitPause" /\ signal # "success")
             => vca.hash # count

NodesInv ==
    /\ vca # None => nodes = vca.content
    /\ pc \in {"delta", "deploy"} => nodes = snap.content \/ skipped
    /\ mode = "SR" /\ pc \in {"delta", "deploy", "post", "scenario"}
       => nodes = snap.content
    /\ mode = "CA" /\ pc \in {"next", "clear"} /\ ~skipped /\ last # None
       => vca # None /\ vca.content = last.content
    /\ mode = "CA" /\ pc \in Observing
       => last = snap /\ vca # None /\ vca.content = snap.content /\ ~skipped

PodsInv ==
    /\ pc = "deploy" => pods \cup todo = snap.pods /\ pods \cap todo = {}
    /\ pc \in Observing \cup {"waitRun", "post"} => pods = snap.pods

ScaledInv ==
    /\ scaled \in SUBSET (1..count)
    /\ pc \in Prepared => \A r \in reports : r.number < count
    /\ pc \in AfterPause \/ (pc = "waitPause" /\ signal = "success")
       => reports = {} \/ scaled \subseteq {count}

(* A report has nodes of its own iteration and earlier ones only.          *)
UpOfItsPast ==
    \A r \in reports : r.number <= count /\ r.up \in SUBSET (1..r.number)

Reported == UpOfItsPast /\ NoNodeReportedTwice /\ ScenarioOfItsSnapshot

RunInv ==
    ControlInv /\ FilesInv /\ HashInv /\ NodesInv /\ PodsInv /\ ScaledInv

IInv == TypeOK /\ Reported /\ (pc # "done" => RunInv)

USE EventsAssumption, HashAssumption, NoneAssumption
USE DEF Prepared, AfterPause, Observing, Iterations

LEMMA ReportsKept ==
    ASSUME IInv, UNCHANGED reports, count' \in {count, count + 1}
    PROVE  Reported'
<1>1. count \in Nat /\ \A r \in reports : r.number \in Nat
  BY DEF IInv, TypeOK, Report
<1> QED BY <1>1 DEF IInv, Reported, UpOfItsPast, NoNodeReportedTwice,
                    ScenarioOfItsSnapshot

(* What the conjuncts say of a state in which the run goes on.             *)
LEMMA Expand ==
    ASSUME IInv, pc # "done"
    PROVE  /\ TypeOK /\ ControlInv /\ FilesInv /\ HashInv /\ NodesInv
           /\ PodsInv /\ ScaledInv
BY DEF IInv, RunInv

(* What is written to the config file.                                     *)
LEMMA WrittenConfig ==
    ASSUME NEW s \in Snapshot, NEW h \in Configs \cup Iterations,
           NEW c, \/ c = [content |-> s.content, hash |-> h, run |-> TRUE]
                  \/ c = [content |-> s.content, hash |-> h, run |-> FALSE]
    PROVE  c \in Config /\ c # None /\ c.content = s.content /\ c.hash = h
<1>1. s.content \in Configs
  BY DEF Snapshot
<1>2. /\ [content |-> s.content, hash |-> h, run |-> TRUE] \in Config
      /\ [content |-> s.content, hash |-> h, run |-> FALSE] \in Config
  BY <1>1 DEF Config
<1>3. c \in Config /\ c # None
  BY <1>2
<1> QED BY <1>3

(* An error.                                                               *)
LEMMA FailKeeps == ASSUME IInv, NEW from, Fail(from) PROVE IInv'
<1>1. TypeOK'
  BY DEF IInv, TypeOK, Locations, Fail, Goto, files, cluster, history
<1>2. Reported' /\ pc' = "done"
  BY ReportsKept DEF Fail, Goto
<1> QED BY <1>1, <1>2 DEF IInv

-----------------------------------------------------------------------------
(* The iteration of ReplayCA.                                              *)

LEMMA StartKeeps == ASSUME IInv, Start PROVE IInv'
<1>1. CASE Fail("start")
  BY <1>1, FailKeeps
<1>2. CASE ~Fail("start")
  <2> DEFINE main ==
        /\ Goto("start", IF mode = "CA" THEN "next" ELSE "sync")
        /\ nodes' = None /\ scaled' = {}
        /\ pods' = {} /\ placed' = {} /\ pending' = {}
        /\ UNCHANGED <<mode, count, snap, last, todo, occurred, doneCount,
                       reports, files, vca, history>>
  <2>1. main /\ pc = "start"
    BY <1>2 DEF Start, Goto
  <2> USE Expand, <2>1
  <2>2. TypeOK'
    BY DEF TypeOK, Locations, Goto, files, history
  <2>3. Reported'
    BY ReportsKept
  <2>4. ControlInv'
    BY DEF TypeOK, ControlInv, Goto, files
  <2>5. FilesInv'
    BY DEF ControlInv, FilesInv, Goto, files
  <2>6. HashInv'
    BY DEF ControlInv, HashInv, HashOfContent, Goto, files
  <2>7. NodesInv' /\ PodsInv' /\ ScaledInv'
    BY DEF ControlInv, NodesInv, PodsInv, ScaledInv, Goto, files, history
  <2> QED BY <2>2, <2>3, <2>4, <2>5, <2>6, <2>7 DEF IInv, RunInv
<1> QED BY <1>1, <1>2

LEMMA LoadSnapshotKeeps == ASSUME IInv, LoadSnapshot PROVE IInv'
<1>1. PICK c \in Configs, ps \in SUBSET PodNames, bs \in SUBSET PodNames :
         /\ snap' = [content |-> c, hash |-> c, pods |-> ps, bound |-> bs]
         /\ \/ Goto("next", "clear") /\ UNCHANGED last
            \/ /\ MayHashAlike(snap', last)
               /\ pc = "next" /\ UNCHANGED pc
               /\ last' = snap'
  BY DEF LoadSnapshot
<1>2. /\ snap' \in Snapshot /\ snap' # None
      /\ snap'.hash = c /\ snap'.content = c
  BY <1>1 DEF Snapshot
<1>3. /\ pc = "next" /\ pc' \in {"next", "clear"}
      /\ count' = count + 1 /\ count' \in Iterations /\ signal' = None
      /\ last' \in {last, snap'}
      /\ pc' = "clear" => last' = last
      /\ last' = snap' \/ last' = last
      /\ last' # last => last # None /\ last.content = c
  BY <1>1, <1>2 DEF LoadSnapshot, Goto, MayHashAlike, IInv, TypeOK
<1> USE Expand, <1>3
<1>4. TypeOK'
  <2>1. pc' \in Locations /\ recorded' \in SUBSET PodNames
    BY DEF Locations, LoadSnapshot
  <2> QED BY <1>2, <2>1 DEF TypeOK, LoadSnapshot, cluster
<1>5. Reported'
  BY ReportsKept DEF LoadSnapshot
<1>6. ControlInv'
  BY <1>2 DEF ControlInv, LoadSnapshot
<1>7. FilesInv'
  BY DEF ControlInv, FilesInv, LoadSnapshot
<1>8. HashInv'
  BY <1>2 DEF ControlInv, HashInv, HashOfContent, TypeOK, LoadSnapshot
<1>9. NodesInv' /\ PodsInv'
  BY <1>2 DEF NodesInv, PodsInv, ControlInv, LoadSnapshot, cluster
<1>10. ScaledInv'
  <2>1. \A r \in reports : r.number \in Nat
    BY DEF TypeOK, Report
  <2> QED BY <2>1 DEF ScaledInv, TypeOK, IInv, Reported, UpOfItsPast,
                      LoadSnapshot, cluster
<1> QED BY <1>4, <1>5, <1>6, <1>7, <1>8, <1>9, <1>10 DEF IInv, RunInv

(* Whatever the hash to be written is, one that is written is new to the   *)
(* VCA when there is a report.                                             *)
LEMMA ClearPendingKeeps == ASSUME IInv, ClearPending PROVE IInv'
<1>1. CASE Fail("clear")
  BY <1>1, FailKeeps
<1>2. CASE ~Fail("clear")
  <2> DEFINE hash == HashToWrite(pending)
  <2>1. /\ pc = "clear"
        /\ pods' = pods \ pending
        /\ pending' = {}
        /\ snap' = [snap EXCEPT !.hash = hash]
        /\ IF last = None \/ last.hash # hash
           THEN Goto("clear", "waitPause") /\ Write(hash, FALSE)
           ELSE Goto("clear", "delta") /\ UNCHANGED file
        /\ UNCHANGED <<mode, count, last, todo, occurred, doneCount, reports,
                       signal, done, vca, nodes, scaled, placed, history>>
    BY <1>2 DEF ClearPending
  <2> USE Expand
  <2>2. /\ hash \in {snap.hash, count}
        /\ reports # {} => hash = count
        /\ snap \in Snapshot /\ snap # None /\ count \in Iterations
        /\ mode = "CA" /\ file = None /\ signal = None
        /\ snap.hash \in Configs
    BY <2>1 DEF HashToWrite, ControlInv, FilesInv, HashInv, TypeOK
  <2>3. /\ snap' \in Snapshot /\ snap' # None
        /\ snap'.hash = hash
        /\ snap'.content = snap.content
    BY <2>1, <2>2 DEF Snapshot
  <2>4. \/ /\ pc' = "waitPause"
           /\ file' = [content |-> snap.content, hash |-> hash, run |-> FALSE]
           /\ file' \in Config /\ file' # None
        \/ /\ pc' = "delta" /\ file' = None
           /\ last # None /\ last.hash = hash /\ hash # count
    <3>1. hash \in Configs \cup Iterations
      BY <2>2
    <3>2. last # None => last.hash # count
      BY <2>1 DEF HashInv
    <3> HIDE DEF hash
    <3>3. CASE last = None \/ last.hash # hash
      <4>1. /\ pc' = "waitPause"
            /\ file' = [content |-> snap.content, hash |-> hash, run |-> FALSE]
        BY <2>1, <3>3 DEF Goto, Write
      <4>2. file' \in Config /\ file' # None
        BY <2>2, <3>1, <4>1, WrittenConfig
      <4> QED BY <4>1, <4>2
    <3>4. CASE ~(last = None \/ last.hash # hash)
      BY <2>1, <2>2, <3>2, <3>4 DEF Goto
    <3> QED BY <3>3, <3>4
  <2> HIDE DEF hash
  <2>5. TypeOK'
    <3>1. pc' \in Locations
      BY <2>4 DEF Locations
    <3>2. /\ file' \in Config \cup {None}
          /\ pods' \in SUBSET PodNames /\ placed' \in SUBSET pods'
          /\ pending' \in SUBSET (pods' \ placed')
      BY <2>1, <2>4 DEF TypeOK
    <3> QED BY <2>1, <2>3, <3>1, <3>2 DEF TypeOK, history
  <2>6. Reported'
    BY <2>1, ReportsKept
  <2>7. ControlInv' /\ FilesInv'
    BY <2>1, <2>2, <2>3, <2>4 DEF ControlInv, FilesInv
  <2>8. HashInv'
    BY <2>1, <2>2, <2>3, <2>4 DEF HashInv, HashOfContent
  <2>9. NodesInv'
    BY <2>1, <2>2, <2>3, <2>4
       DEF NodesInv, HashInv, HashOfContent, history
  <2>10. PodsInv'
    BY <2>4 DEF PodsInv
  <2>11. ScaledInv'
    BY <2>1, <2>2, <2>4 DEF ScaledInv
  <2> QED BY <2>5, <2>6, <2>7, <2>8, <2>9, <2>10, <2>11 DEF IInv, RunInv
<1> QED BY <1>1, <1>2

LEMMA WaitForVirtualCARefreshKeeps ==
    ASSUME IInv, WaitForVirtualCARefresh
    PROVE  IInv'
<1>1. /\ UNCHANGED <<mode, count, snap, todo, occurred, doneCount, reports,
                     file, done, vca, cluster, recorded>>
      /\ \/ pc' = "done" /\ UNCHANGED <<last, signal>>
         \/ /\ pc = "waitPause" /\ pc' = "delta"
            /\ signal = "success" /\ signal' = None
            /\ last' = last /\ skipped' = skipped
         \/ /\ pc = "waitRun" /\ pc' = "condition"
            /\ signal = "success" /\ signal' = None
            /\ last' = snap /\ skipped' = FALSE
      /\ skipped' \in {skipped, FALSE}
      /\ pc # "done"
  BY DEF WaitForVirtualCARefresh, AwaitSignal, Goto
<1> USE Expand, <1>1
<1>2. TypeOK'
  <2>1. pc' \in Locations /\ skipped' \in BOOLEAN
    BY DEF Locations, TypeOK
  <2> QED BY <2>1 DEF TypeOK, cluster
<1>3. Reported'
  BY ReportsKept
<1>4. ASSUME pc' # "done" PROVE RunInv'
  <2> USE <1>4
  <2>1. file = None /\ mode = "CA" /\ snap # None /\ count \in Iterations
        /\ vca # None /\ vca.content = snap.content
    BY DEF ControlInv, FilesInv
  <2>2. ControlInv' /\ FilesInv'
    BY <2>1 DEF ControlInv, FilesInv
  <2>3. HashInv'
    BY <2>1 DEF HashInv, HashOfContent, TypeOK
  <2>4. NodesInv'
    BY <2>1 DEF NodesInv, cluster
  <2>5. PodsInv' /\ ScaledInv'
    BY <2>1 DEF PodsInv, ScaledInv, cluster
  <2> QED BY <2>2, <2>3, <2>4, <2>5 DEF RunInv
<1> QED BY <1>2, <1>3, <1>4 DEF IInv

LEMMA ComputeDeltaWorkKeeps == ASSUME IInv, ComputeDeltaWork PROVE IInv'
<1>1. CASE Fail("delta")
  BY <1>1, FailKeeps
<1>2. CASE ~Fail("delta")
  <2>1. /\ pc = "delta"
        /\ UNCHANGED <<mode, count, snap, last, occurred, doneCount, reports,
                       files, vca, nodes, scaled, recorded>>
        /\ \/ /\ pc' = IF mode = "CA" THEN "next" ELSE "post"
              /\ pods = {} /\ snap.pods = {}
              /\ skipped' = TRUE
              /\ UNCHANGED <<todo, pods, placed, pending>>
           \/ /\ pc' = "deploy"
              /\ todo' = snap.pods
              /\ pods' = {} /\ placed' = {} /\ pending' = {}
              /\ UNCHANGED skipped
    BY <1>2 DEF ComputeDeltaWork, ApplyDeltaWork, Goto
  <2> USE Expand, <2>1
  <2>2. snap \in Snapshot /\ snap # None /\ count \in Iterations
        /\ file = None
    BY DEF ControlInv, TypeOK
  <2>3. TypeOK'
    <3>1. pc' \in Locations /\ skipped' \in BOOLEAN
      BY DEF Locations, TypeOK
    <3>2. snap.pods \in SUBSET PodNames
      BY <2>2 DEF Snapshot
    <3> QED BY <3>1, <3>2 DEF TypeOK, files
  <2>4. Reported'
    BY ReportsKept
  <2>5. ControlInv' /\ FilesInv'
    BY <2>2 DEF ControlInv, FilesInv, TypeOK, files
  <2>6. HashInv'
    BY <2>2 DEF HashInv, HashOfContent, files
  <2>7. NodesInv'
    BY DEF NodesInv, TypeOK
  <2>8. PodsInv' /\ ScaledInv'
    BY DEF PodsInv, ScaledInv, TypeOK
  <2> QED BY <2>3, <2>4, <2>5, <2>6, <2>7, <2>8 DEF IInv, RunInv
<1> QED BY <1>1, <1>2

LEMMA DeployPodKeeps == ASSUME IInv, DeployPod PROVE IInv'
<1>1. CASE Fail("deploy")
  BY <1>1, FailKeeps
<1>2. CASE ~Fail("deploy")
  <2>1. PICK p \in todo :
           /\ todo' = todo \ {p}
           /\ pods' = pods \cup {p}
           /\ placed' \in {placed, placed \cup {p}}
    BY <1>2 DEF DeployPod
  <2>2. /\ pc = "deploy"
        /\ UNCHANGED <<mode, pc, count, snap, last, occurred, doneCount,
                       reports, files, vca, nodes, scaled, pending, history>>
    BY <1>2 DEF DeployPod
  <2> USE Expand, <2>2
  <2>3. p \notin pods
    BY DEF PodsInv
  <2>4. TypeOK'
    <3>1. /\ todo \in SUBSET PodNames /\ pods \in SUBSET PodNames
          /\ placed \in SUBSET pods /\ pending \in SUBSET (pods \ placed)
      BY DEF TypeOK
    <3>2. /\ todo' \in SUBSET PodNames /\ pods' \in SUBSET PodNames
          /\ placed' \in SUBSET pods' /\ pending' \in SUBSET (pods' \ placed')
      BY <2>1, <2>3, <3>1
    <3> QED BY <3>2 DEF TypeOK, files, history
  <2>5. Reported'
    BY ReportsKept
  <2>6. ControlInv' /\ FilesInv' /\ HashInv'
    BY DEF ControlInv, FilesInv, HashInv, files
  <2>7. NodesInv' /\ ScaledInv'
    BY DEF NodesInv, ScaledInv, files, history
  <2>8. PodsInv'
    BY <2>1 DEF PodsInv
  <2> QED BY <2>4, <2>5, <2>6, <2>7, <2>8 DEF IInv, RunInv
<1> QED BY <1>1, <1>2

LEMMA WriteRunConfigKeeps == ASSUME IInv, WriteRunConfig PROVE IInv'
<1>1. /\ pc = "deploy" /\ todo = {}
      /\ UNCHANGED <<mode, count, snap, last, todo, occurred, doneCount,
                     reports, signal, done, vca, cluster, history>>
      /\ \/ /\ mode = "CA" /\ pc' = "waitRun"
            /\ file' = [content |-> snap.content, hash |-> snap.hash,
                        run |-> TRUE]
         \/ mode = "SR" /\ pc' = "post" /\ file' = file
  BY DEF WriteRunConfig, Write, Goto, files
<1> USE Expand, <1>1
<1>2. /\ file = None /\ snap \in Snapshot /\ count \in Iterations
      /\ mode = "CA" => signal = None
  BY DEF ControlInv, FilesInv, TypeOK
<1>3. file' # file =>
         /\ file' \in Config /\ file' # None
         /\ file'.content = snap.content /\ file'.hash = snap.hash
  <2>1. snap.hash \in Configs \cup Iterations
    BY <1>2 DEF Snapshot
  <2>2. CASE file' = [content |-> snap.content, hash |-> snap.hash,
                      run |-> TRUE]
    BY <1>2, <2>1, <2>2, WrittenConfig
  <2> QED BY <2>2
<1>4. TypeOK'
  <2>1. pc' \in Locations /\ file' \in Config \cup {None}
    BY <1>3 DEF Locations, TypeOK
  <2> QED BY <2>1 DEF TypeOK, cluster, history
<1>5. Reported'
  BY ReportsKept
<1>6. ControlInv' /\ FilesInv'
  BY <1>2, <1>3 DEF ControlInv, FilesInv
<1>7. HashInv'
  BY DEF HashInv, HashOfContent
<1>8. NodesInv' /\ PodsInv'
  BY DEF NodesInv, PodsInv, cluster, history
<1>9. ScaledInv'
  BY DEF ScaledInv, cluster
<1> QED BY <1>4, <1>5, <1>6, <1>7, <1>8, <1>9 DEF IInv, RunInv

(* The steps that only look at the pods, the nodes and the done signal.    *)
LEMMA ObservedKeeps ==
    ASSUME IInv, pc \in Observing, pc' \in Observing \cup {"next"},
           pc' = "scenario" => pc # "scenario",
           UNCHANGED <<mode, count, snap, last, todo, reports, file, signal,
                       vca, cluster, history>>,
           mode = "CA",
           TypeOK'
    PROVE  IInv'
<1> USE Expand
<1>1. Reported'
  BY ReportsKept
<1>2. ControlInv' /\ FilesInv'
  BY DEF ControlInv, FilesInv
<1>3. HashInv'
  BY DEF HashInv, HashOfContent
<1>4. NodesInv' /\ PodsInv' /\ ScaledInv'
  BY DEF NodesInv, PodsInv, ScaledInv, cluster, history
<1> QED BY <1>1, <1>2, <1>3, <1>4 DEF IInv, RunInv

LEMMA AwaitConditionsKeeps == ASSUME IInv, AwaitConditions PROVE IInv'
<1> USE Expand
<1>1. /\ pc = "condition" /\ pc' \in {"check", "next"} /\ mode = "CA"
      /\ UNCHANGED <<mode, count, snap, last, todo, reports, file, signal, vca,
                     cluster, history>>
      /\ done' \in {done, FALSE} /\ doneCount' \in {doneCount, 0}
      /\ occurred' \in {occurred, FALSE}
  BY DEF AwaitConditions, Goto, ControlInv
<1>2. TypeOK'
  <2>1. pc' \in Locations /\ doneCount' \in 0..1
    BY <1>1 DEF Locations, TypeOK
  <2>2. done' \in BOOLEAN /\ occurred' \in BOOLEAN
    BY <1>1 DEF TypeOK
  <2> QED BY <1>1, <2>1, <2>2 DEF TypeOK, cluster, history
<1> QED BY <1>1, <1>2, ObservedKeeps

LEMMA CheckScalingKeeps == ASSUME IInv, CheckScaling PROVE IInv'
<1> USE Expand
<1>1. /\ pc = "check" /\ pc' \in {"doneSignal", "scenario", "next"}
      /\ mode = "CA" /\ occurred' \in BOOLEAN
      /\ UNCHANGED <<mode, count, snap, last, todo, doneCount, reports, files,
                     vca, cluster, history>>
  BY DEF CheckScaling, Goto, ControlInv
<1>2. TypeOK'
  BY <1>1 DEF TypeOK, Locations, files, cluster, history
<1> QED BY <1>1, <1>2, ObservedKeeps DEF files

LEMMA ReadDoneSignalKeeps == ASSUME IInv, ReadDoneSignal PROVE IInv'
<1> USE Expand
<1>1. /\ pc = "doneSignal" /\ pc' \in {"check", "scenario", "next"}
      /\ mode = "CA"
      /\ done' \in {done, FALSE} /\ doneCount' \in {doneCount, 1}
      /\ UNCHANGED <<mode, count, snap, last, todo, occurred, reports, file,
                     signal, vca, cluster, history>>
  BY DEF ReadDoneSignal, Goto, ControlInv
<1>2. TypeOK'
  <2>1. pc' \in Locations /\ doneCount' \in 0..1
    BY <1>1 DEF Locations, TypeOK
  <2>2. done' \in BOOLEAN /\ occurred' \in BOOLEAN
    BY <1>1 DEF TypeOK
  <2> QED BY <1>1, <2>1, <2>2 DEF TypeOK, cluster, history
<1> QED BY <1>1, <1>2, ObservedKeeps

(* The new report has nodes of this iteration only if there are others, and*)
(* those have none of it.                                                  *)
LEMMA CreateScenarioKeeps == ASSUME IInv, CreateScenario PROVE IInv'
<1>1. CASE Fail("scenario")
  BY <1>1, FailKeeps
<1>2. CASE ~Fail("scenario")
  <2>1. /\ pc = "scenario"
        /\ pc' \in {IF mode = "CA" THEN "next" ELSE "done", "done"}
        /\ reports' \in {reports, reports \cup {Scenario}}
        /\ UNCHANGED <<mode, count, snap, last, todo, occurred, doneCount,
                       files, vca, cluster, history>>
    BY <1>2 DEF CreateScenario
  <2> USE Expand
  <2>2. /\ count \in Iterations /\ count \in Nat /\ snap \in Snapshot
        /\ nodes = snap.content /\ pods = snap.pods
        /\ pods \in SUBSET PodNames
        /\ scaled \in SUBSET Iterations /\ scaled \in SUBSET (1..count)
        /\ reports \in SUBSET Report
        /\ reports = {} \/ scaled \subseteq {count}
        /\ \A r \in reports : r.number < count /\ r.number \in Nat
    BY <2>1 DEF TypeOK, ControlInv, NodesInv, PodsInv, ScaledInv, Report
  <2>3. /\ Scenario \in Report
        /\ Scenario.number = count /\ Scenario.up = scaled
        /\ Scenario.of = snap /\ Scenario.under = nodes
        /\ Scenario.pods = pods
    BY <2>2 DEF Scenario, Report, Snapshot
  <2> HIDE DEF Scenario
  <2>4. TypeOK'
    BY <2>1, <2>2, <2>3 DEF TypeOK, Locations, files, cluster, history
  <2>5. UpOfItsPast'
    BY <2>1, <2>2, <2>3 DEF IInv, Reported, UpOfItsPast
  <2>6. NoNodeReportedTwice'
    <3>1. \A r \in reports : r.up \cap scaled = {}
      BY <2>2 DEF IInv, Reported, UpOfItsPast
    <3> QED BY <2>1, <2>3, <3>1 DEF IInv, Reported, NoNodeReportedTwice
  <2>7. ScenarioOfItsSnapshot'
    BY <2>1, <2>2, <2>3 DEF IInv, Reported, ScenarioOfItsSnapshot
  <2>8. ASSUME pc' # "done" PROVE RunInv'
    <3>1. pc' = "next" /\ mode = "CA" /\ mode' = "CA"
      BY <2>1, <2>8
    <3>2. ControlInv' /\ FilesInv'
      BY <2>1, <3>1 DEF ControlInv, FilesInv, files
    <3>3. HashInv'
      BY <2>1, <3>1 DEF HashInv, HashOfContent, files
    <3>4. NodesInv' /\ PodsInv' /\ ScaledInv'
      BY <2>1, <3>1 DEF NodesInv, PodsInv, ScaledInv, cluster, history
    <3> QED BY <3>2, <3>3, <3>4 DEF RunInv
  <2> QED BY <2>4, <2>5, <2>6, <2>7, <2>8 DEF IInv, Reported
<1> QED BY <1>1, <1>2

-----------------------------------------------------------------------------
(* ReplayScalingRecommender.                                               *)

LEMMA SyncNodesKeeps == ASSUME IInv, SyncNodes PROVE IInv'
<1>1. CASE Fail("sync")
  BY <1>1, FailKeeps
<1>2. CASE ~Fail("sync")
  <2>1. PICK c \in Configs, ps \in SUBSET PodNames, bs \in SUBSET PodNames :
           /\ snap' = [content |-> c, hash |-> c, pods |-> ps, bound |-> bs]
           /\ recorded' = ps
           /\ nodes' = c
    BY <1>2 DEF SyncNodes
  <2>2. /\ pc = "sync" /\ pc' = "delta" /\ count' = 1
        /\ UNCHANGED <<mode, last, todo, occurred, doneCount, reports, files,
                       vca, scaled, pods, placed, pending, skipped>>
    BY <1>2 DEF SyncNodes, Goto
  <2> USE Expand
  <2>3. mode = "SR" /\ reports = {} /\ file = None /\ vca = None
    BY <2>2 DEF ControlInv
  <2>4. /\ snap' \in Snapshot /\ snap' # None
        /\ snap'.hash = c /\ snap'.content = c
    BY <2>1 DEF Snapshot
  <2>5. count = 0 /\ last = None
    BY <2>2 DEF ControlInv
  <2>6. scaled = {}
    BY <2>2, <2>5 DEF ScaledInv
  <2>7. TypeOK'
    BY <2>1, <2>2, <2>4 DEF TypeOK, Locations, files
  <2>8. Reported'
    BY <2>2, <2>5, ReportsKept
  <2>9. ControlInv' /\ FilesInv'
    BY <2>2, <2>3, <2>4 DEF ControlInv, FilesInv, files
  <2>10. HashInv'
    BY <2>2, <2>3, <2>4, <2>5 DEF HashInv, HashOfContent
  <2>11. NodesInv' /\ PodsInv' /\ ScaledInv'
    BY <2>1, <2>2, <2>3, <2>4, <2>5, <2>6
       DEF NodesInv, PodsInv, ScaledInv
  <2> QED BY <2>7, <2>8, <2>9, <2>10, <2>11 DEF IInv, RunInv
<1> QED BY <1>1, <1>2

LEMMA PostClusterSnapshotKeeps == ASSUME IInv, PostClusterSnapshot PROVE IInv'
<1>1. CASE Fail("post")
  BY <1>1, FailKeeps
<1>2. CASE ~Fail("post")
  <2>1. /\ pc = "post" /\ pc' = "scenario"
        /\ last' = snap
        /\ scaled' \in {scaled, scaled \cup {count}}
        /\ UNCHANGED <<mode, count, snap, todo, occurred, doneCount, reports,
                       files, vca, nodes, pods, placed, pending, history>>
    BY <1>2 DEF PostClusterSnapshot, Goto
  <2> USE Expand
  <2>2. /\ mode = "SR" /\ reports = {} /\ file = None /\ vca = None
        /\ count \in Iterations /\ snap # None /\ count \in 1..count
    BY <2>1 DEF ControlInv
  <2>3. TypeOK'
    BY <2>1, <2>2 DEF TypeOK, Locations, files, history
  <2>4. Reported'
    BY <2>1, ReportsKept
  <2>5. ControlInv' /\ FilesInv'
    BY <2>1, <2>2 DEF ControlInv, FilesInv, files
  <2>6. HashInv'
    BY <2>1, <2>2 DEF HashInv, HashOfContent
  <2>7. NodesInv' /\ PodsInv'
    BY <2>1, <2>2 DEF NodesInv, PodsInv
  <2>8. ScaledInv'
    BY <2>1, <2>2 DEF ScaledInv
  <2> QED BY <2>3, <2>4, <2>5, <2>6, <2>7, <2>8 DEF IInv, RunInv
<1> QED BY <1>1, <1>2

-----------------------------------------------------------------------------
(* The other programs.                                                     *)

(* After the end of a run they do as they like.                            *)
LEMMA AfterTheEnd ==
    ASSUME IInv, pc = "done", UNCHANGED <<pc, count, reports>>, TypeOK'
    PROVE  IInv'
<1>1. Reported'
  BY ReportsKept
<1> QED BY <1>1 DEF IInv

LEMMA VCARefreshKeeps == ASSUME IInv, VCARefresh PROVE IInv'
<1>1. /\ file # None /\ file' = None
      /\ UNCHANGED <<mode, replayer, done, pods, placed, pending, history>>
      /\ \/ /\ signal' = "success"
            /\ vca' = file
            /\ \/ /\ vca # None /\ vca.hash = file.hash
                  /\ UNCHANGED <<nodes, scaled>>
               \/ nodes' = file.content /\ scaled' = {}
         \/ signal' = "error" /\ UNCHANGED <<vca, nodes, scaled>>
      /\ signal' = "success" /\ ~(vca # None /\ vca.hash = file.hash)
         => scaled' = {}
  BY DEF VCARefresh
<1>2. file \in Config /\ file.content \in Configs
  BY <1>1 DEF IInv, TypeOK, Config
<1>3. TypeOK'
  BY <1>1, <1>2 DEF IInv, TypeOK, replayer, history
<1>4. CASE pc = "done"
  BY <1>1, <1>3, <1>4, AfterTheEnd DEF replayer
<1>5. CASE pc # "done"
  <2> USE <1>5, Expand
  <2>1. /\ pc \in {"waitPause", "waitRun"} /\ mode = "CA"
        /\ signal = None
        /\ file.content = snap.content /\ file.hash = snap.hash
        /\ snap # None /\ count \in Iterations
    BY <1>1 DEF ControlInv, FilesInv
  <2>2. vca # None /\ vca.hash = file.hash => vca.content = file.content
    BY <2>1 DEF HashInv, HashOfContent
  <2>3. signal' = "success" =>
           /\ vca' # None /\ vca'.content = snap.content
           /\ vca'.hash = snap.hash
           /\ nodes' = snap.content
    BY <1>1, <2>1, <2>2 DEF NodesInv
  <2>4. Reported'
    BY <1>1, ReportsKept DEF replayer
  <2>5. ControlInv' /\ FilesInv'
    BY <1>1, <2>1, <2>3 DEF ControlInv, FilesInv, replayer
  <2>6. HashInv'
    <3>1. snap.hash \in Configs \cup 1..count /\ HashOfContent(snap)
      BY <2>1 DEF HashInv
    <3>2. signal' \in {"success", "error"}
      BY <1>1
    <3> QED BY <1>1, <2>1, <2>3, <3>1, <3>2
            DEF HashInv, HashOfContent, replayer
  <2>7. NodesInv'
    BY <1>1, <2>1, <2>3 DEF NodesInv, replayer, history
  <2>8. PodsInv'
    BY <1>1 DEF PodsInv, replayer
  <2>9. ScaledInv'
    <3>1. pc = "waitPause" /\ signal' = "success" /\ reports # {}
          => scaled' = {}
      BY <1>1, <2>1 DEF HashInv
    <3>2. scaled' \in {scaled, {}}
      BY <1>1
    <3> QED BY <1>1, <2>1, <3>1, <3>2 DEF ScaledInv, replayer
  <2> QED BY <1>3, <2>4, <2>5, <2>6, <2>7, <2>8, <2>9 DEF IInv, RunInv
<1> QED BY <1>4, <1>5

LEMMA VCAScaleUpKeeps == ASSUME IInv, VCAScaleUp PROVE IInv'
<1>1. /\ vca # None /\ pc # "done"
      /\ scaled' = scaled \cup {count}
      /\ UNCHANGED <<mode, replayer, files, vca, nodes, pods, placed, pending,
                     history>>
  BY DEF VCAScaleUp, Running
<1> USE Expand, <1>1
<1>2. count \in Iterations /\ count \in 1..count
  BY DEF ControlInv
<1>3. TypeOK'
  BY <1>2 DEF TypeOK, replayer, files, history
<1>4. Reported'
  BY ReportsKept DEF replayer
<1>5. ControlInv' /\ FilesInv' /\ HashInv'
  BY DEF ControlInv, FilesInv, HashInv, replayer, files
<1>6. NodesInv' /\ PodsInv'
  BY DEF NodesInv, PodsInv, replayer, files, history
<1>7. ScaledInv'
  BY <1>2 DEF ScaledInv, replayer, files
<1> QED BY <1>3, <1>4, <1>5, <1>6, <1>7 DEF IInv, RunInv

LEMMA VCADoneKeeps == ASSUME IInv, VCADone PROVE IInv'
<1>1. /\ pc # "done" /\ done' = TRUE
      /\ UNCHANGED <<mode, replayer, file, signal, vca, cluster, history>>
  BY DEF VCADone, Running
<1> USE Expand, <1>1
<1>2. TypeOK'
  BY DEF TypeOK, replayer, cluster, history
<1>3. Reported'
  BY ReportsKept DEF replayer
<1>4. ControlInv' /\ FilesInv' /\ HashInv'
  BY DEF ControlInv, FilesInv, HashInv, replayer
<1>5. NodesInv' /\ PodsInv' /\ ScaledInv'
  BY DEF NodesInv, PodsInv, ScaledInv, replayer, cluster, history
<1> QED BY <1>2, <1>3, <1>4, <1>5 DEF IInv, RunInv

LEMMA ScheduleKeeps ==
    ASSUME IInv, NEW p \in PodNames, Schedule(p)
    PROVE  IInv'
<1>1. /\ pc # "done" /\ p \in pods \ placed
      /\ \/ placed' = placed \cup {p} /\ pending' = pending \ {p}
         \/ placed' = placed /\ pending' = pending \cup {p}
      /\ UNCHANGED <<mode, replayer, files, vca, nodes, scaled, pods, history>>
  BY DEF Schedule
<1> USE Expand, <1>1
<1>2. placed' \in SUBSET pods /\ pending' \in SUBSET (pods \ placed')
  BY DEF TypeOK
<1>3. TypeOK'
  BY <1>2 DEF TypeOK, replayer, files, history
<1>4. Reported'
  BY ReportsKept DEF replayer
<1>5. ControlInv' /\ FilesInv' /\ HashInv'
  BY DEF ControlInv, FilesInv, HashInv, replayer, files
<1>6. NodesInv' /\ PodsInv' /\ ScaledInv'
  BY DEF NodesInv, PodsInv, ScaledInv, replayer, files, history
<1> QED BY <1>3, <1>4, <1>5, <1>6 DEF IInv, RunInv

-----------------------------------------------------------------------------
(* The invariant is inductive.                                             *)

LEMMA InitInv == Init => IInv
<1> SUFFICES ASSUME Init PROVE IInv
  OBVIOUS
<1>1. TypeOK
  <2>1. pc \in Locations
    BY DEF Init, Locations
  <2>2. /\ {} \in SUBSET Report /\ 0 \in 0..1
        /\ pending \in SUBSET (pods \ placed)
    BY DEF Init
  <2> QED BY <2>1, <2>2 DEF Init, TypeOK
<1>2. Reported
  BY DEF Init, Reported, UpOfItsPast, NoNodeReportedTwice,
         ScenarioOfItsSnapshot
<1>3. ControlInv /\ FilesInv /\ HashInv
  BY DEF Init, ControlInv, FilesInv, HashInv
<1>4. NodesInv /\ PodsInv /\ ScaledInv
  BY DEF Init, NodesInv, PodsInv, ScaledInv
<1> QED BY <1>1, <1>2, <1>3, <1>4 DEF IInv, RunInv

LEMMA NextInv == IInv /\ [Next]_vars => IInv'
<1> SUFFICES ASSUME IInv, [Next]_vars PROVE IInv'
  OBVIOUS
<1>1. CASE Replayer
  <2>1. CASE NoMoreWork
    BY <2>1, FailKeeps DEF NoMoreWork
  <2> QED
    BY <1>1, <2>1, StartKeeps, LoadSnapshotKeeps, ClearPendingKeeps,
       WaitForVirtualCARefreshKeeps, ComputeDeltaWorkKeeps, DeployPodKeeps,
       WriteRunConfigKeeps, AwaitConditionsKeeps, CheckScalingKeeps,
       ReadDoneSignalKeeps, CreateScenarioKeeps, SyncNodesKeeps,
       PostClusterSnapshotKeeps DEF Replayer
<1>2. CASE Others
  BY <1>2, VCARefreshKeeps, VCAScaleUpKeeps, VCADoneKeeps, ScheduleKeeps
     DEF Others
<1>3. CASE UNCHANGED vars
  <2>1. TypeOK'
    BY <1>3 DEF vars, replayer, files, cluster, history, IInv, TypeOK
  <2>2. Reported'
    BY <1>3, ReportsKept DEF vars, replayer
  <2>3. CASE pc = "done"
    BY <1>3, <2>1, <2>3, AfterTheEnd DEF vars, replayer
  <2>4. CASE pc # "done"
    <3>1. ControlInv' /\ FilesInv' /\ HashInv'
      BY <1>3, <2>4, Expand DEF vars, replayer, files, ControlInv, FilesInv,
                                HashInv
    <3>2. NodesInv' /\ PodsInv' /\ ScaledInv'
      BY <1>3, <2>4, Expand DEF vars, replayer, files, cluster, history,
                                NodesInv, PodsInv, ScaledInv
    <3> QED BY <2>1, <2>2, <3>1, <3>2 DEF IInv, RunInv
  <2> QED BY <2>3, <2>4
<1> QED BY <1>1, <1>2, <1>3 DEF Next

LEMMA Invariance == Spec => []IInv
BY InitInv, NextInv, PTL DEF Spec

-----------------------------------------------------------------------------
(* Theorems.                                                               *)

(* The variables keep their types.                                         *)
THEOREM TypeCorrect == Spec => []TypeOK
<1>1. IInv => TypeOK
  BY DEF IInv
<1> QED BY <1>1, Invariance, PTL

(* No virtually scaled node is in the reports of two events, however many  *)
(* iterations were skipped, had no work or failed to see what was scaled up*)
(* in between (replayer.go:457-465).                                       *)
THEOREM NodesReportedOnce == Spec => []NoNodeReportedTwice
<1>1. IInv => NoNodeReportedTwice
  BY DEF IInv, Reported
<1> QED BY <1>1, Invariance, PTL

(* A scenario was played on the nodes and with the pods of its own snapshot*)
(* (replayer.go:466-516, 1388-1437).                                       *)
THEOREM ScenariosAreOfTheirSnapshot == Spec => []ScenarioOfItsSnapshot
<1>1. IInv => ScenarioOfItsSnapshot
  BY DEF IInv, Reported
<1> QED BY <1>1, Invariance, PTL

(* Pods are deployed on the nodes of their snapshot, unless an iteration   *)
(* without work came before (replayer.go:481-484).                         *)
THEOREM PodsDeployedOnItsNodes == Spec => []DeployedOnItsNodes
<1>1. IInv => DeployedOnItsNodes
  BY DEF IInv, RunInv, NodesInv, DeployedOnItsNodes
<1> QED BY <1>1, Invariance, PTL

=============================================================================
