----------------------------- MODULE PodRecorder -----------------------------
(***************************************************************************)
(* The recorder's handlers for pods (onAddPod, onUpdatePod, processPod,    *)
(* onDeletePod) and for priority classes (onAddPC, onUpdatePC, processPC), *)
(* the tables pod_info and pc_info they write, and the queries by which a  *)
(* replay loads the pods of a window of time and the classes of an instant.*)
(*                                                                         *)
(* A row of a pod carries the UID, so that a pod recreated under its name  *)
(* has rows of its own; here the time of creation tells pods of one name   *)
(* apart.  The names that the informer knows pods by have a namespace; the *)
(* replay takes two of one bare name for the same pod.  Nothing handles the*)
(* removal of a priority class.                                            *)
(***************************************************************************)
EXTENDS Informer, Tables

CONSTANTS
    Undetermined, \* the contents ComputePodScheduleStatus cannot tell of
    Finished,     \* the contents whose phase is not Running or Pending
    HashOf,       \* content -> a content of equal hash (PodInfo.GetHash)
    BareName,     \* name -> that name without its namespace
    KubeSystem,   \* the names in the namespace kube-system
    MaxRows       \* bound: no crash once a name has this many rows

ASSUME ContentAssumption ==
    /\ Undetermined \in SUBSET Specs
    /\ Finished \in SUBSET Specs
    /\ HashOf \in [Specs -> Specs]
    /\ DOMAIN BareName = Names /\ KubeSystem \in SUBSET Names
    /\ MaxRows \in Nat

ASSUME NoneHashAssumption == None \notin Specs

VARIABLES
    priorityClasses, \* the names that are priority classes' (fixed)
    table,    \* name -> its rows, in the order of their RowID
    lost,     \* history: name -> the content last handled was not stored
    returned, \* history: name -> it was stored before another content was
    escaped   \* history: name -> the pods of it that nothing will ever mark

vars == <<now, obj, conn, pending, cache,
          priorityClasses, table, lost, returned, escaped>>

ownVars == <<priorityClasses, table, lost, returned, escaped>>

RowSet == [hash : Specs, created : Time, stamp : Time, finished : BOOLEAN,
           deleted : Time]

TypeOK ==
    /\ InformerTypeOK
    /\ priorityClasses \in SUBSET Names
    /\ table \in [Names -> Seq(RowSet)]
    /\ lost \in [Names -> BOOLEAN]
    /\ returned \in [Names -> BOOLEAN]
    /\ escaped \in [Names -> SUBSET Time]

Init ==
    /\ InformerInit
    /\ priorityClasses \in SUBSET Names
    /\ table = [n \in Names |-> <<>>]
    /\ lost = [n \in Names |-> FALSE]
    /\ returned = [n \in Names |-> FALSE]
    /\ escaped = [n \in Names |-> {}]

Pods == Names \ priorityClasses

-----------------------------------------------------------------------------
(* What a replay loads.                                                    *)

ThereOrGone(rows, prev, t) ==  \* mutant: does not look at the marks
    {i \in 1..Len(rows) : /\ rows[i].stamp > prev /\ rows[i].stamp <= t
                          /\ ~rows[i].finished}

(* GetLatestPodInfosBetweenSnapshotTimestamp(prev, t).  The phase is       *)
(* compared before the rows are grouped.                                   *)
There(rows, prev, t) ==
    {i \in 1..Len(rows) :
        /\ rows[i].stamp > prev /\ rows[i].stamp <= t
        /\ ~rows[i].finished
        /\ rows[i].deleted = 0 \/ rows[i].deleted >= t}

(* GROUP BY UID HAVING max(RowID)                                          *)
LatestOfUIDs(rows, I) ==
    {i \in I : \A j \in I : rows[j].created = rows[i].created => j <= i}

Namesakes(n) == {m \in Pods : BareName[m] = BareName[n]}

(* What the query returns of pods with the bare name of n, of all          *)
(* namespaces: each row with the name it is recorded under.                *)
Queried(n, prev, t) ==
    UNION {{m} \X LatestOfUIDs(table[m], There(table[m], prev, t)) :
              m \in Namesakes(n)}

StampOf(r) == table[r[1]][r[2]].stamp

OldestOf(R) ==  \* mutant: sorted the other way round
    CHOOSE r \in R : \A q \in R : StampOf(r) <= StampOf(q)

(* GetRecordedClusterSnapshot keeps of each bare name the pod of the latest*)
(* SnapshotTimestamp.                                                      *)
NewestOf(R) == CHOOSE r \in R : \A q \in R : StampOf(q) <= StampOf(r)

(* ... and of these the ones filterAppPods lets pass.                      *)
LoadedPod(n, prev, t) ==
    LET R == Queried(n, prev, t)
    IN  IF R = {} \/ NewestOf(R)[1] # n \/ n \in KubeSystem THEN None
        ELSE table[n][NewestOf(R)[2]].hash

(* LoadLatestPriorityClassInfoBeforeSnapshotTime(t): by creation.          *)
LoadedClass(n, t) ==
    LET I == {i \in 1..Len(table[n]) : /\ table[n][i].created <= t
                                       /\ \/ table[n][i].deleted = 0
                                          \/ table[n][i].deleted >= t}
    IN  IF I = {} THEN None ELSE table[n][LatestOf(I)].hash

-----------------------------------------------------------------------------
(* Handlers.  A database call that fails is logged and the object dropped. *)

RowStampedAhead(n, o) ==  \* mutant: stamped later than it is stored
    [hash |-> HashOf[o.spec], created |-> o.created, stamp |-> now + 1,
     finished |-> o.spec \in Finished, deleted |-> 0]

(* PodInfoFromPod, pcInfoFromPC.  SnapshotTimestamp: of a pod the last     *)
(* transition of a condition, of a class the time of the handler.          *)
Row(n, o) == [hash |-> HashOf[o.spec], created |-> o.created,
              stamp |-> IF n \in priorityClasses THEN now ELSE o.touched,
              finished |-> o.spec \in Finished, deleted |-> 0]

HasPut(n) == IsAdd(n) \/ IsUpdate(n)

Store(n) ==
    \/ /\ table' = [table EXCEPT ![n] = Append(@, Row(n, Shown(n)))]
       /\ lost' = [lost EXCEPT ![n] = FALSE]
       /\ returned' = [returned EXCEPT ![n] = FALSE]
    \/ /\ lost' = [lost EXCEPT ![n] = TRUE]
       /\ UNCHANGED <<table, returned>>

IsKnownName(n) ==  \* mutant: counts the rows of the name
    \E i \in 1..Len(table[n]) : table[n][i].hash = HashOf[Shown(n).spec]

(* CountPodInfoWithSpecHash(UID, hash) > 0                                 *)
IsKnown(n) ==
    \E i \in 1..Len(table[n]) : /\ table[n][i].created = Shown(n).created
                                /\ table[n][i].hash = HashOf[Shown(n).spec]

(* A pod deleted and recreated within a gap of the watch is shown as an    *)
(* update with another UID, and the handlers take no notice of the old one.*)
Replaced(n) ==
    IF IsUpdate(n) /\ cache[n].created # Shown(n).created
    THEN {cache[n].created} ELSE {}

(* The row of the content shown is not the last of its pod.                *)
Superseded(n) ==
    LET own == {i \in 1..Len(table[n]) : table[n][i].created = Shown(n).created}
    IN  \E i \in own : /\ \A j \in own : j <= i
                       /\ table[n][i].hash # HashOf[Shown(n).spec]

(* processPod for an addition or an update.                                *)
OnPutPod(n) ==
    /\ n \in Pods
    /\ HasPut(n)
    /\ Deliver(n)
    /\ LET skipped == Shown(n).deleting # 0 \/ Shown(n).spec \in Undetermined
       IN  \/ /\ skipped
              /\ UNCHANGED <<table, lost, returned>>
           \/ /\ ~skipped
              /\ IsKnown(n)
              /\ lost' = [lost EXCEPT ![n] = FALSE]
              /\ returned' = [returned EXCEPT ![n] = Superseded(n)]
              /\ UNCHANGED table
           \/ /\ ~skipped
              /\ ~IsKnown(n)
              /\ Store(n)
           \/ \* the count failed
              /\ ~skipped
              /\ lost' = [lost EXCEPT ![n] = TRUE]
              /\ UNCHANGED <<table, returned>>
    /\ escaped' = [escaped EXCEPT ![n] = @ \cup Replaced(n)]
    /\ UNCHANGED priorityClasses

OnPutClassUnlessKnown(n) ==  \* mutant: the count compares what it is given
    /\ n \in priorityClasses
    /\ HasPut(n)
    /\ Deliver(n)
    /\ IF Shown(n).deleting # 0 \/ IsKnown(n)
       THEN UNCHANGED <<table, lost, returned>> ELSE Store(n)
    /\ UNCHANGED <<priorityClasses, escaped>>

(* processPC.  CountPCInfoWithSpecHash is handed the name for the UID that *)
(* its statement compares, and so counts no row.                           *)
OnPutClass(n) ==
    /\ n \in priorityClasses
    /\ HasPut(n)
    /\ Deliver(n)
    /\ \/ Shown(n).deleting # 0 /\ UNCHANGED <<table, lost, returned>>
       \/ Shown(n).deleting = 0 /\ Store(n)
    /\ UNCHANGED <<priorityClasses, escaped>>

MarkedLatest(rows, o) ==  \* mutant: marks the content last shown only
    [i \in 1..Len(rows) |->
        IF rows[i].created = o.created /\ rows[i].hash = HashOf[o.spec]
        THEN [rows[i] EXCEPT !.deleted = o.deleting] ELSE rows[i]]

(* UPDATE pod_info SET DeletionTimestamp=? WHERE UID=?                     *)
MarkedUID(rows, o) ==
    [i \in 1..Len(rows) |->
        IF rows[i].created = o.created
        THEN [rows[i] EXCEPT !.deleted = o.deleting] ELSE rows[i]]

(* onDeletePod returns early for a pod without a deletion timestamp.       *)
OnDeletePod(n) ==
    /\ n \in Pods
    /\ IsDelete(n)
    /\ Deliver(n)
    /\ \/ /\ Shown(n).deleting # 0
          /\ table' = [table EXCEPT ![n] = MarkedUID(@, Shown(n))]
          /\ UNCHANGED escaped
       \/ \* without a timestamp, or the update failed
          /\ escaped' = [escaped EXCEPT ![n] = @ \cup {Shown(n).created}]
          /\ UNCHANGED table
    /\ UNCHANGED <<priorityClasses, lost, returned>>

(* Start registers no handler for the removal of a priority class.         *)
NoHandler(n) ==
    /\ n \in priorityClasses
    /\ IsDelete(n)
    /\ Deliver(n)
    /\ UNCHANGED ownVars

-----------------------------------------------------------------------------
(* The cluster.  A pod's content changes with or without a transition of   *)
(* one of its conditions; the phase of a finished pod changes no more.     *)

Appear(n) ==
    /\ obj[n] = None
    /\ \E s \in Specs \ Finished :
          Change(n, [created |-> now + 1, touched |-> now + 1, spec |-> s,
                     ready |-> FALSE, deleting |-> 0])

Evolve(n) ==
    /\ obj[n] # None
    /\ obj[n].spec \notin Finished
    /\ \E s \in Specs \ {obj[n].spec}, t \in {obj[n].touched, now + 1} :
          Change(n, [obj[n] EXCEPT !.spec = s, !.touched = t])

ClusterStep(n) ==
    /\ \/ Appear(n)
       \/ Evolve(n)
       \/ n \in Pods /\ SetReady(n)
       \/ BeginDelete(n)
       \/ Remove(n)
    /\ UNCHANGED ownVars

WatchBreaks == Break /\ UNCHANGED ownVars

WatchResumes == Relist /\ UNCHANGED ownVars

(* A pod removed while no process ran is never shown as removed.           *)
Start ==
    /\ StartInformer
    /\ escaped' = [n \in Names |->
           escaped[n] \cup
               {table[n][i].created : i \in {j \in 1..Len(table[n]) :
                   obj[n] = None \/ table[n][j].created # obj[n].created}}]
    /\ UNCHANGED <<priorityClasses, table, lost, returned>>

(* The process ends, or the connection check replaces its recorder.        *)
Crash ==
    /\ \A n \in Names : Len(table[n]) < MaxRows
    /\ StopInformer
    /\ lost' = [n \in Names |-> FALSE]
    /\ UNCHANGED <<priorityClasses, table, returned, escaped>>

Handle(n) == OnPutPod(n) \/ OnPutClass(n) \/ OnDeletePod(n) \/ NoHandler(n)

Next ==
    \/ \E n \in Names : ClusterStep(n) \/ Handle(n)
    \/ WatchBreaks
    \/ WatchResumes
    \/ Start
    \/ Crash

Spec == Init /\ [][Next]_vars

-----------------------------------------------------------------------------
(* Properties.                                                             *)

CaughtUp(n) == conn = "watching" /\ pending[n] = <<>>

(* A pod that processPod records.                                          *)
Recordable(o) ==
    o # None /\ o.deleting = 0 /\ o.spec \notin Undetermined

(* Every recordable content a pod was shown with has one row of that pod,  *)
(* and one only: relists, restarts and changes that leave the hash alone   *)
(* store none a second time, and no row of a pod that had the name before  *)
(* is taken for one of its successor (recorder.go:610-643).                *)
PodRecordedOnce ==
    \A n \in Pods :
        /\ \A i, j \in 1..Len(table[n]) :
              /\ table[n][i].created = table[n][j].created
              /\ table[n][i].hash = table[n][j].hash
              => i = j
        /\ Recordable(cache[n]) /\ ~lost[n]
           => \E i \in 1..Len(table[n]) :
                 /\ table[n][i].created = cache[n].created
                 /\ table[n][i].hash = HashOf[cache[n].spec]

(* Only a pod that was removed without a deletion timestamp, replaced in a *)
(* gap of the watch, removed while no process ran, or whose update failed, *)
(* is left without its mark; of any other pod that is not there any more   *)
(* every row is marked (recorder.go:387-412).                              *)
GonePodMarked ==
    conn # "down" =>
        \A n \in Pods : \A i \in 1..Len(table[n]) :
            \/ table[n][i].deleted # 0
            \/ table[n][i].created \in escaped[n]
            \/ cache[n] # None /\ cache[n].created = table[n][i].created
            \/ pending[n] # <<>> /\ cache[n] = None
               /\ Shown(n).created = table[n][i].created

(* What a replay should load of an application pod.                        *)
IsToBeLoaded(n) ==
    /\ n \in Pods \ KubeSystem
    /\ CaughtUp(n) /\ Recordable(obj[n]) /\ obj[n].spec \notin Finished
    /\ ~lost[n] /\ ~returned[n]

(* A pod of that bare name in another namespace, no row of n is younger    *)
(* than one of its rows.  It is there, or not known to be gone, or it bears*)
(* no mark or one that is not of the past.                                 *)
Shadows(m, n) ==
    \E j \in There(table[m], 0, now) :
        /\ \/ obj[m] # None /\ obj[m].created = table[m][j].created
           \/ pending[m] # <<>>
           \/ table[m][j].created \in escaped[m]
           \/ table[m][j].deleted >= now
        /\ \A i \in There(table[n], 0, now) :
              table[n][i].stamp <= table[m][j].stamp

(* The rows of a pod that is there are not marked, and it is loaded with   *)
(* its content from the beginning of the recording, whatever unmarked pods *)
(* had its name before.  README.md:9-10 has the replay deploy the pods of  *)
(* the cluster; but of two that are there under one name, in different     *)
(* namespaces, one is kept (replayer.go:2100-2102), so that a pod of       *)
(* another namespace can displace it, and only such a one.                 *)
(* A later window loads that content or nothing, for windows go by the time*)
(* of a condition's transition; never an older one (replayer.go:2095-2102, *)
(* 2133).                                                                  *)
PodLoaded ==
    \A n \in Pods : IsToBeLoaded(n) =>
        /\ \/ LoadedPod(n, 0, now) = HashOf[obj[n].spec]
           \/ \E m \in Namesakes(n) \ {n} : Shadows(m, n)
        /\ \A prev \in Time :
              LoadedPod(n, prev, now) \in {None, HashOf[obj[n].spec]}

(* What is loaded for the present of a priority class is its content, also *)
(* when a former content came back: that the count never finds a row is    *)
(* what makes it so (recorder.go:310-334).                                 *)
ClassLoaded ==
    \A n \in priorityClasses :
        CaughtUp(n) /\ obj[n] # None /\ obj[n].deleting = 0 /\ ~lost[n]
        => LoadedClass(n, now) = HashOf[obj[n].spec]
=============================================================================
