--------------------------- MODULE MachineRecorder ---------------------------
(***************************************************************************)
(* The recorder's handlers for machine deployments (onAddMCD, onUpdateMCD, *)
(* onDeleteMCD, processMCD) and machine classes (onAddMCC, onUpdateMCC,    *)
(* onDeleteMCC, processMCC), which are written alike, and the tables       *)
(* mcd_info and mcc_info they write.  The two kinds differ in one thing:   *)
(* the hash of a machine class covers its creation time.  Neither reads or *)
(* writes what is stored of another object, so that one model holds both.  *)
(*                                                                         *)
(* A row is stored when the hash of the new object differs from that of    *)
(* the old one: of the object the informer passes as old to an update, and *)
(* of the latest row of the name for an addition.                          *)
(***************************************************************************)
EXTENDS Informer, Tables

CONSTANT Classes  \* the names of machine classes; others are deployments

ASSUME ClassesAssumption == Classes \subseteq Names

VARIABLES
    table,   \* name -> its rows, in the order of their RowID
    lost,    \* history: name -> the content last shown could not be stored
    missed   \* history: name -> its removal could not be marked

vars == <<now, obj, conn, pending, cache, table, lost, missed>>

HashSet == [spec : Specs, created : Time]

ASSUME NoneHashAssumption == None \notin HashSet

RowSet == [hash : HashSet, created : Time, stamp : Time, deleted : Time]

Hash(n, o) == [spec |-> o.spec,
               created |-> IF n \in Classes THEN o.created ELSE 0]

RowStampedWithTransition(n, o) ==  \* mutant: stamped like a node's row
    [hash |-> Hash(n, o), created |-> o.created, stamp |-> o.touched,
     deleted |-> 0]

RowStampedAhead(n, o) ==  \* mutant: one tick ahead
    [hash |-> Hash(n, o), created |-> o.created, stamp |-> now + 1,
     deleted |-> 0]

(* SnapshotTimestamp is the time at which the handler runs.                *)
Row(n, o) == [hash |-> Hash(n, o), created |-> o.created, stamp |-> now,
              deleted |-> 0]

(* GetMachineDeploymentInfoHash, GetMachineClassInfoHash.                  *)
LatestHash(n) == LatestHashOf(table[n], None)

TypeOK ==
    /\ InformerTypeOK
    /\ table \in [Names -> Seq(RowSet)]
    /\ lost \in [Names -> BOOLEAN]
    /\ missed \in [Names -> BOOLEAN]

Init ==
    /\ InformerInit
    /\ table = [n \in Names |-> <<>>]
    /\ lost = [n \in Names |-> FALSE]
    /\ missed = [n \in Names |-> FALSE]

-----------------------------------------------------------------------------
(* Handlers.  A database call that fails is logged and the object dropped. *)

ProcessUnlessStored(n, oldHash) ==  \* mutant: skips any content on record
    LET o == Shown(n) IN
    \/ /\ \E i \in 1..Len(table[n]) : table[n][i].hash = Hash(n, o)
       /\ UNCHANGED <<table, lost>>
    \/ /\ \A i \in 1..Len(table[n]) : table[n][i].hash # Hash(n, o)
       /\ table' = [table EXCEPT ![n] = Append(@, Row(n, o))]
       /\ lost' = [lost EXCEPT ![n] = FALSE]

(* processMCD, from the point where the old hash is known.                 *)
Process(n, oldHash) ==
    LET o == Shown(n) IN
    \/ /\ oldHash = Hash(n, o)
       /\ UNCHANGED <<table, lost>>
    \/ /\ oldHash # Hash(n, o)
       /\ table' = [table EXCEPT ![n] = Append(@, Row(n, o))]
       /\ lost' = [lost EXCEPT ![n] = FALSE]
    \/ /\ oldHash # Hash(n, o)
       /\ lost' = [lost EXCEPT ![n] = TRUE]
       /\ UNCHANGED table

OnAddStoresAlways(n) ==  \* mutant: no lookup of the latest hash
    /\ IsAdd(n)
    /\ Deliver(n)
    /\ \/ /\ Shown(n).deleting = 0
          /\ Process(n, None)
       \/ /\ lost' = [lost EXCEPT ![n] = TRUE]
          /\ UNCHANGED table
    /\ UNCHANGED missed

OnAddTrustsTable(n) ==  \* mutant: a name with rows is taken as recorded
    /\ IsAdd(n)
    /\ Deliver(n)
    /\ \/ /\ table[n] = <<>>
          /\ Shown(n).deleting = 0
          /\ Process(n, None)
       \/ /\ table[n] # <<>>
          /\ UNCHANGED <<table, lost>>
    /\ UNCHANGED missed

OnAdd(n) ==
    /\ IsAdd(n)
    /\ Deliver(n)
    /\ \/ /\ Shown(n).deleting = 0
          /\ Process(n, LatestHash(n))
       \/ \* already being deleted, or the lookup of the latest hash failed
          /\ lost' = [lost EXCEPT ![n] = TRUE]
          /\ UNCHANGED table
    /\ UNCHANGED missed

OnUpdateUnlessDeleting(n) ==  \* mutant: ignores deletes as processPod does
    /\ IsUpdate(n)
    /\ Deliver(n)
    /\ IF Shown(n).deleting = 0 THEN Process(n, Hash(n, cache[n]))
       ELSE UNCHANGED <<table, lost>>
    /\ UNCHANGED missed

OnUpdate(n) ==
    /\ IsUpdate(n)
    /\ Deliver(n)
    /\ Process(n, Hash(n, cache[n]))
    /\ UNCHANGED missed

OnDeleteUnlessUnset(n) ==  \* mutant: returns early as onDeletePod does
    /\ IsDelete(n)
    /\ Deliver(n)
    /\ IF Shown(n).deleting = 0 THEN UNCHANGED <<table, missed>>
       ELSE /\ table' = [table EXCEPT ![n] = Marked(@, Shown(n).deleting)]
            /\ missed' = [missed EXCEPT ![n] = FALSE]
    /\ lost' = [lost EXCEPT ![n] = FALSE]

(* Marks every row of the name, with the time of the handler when the      *)
(* object carries no deletion timestamp.                                   *)
OnDelete(n) ==
    /\ IsDelete(n)
    /\ Deliver(n)
    /\ LET at == IF Shown(n).deleting # 0 THEN Shown(n).deleting ELSE now IN
       \/ /\ table' = [table EXCEPT ![n] = Marked(@, at)]
          /\ missed' = [missed EXCEPT ![n] = FALSE]
       \/ /\ missed' = [missed EXCEPT ![n] = TRUE]
          /\ UNCHANGED table
    /\ lost' = [lost EXCEPT ![n] = FALSE]

-----------------------------------------------------------------------------

ClusterStep(n) == Cluster(n) /\ UNCHANGED <<table, lost, missed>>

WatchBreaks == Break /\ UNCHANGED <<table, lost, missed>>

WatchResumes == Relist /\ UNCHANGED <<table, lost, missed>>

(* An object removed while no process ran is never shown as removed.       *)
Start ==
    /\ StartInformer
    /\ missed' = [n \in Names |->
                     missed[n] \/ (obj[n] = None /\ table[n] # <<>>)]
    /\ UNCHANGED <<table, lost>>

(* The process ends, or the connection check replaces its recorder.        *)
Crash ==
    /\ StopInformer
    /\ lost' = [n \in Names |-> FALSE]
    /\ UNCHANGED <<table, missed>>

Handle(n) == OnAdd(n) \/ OnUpdate(n) \/ OnDelete(n)

Next ==
    \/ \E n \in Names : ClusterStep(n) \/ Handle(n)
    \/ WatchBreaks
    \/ WatchResumes
    \/ Start
    \/ Crash

Spec == Init /\ [][Next]_vars

(* The informer relists after a watch error and runs the handlers of what  *)
(* it queued; a process that ended is started again (a Deployment), and    *)
(* does not end forever.                                                   *)
Fairness ==
    /\ WF_vars(Start)
    /\ WF_vars(WatchResumes)
    /\ \A n \in Names : WF_vars(Handle(n))

FairSpec == Spec /\ Fairness

-----------------------------------------------------------------------------
(* The table as a replay reads it: what LoadMachineDeploymentInfosBefore   *)
(* and LoadMachineClassInfosBefore return of every name for every instant. *)

Recorded == [n \in Names |-> [t \in Time |-> HashAt(table[n], t, None)]]

TableChronicle ==
    INSTANCE Chronicle WITH Subjects <- Names, Contents <- HashSet,
                            Blank <- None, Instants <- Time,
                            clock <- now, book <- Recorded

-----------------------------------------------------------------------------
(* Properties.                                                             *)

(* The latest row of a name is the content its handlers were last shown,   *)
(* whatever adds, updates, restarts, gaps of the watch and replaced        *)
(* objects came before, unless the store of that very content failed: the  *)
(* comparison with the old object (recorder.go:1296-1313) never skips a    *)
(* change that the table has not.                                          *)
LatestRowCurrent ==
    \A n \in Names :
        cache[n] # None /\ ~lost[n] => LatestHash(n) = Hash(n, cache[n])

(* While the process watches and has handled what was queued, the latest   *)
(* row is the content the cluster holds, up to stores that failed.         *)
CaughtUpRowCurrent ==
    \A n \in Names :
        /\ conn = "watching"
        /\ pending[n] = <<>>
        /\ obj[n] # None
        /\ ~lost[n]
        => LatestHash(n) = Hash(n, obj[n])

(* Once the recorder has handled everything shown of a name that is gone,  *)
(* every row of the name is marked as deleted (recorder.go:930-986), save  *)
(* when the update failed or the removal happened while no process ran.    *)
GoneMarked ==
    \A n \in Names :
        conn # "down" /\ cache[n] = None /\ pending[n] = <<>> /\ ~missed[n]
        => \A i \in 1..Len(table[n]) : table[n][i].deleted # 0

(* A row is only ever added for a content that differs from the latest row *)
(* of the name: the hash comparison keeps the table free of repetitions    *)
(* across restarts, relists and status-only updates, unless the content    *)
(* between the two was lost.                                               *)
OnlyChangesStored ==
    [][\A n \in Names :
          Len(table'[n]) > Len(table[n]) /\ ~lost[n]
          => LatestHash(n)' # LatestHash(n)]_vars

(* What a replay loads for an instant that is past never changes, and a    *)
(* store takes effect from the present on: max(RowID) among the rows with  *)
(* SnapshotTimestamp <= t (sql.go:76, 107) is the content at t.            *)
TableIsChronicle == TableChronicle!ChronicleSpec

(* In the end the latest row is the content the cluster ended with, if the *)
(* process does not keep ending and the last store did not fail.           *)
EventuallyRecorded ==
    <>[](conn # "down") =>
        \A n \in Names :
            <>[](obj[n] = None \/ lost[n] \/ LatestHash(n) = Hash(n, obj[n]))

=============================================================================
