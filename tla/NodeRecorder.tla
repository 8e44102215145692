---------------------------- MODULE NodeRecorder ----------------------------
(***************************************************************************)
(* The recorder's handlers for nodes (onAddNode, onUpdateNode, processNode,*)
(* onDeleteNode) and for CSI nodes (onAddCSINode, onUpdateCSINode,         *)
(* onDeleteCSINode), the tables node_info and csi_node_info they write,    *)
(* and the queries by which a replay loads the nodes that were there at a  *)
(* given instant.                                                          *)
(*                                                                         *)
(* A node's handlers do not compare with the old object: a content of a    *)
(* ready node is stored unless some row of the name has its hash.  A CSI   *)
(* node is stored whenever it is shown.  Neither handler reads or writes   *)
(* what is stored of another object, so that one model holds both kinds.   *)
(***************************************************************************)
EXTENDS Informer, Tables

CONSTANT MaxRows  \* bound: no crash once a name has this many rows

ASSUME MaxRowsAssumption == MaxRows \in Nat

VARIABLES
    csiNodes, \* the names that are CSI nodes', the others are nodes' (fixed)
    table,    \* name -> its rows, in the order of their RowID
    lost,     \* history: name -> the content last handled was not stored
    missed,   \* history: name -> its removal could not be marked
    removed   \* history: name -> a removal of it was handled

vars == <<now, obj, conn, pending, cache,
          csiNodes, table, lost, missed, removed>>

ownVars == <<csiNodes, table, lost, missed, removed>>

RowSet == [hash : Specs, created : Time, stamp : Time, deleted : Time]

ASSUME NoneHashAssumption == None \notin Specs

TypeOK ==
    /\ InformerTypeOK
    /\ csiNodes \in SUBSET Names
    /\ table \in [Names -> Seq(RowSet)]
    /\ lost \in [Names -> BOOLEAN]
    /\ missed \in [Names -> BOOLEAN]
    /\ removed \in [Names -> BOOLEAN]

Init ==
    /\ InformerInit
    /\ csiNodes \in SUBSET Names
    /\ table = [n \in Names |-> <<>>]
    /\ lost = [n \in Names |-> FALSE]
    /\ missed = [n \in Names |-> FALSE]
    /\ removed = [n \in Names |-> FALSE]

-----------------------------------------------------------------------------
(* What a replay loads of a name for instant t: LoadNodeInfosBefore and    *)
(* LoadCSINodeRowsBefore.  Rows are selected by the time the object was    *)
(* created at, not by the time they were stored at.                        *)

There(rows, t) ==
    {i \in 1..Len(rows) : /\ rows[i].created <= t
                          /\ rows[i].deleted = 0 \/ rows[i].deleted >= t}

Loaded(n, t) ==
    IF There(table[n], t) = {} THEN None
    ELSE table[n][LatestOf(There(table[n], t))].hash

-----------------------------------------------------------------------------
(* Handlers.  A database call that fails is logged and the object dropped. *)

RowStampedAhead(n, o) ==  \* mutant: stamped later than it is stored
    [hash |-> o.spec, created |-> o.created, stamp |-> now + 1, deleted |-> 0]

(* SnapshotTimestamp: for a node the last transition of a condition, for a *)
(* CSI node the time of the handler.                                       *)
Row(n, o) == [hash |-> o.spec, created |-> o.created,
              stamp |-> IF n \in csiNodes THEN now ELSE o.touched,
              deleted |-> 0]

HasPut(n) == IsAdd(n) \/ IsUpdate(n)

Store(n) ==
    \/ /\ table' = [table EXCEPT ![n] = Append(@, Row(n, Shown(n)))]
       /\ lost' = [lost EXCEPT ![n] = FALSE]
    \/ /\ lost' = [lost EXCEPT ![n] = TRUE]
       /\ UNCHANGED table

(* CountNodeInfoWithHash(name, hash) > 0                                   *)
IsKnownLatest(n) ==  \* mutant: looks at the latest row only
    table[n] # <<>> /\ table[n][Len(table[n])].hash = Shown(n).spec

IsKnown(n) == \E i \in 1..Len(table[n]) : table[n][i].hash = Shown(n).spec

OnPutNodeIfAdded(n) ==  \* mutant: handles additions only
    /\ n \notin csiNodes
    /\ HasPut(n)
    /\ Deliver(n)
    /\ IF IsUpdate(n) \/ Shown(n).deleting # 0 \/ ~Shown(n).ready \/ IsKnown(n)
       THEN UNCHANGED <<table, lost>>
       ELSE Store(n)
    /\ UNCHANGED <<csiNodes, missed, removed>>

(* processNode for an addition or an update.                               *)
OnPutNode(n) ==
    /\ n \notin csiNodes
    /\ HasPut(n)
    /\ Deliver(n)
    /\ \/ /\ Shown(n).deleting # 0 \/ ~Shown(n).ready
          /\ UNCHANGED <<table, lost>>
       \/ /\ Shown(n).deleting = 0 /\ Shown(n).ready
          /\ IsKnown(n)
          /\ lost' = [lost EXCEPT ![n] = FALSE]
          /\ UNCHANGED table
       \/ /\ Shown(n).deleting = 0 /\ Shown(n).ready
          /\ ~IsKnown(n)
          /\ Store(n)
       \/ \* the count failed
          /\ Shown(n).deleting = 0 /\ Shown(n).ready
          /\ lost' = [lost EXCEPT ![n] = TRUE]
          /\ UNCHANGED table
    /\ UNCHANGED <<csiNodes, missed, removed>>

OnPutCSINodeUnlessRecorded(n) ==  \* mutant: deduplicated as nodes are
    /\ n \in csiNodes
    /\ HasPut(n)
    /\ Deliver(n)
    /\ IF IsKnown(n) THEN UNCHANGED <<table, lost>> ELSE Store(n)
    /\ UNCHANGED <<csiNodes, missed, removed>>

(* onAddCSINode, which onUpdateCSINode calls.                              *)
OnPutCSINode(n) ==
    /\ n \in csiNodes
    /\ HasPut(n)
    /\ Deliver(n)
    /\ Store(n)
    /\ UNCHANGED <<csiNodes, missed, removed>>

OnDeleteUnlessUnset(n) ==  \* mutant: returns early as onDeletePod does
    /\ IsDelete(n)
    /\ Deliver(n)
    /\ IF Shown(n).deleting = 0 THEN UNCHANGED <<table, missed>>
       ELSE /\ table' = [table EXCEPT ![n] = Marked(@, Shown(n).deleting)]
            /\ missed' = [missed EXCEPT ![n] = FALSE]
    /\ removed' = [removed EXCEPT ![n] = TRUE]
    /\ UNCHANGED <<csiNodes, lost>>

(* onDeleteNode, onDeleteCSINode: marks every row of the name, with the    *)
(* time of the handler when the object carries no deletion timestamp.      *)
OnDelete(n) ==
    /\ IsDelete(n)
    /\ Deliver(n)
    /\ LET at == IF Shown(n).deleting # 0 THEN Shown(n).deleting ELSE now IN
       \/ /\ table' = [table EXCEPT ![n] = Marked(@, at)]
          /\ missed' = [missed EXCEPT ![n] = FALSE]
       \/ /\ missed' = [missed EXCEPT ![n] = TRUE]
          /\ UNCHANGED table
    /\ removed' = [removed EXCEPT ![n] = TRUE]
    /\ UNCHANGED <<csiNodes, lost>>

-----------------------------------------------------------------------------

ClusterStep(n) == Cluster(n) /\ UNCHANGED ownVars

WatchBreaks == Break /\ UNCHANGED ownVars

WatchResumes == Relist /\ UNCHANGED ownVars

(* An object removed while no process ran is never shown as removed.       *)
Start ==
    /\ StartInformer
    /\ missed' = [n \in Names |->
                     missed[n] \/ (obj[n] = None /\ table[n] # <<>>)]
    /\ UNCHANGED <<csiNodes, table, lost, removed>>

(* The process ends, or the connection check replaces its recorder.        *)
Crash ==
    /\ \A n \in Names : Len(table[n]) < MaxRows
    /\ StopInformer
    /\ lost' = [n \in Names |-> FALSE]
    /\ UNCHANGED <<csiNodes, table, missed, removed>>

Handle(n) == OnPutNode(n) \/ OnPutCSINode(n) \/ OnDelete(n)

Next ==
    \/ \E n \in Names : ClusterStep(n) \/ Handle(n)
    \/ WatchBreaks
    \/ WatchResumes
    \/ Start
    \/ Crash

Spec == Init /\ [][Next]_vars

Fairness ==
    /\ WF_vars(Start)
    /\ WF_vars(WatchResumes)
    /\ \A n \in Names : WF_vars(Handle(n))

FairSpec == Spec /\ Fairness

-----------------------------------------------------------------------------
(* Properties.                                                             *)

CaughtUp(n) == conn = "watching" /\ pending[n] = <<>>

(* A node that is recorded: there, ready and not being deleted.            *)
Live(n) == obj[n] # None /\ obj[n].ready /\ obj[n].deleting = 0

(* Every content a ready node was shown with has one row, and one only:    *)
(* relists, restarts and status updates store no content a second time and *)
(* miss none (recorder.go:422-456), unless the database failed.            *)
RecordedOnce ==
    \A n \in Names \ csiNodes :
        /\ \A i, j \in 1..Len(table[n]) :
              table[n][i].hash = table[n][j].hash => i = j
        /\ cache[n] # None /\ cache[n].ready /\ cache[n].deleting = 0
           /\ ~lost[n]
           => \E i \in 1..Len(table[n]) : table[n][i].hash = cache[n].spec

(* A node that is gone is not loaded for any later instant, once its       *)
(* removal is handled and marked (recorder.go:477-503, 1258-1285).         *)
GoneNotLoaded ==
    \A n \in Names :
        conn # "down" /\ cache[n] = None /\ pending[n] = <<>> /\ ~missed[n]
        => Loaded(n, now + 1) = None

(* What is loaded for the present of a CSI node is its content, whatever   *)
(* was removed and re-registered before.                                   *)
CSINodeLoaded ==
    \A n \in csiNodes :
        CaughtUp(n) /\ obj[n] # None /\ ~lost[n]
        => Loaded(n, now) = obj[n].spec

(* Of a live node some content is loaded for the present, as long as no    *)
(* node of its name was removed before.  (A node that registers again with *)
(* a content on record is taken for stored, though its rows are marked.)   *)
LiveNodeLoaded ==
    \A n \in Names \ csiNodes :
        CaughtUp(n) /\ Live(n) /\ ~lost[n] /\ ~removed[n]
        => Loaded(n, now) # None

(* In the end it is, if the process stays up and the database is.          *)
EventuallyLoaded ==
    <>[](conn # "down") =>
        \A n \in Names :
            <>[](\/ n \in csiNodes
                 \/ ~Live(n) \/ lost[n] \/ removed[n]
                 \/ Loaded(n, now) # None)

(* What README.md:7 says of the recorder, that it "monitors and records    *)
(* the scaling data" of a cluster, "nodes" included: what a replay loads   *)
(* for the present of a node that is there is its content, once everything *)
(* is handled and stored.  It need not be: a content that returns after    *)
(* another one is taken for recorded, and the row between is loaded.       *)
NodeContentLoaded ==
    \A n \in Names \ csiNodes :
        CaughtUp(n) /\ Live(n) /\ ~lost[n] => Loaded(n, now) = obj[n].spec
=============================================================================
