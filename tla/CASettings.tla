----------------------------- MODULE CASettings -----------------------------
(***************************************************************************)
(* How the recorder composes a row of ca_settings_info (onAddDeployment,   *)
(* onAddConfigMap of src/recorder/recorder.go).                            *)
(*                                                                         *)
(* The settings of the cluster autoscaler come from its deployment in the  *)
(* control plane, the priorities of its expander from a config map in the  *)
(* shoot.  Each handler loads the latest row, replaces its own half and    *)
(* stores the result as a new row when its hash differs.  The two objects  *)
(* are watched by two informers whose handlers run in goroutines of their  *)
(* own, and nothing keeps one handler from storing between the load and    *)
(* the store of the other.                                                 *)
(*                                                                         *)
(* Of the informers' objects only the content matters here: the arguments  *)
(* of the deployment that the hash covers, and the priorities (an empty    *)
(* string being one of the contents).  Neither handler looks at deletions. *)
(***************************************************************************)
EXTENDS Informer

CONSTANTS
    Deployment, ConfigMap,
    Idle,      \* what a handler works on between two calls
    Failures   \* whether calls of the database may fail

ASSUME NamesAssumption ==
    /\ Names = {Deployment, ConfigMap}
    /\ Deployment # ConfigMap
    /\ Failures \in BOOLEAN

VARIABLES
    rows,     \* ca_settings_info, in the order of RowID
    loaded,   \* name -> the latest row its handler works on, or Idle
    lost,     \* history: name -> its content, last handled, was not stored
    raced     \* history: name -> the other handler has since stored a row
              \* made from one that was not the latest any more

vars == <<now, obj, conn, pending, cache, rows, loaded, lost, raced>>

(* A row: both halves, and SnapshotTimestamp.  NoRow is the zero value a   *)
(* handler goes on with when the table is empty: no node groups, an empty  *)
(* hash.                                                                   *)
RowSet == [settings : Specs, priorities : Specs \cup {None}, stamp : Time]
NoRow == [settings |-> None, priorities |-> None, stamp |-> 0]

ASSUME IdleAssumption == Idle \notin RowSet \cup {NoRow} /\ None \notin Specs

LatestRow == IF rows = <<>> THEN NoRow ELSE rows[Len(rows)]

Half(row, n) == IF n = Deployment THEN row.settings ELSE row.priorities

SameHash(r, s) ==
    r.settings = s.settings /\ r.priorities = s.priorities

TypeOK ==
    /\ InformerTypeOK
    /\ rows \in Seq(RowSet)
    /\ loaded \in [Names -> RowSet \cup {NoRow, Idle}]
    /\ lost \in [Names -> BOOLEAN]
    /\ raced \in [Names -> BOOLEAN]

Init ==
    /\ InformerInit
    /\ rows = <<>>
    /\ loaded = [n \in Names |-> Idle]
    /\ lost = [n \in Names |-> FALSE]
    /\ raced = [n \in Names |-> FALSE]

-----------------------------------------------------------------------------
(* The handlers, from LoadLatestCASettingsInfo to StoreCASettingsInfo.     *)

HasPut(n) == IsAdd(n) \/ IsUpdate(n)

Load(n) ==
    /\ conn # "down"
    /\ HasPut(n)
    /\ loaded[n] = Idle
    /\ loaded' = [loaded EXCEPT ![n] = LatestRow]
    /\ UNCHANGED <<informerVars, rows, lost, raced>>

(* The load fails for another reason than an empty table.                  *)
LoadFails(n) ==
    /\ Failures
    /\ HasPut(n)
    /\ loaded[n] = Idle
    /\ Deliver(n)
    /\ lost' = [lost EXCEPT ![n] = TRUE]
    /\ UNCHANGED <<rows, loaded, raced>>

ComposedAfresh(n) ==  \* mutant: onAddDeployment starts with no priorities
    IF n = Deployment
    THEN [settings |-> Shown(n).spec, priorities |-> None, stamp |-> now]
    ELSE [loaded[n] EXCEPT !.priorities = Shown(n).spec]

(* The row a handler makes of the row it loaded: that of a deployment is   *)
(* stamped with the present, that of a config map with the stamp it found. *)
Composed(n) ==
    IF n = Deployment
    THEN [settings |-> Shown(n).spec, priorities |-> loaded[n].priorities,
          stamp |-> now]
    ELSE [loaded[n] EXCEPT !.priorities = Shown(n).spec]

Handled(n) ==
    /\ loaded[n] # Idle
    /\ Deliver(n)
    /\ loaded' = [loaded EXCEPT ![n] = Idle]

KeepOnAnyKnown(n) ==  \* mutant: skips contents stored before, like a node's
    /\ Handled(n)
    /\ \E i \in 1..Len(rows) : SameHash(Composed(n), rows[i])
    /\ lost' = [lost EXCEPT ![n] = FALSE]
    /\ UNCHANGED <<rows, raced>>

(* The hash is that of the row loaded: nothing to store.                   *)
Keep(n) ==
    /\ Handled(n)
    /\ loaded[n] # NoRow
    /\ SameHash(Composed(n), loaded[n])
    /\ lost' = [lost EXCEPT ![n] = FALSE]
    /\ UNCHANGED <<rows, raced>>

StoreAlways(n) ==  \* mutant: no comparison of the hashes
    /\ Handled(n)
    /\ Composed(n).settings # None
    /\ rows' = Append(rows, Composed(n))
    /\ lost' = [lost EXCEPT ![n] = FALSE]
    /\ raced' = [m \in Names |-> m # n /\ (raced[m] \/ loaded[n] # LatestRow)]

StoreUnchecked(n) ==  \* mutant: an empty map of node groups is accepted
    /\ Handled(n)
    /\ loaded[n] = NoRow \/ ~SameHash(Composed(n), loaded[n])
    /\ rows' = Append(rows, Composed(n))
    /\ lost' = [lost EXCEPT ![n] = FALSE]
    /\ raced' = [m \in Names |-> m # n /\ (raced[m] \/ loaded[n] # LatestRow)]

Store(n) ==
    /\ Handled(n)
    /\ loaded[n] = NoRow \/ ~SameHash(Composed(n), loaded[n])
    /\ Composed(n).settings # None
    /\ rows' = Append(rows, Composed(n))
    /\ lost' = [lost EXCEPT ![n] = FALSE]
    /\ raced' = [m \in Names |-> m # n /\ (raced[m] \/ loaded[n] # LatestRow)]

(* The insert fails, as it always does when there is no deployment's row   *)
(* to complete: minMaxMapToText refuses an empty map of node groups.       *)
StoreFails(n) ==
    /\ Handled(n)
    /\ Failures \/ Composed(n).settings = None
    /\ loaded[n] = NoRow \/ ~SameHash(Composed(n), loaded[n])
    /\ lost' = [lost EXCEPT ![n] = TRUE]
    /\ UNCHANGED <<rows, raced>>

(* No handler is registered for deletions.                                 *)
Ignore(n) ==
    /\ IsDelete(n)
    /\ Deliver(n)
    /\ UNCHANGED <<rows, loaded, lost, raced>>

-----------------------------------------------------------------------------

ownVars == <<rows, loaded, lost, raced>>

ClusterStep(n) == Cluster(n) /\ UNCHANGED ownVars

WatchBreaks == Break /\ UNCHANGED ownVars

WatchResumes == Relist /\ UNCHANGED ownVars

Start == StartInformer /\ UNCHANGED ownVars

Crash ==
    /\ StopInformer
    /\ loaded' = [n \in Names |-> Idle]
    /\ lost' = [n \in Names |-> FALSE]
    /\ raced' = [n \in Names |-> FALSE]
    /\ UNCHANGED rows

Handle(n) ==
    \/ Load(n)
    \/ LoadFails(n)
    \/ Keep(n)
    \/ Store(n)
    \/ StoreFails(n)
    \/ Ignore(n)

Next ==
    \/ \E n \in Names : ClusterStep(n) \/ Handle(n)
    \/ WatchBreaks
    \/ WatchResumes
    \/ Start
    \/ Crash

Spec == Init /\ [][Next]_vars

Fairness ==
    /\ WF_vars(Start)
    /\ WF_vars(WatchResumes)
    /\ \A n \in Names : WF_vars(Handle(n))

FairSpec == Spec /\ Fairness

-----------------------------------------------------------------------------
(* Properties.                                                             *)

(* Either half of the latest row is what its handler was last shown,       *)
(* unless that could not be stored, or the other handler stored a row it   *)
(* had made from one that was not the latest any more: the loads and       *)
(* stores of the two handlers interfere in no other way                    *)
(* (recorder.go:1044-1126).                                                *)
HalvesCurrent ==
    \A n \in Names :
        cache[n] # None /\ ~lost[n] /\ ~raced[n]
        => Half(LatestRow, n) = cache[n].spec

(* A row never repeats the one before it, as long as no such overlap came  *)
(* before: two handlers that work on the same row do not both store what   *)
(* the other did.  (After an overlap one may: a stale row takes a half     *)
(* back to what it was, and the handler of that half, at work on the row   *)
(* before, then stores it a second time.)                                  *)
NoRowRepeated ==
    [][Len(rows') > Len(rows) /\ (\A n \in Names : ~raced[n])
       => ~SameHash(LatestRow', LatestRow)]_vars

(* In the end the latest row holds what the cluster ended with, short of   *)
(* failed stores and of the overlap above, if the process stays up.        *)
EventuallyRecorded ==
    <>[](conn # "down") =>
        \A n \in Names :
            <>[](\/ obj[n] = None
                 \/ lost[n]
                 \/ raced[n]
                 \/ Half(LatestRow, n) = obj[n].spec)

(* What README.md:7 says of the recorder, that it "monitors and records    *)
(* the scaling data" of a cluster, "autoscaling config" included: once     *)
(* everything is handled and no call of the database failed, the latest    *)
(* row holds the settings and the priorities of the cluster.  It need not: *)
(* the priorities of a config map that is handled before the first         *)
(* deployment are dropped, and a deployment handled meanwhile stores the   *)
(* priorities it loaded over those of the config map.                      *)
ConfigRecorded ==
    /\ conn = "watching"
    /\ \A n \in Names : pending[n] = <<>> /\ obj[n] # None
    => \A n \in Names : Half(LatestRow, n) = obj[n].spec
=============================================================================
