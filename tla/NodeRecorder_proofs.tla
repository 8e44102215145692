------------------------- MODULE NodeRecorder_proofs -------------------------
(***************************************************************************)
(* The properties of NodeRecorder for any number of nodes, CSI nodes,      *)
(* contents, changes, restarts, watch gaps and failed database calls.      *)
(*                                                                         *)
(* What is loaded for an instant depends on three things that no single    *)
(* handler establishes: that a row is never created ahead of the clock     *)
(* (else it is not loaded yet), that a mark is never ahead of it either    *)
(* (else a removed node is still loaded), and that no row is marked while  *)
(* no removal was handled.  The first two come from NothingAhead, of the   *)
(* objects the informer hands out.                                         *)
(***************************************************************************)
EXTENDS NodeRecorder, Recording_proofs

RowsPast ==
    \A n \in Names : \A i \in 1..Len(table[n]) :
        table[n][i].created <= now /\ table[n][i].deleted <= now

Unmarked ==
    \A n \in Names : ~removed[n] =>
        \A i \in 1..Len(table[n]) : table[n][i].deleted = 0

(* What GoneNotLoaded rests on.                                            *)
GoneMarked ==
    \A n \in Names :
        conn # "down" /\ cache[n] = None /\ pending[n] = <<>> /\ ~missed[n]
        => \A i \in 1..Len(table[n]) : table[n][i].deleted # 0

(* What CSINodeLoaded rests on.                                            *)
LatestOfCSINode ==
    \A n \in csiNodes :
        cache[n] # None /\ ~lost[n]
        => /\ table[n] # <<>>
           /\ table[n][Len(table[n])].hash = cache[n].spec
           /\ table[n][Len(table[n])].deleted = 0

IInv ==
    /\ TypeOK
    /\ Synced
    /\ NothingAhead
    /\ RowsPast
    /\ Unmarked
    /\ RecordedOnce
    /\ GoneMarked
    /\ LatestOfCSINode

-----------------------------------------------------------------------------
(* Rows.                                                                   *)

LEMMA RowType ==
    ASSUME TypeOK, NEW n \in Names, NEW o \in Object, PastAt(o, now)
    PROVE  /\ Row(n, o) \in RowSet
           /\ Row(n, o).hash = o.spec
           /\ Row(n, o).created <= now
           /\ Row(n, o).deleted = 0
BY MaxTimeAssumption
DEF Row, RowSet, TypeOK, InformerTypeOK, Object, Time, PastAt

LEMMA AppendedRow ==
    ASSUME TypeOK, NEW n \in Names, NEW o \in Object, PastAt(o, now)
    PROVE  /\ Append(table[n], Row(n, o)) \in Seq(RowSet)
           /\ Append(table[n], Row(n, o)) # <<>>
           /\ Len(Append(table[n], Row(n, o))) = Len(table[n]) + 1
           /\ \A i \in 1..Len(table[n]) :
                 Append(table[n], Row(n, o))[i] = table[n][i]
           /\ Append(table[n], Row(n, o))[Len(table[n]) + 1] = Row(n, o)
<1> DEFINE row == Row(n, o)
<1>1. table[n] \in Seq(RowSet) /\ row \in RowSet
  BY RowType DEF TypeOK
<1> HIDE DEF row
<1>2. /\ Append(table[n], row) \in Seq(RowSet)
      /\ Append(table[n], row) # <<>>
      /\ Len(Append(table[n], row)) = Len(table[n]) + 1
      /\ \A i \in 1..Len(table[n]) : Append(table[n], row)[i] = table[n][i]
      /\ Append(table[n], row)[Len(table[n]) + 1] = row
  BY <1>1
<1> QED BY <1>2 DEF row

LEMMA MarkedRows ==
    ASSUME TypeOK, NEW n \in Names, NEW at \in Time
    PROVE  /\ Marked(table[n], at) \in Seq(RowSet)
           /\ Len(Marked(table[n], at)) = Len(table[n])
           /\ \A i \in 1..Len(table[n]) :
                 /\ Marked(table[n], at)[i].hash = table[n][i].hash
                 /\ Marked(table[n], at)[i].created = table[n][i].created
                 /\ Marked(table[n], at)[i].deleted = at
<1>1. table[n] \in Seq(RowSet)
  BY DEF TypeOK
<1>2. Markable(RowSet, at)
  BY DEF Markable, RowSet
<1>3. ASSUME NEW i \in 1..Len(table[n])
      PROVE  Marked(table[n], at)[i].created = table[n][i].created
  <2>1. table[n][i] \in RowSet
    BY <1>1
  <2>2. Marked(table[n], at)[i] = [table[n][i] EXCEPT !.deleted = at]
    BY DEF Marked
  <2> QED BY <2>1, <2>2 DEF RowSet
<1> QED BY <1>1, <1>2, <1>3, MarkedRowsOf

(* What handling a notice does to the table and the history of its name.   *)
Appended(n, o) == table' = [table EXCEPT ![n] = Append(@, Row(n, o))]

MarkedAt(n, at) == table' = [table EXCEPT ![n] = Marked(@, at)]

LEMMA HandleFrame ==
    ASSUME IInv, NEW n \in Names, Handle(n)
    PROVE  /\ Deliver(n)
           /\ InformerInv' /\ NothingAhead'
           /\ Shown(n) \in Object
           /\ PastAt(Shown(n), now)
           /\ cache'[n] = IF Head(pending[n]).gone THEN None ELSE Shown(n)
           /\ \A m \in Names \ {n} : /\ cache'[m] = cache[m]
                                     /\ pending'[m] = pending[m]
                                     /\ table'[m] = table[m]
                                     /\ lost'[m] = lost[m]
                                     /\ missed'[m] = missed[m]
                                     /\ removed'[m] = removed[m]
           /\ now' = now
           /\ conn' = conn /\ conn # "down"
           /\ csiNodes' = csiNodes
           /\ lost' \in [Names -> BOOLEAN]
           /\ missed' \in [Names -> BOOLEAN]
           /\ removed' \in [Names -> BOOLEAN]
<1>1. Deliver(n) /\ csiNodes' = csiNodes
  BY DEF Handle, OnPutNode, OnPutCSINode, OnDelete
<1>2. InformerInv
  BY DEF IInv, TypeOK, InformerInv
<1>3. /\ table \in [Names -> Seq(RowSet)]
      /\ lost \in [Names -> BOOLEAN]
      /\ missed \in [Names -> BOOLEAN]
      /\ removed \in [Names -> BOOLEAN]
  BY DEF IInv, TypeOK
<1>4. /\ lost' \in [Names -> BOOLEAN]
      /\ missed' \in [Names -> BOOLEAN]
      /\ removed' \in [Names -> BOOLEAN]
      /\ \A m \in Names \ {n} : /\ lost'[m] = lost[m]
                                /\ missed'[m] = missed[m]
                                /\ removed'[m] = removed[m]
                                /\ table'[m] = table[m]
  BY <1>3 DEF Handle, OnPutNode, OnPutCSINode, OnDelete, Store
<1> QED
  BY <1>1, <1>2, <1>4, DeliverInv, DeliverPast DEF IInv, Deliver

-----------------------------------------------------------------------------
(* The invariant over a step of a handler.  Of the table of its name a     *)
(* handler leaves all, or appends the row shown, or marks all; the names   *)
(* other than its own it leaves alone.                                     *)

(* The parts of the invariant, for one name.                               *)
NameInv(n) ==
    /\ table[n] \in Seq(RowSet)
    /\ \A i \in 1..Len(table[n]) :
          table[n][i].created <= now /\ table[n][i].deleted <= now
    /\ ~removed[n] => \A i \in 1..Len(table[n]) : table[n][i].deleted = 0
    /\ n \notin csiNodes =>
          /\ \A i, j \in 1..Len(table[n]) :
                table[n][i].hash = table[n][j].hash => i = j
          /\ cache[n] # None /\ cache[n].ready /\ cache[n].deleting = 0
             /\ ~lost[n]
             => \E i \in 1..Len(table[n]) : table[n][i].hash = cache[n].spec
    /\ conn # "down" /\ cache[n] = None /\ pending[n] = <<>> /\ ~missed[n]
       => \A i \in 1..Len(table[n]) : table[n][i].deleted # 0
    /\ n \in csiNodes /\ cache[n] # None /\ ~lost[n]
       => /\ table[n] # <<>>
          /\ table[n][Len(table[n])].hash = cache[n].spec
          /\ table[n][Len(table[n])].deleted = 0

LEMMA IInvNames ==
    IInv <=> /\ TypeOK
             /\ Synced
             /\ NothingAhead
             /\ \A n \in Names : NameInv(n)
BY DEF IInv, NameInv, RowsPast, Unmarked, RecordedOnce, GoneMarked,
       LatestOfCSINode, TypeOK

LEMMA StoreKeeps ==
    ASSUME IInv, NEW n \in Names, Handle(n),
           n \in csiNodes \/ ~IsKnown(n),
           ~Head(pending[n]).gone,
           Appended(n, Shown(n)), UNCHANGED removed
    PROVE  NameInv(n)'
<1> DEFINE o == Shown(n)
           new == Append(table[n], Row(n, o))
<1>1. /\ o \in Object /\ PastAt(o, now)
      /\ cache'[n] = o /\ cache'[n] # None
      /\ now' = now /\ csiNodes' = csiNodes /\ removed' = removed
  BY HandleFrame, NoneAssumption
<1>2. table'[n] = new /\ table[n] \in Seq(RowSet) /\ Len(table[n]) \in Nat
  BY DEF Appended, IInv, TypeOK
<1>3. /\ new \in Seq(RowSet)
      /\ new # <<>>
      /\ Len(new) = Len(table[n]) + 1
      /\ \A i \in 1..Len(table[n]) : new[i] = table[n][i]
      /\ new[Len(table[n]) + 1].hash = o.spec
      /\ new[Len(table[n]) + 1].created <= now
      /\ new[Len(table[n]) + 1].deleted = 0
  BY <1>1, AppendedRow, RowType DEF IInv
<1>4. now \in Nat
  BY DEF IInv, TypeOK, InformerTypeOK, Time
<1>5. NameInv(n)
  BY IInvNames
<1>6. n \in csiNodes \/ \A i \in 1..Len(table[n]) : table[n][i].hash # o.spec
  BY DEF IsKnown
<1> HIDE DEF o, new
<1>7. \A i \in 1..Len(new) : i \in 1..Len(table[n]) \/ i = Len(table[n]) + 1
  BY <1>2, <1>3
<1>8. \A i \in 1..Len(new) : new[i].created <= now /\ new[i].deleted <= now
  BY <1>3, <1>4, <1>5, <1>7 DEF NameInv
<1>9. ~removed[n] => \A i \in 1..Len(new) : new[i].deleted = 0
  BY <1>3, <1>5, <1>7 DEF NameInv
<1>10. n \notin csiNodes =>
          /\ \A i, j \in 1..Len(new) : new[i].hash = new[j].hash => i = j
          /\ \E i \in 1..Len(new) : new[i].hash = o.spec
  <2> SUFFICES ASSUME n \notin csiNodes
               PROVE  /\ \A i, j \in 1..Len(new) :
                            new[i].hash = new[j].hash => i = j
                      /\ \E i \in 1..Len(new) : new[i].hash = o.spec
    OBVIOUS
  <2>1. \A i, j \in 1..Len(table[n]) :
           table[n][i].hash = table[n][j].hash => i = j
    BY <1>5 DEF NameInv
  <2>2. Len(table[n]) + 1 \in 1..Len(new)
    BY <1>2, <1>3
  <2> QED BY <1>3, <1>6, <1>7, <2>1, <2>2
<1>11. Len(new) \in 1..Len(new) /\ Len(new) = Len(table[n]) + 1
  BY <1>2, <1>3
<1> QED BY <1>1, <1>2, <1>3, <1>8, <1>9, <1>10, <1>11 DEF NameInv

LEMMA PutKeeps ==
    ASSUME IInv, NEW n \in Names, OnPutNode(n) \/ OnPutCSINode(n)
    PROVE  NameInv(n)'
<1>1. Handle(n)
  BY DEF Handle
<1>2. /\ ~Head(pending[n]).gone
      /\ removed' = removed
  BY DEF OnPutNode, OnPutCSINode, HasPut, IsAdd, IsUpdate
<1>3. /\ Shown(n) \in Object
      /\ cache'[n] = Shown(n) /\ cache'[n] # None
      /\ now' = now /\ csiNodes' = csiNodes
  BY <1>1, <1>2, HandleFrame, NoneAssumption
<1>4. NameInv(n)
  BY IInvNames
<1>5. CASE Appended(n, Shown(n)) /\ (n \in csiNodes \/ ~IsKnown(n))
  BY <1>1, <1>2, <1>5, StoreKeeps
<1>6. CASE UNCHANGED table /\ lost' = [lost EXCEPT ![n] = TRUE]
  <2>1. lost'[n]
    BY <1>6 DEF IInv, TypeOK
  <2> QED BY <1>2, <1>3, <1>4, <1>6, <2>1 DEF NameInv
<1>7. CASE /\ UNCHANGED table
           /\ n \notin csiNodes
           /\ \/ Shown(n).deleting # 0 \/ ~Shown(n).ready
              \/ IsKnown(n)
  <2>1. Shown(n).ready /\ Shown(n).deleting = 0
        => \E i \in 1..Len(table[n]) : table[n][i].hash = Shown(n).spec
    BY <1>7 DEF IsKnown
  <2> QED BY <1>2, <1>3, <1>4, <1>7, <2>1 DEF NameInv
<1>8. CASE OnPutCSINode(n)
  BY <1>5, <1>6, <1>8 DEF OnPutCSINode, Store, Appended
<1>9. CASE OnPutNode(n)
  BY <1>5, <1>6, <1>7, <1>9 DEF OnPutNode, Store, Appended
<1> QED BY <1>8, <1>9

LEMMA DeleteKeeps ==
    ASSUME IInv, NEW n \in Names, OnDelete(n)
    PROVE  NameInv(n)'
<1>1. Handle(n) /\ Head(pending[n]).gone
  BY DEF Handle, OnDelete, IsDelete
<1>2. /\ Shown(n) \in Object
      /\ PastAt(Shown(n), now)
      /\ cache'[n] = None
      /\ now' = now /\ csiNodes' = csiNodes
  BY <1>1, HandleFrame
<1>3. removed'[n]
  BY DEF OnDelete, IInv, TypeOK
<1>4. NameInv(n) /\ table[n] \in Seq(RowSet)
  BY IInvNames DEF NameInv
<1> DEFINE at == IF Shown(n).deleting # 0 THEN Shown(n).deleting ELSE now
<1>5. at \in Time \ {0} /\ at <= now
  BY <1>2 DEF Object, PastAt, IInv, TypeOK, InformerTypeOK, Time
<1>6. CASE MarkedAt(n, at)
  <2> DEFINE new == Marked(table[n], at)
  <2>1. table'[n] = new
    BY <1>6 DEF MarkedAt, IInv, TypeOK
  <2> HIDE DEF at
  <2>2. /\ new \in Seq(RowSet)
        /\ Len(new) = Len(table[n])
        /\ \A i \in 1..Len(table[n]) : /\ new[i].hash = table[n][i].hash
                                       /\ new[i].created = table[n][i].created
                                       /\ new[i].deleted = at
    BY <1>5, MarkedRows DEF IInv
  <2> HIDE DEF new
  <2> QED BY <1>2, <1>3, <1>4, <1>5, <2>1, <2>2 DEF NameInv
<1>7. CASE UNCHANGED table /\ missed' = [missed EXCEPT ![n] = TRUE]
  <2>1. missed'[n]
    BY <1>7 DEF IInv, TypeOK
  <2> QED BY <1>2, <1>3, <1>4, <1>7, <2>1 DEF NameInv
<1> QED BY <1>6, <1>7 DEF OnDelete, MarkedAt

LEMMA HandleInv ==
    ASSUME IInv, NEW n \in Names, Handle(n)
    PROVE  IInv'
<1>1. NameInv(n)'
  BY PutKeeps, DeleteKeeps DEF Handle
<1>2. ASSUME NEW m \in Names, m # n PROVE NameInv(m)'
  <2>1. NameInv(m)
    BY IInvNames
  <2> QED BY <1>2, <2>1, HandleFrame DEF NameInv
<1>3. \A m \in Names : NameInv(m)'
  BY <1>1, <1>2
<1>4. TypeOK'
  <2>1. \A m \in Names : table'[m] \in Seq(RowSet)
    BY <1>3 DEF NameInv
  <2>2. table' = [m \in Names |-> table'[m]]
    BY DEF Handle, OnPutNode, OnPutCSINode, OnDelete, Store, IInv, TypeOK
  <2>3. table' \in [Names -> Seq(RowSet)]
    BY <2>1, <2>2
  <2>4. csiNodes \in SUBSET Names
    BY DEF IInv, TypeOK
  <2> QED BY <2>3, <2>4, HandleFrame DEF TypeOK, InformerInv
<1>5. Synced' /\ NothingAhead'
  BY HandleFrame DEF InformerInv
<1> QED BY <1>3, <1>4, <1>5
        DEF IInv, NameInv, RowsPast, Unmarked, RecordedOnce, GoneMarked,
            LatestOfCSINode, TypeOK

-----------------------------------------------------------------------------
(* The invariant is inductive.                                             *)

LEMMA InitInv == Init => IInv
<1> SUFFICES ASSUME Init PROVE IInv
  OBVIOUS
<1>1. InformerInv
  BY InformerInitInv DEF Init
<1>2. TypeOK
  BY <1>1 DEF Init, InformerInv, TypeOK
<1>3. NothingAhead
  <2>1. \A n \in Names : obj[n] = None /\ cache[n] = None /\ pending[n] = <<>>
    BY DEF Init, InformerInit
  <2>2. \A i \in 1..Len(<<>>) : FALSE
    OBVIOUS
  <2> QED BY <2>1, <2>2 DEF NothingAhead
<1>4. RowsPast /\ Unmarked /\ RecordedOnce /\ GoneMarked /\ LatestOfCSINode
  BY <1>2 DEF Init, InformerInit, RowsPast, Unmarked, RecordedOnce,
              GoneMarked, LatestOfCSINode, TypeOK
<1> QED BY <1>1, <1>2, <1>3, <1>4 DEF IInv, InformerInv

(* A step that leaves the tables alone, shows the handlers nothing, and    *)
(* takes nothing from the queue.                                           *)
LEMMA OthersKeep ==
    ASSUME IInv, UNCHANGED ownVars, UNCHANGED cache,
           now' = now \/ now' = now + 1,
           InformerInv', NothingAhead',
           \A m \in Names : pending'[m] = <<>> => pending[m] = <<>>,
           conn' # "down" => conn # "down"
    PROVE  IInv'
<1>1. \A m \in Names : \A i \in 1..Len(table[m]) :
         table[m][i].created \in Nat /\ table[m][i].deleted \in Nat
  <2>1. \A m \in Names : \A i \in 1..Len(table[m]) : table[m][i] \in RowSet
    BY DEF IInv, TypeOK
  <2>2. \A r \in RowSet : r.created \in Nat /\ r.deleted \in Nat
    BY DEF RowSet, Time
  <2> QED BY <2>1, <2>2
<1>2. now \in Nat
  BY DEF IInv, TypeOK, InformerTypeOK, Time
<1>3. RowsPast'
  BY <1>1, <1>2 DEF RowsPast, IInv, ownVars
<1>4. TypeOK'
  BY DEF IInv, TypeOK, InformerInv, ownVars
<1>5. Unmarked' /\ RecordedOnce' /\ GoneMarked' /\ LatestOfCSINode'
  BY DEF IInv, Unmarked, RecordedOnce, GoneMarked, LatestOfCSINode, ownVars
<1> QED BY <1>3, <1>4, <1>5 DEF IInv, InformerInv

LEMMA NextInv == IInv /\ [Next]_vars => IInv'
<1> SUFFICES ASSUME IInv, [Next]_vars PROVE IInv'
  OBVIOUS
<1>1. InformerInv /\ NothingAhead
  BY DEF IInv, TypeOK, InformerInv
<1>2. ASSUME NEW n \in Names, ClusterStep(n) PROVE IInv'
  <2>1. InformerInv' /\ NothingAhead'
    BY <1>1, <1>2, ClusterInv, ClusterPast DEF ClusterStep
  <2>2. /\ cache' = cache
        /\ conn' = conn
        /\ now' = now + 1
        /\ \A m \in Names : pending'[m] = <<>> => pending[m] = <<>>
    <3>1. PICK o : Change(n, o)
      BY <1>2 DEF ClusterStep, Cluster, Create, Edit, SetReady, BeginDelete,
                  Remove
    <3>2. \A x : Append(pending[n], x) # <<>>
      BY AppendNonEmpty DEF IInv, TypeOK, InformerTypeOK
    <3> QED BY <3>1, <3>2 DEF Change, IInv, TypeOK, InformerTypeOK
  <2> QED BY <1>2, <2>1, <2>2, OthersKeep DEF ClusterStep
<1>3. CASE WatchBreaks
  <2>1. InformerInv'
    BY <1>1, <1>3, BreakInv DEF WatchBreaks
  <2>2. NothingAhead'
    BY <1>1, <1>3 DEF WatchBreaks, Break, NothingAhead
  <2> QED BY <1>3, <2>1, <2>2, OthersKeep DEF WatchBreaks, Break
<1>4. CASE WatchResumes
  <2>1. InformerInv' /\ NothingAhead'
    BY <1>1, <1>4, RelistInv, RelistPast DEF WatchResumes
  <2>2. \A m \in Names : pending'[m] = <<>> => pending[m] = <<>>
    <3>1. \A m \in Names : \A x : Append(pending[m], x) # <<>>
      BY AppendNonEmpty DEF IInv, TypeOK, InformerTypeOK
    <3> QED BY <1>4, <3>1 DEF WatchResumes, Relist
  <2> QED BY <1>4, <2>1, <2>2, OthersKeep DEF WatchResumes, Relist
<1>5. CASE Start
  <2>1. InformerInv' /\ NothingAhead'
    BY <1>1, <1>5, StartInv, StartPast DEF Start
  <2>2. missed' \in [Names -> BOOLEAN]
    BY <1>5 DEF Start, IInv, TypeOK
  <2>3. TypeOK'
    BY <1>5, <2>1, <2>2 DEF Start, IInv, TypeOK, InformerInv
  <2>4. \A m \in Names : cache'[m] = None
    BY <1>5 DEF Start, StartInformer
  <2>5. ASSUME NEW m \in Names, pending'[m] = <<>>, ~missed'[m]
        PROVE  table'[m] = <<>>
    BY <1>5, <2>5 DEF Start, StartInformer
  <2>6. GoneMarked'
    BY <2>5 DEF GoneMarked
  <2>7. RowsPast' /\ Unmarked'
    BY <1>5 DEF Start, StartInformer, IInv, RowsPast, Unmarked
  <2>8. RecordedOnce' /\ LatestOfCSINode'
    BY <1>5, <2>3, <2>4
    DEF Start, IInv, RecordedOnce, LatestOfCSINode, TypeOK
  <2> QED BY <2>1, <2>3, <2>6, <2>7, <2>8 DEF IInv, InformerInv
<1>6. CASE Crash
  <2>1. InformerInv' /\ NothingAhead'
    BY <1>1, <1>6, StopInv, StopPast DEF Crash
  <2>2. \A m \in Names : cache'[m] = None
    BY <1>6 DEF Crash, StopInformer
  <2>3. TypeOK'
    BY <1>6, <2>1 DEF Crash, IInv, TypeOK, InformerInv
  <2>4. RowsPast' /\ Unmarked' /\ GoneMarked'
    BY <1>6 DEF Crash, StopInformer, IInv, RowsPast, Unmarked, GoneMarked
  <2>5. RecordedOnce' /\ LatestOfCSINode'
    BY <1>6, <2>2, <2>3
    DEF Crash, IInv, RecordedOnce, LatestOfCSINode, TypeOK
  <2> QED BY <2>1, <2>3, <2>4, <2>5 DEF IInv, InformerInv
<1>7. CASE UNCHANGED vars
  BY <1>7 DEF vars, IInv, TypeOK, InformerTypeOK, Synced, Observed,
     NothingAhead, RowsPast, Unmarked, RecordedOnce, GoneMarked,
     LatestOfCSINode
<1> QED BY <1>2, <1>3, <1>4, <1>5, <1>6, <1>7, HandleInv DEF Next

LEMMA Invariance == Spec => []IInv
BY InitInv, NextInv, PTL DEF Spec

-----------------------------------------------------------------------------
(* Theorems.                                                               *)

(* The variables keep their types.                                         *)
THEOREM TypeCorrect == Spec => []TypeOK
<1>1. IInv => TypeOK
  BY DEF IInv
<1> QED BY <1>1, Invariance, PTL

(* Every content a ready node was shown with has exactly one row           *)
(* (recorder.go:422-456).                                                  *)
THEOREM RecordedExactlyOnce == Spec => []RecordedOnce
<1>1. IInv => RecordedOnce
  BY DEF IInv
<1> QED BY <1>1, Invariance, PTL

(* A node that is gone is not loaded for any later instant                 *)
(* (recorder.go:477-503, sql.go:145-169).                                  *)
THEOREM GoneIsNotLoaded == Spec => []GoneNotLoaded
<1>1. IInv => GoneNotLoaded
  <2> SUFFICES ASSUME IInv, NEW n \in Names, conn # "down", cache[n] = None,
                      pending[n] = <<>>, ~missed[n]
               PROVE  Loaded(n, now + 1) = None
    BY DEF GoneNotLoaded
  <2>1. ASSUME NEW i \in 1..Len(table[n])
        PROVE  i \notin There(table[n], now + 1)
    <3>1. table[n][i].deleted # 0 /\ table[n][i].deleted <= now
      BY DEF IInv, GoneMarked, RowsPast
    <3>2. table[n][i] \in RowSet /\ now \in Nat
      BY DEF IInv, TypeOK, InformerTypeOK, Time
    <3>3. table[n][i].deleted \in Nat
      BY <3>2 DEF RowSet, Time
    <3> QED BY <3>1, <3>2, <3>3 DEF There
  <2>2. There(table[n], now + 1) = {}
    BY <2>1 DEF There
  <2> QED BY <2>2 DEF Loaded
<1> QED BY <1>1, Invariance, PTL

(* What is loaded of a CSI node is what the cluster holds                  *)
(* (recorder.go:1231-1285, sql.go:145-148).                                *)
THEOREM CSINodeIsLoaded == Spec => []CSINodeLoaded
<1>1. IInv => CSINodeLoaded
  <2> SUFFICES ASSUME IInv, NEW n \in csiNodes, CaughtUp(n), obj[n] # None,
                      ~lost[n]
               PROVE  Loaded(n, now) = obj[n].spec
    BY DEF CSINodeLoaded
  <2>1. n \in Names /\ table[n] \in Seq(RowSet)
    BY DEF IInv, TypeOK
  <2>2. cache[n] = obj[n]
    BY <2>1 DEF IInv, Synced, Observed, CaughtUp
  <2> DEFINE last == Len(table[n])
             I == There(table[n], now)
  <2>3. last \in 1..last
    BY <2>1, <2>2 DEF IInv, LatestOfCSINode
  <2>4. last \in I /\ I \in SUBSET (1..last)
    BY <2>1, <2>2, <2>3 DEF There, IInv, LatestOfCSINode, RowsPast
  <2>5. LatestOf(I) = last
    <3>1. I \in SUBSET Nat /\ \A j \in I : j <= last
      BY <2>4
    <3> HIDE DEF I, last
    <3> QED BY <2>4, <3>1, LatestUnique
  <2> QED BY <2>2, <2>4, <2>5 DEF Loaded, IInv, LatestOfCSINode
<1> QED BY <1>1, Invariance, PTL

(* Of a live node whose name was never removed something is loaded for the *)
(* present.                                                                *)
THEOREM LiveNodeIsLoaded == Spec => []LiveNodeLoaded
<1>1. IInv => LiveNodeLoaded
  <2> SUFFICES ASSUME IInv, NEW n \in Names \ csiNodes, CaughtUp(n), Live(n),
                      ~lost[n], ~removed[n]
               PROVE  Loaded(n, now) # None
    BY DEF LiveNodeLoaded
  <2>1. table[n] \in Seq(RowSet)
    BY DEF IInv, TypeOK
  <2>2. cache[n] = obj[n] /\ cache[n] # None
    BY DEF IInv, Synced, Observed, CaughtUp, Live
  <2>3. PICK i \in 1..Len(table[n]) : table[n][i].hash = cache[n].spec
    BY <2>2 DEF IInv, RecordedOnce, Live
  <2> DEFINE I == There(table[n], now)
  <2>4. i \in I
    BY DEF There, IInv, RowsPast, Unmarked
  <2>5. I \in SUBSET (1..Len(table[n])) /\ I # {} /\ Len(table[n]) \in Nat
    BY <2>1, <2>4 DEF There
  <2>6. LatestOf(I) \in 1..Len(table[n])
    <3> HIDE DEF I
    <3> QED BY <2>5, HasLatest
  <2>7. table[n][LatestOf(I)].hash \in Specs
    <3>1. table[n][LatestOf(I)] \in RowSet
      BY <2>1, <2>6
    <3> QED BY <3>1 DEF RowSet
  <2> QED BY <2>5, <2>7, NoneHashAssumption DEF Loaded
<1> QED BY <1>1, Invariance, PTL

=============================================================================
