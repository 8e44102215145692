----------------------- MODULE MachineRecorder_proofs -----------------------
(***************************************************************************)
(* The properties of MachineRecorder for any number of objects, contents,  *)
(* changes, restarts, watch gaps and failed database calls.                *)
(*                                                                         *)
(* The inductive invariant adds to the types that the queue ends in what   *)
(* the cluster holds while the watch is up (Synced) and that no row is     *)
(* stamped after the present.  The latter is what makes a stored row the   *)
(* content from now on and leaves the past alone.                          *)
(***************************************************************************)
EXTENDS MachineRecorder, Recording_proofs

NoRowAhead ==
    \A n \in Names : \A i \in 1..Len(table[n]) : table[n][i].stamp <= now

IInv ==
    /\ TypeOK
    /\ Synced
    /\ NoRowAhead
    /\ LatestRowCurrent
    /\ GoneMarked

-----------------------------------------------------------------------------
(* Rows and hashes.                                                        *)

LEMMA RowType ==
    ASSUME TypeOK, NEW n \in Names, NEW o \in Object
    PROVE  /\ Hash(n, o) \in HashSet
           /\ Row(n, o) \in RowSet
           /\ Row(n, o).hash = Hash(n, o)
           /\ Row(n, o).stamp = now
<1>1. Hash(n, o) \in HashSet
  BY MaxTimeAssumption DEF Hash, HashSet, Object, Time
<1> QED
  BY <1>1, MaxTimeAssumption
  DEF Row, RowSet, TypeOK, InformerTypeOK, Object, Time

LEMMA AppendedRow ==
    ASSUME TypeOK, NEW n \in Names, NEW o \in Object
    PROVE  /\ Append(table[n], Row(n, o)) \in Seq(RowSet)
           /\ Len(Append(table[n], Row(n, o))) = Len(table[n]) + 1
           /\ \A i \in 1..Len(table[n]) :
                 Append(table[n], Row(n, o))[i] = table[n][i]
           /\ Append(table[n], Row(n, o))[Len(table[n]) + 1] = Row(n, o)
           /\ LatestHashOf(Append(table[n], Row(n, o)), None) = Hash(n, o)
<1> DEFINE row == Row(n, o)
           new == Append(table[n], row)
<1>1. table[n] \in Seq(RowSet) /\ row \in RowSet
  BY RowType DEF TypeOK
<1>2. /\ new \in Seq(RowSet)
      /\ Len(new) = Len(table[n]) + 1
      /\ \A i \in 1..Len(table[n]) : new[i] = table[n][i]
      /\ new[Len(table[n]) + 1] = row
      /\ new # <<>>
  <2> HIDE DEF row
  <2> QED BY <1>1
<1>3. LatestHashOf(new, None) = Hash(n, o)
  <2> HIDE DEF new, row
  <2>1. LatestHashOf(new, None) = row.hash
    BY <1>2 DEF LatestHashOf
  <2> QED BY <2>1, RowType DEF row
<1> QED BY <1>2, <1>3

LEMMA MarkedRows ==
    ASSUME TypeOK, NEW n \in Names, NEW at \in Time
    PROVE  /\ Marked(table[n], at) \in Seq(RowSet)
           /\ Len(Marked(table[n], at)) = Len(table[n])
           /\ \A i \in 1..Len(table[n]) :
                 /\ Marked(table[n], at)[i].stamp = table[n][i].stamp
                 /\ Marked(table[n], at)[i].deleted = at
           /\ \A t : HashAt(Marked(table[n], at), t, None)
                     = HashAt(table[n], t, None)
<1>1. table[n] \in Seq(RowSet)
  BY DEF TypeOK
<1>2. Markable(RowSet, at)
  BY DEF Markable, RowSet
<1> QED BY <1>1, <1>2, MarkedRowsOf

(* What handling a notice may do to the table.                             *)
Appended(n, o) == table' = [table EXCEPT ![n] = Append(@, Row(n, o))]

MarkedAt(n, at) == table' = [table EXCEPT ![n] = Marked(@, at)]

LEMMA HandleEffect ==
    ASSUME IInv, NEW n \in Names, Handle(n)
    PROVE  /\ Deliver(n)
           /\ \/ UNCHANGED table
              \/ \E o \in Object : Appended(n, o)
              \/ \E at \in Time \ {0} : MarkedAt(n, at)
<1>1. Deliver(n)
  BY DEF Handle, OnAdd, OnUpdate, OnDelete
<1>2. Shown(n) \in Object
  BY <1>1, DeliverInv DEF IInv, TypeOK, InformerInv
<1>3. CASE OnAdd(n) \/ OnUpdate(n)
  BY <1>1, <1>2, <1>3 DEF OnAdd, OnUpdate, Process, Appended
<1>4. CASE OnDelete(n)
  <2> DEFINE at == IF Shown(n).deleting # 0 THEN Shown(n).deleting ELSE now
  <2>1. at \in Time \ {0}
    BY <1>2 DEF Object, IInv, TypeOK, InformerTypeOK
  <2>2. MarkedAt(n, at) \/ UNCHANGED table
    BY <1>4 DEF OnDelete, MarkedAt
  <2> QED BY <1>1, <2>1, <2>2
<1> QED BY <1>3, <1>4 DEF Handle

-----------------------------------------------------------------------------
(* Types, and rows stamped by the present at most.                         *)

LEMMA HandleTypes ==
    ASSUME IInv, NEW n \in Names, Handle(n)
    PROVE  TypeOK' /\ Synced' /\ NoRowAhead'
<1>1. Deliver(n)
  BY HandleEffect
<1>2. InformerTypeOK' /\ Synced'
  BY <1>1, DeliverInv DEF IInv, TypeOK, InformerInv
<1>3. lost' \in [Names -> BOOLEAN] /\ missed' \in [Names -> BOOLEAN]
  <2>1. lost \in [Names -> BOOLEAN] /\ missed \in [Names -> BOOLEAN]
    BY DEF IInv, TypeOK
  <2>2. CASE OnAdd(n) \/ OnUpdate(n)
    BY <2>1, <2>2 DEF OnAdd, OnUpdate, Process
  <2>3. CASE OnDelete(n)
    BY <2>1, <2>3 DEF OnDelete
  <2> QED BY <2>2, <2>3 DEF Handle
<1>4. table \in [Names -> Seq(RowSet)] /\ now' = now
  BY <1>1 DEF IInv, TypeOK, Deliver
<1>5. now \in Nat
  BY DEF IInv, TypeOK, InformerTypeOK, Time
<1>6. table' \in [Names -> Seq(RowSet)] /\ NoRowAhead'
  <2>1. CASE UNCHANGED table
    BY <1>4, <2>1 DEF NoRowAhead, IInv
  <2>2. ASSUME NEW o \in Object, Appended(n, o)
        PROVE  table' \in [Names -> Seq(RowSet)] /\ NoRowAhead'
    <3> DEFINE new == Append(table[n], Row(n, o))
    <3>1. table' = [table EXCEPT ![n] = new]
      BY <2>2 DEF Appended
    <3>2. /\ new \in Seq(RowSet)
          /\ Len(new) = Len(table[n]) + 1
          /\ \A i \in 1..Len(table[n]) : new[i] = table[n][i]
          /\ new[Len(table[n]) + 1].stamp = now
      BY AppendedRow, RowType DEF IInv
    <3>3. Len(table[n]) \in Nat
      BY <1>4
    <3> HIDE DEF new
    <3>4. \A i \in 1..Len(new) : new[i].stamp <= now
      BY <1>5, <3>2, <3>3 DEF NoRowAhead, IInv
    <3> QED BY <1>4, <3>1, <3>2, <3>4 DEF NoRowAhead, IInv
  <2>3. ASSUME NEW at \in Time \ {0}, MarkedAt(n, at)
        PROVE  table' \in [Names -> Seq(RowSet)] /\ NoRowAhead'
    <3> DEFINE new == Marked(table[n], at)
    <3>1. table' = [table EXCEPT ![n] = new]
      BY <2>3 DEF MarkedAt
    <3>2. /\ new \in Seq(RowSet)
          /\ Len(new) = Len(table[n])
          /\ \A i \in 1..Len(table[n]) : new[i].stamp = table[n][i].stamp
      BY MarkedRows DEF IInv
    <3> HIDE DEF new
    <3> QED BY <1>4, <3>1, <3>2 DEF NoRowAhead, IInv
  <2> QED BY <2>1, <2>2, <2>3, HandleEffect
<1> QED BY <1>2, <1>3, <1>6 DEF TypeOK

-----------------------------------------------------------------------------
(* The latest row.                                                         *)

(* Whichever way Process goes, the content shown is the latest row or is   *)
(* noted as lost.                                                          *)
LEMMA ProcessCurrent ==
    ASSUME TypeOK, NEW n \in Names, Shown(n) \in Object,
           NEW oldHash, oldHash = LatestHash(n) \/ lost[n],
           Process(n, oldHash)
    PROVE  lost'[n] \/ LatestHash(n)' = Hash(n, Shown(n))
<1> DEFINE o == Shown(n)
<1>1. CASE oldHash = Hash(n, o) /\ UNCHANGED <<table, lost>>
  BY <1>1 DEF LatestHash
<1>2. CASE table' = [table EXCEPT ![n] = Append(@, Row(n, o))]
  <2>1. table'[n] = Append(table[n], Row(n, o))
    BY <1>2 DEF TypeOK
  <2> QED BY <2>1, AppendedRow DEF LatestHash
<1>3. CASE lost' = [lost EXCEPT ![n] = TRUE]
  <2>1. lost'[n]
    BY <1>3 DEF TypeOK
  <2> QED BY <2>1
<1> QED BY <1>1, <1>2, <1>3 DEF Process

LEMMA HandleCurrent ==
    ASSUME IInv, NEW n \in Names, Handle(n)
    PROVE  LatestRowCurrent'
<1>1. /\ Deliver(n)
      /\ Shown(n) \in Object
      /\ cache'[n] = IF Head(pending[n]).gone THEN None ELSE Shown(n)
      /\ \A m \in Names \ {n} : cache'[m] = cache[m]
  BY HandleEffect, DeliverInv DEF IInv, TypeOK, InformerInv
<1>2. ASSUME NEW m \in Names, m # n, cache'[m] # None, ~lost'[m]
      PROVE  LatestHash(m)' = Hash(m, cache[m])'
  <2>1. table'[m] = table[m] /\ lost'[m] = lost[m]
    BY <1>2 DEF Handle, OnAdd, OnUpdate, OnDelete, Process, IInv, TypeOK
  <2>2. LatestHash(m) = Hash(m, cache[m])
    BY <1>1, <1>2, <2>1 DEF IInv, LatestRowCurrent
  <2> QED BY <1>1, <1>2, <2>1, <2>2 DEF LatestHash, Hash
<1>3. ASSUME cache'[n] # None, ~lost'[n]
      PROVE  LatestHash(n)' = Hash(n, cache[n])'
  <2>1. ~Head(pending[n]).gone /\ cache'[n] = Shown(n)
    BY <1>1, <1>3
  <2>2. LatestHash(n)' = Hash(n, Shown(n))
    <3>1. CASE OnAdd(n)
      <4>1. CASE Process(n, LatestHash(n))
        BY <1>1, <1>3, <4>1, ProcessCurrent DEF IInv
      <4>2. CASE lost' = [lost EXCEPT ![n] = TRUE]
        BY <1>3, <4>2 DEF IInv, TypeOK
      <4> QED BY <3>1, <4>1, <4>2 DEF OnAdd
    <3>2. CASE OnUpdate(n)
      <4>1. Process(n, Hash(n, cache[n])) /\ cache[n] # None
        BY <3>2 DEF OnUpdate, IsUpdate
      <4>2. Hash(n, cache[n]) = LatestHash(n) \/ lost[n]
        BY <4>1 DEF IInv, LatestRowCurrent
      <4> QED BY <1>1, <1>3, <4>1, <4>2, ProcessCurrent DEF IInv
    <3>3. CASE OnDelete(n)
      BY <2>1, <3>3 DEF OnDelete, IsDelete
    <3> QED BY <3>1, <3>2, <3>3 DEF Handle
  <2> QED BY <2>1, <2>2 DEF Hash
<1>4. \A m \in Names : cache'[m] # None /\ ~lost'[m]
                       => LatestHash(m)' = Hash(m, cache[m])'
  BY <1>2, <1>3
<1> QED BY <1>4 DEF LatestRowCurrent

-----------------------------------------------------------------------------
(* Deletion marks.                                                         *)

LEMMA HandleMarks ==
    ASSUME IInv, NEW n \in Names, Handle(n)
    PROVE  GoneMarked'
<1>1. /\ Deliver(n)
      /\ Shown(n) \in Object
      /\ cache'[n] = IF Head(pending[n]).gone THEN None ELSE Shown(n)
      /\ \A m \in Names \ {n} : cache'[m] = cache[m]
                                /\ pending'[m] = pending[m]
  BY HandleEffect, DeliverInv DEF IInv, TypeOK, InformerInv
<1> SUFFICES ASSUME NEW m \in Names, cache'[m] = None, pending'[m] = <<>>,
                    ~missed'[m], NEW i \in 1..Len(table'[m])
             PROVE  table'[m][i].deleted # 0
  BY DEF GoneMarked
<1>2. CASE m # n
  <2>1. /\ table'[m] = table[m]
        /\ missed'[m] = missed[m]
        /\ conn # "down"
    BY <1>1, <1>2 DEF Handle, OnAdd, OnUpdate, OnDelete, Process, Deliver,
                      IInv, TypeOK
  <2> QED BY <1>1, <1>2, <2>1 DEF IInv, GoneMarked
<1>3. CASE m = n
  <2>1. Shown(n) # None
    BY <1>1, NoneAssumption
  <2>2. OnDelete(n)
    BY <1>1, <1>3, <2>1 DEF Handle, OnAdd, OnUpdate, IsAdd, IsUpdate
  <2> DEFINE at == IF Shown(n).deleting # 0 THEN Shown(n).deleting ELSE now
  <2>3. at \in Time \ {0}
    BY <1>1 DEF Object, IInv, TypeOK, InformerTypeOK
  <2>4. CASE table' = [table EXCEPT ![n] = Marked(@, at)]
    <3>1. table'[n] = Marked(table[n], at)
      BY <2>4 DEF IInv, TypeOK
    <3> HIDE DEF at
    <3> QED BY <1>3, <2>3, <3>1, MarkedRows DEF IInv
  <2>5. CASE missed' = [missed EXCEPT ![n] = TRUE]
    BY <1>3, <2>5 DEF IInv, TypeOK
  <2> QED BY <2>2, <2>4, <2>5 DEF OnDelete
<1> QED BY <1>2, <1>3

-----------------------------------------------------------------------------
(* The invariant is inductive.                                             *)

LEMMA InitInv == Init => IInv
<1> SUFFICES ASSUME Init PROVE IInv
  OBVIOUS
<1>1. InformerInv
  BY InformerInitInv DEF Init
<1>2. TypeOK
  BY <1>1 DEF Init, InformerInv, TypeOK
<1>3. NoRowAhead /\ LatestRowCurrent /\ GoneMarked
  BY DEF Init, InformerInit, NoRowAhead, LatestRowCurrent, GoneMarked
<1> QED BY <1>1, <1>2, <1>3 DEF IInv, InformerInv

LEMMA NextInv == IInv /\ [Next]_vars => IInv'
<1> SUFFICES ASSUME IInv, [Next]_vars PROVE IInv'
  OBVIOUS
<1>1. InformerInv
  BY DEF IInv, TypeOK, InformerInv
<1>2. /\ now \in Nat
      /\ table \in [Names -> Seq(RowSet)]
      /\ \A n \in Names : \A i \in 1..Len(table[n]) : table[n][i].stamp \in Nat
  <2>1. now \in Nat /\ table \in [Names -> Seq(RowSet)]
    BY DEF IInv, TypeOK, InformerTypeOK, Time
  <2>2. \A n \in Names : \A i \in 1..Len(table[n]) : table[n][i] \in RowSet
    BY <2>1
  <2>3. \A r \in RowSet : r.stamp \in Nat
    BY DEF RowSet, Time
  <2> QED BY <2>1, <2>2, <2>3
<1>3. ASSUME NEW n \in Names, ClusterStep(n) PROVE IInv'
  <2>1. InformerInv'
    BY <1>1, <1>3, ClusterInv DEF ClusterStep
  <2>2. /\ cache' = cache
        /\ conn' = conn
        /\ now' = now + 1
        /\ \A m \in Names : pending'[m] = <<>> => pending[m] = <<>>
    <3>1. PICK o : Change(n, o)
      BY <1>3 DEF ClusterStep, Cluster, Create, Edit, SetReady, BeginDelete,
                  Remove
    <3>2. \A x : Append(pending[n], x) # <<>>
      BY AppendNonEmpty DEF IInv, TypeOK, InformerTypeOK
    <3> QED BY <3>1, <3>2 DEF Change, IInv, TypeOK, InformerTypeOK
  <2>3. TypeOK'
    BY <1>3, <2>1 DEF ClusterStep, TypeOK, IInv, InformerInv
  <2>4. NoRowAhead'
    BY <1>2, <1>3, <2>2 DEF ClusterStep, NoRowAhead, IInv
  <2>5. LatestRowCurrent'
    BY <1>3, <2>2 DEF ClusterStep, LatestRowCurrent, LatestHash, Hash, IInv
  <2>6. GoneMarked'
    BY <1>3, <2>2 DEF ClusterStep, GoneMarked, IInv
  <2> QED BY <2>1, <2>3, <2>4, <2>5, <2>6 DEF IInv, InformerInv
<1>4. ASSUME NEW n \in Names, Handle(n) PROVE IInv'
  BY <1>4, HandleTypes, HandleCurrent, HandleMarks DEF IInv
<1>5. CASE WatchBreaks
  <2>1. InformerInv'
    BY <1>1, <1>5, BreakInv DEF WatchBreaks
  <2> QED
    BY <1>5, <2>1 DEF WatchBreaks, Break, IInv, InformerInv, TypeOK,
       NoRowAhead, LatestRowCurrent, LatestHash, Hash, GoneMarked
<1>6. CASE WatchResumes
  <2>1. InformerInv'
    BY <1>1, <1>6, RelistInv DEF WatchResumes
  <2>2. \A m \in Names : pending'[m] = <<>> => pending[m] = <<>>
    <3>1. \A m \in Names : \A x : Append(pending[m], x) # <<>>
      BY AppendNonEmpty DEF IInv, TypeOK, InformerTypeOK
    <3> QED BY <1>6, <3>1 DEF WatchResumes, Relist
  <2>3. GoneMarked'
    BY <1>6, <2>2 DEF WatchResumes, Relist, GoneMarked, IInv
  <2> QED
    BY <1>6, <2>1, <2>3 DEF WatchResumes, Relist, IInv, InformerInv, TypeOK,
       NoRowAhead, LatestRowCurrent, LatestHash, Hash
<1>7. CASE Start
  <2>1. InformerInv'
    BY <1>1, <1>7, StartInv DEF Start
  <2>2. missed' \in [Names -> BOOLEAN]
    BY <1>7 DEF Start, IInv, TypeOK
  <2>3. ASSUME NEW m \in Names, pending'[m] = <<>>, ~missed'[m]
        PROVE  table'[m] = <<>>
    BY <1>7, <2>3 DEF Start, StartInformer
  <2>4. GoneMarked'
    BY <2>3 DEF GoneMarked
  <2>5. \A m \in Names : cache'[m] = None
    BY <1>7 DEF Start, StartInformer
  <2> QED
    BY <1>7, <2>1, <2>2, <2>4, <2>5 DEF Start, StartInformer, IInv,
       InformerInv, TypeOK, NoRowAhead, LatestRowCurrent
<1>8. CASE Crash
  <2>1. InformerInv'
    BY <1>1, <1>8, StopInv DEF Crash
  <2>2. \A m \in Names : cache'[m] = None
    BY <1>8 DEF Crash, StopInformer
  <2> QED
    BY <1>8, <2>1, <2>2 DEF Crash, StopInformer, IInv, InformerInv, TypeOK,
       NoRowAhead, LatestRowCurrent, GoneMarked
<1>9. CASE UNCHANGED vars
  BY <1>9 DEF vars, IInv, TypeOK, InformerTypeOK, Synced, Observed,
     NoRowAhead, LatestRowCurrent, LatestHash, Hash, GoneMarked
<1> QED BY <1>3, <1>4, <1>5, <1>6, <1>7, <1>8, <1>9 DEF Next

LEMMA Invariance == Spec => []IInv
BY InitInv, NextInv, PTL DEF Spec

-----------------------------------------------------------------------------
(* Theorems.                                                               *)

(* The variables keep their types.                                         *)
THEOREM TypeCorrect == Spec => []TypeOK
<1>1. IInv => TypeOK
  BY DEF IInv
<1> QED BY <1>1, Invariance, PTL

(* The comparison with the old object never skips a change that the table  *)
(* has not (recorder.go:1287-1347).                                        *)
THEOREM LatestRowIsCurrent == Spec => []LatestRowCurrent
<1>1. IInv => LatestRowCurrent
  BY DEF IInv
<1> QED BY <1>1, Invariance, PTL

(* When the queue is handled, the latest row is what the cluster holds.    *)
THEOREM CaughtUp == Spec => []CaughtUpRowCurrent
<1>1. IInv => CaughtUpRowCurrent
  <2> SUFFICES ASSUME IInv, NEW n \in Names, conn = "watching",
                      pending[n] = <<>>, obj[n] # None, ~lost[n]
               PROVE  LatestHash(n) = Hash(n, obj[n])
    BY DEF CaughtUpRowCurrent
  <2>1. cache[n] = obj[n]
    BY DEF IInv, Synced, Observed
  <2> QED BY <2>1 DEF IInv, LatestRowCurrent
<1> QED BY <1>1, Invariance, PTL

(* The rows of a name that is gone are marked as deleted.                  *)
THEOREM GoneIsMarked == Spec => []GoneMarked
<1>1. IInv => GoneMarked
  BY DEF IInv
<1> QED BY <1>1, Invariance, PTL

(* A row is only added for a content that differs from the latest row.     *)
THEOREM OnlyChanges == Spec => OnlyChangesStored
<1> DEFINE Step == \A n \in Names :
                      Len(table'[n]) > Len(table[n]) /\ ~lost[n]
                      => LatestHash(n)' # LatestHash(n)
<1>1. IInv /\ [Next]_vars => Step
  <2> SUFFICES ASSUME IInv, [Next]_vars, NEW n \in Names,
                      Len(table'[n]) > Len(table[n]), ~lost[n]
               PROVE  LatestHash(n)' # LatestHash(n)
    OBVIOUS
  <2>1. table \in [Names -> Seq(RowSet)] /\ Len(table[n]) \in Nat
    BY DEF IInv, TypeOK
  <2>2. table'[n] # table[n]
    BY <2>1
  <2>3. Handle(n)
    <3>1. \A m \in Names : Handle(m) => m = n
      BY <2>1, <2>2 DEF Handle, OnAdd, OnUpdate, OnDelete, Process
    <3> QED BY <2>2, <3>1 DEF Next, vars, ClusterStep, WatchBreaks,
                              WatchResumes, Start, Crash
  <2>4. Shown(n) \in Object
    BY <2>3, HandleEffect, DeliverInv DEF IInv, TypeOK, InformerInv
  <2>5. ~OnDelete(n)
    <3>1. ASSUME NEW at \in Time, MarkedAt(n, at)
          PROVE  Len(table'[n]) = Len(table[n])
      BY <2>1, <3>1, MarkedRows DEF MarkedAt, IInv
    <3>2. ASSUME OnDelete(n) PROVE \E at \in Time : MarkedAt(n, at)
      <4> DEFINE at == IF Shown(n).deleting # 0 THEN Shown(n).deleting
                                                ELSE now
      <4>1. at \in Time
        BY <2>4 DEF Object, IInv, TypeOK, InformerTypeOK
      <4>2. MarkedAt(n, at)
        BY <2>2, <3>2 DEF OnDelete, MarkedAt
      <4> QED BY <4>1, <4>2
    <3> QED BY <2>1, <3>1, <3>2
  <2>6. PICK old : Process(n, old) /\ old = LatestHash(n)
    <3>1. CASE OnAdd(n)
      BY <2>2, <3>1 DEF OnAdd
    <3>2. CASE OnUpdate(n)
      BY <3>2 DEF OnUpdate, IsUpdate, IInv, LatestRowCurrent
    <3> QED BY <2>3, <2>5, <3>1, <3>2 DEF Handle
  <2>7. /\ LatestHash(n) # Hash(n, Shown(n))
        /\ table'[n] = Append(table[n], Row(n, Shown(n)))
    BY <2>1, <2>2, <2>6 DEF Process
  <2> QED BY <2>4, <2>7, AppendedRow DEF LatestHash, IInv
<1>2. IInv /\ [Next]_vars => [Step]_vars
  BY <1>1
<1> QED BY <1>2, Invariance, PTL DEF Spec, OnlyChangesStored

(* What a replay loads for an instant that is past never changes           *)
(* (sql.go:76, 107): the table implements the chronicle.                   *)
THEOREM TableImplementsChronicle == Spec => TableIsChronicle
<1>1. Init => TableChronicle!ChronicleInit
  BY MaxTimeAssumption
  DEF Init, InformerInit, TableChronicle!ChronicleInit, Recorded, HashAt,
      Before, Time
<1>2. IInv /\ [Next]_vars
      => [TableChronicle!ChronicleNext]_(TableChronicle!chronicleVars)
  <2> SUFFICES ASSUME IInv, [Next]_vars
               PROVE  TableChronicle!ChronicleNext
                      \/ UNCHANGED <<now, Recorded>>
    BY DEF TableChronicle!chronicleVars
  <2>1. /\ now \in Nat
        /\ table \in [Names -> Seq(RowSet)]
        /\ \A r \in RowSet : r.stamp \in Nat
        /\ Time \subseteq Nat
    <3>1. Time \subseteq Nat
      BY DEF Time
    <3>2. now \in Nat /\ table \in [Names -> Seq(RowSet)]
      BY <3>1 DEF IInv, TypeOK, InformerTypeOK
    <3>3. \A r \in RowSet : r.stamp \in Time
      BY DEF RowSet
    <3> QED BY <3>1, <3>2, <3>3
  <2>2. CASE UNCHANGED table
    <3>1. UNCHANGED Recorded
      BY <2>2 DEF Recorded
    <3>2. now' = now \/ (now' \in Time /\ now' > now)
      <4>1. TypeOK'
        BY NextInv DEF IInv
      <4>2. now' = now \/ now' = now + 1
        BY DEF Next, vars, ClusterStep, Cluster, Create, Edit, SetReady,
               BeginDelete, Remove, Change, Handle, OnAdd, OnUpdate,
               OnDelete, Deliver, WatchBreaks, Break, WatchResumes, Relist,
               Start, StartInformer, Crash, StopInformer
      <4> QED BY <2>1, <4>1, <4>2 DEF TypeOK, InformerTypeOK
    <3> QED BY <3>1, <3>2 DEF TableChronicle!ChronicleNext,
                              TableChronicle!Pass
  <2>3. ASSUME NEW n \in Names, Handle(n)
        PROVE  TableChronicle!ChronicleNext \/ UNCHANGED <<now, Recorded>>
    <3>1. now' = now
      BY <2>3, HandleEffect DEF Deliver
    <3>2. ASSUME NEW o \in Object, Appended(n, o)
          PROVE  TableChronicle!Record(n, Hash(n, o))
      <4> DEFINE new == Append(table[n], Row(n, o))
      <4>1. table' = [table EXCEPT ![n] = new]
        BY <3>2 DEF Appended
      <4>2. ASSUME NEW t \in Time
            PROVE  HashAt(new, t, None) = IF t >= now THEN Hash(n, o)
                                          ELSE HashAt(table[n], t, None)
        <5> DEFINE row == Row(n, o)
        <5>1. /\ row \in RowSet
              /\ row.stamp = now
              /\ row.hash = Hash(n, o)
          BY RowType DEF IInv
        <5>2. /\ \A i \in 1..Len(table[n]) : table[n][i].stamp <= now
              /\ table[n] \in Seq(RowSet)
              /\ t \in Nat
          BY <2>1 DEF IInv, NoRowAhead
        <5> HIDE DEF row
        <5>3. HashAt(Append(table[n], row), t, None)
              = IF t >= row.stamp THEN row.hash
                ELSE HashAt(table[n], t, None)
          BY <2>1, <5>1, <5>2, HashAtAppend
        <5> QED BY <5>1, <5>3 DEF row
      <4> HIDE DEF new
      <4>3. Recorded' = [m \in Names |-> [t \in Time |->
                            HashAt(table'[m], t, None)]]
        BY DEF Recorded
      <4>4. Recorded' = [Recorded EXCEPT ![n] = [t \in Time |->
                            IF t >= now THEN Hash(n, o)
                            ELSE Recorded[n][t]]]
        BY <2>1, <4>1, <4>2, <4>3 DEF Recorded
      <4> QED BY <3>1, <4>4 DEF TableChronicle!Record
    <3>3. ASSUME NEW at \in Time \ {0}, MarkedAt(n, at)
          PROVE  UNCHANGED Recorded
      <4>1. \A m \in Names : \A t \in Time :
               HashAt(table'[m], t, None) = HashAt(table[m], t, None)
        BY <2>1, <3>3, MarkedRows DEF MarkedAt, IInv
      <4> QED BY <4>1 DEF Recorded
    <3>4. ASSUME NEW o \in Object PROVE Hash(n, o) \in HashSet
      BY RowType DEF IInv
    <3> QED BY <2>2, <2>3, <3>1, <3>2, <3>3, <3>4, HandleEffect
            DEF TableChronicle!ChronicleNext
  <2> QED BY <2>2, <2>3 DEF Next, vars, ClusterStep, WatchBreaks,
                            WatchResumes, Start, Crash
<1> QED
  BY <1>1, <1>2, Invariance, PTL
  DEF Spec, TableIsChronicle, TableChronicle!ChronicleSpec

=============================================================================
