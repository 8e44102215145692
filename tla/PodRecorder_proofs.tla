-------------------------- MODULE PodRecorder_proofs --------------------------
(***************************************************************************)
(* The properties of PodRecorder for any number of pods, priority classes, *)
(* contents, changes, restarts, watch gaps and failed database calls.      *)
(*                                                                         *)
(* That a pod which is gone keeps no unmarked row rests on the queue: the  *)
(* removal a handler is shown is that of the pod it was shown before       *)
(* (Chained), also when pods of one name came and went in gaps of the      *)
(* watch.                                                                  *)
(*                                                                         *)
(* That a pod is loaded with its content although unmarked rows of other   *)
(* pods have its name rests on time: a row is stamped with a transition,   *)
(* and every transition of a pod comes before the creation of its          *)
(* successor.  LoadInv says so of rows, queue and cluster (Seen), and that *)
(* the content last shown is that of the last row of its pod (HasLast).  It*)
(* is inductive in the states of IInv.  A pod of another namespace with the*)
(* name of n can be loaded in its place only if it Shadows n, because every*)
(* other row of its name is marked (ShadowedOnly).                         *)
(***************************************************************************)
EXTENDS PodRecorder, Recording_proofs

(* What the handlers will have been shown of n before its i-th notice.     *)
Behind(n, i) == IF i = 1 THEN cache[n]
                ELSE IF pending[n][i - 1].gone THEN None
                ELSE pending[n][i - 1].obj

ChainedAt(n) ==
    \A i \in 1..Len(pending[n]) :
        pending[n][i].gone =>
            /\ Behind(n, i) # None
            /\ Behind(n, i).created = pending[n][i].obj.created

Chained == \A n \in Names : ChainedAt(n)

(* A row that is left without a mark is that of the pod last shown, or of  *)
(* one that a process which has just started is about to be shown.         *)
Present(n, uid) ==
    \/ cache[n] # None /\ cache[n].created = uid
    \/ pending[n] # <<>> /\ cache[n] = None /\ Shown(n).created = uid

IsRowOf(row, o) == row.created = o.created /\ row.hash = HashOf[o.spec]

Known(rows, o) == \E i \in 1..Len(rows) : IsRowOf(rows[i], o)

UniqueRows(rows) ==
    \A i, j \in 1..Len(rows) :
        rows[i].created = rows[j].created /\ rows[i].hash = rows[j].hash
        => i = j

MarkedUnlessPresent(n) ==
    \A i \in 1..Len(table[n]) :
        \/ table[n][i].deleted # 0
        \/ table[n][i].created \in escaped[n]
        \/ Present(n, table[n][i].created)

(* What ClassLoaded rests on.                                              *)
LatestOfClass(n) ==
    /\ \A i \in 1..Len(table[n]) :
          table[n][i].created <= now /\ table[n][i].deleted = 0
    /\ cache[n] # None /\ cache[n].deleting = 0 /\ ~lost[n]
       => /\ table[n] # <<>>
          /\ table[n][Len(table[n])].hash = HashOf[cache[n].spec]

NameInv(n) ==
    /\ table[n] \in Seq(RowSet)
    /\ n \in Pods => /\ UniqueRows(table[n])
                     /\ Recordable(cache[n]) /\ ~lost[n]
                        => Known(table[n], cache[n])
                     /\ conn # "down" => MarkedUnlessPresent(n)
    /\ n \in priorityClasses => LatestOfClass(n)

IInv ==
    /\ TypeOK
    /\ Synced
    /\ NothingAhead
    /\ Chained
    /\ \A n \in Names : NameInv(n)

(* The row of a pod, which is stamped with its last transition.            *)
PodRow(o) == [hash |-> HashOf[o.spec], created |-> o.created,
              stamp |-> o.touched, finished |-> o.spec \in Finished,
              deleted |-> 0]

(* A row that is stored, or would be of a notice in the queue, when the    *)
(* cluster holds o: it is o's as it was, or that of a pod whose last       *)
(* transition came before o was created.                                   *)
Fits(row, o, t) ==
    /\ 0 < row.created /\ row.created <= row.stamp /\ row.stamp <= t
    /\ o # None =>
          \/ /\ row.created = o.created /\ row.stamp <= o.touched
             /\ row.finished => o.spec \in Finished
             /\ row.deleted = 0
          \/ row.created # o.created /\ row.stamp < o.created

(* A row that comes after another of its pod is not stamped before it.     *)
Follows(later, row) == row.created = later.created => row.stamp <= later.stamp

Aged(o) == o # None => 0 < o.created /\ o.created <= o.touched

(* What the rows of a name, its queue and the cluster tell of its pods, in *)
(* the order in which it happened.                                         *)
RowsFit(rows, o, t) ==
    \A i \in 1..Len(rows) :
        /\ Fits(rows[i], o, t)
        /\ \A j \in 1..(i - 1) : Follows(rows[i], rows[j])

QueueFits(queue, o, t) ==
    \A i \in 1..Len(queue) :
        IF queue[i].gone
        THEN o # None => queue[i].obj.created # o.created
        ELSE /\ Fits(PodRow(queue[i].obj), o, t)
             /\ \A j \in 1..(i - 1) : ~queue[j].gone =>
                   Follows(PodRow(queue[i].obj), PodRow(queue[j].obj))

QueueFollows(rows, queue) ==
    \A i \in 1..Len(rows), j \in 1..Len(queue) :
        ~queue[j].gone => Follows(PodRow(queue[j].obj), rows[i])

Seen(rows, queue, o, t) ==
    /\ Aged(o)
    /\ RowsFit(rows, o, t)
    /\ QueueFits(queue, o, t)
    /\ QueueFollows(rows, queue)

(* The content last shown is that of the last row of its pod.              *)
IsLastOf(rows, i, o) ==
    /\ IsRowOf(rows[i], o)
    /\ \A j \in 1..Len(rows) : rows[j].created = o.created => j <= i

HasLast(rows, o) == \E i \in 1..Len(rows) : IsLastOf(rows, i, o)

(* What PodLoaded rests on.                                                *)
LoadInv ==
    \A n \in Pods :
        /\ Seen(table[n], pending[n], obj[n], now)
        /\ Recordable(cache[n]) /\ ~lost[n] /\ ~returned[n]
           => HasLast(table[n], cache[n])

(* What may become of o when the clock stands at t.                        *)
Later(o, p, t) ==
    p # None =>
        /\ Aged(p)
        /\ \/ /\ o # None /\ p.created = o.created /\ o.touched <= p.touched
              /\ o.spec \in Finished => p.spec \in Finished
           \/ o = None /\ t < p.created

-----------------------------------------------------------------------------
(* The queue.                                                              *)

LEMMA AppendChained ==
    ASSUME InformerTypeOK, NEW n \in Names, ChainedAt(n), NEW x \in Notice,
           x.gone => /\ Observed(n) # None
                     /\ Observed(n).created = x.obj.created,
           pending'[n] = Append(pending[n], x), cache'[n] = cache[n]
    PROVE  ChainedAt(n)'
<1> DEFINE old == pending[n]
           new == Append(old, x)
<1>1. /\ old \in Seq(Notice)
      /\ Len(new) = Len(old) + 1 /\ Len(old) \in Nat
      /\ \A i \in 1..Len(old) : new[i] = old[i]
      /\ new[Len(old) + 1] = x
  BY DEF InformerTypeOK
<1>2. ASSUME NEW i \in 1..Len(old)
      PROVE  Behind(n, i)' = Behind(n, i) /\ new[i] = old[i]
  <2>1. i = 1 \/ i - 1 \in 1..Len(old)
    BY <1>1
  <2> QED BY <1>1, <2>1 DEF Behind
<1>3. ASSUME NEW k \in Nat, k = Len(old) + 1
      PROVE  Behind(n, k)' = Observed(n)
  <2>1. CASE Len(old) = 0
    <3>1. k = 1 /\ old = <<>>
      BY <1>1, <1>3, <2>1
    <3> QED BY <3>1 DEF Behind, Observed
  <2>2. CASE Len(old) # 0
    <3>1. /\ Len(old) \in 1..Len(old)
          /\ old # <<>>
          /\ k # 1
          /\ k - 1 = Len(old)
      BY <1>1, <1>3, <2>2
    <3>2. pending'[n][k - 1] = old[Len(old)]
      BY <1>1, <3>1
    <3> QED BY <3>1, <3>2 DEF Behind, Observed
  <2> QED BY <2>1, <2>2
<1>4. pending'[n] = new
  OBVIOUS
<1> HIDE DEF new, old
<1>5. ASSUME NEW i \in 1..Len(new), new[i].gone
      PROVE  /\ Behind(n, i)' # None
             /\ Behind(n, i)'.created = new[i].obj.created
  <2>1. CASE i \in 1..Len(old)
    BY <1>2, <1>5, <2>1 DEF ChainedAt, old
  <2>2. CASE i = Len(old) + 1
    <3>1. Behind(n, i)' = Observed(n)
      BY <1>1, <1>3, <2>2
    <3> QED BY <1>1, <1>5, <2>2, <3>1
  <2> QED BY <1>1, <2>1, <2>2
<1> QED BY <1>4, <1>5 DEF ChainedAt

LEMMA ChangeChained ==
    ASSUME InformerInv, Chained, NEW n \in Names, NEW o \in Object \cup {None},
           obj[n] \in Object \/ o # None, Change(n, o)
    PROVE  Chained'
<1> USE DEF InformerInv
<1> SUFFICES ASSUME NEW m \in Names PROVE ChainedAt(m)'
  BY DEF Chained
<1>1. cache' = cache /\ ChainedAt(m)
  BY DEF Change, Chained
<1>2. CASE conn # "watching" \/ m # n
  <2>1. pending'[m] = pending[m]
    BY <1>2 DEF Change, InformerTypeOK
  <2> QED BY <1>1, <2>1 DEF ChainedAt, Behind
<1>3. CASE conn = "watching" /\ m = n
  <2> DEFINE x == IF o = None THEN Gone(obj[n]) ELSE Put(o)
  <2>1. pending'[n] = Append(pending[n], x)
    BY <1>3 DEF Change, InformerTypeOK
  <2>2. /\ x \in Notice
        /\ x.gone => obj[n] # None /\ x.obj = obj[n]
    BY PutType, NoneAssumption
  <2>3. Observed(n) = obj[n]
    BY <1>3 DEF Synced
  <2> HIDE DEF x
  <2> QED BY <1>1, <1>3, <2>1, <2>2, <2>3, AppendChained
<1> QED BY <1>2, <1>3

LEMMA RelistChained ==
    ASSUME InformerInv, Chained, Relist
    PROVE  Chained'
<1> USE DEF InformerInv
<1> SUFFICES ASSUME NEW m \in Names PROVE ChainedAt(m)'
  BY DEF Chained
<1>1. cache' = cache /\ ChainedAt(m)
  BY DEF Relist, Chained
<1>2. CASE obj[m] = Observed(m)
  <2>1. pending'[m] = pending[m]
    BY <1>2 DEF Relist
  <2> QED BY <1>1, <2>1 DEF ChainedAt, Behind
<1>3. CASE obj[m] # Observed(m)
  <2> DEFINE x == IF obj[m] = None THEN Gone(Observed(m)) ELSE Put(obj[m])
  <2>1. pending'[m] = Append(pending[m], x)
    BY <1>3 DEF Relist
  <2>2. obj[m] \in Object \cup {None} /\ Observed(m) \in Object \cup {None}
    BY ObservedType DEF InformerTypeOK
  <2>3. /\ x \in Notice
        /\ x.gone => Observed(m) # None /\ x.obj = Observed(m)
    BY <1>3, <2>2, PutType, NoneAssumption
  <2> HIDE DEF x
  <2> QED BY <1>1, <2>1, <2>3, AppendChained
<1> QED BY <1>2, <1>3

LEMMA DeliverChained ==
    ASSUME InformerInv, Chained, NEW n \in Names, Deliver(n)
    PROVE  /\ Chained'
           /\ Head(pending[n]).gone =>
                 /\ cache[n] # None
                 /\ cache[n].created = Shown(n).created
<1> USE DEF InformerInv
<1> DEFINE old == pending[n]
           new == Tail(old)
<1>1. /\ old \in Seq(Notice) /\ old # <<>>
      /\ Head(old) = old[1] /\ 1 \in 1..Len(old)
      /\ Len(new) = Len(old) - 1
      /\ \A i \in 1..Len(new) : new[i] = old[i + 1]
      /\ Len(old) \in Nat
  BY DEF InformerTypeOK, Deliver
<1>2. /\ pending'[n] = new
      /\ cache'[n] = IF old[1].gone THEN None ELSE old[1].obj
      /\ \A m \in Names \ {n} : /\ cache'[m] = cache[m]
                                /\ pending'[m] = pending[m]
  BY <1>1, DeliverInv DEF Shown, Deliver, InformerTypeOK
<1>3. ChainedAt(n)
  BY DEF Chained
<1>4. old[1].gone => cache[n] # None /\ cache[n].created = old[1].obj.created
  BY <1>1, <1>3 DEF ChainedAt, Behind
<1>5. ASSUME NEW i \in 1..Len(new), new[i].gone
      PROVE  /\ Behind(n, i)' # None
             /\ Behind(n, i)'.created = new[i].obj.created
  <2>1. /\ i + 1 \in 1..Len(old) /\ new[i] = old[i + 1]
        /\ i + 1 # 1 /\ (i + 1) - 1 = i
    BY <1>1
  <2>2. /\ Behind(n, i + 1) # None
        /\ Behind(n, i + 1).created = old[i + 1].obj.created
    BY <1>3, <1>5, <2>1 DEF ChainedAt
  <2>3. Behind(n, i + 1) = IF old[i].gone THEN None ELSE old[i].obj
    BY <2>1 DEF Behind
  <2>4. Behind(n, i)' = Behind(n, i + 1)
    <3>1. CASE i = 1
      BY <1>2, <2>3, <3>1 DEF Behind
    <3>2. CASE i # 1
      <4>1. i - 1 \in 1..Len(new) /\ (i - 1) + 1 = i
        BY <1>1, <3>2
      <4>2. pending'[n][i - 1] = old[i]
        BY <1>1, <1>2, <4>1
      <4> QED BY <2>3, <3>2, <4>2 DEF Behind
    <3> QED BY <3>1, <3>2
  <2> QED BY <2>1, <2>2, <2>4
<1>6. ChainedAt(n)'
  <2> HIDE DEF new
  <2> QED BY <1>2, <1>5 DEF ChainedAt
<1>7. ASSUME NEW m \in Names, m # n PROVE ChainedAt(m)'
  BY <1>2, <1>7 DEF Chained, ChainedAt, Behind
<1> QED BY <1>1, <1>4, <1>6, <1>7 DEF Chained, Shown

LEMMA StartChained == ASSUME StartInformer PROVE Chained'
<1> SUFFICES ASSUME NEW n \in Names, NEW i \in 1..Len(pending'[n]),
                    pending'[n][i].gone
             PROVE  FALSE
  BY DEF Chained, ChainedAt
<1>1. pending'[n] = IF obj[n] = None THEN <<>> ELSE <<Put(obj[n])>>
  BY DEF StartInformer
<1>2. pending'[n] = <<Put(obj[n])>> /\ i = 1
  BY <1>1
<1> QED BY <1>2 DEF Put

LEMMA StopChained == ASSUME StopInformer PROVE Chained'
BY DEF Chained, ChainedAt, StopInformer

-----------------------------------------------------------------------------
(* Rows.                                                                   *)

LEMMA RowNumbers ==
    ASSUME NEW row \in RowSet
    PROVE  row.created \in Nat /\ row.stamp \in Nat
BY MaxTimeAssumption DEF RowSet, Time

LEMMA ObjectNumbers ==
    ASSUME NEW o \in Object
    PROVE  o.created \in Nat /\ o.touched \in Nat
BY MaxTimeAssumption DEF Object, Time

LEMMA PodRowType ==
    ASSUME NEW o \in Object
    PROVE  /\ PodRow(o) \in RowSet
           /\ PodRow(o).created = o.created /\ PodRow(o).stamp = o.touched
           /\ PodRow(o).deleted = 0
           /\ PodRow(o).finished <=> o.spec \in Finished
<1>1. /\ HashOf[o.spec] \in Specs /\ 0 \in Time
      /\ o.created \in Time /\ o.touched \in Time
  BY ContentAssumption, MaxTimeAssumption DEF Object, Time
<1>2. (o.spec \in Finished) \in BOOLEAN
  OBVIOUS
<1> DEFINE f == o.spec \in Finished
<1>3. [hash |-> HashOf[o.spec], created |-> o.created, stamp |-> o.touched,
       finished |-> f, deleted |-> 0] \in RowSet
  <2> HIDE DEF f
  <2> QED BY <1>1, <1>2 DEF RowSet, f
<1> QED BY <1>3 DEF PodRow

LEMMA RowType ==
    ASSUME TypeOK, NEW n \in Names, NEW o \in Object, PastAt(o, now)
    PROVE  /\ Row(n, o) \in RowSet
           /\ Row(n, o).hash = HashOf[o.spec]
           /\ Row(n, o).created = o.created /\ o.created <= now
           /\ Row(n, o).deleted = 0
<1>1. HashOf[o.spec] \in Specs
  BY ContentAssumption DEF Object
<1> QED
  BY <1>1, MaxTimeAssumption
  DEF Row, RowSet, TypeOK, InformerTypeOK, Object, Time, PastAt

LEMMA AppendedRow ==
    ASSUME TypeOK, NEW n \in Names, NEW o \in Object, PastAt(o, now)
    PROVE  /\ Append(table[n], Row(n, o)) \in Seq(RowSet)
           /\ Append(table[n], Row(n, o)) # <<>>
           /\ Len(Append(table[n], Row(n, o))) = Len(table[n]) + 1
           /\ \A i \in 1..Len(table[n]) :
                 Append(table[n], Row(n, o))[i] = table[n][i]
           /\ Append(table[n], Row(n, o))[Len(table[n]) + 1] = Row(n, o)
<1> DEFINE row == Row(n, o)
<1>1. table[n] \in Seq(RowSet) /\ row \in RowSet
  BY RowType DEF TypeOK
<1> HIDE DEF row
<1>2. /\ Append(table[n], row) \in Seq(RowSet)
      /\ Append(table[n], row) # <<>>
      /\ Len(Append(table[n], row)) = Len(table[n]) + 1
      /\ \A i \in 1..Len(table[n]) : Append(table[n], row)[i] = table[n][i]
      /\ Append(table[n], row)[Len(table[n]) + 1] = row
  BY <1>1
<1> QED BY <1>2 DEF row

(* A row of a content that no row has keeps the rows apart.                *)
LEMMA AppendUnique ==
    ASSUME NEW rows \in Seq(RowSet), UniqueRows(rows), NEW row \in RowSet,
           NEW o, IsRowOf(row, o), ~Known(rows, o)
    PROVE  UniqueRows(Append(rows, row))
<1> DEFINE new == Append(rows, row)
<1>1. /\ Len(new) = Len(rows) + 1 /\ Len(rows) \in Nat
      /\ \A i \in 1..Len(rows) : new[i] = rows[i]
      /\ new[Len(rows) + 1] = row
  OBVIOUS
<1> HIDE DEF new
<1> SUFFICES ASSUME NEW i \in 1..Len(new), NEW j \in 1..Len(new),
                    new[i].created = new[j].created, new[i].hash = new[j].hash
             PROVE  i = j
  BY DEF UniqueRows, new
<1>2. \A k \in 1..Len(new) : k \in 1..Len(rows) \/ k = Len(rows) + 1
  BY <1>1
<1>3. \A k \in 1..Len(rows) : rows[k].created # row.created
                              \/ rows[k].hash # row.hash
  BY DEF Known, IsRowOf
<1>4. CASE i \in 1..Len(rows) /\ j \in 1..Len(rows)
  BY <1>1, <1>4 DEF UniqueRows
<1>5. CASE i \in 1..Len(rows) /\ j = Len(rows) + 1
  BY <1>1, <1>3, <1>5
<1>6. CASE i = Len(rows) + 1 /\ j \in 1..Len(rows)
  BY <1>1, <1>3, <1>6
<1> QED BY <1>2, <1>4, <1>5, <1>6

(* Marking the rows of one pod changes their marks only.                   *)
LEMMA MarkedRows ==
    ASSUME NEW rows \in Seq(RowSet), NEW o \in Object
    PROVE  /\ MarkedUID(rows, o) \in Seq(RowSet)
           /\ Len(MarkedUID(rows, o)) = Len(rows)
           /\ \A i \in 1..Len(rows) :
                 /\ MarkedUID(rows, o)[i].hash = rows[i].hash
                 /\ MarkedUID(rows, o)[i].created = rows[i].created
                 /\ MarkedUID(rows, o)[i].deleted =
                        IF rows[i].created = o.created THEN o.deleting
                        ELSE rows[i].deleted
<1> DEFINE new(i) == IF rows[i].created = o.created
                     THEN [rows[i] EXCEPT !.deleted = o.deleting]
                     ELSE rows[i]
<1>1. ASSUME NEW i \in 1..Len(rows)
      PROVE  /\ new(i) \in RowSet
             /\ new(i).hash = rows[i].hash
             /\ new(i).created = rows[i].created
             /\ new(i).deleted = IF rows[i].created = o.created
                                 THEN o.deleting ELSE rows[i].deleted
  <2>1. rows[i] \in RowSet /\ o.deleting \in Time
    BY DEF Object
  <2> QED BY <2>1 DEF RowSet
<1>2. MarkedUID(rows, o) = [i \in 1..Len(rows) |-> new(i)]
  BY DEF MarkedUID
<1>3. Len(rows) \in Nat
  OBVIOUS
<1> HIDE DEF new
<1>4. MarkedUID(rows, o) \in Seq(RowSet) /\ Len(MarkedUID(rows, o)) = Len(rows)
  BY <1>1, <1>2, <1>3
<1> QED BY <1>1, <1>2, <1>4

(* Their stamps and phases stay as they are.                               *)
LEMMA MarkedStamps ==
    ASSUME NEW rows \in Seq(RowSet), NEW o \in Object
    PROVE  \A i \in 1..Len(rows) :
              /\ MarkedUID(rows, o)[i].stamp = rows[i].stamp
              /\ MarkedUID(rows, o)[i].finished <=> rows[i].finished
<1> SUFFICES ASSUME NEW i \in 1..Len(rows)
             PROVE  /\ MarkedUID(rows, o)[i].stamp = rows[i].stamp
                    /\ MarkedUID(rows, o)[i].finished <=> rows[i].finished
  OBVIOUS
<1>1. rows[i] \in RowSet
  OBVIOUS
<1>2. MarkedUID(rows, o)[i] = IF rows[i].created = o.created
                              THEN [rows[i] EXCEPT !.deleted = o.deleting]
                              ELSE rows[i]
  BY DEF MarkedUID
<1>3. /\ [rows[i] EXCEPT !.deleted = o.deleting].stamp = rows[i].stamp
      /\ [rows[i] EXCEPT !.deleted = o.deleting].finished = rows[i].finished
  BY <1>1 DEF RowSet
<1> QED BY <1>2, <1>3

-----------------------------------------------------------------------------
(* The invariant over a step of a handler.                                 *)

LEMMA HandleFrame ==
    ASSUME IInv, NEW n \in Names, Handle(n)
    PROVE  /\ Deliver(n)
           /\ InformerInv' /\ NothingAhead' /\ Chained'
           /\ Shown(n) \in Object
           /\ PastAt(Shown(n), now)
           /\ cache'[n] = IF Head(pending[n]).gone THEN None ELSE Shown(n)
           /\ Head(pending[n]).gone => /\ cache[n] # None
                                       /\ cache[n].created = Shown(n).created
           /\ \A m \in Names \ {n} : /\ cache'[m] = cache[m]
                                     /\ pending'[m] = pending[m]
                                     /\ table'[m] = table[m]
                                     /\ lost'[m] = lost[m]
                                     /\ escaped'[m] = escaped[m]
           /\ now' = now
           /\ conn' = conn /\ conn # "down"
           /\ priorityClasses' = priorityClasses
           /\ lost' \in [Names -> BOOLEAN]
           /\ returned' \in [Names -> BOOLEAN]
           /\ escaped' \in [Names -> SUBSET Time]
           /\ escaped[n] \subseteq escaped'[n]
<1>1. Deliver(n) /\ priorityClasses' = priorityClasses
  BY DEF Handle, OnPutPod, OnPutClass, OnDeletePod, NoHandler, ownVars
<1>2. InformerInv
  BY DEF IInv, TypeOK, InformerInv
<1>3. /\ table \in [Names -> Seq(RowSet)]
      /\ lost \in [Names -> BOOLEAN]
      /\ returned \in [Names -> BOOLEAN]
      /\ escaped \in [Names -> SUBSET Time]
  BY DEF IInv, TypeOK
<1>4. Superseded(n) \in BOOLEAN
  BY DEF Superseded
<1>5. /\ lost' \in [Names -> BOOLEAN]
      /\ returned' \in [Names -> BOOLEAN]
      /\ \A m \in Names \ {n} : /\ lost'[m] = lost[m]
                                /\ table'[m] = table[m]
  BY <1>3, <1>4
  DEF Handle, OnPutPod, OnPutClass, OnDeletePod, NoHandler, Store, ownVars
<1>6. Shown(n) \in Object /\ cache[n] \in Object \cup {None}
  BY <1>1, <1>2, DeliverInv DEF InformerInv, InformerTypeOK
<1>7. Replaced(n) \in SUBSET Time /\ {Shown(n).created} \in SUBSET Time
  BY <1>6 DEF Replaced, IsUpdate, Object
<1>8. \/ UNCHANGED escaped
      \/ escaped' = [escaped EXCEPT ![n] = @ \cup Replaced(n)]
      \/ escaped' = [escaped EXCEPT ![n] = @ \cup {Shown(n).created}]
  BY DEF Handle, OnPutPod, OnPutClass, OnDeletePod, NoHandler, ownVars
<1>9. /\ escaped' \in [Names -> SUBSET Time]
      /\ escaped[n] \subseteq escaped'[n]
      /\ \A m \in Names \ {n} : escaped'[m] = escaped[m]
  <2>1. escaped[n] \in SUBSET Time
    BY <1>3
  <2>2. escaped[n] \cup Replaced(n) \in SUBSET Time
        /\ escaped[n] \cup {Shown(n).created} \in SUBSET Time
    BY <1>7, <2>1
  <2> QED BY <1>3, <1>8, <2>2
<1>10. conn' = conn /\ conn # "down" /\ now' = now
  BY <1>1 DEF Deliver
<1> QED BY <1>1, <1>2, <1>5, <1>6, <1>9, <1>10, DeliverInv, DeliverPast,
           DeliverChained DEF IInv

(* A handler that was shown a pod or a class.                              *)
LEMMA PutFrame ==
    ASSUME IInv, NEW n \in Names, OnPutPod(n) \/ OnPutClass(n)
    PROVE  /\ Shown(n) \in Object /\ PastAt(Shown(n), now)
           /\ cache'[n] = Shown(n) /\ cache'[n] # None
           /\ now' = now /\ conn' = conn /\ conn # "down"
           /\ priorityClasses' = priorityClasses /\ Pods' = Pods
           /\ escaped[n] \subseteq escaped'[n]
<1>1. Handle(n) /\ ~Head(pending[n]).gone
  BY DEF Handle, OnPutPod, OnPutClass, HasPut, IsAdd, IsUpdate
<1> QED BY <1>1, HandleFrame, NoneAssumption DEF Pods

(* The rows without a mark are those of the pod that is shown, once the    *)
(* one it replaced is written off.                                         *)
LEMMA PutPresent ==
    ASSUME IInv, NEW n \in Pods, OnPutPod(n) \/ OnPutClass(n),
           NEW i \in 1..Len(table[n])
    PROVE  \/ table[n][i].deleted # 0
           \/ table[n][i].created \in escaped'[n]
           \/ table[n][i].created = Shown(n).created
<1>1. n \in Names /\ OnPutPod(n)
  BY DEF Pods, OnPutClass
<1>2. MarkedUnlessPresent(n)
  BY <1>1, PutFrame DEF IInv, NameInv
<1>3. /\ escaped' = [escaped EXCEPT ![n] = @ \cup Replaced(n)]
      /\ escaped \in [Names -> SUBSET Time]
      /\ IsAdd(n) \/ IsUpdate(n)
  BY <1>1 DEF OnPutPod, HasPut, IInv, TypeOK
<1>4. escaped'[n] = escaped[n] \cup Replaced(n)
  BY <1>1, <1>3
<1>5. CASE IsAdd(n)
  BY <1>2, <1>4, <1>5 DEF MarkedUnlessPresent, Present, IsAdd
<1>6. CASE IsUpdate(n)
  BY <1>2, <1>4, <1>6 DEF MarkedUnlessPresent, Present, IsUpdate, Replaced
<1> QED BY <1>3, <1>5, <1>6

(* ... and stores its row.                                                 *)
LEMMA StoreKeeps ==
    ASSUME IInv, NEW n \in Names, OnPutPod(n) \/ OnPutClass(n),
           n \in Pods => ~IsKnown(n),
           table' = [table EXCEPT ![n] = Append(@, Row(n, Shown(n)))]
    PROVE  NameInv(n)'
<1> DEFINE o == Shown(n)
           old == table[n]
           row == Row(n, o)
           new == Append(old, row)
<1>1. /\ o \in Object /\ PastAt(o, now)
      /\ cache'[n] = o /\ cache'[n] # None
      /\ now' = now /\ conn' = conn /\ conn # "down"
      /\ priorityClasses' = priorityClasses /\ Pods' = Pods
      /\ escaped[n] \subseteq escaped'[n]
  BY PutFrame
<1>2. table'[n] = new /\ old \in Seq(RowSet) /\ Len(old) \in Nat
  BY DEF IInv, TypeOK
<1>3. /\ row \in RowSet
      /\ row.hash = HashOf[o.spec]
      /\ row.created = o.created /\ o.created <= now
      /\ row.deleted = 0
      /\ new \in Seq(RowSet)
      /\ new # <<>>
      /\ Len(new) = Len(old) + 1
      /\ \A i \in 1..Len(old) : new[i] = old[i]
      /\ new[Len(old) + 1] = row
  BY <1>1, AppendedRow, RowType DEF IInv
<1>4. NameInv(n)
  BY DEF IInv
<1>5. n \in Pods => ~Known(old, o)
  BY DEF IsKnown, Known, IsRowOf
<1>6. IsRowOf(row, o)
  BY <1>3 DEF IsRowOf
<1>7. n \in Pods => UniqueRows(new)
  BY <1>2, <1>3, <1>4, <1>5, <1>6, AppendUnique DEF NameInv
<1>8. \A i \in 1..Len(old) : n \in Pods =>
         \/ old[i].deleted # 0
         \/ old[i].created \in escaped'[n]
         \/ old[i].created = o.created
  BY PutPresent
<1> HIDE DEF o, old, row, new
<1>9. /\ \A i \in 1..Len(new) : i \in 1..Len(old) \/ i = Len(old) + 1
      /\ Len(old) + 1 \in 1..Len(new) /\ Len(new) = Len(old) + 1
  BY <1>2, <1>3
<1>10. Known(new, o)
  BY <1>3, <1>6, <1>9 DEF Known
<1>11. n \in Pods => MarkedUnlessPresent(n)'
  BY <1>1, <1>2, <1>3, <1>8, <1>9 DEF MarkedUnlessPresent, Present
<1>12. n \in priorityClasses => LatestOfClass(n)'
  <2> SUFFICES ASSUME n \in priorityClasses PROVE LatestOfClass(n)'
    OBVIOUS
  <2>1. \A i \in 1..Len(old) : old[i].created <= now /\ old[i].deleted = 0
    BY <1>4 DEF NameInv, LatestOfClass, old
  <2>2. \A i \in 1..Len(new) : new[i].created <= now /\ new[i].deleted = 0
    BY <1>3, <1>9, <2>1
  <2> QED BY <1>1, <1>2, <1>3, <1>9, <2>2 DEF LatestOfClass
<1> QED BY <1>1, <1>2, <1>3, <1>7, <1>10, <1>11, <1>12 DEF NameInv

LEMMA PutKeeps ==
    ASSUME IInv, NEW n \in Names, OnPutPod(n) \/ OnPutClass(n)
    PROVE  NameInv(n)'
<1> DEFINE o == Shown(n)
<1>1. /\ o \in Object
      /\ cache'[n] = o /\ cache'[n] # None
      /\ now' = now /\ conn' = conn /\ conn # "down"
      /\ priorityClasses' = priorityClasses /\ Pods' = Pods
  BY PutFrame
<1>2. NameInv(n) /\ lost \in [Names -> BOOLEAN]
  BY DEF IInv, TypeOK
<1>3. CASE /\ n \in Pods => ~IsKnown(n)
           /\ table' = [table EXCEPT ![n] = Append(@, Row(n, Shown(n)))]
  BY <1>3, StoreKeeps
<1>4. CASE /\ UNCHANGED table
           /\ \/ lost' = [lost EXCEPT ![n] = TRUE]
              \/ o.deleting # 0 \/ (n \in Pods /\ o.spec \in Undetermined)
              \/ n \in Pods /\ IsKnown(n)
  <2>1. n \in Pods => MarkedUnlessPresent(n)'
    BY <1>1, <1>4, PutPresent DEF MarkedUnlessPresent, Present
  <2>2. CASE lost' = [lost EXCEPT ![n] = TRUE]
    <3>1. lost'[n]
      BY <1>2, <2>2
    <3> QED BY <1>1, <1>2, <1>4, <2>1, <3>1 DEF NameInv, LatestOfClass
  <2>3. CASE o.deleting # 0 \/ (n \in Pods /\ o.spec \in Undetermined)
    BY <1>1, <1>2, <1>4, <2>1, <2>3
    DEF NameInv, LatestOfClass, Recordable, Pods
  <2>4. CASE n \in Pods /\ IsKnown(n)
    <3>1. Known(table[n], o)
      BY <2>4 DEF IsKnown, Known, IsRowOf
    <3> QED BY <1>1, <1>2, <1>4, <2>1, <2>4, <3>1 DEF NameInv, Pods
  <2> QED BY <1>4, <2>2, <2>3, <2>4
<1>5. \/ /\ n \in Pods => ~IsKnown(n)
         /\ table' = [table EXCEPT ![n] = Append(@, Row(n, Shown(n)))]
      \/ /\ UNCHANGED table
         /\ \/ lost' = [lost EXCEPT ![n] = TRUE]
            \/ o.deleting # 0 \/ (n \in Pods /\ o.spec \in Undetermined)
            \/ n \in Pods /\ IsKnown(n)
  <2>1. CASE OnPutPod(n)
    BY <2>1 DEF OnPutPod, Store
  <2>2. CASE OnPutClass(n)
    BY <2>2 DEF OnPutClass, Store, Pods
  <2> QED BY <2>1, <2>2
<1> HIDE DEF o
<1> QED BY <1>3, <1>4, <1>5

LEMMA DeleteKeeps ==
    ASSUME IInv, NEW n \in Names, OnDeletePod(n) \/ NoHandler(n)
    PROVE  NameInv(n)'
<1> DEFINE o == Shown(n)
<1>1. Handle(n) /\ Head(pending[n]).gone
  BY DEF Handle, OnDeletePod, NoHandler, IsDelete
<1>2. /\ o \in Object
      /\ cache'[n] = None
      /\ cache[n] # None /\ cache[n].created = o.created
      /\ now' = now /\ priorityClasses' = priorityClasses /\ Pods' = Pods
      /\ conn # "down"
  BY <1>1, HandleFrame DEF Pods
<1>3. NameInv(n) /\ table[n] \in Seq(RowSet)
  BY DEF IInv, TypeOK
<1>4. CASE NoHandler(n)
  <2>1. n \notin Pods /\ UNCHANGED <<table, lost>>
    BY <1>4 DEF NoHandler, ownVars, Pods
  <2> QED BY <1>2, <1>3, <2>1 DEF NameInv, LatestOfClass
<1>5. CASE OnDeletePod(n)
  <2>1. n \in Pods /\ MarkedUnlessPresent(n)
    BY <1>2, <1>3, <1>5 DEF OnDeletePod, NameInv
  <2>2. \A i \in 1..Len(table[n]) : \/ table[n][i].deleted # 0
                                   \/ table[n][i].created \in escaped[n]
                                   \/ table[n][i].created = o.created
    BY <1>2, <2>1 DEF MarkedUnlessPresent, Present
  <2>3. CASE /\ o.deleting # 0
             /\ table' = [table EXCEPT ![n] = MarkedUID(@, o)]
             /\ UNCHANGED escaped
    <3> DEFINE new == MarkedUID(table[n], o)
    <3>1. table'[n] = new
      BY <2>3 DEF IInv, TypeOK
    <3>2. /\ new \in Seq(RowSet)
          /\ Len(new) = Len(table[n])
          /\ \A i \in 1..Len(table[n]) :
                /\ new[i].hash = table[n][i].hash
                /\ new[i].created = table[n][i].created
                /\ new[i].deleted = IF table[n][i].created = o.created
                                    THEN o.deleting ELSE table[n][i].deleted
      BY <1>2, <1>3, MarkedRows
    <3> HIDE DEF new, o
    <3>3. MarkedUnlessPresent(n)'
      BY <2>2, <2>3, <3>1, <3>2 DEF MarkedUnlessPresent
    <3>4. UniqueRows(new)
      BY <1>3, <2>1, <3>2 DEF NameInv, UniqueRows
    <3> QED BY <1>2, <2>1, <3>1, <3>2, <3>3, <3>4
            DEF NameInv, Recordable, Pods
  <2>4. CASE /\ escaped' = [escaped EXCEPT ![n] = @ \cup {o.created}]
             /\ UNCHANGED table
    <3>1. escaped'[n] = escaped[n] \cup {o.created}
      BY <2>4 DEF IInv, TypeOK
    <3>2. MarkedUnlessPresent(n)'
      BY <2>2, <2>4, <3>1 DEF MarkedUnlessPresent
    <3> QED BY <1>2, <1>3, <2>1, <2>4, <3>2 DEF NameInv, Recordable, Pods
  <2> QED BY <1>5, <2>3, <2>4 DEF OnDeletePod
<1> QED BY <1>4, <1>5

LEMMA HandleInv ==
    ASSUME IInv, NEW n \in Names, Handle(n)
    PROVE  IInv'
<1>1. NameInv(n)'
  BY PutKeeps, DeleteKeeps DEF Handle
<1>2. ASSUME NEW m \in Names, m # n PROVE NameInv(m)'
  <2>1. NameInv(m)
    BY DEF IInv
  <2>2. Shown(m)' = Shown(m) /\ Pods' = Pods
    BY <1>2, HandleFrame DEF Shown, Pods
  <2> QED BY <1>2, <2>1, <2>2, HandleFrame
          DEF NameInv, LatestOfClass, MarkedUnlessPresent, Present
<1>3. \A m \in Names : NameInv(m)'
  BY <1>1, <1>2
<1>4. TypeOK'
  <2>1. \A m \in Names : table'[m] \in Seq(RowSet)
    BY <1>3 DEF NameInv
  <2>2. table' = [m \in Names |-> table'[m]]
    BY DEF Handle, OnPutPod, OnPutClass, OnDeletePod, NoHandler, ownVars,
           Store, IInv, TypeOK
  <2>3. table' \in [Names -> Seq(RowSet)]
    BY <2>1, <2>2
  <2>4. priorityClasses \in SUBSET Names
    BY DEF IInv, TypeOK
  <2> QED BY <2>3, <2>4, HandleFrame DEF TypeOK, InformerInv
<1> QED BY <1>3, <1>4, HandleFrame DEF IInv, InformerInv

-----------------------------------------------------------------------------
(* The invariant is inductive.                                             *)

LEMMA InitInv == Init => IInv
<1> SUFFICES ASSUME Init PROVE IInv
  OBVIOUS
<1>1. InformerInv
  BY InformerInitInv DEF Init
<1>2. TypeOK
  BY <1>1 DEF Init, InformerInv, TypeOK
<1>3. /\ \A n \in Names : /\ obj[n] = None /\ cache[n] = None
                          /\ pending[n] = <<>> /\ table[n] = <<>>
      /\ conn = "down"
  BY DEF Init, InformerInit
<1>4. NothingAhead /\ Chained
  BY <1>3 DEF NothingAhead, Chained, ChainedAt
<1>5. ASSUME NEW n \in Names PROVE NameInv(n)
  <2>1. table[n] = <<>> /\ table[n] \in Seq(RowSet) /\ Len(table[n]) = 0
    BY <1>2, <1>3 DEF TypeOK
  <2>2. UniqueRows(table[n]) /\ ~Recordable(cache[n]) /\ LatestOfClass(n)
    BY <1>3, <2>1 DEF UniqueRows, Recordable, LatestOfClass
  <2> QED BY <1>3, <2>1, <2>2 DEF NameInv
<1> QED BY <1>1, <1>2, <1>4, <1>5 DEF IInv, InformerInv

(* A step that leaves the tables alone, shows the handlers nothing, and    *)
(* takes nothing from the queue.                                           *)
LEMMA OthersKeep ==
    ASSUME IInv, UNCHANGED ownVars, UNCHANGED cache,
           now' = now \/ now' = now + 1,
           InformerInv', NothingAhead', Chained',
           \A m \in Names : pending[m] # <<>> =>
               /\ pending'[m] # <<>>
               /\ Head(pending'[m]) = Head(pending[m]),
           conn' # "down" => conn # "down"
    PROVE  IInv'
<1>1. TypeOK'
  BY DEF IInv, TypeOK, InformerInv, ownVars
<1>2. ASSUME NEW n \in Names PROVE NameInv(n)'
  <2>1. NameInv(n) /\ table[n] \in Seq(RowSet)
    BY DEF IInv, TypeOK
  <2>2. \A u : Present(n, u) => Present(n, u)'
    BY DEF Present, Shown
  <2>3. MarkedUnlessPresent(n) => MarkedUnlessPresent(n)'
    BY <2>2 DEF MarkedUnlessPresent, ownVars
  <2>4. LatestOfClass(n) => LatestOfClass(n)'
    <3>1. now \in Nat
      BY DEF IInv, TypeOK, InformerTypeOK, Time
    <3>2. \A i \in 1..Len(table[n]) : table[n][i].created \in Nat
      <4>1. \A r \in RowSet : r.created \in Nat
        BY DEF RowSet, Time
      <4> QED BY <2>1, <4>1
    <3>3. \A i \in 1..Len(table[n]) :
             table[n][i].created <= now => table[n][i].created <= now'
      BY <3>1, <3>2
    <3> QED BY <3>3 DEF LatestOfClass, ownVars
  <2>5. Pods' = Pods
    BY DEF Pods, ownVars
  <2> QED BY <2>1, <2>3, <2>4, <2>5 DEF NameInv, ownVars
<1> QED BY <1>1, <1>2 DEF IInv, InformerInv

LEMMA AppendHead ==
    ASSUME NEW S, NEW s \in Seq(S), s # <<>>, NEW x
    PROVE  Append(s, x) # <<>> /\ Head(Append(s, x)) = Head(s)
<1>1. s \in Seq(S \cup {x})
  BY SeqMonotonic
<1>2. Append(s, x) \in Seq(S \cup {x}) /\ Len(Append(s, x)) = Len(s) + 1
      /\ Append(s, x)[1] = s[1] /\ Len(s) \in Nat
  BY <1>1
<1> QED BY <1>1, <1>2

(* A step of the cluster turns an object into a later one.                 *)
LEMMA ClusterChange ==
    ASSUME IInv, NEW n \in Names, ClusterStep(n)
    PROVE  \E o \in Object \cup {None} :
              /\ Change(n, o)
              /\ obj[n] \in Object \/ o # None
              /\ o # None => PastAt(o, now + 1)
              /\ Aged(obj[n]) => Later(obj[n], o, now)
<1>1. now \in Nat /\ now \in Time \ {0} /\ obj[n] \in Object \cup {None}
  BY DEF IInv, TypeOK, InformerTypeOK, Time
<1>2. /\ now < MaxTime /\ now + 1 \in Time
      /\ now + 1 <= now + 1 /\ now < now + 1 /\ 0 < now + 1
      /\ 0 \in Time /\ 0 <= now + 1
  <2>1. now < MaxTime
    BY DEF ClusterStep, Appear, Evolve, SetReady, BeginDelete, Remove, Change
  <2> QED BY <1>1, <2>1, MaxTimeAssumption DEF Time
<1>3. obj[n] # None => /\ PastAt(obj[n], now) /\ PastAt(obj[n], now + 1)
                       /\ obj[n] \in Object
                       /\ obj[n].touched \in Nat /\ obj[n].created \in Nat
  BY <1>1, PastLater, ObjectNumbers DEF IInv, NothingAhead
<1>4. ASSUME NEW o \in Object, PastAt(o, now + 1), Change(n, o),
             Aged(obj[n]) => Later(obj[n], o, now)
      PROVE  \E x \in Object \cup {None} :
                /\ Change(n, x)
                /\ obj[n] \in Object \/ x # None
                /\ x # None => PastAt(x, now + 1)
                /\ Aged(obj[n]) => Later(obj[n], x, now)
  BY <1>4, NoneAssumption
<1>5. CASE Appear(n)
  <2>1. PICK s \in Specs :
           Change(n, [created |-> now + 1, touched |-> now + 1, spec |-> s,
                      ready |-> FALSE, deleting |-> 0])
    BY <1>5 DEF Appear
  <2> DEFINE o == [created |-> now + 1, touched |-> now + 1, spec |-> s,
                   ready |-> FALSE, deleting |-> 0]
  <2>2. o \in Object /\ PastAt(o, now + 1)
    BY <1>2 DEF Object, PastAt
  <2>3. Later(obj[n], o, now)
    BY <1>1, <1>2, <1>5 DEF Appear, Later, Aged
  <2> QED BY <1>4, <2>1, <2>2, <2>3
<1>6. CASE Evolve(n)
  <2>1. PICK s \in Specs, t \in {obj[n].touched, now + 1} :
           Change(n, [obj[n] EXCEPT !.spec = s, !.touched = t])
    BY <1>6 DEF Evolve
  <2> DEFINE o == [obj[n] EXCEPT !.spec = s, !.touched = t]
  <2>2. o \in Object /\ PastAt(o, now + 1)
    BY <1>2, <1>3, <1>6 DEF Evolve, Object, PastAt
  <2>3. /\ o.created = obj[n].created /\ o.touched = t
        /\ obj[n] # None /\ obj[n].spec \notin Finished
    BY <1>3, <1>6 DEF Evolve, Object
  <2>4. obj[n].touched <= t
    BY <1>1, <1>3, <2>3 DEF PastAt
  <2>5. t \in Nat
    BY <1>1, <1>3, <2>3
  <2> HIDE DEF o
  <2>6. Aged(obj[n]) => Later(obj[n], o, now)
    BY <1>3, <2>3, <2>4, <2>5 DEF Later, Aged
  <2> QED BY <1>4, <2>1, <2>2, <2>6 DEF o
<1>7. CASE SetReady(n)
  <2> DEFINE o == [obj[n] EXCEPT !.ready = ~@, !.touched = now + 1]
  <2>1. o \in Object /\ PastAt(o, now + 1) /\ Change(n, o)
    BY <1>2, <1>3, <1>7 DEF SetReady, Object, PastAt
  <2>2. /\ o.created = obj[n].created /\ o.touched = now + 1
        /\ o.spec = obj[n].spec /\ obj[n] # None
    BY <1>3, <1>7 DEF SetReady, Object
  <2> HIDE DEF o
  <2>3. Aged(obj[n]) => Later(obj[n], o, now)
    BY <1>1, <1>3, <2>2 DEF Later, Aged, PastAt
  <2> QED BY <1>4, <2>1, <2>3
<1>8. CASE BeginDelete(n)
  <2> DEFINE o == [obj[n] EXCEPT !.deleting = now + 1]
  <2>1. o \in Object /\ PastAt(o, now + 1) /\ Change(n, o)
    BY <1>2, <1>3, <1>8 DEF BeginDelete, Object, PastAt
  <2>2. /\ o.created = obj[n].created /\ o.touched = obj[n].touched
        /\ o.spec = obj[n].spec /\ obj[n] # None
    BY <1>3, <1>8 DEF BeginDelete, Object
  <2> HIDE DEF o
  <2>3. Aged(obj[n]) => Later(obj[n], o, now)
    BY <1>3, <2>2 DEF Later, Aged
  <2> QED BY <1>4, <2>1, <2>3
<1>9. CASE Remove(n)
  <2>1. obj[n] \in Object /\ Change(n, None) /\ Later(obj[n], None, now)
    BY <1>3, <1>9 DEF Remove, Later
  <2> QED BY <2>1
<1> QED BY <1>5, <1>6, <1>7, <1>8, <1>9 DEF ClusterStep

LEMMA NextInv == IInv /\ [Next]_vars => IInv'
<1> SUFFICES ASSUME IInv, [Next]_vars PROVE IInv'
  OBVIOUS
<1>1. InformerInv /\ NothingAhead /\ Chained
  BY DEF IInv, TypeOK, InformerInv
<1>2. pending \in [Names -> Seq(Notice)]
  BY DEF IInv, TypeOK, InformerTypeOK
<1>3. ASSUME NEW n \in Names, ClusterStep(n) PROVE IInv'
  <2>4. PICK o \in Object \cup {None} :
           /\ Change(n, o)
           /\ obj[n] \in Object \/ o # None
           /\ o # None => PastAt(o, now + 1)
    BY <1>3, ClusterChange
  <2>5. InformerInv' /\ NothingAhead' /\ Chained'
    BY <1>1, <2>4, ChangeInv, ChangePast, ChangeChained
  <2>6. \A m \in Names : pending[m] # <<>> =>
           /\ pending'[m] # <<>>
           /\ Head(pending'[m]) = Head(pending[m])
    BY <1>2, <2>4, AppendHead DEF Change
  <2> QED BY <1>3, <2>4, <2>5, <2>6, OthersKeep DEF ClusterStep, Change
<1>4. CASE WatchBreaks
  <2>1. InformerInv'
    BY <1>1, <1>4, BreakInv DEF WatchBreaks
  <2>2. NothingAhead' /\ Chained'
    BY <1>1, <1>4
    DEF WatchBreaks, Break, NothingAhead, Chained, ChainedAt, Behind
  <2> QED BY <1>4, <2>1, <2>2, OthersKeep DEF WatchBreaks, Break
<1>5. CASE WatchResumes
  <2>1. InformerInv' /\ NothingAhead' /\ Chained'
    BY <1>1, <1>5, RelistInv, RelistPast, RelistChained DEF WatchResumes
  <2>2. \A m \in Names : pending[m] # <<>> =>
           /\ pending'[m] # <<>>
           /\ Head(pending'[m]) = Head(pending[m])
    BY <1>2, <1>5, AppendHead DEF WatchResumes, Relist
  <2> QED BY <1>5, <2>1, <2>2, OthersKeep DEF WatchResumes, Relist
<1>6. CASE Start
  <2>1. InformerInv' /\ NothingAhead' /\ Chained'
    BY <1>1, <1>6, StartInv, StartPast, StartChained DEF Start
  <2> DEFINE orphans(n) ==
               {table[n][i].created : i \in {j \in 1..Len(table[n]) :
                   obj[n] = None \/ table[n][j].created # obj[n].created}}
  <2>2. escaped' = [n \in Names |-> escaped[n] \cup orphans(n)]
    BY <1>6 DEF Start
  <2>3. ASSUME NEW n \in Names PROVE escaped[n] \cup orphans(n) \in SUBSET Time
    <3>1. escaped[n] \in SUBSET Time /\ table[n] \in Seq(RowSet)
      BY DEF IInv, TypeOK
    <3>2. \A i \in 1..Len(table[n]) : table[n][i].created \in Time
      <4>1. \A r \in RowSet : r.created \in Time
        BY DEF RowSet
      <4> QED BY <3>1, <4>1
    <3> QED BY <3>1, <3>2
  <2>4. TypeOK'
    <3>1. escaped' \in [Names -> SUBSET Time]
      BY <2>2, <2>3
    <3> QED BY <1>6, <2>1, <3>1 DEF Start, IInv, TypeOK, InformerInv
  <2>5. ASSUME NEW n \in Names PROVE NameInv(n)'
    <3>1. NameInv(n)
      BY DEF IInv
    <3>2. /\ cache'[n] = None
          /\ pending'[n] = IF obj[n] = None THEN <<>> ELSE <<Put(obj[n])>>
          /\ now' = now /\ table' = table /\ priorityClasses' = priorityClasses
      BY <1>6 DEF Start, StartInformer
    <3>3. obj[n] # None => pending'[n] # <<>> /\ Shown(n)' = obj[n]
      BY <3>2 DEF Shown, Put
    <3>4. \A i \in 1..Len(table[n]) :
             \/ table[n][i].created \in escaped'[n]
             \/ obj[n] # None /\ table[n][i].created = obj[n].created
      BY <2>2
    <3>5. MarkedUnlessPresent(n)'
      BY <3>2, <3>3, <3>4 DEF MarkedUnlessPresent, Present
    <3> QED BY <3>1, <3>2, <3>5 DEF NameInv, Recordable, LatestOfClass, Pods
  <2> QED BY <2>1, <2>4, <2>5 DEF IInv, InformerInv
<1>7. CASE Crash
  <2>1. InformerInv' /\ NothingAhead' /\ Chained'
    BY <1>1, <1>7, StopInv, StopPast, StopChained DEF Crash
  <2>2. TypeOK'
    BY <1>7, <2>1 DEF Crash, IInv, TypeOK, InformerInv
  <2>3. ASSUME NEW n \in Names PROVE NameInv(n)'
    <3>1. NameInv(n)
      BY DEF IInv
    <3>2. cache'[n] = None /\ conn' = "down" /\ now' = now
      BY <1>7 DEF Crash, StopInformer
    <3> QED BY <1>7, <3>1, <3>2
            DEF Crash, NameInv, Recordable, LatestOfClass, Pods
  <2> QED BY <2>1, <2>2, <2>3 DEF IInv, InformerInv
<1>8. CASE UNCHANGED vars
  <2>1. TypeOK' /\ Synced' /\ NothingAhead' /\ Chained'
    BY <1>8 DEF vars, IInv, TypeOK, InformerTypeOK, Synced, Observed,
                NothingAhead, Chained, ChainedAt, Behind
  <2>2. \A n \in Names : NameInv(n)'
    BY <1>8 DEF vars, IInv, NameInv, LatestOfClass, MarkedUnlessPresent,
                Present, Shown, Pods
  <2> QED BY <2>1, <2>2 DEF IInv
<1> QED BY <1>3, <1>4, <1>5, <1>6, <1>7, <1>8, HandleInv DEF Next

LEMMA Invariance == Spec => []IInv
BY InitInv, NextInv, PTL DEF Spec

-----------------------------------------------------------------------------
(* What is loaded of a pod: the times at which its rows are stamped tell   *)
(* them from those of the pods that had its name before.                   *)

LEMMA QueueObjects ==
    ASSUME NEW queue \in Seq(Notice), NEW i \in 1..Len(queue)
    PROVE  queue[i] \in Notice /\ queue[i].obj \in Object
<1>1. queue[i] \in Notice
  OBVIOUS
<1> QED BY <1>1 DEF Notice

LEMMA FitsLater ==
    ASSUME NEW row \in RowSet, NEW o \in Object \cup {None},
           NEW p \in Object \cup {None}, NEW t \in Nat, NEW u \in Nat, t <= u,
           Fits(row, o, t), Later(o, p, t)
    PROVE  Fits(row, p, u)
<1>1. row.created \in Nat /\ row.stamp \in Nat
  BY RowNumbers
<1>2. o # None => o.created \in Nat /\ o.touched \in Nat
  BY ObjectNumbers
<1>3. p # None => p.created \in Nat /\ p.touched \in Nat
  BY ObjectNumbers
<1>4. CASE p = None
  BY <1>1, <1>4 DEF Fits
<1>5. CASE p # None /\ o = None
  BY <1>1, <1>3, <1>5 DEF Fits, Later
<1>6. CASE p # None /\ o # None
  BY <1>1, <1>2, <1>3, <1>6 DEF Fits, Later
<1> QED BY <1>4, <1>5, <1>6

(* The clock and the cluster go on.                                        *)
LEMMA SeenLater ==
    ASSUME NEW rows \in Seq(RowSet), NEW queue \in Seq(Notice),
           NEW o \in Object \cup {None}, NEW p \in Object \cup {None},
           NEW t \in Nat, NEW u \in Nat, t <= u,
           \A i \in 1..Len(queue) : queue[i].obj.created <= t,
           Seen(rows, queue, o, t), Later(o, p, t)
    PROVE  Seen(rows, queue, p, u)
<1>1. Aged(p)
  BY DEF Later, Aged
<1>2. RowsFit(rows, p, u)
  <2> SUFFICES ASSUME NEW i \in 1..Len(rows)
               PROVE  Fits(rows[i], p, u)
    BY DEF Seen, RowsFit
  <2>1. rows[i] \in RowSet /\ Fits(rows[i], o, t)
    BY DEF Seen, RowsFit
  <2> QED BY <2>1, FitsLater
<1>3. QueueFits(queue, p, u)
  <2> SUFFICES ASSUME NEW i \in 1..Len(queue)
               PROVE  IF queue[i].gone
                      THEN p # None => queue[i].obj.created # p.created
                      ELSE Fits(PodRow(queue[i].obj), p, u)
    BY DEF Seen, QueueFits
  <2>1. queue[i].obj \in Object
    BY QueueObjects
  <2>2. CASE queue[i].gone
    <3>1. o # None => queue[i].obj.created # o.created
      BY <2>2 DEF Seen, QueueFits
    <3>2. queue[i].obj.created \in Nat
      BY <2>1, ObjectNumbers
    <3>3. p # None => p.created \in Nat
      BY ObjectNumbers
    <3> QED BY <2>2, <3>1, <3>2, <3>3 DEF Later
  <2>3. CASE ~queue[i].gone
    BY <2>1, <2>3, FitsLater, PodRowType DEF Seen, QueueFits
  <2> QED BY <2>2, <2>3
<1> QED BY <1>1, <1>2, <1>3 DEF Seen

LEMMA AppendedElements ==
    ASSUME NEW S, NEW s \in Seq(S), NEW x \in S
    PROVE  /\ Append(s, x) \in Seq(S)
           /\ Len(s) \in Nat
           /\ Len(Append(s, x)) = Len(s) + 1
           /\ \A i \in 1..Len(s) : Append(s, x)[i] = s[i]
           /\ Append(s, x)[Len(s) + 1] = x
           /\ \A i \in 1..Len(Append(s, x)) :
                 i \in 1..Len(s) \/ i = Len(s) + 1
OBVIOUS

(* A row that fits is that of o as it was, or of another pod.              *)
LEMMA FitsFollows ==
    ASSUME NEW row \in RowSet, NEW o \in Object, NEW t, Fits(row, o, t)
    PROVE  Follows(PodRow(o), row)
BY PodRowType, NoneAssumption DEF Fits, Follows

(* The cluster's change is queued.                                         *)
LEMMA SeenPut ==
    ASSUME NEW rows \in Seq(RowSet), NEW queue \in Seq(Notice),
           NEW o \in Object, NEW t \in Nat, PastAt(o, t),
           Seen(rows, queue, o, t)
    PROVE  Seen(rows, Append(queue, Put(o)), o, t)
<1> DEFINE new == Append(queue, Put(o))
           L == Len(queue)
<1>1. /\ Put(o) \in Notice /\ Put(o).gone = FALSE /\ Put(o).obj = o
      /\ o # None
  BY PutType, NoneAssumption
<1>2. /\ L \in Nat /\ Len(new) = L + 1
      /\ \A i \in 1..L : new[i] = queue[i]
      /\ new[L + 1] = Put(o)
      /\ \A i \in 1..Len(new) : i \in 1..L \/ i = L + 1
  BY <1>1, AppendedElements
<1> HIDE DEF new
<1>3. Fits(PodRow(o), o, t)
  BY <1>1, PodRowType, ObjectNumbers DEF Fits, PastAt, Seen, Aged
<1>4. \A j \in 1..L : ~queue[j].gone =>
         Follows(PodRow(o), PodRow(queue[j].obj))
  <2> SUFFICES ASSUME NEW j \in 1..L, ~queue[j].gone
               PROVE  Follows(PodRow(o), PodRow(queue[j].obj))
    OBVIOUS
  <2>1. queue[j].obj \in Object
    BY QueueObjects
  <2>2. Fits(PodRow(queue[j].obj), o, t)
    BY DEF Seen, QueueFits
  <2> QED BY <2>1, <2>2, PodRowType, FitsFollows
<1>5. QueueFits(new, o, t)
  <2>1. ASSUME NEW i \in 1..L
        PROVE  /\ new[i] = queue[i]
               /\ \A j \in 1..(i - 1) : new[j] = queue[j]
    BY <1>2
  <2>2. \A j \in 1..((L + 1) - 1) : j \in 1..L
    BY <1>2
  <2>3. \A i \in 1..L :
           IF new[i].gone
           THEN o # None => new[i].obj.created # o.created
           ELSE /\ Fits(PodRow(new[i].obj), o, t)
                /\ \A j \in 1..(i - 1) : ~new[j].gone =>
                      Follows(PodRow(new[i].obj), PodRow(new[j].obj))
    BY <2>1 DEF Seen, QueueFits
  <2>4. /\ ~new[L + 1].gone
        /\ Fits(PodRow(new[L + 1].obj), o, t)
        /\ \A j \in 1..((L + 1) - 1) : ~new[j].gone =>
              Follows(PodRow(new[L + 1].obj), PodRow(new[j].obj))
    BY <1>1, <1>2, <1>3, <1>4, <2>2
  <2> QED BY <1>2, <2>3, <2>4 DEF QueueFits
<1>6. QueueFollows(rows, new)
  <2> SUFFICES ASSUME NEW i \in 1..Len(rows), NEW j \in 1..Len(new),
                      ~new[j].gone
               PROVE  Follows(PodRow(new[j].obj), rows[i])
    BY DEF QueueFollows
  <2>1. CASE j \in 1..L
    BY <1>2, <2>1 DEF Seen, QueueFollows
  <2>2. CASE j = L + 1
    BY <1>1, <1>2, <2>2, FitsFollows DEF Seen, RowsFit
  <2> QED BY <1>2, <2>1, <2>2
<1> QED BY <1>5, <1>6 DEF Seen, new

LEMMA SeenGone ==
    ASSUME NEW rows \in Seq(RowSet), NEW queue \in Seq(Notice),
           NEW o \in Object, NEW t \in Nat, Seen(rows, queue, None, t)
    PROVE  Seen(rows, Append(queue, Gone(o)), None, t)
<1> DEFINE new == Append(queue, Gone(o))
           L == Len(queue)
<1>1. Gone(o) \in Notice /\ Gone(o).gone = TRUE
  BY PutType
<1>2. /\ L \in Nat /\ Len(new) = L + 1
      /\ \A i \in 1..L : new[i] = queue[i]
      /\ new[L + 1] = Gone(o)
      /\ \A i \in 1..Len(new) : i \in 1..L \/ i = L + 1
  BY <1>1, AppendedElements
<1> HIDE DEF new
<1>3. QueueFits(new, None, t)
  <2>1. ASSUME NEW i \in 1..L
        PROVE  /\ new[i] = queue[i]
               /\ \A j \in 1..(i - 1) : new[j] = queue[j]
    BY <1>2
  <2>2. \A i \in 1..L :
           ~new[i].gone =>
                /\ Fits(PodRow(new[i].obj), None, t)
                /\ \A j \in 1..(i - 1) : ~new[j].gone =>
                      Follows(PodRow(new[i].obj), PodRow(new[j].obj))
    BY <2>1 DEF Seen, QueueFits
  <2> QED BY <1>1, <1>2, <2>2 DEF QueueFits
<1>4. QueueFollows(rows, new)
  BY <1>1, <1>2 DEF Seen, QueueFollows
<1> QED BY <1>3, <1>4 DEF Seen, new

LEMMA SeenEmpty ==
    ASSUME NEW rows, NEW queue, NEW o, NEW t, Seen(rows, queue, o, t)
    PROVE  Seen(rows, <<>>, o, t)
BY DEF Seen, QueueFits, QueueFollows

LEMMA TailElements ==
    ASSUME NEW S, NEW s \in Seq(S), s # <<>>
    PROVE  /\ Tail(s) \in Seq(S)
           /\ Len(s) \in Nat /\ 1 \in 1..Len(s) /\ Head(s) = s[1]
           /\ \A i \in 1..Len(Tail(s)) : /\ i + 1 \in 1..Len(s)
                                         /\ Tail(s)[i] = s[i + 1]
<1> DEFINE rest == Tail(s)
<1>1. /\ rest \in Seq(S)
      /\ Len(rest) = Len(s) - 1
      /\ \A i \in 1..Len(rest) : rest[i] = s[i + 1]
  BY HeadTailProperties
<1>2. Len(s) \in Nat /\ Len(s) # 0 /\ Head(s) = s[1]
  OBVIOUS
<1> HIDE DEF rest
<1>3. \A i \in 1..Len(rest) : i + 1 \in 1..Len(s)
  BY <1>1, <1>2
<1> QED BY <1>1, <1>2, <1>3 DEF rest

(* The handlers are shown the oldest notice: and store nothing ...         *)
LEMMA SeenTail ==
    ASSUME NEW rows \in Seq(RowSet), NEW queue \in Seq(Notice), queue # <<>>,
           NEW o, NEW t, Seen(rows, queue, o, t)
    PROVE  Seen(rows, Tail(queue), o, t)
<1> DEFINE new == Tail(queue)
<1>1. \A i \in 1..Len(new) : i + 1 \in 1..Len(queue) /\ new[i] = queue[i + 1]
  BY TailElements
<1>2. Len(new) \in Nat
  BY TailElements
<1> HIDE DEF new
<1>3. QueueFits(new, o, t)
  <2> SUFFICES ASSUME NEW i \in 1..Len(new)
               PROVE  IF new[i].gone
                      THEN o # None => new[i].obj.created # o.created
                      ELSE /\ Fits(PodRow(new[i].obj), o, t)
                           /\ \A j \in 1..(i - 1) : ~new[j].gone =>
                                 Follows(PodRow(new[i].obj),
                                         PodRow(new[j].obj))
    BY DEF QueueFits
  <2>1. i + 1 \in 1..Len(queue) /\ new[i] = queue[i + 1]
    BY <1>1
  <2>2. \A j \in 1..(i - 1) : /\ j + 1 \in 1..((i + 1) - 1)
                              /\ new[j] = queue[j + 1]
    BY <1>1, <1>2
  <2> QED BY <2>1, <2>2 DEF Seen, QueueFits
<1>4. QueueFollows(rows, new)
  BY <1>1 DEF Seen, QueueFollows
<1> QED BY <1>3, <1>4 DEF Seen, new

(* ... or store it ...                                                     *)
LEMMA SeenStored ==
    ASSUME NEW rows \in Seq(RowSet), NEW queue \in Seq(Notice), queue # <<>>,
           NEW o, NEW t, Seen(rows, queue, o, t), ~Head(queue).gone
    PROVE  Seen(Append(rows, PodRow(Head(queue).obj)), Tail(queue), o, t)
<1> DEFINE row == PodRow(Head(queue).obj)
           new == Append(rows, row)
           rest == Tail(queue)
           L == Len(rows)
<1>1. /\ \A i \in 1..Len(rest) : /\ i + 1 \in 1..Len(queue)
                                 /\ rest[i] = queue[i + 1]
      /\ Len(queue) \in Nat /\ 1 \in 1..Len(queue) /\ Head(queue) = queue[1]
  BY TailElements
<1>2. row \in RowSet
  BY <1>1, QueueObjects, PodRowType
<1>3. /\ L \in Nat /\ Len(new) = L + 1
      /\ \A i \in 1..L : new[i] = rows[i]
      /\ new[L + 1] = row
      /\ \A i \in 1..Len(new) : i \in 1..L \/ i = L + 1
  BY <1>2, AppendedElements
<1>4. Fits(row, o, t)
  BY <1>1 DEF Seen, QueueFits
<1>5. \A j \in 1..L : Follows(row, rows[j])
  BY <1>1 DEF Seen, QueueFollows
<1>6. ASSUME NEW j \in 1..Len(rest), ~rest[j].gone
      PROVE  /\ Follows(PodRow(rest[j].obj), row)
             /\ \A i \in 1..L : Follows(PodRow(rest[j].obj), rows[i])
  <2>1. /\ j + 1 \in 1..Len(queue) /\ rest[j] = queue[j + 1]
        /\ 1 \in 1..((j + 1) - 1)
    BY <1>1
  <2> QED BY <1>1, <1>6, <2>1 DEF Seen, QueueFits, QueueFollows
<1>7. Seen(rows, rest, o, t)
  BY SeenTail
<1> HIDE DEF new, row, rest
<1>8. RowsFit(new, o, t)
  <2>1. \A i \in 1..L : \A j \in 1..(i - 1) : j \in 1..L
    BY <1>3
  <2>2. \A i \in 1..L : /\ Fits(new[i], o, t)
                        /\ \A j \in 1..(i - 1) : Follows(new[i], new[j])
    BY <1>3, <2>1 DEF Seen, RowsFit
  <2>3. \A j \in 1..((L + 1) - 1) : j \in 1..L
    BY <1>3
  <2>4. /\ Fits(new[L + 1], o, t)
        /\ \A j \in 1..((L + 1) - 1) : Follows(new[L + 1], new[j])
    BY <1>3, <1>4, <1>5, <2>3
  <2> QED BY <1>3, <2>2, <2>4 DEF RowsFit
<1>9. QueueFollows(new, rest)
  BY <1>3, <1>6 DEF QueueFollows
<1> QED BY <1>7, <1>8, <1>9 DEF Seen, new, row, rest

(* ... or mark the rows of a pod that is gone.                             *)
LEMMA SeenMarked ==
    ASSUME NEW rows \in Seq(RowSet), NEW queue \in Seq(Notice), queue # <<>>,
           NEW o, NEW t, Seen(rows, queue, o, t), Head(queue).gone
    PROVE  Seen(MarkedUID(rows, Head(queue).obj), Tail(queue), o, t)
<1> DEFINE gone == Head(queue).obj
           new == MarkedUID(rows, gone)
           rest == Tail(queue)
<1>1. 1 \in 1..Len(queue) /\ Head(queue) = queue[1]
  BY TailElements
<1>2. gone \in Object
  BY <1>1, QueueObjects
<1>3. /\ Len(new) = Len(rows)
      /\ \A i \in 1..Len(rows) :
            /\ new[i].created = rows[i].created
            /\ new[i].stamp = rows[i].stamp
            /\ new[i].finished <=> rows[i].finished
            /\ rows[i].created # gone.created
               => new[i].deleted = rows[i].deleted
  BY <1>2, MarkedRows, MarkedStamps
<1>4. o # None => gone.created # o.created
  BY <1>1 DEF Seen, QueueFits
<1>5. Seen(rows, rest, o, t)
  BY SeenTail
<1> HIDE DEF new, gone, rest
<1>6. \A i \in 1..Len(rows) : Fits(rows[i], o, t) => Fits(new[i], o, t)
  BY <1>3, <1>4 DEF Fits
<1>7. RowsFit(new, o, t)
  <2>1. \A i \in 1..Len(rows) : \A j \in 1..(i - 1) : j \in 1..Len(rows)
    OBVIOUS
  <2> QED BY <1>3, <1>5, <1>6, <2>1 DEF Seen, RowsFit, Follows
<1>8. QueueFollows(new, rest)
  BY <1>3, <1>5 DEF Seen, QueueFollows, Follows
<1> QED BY <1>5, <1>7, <1>8 DEF Seen, new, gone, rest

LEMMA StoredLast ==
    ASSUME NEW rows \in Seq(RowSet), NEW o \in Object
    PROVE  HasLast(Append(rows, PodRow(o)), o)
<1> DEFINE new == Append(rows, PodRow(o))
           L == Len(rows)
<1>1. /\ L \in Nat /\ Len(new) = L + 1
      /\ new[L + 1] = PodRow(o)
  BY PodRowType, AppendedElements
<1>2. IsRowOf(PodRow(o), o)
  BY DEF IsRowOf, PodRow
<1> HIDE DEF new
<1>3. L + 1 \in 1..Len(new) /\ \A j \in 1..Len(new) : j <= L + 1
  BY <1>1
<1>4. IsLastOf(new, L + 1, o)
  BY <1>1, <1>2, <1>3 DEF IsLastOf
<1> QED BY <1>3, <1>4 DEF HasLast, new

(* A content on record that is not superseded is that of the last row.     *)
LEMMA KnownLast ==
    ASSUME NEW n \in Names, table[n] \in Seq(RowSet), IsKnown(n),
           ~Superseded(n)
    PROVE  HasLast(table[n], Shown(n))
<1> DEFINE rows == table[n]
           o == Shown(n)
           own == {i \in 1..Len(rows) : rows[i].created = o.created}
           k == LatestOf(own)
<1>1. own # {} /\ own \in SUBSET (1..Len(rows)) /\ Len(rows) \in Nat
  BY DEF IsKnown
<1>2. k \in own /\ \A j \in own : j <= k
  <2> HIDE DEF own
  <2> QED BY <1>1, HasLatest
<1>3. rows[k].hash = HashOf[o.spec]
  BY <1>2 DEF Superseded
<1>4. k \in 1..Len(rows) /\ IsLastOf(rows, k, o)
  BY <1>2, <1>3 DEF IsLastOf, IsRowOf
<1> QED BY <1>4 DEF HasLast

LEMMA HandleLoads ==
    ASSUME IInv, LoadInv, NEW n \in Names, Handle(n)
    PROVE  LoadInv'
<1> DEFINE o == Shown(n)
           rows == table[n]
           queue == pending[n]
<1>1. /\ Deliver(n) /\ now' = now /\ Pods' = Pods
      /\ cache'[n] = IF Head(queue).gone THEN None ELSE o
      /\ \A m \in Names \ {n} : /\ cache'[m] = cache[m]
                                /\ pending'[m] = pending[m]
                                /\ table'[m] = table[m]
                                /\ lost'[m] = lost[m]
      /\ o \in Object
  BY HandleFrame DEF Pods
<1>2. /\ table \in [Names -> Seq(RowSet)] /\ rows \in Seq(RowSet)
      /\ pending \in [Names -> Seq(Notice)] /\ queue \in Seq(Notice)
      /\ lost \in [Names -> BOOLEAN] /\ returned \in [Names -> BOOLEAN]
  BY DEF IInv, TypeOK, InformerTypeOK
<1>3. /\ queue # <<>> /\ obj' = obj /\ pending'[n] = Tail(queue)
      /\ o = Head(queue).obj
  BY <1>1, <1>2 DEF Deliver, Shown
<1>4. \A m \in Names \ {n} : returned'[m] = returned[m]
  BY <1>2 DEF Handle, OnPutPod, OnPutClass, OnDeletePod, NoHandler, Store,
              ownVars
<1>5. ASSUME NEW m \in Pods, m # n
      PROVE  /\ Seen(table[m], pending[m], obj[m], now)'
             /\ Recordable(cache[m])' /\ ~lost'[m] /\ ~returned'[m]
                => HasLast(table[m], cache[m])'
  BY <1>1, <1>3, <1>4, <1>5 DEF LoadInv, Pods, Recordable
<1>6. CASE n \in Pods /\ OnPutPod(n)
  <2>1. ~Head(queue).gone /\ Seen(rows, queue, obj[n], now)
    BY <1>6 DEF OnPutPod, HasPut, IsAdd, IsUpdate, LoadInv
  <2>2. cache'[n] = o
    BY <1>1, <2>1
  <2>3. Row(n, o) = PodRow(o)
    BY <1>6 DEF Pods, Row, PodRow
  <2>4. CASE table' = [table EXCEPT ![n] = Append(@, Row(n, o))]
    <3>1. table'[n] = Append(rows, PodRow(o))
      BY <1>2, <2>3, <2>4
    <3>4. Seen(Append(rows, PodRow(Head(queue).obj)), Tail(queue), obj[n], now)
      BY <1>2, <1>3, <2>1, SeenStored
    <3>2. Seen(table[n], pending[n], obj[n], now)'
      BY <1>1, <1>3, <3>1, <3>4
    <3>3. HasLast(table[n], cache[n])'
      BY <1>1, <1>2, <2>2, <3>1, StoredLast
    <3> QED BY <1>1, <1>5, <3>2, <3>3 DEF LoadInv
  <2>5. CASE UNCHANGED table
    <3>1. Seen(table[n], pending[n], obj[n], now)'
      BY <1>1, <1>2, <1>3, <2>1, <2>5, SeenTail
    <3>2. \/ lost'[n]
          \/ o.deleting # 0 \/ o.spec \in Undetermined
          \/ IsKnown(n) /\ returned' = [returned EXCEPT ![n] = Superseded(n)]
      BY <1>2, <1>6, <2>5 DEF OnPutPod, Store
    <3>3. CASE IsKnown(n) /\ returned' = [returned EXCEPT ![n] = Superseded(n)]
      <4>1. returned'[n] = Superseded(n)
        BY <1>2, <3>3
      <4>2. ~returned'[n] => HasLast(rows, o)
        BY <1>2, <3>3, <4>1, KnownLast
      <4> QED BY <1>1, <1>5, <2>2, <2>5, <3>1, <4>2 DEF LoadInv
    <3> QED BY <1>1, <1>5, <2>2, <3>1, <3>2, <3>3 DEF LoadInv, Recordable
  <2> QED BY <1>6, <2>4, <2>5 DEF OnPutPod, Store
<1>7. CASE n \in Pods /\ OnDeletePod(n)
  <2>1. Head(queue).gone /\ Seen(rows, queue, obj[n], now)
    BY <1>7 DEF OnDeletePod, IsDelete, LoadInv
  <2>2. ~Recordable(cache[n])'
    BY <1>1, <2>1 DEF Recordable
  <2>3. table'[n] = MarkedUID(rows, o) \/ table'[n] = rows
    BY <1>2, <1>7 DEF OnDeletePod
  <2>5. /\ Seen(rows, Tail(queue), obj[n], now)
        /\ Seen(MarkedUID(rows, Head(queue).obj), Tail(queue), obj[n], now)
    BY <1>2, <1>3, <2>1, SeenTail, SeenMarked
  <2>4. Seen(table[n], pending[n], obj[n], now)'
    BY <1>1, <1>3, <2>3, <2>5
  <2> QED BY <1>1, <1>5, <2>2, <2>4 DEF LoadInv
<1>8. CASE n \notin Pods
  BY <1>1, <1>5, <1>8 DEF LoadInv
<1> QED BY <1>6, <1>7, <1>8
        DEF Handle, OnPutPod, OnPutClass, OnDeletePod, NoHandler, Pods

(* A step that changes nothing of a pod but its queue.                     *)
LEMMA UnseenKeeps ==
    ASSUME LoadInv, UNCHANGED ownVars, UNCHANGED cache,
           \A n \in Pods : Seen(table[n], pending'[n], obj'[n], now')
    PROVE  LoadInv'
BY DEF LoadInv, ownVars, Pods, Recordable

LEMMA LoadNext ==
    ASSUME IInv, LoadInv, [Next]_vars
    PROVE  LoadInv'
<1>1. /\ table \in [Names -> Seq(RowSet)]
      /\ pending \in [Names -> Seq(Notice)]
      /\ obj \in [Names -> Object \cup {None}]
      /\ now \in Nat /\ Pods \in SUBSET Names
  BY DEF IInv, TypeOK, InformerTypeOK, Time, Pods
<1>2. ASSUME NEW n \in Pods
      PROVE  /\ table[n] \in Seq(RowSet) /\ pending[n] \in Seq(Notice)
             /\ obj[n] \in Object \cup {None}
             /\ Seen(table[n], pending[n], obj[n], now)
             /\ obj[n] # None => obj[n] \in Object /\ PastAt(obj[n], now)
             /\ \A i \in 1..Len(pending[n]) :
                   pending[n][i].obj.created <= now
  BY <1>1 DEF LoadInv, IInv, NothingAhead, PastAt
<1>3. ASSUME NEW n \in Names, ClusterStep(n) PROVE LoadInv'
  <2>1. PICK o \in Object \cup {None} :
           /\ Change(n, o)
           /\ obj[n] \in Object \/ o # None
           /\ o # None => PastAt(o, now + 1)
           /\ Aged(obj[n]) => Later(obj[n], o, now)
    BY <1>3, ClusterChange
  <2>2. /\ now' = now + 1 /\ cache' = cache /\ UNCHANGED ownVars
        /\ obj' = [obj EXCEPT ![n] = o]
        /\ pending' = IF conn # "watching" THEN pending
                      ELSE [pending EXCEPT ![n] =
                                Append(@, IF o = None THEN Gone(obj[n])
                                                      ELSE Put(o))]
    BY <1>3, <2>1 DEF Change, ClusterStep
  <2>3. ASSUME NEW m \in Pods
        PROVE  Seen(table[m], pending[m], obj'[m], now')
    <3>1. Aged(obj[m])
      BY <1>2 DEF Seen
    <3>2. obj'[m] \in Object \cup {None} /\ Later(obj[m], obj'[m], now)
      <4>1. CASE m = n
        BY <1>1, <2>1, <2>2, <3>1, <4>1
      <4>2. CASE m # n
        <5>1. obj'[m] = obj[m]
          BY <1>1, <2>2, <4>2
        <5>2. obj[m] # None => obj[m].touched \in Nat
          BY <1>2, ObjectNumbers
        <5> QED BY <1>2, <3>1, <5>1, <5>2 DEF Later
      <4> QED BY <4>1, <4>2
    <3>3. now' \in Nat /\ now <= now'
      BY <1>1, <2>2
    <3> QED BY <1>1, <1>2, <3>2, <3>3, SeenLater
  <2>4. ASSUME NEW m \in Pods
        PROVE  Seen(table[m], pending'[m], obj'[m], now')
    <3>1. CASE pending'[m] = pending[m]
      BY <2>3, <3>1
    <3>2. CASE pending'[m] # pending[m]
      <4>1. /\ m = n /\ obj'[m] = o
            /\ pending'[m] = Append(pending[m], IF o = None THEN Gone(obj[n])
                                                            ELSE Put(o))
        BY <1>1, <2>2, <3>2
      <4>2. now' \in Nat
        BY <1>1, <2>2
      <4>3. CASE o = None
        <5>1. obj[n] \in Object
          BY <2>1, <4>3
        <5>2. Seen(table[m], Append(pending[m], Gone(obj[n])), None, now')
          BY <1>2, <2>3, <4>1, <4>2, <4>3, <5>1, SeenGone
        <5> QED BY <4>1, <4>3, <5>2
      <4>4. CASE o # None
        <5>1. Seen(table[m], Append(pending[m], Put(o)), o, now')
          BY <1>2, <2>1, <2>2, <2>3, <4>1, <4>2, <4>4, SeenPut
        <5> QED BY <4>1, <4>4, <5>1
      <4> QED BY <4>3, <4>4
    <3> QED BY <3>1, <3>2
  <2> QED BY <2>2, <2>4, UnseenKeeps
<1>4. CASE WatchBreaks
  <2>1. UNCHANGED ownVars /\ UNCHANGED <<now, obj, pending, cache>>
    BY <1>4 DEF WatchBreaks, Break
  <2> QED BY <1>2, <2>1, UnseenKeeps
<1>5. CASE WatchResumes
  <2>1. /\ UNCHANGED ownVars /\ UNCHANGED <<now, obj, cache>>
        /\ pending' = [n \in Names |->
               IF obj[n] = Observed(n) THEN pending[n]
               ELSE Append(pending[n], IF obj[n] = None THEN Gone(Observed(n))
                                                        ELSE Put(obj[n]))]
    BY <1>5 DEF WatchResumes, Relist
  <2>2. ASSUME NEW n \in Pods
        PROVE  Seen(table[n], pending'[n], obj[n], now)
    <3>1. pending'[n] = IF obj[n] = Observed(n) THEN pending[n]
                        ELSE Append(pending[n],
                                    IF obj[n] = None THEN Gone(Observed(n))
                                                     ELSE Put(obj[n]))
      BY <1>1, <2>1
    <3>2. CASE obj[n] = Observed(n)
      BY <1>2, <3>1, <3>2
    <3>3. CASE obj[n] # Observed(n) /\ obj[n] = None
      <4>1. Observed(n) \in Object
        BY <1>1, <3>3, ObservedType DEF IInv, TypeOK
      <4>2. Seen(table[n], Append(pending[n], Gone(Observed(n))), None, now)
        BY <1>1, <1>2, <3>3, <4>1, SeenGone
      <4> QED BY <3>1, <3>3, <4>2
    <3>4. CASE obj[n] # Observed(n) /\ obj[n] # None
      <4>1. Seen(table[n], Append(pending[n], Put(obj[n])), obj[n], now)
        BY <1>1, <1>2, <3>4, SeenPut
      <4> QED BY <3>1, <3>4, <4>1
    <3> QED BY <3>2, <3>3, <3>4
  <2> QED BY <2>1, <2>2, UnseenKeeps
<1>6. CASE Start
  <2>1. /\ now' = now /\ obj' = obj /\ table' = table
        /\ priorityClasses' = priorityClasses
        /\ \A n \in Names : cache'[n] = None
        /\ \A n \in Names : pending'[n] = IF obj[n] = None THEN <<>>
                                          ELSE <<Put(obj[n])>>
    BY <1>6 DEF Start, StartInformer
  <2>2. ASSUME NEW n \in Pods
        PROVE  Seen(table[n], pending'[n], obj[n], now)
    <3>1. Seen(table[n], <<>>, obj[n], now)
      BY <1>2, SeenEmpty
    <3>2. CASE obj[n] = None
      BY <1>1, <2>1, <3>1, <3>2
    <3>3. CASE obj[n] # None
      <4>1. <<>> \in Seq(Notice)
        OBVIOUS
      <4>2. Seen(table[n], Append(<<>>, Put(obj[n])), obj[n], now)
        BY <1>1, <1>2, <3>1, <3>3, <4>1, SeenPut
      <4>3. Append(<<>>, Put(obj[n])) = <<Put(obj[n])>>
        OBVIOUS
      <4> QED BY <1>1, <2>1, <3>3, <4>2, <4>3
    <3> QED BY <3>2, <3>3
  <2> QED BY <1>1, <2>1, <2>2 DEF LoadInv, Recordable, Pods
<1>7. CASE Crash
  <2>1. /\ now' = now /\ obj' = obj /\ table' = table
        /\ priorityClasses' = priorityClasses
        /\ \A n \in Names : cache'[n] = None
        /\ \A n \in Names : pending'[n] = <<>>
    BY <1>7 DEF Crash, StopInformer
  <2>2. \A n \in Pods : Seen(table[n], <<>>, obj[n], now)
    BY <1>2, SeenEmpty
  <2> QED BY <1>1, <2>1, <2>2 DEF LoadInv, Recordable, Pods
<1>8. CASE UNCHANGED vars
  <2>1. UNCHANGED ownVars /\ UNCHANGED <<now, obj, pending, cache>>
    BY <1>8 DEF vars, ownVars
  <2> QED BY <1>2, <2>1, UnseenKeeps
<1> QED BY <1>3, <1>4, <1>5, <1>6, <1>7, <1>8, HandleLoads DEF Next

LEMMA LoadInit == Init => LoadInv
<1> SUFFICES ASSUME Init PROVE LoadInv
  OBVIOUS
<1>1. \A n \in Names : /\ obj[n] = None /\ cache[n] = None
                       /\ pending[n] = <<>> /\ table[n] = <<>>
  BY DEF Init, InformerInit
<1>2. Seen(<<>>, <<>>, None, now)
  <2>1. Len(<<>>) = 0 /\ 1..0 = {}
    OBVIOUS
  <2> QED BY <2>1 DEF Seen, Aged, RowsFit, QueueFits, QueueFollows
<1> QED BY <1>1, <1>2 DEF LoadInv, Recordable, Pods

LEMMA LoadInvariance == Spec => [](IInv /\ LoadInv)
<1>1. IInv /\ LoadInv /\ [Next]_vars => (IInv /\ LoadInv)'
  BY LoadNext, NextInv
<1> QED BY <1>1, InitInv, LoadInit, PTL DEF Spec

-----------------------------------------------------------------------------
(* Theorems.                                                               *)

(* The variables keep their types.                                         *)
THEOREM TypeCorrect == Spec => []TypeOK
<1>1. IInv => TypeOK
  BY DEF IInv
<1> QED BY <1>1, Invariance, PTL

(* Every recordable content a pod was shown with has exactly one row of    *)
(* that pod (recorder.go:610-643).                                         *)
THEOREM RecordedExactlyOnce == Spec => []PodRecordedOnce
<1>1. IInv => PodRecordedOnce
  <2> SUFFICES ASSUME IInv, NEW n \in Pods
               PROVE  /\ UniqueRows(table[n])
                      /\ Recordable(cache[n]) /\ ~lost[n]
                         => Known(table[n], cache[n])
    BY DEF PodRecordedOnce, UniqueRows, Known, IsRowOf
  <2> QED BY DEF IInv, NameInv, Pods
<1> QED BY <1>1, Invariance, PTL

(* Every pod that is gone is marked, but for the four ways of escaping it  *)
(* (recorder.go:387-412).                                                  *)
THEOREM GonePodIsMarked == Spec => []GonePodMarked
<1>1. IInv => GonePodMarked
  <2> SUFFICES ASSUME IInv, conn # "down", NEW n \in Pods
               PROVE  MarkedUnlessPresent(n)
    BY DEF GonePodMarked, MarkedUnlessPresent, Present
  <2> QED BY DEF IInv, NameInv, Pods
<1> QED BY <1>1, Invariance, PTL

(* What is loaded of a priority class is what the cluster holds            *)
(* (recorder.go:310-334, sql.go:252-253).                                  *)
THEOREM ClassIsLoaded == Spec => []ClassLoaded
<1>1. IInv => ClassLoaded
  <2> SUFFICES ASSUME IInv, NEW n \in priorityClasses, CaughtUp(n),
                      obj[n] # None, obj[n].deleting = 0, ~lost[n]
               PROVE  LoadedClass(n, now) = HashOf[obj[n].spec]
    BY DEF ClassLoaded
  <2>1. n \in Names /\ table[n] \in Seq(RowSet)
    BY DEF IInv, TypeOK
  <2>2. cache[n] = obj[n] /\ LatestOfClass(n)
    BY <2>1 DEF IInv, NameInv, Synced, Observed, CaughtUp
  <2> DEFINE last == Len(table[n])
             I == {i \in 1..Len(table[n]) : /\ table[n][i].created <= now
                                            /\ \/ table[n][i].deleted = 0
                                               \/ table[n][i].deleted >= now}
  <2>3. last \in 1..last /\ table[n][last].hash = HashOf[obj[n].spec]
    BY <2>1, <2>2 DEF LatestOfClass
  <2>4. last \in I /\ I \in SUBSET (1..last)
    BY <2>2, <2>3 DEF LatestOfClass
  <2>5. LatestOf(I) = last
    <3>1. I \in SUBSET Nat /\ \A j \in I : j <= last
      BY <2>4
    <3> HIDE DEF I, last
    <3> QED BY <2>4, <3>1, LatestUnique
  <2>6. LoadedClass(n, now) = IF I = {} THEN None
                              ELSE table[n][LatestOf(I)].hash
    BY DEF LoadedClass
  <2> QED BY <2>3, <2>4, <2>5, <2>6
<1> QED BY <1>1, Invariance, PTL

(* The rows of a pod are stamped between the first instant and the present.*)
LEMMA PodStamps ==
    ASSUME IInv, LoadInv, NEW m \in Pods, NEW i \in 1..Len(table[m])
    PROVE  /\ now \in Nat /\ table[m][i].stamp \in 1..now
           /\ Fits(table[m][i], obj[m], now)
<1>1. m \in Names /\ table[m] \in Seq(RowSet) /\ now \in Nat
  BY MaxTimeAssumption DEF IInv, TypeOK, InformerTypeOK, Time, Pods
<1>2. table[m][i] \in RowSet
  BY <1>1
<1>3. Fits(table[m][i], obj[m], now)
  BY DEF LoadInv, Seen, RowsFit
<1> QED BY <1>1, <1>2, <1>3, RowNumbers DEF Fits

(* What the query returns.                                                 *)
IsQueried(m, i, n, prev) ==
    m \in Namesakes(n) /\ i \in LatestOfUIDs(table[m], There(table[m], prev, now))

LEMMA QueriedRow ==
    ASSUME NEW n \in Pods, NEW prev
    PROVE  /\ \A r \in Queried(n, prev, now) :
                 \E m, i : IsQueried(m, i, n, prev) /\ r = <<m, i>>
           /\ \A m, i : IsQueried(m, i, n, prev)
                        => <<m, i>> \in Queried(n, prev, now)
BY DEF Queried, IsQueried

(* One of the rows that the query returns is the youngest.                 *)
LEMMA HasNewest ==
    ASSUME IInv, LoadInv, NEW n \in Pods, NEW prev,
           Queried(n, prev, now) # {}
    PROVE  LET R == Queried(n, prev, now)
           IN  /\ NewestOf(R) \in R
               /\ \A q \in R : StampOf(q) <= StampOf(NewestOf(R))
<1> DEFINE R == Queried(n, prev, now)
           stamps == {StampOf(r) : r \in R}
<1>1. now \in Nat
  BY MaxTimeAssumption DEF IInv, TypeOK, InformerTypeOK, Time
<1>2. ASSUME NEW r \in R PROVE StampOf(r) \in 1..now
  <2>1. PICK m, i : IsQueried(m, i, n, prev) /\ r = <<m, i>>
    BY QueriedRow
  <2>2. m \in Pods /\ i \in 1..Len(table[m])
    BY <2>1 DEF IsQueried, Namesakes, LatestOfUIDs, There
  <2> QED BY <2>1, <2>2, PodStamps DEF StampOf
<1>3. stamps \in SUBSET (1..now) /\ stamps # {}
  BY <1>2
<1>4. /\ LatestOf(stamps) \in stamps
      /\ \A s \in stamps : s <= LatestOf(stamps)
  <2> HIDE DEF stamps
  <2> QED BY <1>1, <1>3, HasLatest
<1>5. PICK r \in R : StampOf(r) = LatestOf(stamps)
  BY <1>4
<1>6. \A q \in R : StampOf(q) <= StampOf(r)
  BY <1>4, <1>5
<1> HIDE DEF R
<1>7. NewestOf(R) \in R /\ \A q \in R : StampOf(q) <= StampOf(NewestOf(R))
  BY <1>6 DEF NewestOf
<1> QED BY <1>7 DEF R

(* A row of a pod of another namespace that could be loaded is younger than*)
(* every row of n only if its pod shadows n: while the queue is handled,   *)
(* all rows of a pod that is gone are marked or it escaped its marks.      *)
LEMMA ShadowedOnly ==
    ASSUME IInv, conn = "watching", NEW n, NEW m \in Pods, ~Shadows(m, n),
           NEW j \in There(table[m], 0, now)
    PROVE  \E i \in There(table[n], 0, now) :
               ~(table[n][i].stamp <= table[m][j].stamp)
<1>1. m \in Names /\ j \in 1..Len(table[m])
  BY DEF Pods, There
<1>2. MarkedUnlessPresent(m) /\ Observed(m) = obj[m]
  BY <1>1 DEF IInv, NameInv, Synced
<1>3. table[m][j].deleted = 0 \/ table[m][j].deleted >= now
  BY DEF There
<1>4. \/ obj[m] # None /\ obj[m].created = table[m][j].created
      \/ pending[m] # <<>>
      \/ table[m][j].created \in escaped[m]
      \/ table[m][j].deleted >= now
  BY <1>1, <1>2, <1>3 DEF MarkedUnlessPresent, Present, Observed
<1> QED BY <1>4 DEF Shadows

(* A pod that is there is loaded with its content, whatever pods of its    *)
(* name escaped their marks before, unless a pod of another namespace with *)
(* its name displaces it; a window that begins after its last transition   *)
(* may not load it at all (replayer.go:2095-2102).                         *)
THEOREM PodIsLoaded == Spec => []PodLoaded
<1>1. IInv /\ LoadInv => PodLoaded
  <2> SUFFICES ASSUME IInv, LoadInv, NEW n \in Pods, IsToBeLoaded(n),
                      NEW prev \in Time
               PROVE  /\ LoadedPod(n, prev, now)
                            \in {None, HashOf[obj[n].spec]}
                      /\ prev = 0 /\ (\A m \in Namesakes(n) \ {n} :
                                         ~Shadows(m, n))
                         => LoadedPod(n, prev, now) = HashOf[obj[n].spec]
    <3>1. 0 \in Time
      BY MaxTimeAssumption DEF Time
    <3> QED BY <3>1 DEF PodLoaded
  <2> DEFINE o == obj[n]
             rows == table[n]
             all == There(rows, prev, now)
             I == LatestOfUIDs(rows, all)
             R == Queried(n, prev, now)
             Own(i) == rows[i].created = o.created
  <2>1. /\ n \in Names /\ o \in Object /\ o # None /\ cache[n] = o
        /\ rows \in Seq(RowSet) /\ now \in Nat /\ prev \in Nat
        /\ Len(rows) \in Nat /\ conn = "watching" /\ n \notin KubeSystem
    BY MaxTimeAssumption
       DEF IInv, TypeOK, InformerTypeOK, Synced, Observed, CaughtUp,
           Recordable, Time, Pods, IsToBeLoaded
  <2>2. PICK k \in 1..Len(rows) : IsLastOf(rows, k, o)
    BY <2>1 DEF LoadInv, HasLast, IsToBeLoaded
  <2>3. /\ Own(k) /\ rows[k].hash = HashOf[o.spec]
        /\ \A j \in 1..Len(rows) : Own(j) => j <= k
    BY <2>2 DEF IsLastOf, IsRowOf
  <2>4. /\ Aged(o)
        /\ \A i \in 1..Len(rows) :
              /\ Fits(rows[i], o, now)
              /\ rows[i].stamp \in Nat /\ rows[i].created \in Nat
        /\ \A j \in 1..(k - 1) : Follows(rows[k], rows[j])
    <3>1. Seen(rows, pending[n], o, now)
      BY DEF LoadInv
    <3>2. \A i \in 1..Len(rows) : rows[i] \in RowSet
      BY <2>1
    <3> QED BY <3>1, <3>2, RowNumbers DEF Seen, RowsFit
  <2>5. o.created \in Nat /\ 0 < o.created
    BY <2>1, <2>4, ObjectNumbers DEF Aged
  <2>6. /\ o.created <= rows[k].stamp /\ rows[k].stamp <= now
        /\ ~rows[k].finished /\ rows[k].deleted = 0
    BY <2>1, <2>3, <2>4 DEF Fits, IsToBeLoaded
  <2>7. ASSUME NEW i \in 1..Len(rows)
        PROVE  /\ rows[i].stamp <= rows[k].stamp
               /\ ~Own(i) => rows[i].stamp < rows[k].stamp
    <3>1. CASE Own(i)
      <4>1. i = k \/ i \in 1..(k - 1)
        BY <2>1, <2>3, <3>1
      <4> QED BY <2>3, <2>4, <3>1, <4>1 DEF Follows
    <3>2. CASE ~Own(i)
      <4>1. rows[i].stamp < o.created
        BY <2>1, <2>4, <3>2 DEF Fits
      <4> QED BY <2>4, <2>5, <2>6, <3>2, <4>1
    <3> QED BY <3>1, <3>2
  <2>8. rows[k].stamp > prev => k \in all
    BY <2>6 DEF There
  <2>9. all # {} => k \in all
    <3> SUFFICES ASSUME NEW i \in all PROVE rows[k].stamp > prev
      BY <2>8
    <3>1. i \in 1..Len(rows) /\ rows[i].stamp > prev
      BY DEF There
    <3> QED BY <2>1, <2>4, <2>7, <3>1
  <2>10. k \in all => k \in I
    BY <2>3 DEF LatestOfUIDs, There
  <2>11. I \subseteq all /\ all \subseteq 1..Len(rows)
    BY DEF LatestOfUIDs, There
  <2>12. n \in Namesakes(n) /\ \A i \in I : <<n, i>> \in R
    BY QueriedRow DEF IsQueried, Namesakes
  <2>13. LoadedPod(n, prev, now) =
            IF R = {} \/ NewestOf(R)[1] # n THEN None
            ELSE rows[NewestOf(R)[2]].hash
    BY <2>1 DEF LoadedPod
  (* Of the rows of n it is the last of the pod that is loaded, if any.    *)
  <2>14. ASSUME R # {}, NewestOf(R)[1] = n
         PROVE  NewestOf(R)[2] = k
    <3>1. NewestOf(R) \in R /\ \A q \in R : StampOf(q) <= StampOf(NewestOf(R))
      BY <2>14, HasNewest
    <3> DEFINE i == NewestOf(R)[2]
    <3>2. NewestOf(R) = <<n, i>> /\ i \in I
      <4>1. PICK m, j : IsQueried(m, j, n, prev) /\ NewestOf(R) = <<m, j>>
        BY <3>1, QueriedRow
      <4> QED BY <2>14, <4>1 DEF IsQueried
    <3>3. k \in I /\ i \in 1..Len(rows)
      BY <2>9, <2>10, <2>11, <3>2
    <3>4. rows[k].stamp <= rows[i].stamp
      <4>1. StampOf(<<n, k>>) <= StampOf(<<n, i>>)
        BY <2>12, <3>1, <3>2, <3>3
      <4> QED BY <4>1 DEF StampOf
    <3>5. Own(i)
      <4>1. /\ rows[i].stamp \in Nat /\ rows[k].stamp \in Nat
            /\ ~Own(i) => rows[i].stamp < rows[k].stamp
        BY <2>4, <2>7, <3>3
      <4> HIDE DEF i
      <4> QED BY <3>4, <4>1
    <3>6. k <= i /\ i <= k
      BY <2>3, <2>11, <3>2, <3>3, <3>5 DEF LatestOfUIDs
    <3> QED BY <2>1, <3>3, <3>6
  (* And one of n is loaded, unless a row of another name is younger.      *)
  <2>15. ASSUME prev = 0, \A m \in Namesakes(n) \ {n} : ~Shadows(m, n)
         PROVE  R # {} /\ NewestOf(R)[1] = n
    <3>1. k \in all /\ <<n, k>> \in R
      BY <2>4, <2>5, <2>6, <2>8, <2>10, <2>12, <2>15
    <3>2. NewestOf(R) \in R /\ \A q \in R : StampOf(q) <= StampOf(NewestOf(R))
      BY <3>1, HasNewest
    <3>3. PICK m, j : IsQueried(m, j, n, prev) /\ NewestOf(R) = <<m, j>>
      BY <3>2, QueriedRow
    <3>4. ASSUME m # n PROVE FALSE
      <4>1. m \in Pods /\ j \in There(table[m], 0, now) /\ j \in 1..Len(table[m])
        BY <2>15, <3>3 DEF IsQueried, Namesakes, LatestOfUIDs, There
      <4>2. PICK i \in There(rows, 0, now) :
               ~(rows[i].stamp <= table[m][j].stamp)
        BY <2>1, <2>15, <3>3, <3>4, <4>1, ShadowedOnly DEF IsQueried
      <4>3. i \in 1..Len(rows)
        BY DEF There
      <4>4. table[m][j].stamp \in Nat
        BY <4>1, PodStamps
      <4>5. rows[k].stamp <= table[m][j].stamp
        BY <3>1, <3>2, <3>3 DEF StampOf
      <4> QED BY <2>4, <2>7, <4>2, <4>3, <4>4, <4>5
    <3> QED BY <3>1, <3>3, <3>4
  <2> QED BY <2>3, <2>13, <2>14, <2>15
<1> QED BY <1>1, LoadInvariance, PTL

=============================================================================
