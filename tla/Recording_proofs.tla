-------------------------- MODULE Recording_proofs --------------------------
(***************************************************************************)
(* What the modules of all recorders need.                                 *)
(*   - Of Informer: its steps keep its types; while the watch is up the    *)
(*     queue ends in what the cluster holds; no timestamp of an object is  *)
(*     ahead of the clock.  The steps of the recorders conjoin one of these*)
(*     steps with what their handlers do, so that the lemmas are cited once*)
(*     per action.                                                         *)
(*   - Of Tables: what its statements return after a row is added or rows  *)
(*     are marked as deleted.                                              *)
(***************************************************************************)
EXTENDS Informer, Tables, SequenceTheorems, WellFoundedInduction, TLAPS

(* The part of the invariants that is the informer's own.                  *)
InformerInv == InformerTypeOK /\ Synced

LEMMA PutType ==
    ASSUME NEW o \in Object
    PROVE  /\ Put(o) \in Notice
           /\ Gone(o) \in Notice
           /\ Put(o).gone = FALSE /\ Put(o).obj = o
           /\ Gone(o).gone = TRUE /\ Gone(o).obj = o
BY DEF Put, Gone, Notice

(* Taking the first element of a sequence leaves the last one in place.    *)
LEMMA LastOfTail ==
    ASSUME NEW S, NEW s \in Seq(S), s # <<>>
    PROVE  /\ Len(s) = 1 => Tail(s) = <<>> /\ Head(s) = s[Len(s)]
           /\ Len(s) # 1 => /\ Tail(s) # <<>>
                            /\ Tail(s)[Len(Tail(s))] = s[Len(s)]
<1>1. /\ Tail(s) \in Seq(S)
      /\ Len(Tail(s)) = Len(s) - 1
      /\ \A i \in 1..Len(Tail(s)) : Tail(s)[i] = s[i + 1]
  BY HeadTailProperties
<1>2. Len(s) \in Nat \ {0}
  BY EmptySeq, LenProperties
<1> DEFINE t == Tail(s)
<1>0. t = <<>> <=> Len(t) = 0
  <2>1. t \in Seq(S)
    BY <1>1
  <2> HIDE DEF t
  <2> QED BY <2>1, EmptySeq
<1>3. ASSUME Len(s) = 1 PROVE Tail(s) = <<>> /\ Head(s) = s[Len(s)]
  <2>1. Tail(s) = <<>>
    BY <1>1, <1>3, <1>0
  <2>2. Head(s) = s[1]
    OBVIOUS
  <2> QED BY <1>3, <2>1, <2>2
<1>4. ASSUME Len(s) # 1
      PROVE  Tail(s) # <<>> /\ Tail(s)[Len(Tail(s))] = s[Len(s)]
  <2>1. Len(Tail(s)) \in 1..Len(Tail(s))
    BY <1>1, <1>2, <1>4
  <2>2. Tail(s) # <<>>
    BY <1>1, <1>2, <1>4, <1>0
  <2>3. Tail(s)[Len(Tail(s))] = s[(Len(s) - 1) + 1]
    BY <1>1, <2>1
  <2> QED BY <1>2, <2>2, <2>3
<1> QED BY <1>3, <1>4

LEMMA AppendNonEmpty ==
    ASSUME NEW S, NEW s \in Seq(S), NEW x
    PROVE  Append(s, x) # <<>>
<1>1. s \in Seq(S \cup {x})
  BY SeqMonotonic
<1>2. Len(Append(s, x)) = Len(s) + 1 /\ Len(s) \in Nat
  BY <1>1
<1> QED BY <1>2

(* What the last notice says is what will have been observed.              *)
LEMMA ObservedType ==
    ASSUME InformerTypeOK, NEW n \in Names
    PROVE  Observed(n) \in Object \cup {None}
<1>1. CASE pending[n] = <<>>
  BY <1>1 DEF Observed, InformerTypeOK
<1>2. CASE pending[n] # <<>>
  <2>1. pending[n] \in Seq(Notice)
    BY DEF InformerTypeOK
  <2>2. pending[n][Len(pending[n])] \in Notice
    BY <1>2, <2>1
  <2> QED BY <1>2, <2>2 DEF Observed, Notice
<1> QED BY <1>1, <1>2

-----------------------------------------------------------------------------

LEMMA InformerInitInv == InformerInit => InformerInv
<1> SUFFICES ASSUME InformerInit PROVE InformerInv
  OBVIOUS
<1>1. 1 \in Time \ {0}
  BY MaxTimeAssumption DEF Time
<1>2. InformerTypeOK
  BY <1>1 DEF InformerInit, InformerTypeOK
<1>3. Synced
  BY DEF InformerInit, Synced
<1> QED BY <1>2, <1>3 DEF InformerInv

LEMMA ChangeInv ==
    ASSUME InformerInv, NEW n \in Names, NEW o \in Object \cup {None},
           obj[n] \in Object \/ o # None,
           Change(n, o)
    PROVE  InformerInv'
<1> USE DEF InformerInv
<1>1. now' \in Time \ {0}
  BY MaxTimeAssumption DEF Change, InformerTypeOK, Time
<1>2. obj' \in [Names -> Object \cup {None}]
  BY DEF Change, InformerTypeOK
<1> DEFINE notice == IF o = None THEN Gone(obj[n]) ELSE Put(o)
<1>3. notice \in Notice
  BY PutType
<1>4. pending' \in [Names -> Seq(Notice)]
  <2>1. pending[n] \in Seq(Notice)
    BY DEF InformerTypeOK
  <2>2. Append(pending[n], notice) \in Seq(Notice)
    BY <1>3, <2>1
  <2>3. CASE conn # "watching"
    BY <2>3 DEF Change, InformerTypeOK
  <2>4. CASE conn = "watching"
    <3>1. pending' = [pending EXCEPT ![n] = Append(pending[n], notice)]
      BY <2>4 DEF Change
    <3> HIDE DEF notice
    <3> QED BY <2>2, <3>1 DEF InformerTypeOK
  <2> QED BY <2>3, <2>4
<1>5. InformerTypeOK'
  BY <1>1, <1>2, <1>4 DEF InformerTypeOK, Change
<1>6. Synced'
  <2> SUFFICES ASSUME conn = "watching", NEW m \in Names
               PROVE  Observed(m)' = obj'[m]
    BY DEF Synced, Change
  <2>1. CASE m = n
    <3>1. pending[n] \in Seq(Notice)
      BY DEF InformerTypeOK
    <3>2. pending'[n] = Append(pending[n], notice)
      BY DEF Change, InformerTypeOK
    <3>3. /\ pending'[n] # <<>>
          /\ pending'[n][Len(pending'[n])] = notice
      <4> HIDE DEF notice
      <4> QED BY <3>1, <3>2, <1>3
    <3>4. Observed(n)' = IF notice.gone THEN None ELSE notice.obj
      BY <3>3 DEF Observed
    <3>5. obj'[n] = o
      BY DEF Change, InformerTypeOK
    <3>6. CASE o = None
      BY <2>1, <3>4, <3>5, <3>6 DEF Gone
    <3>7. CASE o # None
      BY <2>1, <3>4, <3>5, <3>7 DEF Put
    <3> QED BY <3>6, <3>7
  <2>2. CASE m # n
    <3>1. pending'[m] = pending[m] /\ obj'[m] = obj[m] /\ cache' = cache
      BY <2>2 DEF Change, InformerTypeOK
    <3> QED BY <3>1 DEF Observed, Synced
  <2> QED BY <2>1, <2>2
<1> QED BY <1>5, <1>6

LEMMA ClusterInv ==
    ASSUME InformerInv, NEW n \in Names, Cluster(n)
    PROVE  InformerInv'
<1>1. now \in Time \ {0} /\ obj[n] \in Object \cup {None}
  BY DEF InformerInv, InformerTypeOK
<1>2. now < MaxTime => now + 1 \in Time
  BY <1>1, MaxTimeAssumption DEF Time
<1>3. CASE Create(n)
  <2>1. PICK s \in Specs, r \in BOOLEAN :
           Change(n, [created |-> now + 1, touched |-> now + 1, spec |-> s,
                      ready |-> r, deleting |-> 0])
    BY <1>3 DEF Create
  <2> DEFINE o == [created |-> now + 1, touched |-> now + 1, spec |-> s,
                   ready |-> r, deleting |-> 0]
  <2>2. o \in Object
    BY <1>2, <2>1, MaxTimeAssumption DEF Change, Object, Time
  <2>3. o # None
    BY <2>2, NoneAssumption
  <2> HIDE DEF o
  <2> QED BY <2>1, <2>2, <2>3, ChangeInv DEF o
<1>4. CASE Edit(n)
  <2>1. PICK s \in Specs : Change(n, [obj[n] EXCEPT !.spec = s])
    BY <1>4 DEF Edit
  <2>2. obj[n] \in Object
    BY <1>1, <1>4 DEF Edit
  <2>3. [obj[n] EXCEPT !.spec = s] \in Object
    BY <2>2 DEF Object
  <2> QED BY <2>1, <2>2, <2>3, ChangeInv
<1>5. CASE SetReady(n)
  <2>1. obj[n] \in Object
    BY <1>1, <1>5 DEF SetReady
  <2>2. now + 1 \in Time
    BY <1>2, <1>5 DEF SetReady, Change
  <2>3. [obj[n] EXCEPT !.ready = ~@, !.touched = now + 1] \in Object
    BY <2>1, <2>2 DEF Object
  <2> QED BY <1>5, <2>1, <2>3, ChangeInv DEF SetReady
<1>6. CASE BeginDelete(n)
  <2>1. obj[n] \in Object
    BY <1>1, <1>6 DEF BeginDelete
  <2>2. now + 1 \in Time
    BY <1>2, <1>6 DEF BeginDelete, Change
  <2>3. [obj[n] EXCEPT !.deleting = now + 1] \in Object
    BY <2>1, <2>2 DEF Object
  <2> QED BY <1>6, <2>1, <2>3, ChangeInv DEF BeginDelete
<1>7. CASE Remove(n)
  BY <1>1, <1>7, ChangeInv DEF Remove
<1> QED BY <1>3, <1>4, <1>5, <1>6, <1>7 DEF Cluster

LEMMA BreakInv == ASSUME InformerInv, Break PROVE InformerInv'
BY DEF InformerInv, Break, InformerTypeOK, Synced

LEMMA RelistInv == ASSUME InformerInv, Relist PROVE InformerInv'
<1> USE DEF InformerInv
<1> DEFINE notice(n) == IF obj[n] = None THEN Gone(Observed(n))
                                         ELSE Put(obj[n])
<1>1. ASSUME NEW n \in Names, obj[n] # Observed(n)
      PROVE  /\ notice(n) \in Notice
             /\ obj[n] = IF notice(n).gone THEN None ELSE notice(n).obj
  <2>1. obj[n] \in Object \cup {None} /\ Observed(n) \in Object \cup {None}
    BY ObservedType DEF InformerTypeOK
  <2> QED BY <1>1, <2>1, PutType
<1>2. ASSUME NEW n \in Names
      PROVE  pending'[n] = IF obj[n] = Observed(n) THEN pending[n]
                           ELSE Append(pending[n], notice(n))
  BY DEF Relist
<1> HIDE DEF notice
<1>3. ASSUME NEW n \in Names
      PROVE  pending'[n] \in Seq(Notice) /\ Observed(n)' = obj[n]
  <2>1. pending[n] \in Seq(Notice)
    BY DEF InformerTypeOK
  <2>2. CASE obj[n] = Observed(n)
    BY <1>2, <2>1, <2>2 DEF Observed, Relist
  <2>3. CASE obj[n] # Observed(n)
    <3>1. pending'[n] = Append(pending[n], notice(n))
      BY <1>2, <2>3
    <3>2. notice(n) \in Notice
      BY <1>1, <2>3
    <3>3. /\ pending'[n] \in Seq(Notice)
          /\ pending'[n] # <<>>
          /\ pending'[n][Len(pending'[n])] = notice(n)
      BY <2>1, <3>1, <3>2
    <3> QED BY <1>1, <2>3, <3>3 DEF Observed
  <2> QED BY <2>2, <2>3
<1>4. pending' \in [Names -> Seq(Notice)]
  <2>1. pending' = [n \in Names |-> pending'[n]]
    BY DEF Relist
  <2> QED BY <1>3, <2>1
<1>5. InformerTypeOK'
  BY <1>4 DEF InformerTypeOK, Relist
<1>6. Synced'
  BY <1>3 DEF Synced, Relist
<1> QED BY <1>5, <1>6

(* The head of the queue, and what is left to observe once it is handled.  *)
LEMMA DeliverInv ==
    ASSUME InformerInv, NEW n \in Names, Deliver(n)
    PROVE  /\ InformerInv'
           /\ Shown(n) \in Object
           /\ cache'[n] = IF Head(pending[n]).gone THEN None ELSE Shown(n)
           /\ \A m \in Names \ {n} : cache'[m] = cache[m]
                                     /\ pending'[m] = pending[m]
<1> USE DEF InformerInv
<1>1. pending[n] \in Seq(Notice) /\ pending[n] # <<>>
  BY DEF InformerTypeOK, Deliver
<1>2. Head(pending[n]) \in Notice /\ Tail(pending[n]) \in Seq(Notice)
  BY <1>1
<1>3. Shown(n) \in Object
  BY <1>2 DEF Shown, Notice
<1>4. pending' = [pending EXCEPT ![n] = Tail(pending[n])]
  BY DEF Deliver
<1>5. cache' = [cache EXCEPT ![n] = IF Head(pending[n]).gone THEN None
                                    ELSE Shown(n)]
  BY DEF Deliver, Shown
<1>6. /\ cache'[n] = IF Head(pending[n]).gone THEN None ELSE Shown(n)
      /\ \A m \in Names \ {n} : cache'[m] = cache[m]
                                /\ pending'[m] = pending[m]
      /\ pending'[n] = Tail(pending[n])
  BY <1>4, <1>5 DEF InformerTypeOK
<1>7. InformerTypeOK'
  <2>1. pending' \in [Names -> Seq(Notice)]
    BY <1>2, <1>4 DEF InformerTypeOK
  <2>2. cache' \in [Names -> Object \cup {None}]
    BY <1>3, <1>5 DEF InformerTypeOK
  <2> QED BY <2>1, <2>2 DEF InformerTypeOK, Deliver
<1>8. \A m \in Names : Observed(m)' = Observed(m)
  <2> TAKE m \in Names
  <2>1. CASE m = n
    <3>1. CASE Len(pending[n]) = 1
      BY <1>1, <1>6, <2>1, <3>1, LastOfTail DEF Observed, Shown
    <3>2. CASE Len(pending[n]) # 1
      BY <1>1, <1>6, <2>1, <3>2, LastOfTail DEF Observed
    <3> QED BY <3>1, <3>2
  <2>2. CASE m # n
    BY <1>6, <2>2 DEF Observed
  <2> QED BY <2>1, <2>2
<1>9. Synced'
  BY <1>8 DEF Synced, Deliver
<1> QED BY <1>3, <1>6, <1>7, <1>9

LEMMA StartInv == ASSUME InformerInv, StartInformer PROVE InformerInv'
<1> USE DEF InformerInv
<1>1. ASSUME NEW n \in Names
      PROVE  /\ pending'[n] \in Seq(Notice)
             /\ Observed(n)' = obj[n]
  <2>1. CASE obj[n] = None
    BY <2>1 DEF StartInformer, Observed
  <2>2. CASE obj[n] # None
    <3>1. Put(obj[n]) \in Notice
      BY <2>2, PutType DEF InformerTypeOK
    <3>2. pending'[n] = <<Put(obj[n])>>
      BY <2>2 DEF StartInformer
    <3> QED BY <3>1, <3>2 DEF Observed, Put
  <2> QED BY <2>1, <2>2
<1>2. pending' = [n \in Names |-> pending'[n]]
  BY DEF StartInformer
<1>3. InformerTypeOK'
  BY <1>1, <1>2 DEF InformerTypeOK, StartInformer
<1>4. Synced'
  BY <1>1 DEF Synced, StartInformer
<1> QED BY <1>3, <1>4

LEMMA StopInv == ASSUME InformerInv, StopInformer PROVE InformerInv'
BY DEF InformerInv, StopInformer, InformerTypeOK, Synced

-----------------------------------------------------------------------------
(* No timestamp of an object is ahead of the clock, wherever the object is *)
(* seen: in the cluster, in the queue or in the cache.                     *)

PastAt(o, t) == o.created <= t /\ o.touched <= t /\ o.deleting <= t

NothingAhead ==
    \A n \in Names :
        /\ obj[n] # None => PastAt(obj[n], now)
        /\ cache[n] # None => PastAt(cache[n], now)
        /\ \A i \in 1..Len(pending[n]) : PastAt(pending[n][i].obj, now)

LEMMA PastLater ==
    ASSUME NEW o \in Object, NEW t \in Nat, PastAt(o, t)
    PROVE  PastAt(o, t + 1)
BY DEF PastAt, Object, Time

LEMMA AppendedNotice ==
    ASSUME NEW s \in Seq(Notice), NEW x \in Notice, NEW t,
           \A i \in 1..Len(s) : PastAt(s[i].obj, t), PastAt(x.obj, t)
    PROVE  \A i \in 1..Len(Append(s, x)) : PastAt(Append(s, x)[i].obj, t)
<1>1. /\ Len(Append(s, x)) = Len(s) + 1
      /\ Append(s, x)[Len(s) + 1] = x
      /\ \A i \in 1..Len(s) : Append(s, x)[i] = s[i]
      /\ Len(s) \in Nat
  OBVIOUS
<1> QED BY <1>1

LEMMA ObservedPast ==
    ASSUME InformerTypeOK, NothingAhead, NEW n \in Names, Observed(n) # None
    PROVE  PastAt(Observed(n), now)
<1>1. CASE pending[n] = <<>>
  BY <1>1 DEF Observed, NothingAhead
<1>2. CASE pending[n] # <<>>
  <2>1. pending[n] \in Seq(Notice)
    BY DEF InformerTypeOK
  <2>2. Len(pending[n]) \in 1..Len(pending[n])
    BY <1>2, <2>1
  <2> QED BY <1>2, <2>2 DEF Observed, NothingAhead
<1> QED BY <1>1, <1>2

LEMMA ChangePast ==
    ASSUME InformerInv, NothingAhead, NEW n \in Names,
           NEW o \in Object \cup {None}, obj[n] \in Object \/ o # None,
           o # None => PastAt(o, now + 1),
           Change(n, o)
    PROVE  NothingAhead'
<1>1. /\ now' = now + 1
      /\ now \in Nat
      /\ cache' = cache
      /\ obj' = [obj EXCEPT ![n] = o]
      /\ obj \in [Names -> Object \cup {None}]
      /\ cache \in [Names -> Object \cup {None}]
      /\ pending \in [Names -> Seq(Notice)]
  BY DEF Change, InformerInv, InformerTypeOK, Time
<1> SUFFICES ASSUME NEW m \in Names
             PROVE  /\ obj'[m] # None => PastAt(obj'[m], now + 1)
                    /\ cache[m] # None => PastAt(cache[m], now + 1)
                    /\ \A i \in 1..Len(pending'[m]) :
                          PastAt(pending'[m][i].obj, now + 1)
  BY <1>1 DEF NothingAhead
<1>2. \A q \in Object : PastAt(q, now) => PastAt(q, now + 1)
  BY <1>1, PastLater
<1>3. obj[m] # None => PastAt(obj[m], now + 1)
  BY <1>1, <1>2 DEF NothingAhead
<1>4. obj'[m] # None => PastAt(obj'[m], now + 1)
  BY <1>1, <1>3
<1>5. cache[m] # None => PastAt(cache[m], now + 1)
  BY <1>1, <1>2 DEF NothingAhead
<1>6. \A i \in 1..Len(pending[m]) : PastAt(pending[m][i].obj, now + 1)
  <2> TAKE i \in 1..Len(pending[m])
  <2>1. pending[m][i] \in Notice
    BY <1>1
  <2>2. pending[m][i].obj \in Object
    BY <2>1 DEF Notice
  <2> QED BY <1>2, <2>2 DEF NothingAhead
<1>7. CASE pending'[m] = pending[m]
  BY <1>4, <1>5, <1>6, <1>7
<1>8. CASE pending'[m] # pending[m]
  <2> DEFINE notice == IF o = None THEN Gone(obj[n]) ELSE Put(o)
  <2>1. m = n /\ pending'[m] = Append(pending[m], notice)
    BY <1>1, <1>8 DEF Change
  <2>2. notice \in Notice
    BY PutType
  <2>3. PastAt(notice.obj, now + 1)
    <3>1. CASE o = None
      <4>1. obj[n] \in Object /\ obj[n] # None
        BY <3>1, NoneAssumption
      <4> QED BY <1>3, <2>1, <3>1, <4>1, PutType
    <3>2. CASE o # None
      BY <3>2, PutType
    <3> QED BY <3>1, <3>2
  <2> HIDE DEF notice
  <2>4. \A i \in 1..Len(pending'[m]) : PastAt(pending'[m][i].obj, now + 1)
    <3>1. pending[m] \in Seq(Notice)
      BY <1>1
    <3> QED BY <1>6, <2>1, <2>2, <2>3, <3>1, AppendedNotice
  <2> QED BY <1>4, <1>5, <2>4
<1> QED BY <1>7, <1>8

LEMMA ClusterPast ==
    ASSUME InformerInv, NothingAhead, NEW n \in Names, Cluster(n)
    PROVE  NothingAhead'
<1>1. now \in Nat /\ obj[n] \in Object \cup {None}
  BY DEF InformerInv, InformerTypeOK, Time
<1>2. now < MaxTime => now + 1 \in Time
  BY <1>1, MaxTimeAssumption DEF Time
<1>3. obj[n] # None => PastAt(obj[n], now + 1)
  BY <1>1, PastLater DEF NothingAhead
<1>4. CASE Create(n)
  <2>1. PICK s \in Specs, r \in BOOLEAN :
           Change(n, [created |-> now + 1, touched |-> now + 1, spec |-> s,
                      ready |-> r, deleting |-> 0])
    BY <1>4 DEF Create
  <2> DEFINE o == [created |-> now + 1, touched |-> now + 1, spec |-> s,
                   ready |-> r, deleting |-> 0]
  <2>2. o \in Object
    BY <1>2, <2>1, MaxTimeAssumption DEF Change, Object, Time
  <2>3. o # None /\ PastAt(o, now + 1)
    BY <1>1, <2>2, NoneAssumption DEF PastAt
  <2> HIDE DEF o
  <2> QED BY <2>1, <2>2, <2>3, ChangePast DEF o
<1>5. CASE Edit(n)
  <2>1. PICK s \in Specs : Change(n, [obj[n] EXCEPT !.spec = s])
    BY <1>5 DEF Edit
  <2>2. obj[n] \in Object /\ PastAt(obj[n], now + 1)
    BY <1>1, <1>3, <1>5 DEF Edit
  <2>3. /\ [obj[n] EXCEPT !.spec = s] \in Object
        /\ PastAt([obj[n] EXCEPT !.spec = s], now + 1)
    BY <2>2 DEF Object, PastAt
  <2> QED BY <2>1, <2>2, <2>3, ChangePast
<1>6. CASE SetReady(n)
  <2>1. obj[n] \in Object /\ PastAt(obj[n], now + 1)
    BY <1>1, <1>3, <1>6 DEF SetReady
  <2>2. now + 1 \in Time
    BY <1>2, <1>6 DEF SetReady, Change
  <2> DEFINE o == [obj[n] EXCEPT !.ready = ~@, !.touched = now + 1]
  <2>3. o \in Object
    BY <2>1, <2>2 DEF Object
  <2>4. o.created = obj[n].created /\ o.touched = now + 1
        /\ o.deleting = obj[n].deleting
    BY <2>1 DEF Object
  <2>5. PastAt(o, now + 1)
    BY <1>1, <2>1, <2>4 DEF PastAt
  <2>6. Change(n, o)
    BY <1>6 DEF SetReady
  <2> HIDE DEF o
  <2> QED BY <2>1, <2>3, <2>5, <2>6, ChangePast
<1>7. CASE BeginDelete(n)
  <2>1. obj[n] \in Object /\ PastAt(obj[n], now + 1)
    BY <1>1, <1>3, <1>7 DEF BeginDelete
  <2>2. now + 1 \in Time
    BY <1>2, <1>7 DEF BeginDelete, Change
  <2>3. /\ [obj[n] EXCEPT !.deleting = now + 1] \in Object
        /\ PastAt([obj[n] EXCEPT !.deleting = now + 1], now + 1)
    BY <1>1, <2>1, <2>2 DEF Object, PastAt
  <2> QED BY <1>7, <2>1, <2>3, ChangePast DEF BeginDelete
<1>8. CASE Remove(n)
  BY <1>1, <1>8, ChangePast DEF Remove
<1> QED BY <1>4, <1>5, <1>6, <1>7, <1>8 DEF Cluster

LEMMA RelistPast ==
    ASSUME InformerInv, NothingAhead, Relist
    PROVE  NothingAhead'
<1>1. InformerTypeOK /\ now' = now /\ obj' = obj /\ cache' = cache
  BY DEF InformerInv, Relist
<1> SUFFICES ASSUME NEW n \in Names
             PROVE  \A i \in 1..Len(pending'[n]) :
                       PastAt(pending'[n][i].obj, now)
  BY <1>1 DEF NothingAhead
<1> DEFINE notice == IF obj[n] = None THEN Gone(Observed(n)) ELSE Put(obj[n])
<1>2. CASE obj[n] = Observed(n)
  BY <1>2 DEF Relist, NothingAhead
<1>3. CASE obj[n] # Observed(n)
  <2>1. pending'[n] = Append(pending[n], notice)
    BY <1>3 DEF Relist
  <2>2. obj[n] \in Object \cup {None} /\ Observed(n) \in Object \cup {None}
    BY <1>1, ObservedType DEF InformerTypeOK
  <2>3. notice \in Notice /\ PastAt(notice.obj, now)
    BY <1>1, <1>3, <2>2, PutType, ObservedPast DEF NothingAhead
  <2>4. pending[n] \in Seq(Notice)
    BY <1>1 DEF InformerTypeOK
  <2> HIDE DEF notice
  <2> QED BY <2>1, <2>3, <2>4, AppendedNotice DEF NothingAhead
<1> QED BY <1>2, <1>3

LEMMA DeliverPast ==
    ASSUME InformerInv, NothingAhead, NEW n \in Names, Deliver(n)
    PROVE  NothingAhead' /\ PastAt(Shown(n), now)
<1>1. pending[n] \in Seq(Notice) /\ pending[n] # <<>>
  BY DEF InformerInv, InformerTypeOK, Deliver
<1>2. /\ Head(pending[n]) = pending[n][1]
      /\ 1 \in 1..Len(pending[n])
      /\ Len(Tail(pending[n])) = Len(pending[n]) - 1
      /\ Len(pending[n]) \in Nat
      /\ \A i \in 1..Len(Tail(pending[n])) :
            Tail(pending[n])[i] = pending[n][i + 1]
  BY <1>1
<1>3. PastAt(Shown(n), now)
  BY <1>2 DEF Shown, NothingAhead
<1>4. /\ now' = now /\ obj' = obj
      /\ cache'[n] = IF Head(pending[n]).gone THEN None ELSE Shown(n)
      /\ \A m \in Names \ {n} : cache'[m] = cache[m]
                                /\ pending'[m] = pending[m]
      /\ pending'[n] = Tail(pending[n])
  BY DeliverInv DEF Deliver, InformerInv, InformerTypeOK
<1>5. \A i \in 1..Len(Tail(pending[n])) :
         PastAt(Tail(pending[n])[i].obj, now)
  BY <1>2 DEF NothingAhead
<1>6. NothingAhead'
  BY <1>3, <1>4, <1>5 DEF NothingAhead
<1> QED BY <1>3, <1>6

LEMMA StartPast ==
    ASSUME InformerInv, NothingAhead, StartInformer
    PROVE  NothingAhead'
<1> SUFFICES ASSUME NEW n \in Names
             PROVE  \A i \in 1..Len(pending'[n]) :
                       PastAt(pending'[n][i].obj, now)
  BY DEF NothingAhead, StartInformer
<1>1. CASE obj[n] = None
  BY <1>1 DEF StartInformer
<1>2. CASE obj[n] # None
  BY <1>2 DEF StartInformer, Put, NothingAhead
<1> QED BY <1>1, <1>2

LEMMA StopPast ==
    ASSUME NothingAhead, StopInformer
    PROVE  NothingAhead'
BY DEF NothingAhead, StopInformer

-----------------------------------------------------------------------------
(* The tables.                                                             *)

(* A set of row numbers that is not empty has a highest one.               *)
LEMMA HasLatest ==
    ASSUME NEW L \in Nat, NEW I \in SUBSET (1..L), I # {}
    PROVE  /\ LatestOf(I) \in I
           /\ \A j \in I : j <= LatestOf(I)
<1> DEFINE R == OpToRel(<, Nat)
           T == {k \in Nat : L - k \in I}
<1>1. IsWellFoundedOn(R, Nat)
  BY NatLessThanWellFounded
<1>2. T # {}
  <2>1. PICK i \in I : TRUE
    OBVIOUS
  <2>2. L - i \in Nat /\ L - (L - i) = i
    BY <2>1
  <2> QED BY <2>1, <2>2
<1>3. PICK k \in T : \A m \in T : ~(<<m, k>> \in R)
  <2> HIDE DEF R, T
  <2>1. T \subseteq Nat
    BY DEF T
  <2> QED BY <1>1, <1>2, <2>1, WFMin
<1>4. \A m \in T : ~(m < k)
  BY <1>3 DEF OpToRel
<1>5. ASSUME NEW j \in I PROVE j <= L - k
  <2>1. L - j \in Nat /\ L - (L - j) = j
    OBVIOUS
  <2>2. L - j \in T
    BY <2>1
  <2> QED BY <1>4, <2>1, <2>2
<1>6. \E i \in I : \A j \in I : j <= i
  BY <1>5
<1> QED BY <1>6 DEF LatestOf

(* There is only one of it.                                                *)
LEMMA LatestUnique ==
    ASSUME NEW I \in SUBSET Nat, NEW k \in I, \A j \in I : j <= k
    PROVE  LatestOf(I) = k
<1>1. LatestOf(I) \in I /\ \A j \in I : j <= LatestOf(I)
  BY DEF LatestOf
<1>2. LatestOf(I) <= k /\ k <= LatestOf(I)
  BY <1>1
<1>3. LatestOf(I) \in Nat /\ k \in Nat
  BY <1>1
<1> QED BY <1>2, <1>3

(* A row stamped no earlier than those before it takes effect from its     *)
(* stamp on, and leaves what was on record before that.                    *)
LEMMA HashAtAppend ==
    ASSUME NEW R, \A r \in R : r.stamp \in Nat,
           NEW rows \in Seq(R), NEW row \in R, NEW t \in Nat, NEW none,
           \A i \in 1..Len(rows) : rows[i].stamp <= row.stamp
    PROVE  HashAt(Append(rows, row), t, none) =
               IF t >= row.stamp THEN row.hash ELSE HashAt(rows, t, none)
<1> DEFINE new == Append(rows, row)
           L == Len(rows)
<1>1. /\ L \in Nat
      /\ Len(new) = L + 1
      /\ new[L + 1] = row
      /\ \A i \in 1..L : new[i] = rows[i] /\ rows[i] \in R
  OBVIOUS
<1> HIDE DEF new
<1>2. CASE t >= row.stamp
  <2>1. L + 1 \in Before(new, t)
    BY <1>1, <1>2 DEF Before
  <2>2. \A j \in Before(new, t) : j <= L + 1
    BY <1>1 DEF Before
  <2>3. Before(new, t) \subseteq Nat
    BY <1>1 DEF Before
  <2>4. LatestOf(Before(new, t)) = L + 1
    BY <2>1, <2>2, <2>3, LatestUnique
  <2> QED BY <1>1, <1>2, <2>1, <2>4 DEF HashAt, new
<1>3. CASE ~(t >= row.stamp)
  <2>1. Before(new, t) = Before(rows, t)
    BY <1>1, <1>3 DEF Before
  <2>2. CASE Before(rows, t) = {}
    BY <1>3, <2>1, <2>2 DEF HashAt, new
  <2>3. CASE Before(rows, t) # {}
    <3>1. Before(rows, t) \in SUBSET (1..L)
      BY DEF Before
    <3>2. LatestOf(Before(rows, t)) \in 1..L
      BY <1>1, <2>3, <3>1, HasLatest
    <3> QED BY <1>1, <1>3, <2>1, <2>3, <3>2 DEF HashAt, new
  <2> QED BY <2>2, <2>3
<1> QED BY <1>2, <1>3

(* The rows of R have the columns a deletion mark at time at relies on.    *)
Markable(R, at) ==
    \A r \in R : /\ [r EXCEPT !.deleted = at] \in R
                 /\ [r EXCEPT !.deleted = at].hash = r.hash
                 /\ [r EXCEPT !.deleted = at].stamp = r.stamp
                 /\ [r EXCEPT !.deleted = at].deleted = at

(* A deletion mark changes neither which row is found nor its content.     *)
LEMMA MarkedRowsOf ==
    ASSUME NEW R, NEW rows \in Seq(R), NEW at, Markable(R, at)
    PROVE  /\ Marked(rows, at) \in Seq(R)
           /\ Len(Marked(rows, at)) = Len(rows)
           /\ \A i \in 1..Len(rows) :
                 /\ Marked(rows, at)[i].hash = rows[i].hash
                 /\ Marked(rows, at)[i].stamp = rows[i].stamp
                 /\ Marked(rows, at)[i].deleted = at
           /\ \A t, none : HashAt(Marked(rows, at), t, none)
                           = HashAt(rows, t, none)
<1> DEFINE new == Marked(rows, at)
           L == Len(rows)
<1>1. L \in Nat /\ \A i \in 1..L : rows[i] \in R
  OBVIOUS
<1>2. /\ new \in Seq(R)
      /\ Len(new) = L
      /\ \A i \in 1..L : new[i] = [rows[i] EXCEPT !.deleted = at]
  BY <1>1 DEF Marked, Markable
<1> HIDE DEF new
<1>3. \A i \in 1..L : /\ new[i].hash = rows[i].hash
                      /\ new[i].stamp = rows[i].stamp
                      /\ new[i].deleted = at
  <2> SUFFICES ASSUME NEW i \in 1..L
               PROVE  /\ new[i].hash = rows[i].hash
                      /\ new[i].stamp = rows[i].stamp
                      /\ new[i].deleted = at
    OBVIOUS
  <2> DEFINE r == rows[i]
  <2>1. r \in R /\ new[i] = [r EXCEPT !.deleted = at]
    BY <1>1, <1>2
  <2> HIDE DEF r
  <2>2. /\ [r EXCEPT !.deleted = at].hash = r.hash
        /\ [r EXCEPT !.deleted = at].stamp = r.stamp
        /\ [r EXCEPT !.deleted = at].deleted = at
    BY <2>1 DEF Markable
  <2> QED BY <2>1, <2>2 DEF r
<1>4. ASSUME NEW t, NEW none
      PROVE  HashAt(new, t, none) = HashAt(rows, t, none)
  <2>1. Before(new, t) = Before(rows, t)
    BY <1>2, <1>3 DEF Before
  <2>2. CASE Before(rows, t) = {}
    BY <2>1, <2>2 DEF HashAt
  <2>3. CASE Before(rows, t) # {}
    <3>1. Before(rows, t) \in SUBSET (1..L)
      BY DEF Before
    <3>2. LatestOf(Before(rows, t)) \in 1..L
      BY <1>1, <2>3, <3>1, HasLatest
    <3> QED BY <1>3, <2>1, <2>3, <3>2 DEF HashAt
  <2> QED BY <2>2, <2>3
<1> QED BY <1>2, <1>3, <1>4 DEF new

=============================================================================
