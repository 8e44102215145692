-------------------------- MODULE CASettings_proofs --------------------------
(***************************************************************************)
(* The properties of CASettings for any settings and priorities, and any   *)
(* number of changes, restarts, watch gaps and failed database calls.      *)
(*                                                                         *)
(* HalvesCurrent is not inductive: a handler that keeps the latest row     *)
(* compares with the row it loaded.  LoadedCurrent adds that the half it   *)
(* compares with is still that of the latest row, unless it was raced.     *)
(***************************************************************************)
EXTENDS CASettings, Recording_proofs

LoadedCurrent ==
    \A n \in Names :
        loaded[n] # Idle /\ ~raced[n]
        => Half(loaded[n], n) = Half(LatestRow, n)

IInv ==
    /\ TypeOK
    /\ Synced
    /\ LoadedCurrent
    /\ HalvesCurrent

Row0 == RowSet \cup {NoRow}

LEMMA LatestType ==
    ASSUME TypeOK
    PROVE  LatestRow \in Row0
BY DEF TypeOK, LatestRow, Row0

LEMMA AppendRow ==
    ASSUME TypeOK, NEW r \in RowSet, rows' = Append(rows, r)
    PROVE  rows' \in Seq(RowSet) /\ LatestRow' = r /\ Len(rows') = Len(rows) + 1
<1>1. /\ rows' \in Seq(RowSet)
      /\ Len(rows') = Len(rows) + 1
      /\ rows'[Len(rows) + 1] = r
      /\ rows' # <<>>
  BY DEF TypeOK
<1> QED BY <1>1 DEF LatestRow

(* A handler that has loaded a row and been shown an object.               *)
LEMMA ComposedRow ==
    ASSUME TypeOK, NEW n \in Names, loaded[n] # Idle, Shown(n) \in Object,
           Composed(n).settings # None
    PROVE  /\ loaded[n] \in Row0
           /\ Composed(n) \in RowSet
           /\ Half(Composed(n), n) = Shown(n).spec
           /\ \A m \in Names \ {n} : Half(Composed(n), m) = Half(loaded[n], m)
<1>1. loaded[n] \in Row0 /\ Shown(n).spec \in Specs /\ now \in Time
  BY DEF TypeOK, Row0, Object, InformerTypeOK
<1>2. 0 \in Time
  BY MaxTimeAssumption DEF Time
<1>3. CASE n = Deployment
  <2>1. Composed(n) = [settings |-> Shown(n).spec,
                       priorities |-> loaded[n].priorities, stamp |-> now]
    BY <1>3 DEF Composed
  <2>2. loaded[n].priorities \in Specs \cup {None}
    BY <1>1 DEF Row0, RowSet, NoRow
  <2>3. Composed(n) \in RowSet
    BY <1>1, <2>1, <2>2 DEF RowSet
  <2>4. \A m \in Names \ {n} : m = ConfigMap /\ m # Deployment
    BY <1>3, NamesAssumption
  <2> QED BY <1>1, <1>3, <2>1, <2>3, <2>4 DEF Half
<1>4. CASE n = ConfigMap
  <2>0. n # Deployment
    BY <1>4, NamesAssumption
  <2>1. Composed(n) = [loaded[n] EXCEPT !.priorities = Shown(n).spec]
    BY <2>0 DEF Composed
  <2>2. loaded[n] \in RowSet
    BY <1>1, <2>1 DEF Row0, NoRow
  <2>3. Composed(n) = [settings |-> loaded[n].settings,
                       priorities |-> Shown(n).spec,
                       stamp |-> loaded[n].stamp]
    BY <2>1, <2>2 DEF RowSet
  <2>4. Composed(n) \in RowSet
    BY <1>1, <2>2, <2>3 DEF RowSet
  <2>5. \A m \in Names \ {n} : m = Deployment
    BY <1>4, NamesAssumption
  <2> QED BY <1>1, <2>0, <2>3, <2>4, <2>5 DEF Half
<1> QED BY <1>3, <1>4, NamesAssumption

(* What the handlers have in common when they are done with an object.     *)
LEMMA HandledEffect ==
    ASSUME IInv, NEW n \in Names, Handled(n)
    PROVE  /\ InformerTypeOK' /\ Synced'
           /\ loaded[n] # Idle
           /\ loaded'[n] = Idle
           /\ loaded' \in [Names -> RowSet \cup {NoRow, Idle}]
           /\ Shown(n) \in Object
           /\ cache'[n] = IF Head(pending[n]).gone THEN None ELSE Shown(n)
           /\ \A m \in Names \ {n} : /\ cache'[m] = cache[m]
                                     /\ loaded'[m] = loaded[m]
<1>1. Deliver(n)
  BY DEF Handled
<1>2. InformerInv
  BY DEF IInv, TypeOK, InformerInv
<1>3. /\ InformerTypeOK' /\ Synced'
      /\ Shown(n) \in Object
      /\ cache'[n] = IF Head(pending[n]).gone THEN None ELSE Shown(n)
      /\ \A m \in Names \ {n} : cache'[m] = cache[m]
  BY <1>1, <1>2, DeliverInv DEF InformerInv
<1> QED BY <1>3 DEF Handled, IInv, TypeOK

(* A stored row is made of the half shown and of the other half loaded;    *)
(* from the latest row, unless it races the other handler.                 *)
LEMMA StoreInv ==
    ASSUME IInv, NEW n \in Names, Store(n)
    PROVE  IInv'
<1>1. /\ TypeOK
      /\ Handled(n)
      /\ rows' = Append(rows, Composed(n))
      /\ Composed(n).settings # None
      /\ lost' = [lost EXCEPT ![n] = FALSE]
      /\ raced' = [m \in Names |->
                      m # n /\ (raced[m] \/ loaded[n] # LatestRow)]
  BY DEF IInv, Store
<1>2. /\ InformerTypeOK' /\ Synced'
      /\ loaded[n] # Idle
      /\ loaded'[n] = Idle
      /\ loaded' \in [Names -> RowSet \cup {NoRow, Idle}]
      /\ Shown(n) \in Object
      /\ cache'[n] = IF Head(pending[n]).gone THEN None ELSE Shown(n)
      /\ \A m \in Names \ {n} : /\ cache'[m] = cache[m]
                                /\ loaded'[m] = loaded[m]
  BY <1>1, HandledEffect
<1>3. /\ Composed(n) \in RowSet
      /\ Half(Composed(n), n) = Shown(n).spec
      /\ \A m \in Names \ {n} : Half(Composed(n), m) = Half(loaded[n], m)
  BY <1>1, <1>2, ComposedRow
<1>4. rows' \in Seq(RowSet) /\ LatestRow' = Composed(n)
  BY <1>1, <1>3, AppendRow
<1>5. TypeOK'
  BY <1>1, <1>2, <1>4 DEF TypeOK
<1>6. ASSUME NEW m \in Names \ {n}, ~raced'[m]
      PROVE  ~raced[m] /\ Half(LatestRow', m) = Half(LatestRow, m)
  BY <1>1, <1>3, <1>4, <1>6
<1>7. LoadedCurrent'
  <2> SUFFICES ASSUME NEW m \in Names, loaded'[m] # Idle, ~raced'[m]
               PROVE  Half(loaded'[m], m) = Half(LatestRow', m)
    BY DEF LoadedCurrent, Half
  <2>1. m # n
    BY <1>2
  <2> QED BY <1>2, <1>6, <2>1 DEF IInv, LoadedCurrent
<1>8. HalvesCurrent'
  <2> SUFFICES ASSUME NEW m \in Names, cache'[m] # None, ~lost'[m],
                      ~raced'[m]
               PROVE  Half(LatestRow', m) = cache'[m].spec
    BY DEF HalvesCurrent, Half
  <2>1. CASE m = n
    BY <1>2, <1>3, <1>4, <2>1
  <2>2. CASE m # n
    <3>1. ~lost[m]
      BY <1>1, <2>2 DEF TypeOK
    <3> QED BY <1>2, <1>6, <2>2, <3>1 DEF IInv, HalvesCurrent
  <2> QED BY <2>1, <2>2
<1> QED BY <1>2, <1>5, <1>7, <1>8 DEF IInv

(* What is kept is the half of the row loaded, and so of the latest row.   *)
LEMMA KeepInv ==
    ASSUME IInv, NEW n \in Names, Keep(n)
    PROVE  IInv'
<1>1. /\ TypeOK
      /\ Handled(n)
      /\ loaded[n] # NoRow
      /\ SameHash(Composed(n), loaded[n])
      /\ lost' = [lost EXCEPT ![n] = FALSE]
      /\ UNCHANGED <<rows, raced, LatestRow>>
  BY DEF IInv, Keep, LatestRow
<1>2. /\ InformerTypeOK' /\ Synced'
      /\ loaded[n] # Idle
      /\ loaded'[n] = Idle
      /\ loaded' \in [Names -> RowSet \cup {NoRow, Idle}]
      /\ Shown(n) \in Object
      /\ cache'[n] = IF Head(pending[n]).gone THEN None ELSE Shown(n)
      /\ \A m \in Names \ {n} : /\ cache'[m] = cache[m]
                                /\ loaded'[m] = loaded[m]
  BY <1>1, HandledEffect
<1>3. TypeOK'
  BY <1>1, <1>2 DEF TypeOK
<1>4. LoadedCurrent'
  <2> SUFFICES ASSUME NEW m \in Names, loaded'[m] # Idle, ~raced[m]
               PROVE  Half(loaded'[m], m) = Half(LatestRow, m)
    BY <1>1 DEF LoadedCurrent, Half
  <2> QED BY <1>2 DEF IInv, LoadedCurrent
<1>5. Half(loaded[n], n) = Shown(n).spec
  <2>1. loaded[n] \in RowSet
    BY <1>1, <1>2 DEF TypeOK
  <2>2. Composed(n).settings = loaded[n].settings
        /\ loaded[n].settings \in Specs
    BY <1>1, <2>1 DEF SameHash, RowSet
  <2>3. Composed(n).settings # None
    BY <2>2, IdleAssumption
  <2>4. Half(Composed(n), n) = Shown(n).spec
    BY <1>1, <1>2, <2>3, ComposedRow
  <2> QED BY <1>1, <2>4 DEF SameHash, Half
<1>6. HalvesCurrent'
  <2> SUFFICES ASSUME NEW m \in Names, cache'[m] # None, ~lost'[m], ~raced[m]
               PROVE  Half(LatestRow, m) = cache'[m].spec
    BY <1>1 DEF HalvesCurrent, Half
  <2>1. CASE m = n
    BY <1>2, <1>5, <2>1 DEF IInv, LoadedCurrent
  <2>2. CASE m # n
    <3>1. ~lost[m]
      BY <1>1, <2>2 DEF TypeOK
    <3> QED BY <1>2, <2>2, <3>1 DEF IInv, HalvesCurrent
  <2> QED BY <2>1, <2>2
<1> QED BY <1>2, <1>3, <1>4, <1>6 DEF IInv

(* An object that was not stored is noted as lost.                         *)
LEMMA LossInv ==
    ASSUME IInv, NEW n \in Names, LoadFails(n) \/ StoreFails(n)
    PROVE  IInv'
<1>1. /\ TypeOK
      /\ Deliver(n)
      /\ lost' = [lost EXCEPT ![n] = TRUE]
      /\ UNCHANGED <<rows, raced, LatestRow>>
      /\ loaded' \in [Names -> RowSet \cup {NoRow, Idle}]
      /\ \A m \in Names : loaded'[m] # Idle => loaded'[m] = loaded[m]
  BY DEF IInv, TypeOK, LoadFails, StoreFails, Handled, LatestRow
<1>2. InformerInv
  BY DEF IInv, TypeOK, InformerInv
<1>3. /\ InformerTypeOK' /\ Synced'
      /\ \A m \in Names \ {n} : cache'[m] = cache[m]
  BY <1>1, <1>2, DeliverInv DEF InformerInv
<1>4. TypeOK'
  BY <1>1, <1>3 DEF TypeOK
<1>5. LoadedCurrent'
  BY <1>1 DEF IInv, LoadedCurrent, Half
<1>6. HalvesCurrent'
  BY <1>1, <1>3 DEF IInv, TypeOK, HalvesCurrent, Half
<1> QED BY <1>3, <1>4, <1>5, <1>6 DEF IInv

LEMMA HandleInv ==
    ASSUME IInv, NEW n \in Names, Handle(n)
    PROVE  IInv'
<1>1. CASE Load(n)
  <2>1. /\ UNCHANGED <<informerVars, rows, lost, raced, LatestRow>>
        /\ loaded' = [loaded EXCEPT ![n] = LatestRow]
    BY <1>1 DEF Load, LatestRow
  <2>2. LatestRow \in RowSet \cup {NoRow}
    BY LatestType DEF IInv, Row0
  <2>3. TypeOK' /\ Synced'
    BY <2>1, <2>2 DEF IInv, TypeOK, InformerTypeOK, informerVars, Synced,
                      Observed
  <2>4. LoadedCurrent'
    BY <2>1 DEF IInv, TypeOK, LoadedCurrent, Half
  <2>5. HalvesCurrent'
    BY <2>1 DEF IInv, HalvesCurrent, Half, informerVars
  <2> QED BY <2>3, <2>4, <2>5 DEF IInv
<1>2. CASE Ignore(n)
  <2>1. InformerInv
    BY DEF IInv, TypeOK, InformerInv
  <2>2. /\ InformerInv'
        /\ cache'[n] = None
        /\ \A m \in Names \ {n} : cache'[m] = cache[m]
        /\ UNCHANGED <<rows, loaded, lost, raced, LatestRow>>
    BY <1>2, <2>1, DeliverInv DEF Ignore, IsDelete, LatestRow
  <2> QED BY <2>2 DEF IInv, TypeOK, InformerInv, LoadedCurrent,
                      HalvesCurrent, Half
<1> QED BY <1>1, <1>2, StoreInv, KeepInv, LossInv DEF Handle

-----------------------------------------------------------------------------

LEMMA InitInv == Init => IInv
<1> SUFFICES ASSUME Init PROVE IInv
  OBVIOUS
<1>1. InformerInv
  BY InformerInitInv DEF Init
<1> QED BY <1>1 DEF Init, InformerInit, InformerInv, IInv, TypeOK,
                    LoadedCurrent, HalvesCurrent

LEMMA NextInv == IInv /\ [Next]_vars => IInv'
<1> SUFFICES ASSUME IInv, [Next]_vars PROVE IInv'
  OBVIOUS
<1>1. InformerInv
  BY DEF IInv, TypeOK, InformerInv
<1>2. ASSUME NEW n \in Names, ClusterStep(n) PROVE IInv'
  <2>1. InformerInv'
    BY <1>1, <1>2, ClusterInv DEF ClusterStep
  <2>2. cache' = cache /\ UNCHANGED <<rows, loaded, lost, raced, LatestRow>>
    BY <1>2 DEF ClusterStep, ownVars, Cluster, Create, Edit, SetReady,
                BeginDelete, Remove, Change, LatestRow
  <2> QED BY <2>1, <2>2 DEF IInv, TypeOK, InformerInv, LoadedCurrent,
                            HalvesCurrent, Half
<1>3. CASE WatchBreaks \/ WatchResumes
  <2>1. InformerInv'
    BY <1>1, <1>3, BreakInv, RelistInv DEF WatchBreaks, WatchResumes
  <2>2. cache' = cache /\ UNCHANGED <<rows, loaded, lost, raced, LatestRow>>
    BY <1>3 DEF WatchBreaks, WatchResumes, Break, Relist, ownVars, LatestRow
  <2> QED BY <2>1, <2>2 DEF IInv, TypeOK, InformerInv, LoadedCurrent,
                            HalvesCurrent, Half
<1>4. CASE Start
  <2>1. InformerInv'
    BY <1>1, <1>4, StartInv DEF Start
  <2>2. /\ \A n \in Names : cache'[n] = None
        /\ UNCHANGED <<rows, loaded, lost, raced, LatestRow>>
    BY <1>4 DEF Start, StartInformer, ownVars, LatestRow
  <2> QED BY <2>1, <2>2 DEF IInv, TypeOK, InformerInv, LoadedCurrent,
                            HalvesCurrent, Half
<1>5. CASE Crash
  <2>1. InformerInv'
    BY <1>1, <1>5, StopInv DEF Crash
  <2>2. /\ \A n \in Names : cache'[n] = None
        /\ loaded' = [n \in Names |-> Idle]
        /\ lost' \in [Names -> BOOLEAN] /\ raced' \in [Names -> BOOLEAN]
        /\ UNCHANGED rows
    BY <1>5 DEF Crash, StopInformer
  <2> QED BY <2>1, <2>2 DEF IInv, TypeOK, InformerInv, LoadedCurrent,
                            HalvesCurrent
<1>6. CASE UNCHANGED vars
  BY <1>6 DEF vars, IInv, TypeOK, InformerTypeOK, Synced, Observed,
     LoadedCurrent, HalvesCurrent, Half, LatestRow
<1> QED BY <1>2, <1>3, <1>4, <1>5, <1>6, HandleInv DEF Next

LEMMA Invariance == Spec => []IInv
BY InitInv, NextInv, PTL DEF Spec

-----------------------------------------------------------------------------
(* Theorems.                                                               *)

(* The variables keep their types: a row always has settings.              *)
THEOREM TypeCorrect == Spec => []TypeOK
<1>1. IInv => TypeOK
  BY DEF IInv
<1> QED BY <1>1, Invariance, PTL

(* Nothing but a store that raced or failed leaves a half of the latest    *)
(* row behind what its handler was shown (recorder.go:1044-1126).          *)
THEOREM HalvesAreCurrent == Spec => []HalvesCurrent
<1>1. IInv => HalvesCurrent
  BY DEF IInv
<1> QED BY <1>1, Invariance, PTL

(* Without an overlap a stored row is never that before it.                *)
THEOREM RowsAreNotRepeated == Spec => NoRowRepeated
<1> DEFINE Step == Len(rows') > Len(rows) /\ (\A n \in Names : ~raced[n])
                   => ~SameHash(LatestRow', LatestRow)
<1>1. IInv /\ [Next]_vars => Step
  <2> SUFFICES ASSUME IInv, [Next]_vars, Len(rows') > Len(rows),
                      \A n \in Names : ~raced[n]
               PROVE  ~SameHash(LatestRow', LatestRow)
    OBVIOUS
  <2>1. TypeOK /\ Len(rows) \in Nat
    BY DEF IInv, TypeOK
  <2>2. rows' # rows
    BY <2>1
  <2>3. PICK n \in Names : Store(n)
    BY <2>2 DEF Next, vars, ownVars, ClusterStep, WatchBreaks, WatchResumes,
                Start, Crash, Handle, Load, LoadFails, Keep, StoreFails,
                Ignore
  <2>4. /\ loaded[n] # Idle /\ Shown(n) \in Object
        /\ Composed(n).settings # None
        /\ rows' = Append(rows, Composed(n))
        /\ loaded[n] = NoRow \/ ~SameHash(Composed(n), loaded[n])
    BY <2>3, HandledEffect DEF Store
  <2>5. /\ Composed(n) \in RowSet
        /\ Half(Composed(n), n) = Shown(n).spec
        /\ \A m \in Names \ {n} : Half(Composed(n), m) = Half(loaded[n], m)
    BY <2>1, <2>4, ComposedRow
  <2>6. LatestRow' = Composed(n)
    BY <2>1, <2>4, <2>5, AppendRow
  <2>7. Half(loaded[n], n) = Half(LatestRow, n)
    BY <2>4 DEF IInv, LoadedCurrent
  <2>8. \A r, s : SameHash(r, s) <=> \A m \in Names : Half(r, m) = Half(s, m)
    BY NamesAssumption DEF SameHash, Half
  <2>9. CASE ~SameHash(Composed(n), loaded[n])
    <3>1. Half(Composed(n), n) # Half(loaded[n], n)
      BY <2>5, <2>8, <2>9
    <3> QED BY <2>6, <2>7, <2>8, <3>1
  <2>10. CASE loaded[n] = NoRow
    <3>1. Composed(n).settings \in Specs
      BY <2>5 DEF RowSet
    <3>2. NoRow.settings = None
      BY DEF NoRow
    <3>3. ~SameHash(Composed(n), loaded[n])
      BY <2>10, <3>1, <3>2, IdleAssumption DEF SameHash
    <3> QED BY <2>9, <3>3
  <2> QED BY <2>4, <2>9, <2>10
<1>2. IInv /\ [Next]_vars => [Step]_vars
  BY <1>1
<1> QED BY <1>2, Invariance, PTL DEF Spec, NoRowRepeated

=============================================================================
