---------------------- MODULE RecorderLifecycle_proofs ----------------------
(***************************************************************************)
(* That the recorders keep their types, and that replacing a recorder never*)
(* makes an event older than the start time, for any number of clusters,   *)
(* replacements, restarts and for any clock.  What makes it inductive is   *)
(* that the recorder of the watched cluster, if there is one, has the start*)
(* time of the first: a recorder that is replaced hands it on.             *)
(***************************************************************************)
EXTENDS RecorderLifecycle, TLAPS

StartTimeKept == recorder[Watched] # None => recorder[Watched].startTime = began

IInv == TypeOK /\ StartTimeKept

-----------------------------------------------------------------------------
(* Lemmas about the map of recorders.                                      *)

LEMMA ClusterKeys == Watched \in Keys /\ Clusters \subseteq Keys
BY WatchedAssumption DEF Keys

(* An entry of the map is a recorder with all its fields.                  *)
LEMMA EntryFields ==
    ASSUME TypeOK, NEW c \in Keys, recorder[c] # None
    PROVE  /\ recorder[c] \in Recorder
           /\ recorder[c].startTime \in Time
BY DEF TypeOK, Recorder

(* NewDefaultRecorder enters a recorder, that of the watched cluster with  *)
(* the start time it is given, and touches no other entry.                 *)
LEMMA NewRecorderEntry ==
    ASSUME TypeOK, NEW c \in Keys, NEW t \in Time, NewRecorder(c, t)
    PROVE  /\ recorder' \in [Keys -> Recorder \cup {None}]
           /\ recorder'[c] # None
           /\ c = Watched => recorder'[c].startTime = t
           /\ \A d \in Keys : d # c => recorder'[d] = recorder[d]
<1> DEFINE start == IF c = Watched THEN t ELSE 0
           fresh == [phase |-> "new", valid |-> TRUE, startTime |-> start]
<1>1. recorder \in [Keys -> Recorder \cup {None}]
  BY DEF TypeOK
<1>2. recorder' = [recorder EXCEPT ![c] = fresh]
  BY DEF NewRecorder
<1>3. fresh \in Recorder /\ (c = Watched => fresh.startTime = t)
  BY TimeAssumption DEF Recorder, Phases, Time
<1>4. fresh # None
  BY <1>3, NoneAssumption
<1> HIDE DEF fresh
<1> QED
  BY <1>1, <1>2, <1>3, <1>4

(* A step that sets the phase of an entry keeps its start time and the     *)
(* other entries.                                                          *)
LEMMA PhaseEntry ==
    ASSUME TypeOK, NEW c \in Keys, NEW p \in Phases, recorder[c] # None,
           recorder' = [recorder EXCEPT ![c].phase = p]
    PROVE  /\ recorder' \in [Keys -> Recorder \cup {None}]
           /\ recorder'[c] # None
           /\ recorder'[c].startTime = recorder[c].startTime
           /\ \A d \in Keys : d # c => recorder'[d] = recorder[d]
<1> DEFINE next == [recorder[c] EXCEPT !.phase = p]
<1>1. recorder \in [Keys -> Recorder \cup {None}]
  BY DEF TypeOK
<1>2. recorder' = [recorder EXCEPT ![c] = next]
  BY <1>1
<1>3. next \in Recorder /\ next.startTime = recorder[c].startTime
  BY EntryFields DEF Recorder
<1>4. next # None
  BY <1>3, NoneAssumption
<1> HIDE DEF next
<1> QED
  BY <1>1, <1>2, <1>3, <1>4

(* ... and so does one that lets its credentials expire.                   *)
LEMMA ExpiredEntry ==
    ASSUME TypeOK, NEW c \in Keys, recorder[c] # None,
           recorder' = [recorder EXCEPT ![c].valid = FALSE]
    PROVE  /\ recorder' \in [Keys -> Recorder \cup {None}]
           /\ recorder'[c] # None
           /\ recorder'[c].startTime = recorder[c].startTime
           /\ \A d \in Keys : d # c => recorder'[d] = recorder[d]
<1> DEFINE next == [recorder[c] EXCEPT !.valid = FALSE]
<1>1. recorder \in [Keys -> Recorder \cup {None}]
  BY DEF TypeOK
<1>2. recorder' = [recorder EXCEPT ![c] = next]
  BY <1>1
<1>3. next \in Recorder /\ next.startTime = recorder[c].startTime
  BY EntryFields DEF Recorder
<1>4. next # None
  BY <1>3, NoneAssumption
<1> HIDE DEF next
<1> QED
  BY <1>1, <1>2, <1>3, <1>4

(* The entries are the same, but for their phase and credentials, and so is*)
(* what the first recorder's start time was.                               *)
Carried ==
    /\ recorder' \in [Keys -> Recorder \cup {None}]
    /\ \A d \in Keys : recorder[d] # None => recorder'[d] # None
    /\ recorder[Watched] = None => recorder'[Watched] = None
    /\ recorder[Watched] # None =>
          recorder'[Watched].startTime = recorder[Watched].startTime
    /\ began' = began

(* What is true of an entry's start time stays true then.                  *)
LEMMA CarriedKeeps ==
    ASSUME IInv, Carried
    PROVE  /\ StartTimeKept'
           /\ recorder'[Watched] # None => recorder'[Watched].startTime >= began'
BY ClusterKeys DEF IInv, StartTimeKept, Carried, TypeOK

LEMMA UnchangedCarried ==
    ASSUME TypeOK, recorder' = recorder, began' = began
    PROVE  Carried
BY DEF TypeOK, Carried

LEMMA PhaseCarried ==
    ASSUME TypeOK, NEW c \in Keys, NEW p \in Phases, recorder[c] # None,
           recorder' = [recorder EXCEPT ![c].phase = p], began' = began
    PROVE  Carried
<1>1. /\ recorder' \in [Keys -> Recorder \cup {None}]
      /\ recorder'[c] # None
      /\ recorder'[c].startTime = recorder[c].startTime
      /\ \A d \in Keys : d # c => recorder'[d] = recorder[d]
  BY PhaseEntry
<1> QED
  BY <1>1, ClusterKeys DEF Carried

-----------------------------------------------------------------------------
(* The steps.                                                              *)

LEMMA Initially == Init => IInv
<1> SUFFICES ASSUME Init PROVE IInv
  OBVIOUS
<1>1. 0 \in Time
  BY TimeAssumption DEF Time
<1>2. recorder[Watched] = None
  BY ClusterKeys DEF Init, NoRecorder
<1> QED
  BY <1>1, <1>2 DEF Init, IInv, TypeOK, StartTimeKept, NoMain, NoCheck, NoRecorder

(* Without a process there are no recorders.                               *)
LEMMA ExitKeeps == IInv /\ Exit => IInv'
<1> SUFFICES ASSUME IInv, Exit PROVE IInv'
  OBVIOUS
<1>1. recorder'[Watched] = None
  BY ClusterKeys DEF Exit, NoRecorder
<1> QED
  BY <1>1 DEF Exit, IInv, TypeOK, StartTimeKept, NoMain, NoCheck, NoRecorder

(* A step that carries the entries over has to keep the rest of TypeOK.    *)
LEMMA CarriedSuffices ==
    ASSUME IInv, Carried,
           up' \in BOOLEAN,
           main' \in [todo : SUBSET Clusters, at : Clusters \cup {None},
                      lost : BOOLEAN],
           main'.at # None => recorder[main'.at] # None,
           closing' \in BOOLEAN,
           check' \in [todo : SUBSET Keys, at : Keys \cup {None}],
           check'.at # None => \/ recorder[check'.at] # None
                               \/ recorder'[check'.at] # None,
           \A d \in check'.todo : recorder[d] # None \/ recorder'[d] # None,
           api' \in BOOLEAN,
           event' \in [at : Time, status : Statuses] \cup {None},
           now' \in Time
    PROVE  IInv'
<1>1. /\ main'.at # None => recorder'[main'.at] # None
      /\ check'.at # None => recorder'[check'.at] # None
      /\ \A d \in check'.todo : recorder'[d] # None
  BY ClusterKeys DEF Carried
<1>2. began' \in Time
  BY DEF Carried, IInv, TypeOK
<1> QED
  BY <1>1, <1>2, CarriedKeeps DEF Carried, IInv, TypeOK

(* main.                                                                   *)
LEMMA MainKeeps == IInv /\ Main => IInv'
<1> SUFFICES ASSUME IInv, Main PROVE IInv'
  OBVIOUS
<1> USE DEF IInv
<1>1. CASE Launch
  <2>1. Carried
    BY <1>1, UnchangedCarried DEF Launch, world
  <2> QED
    BY <1>1, <2>1, CarriedSuffices DEF Launch, world, TypeOK, NoMain
<1>2. CASE MakeRecorder
  <2>1. PICK c \in main.todo :
          /\ main' = [todo |-> main.todo \ {c}, at |-> c, lost |-> FALSE]
          /\ NewRecorder(c, now)
          /\ began' = IF c = Watched THEN now ELSE began
          /\ \E todo \in Ranged(c) : check' = [check EXCEPT !.todo = todo]
    BY <1>2 DEF MakeRecorder
  <2>2. c \in Keys /\ c \in Clusters /\ now \in Time /\ began \in Time
    BY ClusterKeys DEF TypeOK
  <2>3. /\ recorder' \in [Keys -> Recorder \cup {None}]
        /\ recorder'[c] # None
        /\ c = Watched => recorder'[c].startTime = now
        /\ \A d \in Keys : d # c => recorder'[d] = recorder[d]
    BY <2>1, <2>2, NewRecorderEntry
  <2>4. StartTimeKept'
    BY <2>1, <2>2, <2>3, ClusterKeys DEF StartTimeKept
  <2>5. recorder'[Watched] # None => recorder'[Watched].startTime >= began'
    BY <2>1, <2>2, <2>3, <2>4, TimeAssumption DEF StartTimeKept, Time
  <2>6. /\ main'.at # None => recorder'[main'.at] # None
        /\ check'.at # None => recorder'[check'.at] # None
        /\ \A d \in check'.todo : recorder'[d] # None
        /\ check' \in [todo : SUBSET Keys, at : Keys \cup {None}]
    <3>1. PICK todo \in Ranged(c) : check' = [check EXCEPT !.todo = todo]
      BY <2>1
    <3>2. todo \subseteq check.todo \cup {c}
      BY <3>1 DEF Ranged
    <3>3. check \in [todo : SUBSET Keys, at : Keys \cup {None}]
      BY DEF TypeOK
    <3>4. check'.at = check.at /\ check'.todo = todo
      BY <3>1, <3>3
    <3>5. \A d \in Keys : recorder[d] # None => recorder'[d] # None
      BY <2>3
    <3>6. main'.at = c
      BY <2>1
    <3>7. check'.at # None => check.at \in Keys /\ recorder[check.at] # None
      BY <3>3, <3>4 DEF TypeOK
    <3>8. \A d \in check'.todo : d = c \/ (d \in Keys /\ recorder[d] # None)
      BY <3>2, <3>3, <3>4 DEF TypeOK
    <3> QED
      BY <2>2, <2>3, <3>1, <3>2, <3>3, <3>4, <3>5, <3>6, <3>7, <3>8
  <2>7. main' \in [todo : SUBSET Clusters, at : Clusters \cup {None},
                   lost : BOOLEAN]
    BY <2>1, <2>2 DEF TypeOK
  <2>8. began' \in Time
    BY <2>1, <2>2
  <2> QED
    BY <1>2, <2>3, <2>4, <2>5, <2>6, <2>7, <2>8 DEF MakeRecorder, TypeOK
<1>3. CASE MainStarts
  <2>1. CASE StartRecorder(main.at) /\ UNCHANGED <<up, main, closing, check, world>>
    <3>1. main.at \in Keys /\ recorder[main.at] # None
      BY <1>3, ClusterKeys DEF MainStarts, TypeOK
    <3>2. Carried
      BY <2>1, <3>1, PhaseCarried DEF StartRecorder, Phases, world
    <3> QED
      BY <2>1, <3>2, CarriedSuffices DEF world, TypeOK
  <2> QED
    BY <1>3, <2>1, ExitKeeps DEF MainStarts
<1>4. CASE MainStarted
  <2>1. CASE /\ main' = [main EXCEPT !.at = None]
             /\ UNCHANGED <<up, recorder, closing, check, world>>
    <3>1. Carried
      BY <2>1, UnchangedCarried DEF world
    <3> QED
      BY <2>1, <3>1, CarriedSuffices DEF world, TypeOK
  <2> QED
    BY <1>4, <2>1, ExitKeeps DEF MainStarted
<1> QED
  BY <1>1, <1>2, <1>3, <1>4 DEF Main

(* The checker.                                                            *)
LEMMA CheckerKeeps == IInv /\ Checker => IInv'
<1> SUFFICES ASSUME IInv, Checker PROVE IInv'
  OBVIOUS
<1> USE DEF IInv
<1>1. CASE CommenceCheck
  <2>1. Carried
    BY <1>1, UnchangedCarried DEF CommenceCheck, world
  <2>2. check' \in [todo : SUBSET Keys, at : Keys \cup {None}]
        /\ check'.at = check.at
        /\ \A d \in check'.todo : recorder[d] # None
    BY <1>1 DEF CommenceCheck, Entries, TypeOK
  <2> QED
    BY <1>1, <2>1, <2>2, CarriedSuffices DEF CommenceCheck, world, TypeOK
<1>2. CASE Refresh
  <2>1. check.at \in Keys /\ recorder[check.at] # None
    BY <1>2 DEF Refresh, TypeOK
  <2>2. CASE Refreshed(check.at) /\ UNCHANGED <<up, main, closing, check, world>>
    <3>1. NewRecorder(check.at, recorder[check.at].startTime)
      BY <2>2 DEF Refreshed
    <3>2. recorder[check.at].startTime \in Time
      BY <2>1, EntryFields
    <3>3. /\ recorder' \in [Keys -> Recorder \cup {None}]
          /\ recorder'[check.at] # None
          /\ check.at = Watched =>
                recorder'[check.at].startTime = recorder[check.at].startTime
          /\ \A d \in Keys : d # check.at => recorder'[d] = recorder[d]
      BY <2>1, <3>1, <3>2, NewRecorderEntry
    <3>4. Carried
      BY <2>1, <2>2, <3>3, ClusterKeys DEF Carried, world
    <3> QED
      BY <2>2, <3>4, CarriedSuffices DEF world, TypeOK
  <2>3. CASE /\ NewRecorder(NoKey, recorder[check.at].startTime)
             /\ \E todo \in Ranged(NoKey) : check' = [todo |-> todo, at |-> NoKey]
             /\ UNCHANGED <<up, main, closing, world>>
    <3>1. NoKey \in Keys /\ NoKey # Watched /\ NoKey # None
      BY WatchedAssumption, NoKeyAssumption, NoneAssumption DEF Keys
    <3>2. recorder[check.at].startTime \in Time
      BY <2>1, EntryFields
    <3>3. /\ recorder' \in [Keys -> Recorder \cup {None}]
          /\ recorder'[NoKey] # None
          /\ \A d \in Keys : d # NoKey => recorder'[d] = recorder[d]
      BY <2>3, <3>1, <3>2, NewRecorderEntry
    <3>4. Carried
      BY <2>3, <3>1, <3>3, ClusterKeys DEF Carried, world
    <3>5. PICK todo \in Ranged(NoKey) : check' = [todo |-> todo, at |-> NoKey]
      BY <2>3
    <3>6. /\ todo \subseteq check.todo \cup {NoKey}
          /\ check.todo \subseteq Keys
          /\ \A d \in check.todo : recorder[d] # None
      BY <3>5 DEF Ranged, TypeOK
    <3>7. /\ check' \in [todo : SUBSET Keys, at : Keys \cup {None}]
          /\ recorder'[check'.at] # None
          /\ \A d \in check'.todo : recorder[d] # None \/ recorder'[d] # None
      BY <3>1, <3>3, <3>5, <3>6
    <3> QED
      BY <2>3, <3>4, <3>7, CarriedSuffices DEF world, TypeOK
  <2> QED
    BY <1>2, <2>2, <2>3, ExitKeeps DEF Refresh
<1>3. CASE StartFresh
  <2>1. check.at \in Keys /\ recorder[check.at] # None
    BY <1>3 DEF StartFresh, TypeOK
  <2>2. Carried
    BY <1>3, <2>1, PhaseCarried, UnchangedCarried
       DEF StartFresh, StartRecorder, Phases, world
  <2>3. check' = check \/ check' = [check EXCEPT !.at = None]
    BY <1>3 DEF StartFresh
  <2> QED
    BY <1>3, <2>2, <2>3, CarriedSuffices DEF StartFresh, world, TypeOK
<1>4. CASE StartedFresh
  <2>1. Carried
    BY <1>4, UnchangedCarried DEF StartedFresh, world
  <2> QED
    BY <1>4, <2>1, CarriedSuffices DEF StartedFresh, world, TypeOK
<1>5. ASSUME NEW c \in Keys, TestEntry(c) PROVE IInv'
  <2>1. Carried
    BY <1>5, UnchangedCarried DEF TestEntry, world
  <2> QED
    BY <1>5, <2>1, CarriedSuffices DEF TestEntry, world, TypeOK
<1>6. ASSUME NEW c \in Keys, BeginRefresh(c) PROVE IInv'
  <2>1. recorder[c] # None
    BY <1>6 DEF BeginRefresh, IsUnauthorized, TypeOK
  <2>2. Carried
    BY <1>6, <2>1, PhaseCarried DEF BeginRefresh, Phases, world
  <2>3. /\ main' \in [todo : SUBSET Clusters, at : Clusters \cup {None},
                       lost : BOOLEAN]
        /\ main'.at = main.at
    BY <1>6 DEF BeginRefresh, Close, TypeOK
  <2>4. closing' \in BOOLEAN
    BY <1>6 DEF BeginRefresh, Close, TypeOK
  <2>5. /\ check' \in [todo : SUBSET Keys, at : Keys \cup {None}]
        /\ recorder[check'.at] # None
        /\ \A d \in check'.todo : recorder[d] # None
    BY <1>6, <2>1 DEF BeginRefresh, TypeOK
  <2> QED
    BY <1>6, <2>2, <2>3, <2>4, <2>5, CarriedSuffices
       DEF BeginRefresh, world, TypeOK
<1> QED
  BY <1>1, <1>2, <1>3, <1>4, <1>5, <1>6 DEF Checker

(* Handlers, the clock and the API servers.                                *)
LEMMA OthersKeep ==
    ASSUME IInv,
           \/ WriteDuringRange \/ Crash \/ Tick
           \/ OnAddEvent \/ OnAddEventClosing \/ DoClose \/ Happen
           \/ \E c \in Keys : Sync(c)
           \/ \E c \in Clusters : Expire(c)
           \/ Reach(TRUE) \/ Reach(FALSE)
           \/ UNCHANGED vars
    PROVE  IInv'
<1> USE DEF IInv
<1>1. CASE WriteDuringRange \/ Crash
  BY <1>1, ExitKeeps DEF WriteDuringRange, Crash
<1>2. CASE Tick
  <2>1. Carried
    BY <1>2, UnchangedCarried DEF Tick
  <2>2. now' \in Time
    BY <1>2, TimeAssumption DEF Tick, TypeOK, Time
  <2> QED
    BY <1>2, <2>1, <2>2, CarriedSuffices DEF Tick, TypeOK
<1>3. CASE OnAddEvent \/ OnAddEventClosing
  <2>1. /\ Pending
        /\ \E s \in {"dropped", "handed"} : event' = [event EXCEPT !.status = s]
        /\ UNCHANGED <<up, main, recorder, closing, check, began, api, now>>
    BY <1>3 DEF OnAddEvent, OnAddEventClosing, Handle
  <2>2. Carried
    BY <2>1, UnchangedCarried
  <2>3. event' \in [at : Time, status : Statuses]
    BY <2>1 DEF Pending, Statuses, TypeOK
  <2> QED
    BY <2>1, <2>2, <2>3, CarriedSuffices DEF TypeOK
<1>4. CASE DoClose
  <2>1. Carried
    BY <1>4, UnchangedCarried DEF DoClose, world
  <2> QED
    BY <1>4, <2>1, CarriedSuffices DEF DoClose, world, TypeOK
<1>5. CASE Happen
  <2>1. Carried
    BY <1>5, UnchangedCarried DEF Happen
  <2>2. event' \in [at : Time, status : Statuses]
    BY <1>5 DEF Happen, Statuses, TypeOK
  <2> QED
    BY <1>5, <2>1, <2>2, CarriedSuffices DEF Happen, TypeOK
<1>6. ASSUME NEW c \in Keys, Sync(c) PROVE IInv'
  <2>1. Carried
    BY <1>6, PhaseCarried DEF Sync, Is, Phases, world
  <2> QED
    BY <1>6, <2>1, CarriedSuffices DEF Sync, world, TypeOK
<1>7. ASSUME NEW c \in Clusters, Expire(c) PROVE IInv'
  <2>1. /\ recorder' \in [Keys -> Recorder \cup {None}]
        /\ recorder'[c] # None
        /\ recorder'[c].startTime = recorder[c].startTime
        /\ \A d \in Keys : d # c => recorder'[d] = recorder[d]
    BY <1>7, ExpiredEntry, ClusterKeys DEF Expire
  <2>2. Carried
    BY <1>7, <2>1, ClusterKeys DEF Expire, Carried, world
  <2> QED
    BY <1>7, <2>2, CarriedSuffices DEF Expire, world, TypeOK
<1>8. ASSUME NEW b \in BOOLEAN, Reach(b) PROVE IInv'
  <2>1. Carried
    BY <1>8, UnchangedCarried DEF Reach
  <2>2. api' \in BOOLEAN
    BY <1>8 DEF Reach, TypeOK
  <2> QED
    BY <1>8, <2>1, <2>2, CarriedSuffices DEF Reach, TypeOK
<1>9. CASE UNCHANGED vars
  BY <1>9 DEF vars, TypeOK, StartTimeKept
<1> QED
  BY <1>1, <1>2, <1>3, <1>4, <1>5, <1>6, <1>7, <1>8, <1>9

LEMMA Invariance == Spec => []IInv
<1>1. IInv /\ [Next]_vars => IInv'
  BY MainKeeps, CheckerKeeps, OthersKeep DEF Next
<1> QED
  BY <1>1, Initially, PTL DEF Spec

-----------------------------------------------------------------------------
(* The theorems.                                                           *)

(* The variables keep their types; main and the checker are never at an    *)
(* entry of recordersMap that is not there (recorder.go:73-113, main.go    *)
(* 94-110).                                                                *)
THEOREM TypeCorrect == Spec => []TypeOK
<1>1. IInv => TypeOK
  BY DEF IInv
<1> QED
  BY <1>1, Invariance, PTL

(* Only the handlers settle an event, and each of them knows the start time*)
(* of the first recorder of the cluster, however often that was replaced   *)
(* (recorder.go:104, 524-526, 1176-1178).                                  *)
LEMMA DropsOldOnly ==
    IInv /\ [Next]_vars
    => (Pending /\ event'.status = "dropped" => event.at < began)
<1> SUFFICES ASSUME IInv, [Next]_vars, Pending, event'.status = "dropped"
             PROVE  event.at < began
  OBVIOUS
<1>1. event \in [at : Time, status : Statuses]
  BY DEF IInv, TypeOK, Pending
<1>2. event' # event
  BY DEF Pending
<1>3. OnAddEvent \/ OnAddEventClosing
  BY <1>2 DEF Next, Main, Checker, WriteDuringRange, Crash, Tick, DoClose,
     Happen, Pending, Sync, Expire, Reach, Launch, MakeRecorder, MainStarts,
     MainStarted, CommenceCheck, Refresh, StartFresh, StartedFresh, TestEntry,
     BeginRefresh, Exit, world, vars
<1>4. CASE OnAddEvent
  <2>1. recorder[Watched] # None
    BY <1>4 DEF OnAddEvent, Is
  <2>2. recorder[Watched].startTime = began
    BY <2>1 DEF IInv, StartTimeKept
  <2>3. Handle(began)
    BY <1>4, <2>2 DEF OnAddEvent
  <2> QED
    BY <1>1, <2>3 DEF Handle
<1>5. CASE OnAddEventClosing
  BY <1>1, <1>5 DEF OnAddEventClosing, Handle
<1> QED
  BY <1>3, <1>4, <1>5

(* Replacing a recorder drops no event that happened since the process     *)
(* first made one for the cluster (recorder.go:104).                       *)
THEOREM ReplacementKeepsEvents == Spec => OnlyOldEventsDropped
<1>1. IInv /\ [Next]_vars
      => [Pending /\ event'.status = "dropped" => event.at < began]_vars
  BY DropsOldOnly
<1> QED
  BY <1>1, Invariance, PTL DEF Spec, OnlyOldEventsDropped
=============================================================================
