-------------------------- MODULE RecorderLifecycle -------------------------
(***************************************************************************)
(* The life of the recorders of one process (src/recorder/recorder.go and  *)
(* src/cmd/recorder/main.go): main makes and starts one after the other,   *)
(* and a checker tests their connections, every three minutes, and replaces*)
(* those whose credentials have expired.  Both use recordersMap, without a *)
(* lock.  The events of a cluster tell what a replacement may lose: they   *)
(* are handed over unless they happened before the recorder's start time.  *)
(*                                                                         *)
(* When createFreshRecorderParams fails, its error is overwritten and the  *)
(* new recorder has no parameters: it is of the cluster that the process   *)
(* itself runs in, goes under the empty key, and is started all the same.  *)
(***************************************************************************)
EXTENDS Naturals, FiniteSets

CONSTANTS
    Clusters, \* the recorded clusters
    Watched,  \* the one of which an event is followed
    NoKey,    \* the key of a recorder without parameters
    MaxTime,  \* bound of the clock
    None

ASSUME TimeAssumption == MaxTime \in Nat
ASSUME WatchedAssumption == Watched \in Clusters

ASSUME NoKeyAssumption == NoKey \notin Clusters

(* The keys of recordersMap, which stand for the clusters recorded.        *)
Keys == Clusters \cup {NoKey}

VARIABLES
    up,       \* whether the process runs
    main,     \* the clusters main has not started, the one it is at, and
              \* whether the checker has replaced its recorder meanwhile
    recorder, \* recordersMap
    closing,  \* whether a closed recorder of that cluster still handles events
    check,    \* the entries the checker has not tested, the one it replaces
    began,    \* history: when the process first made a recorder of that cluster
    api,      \* whether the API servers of the watched cluster answer
    event,    \* an event of the watched cluster, None at first
    now

vars == <<up, main, recorder, closing, check, began, api, event, now>>

Time == 0..MaxTime
Statuses == {"pending", "handed", "dropped"}
Phases == {"new", "syncing", "started", "closed"}
Recorder == [phase : Phases, valid : BOOLEAN, startTime : Time]

ASSUME NoneAssumption == None \notin Keys \cup Recorder

TypeOK ==
    /\ up \in BOOLEAN
    /\ main \in [todo : SUBSET Clusters, at : Clusters \cup {None}, lost : BOOLEAN]
    /\ recorder \in [Keys -> Recorder \cup {None}]
    /\ closing \in BOOLEAN
    /\ check \in [todo : SUBSET Keys, at : Keys \cup {None}]
    /\ began \in Time
    /\ api \in BOOLEAN
    /\ event \in [at : Time, status : Statuses] \cup {None}
    /\ now \in Time
    /\ check.at # None => recorder[check.at] # None
    /\ \A c \in check.todo : recorder[c] # None
    /\ main.at # None => recorder[main.at] # None
    /\ recorder[Watched] # None => recorder[Watched].startTime >= began

NoMain == [todo |-> {}, at |-> None, lost |-> FALSE]
NoCheck == [todo |-> {}, at |-> None]
NoRecorder == [c \in Keys |-> None]

Init ==
    /\ up = FALSE
    /\ main = NoMain
    /\ recorder = NoRecorder
    /\ closing = FALSE
    /\ check = NoCheck
    /\ began = 0
    /\ api \in BOOLEAN
    /\ event = None
    /\ now = 0

(* The process ends, with all its recorders: main returns an error, a nil  *)
(* recorder is started, or something else kills it.                        *)
Exit ==
    /\ up' = FALSE
    /\ main' = NoMain
    /\ recorder' = NoRecorder
    /\ closing' = FALSE
    /\ check' = NoCheck
    /\ UNCHANGED <<began, api, event, now>>

Crash == up /\ Exit

world == <<began, api, event, now>>

Is(c, phase) == recorder[c] # None /\ recorder[c].phase = phase

(* TestConnection, of a recorder that is not closed.  Whether the servers  *)
(* of other clusters answer is left open at every call.                    *)
Connects(c) == recorder[c].valid /\ (c = Watched => api)

-----------------------------------------------------------------------------
(* main.                                                                   *)

(* CreateRecorderParams gets credentials for every cluster.                *)
Launch ==
    /\ ~up
    /\ up' = TRUE
    /\ main' = [NoMain EXCEPT !.todo = Clusters]
    /\ UNCHANGED <<recorder, closing, check, world>>

(* NewDefaultRecorder enters the recorder into the map.  The start times of*)
(* clusters of which no event is followed are not told apart.              *)
NewRecorder(c, startTime) ==
    recorder' = [recorder EXCEPT ![c] =
                    [phase |-> "new", valid |-> TRUE,
                     startTime |-> IF c = Watched THEN startTime ELSE 0]]

(* An entry made while the checker ranges over the map is tested in the    *)
(* same round, or not.                                                     *)
Ranged(c) ==
    IF check = NoCheck \/ recorder[c] # None THEN {check.todo}
    ELSE {check.todo, check.todo \cup {c}}

MakeRecorder ==
    /\ main.at = None
    /\ \E c \in main.todo :
          /\ main' = [todo |-> main.todo \ {c}, at |-> c, lost |-> FALSE]
          /\ NewRecorder(c, now)
          /\ began' = IF c = Watched THEN now ELSE began
          /\ \E todo \in Ranged(c) : check' = [check EXCEPT !.todo = todo]
    /\ UNCHANGED <<up, closing, api, event, now>>

(* ... or the runtime detects it.                                          *)
WriteDuringRange ==
    /\ main.at = None /\ main.todo # {}
    /\ check.todo # {} \/ check.at # None
    /\ Exit

(* Start: the connection test, the database, the handlers and informers.   *)
StartRecorder(c) ==
    /\ Is(c, "new") /\ Connects(c)
    /\ recorder' = [recorder EXCEPT ![c].phase = "syncing"]

MainStarts ==
    /\ main.at # None /\ ~main.lost
    /\ \/ /\ StartRecorder(main.at)
          /\ UNCHANGED <<up, main, closing, check, world>>
       \/ /\ Is(main.at, "new")
          /\ Exit

MainStarted ==
    /\ main.at # None
    /\ \/ /\ ~main.lost /\ Is(main.at, "started")
          /\ main' = [main EXCEPT !.at = None]
          /\ UNCHANGED <<up, recorder, closing, check, world>>
       \/ main.lost /\ Exit

(* WaitForCacheSync has no timeout: until then Start does not return.      *)
Sync(c) ==
    /\ Is(c, "syncing") /\ Connects(c)
    /\ recorder' = [recorder EXCEPT ![c].phase = "started"]
    /\ UNCHANGED <<up, main, closing, check, world>>

-----------------------------------------------------------------------------
(* startRecorderCheck.                                                     *)

Entries == {c \in Keys : recorder[c] # None}

CommenceCheck ==
    /\ check = NoCheck
    /\ check' = [check EXCEPT !.todo = Entries]
    /\ UNCHANGED <<up, main, recorder, closing, world>>

(* Close cancels the context.  The handlers of a started recorder run on   *)
(* until doClose; what makes main wait for the sync of this one returns.   *)
Close(c) ==
    /\ closing' = (closing \/ (c = Watched /\ recorder[c].phase # "new"))
    /\ main' = [main EXCEPT !.lost = @ \/ main.at = c]

IsUnauthorizedIgnored(c) == FALSE  \* mutant: only closed connections count

IsUnauthorized(c) == ~recorder[c].valid /\ (c = Watched => api)

(* The error of a recorder that is closed already is neither of the two.   *)
TestEntry(c) ==
    /\ check.at = None /\ c \in check.todo
    /\ check' = [check EXCEPT !.todo = @ \ {c}]
    /\ Is(c, "closed") \/ c # Watched \/ ~IsUnauthorized(c)
    /\ UNCHANGED <<up, main, recorder, closing, world>>

BeginRefresh(c) ==
    /\ check.at = None /\ c \in check.todo
    /\ ~Is(c, "closed")
    /\ \/ IsUnauthorized(c)
       \/ c = Watched => ~api  \* with net.ErrClosed
    /\ check' = [todo |-> check.todo \ {c}, at |-> c]
    /\ recorder' = [recorder EXCEPT ![c].phase = "closed"]
    /\ Close(c)
    /\ UNCHANGED <<up, world>>

RefreshedAtZero(c) == NewRecorder(c, 0)  \* mutant: no start time

RefreshedNow(c) == NewRecorder(c, now)  \* mutant: a start time of its own

Refreshed(c) == NewRecorder(c, recorder[c].startTime)

(* createFreshRecorderParams and NewDefaultRecorder.  An error of the first*)
(* leaves the entry closed, and the recorder made and started in its place *)
(* is the one without parameters; there are none for its own replacement,  *)
(* for its mode is not supported.  An error of the second ends the process.*)
Refresh ==
    /\ check.at # None /\ Is(check.at, "closed")
    /\ \/ /\ check.at # NoKey
          /\ Refreshed(check.at)
          /\ UNCHANGED <<up, main, closing, check, world>>
       \/ /\ NewRecorder(NoKey, recorder[check.at].startTime)
          /\ \E todo \in Ranged(NoKey) : check' = [todo |-> todo, at |-> NoKey]
          /\ UNCHANGED <<up, main, closing, world>>
       \/ Exit

(* A fresh recorder that cannot be started, for its connections or for its *)
(* database, stays in the map.                                             *)
StartFresh ==
    /\ check.at # None /\ Is(check.at, "new")
    /\ \/ StartRecorder(check.at) /\ UNCHANGED check
       \/ check' = [check EXCEPT !.at = None] /\ UNCHANGED recorder
    /\ UNCHANGED <<up, main, closing, world>>

StartedFresh ==
    /\ check.at # None /\ Is(check.at, "started")
    /\ check' = [check EXCEPT !.at = None]
    /\ UNCHANGED <<up, main, recorder, closing, world>>

-----------------------------------------------------------------------------
(* Events.                                                                 *)

Pending == event # None /\ event.status = "pending"

(* What is handed to the database may be refused; it is given up then.     *)
Handle(startTime) ==
    /\ Pending
    /\ event' = [event EXCEPT !.status =
                    IF event.at < startTime THEN "dropped" ELSE "handed"]
    /\ UNCHANGED <<up, main, recorder, closing, check, began, api, now>>

(* onAddEvent and onAddControlEvent; an informer that starts lists all.    *)
OnAddEvent ==
    /\ Is(Watched, "syncing") \/ Is(Watched, "started")
    /\ Connects(Watched)
    /\ Handle(recorder[Watched].startTime)

(* What was delivered to a closed recorder is still handled.               *)
OnAddEventClosing == closing /\ Handle(began)

(* doClose.                                                                *)
DoClose ==
    /\ closing
    /\ closing' = FALSE
    /\ UNCHANGED <<up, main, recorder, check, world>>

Happen ==
    /\ event = None
    /\ event' = [at |-> now, status |-> "pending"]
    /\ UNCHANGED <<up, main, recorder, closing, check, began, api, now>>

Tick ==
    /\ now < MaxTime
    /\ now' = now + 1
    /\ UNCHANGED <<up, main, recorder, closing, check, began, api, event>>

(* The credentials of a closed recorder are not used any more.             *)
Expire(c) ==
    /\ recorder[c] # None /\ ~Is(c, "closed") /\ recorder[c].valid
    /\ recorder' = [recorder EXCEPT ![c].valid = FALSE]
    /\ UNCHANGED <<up, main, closing, check, world>>

Reach(answers) ==
    /\ api # answers
    /\ api' = answers
    /\ UNCHANGED <<up, main, recorder, closing, check, began, event, now>>

-----------------------------------------------------------------------------

Main == Launch \/ MakeRecorder \/ MainStarts \/ MainStarted

Checker ==
    \/ CommenceCheck \/ Refresh \/ StartFresh \/ StartedFresh
    \/ \E c \in Keys : TestEntry(c) \/ BeginRefresh(c)

Next ==
    \/ Main \/ WriteDuringRange \/ Checker \/ Crash \/ Tick
    \/ OnAddEvent \/ OnAddEventClosing \/ DoClose \/ Happen
    \/ \E c \in Keys : Sync(c)
    \/ \E c \in Clusters : Expire(c)
    \/ Reach(TRUE) \/ Reach(FALSE)

(* The process is restarted, main and the checker go on, and API servers   *)
(* come back; informers try again and again, and so does the checker, which*)
(* therefore finds expired credentials while the servers answer.           *)
Fairness ==
    /\ WF_vars(Main) /\ WF_vars(Checker) /\ SF_vars(OnAddEvent)
    /\ WF_vars(Reach(TRUE))
    /\ \A c \in Clusters : SF_vars(Sync(c))
    /\ SF_vars(BeginRefresh(Watched))

Spec == Init /\ [][Next]_vars /\ Fairness

-----------------------------------------------------------------------------
(* Replacing a recorder makes no event fall under the start time: what is  *)
(* dropped happened before this process had any recorder of the cluster    *)
(* (recorder.go:104, 524-526, 1176-1178).                                  *)
OnlyOldEventsDropped ==
    [][Pending /\ event'.status = "dropped" => event.at < began]_vars

(* A recorder that a replacement left halfway: a closed one is never taken *)
(* up again, and one that failed to start not before its credentials       *)
(* expire.                                                                 *)
Halfway(c) ==
    /\ check.at # c /\ main.at # c
    /\ Is(c, "closed") \/ Is(c, "new")

(* The checker is in the Start of a recorder that waits for a sync, with   *)
(* credentials that have expired or without parameters: the goroutine that *)
(* replaces recorders is the one that waits.                               *)
Blocked ==
    /\ check.at # None /\ Is(check.at, "syncing")
    /\ check.at = NoKey \/ ~recorder[check.at].valid

(* As long as the process runs, an event that happened since it first made *)
(* a recorder of the cluster is handed to the database in the end, through *)
(* expired credentials and servers that do not answer, unless a replacement*)
(* was left halfway or the checker is blocked for good (recorder.go:73-113,*)
(* 716-833).                                                               *)
EventKept ==
    (recorder[Watched] # None /\ Pending /\ event.at >= began)
    ~> (~up \/ Halfway(Watched) \/ ~Pending \/ []Blocked)
=============================================================================
