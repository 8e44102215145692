---------------------------- MODULE ReplayEvents ----------------------------
(***************************************************************************)
(* Which of the recorded scale-ups replay-CA replays: GetNextReplayEvent   *)
(* and the loop of ReplayCA around it (src/replayer/replayer.go).          *)
(*                                                                         *)
(* A cluster autoscaler emits a burst of TriggeredScaleUp events for one   *)
(* scale-up.  The replayer takes one event of a burst as a mark, loads the *)
(* cluster as it was recorded at the mark together with the pods that were *)
(* recorded since the mark before, and replays the lot.  What an iteration *)
(* does once it has its mark is left open here: it writes a report, writes *)
(* none, or fails.                                                         *)
(*                                                                         *)
(* Indices count from 0 as in the code: event i of the slice is At(i).     *)
(***************************************************************************)
EXTENDS Integers, Sequences

CONSTANTS
    MaxEvents,  \* bound: scale-ups in a recording
    MaxInstant, \* bound: the latest instant, counted from 1
    Span        \* 12 s: events no further apart belong to one scale-up

ASSUME BoundsAssumption ==
    /\ MaxEvents \in Nat \ {0}
    /\ MaxInstant \in Nat \ {0}
    /\ Span \in Nat

Instants == 1..MaxInstant

VARIABLES
    scaleUpEvents,      \* EventTime of the events, ORDER BY EventTime asc
    today,              \* time.Now(), which may be behind a recorded clock
    currentEventIndex,
    replayCount,
    phase,              \* "deciding", "replaying", or one of Ended
    windows,            \* history: prevRunMarkTime and replayMarkTime so far
    reports             \* history: number and event of the reports written

vars == <<scaleUpEvents, today, currentEventIndex, replayCount, phase,
          windows, reports>>

Ended == {"done", "norows", "failed", "panicked"}

Count == Len(scaleUpEvents)
At(i) == scaleUpEvents[i + 1]

(* The first of a set of indices.                                          *)
FirstOf(I) == CHOOSE i \in I : \A j \in I : i <= j

(* isDifferenceGreaterThan, on instants                                    *)
FurtherThanSpan(t, u) == t > u + Span \/ u > t + Span

-----------------------------------------------------------------------------
(* GetNextReplayEvent: -1 and an event whose time is zero when there is no *)
(* next one.                                                               *)

NoEvent == [index |-> -1, mark |-> 0]
Event(i, t) == [index |-> i, mark |-> t]

Distant(cur) == {i \in (cur + 1)..(Count - 1) : FurtherThanSpan(At(i), At(cur))}

GetNextReplayEventStopsEarly(cur) ==  \* mutant: the trailing burst is dropped
    IF cur = 0 /\ Count = 1 THEN Event(1, At(0))
    ELSE IF cur + 1 >= Count \/ Distant(cur) = {} THEN NoEvent
    ELSE Event(FirstOf(Distant(cur)), At(FirstOf(Distant(cur))))

GetNextReplayEventNear(cur) ==  \* mutant: takes the first one in the span
    IF cur = 0 /\ Count = 1 THEN Event(1, At(0))
    ELSE IF cur + 1 >= Count THEN NoEvent
    ELSE Event(cur + 1, At(cur + 1))

GetNextReplayEventStays(cur) ==  \* mutant: no end once the last was taken
    IF cur = 0 /\ Count = 1 THEN Event(1, At(0))
    ELSE IF Distant(cur) = {} THEN Event(Count - 1, At(Count - 1))
    ELSE Event(FirstOf(Distant(cur)), At(FirstOf(Distant(cur))))

GetNextReplayEvent(cur) ==
    IF cur = 0 /\ Count = 1 THEN Event(1, At(0))
    ELSE IF cur + 1 >= Count THEN NoEvent
    ELSE LET next == IF Distant(cur) # {} THEN FirstOf(Distant(cur))
                                          ELSE Count - 1
         IN  Event(next, At(next))

-----------------------------------------------------------------------------

TypeOK ==
    /\ scaleUpEvents \in Seq(Instants)
    /\ Count > 0
    /\ today \in Instants
    /\ currentEventIndex \in -1..Count
    /\ replayCount \in 0..Count
    /\ phase \in {"deciding", "replaying"} \cup Ended
    /\ windows \in Seq([prev : Instants \cup {0}, mark : Instants])
    /\ reports \in SUBSET [number : 1..Count, event : 0..Count]

(* Start loads the events and refuses a recording that has none.           *)
Init ==
    /\ scaleUpEvents \in UNION {[1..n -> Instants] : n \in 1..MaxEvents}
    /\ \A i, j \in 1..Count : i <= j => scaleUpEvents[i] <= scaleUpEvents[j]
    /\ today \in Instants
    /\ currentEventIndex = 0
    /\ replayCount = 0
    /\ phase = "deciding"
    /\ windows = <<>>
    /\ reports = {}

(* getNextReplayEvent looks up the mark of the run before by the index     *)
(* that run left: an index out of range is a panic.                        *)
OutOfRangeOfNext ==  \* mutant: looks up the event after it
    currentEventIndex > 0 /\ currentEventIndex + 1 >= Count

OutOfRange == currentEventIndex > 0 /\ currentEventIndex >= Count

PrevMarkOfNext ==  \* mutant: read after the index has moved on
    LET next == GetNextReplayEvent(currentEventIndex)
    IN  IF next.index \in 1..(Count - 1) /\ currentEventIndex > 0
        THEN At(next.index) ELSE 0

PrevRunMarkTime ==
    IF currentEventIndex = 0 THEN 0 ELSE At(currentEventIndex)

BeginUncounted ==  \* mutant: replayCount is not incremented
    /\ phase = "deciding"
    /\ ~OutOfRange
    /\ LET next == GetNextReplayEvent(currentEventIndex) IN
          /\ next.mark # 0
          /\ next.mark <= today
          /\ currentEventIndex' = next.index
          /\ windows' = Append(windows,
                               [prev |-> PrevRunMarkTime, mark |-> next.mark])
    /\ phase' = "replaying"
    /\ UNCHANGED <<scaleUpEvents, today, replayCount, reports>>

(* The next mark is set and not ahead of the clock: a replay begins.       *)
Begin ==
    /\ phase = "deciding"
    /\ ~OutOfRange
    /\ LET next == GetNextReplayEvent(currentEventIndex) IN
          /\ next.mark # 0
          /\ next.mark <= today
          /\ currentEventIndex' = next.index
          /\ windows' = Append(windows,
                               [prev |-> PrevRunMarkTime, mark |-> next.mark])
    /\ replayCount' = replayCount + 1
    /\ phase' = "replaying"
    /\ UNCHANGED <<scaleUpEvents, today, reports>>

FinishAtEndOnly ==  \* mutant: a mark ahead of the clock does not end it
    /\ phase = "deciding"
    /\ ~OutOfRange
    /\ LET next == GetNextReplayEvent(currentEventIndex) IN
          /\ next.mark = 0
          /\ currentEventIndex' = next.index
    /\ phase' = "done"
    /\ UNCHANGED <<scaleUpEvents, today, replayCount, windows, reports>>

(* No more marks, or one that is yet to come.                              *)
Finish ==
    /\ phase = "deciding"
    /\ ~OutOfRange
    /\ LET next == GetNextReplayEvent(currentEventIndex) IN
          /\ next.mark = 0 \/ next.mark > today
          /\ currentEventIndex' = next.index
    /\ phase' = "done"
    /\ UNCHANGED <<scaleUpEvents, today, replayCount, windows, reports>>

Panic ==
    /\ phase = "deciding"
    /\ OutOfRange
    /\ phase' = "panicked"
    /\ UNCHANGED <<scaleUpEvents, today, currentEventIndex, replayCount,
                   windows, reports>>

(* The iteration ends without a report: the snapshot is that of the run    *)
(* before, there is no work to deploy, or nothing was scaled.              *)
Skip ==
    /\ phase = "replaying"
    /\ phase' = "deciding"
    /\ UNCHANGED <<scaleUpEvents, today, currentEventIndex, replayCount,
                   windows, reports>>

(* A query for the snapshot returns sql.ErrNoRows, which ReplayCA takes    *)
(* for the end of the recorded work.                                       *)
FindNoRows ==
    /\ phase = "replaying"
    /\ phase' = "norows"
    /\ UNCHANGED <<scaleUpEvents, today, currentEventIndex, replayCount,
                   windows, reports>>

(* writeScenario names the report by the number of the snapshot, which is  *)
(* the replayCount it was loaded with.                                     *)
WriteScenario ==
    /\ phase = "replaying"
    /\ reports' = reports \cup {[number |-> replayCount,
                                 event |-> currentEventIndex]}
    /\ phase' = "deciding"
    /\ UNCHANGED <<scaleUpEvents, today, currentEventIndex, replayCount,
                   windows>>

(* The context is cancelled, or a step of the replay returns an error.     *)
Fail ==
    /\ phase \in {"deciding", "replaying"}
    /\ phase' = "failed"
    /\ UNCHANGED <<scaleUpEvents, today, currentEventIndex, replayCount,
                   windows, reports>>

Advance ==
    \/ Begin
    \/ Finish
    \/ Panic
    \/ Skip
    \/ FindNoRows
    \/ WriteScenario

Next == Advance \/ Fail

Spec == Init /\ [][Next]_vars

(* The loop has a goroutine of its own, and every wait in it a timeout; it *)
(* need not ever be cancelled.                                             *)
FairSpec == Spec /\ WF_vars(Advance)

-----------------------------------------------------------------------------
(* Properties.                                                             *)

(* The windows of recorded pods that the replays load, (prevRunMarkTime,   *)
(* replayMarkTime], follow each other without a gap or an overlap from the *)
(* beginning of the recording on: a pod is deployed by one replay only and *)
(* none recorded before the last mark is passed over, whichever events of  *)
(* a burst are (replayer.go:1336-1342, 2060).                              *)
WindowsTile ==
    \A i \in 1..Len(windows) :
        windows[i].prev = IF i = 1 THEN 0 ELSE windows[i - 1].mark

(* One replay to a burst: a mark is further than the span from the mark    *)
(* before it, unless it is that of the last event of the recording         *)
(* (replayer.go:1317-1332).                                                *)
MarksApart ==
    \A i \in 2..Len(windows) :
        \/ windows[i].mark > windows[i - 1].mark + Span
        \/ windows[i].mark = At(Count - 1)

(* When the loop ran to the end of the recording, the last event was a     *)
(* mark, and every scale-up that is not of the first burst is within the   *)
(* span of a mark at or before it.  (The event the loop starts from, index *)
(* 0, is never a mark when there are others: its burst is not replayed.)   *)
BurstsReplayed ==
    phase = "done" /\ At(Count - 1) <= today =>
        /\ windows # <<>>
        /\ windows[Len(windows)].mark = At(Count - 1)
        /\ \A i \in 0..(Count - 1) :
              At(i) > At(0) + Span =>
                  \E k \in 1..Len(windows) :
                      /\ windows[k].mark <= At(i)
                      /\ At(i) <= windows[k].mark + Span

(* No two reports share a file name or replay the same event.              *)
ReportsApart ==
    \A r, s \in reports : r.number = s.number <=> r.event = s.event

(* Only a recording of a single scale-up makes the look-up of the previous *)
(* mark run out of the slice (replayer.go:1338).                           *)
PanicsOnSingleOnly == phase = "panicked" => Count = 1

(* The loop comes to an end.                                               *)
Terminates == <>(phase \in Ended)

(* What the log lines "GetNextReplayEvent returning single scale-up event" *)
(* (replayer.go:1309) and "no more scale ups to be replayed. Exiting"      *)
(* (replayer.go:419) say of a recording, one with a single event included: *)
(* its scale-ups are replayed and then the loop exits.  It does not: the   *)
(* index 1 returned with the single event is used to look up its time.     *)
ExitsWithoutPanic == phase # "panicked"
=============================================================================
