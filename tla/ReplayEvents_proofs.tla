------------------------- MODULE ReplayEvents_proofs -------------------------
(***************************************************************************)
(* The properties of ReplayEvents for recordings of any length, over any   *)
(* instants and for any span.                                              *)
(*                                                                         *)
(* The inductive invariant ties the index the loop is at to the history of *)
(* its marks: the last mark is the time of the event at the index (Last),  *)
(* the index has advanced with each replay (Advanced), the events it has   *)
(* passed are covered (Covered), and a report has the present number if    *)
(* and only if it is of the present event (Named).                         *)
(***************************************************************************)
EXTENDS ReplayEvents, WellFoundedInduction, TLAPS

Sorted == \A i, j \in 1..Count : i <= j => scaleUpEvents[i] <= scaleUpEvents[j]

Advanced ==
    /\ Len(windows) = replayCount
    /\ replayCount <= currentEventIndex
    /\ currentEventIndex > 0 => replayCount > 0
    /\ phase = "replaying" => replayCount > 0
    /\ currentEventIndex > 0 /\ Count > 1 => currentEventIndex < Count

LastMark ==
    replayCount > 0 =>
        windows[replayCount].mark = IF Count = 1 THEN At(0)
                                    ELSE At(currentEventIndex)

CoveredBy(i) ==
    \E k \in 1..Len(windows) :
        windows[k].mark <= At(i) /\ At(i) <= windows[k].mark + Span

Covered ==
    \A i \in 0..(Count - 1) :
        i <= currentEventIndex /\ At(i) > At(0) + Span => CoveredBy(i)

Named ==
    \A r \in reports :
        /\ r.number <= replayCount
        /\ r.event <= currentEventIndex
        /\ r.number = replayCount <=> r.event = currentEventIndex

IInv ==
    /\ TypeOK
    /\ Sorted
    /\ phase \in {"deciding", "replaying"} =>
          Advanced /\ LastMark /\ Covered /\ Named
    /\ WindowsTile
    /\ MarksApart
    /\ BurstsReplayed
    /\ ReportsApart
    /\ PanicsOnSingleOnly

-----------------------------------------------------------------------------

LEMMA HasFirst ==
    ASSUME NEW I \in SUBSET Nat, I # {}
    PROVE  /\ FirstOf(I) \in I
           /\ \A j \in I : FirstOf(I) <= j
<1> DEFINE R == OpToRel(<, Nat)
<1>1. IsWellFoundedOn(R, Nat)
  BY NatLessThanWellFounded
<1>2. PICK k \in I : \A m \in I : ~(<<m, k>> \in R)
  <2> HIDE DEF R
  <2> QED BY <1>1, WFMin
<1>3. \A m \in I : ~(m < k)
  BY <1>2 DEF OpToRel
<1>4. \A m \in I : k <= m
  BY <1>3
<1> QED BY <1>4 DEF FirstOf

(* The next mark lies ahead in the recording.  Either it is the first that *)
(* is further than the span, so that those between are within, or there is *)
(* none such and it is the last.                                           *)
LEMMA NextEvent ==
    ASSUME TypeOK, Sorted, Count > 1,
           NEW cur \in 0..(Count - 1), cur + 1 < Count
    PROVE  \E next \in (cur + 1)..(Count - 1) :
              /\ GetNextReplayEvent(cur) = Event(next, At(next))
              /\ At(next) > At(cur) + Span \/ next = Count - 1
              /\ \A i \in (cur + 1)..(next - 1) : At(i) <= At(cur) + Span
<1>1. /\ Count \in Nat
      /\ Span \in Nat
      /\ \A i \in 0..(Count - 1) : At(i) \in Nat
      /\ \A i, j \in 0..(Count - 1) : i <= j => At(i) <= At(j)
  <2>1. Count \in Nat /\ \A i \in 1..Count : scaleUpEvents[i] \in Instants
    BY DEF TypeOK, Count
  <2>2. Instants \subseteq Nat
    BY DEF Instants
  <2>3. \A i \in 0..(Count - 1) : i + 1 \in 1..Count
    BY <2>1
  <2>4. \A i \in 0..(Count - 1) : At(i) \in Nat
    BY <2>1, <2>2, <2>3 DEF At
  <2>5. \A i, j \in 0..(Count - 1) : i <= j => At(i) <= At(j)
    BY <2>1, <2>3 DEF At, Sorted
  <2> QED BY <2>1, <2>4, <2>5, BoundsAssumption
<1>2. \A i \in (cur + 1)..(Count - 1) :
         i \in Distant(cur) <=> At(i) > At(cur) + Span
  <2> SUFFICES ASSUME NEW i \in (cur + 1)..(Count - 1)
               PROVE  i \in Distant(cur) <=> At(i) > At(cur) + Span
    OBVIOUS
  <2>1. At(i) \in Nat /\ At(cur) \in Nat /\ At(cur) <= At(i)
    BY <1>1
  <2>2. ~(At(cur) > At(i) + Span)
    BY <1>1, <2>1
  <2> QED BY <2>2 DEF Distant, FurtherThanSpan
<1> DEFINE next == IF Distant(cur) # {} THEN FirstOf(Distant(cur))
                                        ELSE Count - 1
<1>3. GetNextReplayEvent(cur) = Event(next, At(next))
  BY <1>1 DEF GetNextReplayEvent
<1>4. CASE Distant(cur) # {}
  <2>1. Distant(cur) \in SUBSET Nat
    BY <1>1 DEF Distant
  <2>2. next \in Distant(cur) /\ \A j \in Distant(cur) : next <= j
    BY <1>4, <2>1, HasFirst
  <2>3. next \in (cur + 1)..(Count - 1)
    BY <2>2 DEF Distant
  <2> HIDE DEF next
  <2>4. ASSUME NEW i \in (cur + 1)..(next - 1)
        PROVE  At(i) <= At(cur) + Span
    <3>1. i \in (cur + 1)..(Count - 1) /\ ~(next <= i)
      BY <1>1, <2>3
    <3>2. ~(At(i) > At(cur) + Span)
      BY <1>2, <2>2, <3>1
    <3>3. At(i) \in Nat /\ At(cur) \in Nat
      BY <1>1, <3>1
    <3> QED BY <1>1, <3>2, <3>3
  <2> QED BY <1>2, <1>3, <2>2, <2>3, <2>4
<1>5. CASE Distant(cur) = {}
  <2>1. next = Count - 1 /\ next \in (cur + 1)..(Count - 1)
    BY <1>1, <1>5
  <2> HIDE DEF next
  <2>2. ASSUME NEW i \in (cur + 1)..(next - 1)
        PROVE  At(i) <= At(cur) + Span
    <3>1. i \in (cur + 1)..(Count - 1)
      BY <1>1, <2>1
    <3>2. ~(At(i) > At(cur) + Span)
      BY <1>2, <1>5, <3>1
    <3>3. At(i) \in Nat /\ At(cur) \in Nat
      BY <1>1, <3>1
    <3> QED BY <1>1, <3>2, <3>3
  <2> QED BY <1>3, <2>1, <2>2
<1> QED BY <1>4, <1>5

-----------------------------------------------------------------------------

(* What the types say of the instants of the events.                       *)
LEMMA Times ==
    ASSUME TypeOK, Sorted
    PROVE  /\ Count \in Nat \ {0}
           /\ Instants \subseteq Nat \ {0}
           /\ \A i \in 0..(Count - 1) : At(i) \in Instants
           /\ \A i, j \in 0..(Count - 1) : i <= j => At(i) <= At(j)
<1>1. Count \in Nat /\ \A i \in 1..Count : scaleUpEvents[i] \in Instants
  BY DEF TypeOK, Count
<1>2. \A i \in 0..(Count - 1) : i + 1 \in 1..Count
  BY <1>1
<1>3. \A i \in 0..(Count - 1) : At(i) \in Instants
  BY <1>1, <1>2 DEF At
<1>4. \A i, j \in 0..(Count - 1) : i <= j => At(i) <= At(j)
  BY <1>1, <1>2 DEF At, Sorted
<1>5. Instants \subseteq Nat \ {0} /\ Count # 0
  BY <1>1 DEF Instants, TypeOK
<1> QED BY <1>1, <1>3, <1>4, <1>5

(* Beginning a replay, whichever event it is of.                           *)
LEMMA Advances ==
    ASSUME IInv, Begin
    PROVE  \E next \in 1..Count :
              LET cur == currentEventIndex
                  m   == IF Count = 1 THEN At(0) ELSE At(next)
              IN  /\ cur \in 0..(Count - 1) /\ cur < next
                  /\ Count > 1 => next < Count
                  /\ Count = 1 => cur = 0 /\ next = 1
                  /\ currentEventIndex' = next
                  /\ m \in Instants
                  /\ windows' = Append(windows,
                                       [prev |-> PrevRunMarkTime, mark |-> m])
                  /\ \/ m > At(cur) + Span
                     \/ m = At(Count - 1)
                  /\ \A i \in (cur + 1)..(next - 1) :
                        i < Count => At(i) <= At(cur) + Span
<1> DEFINE cur == currentEventIndex
<1>1. /\ TypeOK /\ Sorted /\ Advanced
      /\ cur \in Nat
      /\ cur = 0 \/ cur < Count
  <2>1. TypeOK /\ Sorted /\ Advanced
    BY DEF IInv, Begin
  <2>2. Count \in Nat /\ cur \in Int /\ replayCount \in Nat
    BY <2>1, Times DEF TypeOK
  <2>3. ~(cur > 0 /\ cur >= Count)
    BY DEF Begin, OutOfRange
  <2>4. replayCount <= cur
    BY <2>1 DEF Advanced
  <2> QED BY <2>1, <2>2, <2>3, <2>4
<1>2. /\ Count \in Nat \ {0}
      /\ Instants \subseteq Nat \ {0}
      /\ \A i \in 0..(Count - 1) : At(i) \in Instants
  BY <1>1, Times
<1>3. CASE Count = 1
  <2>1. cur = 0
    BY <1>1, <1>3
  <2>2. GetNextReplayEvent(cur) = Event(1, At(0))
    BY <1>3, <2>1 DEF GetNextReplayEvent
  <2>3. /\ currentEventIndex' = 1
        /\ windows' = Append(windows,
                             [prev |-> PrevRunMarkTime, mark |-> At(0)])
    BY <2>2 DEF Begin, Event
  <2> QED BY <1>2, <1>3, <2>1, <2>3
<1>4. CASE Count > 1
  <2>1. cur + 1 < Count
    <3>1. GetNextReplayEvent(cur).mark # 0
      BY DEF Begin
    <3> QED BY <1>1, <1>2, <1>4, <3>1 DEF GetNextReplayEvent, NoEvent
  <2>2. PICK next \in (cur + 1)..(Count - 1) :
           /\ GetNextReplayEvent(cur) = Event(next, At(next))
           /\ At(next) > At(cur) + Span \/ next = Count - 1
           /\ \A i \in (cur + 1)..(next - 1) : At(i) <= At(cur) + Span
    <3>1. cur \in 0..(Count - 1)
      BY <1>1, <1>2
    <3> QED BY <1>1, <1>4, <2>1, <3>1, NextEvent
  <2>3. /\ currentEventIndex' = next
        /\ windows' = Append(windows,
                             [prev |-> PrevRunMarkTime, mark |-> At(next)])
    BY <2>2 DEF Begin, Event
  <2>4. next \in 1..Count /\ cur \in 0..(Count - 1) /\ cur < next
        /\ next < Count /\ At(next) \in Instants
    BY <1>1, <1>2, <2>1
  <2> QED BY <1>4, <2>2, <2>3, <2>4
<1> QED BY <1>2, <1>3, <1>4

LEMMA BeginInv ==
    ASSUME IInv, Begin
    PROVE  IInv'
<1> DEFINE cur == currentEventIndex
           L == replayCount
<1>1. PICK next \in 1..Count :
          /\ cur \in 0..(Count - 1) /\ cur < next
          /\ Count > 1 => next < Count
          /\ Count = 1 => cur = 0 /\ next = 1
          /\ currentEventIndex' = next
          /\ (IF Count = 1 THEN At(0) ELSE At(next)) \in Instants
          /\ windows' = Append(windows,
                               [prev |-> PrevRunMarkTime,
                                mark |-> IF Count = 1 THEN At(0)
                                         ELSE At(next)])
          /\ \/ (IF Count = 1 THEN At(0) ELSE At(next)) > At(cur) + Span
             \/ (IF Count = 1 THEN At(0) ELSE At(next)) = At(Count - 1)
          /\ \A i \in (cur + 1)..(next - 1) :
                i < Count => At(i) <= At(cur) + Span
  BY Advances
<1> DEFINE m == IF Count = 1 THEN At(0) ELSE At(next)
           w == [prev |-> PrevRunMarkTime, mark |-> m]
<1>2. /\ TypeOK /\ Sorted /\ Advanced /\ LastMark /\ Covered /\ Named
      /\ WindowsTile /\ MarksApart /\ ReportsApart
      /\ UNCHANGED <<scaleUpEvents, today, reports, Count>>
      /\ replayCount' = L + 1
      /\ phase' = "replaying"
  BY DEF IInv, Begin, Count
<1>3. /\ Count \in Nat \ {0}
      /\ Span \in Nat
      /\ Instants \subseteq Nat \ {0}
      /\ \A i \in 0..(Count - 1) : At(i) \in Instants
      /\ \A i, j \in 0..(Count - 1) : i <= j => At(i) <= At(j)
  BY <1>2, Times, BoundsAssumption
<1>4. \A i : At(i)' = At(i)
  BY <1>2 DEF At
<1>5. /\ L \in Nat /\ Len(windows) = L
      /\ m \in Instants
      /\ w \in [prev : Instants \cup {0}, mark : Instants]
      /\ w.mark = m
      /\ w.prev = IF cur = 0 THEN 0 ELSE At(cur)
  <2>1. L \in Nat /\ Len(windows) = L
    BY <1>2 DEF Advanced, TypeOK
  <2>2. PrevRunMarkTime = IF cur = 0 THEN 0 ELSE At(cur)
    BY DEF PrevRunMarkTime
  <2>3. PrevRunMarkTime \in Instants \cup {0} /\ m \in Instants
    BY <1>1, <1>3, <2>2
  <2> HIDE DEF m
  <2> QED BY <2>1, <2>2, <2>3
<1> HIDE DEF m
<1>6. /\ windows' \in Seq([prev : Instants \cup {0}, mark : Instants])
      /\ Len(windows') = L + 1
      /\ windows'[L + 1] = w
      /\ \A i \in 1..L : windows'[i] = windows[i]
  <2>1. windows' = Append(windows, w)
    BY <1>1 DEF m
  <2> HIDE DEF w
  <2> QED BY <1>2, <1>5, <2>1 DEF TypeOK
<1>7. /\ cur = 0 <=> L = 0
      /\ cur > 0 => Count > 1 /\ windows[L].mark = At(cur)
  BY <1>1, <1>2, <1>3, <1>5 DEF Advanced, LastMark
<1> HIDE DEF w
<1>8. TypeOK'
  <2>1. L + 1 \in 0..Count
    BY <1>1, <1>2, <1>3, <1>5 DEF Advanced
  <2>2. reports' \in SUBSET [number : 1..Count, event : 0..Count]
    BY <1>2 DEF TypeOK
  <2> QED BY <1>1, <1>2, <1>3, <1>6, <2>1, <2>2 DEF TypeOK
<1>9. Sorted'
  BY <1>2 DEF Sorted
<1>10. Advanced'
  BY <1>1, <1>2, <1>3, <1>5, <1>6 DEF Advanced
<1>11. LastMark'
  BY <1>1, <1>2, <1>4, <1>5, <1>6 DEF LastMark, m
<1>12. WindowsTile'
  <2> SUFFICES ASSUME NEW i \in 1..(L + 1)
               PROVE  windows'[i].prev = IF i = 1 THEN 0
                                         ELSE windows'[i - 1].mark
    BY <1>6 DEF WindowsTile
  <2>1. CASE i <= L
    <3>1. i \in 1..L /\ (i # 1 => i - 1 \in 1..L)
      BY <1>5, <2>1
    <3>2. windows[i].prev = IF i = 1 THEN 0 ELSE windows[i - 1].mark
      BY <1>2, <1>5, <3>1 DEF WindowsTile
    <3> QED BY <1>6, <3>1, <3>2
  <2>2. CASE i = L + 1
    <3>1. windows'[i].prev = IF cur = 0 THEN 0 ELSE At(cur)
      BY <1>5, <1>6, <2>2
    <3>2. CASE L = 0
      BY <1>7, <2>2, <3>1, <3>2
    <3>3. CASE L > 0
      <4>1. i # 1 /\ i - 1 = L /\ L \in 1..L
        BY <1>5, <2>2, <3>3
      <4>2. cur > 0
        BY <1>1, <1>3, <1>7, <3>3, <1>5
      <4> QED BY <1>6, <1>7, <3>1, <4>1, <4>2
    <3> QED BY <1>5, <3>2, <3>3
  <2> QED BY <1>5, <2>1, <2>2
<1>13. MarksApart'
  <2> SUFFICES ASSUME NEW i \in 2..(L + 1)
               PROVE  \/ windows'[i].mark > windows'[i - 1].mark + Span
                      \/ windows'[i].mark = At(Count - 1)
    BY <1>2, <1>4, <1>6 DEF MarksApart
  <2>1. CASE i <= L
    BY <1>2, <1>5, <1>6, <2>1 DEF MarksApart
  <2>2. CASE i = L + 1
    <3>1. windows'[i].mark = m /\ windows'[i - 1].mark = At(cur)
      BY <1>3, <1>5, <1>6, <1>7, <2>2, <1>1
    <3> QED BY <1>1, <3>1 DEF m
  <2> QED BY <1>5, <2>1, <2>2
<1>14. Covered'
  <2> SUFFICES ASSUME NEW i \in 0..(Count - 1), i <= next,
                      At(i) > At(0) + Span
               PROVE  \E k \in 1..(L + 1) : /\ windows'[k].mark <= At(i)
                                            /\ At(i) <= windows'[k].mark + Span
    BY <1>1, <1>2, <1>4, <1>6 DEF Covered, CoveredBy
  <2>0. Count > 1 /\ At(i) \in Nat /\ At(cur) \in Nat
    <3>1. At(i) \in Nat /\ At(cur) \in Nat /\ At(0) \in Nat
      <4>1. 0 \in 0..(Count - 1)
        BY <1>3
      <4> QED BY <1>1, <1>3, <4>1
    <3>2. i # 0
      BY <1>3, <3>1
    <3> QED BY <1>3, <3>1, <3>2
  <2>1. CASE i <= cur
    <3>1. PICK k \in 1..L : /\ windows[k].mark <= At(i)
                            /\ At(i) <= windows[k].mark + Span
      BY <1>2, <1>5, <2>1 DEF Covered, CoveredBy
    <3> QED BY <1>5, <1>6, <3>1
  <2>2. CASE i > cur /\ i < next
    <3>1. At(i) <= At(cur) + Span
      BY <1>1, <1>3, <2>2
    <3>2. cur > 0
      BY <1>1, <1>3, <2>0, <3>1
    <3>3. At(cur) <= At(i)
      BY <1>1, <1>3, <2>2
    <3>4. L \in 1..(L + 1) /\ windows'[L].mark = At(cur)
      BY <1>5, <1>6, <1>7, <3>2
    <3> QED BY <3>1, <3>3, <3>4
  <2>3. CASE i = next
    <3>1. L + 1 \in 1..(L + 1) /\ windows'[L + 1].mark = At(i)
      BY <1>5, <1>6, <2>0, <2>3 DEF m
    <3> QED BY <1>3, <2>0, <3>1
  <2>4. i \in Nat /\ cur \in Nat /\ next \in Nat
    BY <1>1, <1>3
  <2>5. i <= cur \/ (i > cur /\ i < next) \/ i = next
    BY <2>4
  <2> QED BY <2>1, <2>2, <2>3, <2>5
<1>15. Named'
  <2>1. \A r \in reports : r.number \in Nat /\ r.event \in Nat
    BY <1>2, <1>3 DEF TypeOK
  <2> QED BY <1>1, <1>2, <1>5, <2>1 DEF Named
<1>16. BurstsReplayed' /\ ReportsApart' /\ PanicsOnSingleOnly'
  BY <1>2 DEF BurstsReplayed, ReportsApart, PanicsOnSingleOnly
<1> QED BY <1>8, <1>9, <1>10, <1>11, <1>12, <1>13, <1>14, <1>15, <1>16
        DEF IInv

(* The loop ends at the last event, or because a mark is ahead of the      *)
(* clock, in which case the last event is ahead of it, too.                *)
LEMMA FinishInv ==
    ASSUME IInv, Finish
    PROVE  IInv'
<1> DEFINE cur == currentEventIndex
           L == replayCount
           ev == GetNextReplayEvent(cur)
<1>1. /\ TypeOK /\ Sorted /\ Advanced /\ LastMark /\ Covered
      /\ WindowsTile /\ MarksApart /\ ReportsApart
      /\ UNCHANGED <<scaleUpEvents, today, replayCount, windows, reports,
                     Count>>
      /\ currentEventIndex' = ev.index
      /\ phase' = "done"
      /\ ev.mark = 0 \/ ev.mark > today
  BY DEF IInv, Finish, Count
<1>2. /\ Count \in Nat \ {0}
      /\ Instants \subseteq Nat \ {0}
      /\ \A i \in 0..(Count - 1) : At(i) \in Instants
      /\ \A i, j \in 0..(Count - 1) : i <= j => At(i) <= At(j)
  BY <1>1, Times
<1>3. cur \in 0..(Count - 1)
  <2>1. cur \in Int /\ L \in Nat /\ L <= cur
    BY <1>1, <1>2 DEF TypeOK, Advanced
  <2>2. ~(cur > 0 /\ cur >= Count)
    BY DEF Finish, OutOfRange
  <2> QED BY <1>2, <2>1, <2>2
<1>4. \/ Count > 1 /\ cur = Count - 1 /\ ev = NoEvent
      \/ \E i \in 0..(Count - 1), k \in 1..Count : ev = Event(k, At(i))
  <2>1. CASE Count = 1
    <3>1. ev = Event(1, At(0))
      BY <1>2, <1>3, <2>1 DEF GetNextReplayEvent
    <3> QED BY <1>2, <2>1, <3>1
  <2>2. CASE Count > 1 /\ cur + 1 >= Count
    BY <1>2, <1>3, <2>2 DEF GetNextReplayEvent
  <2>3. CASE Count > 1 /\ cur + 1 < Count
    <3>1. PICK next \in (cur + 1)..(Count - 1) : ev = Event(next, At(next))
      BY <1>1, <1>3, <2>3, NextEvent
    <3>2. next \in 0..(Count - 1) /\ next \in 1..Count
      BY <1>2, <1>3
    <3> HIDE DEF ev
    <3> QED BY <3>1, <3>2
  <2> QED BY <1>2, <1>3, <2>1, <2>2, <2>3
<1> HIDE DEF ev
<1>5. TypeOK'
  <2>1. ev.index \in -1..Count
    BY <1>2, <1>4 DEF NoEvent, Event
  <2> QED BY <1>1, <2>1 DEF TypeOK, Ended
<1>6. BurstsReplayed'
  <2> SUFFICES ASSUME At(Count - 1) <= today
               PROVE  /\ windows # <<>>
                      /\ windows[Len(windows)].mark = At(Count - 1)
                      /\ \A i \in 0..(Count - 1) :
                            At(i) > At(0) + Span => CoveredBy(i)
    BY <1>1 DEF BurstsReplayed, CoveredBy, At
  <2>1. Count > 1 /\ cur = Count - 1
    <3>1. ASSUME NEW i \in 0..(Count - 1), NEW k, ev = Event(k, At(i))
          PROVE  FALSE
      <4>1. ev.mark = At(i)
        BY <3>1 DEF Event
      <4>2. At(i) \in Nat \ {0} /\ At(i) <= At(Count - 1)
            /\ At(Count - 1) \in Nat
        <5>1. Count - 1 \in 0..(Count - 1) /\ i <= Count - 1
          BY <1>2
        <5> QED BY <1>2, <5>1
      <4>3. today \in Nat
        BY <1>1, <1>2 DEF TypeOK
      <4> QED BY <1>1, <4>1, <4>2, <4>3
    <3> QED BY <1>4, <3>1
  <2>2. L \in Nat /\ L > 0 /\ Len(windows) = L /\ windows \in Seq(
           [prev : Instants \cup {0}, mark : Instants])
    BY <1>1, <1>2, <2>1 DEF Advanced, TypeOK
  <2>3. windows # <<>>
    BY <2>2
  <2>4. windows[L].mark = At(Count - 1)
    BY <1>1, <1>2, <2>1, <2>2 DEF LastMark
  <2>5. \A i \in 0..(Count - 1) : At(i) > At(0) + Span => CoveredBy(i)
    BY <1>1, <1>2, <2>1 DEF Covered
  <2> QED BY <2>2, <2>3, <2>4, <2>5
<1>7. Sorted' /\ WindowsTile' /\ MarksApart' /\ ReportsApart'
      /\ PanicsOnSingleOnly'
  BY <1>1 DEF Sorted, WindowsTile, MarksApart, ReportsApart,
              PanicsOnSingleOnly, At
<1> QED BY <1>1, <1>5, <1>6, <1>7 DEF IInv

(* A look-up out of the slice needs an index of 1 in a slice of one.       *)
LEMMA PanicInv ==
    ASSUME IInv, Panic
    PROVE  IInv'
<1>1. /\ TypeOK /\ Sorted /\ Advanced
      /\ WindowsTile /\ MarksApart /\ ReportsApart
      /\ UNCHANGED <<scaleUpEvents, today, currentEventIndex, replayCount,
                     windows, reports, Count>>
      /\ phase' = "panicked"
      /\ currentEventIndex > 0 /\ currentEventIndex >= Count
  BY DEF IInv, Panic, OutOfRange, Count
<1>2. Count \in Nat \ {0} /\ currentEventIndex \in Int
  BY <1>1, Times DEF TypeOK
<1>3. Count = 1
  BY <1>1, <1>2 DEF Advanced
<1>4. TypeOK'
  BY <1>1 DEF TypeOK, Ended
<1> QED BY <1>1, <1>3, <1>4
        DEF IInv, Sorted, WindowsTile, MarksApart, BurstsReplayed,
            ReportsApart, PanicsOnSingleOnly, At

LEMMA WriteScenarioInv ==
    ASSUME IInv, WriteScenario
    PROVE  IInv'
<1> DEFINE rep == [number |-> replayCount, event |-> currentEventIndex]
<1>1. /\ TypeOK /\ Sorted /\ Advanced /\ LastMark /\ Covered /\ Named
      /\ WindowsTile /\ MarksApart /\ ReportsApart
      /\ UNCHANGED <<scaleUpEvents, today, currentEventIndex, replayCount,
                     windows, Count>>
      /\ phase' = "deciding"
      /\ reports' = reports \cup {rep}
  BY DEF IInv, WriteScenario, Count
<1>2. Count \in Nat \ {0}
  BY <1>1, Times
<1>3. /\ replayCount \in 1..Count
      /\ currentEventIndex \in 0..Count
  BY <1>1, <1>2 DEF Advanced, TypeOK, WriteScenario
<1>4. TypeOK'
  <2>1. rep \in [number : 1..Count, event : 0..Count]
    BY <1>3
  <2> QED BY <1>1, <2>1 DEF TypeOK
<1>5. Named' /\ ReportsApart'
  BY <1>1, <1>3 DEF Named, ReportsApart
<1> QED BY <1>1, <1>4, <1>5
        DEF IInv, Sorted, Advanced, LastMark, Covered, CoveredBy,
            WindowsTile, MarksApart, BurstsReplayed, PanicsOnSingleOnly, At

-----------------------------------------------------------------------------

LEMMA InitInv == Init => IInv
<1> SUFFICES ASSUME Init PROVE IInv
  OBVIOUS
<1>1. PICK n \in 1..MaxEvents : scaleUpEvents \in [1..n -> Instants]
  BY DEF Init
<1>2. scaleUpEvents \in Seq(Instants) /\ Count = n /\ Count \in Nat \ {0}
  BY <1>1, BoundsAssumption DEF Count
<1>3. TypeOK
  BY <1>2 DEF Init, TypeOK
<1>4. Sorted
  BY DEF Init, Sorted
<1>5. Covered
  <2> SUFFICES ASSUME NEW i \in 0..(Count - 1), i <= 0,
                      At(i) > At(0) + Span
               PROVE  FALSE
    BY DEF Init, Covered
  <2>1. i = 0 /\ At(0) \in Instants
    BY <1>2, <1>3, <1>4, Times
  <2> QED BY <2>1, BoundsAssumption DEF Instants
<1> QED BY <1>3, <1>4, <1>5
        DEF Init, IInv, Advanced, LastMark, Named, WindowsTile, MarksApart,
            BurstsReplayed, ReportsApart, PanicsOnSingleOnly

LEMMA NextInv == IInv /\ [Next]_vars => IInv'
<1> SUFFICES ASSUME IInv, [Next]_vars PROVE IInv'
  OBVIOUS
<1>1. CASE Skip
  BY <1>1 DEF Skip, IInv, TypeOK, Ended, Sorted, Advanced, LastMark, Covered,
     CoveredBy, Named, WindowsTile, MarksApart, BurstsReplayed, ReportsApart,
     PanicsOnSingleOnly, At, Count
<1>2. CASE Fail \/ FindNoRows
  BY <1>2 DEF Fail, FindNoRows, IInv, TypeOK, Ended, Sorted, WindowsTile,
     MarksApart, BurstsReplayed, ReportsApart, PanicsOnSingleOnly, At, Count
<1>3. CASE UNCHANGED vars
  BY <1>3 DEF vars, IInv, TypeOK, Ended, Sorted, Advanced, LastMark, Covered,
     CoveredBy, Named, WindowsTile, MarksApart, BurstsReplayed, ReportsApart,
     PanicsOnSingleOnly, At, Count
<1> QED BY <1>1, <1>2, <1>3, BeginInv, FinishInv, PanicInv, WriteScenarioInv
        DEF Next, Advance

LEMMA Invariance == Spec => []IInv
BY InitInv, NextInv, PTL DEF Spec

-----------------------------------------------------------------------------
(* Theorems.                                                               *)

(* The variables keep their types; in particular a recording of n scale-   *)
(* ups is replayed at most n times.                                        *)
THEOREM TypeCorrect == Spec => []TypeOK
<1>1. IInv => TypeOK
  BY DEF IInv
<1> QED BY <1>1, Invariance, PTL

(* The windows the replays load pods from follow each other without a gap  *)
(* or an overlap (replayer.go:1336-1342).                                  *)
THEOREM ReplaysTile == Spec => []WindowsTile
<1>1. IInv => WindowsTile
  BY DEF IInv
<1> QED BY <1>1, Invariance, PTL

(* One replay to a burst, save for the last event (replayer.go:1306-1334). *)
THEOREM OneReplayPerBurst == Spec => []MarksApart
<1>1. IInv => MarksApart
  BY DEF IInv
<1> QED BY <1>1, Invariance, PTL

(* A loop that ran to the end of the recording replayed every burst but    *)
(* the first.                                                              *)
THEOREM EveryBurstReplayed == Spec => []BurstsReplayed
<1>1. IInv => BurstsReplayed
  BY DEF IInv
<1> QED BY <1>1, Invariance, PTL

(* Reports are named apart (replayer.go:1646-1647).                        *)
THEOREM ReportsNamedApart == Spec => []ReportsApart
<1>1. IInv => ReportsApart
  BY DEF IInv
<1> QED BY <1>1, Invariance, PTL

(* A recording of more than one scale-up never makes the loop panic.       *)
THEOREM NoPanicOnMany == Spec => []PanicsOnSingleOnly
<1>1. IInv => PanicsOnSingleOnly
  BY DEF IInv
<1> QED BY <1>1, Invariance, PTL

=============================================================================
