------------------------------ MODULE Informer ------------------------------
(***************************************************************************)
(* What a recorder watches.  Objects of one kind (nodes, pods, machine     *)
(* deployments, machine classes...) live in a cluster; a shared informer   *)
(* of client-go lists and watches them and hands every change to the       *)
(* handlers registered in Start (src/recorder/recorder.go 716-833).  The   *)
(* modules that model the handlers extend this one.                        *)
(*                                                                         *)
(* None of this is the repository's code: it is the contract of client-go  *)
(* that the handlers are written against.  Changes of one object reach a   *)
(* handler in order, one at a time; changes of different objects reach it  *)
(* in any order.  After the watch broke, the changes of the gap are not    *)
(* delivered: a relist compares what the cluster holds with what was last  *)
(* observed, so that an object replaced meanwhile by another of its name   *)
(* is shown as an update, and one that vanished as a tombstone with the    *)
(* last state that was observed.  A restarted process starts from an empty *)
(* cache and is shown every existing object as an addition.                *)
(***************************************************************************)
EXTENDS Naturals, Sequences

CONSTANTS
    Names,    \* the names objects may have
    Specs,    \* the contents of an object that a recorder may tell apart
    MaxTime,  \* bound: the cluster changes MaxTime - 1 times
    None      \* no object

ASSUME MaxTimeAssumption == MaxTime \in Nat \ {0}

Time == 0..MaxTime  \* 0 stands for a timestamp that is not set

(* An object: when it was created (which also tells two objects of one     *)
(* name apart, as a UID does), when a condition of it last changed, its    *)
(* content, whether it is ready, and its deletion timestamp.               *)
Object == [created : Time, touched : Time, spec : Specs, ready : BOOLEAN,
           deleting : Time]

ASSUME NoneAssumption == None \notin Object

(* What the informer has queued for the handlers: an object as it was, or  *)
(* the final state of one that is gone.                                    *)
Notice == [obj : Object, gone : BOOLEAN]

VARIABLES
    now,      \* the clock, which ticks when the cluster changes
    obj,      \* name -> the object of that name in the cluster, or None
    conn,     \* "down" (no process), "watching", "broken" (watch was lost)
    pending,  \* name -> notices not yet handled, oldest first
    cache     \* name -> the object the handlers were last shown, or None

informerVars == <<now, obj, conn, pending, cache>>

InformerTypeOK ==
    /\ now \in Time \ {0}
    /\ obj \in [Names -> Object \cup {None}]
    /\ conn \in {"down", "watching", "broken"}
    /\ pending \in [Names -> Seq(Notice)]
    /\ cache \in [Names -> Object \cup {None}]

Put(o)  == [obj |-> o, gone |-> FALSE]
Gone(o) == [obj |-> o, gone |-> TRUE]

(* What the handlers will have been shown of n once they caught up.        *)
Observed(n) ==
    IF pending[n] = <<>> THEN cache[n]
    ELSE LET last == pending[n][Len(pending[n])]
         IN  IF last.gone THEN None ELSE last.obj

InformerInit ==
    /\ now = 1
    /\ obj = [n \in Names |-> None]
    /\ conn = "down"
    /\ pending = [n \in Names |-> <<>>]
    /\ cache = [n \in Names |-> None]

-----------------------------------------------------------------------------
(* The cluster.  o is what becomes of the object of name n.                *)

Change(n, o) ==
    /\ now < MaxTime
    /\ now' = now + 1
    /\ obj' = [obj EXCEPT ![n] = o]
    /\ pending' = IF conn # "watching" THEN pending
                  ELSE [pending EXCEPT ![n] =
                            Append(@, IF o = None THEN Gone(obj[n])
                                                  ELSE Put(o))]
    /\ UNCHANGED <<conn, cache>>

Create(n) ==
    /\ obj[n] = None
    /\ \E s \in Specs, r \in BOOLEAN :
          Change(n, [created |-> now + 1, touched |-> now + 1, spec |-> s,
                     ready |-> r, deleting |-> 0])

Edit(n) ==
    /\ obj[n] # None
    /\ \E s \in Specs \ {obj[n].spec} :
          Change(n, [obj[n] EXCEPT !.spec = s])

SetReady(n) ==
    /\ obj[n] # None
    /\ Change(n, [obj[n] EXCEPT !.ready = ~@, !.touched = now + 1])

BeginDelete(n) ==
    /\ obj[n] # None
    /\ obj[n].deleting = 0
    /\ Change(n, [obj[n] EXCEPT !.deleting = now + 1])

(* Also of an object whose deletion timestamp was never set.               *)
Remove(n) ==
    /\ obj[n] # None
    /\ Change(n, None)

Cluster(n) ==
    \/ Create(n)
    \/ Edit(n)
    \/ SetReady(n)
    \/ BeginDelete(n)
    \/ Remove(n)

-----------------------------------------------------------------------------
(* The informer.                                                           *)

Break ==
    /\ conn = "watching"
    /\ conn' = "broken"
    /\ UNCHANGED <<now, obj, pending, cache>>

Relist ==
    /\ conn = "broken"
    /\ conn' = "watching"
    /\ pending' = [n \in Names |->
           IF obj[n] = Observed(n) THEN pending[n]
           ELSE Append(pending[n], IF obj[n] = None THEN Gone(Observed(n))
                                                    ELSE Put(obj[n]))]
    /\ UNCHANGED <<now, obj, cache>>

(* The informer's half of handling the oldest notice of n.                 *)
Deliver(n) ==
    /\ conn # "down"
    /\ pending[n] # <<>>
    /\ pending' = [pending EXCEPT ![n] = Tail(@)]
    /\ cache' = [cache EXCEPT ![n] = IF Head(pending[n]).gone THEN None
                                     ELSE Head(pending[n]).obj]
    /\ UNCHANGED <<now, obj, conn>>

(* What is handed to a handler.                                            *)
Shown(n) == Head(pending[n]).obj
IsAdd(n)    == pending[n] # <<>> /\ ~Head(pending[n]).gone /\ cache[n] = None
IsUpdate(n) == pending[n] # <<>> /\ ~Head(pending[n]).gone /\ cache[n] # None
IsDelete(n) == pending[n] # <<>> /\ Head(pending[n]).gone

-----------------------------------------------------------------------------
(* The recorder process, as far as its informers go.                       *)

StartInformer ==
    /\ conn = "down"
    /\ conn' = "watching"
    /\ pending' = [n \in Names |-> IF obj[n] = None THEN <<>>
                                   ELSE <<Put(obj[n])>>]
    /\ cache' = [n \in Names |-> None]
    /\ UNCHANGED <<now, obj>>

StopInformer ==
    /\ conn # "down"
    /\ conn' = "down"
    /\ pending' = [n \in Names |-> <<>>]
    /\ cache' = [n \in Names |-> None]
    /\ UNCHANGED <<now, obj>>

(* While the watch is up nothing is lost: once the queue is handled, the   *)
(* handlers will have been shown what the cluster holds.                   *)
Synced ==
    conn = "watching" => \A n \in Names : Observed(n) = obj[n]
=============================================================================
