---------------------------- MODULE LightsProofs ----------------------------
(***************************************************************************)
(* Proofs about Lights: a device that is in the map has one worker, and    *)
(* one that is not has none.                                               *)
(***************************************************************************)
EXTENDS Lights, FiniteSetTheorems, SequenceTheorems, TLAPS

USE LightsAssumption

-----------------------------------------------------------------------------
(* The inductive invariant. *)

(* What is resolved has an address, so that no entry is ever without one.  *)
ResolvedSomewhere ==
  \A i \in DOMAIN events : events[i].type = "resolved" => events[i].address \in Address

(* The JoinSet of an entry holds one task; without an entry there is none. *)
Watched(d) == Known(d) /\ \E w \in Worker : TasksOf(d) = {w}
Unwatched(d) == ~Known(d) /\ TasksOf(d) = {}

LightsInv == TypeOK /\ ResolvedSomewhere /\ \A d \in Device : Watched(d) \/ Unwatched(d)

-----------------------------------------------------------------------------
(* An event that is told makes the queue no worse. *)
LEMMA EventsGrow ==
  ASSUME TypeOK, ResolvedSomewhere, NEW e \in Event, e.type = "resolved" => e.address \in Address,
         events' = IF daemon THEN Append(events, e) ELSE events
  PROVE  events' \in Seq(Event) /\ ResolvedSomewhere'
<1>1. CASE daemon
  <2>1. events \in Seq(Event) /\ events' = Append(events, e)
    BY <1>1 DEF TypeOK
  <2>2. /\ Len(events) \in Nat /\ DOMAIN events = 1..Len(events) /\ DOMAIN events' = 1..(Len(events) + 1)
        /\ \A i \in 1..Len(events) : events'[i] = events[i]
        /\ events'[Len(events) + 1] = e
    BY <2>1
  <2>3. ASSUME NEW i \in DOMAIN events', events'[i].type = "resolved" PROVE events'[i].address \in Address
    <3>1. i \in 1..Len(events) \/ i = Len(events) + 1
      BY <2>2
    <3> QED
      BY <2>2, <2>3, <3>1 DEF ResolvedSomewhere
  <2> QED
    BY <2>1, <2>3 DEF ResolvedSomewhere
<1>2. CASE ~daemon
  BY <1>2 DEF TypeOK, ResolvedSomewhere
<1> QED
  BY <1>1, <1>2

(* So does one that is read. *)
LEMMA EventsRead ==
  ASSUME TypeOK, ResolvedSomewhere, events # <<>>, events' = Tail(events)
  PROVE  /\ events' \in Seq(Event) /\ ResolvedSomewhere'
         /\ Head(events) \in Event /\ (Head(events).type = "resolved" => Head(events).address \in Address)
<1>1. events \in Seq(Event) /\ Len(events) \in Nat \ {0} /\ DOMAIN events = 1..Len(events)
  BY DEF TypeOK
<1>2. /\ events' \in Seq(Event) /\ DOMAIN events' = 1..(Len(events) - 1)
      /\ \A i \in 1..(Len(events) - 1) : i + 1 \in DOMAIN events /\ events'[i] = events[i + 1]
  BY <1>1
<1>3. Head(events) = events[1] /\ 1 \in DOMAIN events
  BY <1>1
<1> QED
  BY <1>1, <1>2, <1>3 DEF ResolvedSomewhere

(* A device has the tasks it had if tasks keep their device and none of    *)
(* them is dropped.                                                        *)
LEMMA TasksKept ==
  ASSUME \A w \in Worker : task'[w].device = task[w].device /\ (task'[w].at = "last" <=> task[w].at = "last")
  PROVE  \A d \in Device : TasksOf(d)' = TasksOf(d)
BY DEF TasksOf

(* Entries are kept in the map as long as they have an address. *)
LEMMA KnownIs ==
  ASSUME TypeOK, NEW d \in Device
  PROVE  /\ Known(d) <=> devices[d].address \in Address
         /\ devices[d].name \in Device \union {LABEL}
         /\ devices[d].address \in Address \union {NOWHERE}
<1>1. devices[d] \in Entry \union {ABSENT}
  BY DEF TypeOK
<1>2. CASE devices[d] = ABSENT
  BY <1>2 DEF ABSENT, Known
<1>3. CASE devices[d] \in Entry
  BY <1>3 DEF ABSENT, Known, Entry
<1> QED
  BY <1>1, <1>2, <1>3

-----------------------------------------------------------------------------
(* Nothing is known at first. *)
LEMMA LightsInit == Init => LightsInv
<1> SUFFICES ASSUME Init PROVE LightsInv
  OBVIOUS
<1>1. TypeOK
  <2>1. events \in Seq(Event) /\ changes \in 0..MaxChanges /\ deaths \in 0..MaxDeaths
    BY DEF Init
  <2>2. /\ devices \in [Device -> Entry \union {ABSENT}]
        /\ task \in [Worker -> Task \union {FREE}]
        /\ place \in [Device -> Address \union {NOWHERE}]
    BY DEF Init
  <2> QED
    BY <2>1, <2>2 DEF Init, TypeOK
<1>2. ResolvedSomewhere
  BY DEF Init, ResolvedSomewhere
<1>3. ASSUME NEW d \in Device PROVE Unwatched(d)
  BY DEF Init, Unwatched, Known, TasksOf, FREE
<1> QED
  BY <1>1, <1>2, <1>3 DEF LightsInv

(* Map and tasks as they were. *)
LEMMA WatchStays ==
  ASSUME LightsInv, UNCHANGED mapVars
  PROVE  \A d \in Device : Watched(d)' \/ Unwatched(d)'
BY DEF LightsInv, mapVars, Watched, Unwatched, Known, TasksOf

(* The network and the daemon. *)
LEMMA NetKeeps ==
  ASSUME LightsInv, NetNext
  PROVE  LightsInv'
<1> USE DEF LightsInv
<1>1. UNCHANGED mapVars
  BY DEF NetNext, DaemonDies, Leaves, Appears, Changes
<1>2. CASE DaemonDies
  <2>1. TypeOK' /\ ResolvedSomewhere'
    <3>1. deaths' \in 0..MaxDeaths
      BY <1>2 DEF DaemonDies, TypeOK
    <3>2. events' = events
      BY <1>2 DEF DaemonDies
    <3> QED
      BY <1>2, <3>1, <3>2 DEF DaemonDies, TypeOK, ResolvedSomewhere, mapVars, callVars
  <2> QED
    BY <1>1, <2>1, WatchStays
<1>3. ASSUME NEW d \in Device, NEW a \in Address \union {NOWHERE}, NEW e, Changes(d, a, e),
             (e = Resolved(d, a) /\ a \in Address) \/ e = Removed(d),
             missed' \subseteq Device
      PROVE  LightsInv'
  <2>1. e \in Event /\ (e.type = "resolved" => e.address \in Address)
    BY <1>3 DEF Resolved, Removed, Event
  <2>2. events' = IF daemon THEN Append(events, e) ELSE events
    BY <1>3 DEF Changes
  <2>3. events' \in Seq(Event) /\ ResolvedSomewhere'
    BY <2>1, <2>2, EventsGrow
  <2>4. changes' \in 0..MaxChanges /\ place' \in [Device -> Address \union {NOWHERE}]
    BY <1>3 DEF Changes, TypeOK
  <2>5. TypeOK'
    BY <1>3, <2>3, <2>4 DEF Changes, TypeOK, mapVars, callVars
  <2> QED
    BY <1>1, <2>3, <2>5, WatchStays
<1>4. ASSUME NEW d \in Device, Leaves(d) PROVE LightsInv'
  <2>1. missed' \subseteq Device /\ Changes(d, NOWHERE, Removed(d))
    BY <1>4 DEF Leaves, TypeOK
  <2> QED
    BY <1>3, <2>1
<1>5. ASSUME NEW d \in Device, NEW a \in Address, Appears(d, a) PROVE LightsInv'
  <2>1. missed' \subseteq Device /\ Changes(d, a, Resolved(d, a))
    BY <1>5 DEF Appears, TypeOK
  <2> QED
    BY <1>3, <2>1
<1> QED
  BY <1>2, <1>4, <1>5 DEF NetNext

(* A daemon that is started tells what is there. *)
LEMMA BrowseKeeps ==
  ASSUME LightsInv, BrowseStarts
  PROVE  LightsInv'
<1> USE DEF LightsInv
<1> DEFINE There == {d \in Device : place[d] # NOWHERE}
<1>1. PICK q \in SetToSeqs(There) : events' = [i \in DOMAIN q |-> Resolved(q[i], place[q[i]])]
  BY DEF BrowseStarts
<1>2. Cardinality(There) \in Nat
  <2>1. There \in SUBSET Device
    OBVIOUS
  <2> HIDE DEF There
  <2> QED
    BY <2>1, FS_Subset, FS_CardinalityType
<1> DEFINE n == Cardinality(There)
<1>3. q \in [1..n -> There]
  BY <1>1 DEF SetToSeqs
<1>4. \A d \in There : d \in Device /\ place[d] \in Address
  BY DEF TypeOK
<1> HIDE DEF There, n
<1>5. \A i \in 1..n : Resolved(q[i], place[q[i]]) \in Event /\ place[q[i]] \in Address
  BY <1>3, <1>4 DEF Resolved, Event
<1>6. events' = [i \in 1..n |-> Resolved(q[i], place[q[i]])]
  BY <1>1, <1>3
<1>7. events' \in Seq(Event) /\ ResolvedSomewhere'
  <2>1. n \in Nat
    BY <1>2 DEF n
  <2>2. events' \in [1..n -> Event]
    BY <1>5, <1>6
  <2>3. events' \in Seq(Event)
    BY <2>1, <2>2, SeqDef
  <2>4. \A i \in DOMAIN events' : events'[i].address \in Address
    BY <1>5, <1>6 DEF Resolved
  <2> QED
    BY <2>3, <2>4 DEF ResolvedSomewhere
<1>8. UNCHANGED mapVars /\ TypeOK'
  BY <1>7 DEF BrowseStarts, TypeOK, mapVars, callVars
<1> QED
  BY <1>7, <1>8, WatchStays

(* A task that is started is the one of its device. *)
LEMMA StartedIs ==
  ASSUME TypeOK, NEW d \in Device, Start(d), TasksOf(d) = {}
  PROVE  /\ task' \in [Worker -> Task \union {FREE}]
         /\ \E w \in Worker : TasksOf(d)' = {w}
         /\ \A x \in Device : x # d => TasksOf(x)' = TasksOf(x)
<1>1. PICK w \in Worker : task[w] = FREE /\ task' = [task EXCEPT ![w] = Spawned(d)]
  BY DEF Start
<1>2. task \in [Worker -> Task \union {FREE}] /\ Spawned(d) \in Task
  BY DEF TypeOK, Spawned, Task
<1>3. task' \in [Worker -> Task \union {FREE}]
  BY <1>1, <1>2
<1>4. /\ \A v \in Worker : v # w => task'[v] = task[v]
      /\ task'[w].device = d /\ task'[w].at = "read" /\ task[w].device = LABEL
  BY <1>1, <1>2 DEF Spawned, FREE
<1>5. TasksOf(d)' = {w}
  BY <1>4 DEF TasksOf
<1>6. \A x \in Device : x # d => TasksOf(x)' = TasksOf(x)
  BY <1>4 DEF TasksOf
<1> QED
  BY <1>3, <1>5, <1>6

(* track_devices registers a device and spawns its worker. *)
LEMMA RegisterKeeps ==
  ASSUME LightsInv, Register
  PROVE  LightsInv'
<1> USE DEF LightsInv
<1>1. events # <<>> /\ events' = Tail(events) /\ Head(events).type = "resolved"
  BY DEF Register
<1>2. /\ events' \in Seq(Event) /\ ResolvedSomewhere'
      /\ Head(events).device \in Device /\ Head(events).address \in Address
  BY <1>1, EventsRead DEF Event
<1> PICK d \in Device, a \in Address : d = Head(events).device /\ a = Head(events).address
  BY <1>2
<1>3. devices' = [devices EXCEPT ![d].address = a] /\ Spawn(d)
  BY DEF Register
<1>4. /\ devices' \in [Device -> Entry \union {ABSENT}]
      /\ Known(d)' /\ \A x \in Device : x # d => devices'[x] = devices[x]
  <2>1. devices[d] = [address |-> devices[d].address, name |-> devices[d].name]
    BY <1>2 DEF TypeOK, Entry, ABSENT
  <2>2. devices'[d] = [address |-> a, name |-> devices[d].name]
    BY <1>2, <1>3, <2>1 DEF TypeOK
  <2>3. devices'[d] \in Entry /\ devices'[d] # ABSENT
    BY <1>2, <2>2, KnownIs DEF Entry, ABSENT
  <2>4. \A x \in Device : x # d => devices'[x] = devices[x]
    BY <1>2, <1>3 DEF TypeOK
  <2>5. DOMAIN devices' = Device /\ devices' = [x \in Device |-> devices'[x]]
    BY <1>3 DEF TypeOK
  <2>6. \A x \in Device : devices'[x] \in Entry \union {ABSENT}
    BY <2>3, <2>4 DEF TypeOK
  <2>7. Known(d)'
    BY <2>3 DEF Known
  <2> QED
    BY <2>4, <2>5, <2>6, <2>7
<1>5. /\ task' \in [Worker -> Task \union {FREE}]
      /\ \E w \in Worker : TasksOf(d)' = {w}
      /\ \A x \in Device : x # d => TasksOf(x)' = TasksOf(x)
  <2>1. CASE TasksOf(d) = {}
    <3>1. Start(d)
      BY <1>3, <2>1 DEF Spawn
    <3> QED
      BY <1>2, <2>1, <3>1, StartedIs DEF TasksOf
  <2>2. CASE TasksOf(d) # {}
    <3>1. task' = task
      BY <1>3, <2>2 DEF Spawn
    <3>2. \E w \in Worker : TasksOf(d) = {w}
      BY <1>2, <2>2 DEF Watched, Unwatched
    <3> QED
      BY <3>1, <3>2, TasksKept DEF TypeOK, TasksOf
  <2> QED
    BY <2>1, <2>2
<1>6. TypeOK'
  BY <1>2, <1>4, <1>5 DEF Register, TypeOK, netVars, callVars
<1>7. ASSUME NEW x \in Device PROVE Watched(x)' \/ Unwatched(x)'
  <2>1. CASE x = d
    BY <1>4, <1>5, <2>1 DEF Watched, Known, TasksOf
  <2>2. CASE x # d
    <3>1. devices'[x] = devices[x] /\ TasksOf(x)' = TasksOf(x)
      BY <1>4, <1>5, <2>2
    <3>2. Watched(x) \/ Unwatched(x)
      OBVIOUS
    <3> QED
      BY <3>1, <3>2 DEF Watched, Unwatched, Known
  <2> QED
    BY <2>1, <2>2
<1> QED
  BY <1>2, <1>6, <1>7

(* The entry goes, and all of its tasks with it. *)
LEMMA UnregisterKeeps ==
  ASSUME LightsInv, Unregister
  PROVE  LightsInv'
<1> USE DEF LightsInv
<1>1. events # <<>> /\ events' = Tail(events)
  BY DEF Unregister
<1>2. events' \in Seq(Event) /\ ResolvedSomewhere' /\ Head(events).device \in Device
  BY <1>1, EventsRead DEF Event
<1> PICK d \in Device : d = Head(events).device
  BY <1>2
<1>3. PICK polled \in BOOLEAN :
        task' = [w \in Worker |->
          IF w \notin TasksOf(d) THEN task[w]
          ELSE IF polled /\ task[w].at = "store" THEN [task[w] EXCEPT !.at = "last"] ELSE FREE]
  BY DEF Unregister
<1>4. devices' = [devices EXCEPT ![d] = ABSENT]
  BY DEF Unregister
<1>5. /\ devices' \in [Device -> Entry \union {ABSENT}]
      /\ ~Known(d)' /\ \A x \in Device : x # d => devices'[x] = devices[x]
  <2>1. /\ DOMAIN devices' = Device /\ devices' = [x \in Device |-> devices'[x]]
        /\ devices'[d] = ABSENT /\ \A x \in Device : x # d => devices'[x] = devices[x]
    BY <1>2, <1>4 DEF TypeOK
  <2>2. \A x \in Device : devices'[x] \in Entry \union {ABSENT}
    BY <2>1 DEF TypeOK
  <2>3. ~Known(d)'
    BY <2>1 DEF Known
  <2> QED
    BY <2>1, <2>2, <2>3
<1>6. ASSUME NEW w \in Worker
      PROVE  /\ task'[w] \in Task \union {FREE}
             /\ w \notin TasksOf(d) => task'[w] = task[w]
             /\ w \in TasksOf(d) => task'[w] = FREE \/ (task'[w].at = "last" /\ task'[w].device = d)
  <2>1. task[w] \in Task \union {FREE}
    BY DEF TypeOK
  <2>2. CASE w \notin TasksOf(d)
    BY <1>3, <2>1, <2>2
  <2>3. CASE w \in TasksOf(d) /\ ~(polled /\ task[w].at = "store")
    BY <1>3, <2>3
  <2>4. CASE w \in TasksOf(d) /\ task[w].at = "store" /\ polled
    <3>1. task[w] \in Task /\ task[w].device = d
      BY <2>1, <2>4 DEF FREE, TasksOf
    <3>2. task'[w] = [task[w] EXCEPT !.at = "last"]
      BY <1>3, <2>4
    <3> QED
      BY <2>4, <3>1, <3>2 DEF Task
  <2> QED
    BY <2>2, <2>3, <2>4
<1>7. task' \in [Worker -> Task \union {FREE}]
  BY <1>3, <1>6
<1>8. TasksOf(d)' = {}
  <2>1. ASSUME NEW w \in Worker PROVE w \notin TasksOf(d)'
    <3>1. CASE w \in TasksOf(d)
      BY <1>2, <1>6, <3>1 DEF TasksOf, FREE
    <3>2. CASE w \notin TasksOf(d)
      BY <1>6, <3>2 DEF TasksOf
    <3> QED
      BY <3>1, <3>2
  <2> QED
    BY <2>1 DEF TasksOf
<1>9. ASSUME NEW x \in Device, x # d PROVE TasksOf(x)' = TasksOf(x)
  <2>1. ASSUME NEW w \in Worker PROVE w \in TasksOf(x)' <=> w \in TasksOf(x)
    BY <1>6, <1>9 DEF TasksOf, FREE
  <2> QED
    BY <2>1 DEF TasksOf
<1>10. TypeOK'
  BY <1>2, <1>5, <1>7 DEF Unregister, TypeOK, netVars, callVars
<1>11. ASSUME NEW x \in Device PROVE Watched(x)' \/ Unwatched(x)'
  <2>1. CASE x = d
    BY <1>5, <1>8, <2>1 DEF Unwatched, Known, TasksOf
  <2>2. CASE x # d
    <3>1. devices'[x] = devices[x] /\ TasksOf(x)' = TasksOf(x)
      BY <1>5, <1>9, <2>2
    <3>2. Watched(x) \/ Unwatched(x)
      OBVIOUS
    <3> QED
      BY <3>1, <3>2 DEF Watched, Unwatched, Known
  <2> QED
    BY <2>1, <2>2
<1> QED
  BY <1>2, <1>10, <1>11

(* The rest of the tracker touches neither map nor tasks. *)
LEMMA TrackerKeeps ==
  ASSUME LightsInv, TrackerNext
  PROVE  LightsInv'
<1>1. CASE StartFails \/ BrowseEnds \/ BrowseAgain
  <2>1. UNCHANGED <<mapVars, events>>
    BY <1>1 DEF StartFails, BrowseEnds, BrowseAgain
  <2>2. TypeOK' /\ ResolvedSomewhere'
    BY <1>1, <2>1 DEF LightsInv, StartFails, BrowseEnds, BrowseAgain, TypeOK, ResolvedSomewhere,
       netVars, mapVars, callVars
  <2> QED
    BY <2>1, <2>2, WatchStays DEF LightsInv
<1> QED
  BY <1>1, BrowseKeeps, RegisterKeeps, UnregisterKeeps DEF TrackerNext

-----------------------------------------------------------------------------
(* A task that goes on keeps its device; a write names what is known. *)
LEMMA WorkerKeeps ==
  ASSUME LightsInv, NEW w \in Worker, WorkerNext(w)
  PROVE  LightsInv'
<1> USE DEF LightsInv
<1>1. task[w] \in Task /\ task \in [Worker -> Task \union {FREE}]
  BY DEF TypeOK, WorkerNext, WorkerReads, WorkerIsAnswered, WorkerFails, WorkerStores, WorkerWakes, FREE
<1>2. UNCHANGED <<netVars, events, tracker, callVars>> /\ ResolvedSomewhere'
  BY DEF WorkerNext, WorkerReads, WorkerIsAnswered, WorkerFails, WorkerStores, WorkerWakes, ResolvedSomewhere
<1>3. CASE WorkerReads(w) \/ WorkerIsAnswered(w) \/ WorkerFails(w) \/ WorkerWakes(w)
  <2>1. /\ task'[w] \in Task /\ task'[w].device = task[w].device
        /\ task[w].at # "last" /\ task'[w].at # "last"
        /\ \A v \in Worker : v # w => task'[v] = task[v]
        /\ DOMAIN task' = Worker /\ task' = [v \in Worker |-> task'[v]]
    <3>1. CASE WorkerReads(w)
      <4>1. devices[task[w].device].address \in Address \union {NOWHERE}
        BY <1>1, KnownIs DEF Task
      <4> QED
        BY <1>1, <3>1, <4>1 DEF WorkerReads, Task
    <3>2. CASE WorkerIsAnswered(w)
      <4>1. PICK d \in Device : task' = [task EXCEPT ![w].at = "store", ![w].name = d]
        BY <3>2 DEF WorkerIsAnswered
      <4> QED
        BY <1>1, <3>2, <4>1 DEF WorkerIsAnswered, Task
    <3>3. CASE WorkerFails(w)
      BY <1>1, <3>3 DEF WorkerFails, Task
    <3>4. CASE WorkerWakes(w)
      BY <1>1, <3>4 DEF WorkerWakes, Task
    <3> QED
      BY <1>3, <3>1, <3>2, <3>3, <3>4
  <2>2. task' \in [Worker -> Task \union {FREE}]
    BY <1>1, <2>1
  <2>3. \A d \in Device : TasksOf(d)' = TasksOf(d)
    BY <2>1, TasksKept
  <2>4. devices' = devices
    BY <1>3 DEF WorkerReads, WorkerIsAnswered, WorkerFails, WorkerWakes
  <2>5. TypeOK'
    BY <1>2, <2>2, <2>4 DEF TypeOK, netVars, callVars
  <2> QED
    BY <1>2, <2>3, <2>4, <2>5 DEF Watched, Unwatched, Known
<1>4. CASE WorkerStores(w)
  <2> DEFINE d == task[w].device
             n == task[w].name
  <2>1. d \in Device /\ n \in Device \union {LABEL}
    BY <1>1 DEF Task
  <2>2. /\ task'[w] \in Task \union {FREE}
        /\ \A v \in Worker : v # w => task'[v] = task[v]
        /\ DOMAIN task' = Worker /\ task' = [v \in Worker |-> task'[v]]
        /\ task[w].at = "last" => task'[w] = FREE
        /\ task[w].at # "last" => task'[w].at = "sleep" /\ task'[w].device = d
    BY <1>1, <1>4 DEF WorkerStores, Task
  <2>3. devices' = Named(d, n)
    BY <1>4 DEF WorkerStores
  <2> HIDE DEF d, n
  <2>4. /\ devices' \in [Device -> Entry \union {ABSENT}]
        /\ \A x \in Device : Known(x)' <=> Known(x)
    <3>1. CASE ~Known(d)
      <4>1. devices' = devices
        BY <2>3, <3>1 DEF Named
      <4> QED
        BY <4>1 DEF TypeOK, Known
    <3>2. CASE Known(d)
      <4>1. devices' = [devices EXCEPT ![d].name = n]
        BY <2>3, <3>2 DEF Named
      <4>2. devices[d] \in Entry
        BY <2>1, <3>2 DEF TypeOK, Known
      <4>3. devices'[d] \in Entry /\ \A x \in Device : x # d => devices'[x] = devices[x]
        BY <2>1, <4>1, <4>2 DEF TypeOK, Entry
      <4>4. devices'[d] # ABSENT
        BY <4>3 DEF Entry, ABSENT
      <4>5. DOMAIN devices' = Device /\ devices' = [x \in Device |-> devices'[x]]
        BY <4>1 DEF TypeOK
      <4> QED
        BY <3>2, <4>3, <4>4, <4>5 DEF TypeOK, Known
    <3> QED
      BY <3>1, <3>2
  <2>5. task' \in [Worker -> Task \union {FREE}]
    BY <1>1, <2>2
  <2>6. ASSUME NEW x \in Device PROVE TasksOf(x)' = TasksOf(x)
    <3>1. ASSUME NEW v \in Worker PROVE v \in TasksOf(x)' <=> v \in TasksOf(x)
      <4>1. CASE v # w
        BY <2>2, <4>1 DEF TasksOf
      <4>2. CASE v = w /\ task[w].at = "last"
        BY <2>2, <4>2 DEF TasksOf, FREE
      <4>3. CASE v = w /\ task[w].at # "last"
        BY <2>2, <4>3 DEF TasksOf, d
      <4> QED
        BY <4>1, <4>2, <4>3
    <3> QED
      BY <3>1 DEF TasksOf
  <2>7. TypeOK'
    BY <1>2, <2>4, <2>5 DEF TypeOK, netVars, callVars
  <2>8. ASSUME NEW x \in Device PROVE Watched(x)' \/ Unwatched(x)'
    <3>1. Watched(x) \/ Unwatched(x)
      OBVIOUS
    <3>2. Known(x)' <=> Known(x)
      BY <2>4
    <3> QED
      BY <2>6, <3>1, <3>2 DEF Watched, Unwatched
  <2> QED
    BY <1>2, <2>7, <2>8
<1> QED
  BY <1>3, <1>4 DEF WorkerNext

(* A tool call reads the map. *)
LEMMA CallKeeps ==
  ASSUME LightsInv, CallNext
  PROVE  LightsInv'
<1>1. UNCHANGED <<netVars, events, tracker, mapVars>>
  BY DEF CallNext, SetPosts, SetLooksUp
<1>2. call' \in Device \union {LABEL} /\ target' \in Address \union {NOWHERE}
  <2>1. CASE SetPosts
    BY <2>1 DEF SetPosts
  <2>2. ASSUME NEW d \in Device, SetLooksUp(d) PROVE call' \in Device \union {LABEL} /\ target' \in Address \union {NOWHERE}
    BY <2>2, KnownIs DEF SetLooksUp, LightsInv
  <2> QED
    BY <2>1, <2>2 DEF CallNext
<1>3. TypeOK' /\ ResolvedSomewhere'
  BY <1>1, <1>2 DEF LightsInv, TypeOK, ResolvedSomewhere, netVars, mapVars
<1> QED
  BY <1>1, <1>3, WatchStays DEF LightsInv

(* Every step keeps it. *)
LEMMA LightsStep == LightsInv /\ [Next]_vars => LightsInv'
<1> SUFFICES ASSUME LightsInv, [Next]_vars PROVE LightsInv'
  OBVIOUS
<1>1. CASE UNCHANGED vars
  <2>1. UNCHANGED <<mapVars, events>> /\ TypeOK' /\ ResolvedSomewhere'
    BY <1>1 DEF LightsInv, vars, netVars, mapVars, callVars, TypeOK, ResolvedSomewhere
  <2> QED
    BY <2>1, WatchStays DEF LightsInv
<1> QED
  BY <1>1, NetKeeps, TrackerKeeps, CallKeeps, WorkerKeeps DEF Next

-----------------------------------------------------------------------------
(* However often a device comes, moves, goes and comes back while its      *)
(* worker is in the middle of a request, it has one worker while it is in  *)
(* the map and none when it is not.                                        *)
THEOREM OneWorkerEachHolds == Spec => []OneWorkerEach
<1>1. LightsInv => OneWorkerEach
  <2> SUFFICES ASSUME LightsInv, NEW d \in Device
               PROVE  Cardinality(TasksOf(d)) = IF Known(d) THEN 1 ELSE 0
    BY DEF LightsInv, OneWorkerEach
  <2>1. CASE Watched(d)
    <3>1. PICK w \in Worker : TasksOf(d) = {w}
      BY <2>1 DEF Watched
    <3> QED
      BY <2>1, <3>1, FS_Singleton DEF Watched
  <2>2. CASE Unwatched(d)
    BY <2>2, FS_EmptySet DEF Unwatched
  <2> QED
    BY <2>1, <2>2 DEF LightsInv
<1>2. Spec => []LightsInv
  BY LightsInit, LightsStep, PTL DEF Spec
<1> QED
  BY <1>1, <1>2, PTL
=============================================================================
