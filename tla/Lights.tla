------------------------------- MODULE Lights -------------------------------
(***************************************************************************)
(* The smart lights, mcp-server/src/tools/lights: a tracker follows the    *)
(* mDNS announcements of the network and keeps the map of devices, one     *)
(* worker per device asks it for its name every minute, and the tool calls *)
(* look devices up (controller.rs, lights_info.rs, lights_set_color.rs).   *)
(* They share the map under a lock that nobody holds over an await; what   *)
(* they read from it may be out of date when they use it.                  *)
(*                                                                         *)
(* An address is answered by the device that has it at that moment, and an *)
(* address that one device gave up may be taken by another.  A device's    *)
(* own name is the device itself; LABEL stands for the one in its id.      *)
(***************************************************************************)
EXTENDS Naturals, FiniteSets, Sequences, SequencesExt

CONSTANTS Device, Address, NOWHERE, LABEL,
          Worker,      \* bound: tasks that exist at a time
          MaxChanges,  \* bound: how often the network changes
          MaxDeaths    \* bound: how often the mDNS daemon dies

ASSUME LightsAssumption ==
  /\ NOWHERE \notin Address /\ LABEL \notin Device
  /\ {MaxChanges, MaxDeaths} \subseteq Nat /\ IsFiniteSet(Device)

VARIABLES
  place,    \* the network: where each device is, or NOWHERE
  changes,  \* how often it has changed
  daemon,   \* the ServiceDaemon lives
  deaths,   \* how often it has died
  events,   \* what it has told and the tracker has not read
  missed,   \* history: devices that left, unseen, while no daemon lived
  tracker,  \* track_devices_worker: start, browse, sleep
  devices,  \* the map: id to address and name, NOWHERE for an absent one
  task,     \* refresh_device_info_worker: per task its device, step and url
  call,     \* lights_set_color: the device asked for and its url
  target

netVars  == <<place, changes, daemon, deaths, missed>>
mapVars  == <<devices, task>>
callVars == <<call, target>>
vars == <<netVars, events, tracker, mapVars, callVars>>

Event == [type : {"resolved", "removed"}, device : Device, address : Address \union {NOWHERE}]
Entry == [address : Address, name : Device \union {LABEL}]
ABSENT == [address |-> NOWHERE, name |-> LABEL]
Known(d) == devices[d] # ABSENT

(* A task that has ended, or was aborted and has yielded since, is FREE.  *)
FREE == [at |-> "free", device |-> LABEL, url |-> NOWHERE, name |-> LABEL]
Task == [at : {"read", "ask", "store", "sleep", "last"}, device : Device,
         url : Address \union {NOWHERE}, name : Device \union {LABEL}]

Init ==
  /\ place = [d \in Device |-> NOWHERE] /\ changes = 0
  /\ daemon = FALSE /\ deaths = 0 /\ missed = {}
  /\ events = <<>> /\ tracker = "start"
  /\ devices = [d \in Device |-> ABSENT]
  /\ task = [w \in Worker |-> FREE]
  /\ call = LABEL /\ target = NOWHERE

-----------------------------------------------------------------------------
(* The network and the mDNS daemon. *)

Resolved(d, a) == [type |-> "resolved", device |-> d, address |-> a]
Removed(d) == [type |-> "removed", device |-> d, address |-> NOWHERE]

Changes(d, a, event) ==
  /\ changes < MaxChanges /\ changes' = changes + 1
  /\ place' = [place EXCEPT ![d] = a]
  /\ events' = IF daemon THEN Append(events, event) ELSE events
  /\ UNCHANGED <<daemon, deaths, tracker, mapVars, callVars>>

(* A device comes or changes its address. *)
Appears(d, a) ==
  /\ \A other \in Device : place[other] # a
  /\ missed' = missed \ {d}
  /\ Changes(d, a, Resolved(d, a))

Leaves(d) ==
  /\ place[d] # NOWHERE
  /\ missed' = IF daemon THEN missed ELSE missed \union {d}
  /\ Changes(d, NOWHERE, Removed(d))

DaemonDies ==
  /\ daemon /\ deaths < MaxDeaths
  /\ daemon' = FALSE /\ deaths' = deaths + 1
  /\ UNCHANGED <<place, changes, missed, events, tracker, mapVars, callVars>>

-----------------------------------------------------------------------------
(* track_devices_worker, track_devices *)

(* A daemon is started, and tells first what is there. *)
BrowseStarts ==
  /\ tracker = "start"
  /\ tracker' = "browse" /\ daemon' = TRUE
  /\ events' \in {[i \in DOMAIN q |-> Resolved(q[i], place[q[i]])] :
                    q \in SetToSeqs({d \in Device : place[d] # NOWHERE})}
  /\ UNCHANGED <<place, changes, deaths, missed, mapVars, callVars>>

StartFails ==
  /\ tracker = "start" /\ deaths < MaxDeaths
  /\ tracker' = "sleep" /\ deaths' = deaths + 1
  /\ UNCHANGED <<place, changes, daemon, missed, events, mapVars, callVars>>

Spawned(d) == [at |-> "read", device |-> d, url |-> NOWHERE, name |-> LABEL]
TasksOf(d) == {w \in Worker : task[w].device = d /\ task[w].at # "last"}

(* The guard is the bound Worker: the code spawns as many as it likes. *)
Start(d) ==
  /\ \E w \in Worker : task[w] = FREE
  /\ LET w == CHOOSE w \in Worker : task[w] = FREE IN task' = [task EXCEPT ![w] = Spawned(d)]

(* Mutation of Spawn: every announcement starts a worker. *)
SpawnAlways(d) == Start(d)

(* A worker for the device, unless its JoinSet holds one. *)
Spawn(d) == IF TasksOf(d) = {} THEN Start(d) ELSE UNCHANGED task

(* Mutation of Register: a device that is known keeps its address. *)
RegisterNew ==
  /\ tracker = "browse" /\ events # <<>> /\ Head(events).type = "resolved"
  /\ LET d == Head(events).device IN
       /\ devices' = IF Known(d) THEN devices
                      ELSE [devices EXCEPT ![d].address = Head(events).address]
       /\ Spawn(d)
  /\ events' = Tail(events)
  /\ UNCHANGED <<netVars, tracker, callVars>>

Register ==
  /\ tracker = "browse" /\ events # <<>> /\ Head(events).type = "resolved"
  /\ LET d == Head(events).device IN
       /\ devices' = [devices EXCEPT ![d].address = Head(events).address]
       /\ Spawn(d)
  /\ events' = Tail(events)
  /\ UNCHANGED <<netVars, tracker, callVars>>

(* The entry goes, and its JoinSet aborts the worker.  One that is being   *)
(* polled just then with an answer in its hands goes on to its next await. *)
Unregister ==
  /\ tracker = "browse" /\ events # <<>> /\ Head(events).type = "removed"
  /\ LET d == Head(events).device IN
       /\ devices' = [devices EXCEPT ![d] = ABSENT]
       /\ \E polled \in BOOLEAN :
            task' = [w \in Worker |->
              IF w \notin TasksOf(d) THEN task[w]
              ELSE IF polled /\ task[w].at = "store" THEN [task[w] EXCEPT !.at = "last"]
              ELSE FREE]
  /\ events' = Tail(events)
  /\ UNCHANGED <<netVars, tracker, callVars>>

(* recv_async fails: no daemon, and nothing left that it told. *)
BrowseEnds ==
  /\ tracker = "browse" /\ events = <<>> /\ ~daemon
  /\ tracker' = "sleep"
  /\ UNCHANGED <<netVars, events, mapVars, callVars>>

(* Ten seconds later. *)
BrowseAgain ==
  /\ tracker = "sleep"
  /\ tracker' = "start"
  /\ UNCHANGED <<netVars, events, mapVars, callVars>>

-----------------------------------------------------------------------------
(* refresh_device_info_worker.  It finds its device each time: a worker    *)
(* whose entry is gone has been aborted.                                   *)

WorkerReads(w) ==
  /\ task[w].at = "read"
  /\ task' = [task EXCEPT ![w].at = "ask", ![w].url = devices[task[w].device].address]
  /\ UNCHANGED <<netVars, events, tracker, devices, callVars>>

(* Whoever has the address now answers with its name. *)
WorkerIsAnswered(w) ==
  /\ task[w].at = "ask"
  /\ \E d \in Device :
       /\ place[d] = task[w].url
       /\ task' = [task EXCEPT ![w].at = "store", ![w].name = d]
  /\ UNCHANGED <<netVars, events, tracker, devices, callVars>>

(* No answer in time, an error or one without a name. *)
WorkerFails(w) ==
  /\ task[w].at = "ask"
  /\ task' = [task EXCEPT ![w].at = "sleep"]
  /\ UNCHANGED <<netVars, events, tracker, devices, callVars>>

Named(d, name) == IF Known(d) THEN [devices EXCEPT ![d].name = name] ELSE devices

WorkerStores(w) ==
  /\ task[w].at \in {"store", "last"}
  /\ devices' = Named(task[w].device, task[w].name)
  /\ task' = [task EXCEPT ![w] = IF @.at = "last" THEN FREE
                                 ELSE [@ EXCEPT !.at = "sleep", !.name = LABEL]]
  /\ UNCHANGED <<netVars, events, tracker, callVars>>

(* Mutation of WorkerWakes: the url is read once, before the loop. *)
WorkerWakesAsking(w) ==
  /\ task[w].at = "sleep"
  /\ task' = [task EXCEPT ![w].at = "ask"]
  /\ UNCHANGED <<netVars, events, tracker, devices, callVars>>

WorkerWakes(w) ==
  /\ task[w].at = "sleep"
  /\ task' = [task EXCEPT ![w].at = "read", ![w].url = NOWHERE]
  /\ UNCHANGED <<netVars, events, tracker, devices, callVars>>

-----------------------------------------------------------------------------
(* LightsSetColorTool::handle: the lookup, and the request after it.  An   *)
(* id that is not in the map is an error, which changes nothing.           *)

SetLooksUp(d) ==
  /\ call = LABEL /\ Known(d)
  /\ call' = d /\ target' = devices[d].address
  /\ UNCHANGED <<netVars, events, tracker, mapVars>>

SetPosts ==
  /\ call # LABEL
  /\ call' = LABEL /\ target' = NOWHERE
  /\ UNCHANGED <<netVars, events, tracker, mapVars>>

-----------------------------------------------------------------------------
NetNext     == DaemonDies \/ \E d \in Device : Leaves(d) \/ \E a \in Address : Appears(d, a)
TrackerNext == BrowseStarts \/ StartFails \/ Register \/ Unregister \/ BrowseEnds \/ BrowseAgain
WorkerNext(w) == WorkerReads(w) \/ WorkerIsAnswered(w) \/ WorkerFails(w) \/ WorkerStores(w)
                   \/ WorkerWakes(w)
CallNext    == SetPosts \/ \E d \in Device : SetLooksUp(d)

Next == NetNext \/ TrackerNext \/ CallNext \/ \E w \in Worker : WorkerNext(w)

Spec == Init /\ [][Next]_vars

(* The tasks are polled and their pauses end, and a device that is there   *)
(* does not fail to answer forever.                                        *)
Fairness ==
  /\ WF_vars(TrackerNext) /\ WF_vars(SetPosts)
  /\ \A w \in Worker : WF_vars(WorkerNext(w)) /\ SF_vars(WorkerIsAnswered(w))

FairSpec == Spec /\ Fairness

-----------------------------------------------------------------------------
(* Every variable has its type. *)
TypeOK ==
  /\ place \in [Device -> Address \union {NOWHERE}]
  /\ changes \in 0..MaxChanges /\ deaths \in 0..MaxDeaths
  /\ daemon \in BOOLEAN /\ missed \subseteq Device
  /\ events \in Seq(Event) /\ tracker \in {"start", "browse", "sleep"}
  /\ devices \in [Device -> Entry \union {ABSENT}]
  /\ task \in [Worker -> Task \union {FREE}]
  /\ call \in Device \union {LABEL} /\ target \in Address \union {NOWHERE}

(* A device in the map has one worker and a device that was removed has    *)
(* none, however often it comes, moves, goes and comes back while its      *)
(* worker is in the middle of a request (controller.rs:172); and an entry  *)
(* always has an address.                                                  *)
OneWorkerEach ==
  /\ TypeOK
  /\ \A d \in Device : Cardinality(TasksOf(d)) = IF Known(d) THEN 1 ELSE 0

(* Once the network stays as it is, every device that is there is in the   *)
(* map for good, under its address and its own name: no answer that was    *)
(* given for an old address, or by another device, is left.  A device that *)
(* left is gone, unless it left while no daemon lived: then nobody ever    *)
(* says so (controller.rs:128).                                            *)
NetworkIsLearned ==
  \A d \in Device :
    <>[](IF place[d] # NOWHERE THEN devices[d] = [address |-> place[d], name |-> d]
         ELSE ~Known(d) \/ d \in missed)

(* A color that is set reaches the device that was asked for, once the     *)
(* network stays as it is; until then it may reach the device that took    *)
(* over its address between the lookup and the request.                    *)
ColorsFindTheirDevice ==
  \A d \in Device :
    <>[][SetPosts /\ call = d /\ place[d] # NOWHERE => target = place[d]]_vars
=============================================================================
