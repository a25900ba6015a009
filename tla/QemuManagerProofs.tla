------------------------- MODULE QemuManagerProofs -------------------------
(***************************************************************************)
(* Proofs about QemuManager: the mutex is where the code says it is, there *)
(* is one QEMU at a time, none is forgotten, and the working files are     *)
(* those of the one that runs.                                             *)
(***************************************************************************)
EXTENDS QemuManager, FiniteSetTheorems, TLAPS

USE ManagerAssumption

-----------------------------------------------------------------------------
(* The inductive invariant.  SingleQemu is not inductive: that spawning    *)
(* adds to no other process takes that none is forgotten, that the slot is *)
(* empty while a call works on an instance, and that only the holder of    *)
(* the mutex does.                                                         *)

Working == Ladder \union {"boot"}

(* Past its first step, the holder of the mutex has emptied the slot. *)
SlotEmptied ==
  \A c \in Call : step[c] \in LockedAt \ {"begin"} => slot = NO_INSTANCE

(* A call that works on an instance has one; one about to be spawned has   *)
(* its files already.                                                      *)
TargetKnown ==
  \A c \in Call :
    /\ step[c] \in Working \union {"spawn"} => target[c] \in Instance
    /\ step[c] = "spawn" => process[target[c]] = "none" /\ copies = target[c]

Safe == LockDiscipline /\ SlotEmptied /\ TargetKnown /\ NoLostQemu /\ FilesOfTheLiving

IInv == TypeOK /\ Safe

-----------------------------------------------------------------------------
(* What the invariant says of who is alive. *)

(* While a call holds the mutex past its first step, the only QEMU that    *)
(* may be alive is the one it works on.                                    *)
LEMMA OnlyTargetAlive ==
  ASSUME IInv, NEW c \in Call, step[c] \in LockedAt \ {"begin"}
  PROVE  \A i \in Alive : step[c] \in Working /\ i = target[c]
<1> SUFFICES ASSUME NEW i \in Alive
             PROVE  step[c] \in Working /\ i = target[c]
  OBVIOUS
<1>1. slot = NO_INSTANCE /\ lock = c /\ i \in Instance
  BY DEF IInv, Safe, SlotEmptied, LockDiscipline, Alive
<1>2. PICK d \in Call : target[d] = i /\ step[d] \in Working
  BY <1>1 DEF IInv, Safe, NoLostQemu, Handled, Working
<1>3. lock = d
  BY <1>2 DEF IInv, Safe, LockDiscipline, Working, LockedAt
<1> QED
  BY <1>1, <1>2, <1>3

(* Otherwise it is the one in the slot. *)
LEMMA OnlySlotAlive ==
  ASSUME IInv, \A c \in Call : step[c] \notin LockedAt \ {"begin"}
  PROVE  \A i \in Alive : i = slot
BY DEF IInv, Safe, NoLostQemu, Handled, Working, LockedAt, Ladder

(* One QEMU at a time, as a fact about any two. *)
LEMMA AtMostOne ==
  ASSUME IInv
  PROVE  \A i, j \in Alive : i = j
<1>1. CASE \E c \in Call : step[c] \in LockedAt \ {"begin"}
  BY <1>1, OnlyTargetAlive
<1>2. CASE \A c \in Call : step[c] \notin LockedAt \ {"begin"}
  BY <1>2, OnlySlotAlive
<1> QED
  BY <1>1, <1>2

(* One QEMU at a time, as the property counts it. *)
LEMMA SingleFromInvariant == IInv => SingleQemu
<1> SUFFICES ASSUME IInv PROVE Cardinality(Alive) <= 1
  BY DEF SingleQemu
<1>1. CASE Alive = {}
  BY <1>1, FS_EmptySet
<1>2. CASE Alive # {}
  <2>1. PICK i \in Alive : TRUE
    BY <1>2
  <2>2. Alive = {i}
    BY <2>1, AtMostOne
  <2>3. Cardinality({i}) = 1
    BY FS_Singleton
  <2> QED
    BY <2>2, <2>3
<1> QED
  BY <1>1, <1>2

-----------------------------------------------------------------------------
(* Nothing runs at first. *)
LEMMA InitInvariant == Init => IInv
<1> SUFFICES ASSUME Init PROVE IInv
  OBVIOUS
<1>1. TypeOK
  BY DEF Init, TypeOK
<1>2. Alive = {} /\ \A c \in Call : step[c] = "idle"
  BY DEF Init, Alive
<1>3. Safe
  BY <1>2 DEF Init, Safe, LockDiscipline, SlotEmptied, TargetKnown, NoLostQemu,
     FilesOfTheLiving, LockedAt, Ladder, Working
<1> QED
  BY <1>1, <1>3 DEF IInv

-----------------------------------------------------------------------------
(* Types *)

Steps == {"idle", "lock", "ping", "execute", "done"} \union LockedAt

Outcomes == {"none", "not accessible", "not running", "exited",
  "agent stopped answering", "executed", "stopped", "refused", "copy failed",
  "spawn failed", "started", "exited during boot", "boot failed"}

(* The types of the ways a call goes on. *)
LEMMA StepTypes ==
  ASSUME TypeOK, NEW c \in Call
  PROVE  /\ \A to \in Steps :
              step' = [step EXCEPT ![c] = to] => step' \in [Call -> Steps]
         /\ \A i \in Instance \union {NO_INSTANCE} :
              target' = [target EXCEPT ![c] = i]
                => target' \in [Call -> Instance \union {NO_INSTANCE}]
         /\ \A how \in Outcomes :
              outcome' = [outcome EXCEPT ![c] = how] => outcome' \in [Call -> Outcomes]
         /\ \A i : Reap(i) => process' \in [Instance -> {"none", "running", "exited", "reaped"}]
         /\ step[c] \in Steps /\ target[c] \in Instance \union {NO_INSTANCE}
<1>1. /\ step \in [Call -> Steps] /\ target \in [Call -> Instance \union {NO_INSTANCE}]
      /\ outcome \in [Call -> Outcomes]
      /\ process \in [Instance -> {"none", "running", "exited", "reaped"}]
  BY DEF TypeOK, Steps, Outcomes
<1>2. \A i : Reap(i) => process' \in [Instance -> {"none", "running", "exited", "reaped"}]
  BY <1>1 DEF Reap
<1> QED
  BY <1>1, <1>2

(* A call that returns leaves what it has typed. *)
LEMMA ReturnTypes ==
  ASSUME TypeOK, NEW c \in Call, NEW how \in Outcomes, Return(c, how)
  PROVE  /\ step' \in [Call -> Steps] /\ outcome' \in [Call -> Outcomes]
         /\ lock' \in Call \union {NO_CALL} /\ UNCHANGED <<tool, source, target>>
BY StepTypes DEF Return, Steps

(* A step of a call keeps the types. *)
LEMMA TypeStep ==
  ASSUME IInv, NEW c \in Call, CallNext(c)
  PROVE  TypeOK'
<1> USE StepTypes DEF IInv, TypeOK, Goto, Return, RemoveFiles, Steps, Outcomes
<1>1. CASE Begin(c)
  <2>1. /\ \E t \in {"start", "exec", "stop"} : tool' = [tool EXCEPT ![c] = t]
        /\ \E s \in {"image", "copy"} : source' = [source EXCEPT ![c] = s]
        /\ \/ step' = [step EXCEPT ![c] = "done"]
              /\ outcome' = [outcome EXCEPT ![c] = "not accessible"]
           \/ step' = [step EXCEPT ![c] = "lock"] /\ UNCHANGED outcome
        /\ UNCHANGED <<lock, slot, target, process, killed, copies>>
    BY <1>1 DEF Begin
  <2>2. step' \in [Call -> Steps] /\ outcome' \in [Call -> Outcomes]
    BY <2>1
  <2>3. tool' \in [Call -> {"start", "exec", "stop"}]
    BY <2>1
  <2>4. source' \in [Call -> {"image", "copy"}]
    BY <2>1
  <2> QED
    BY <2>1, <2>2, <2>3, <2>4
<1>2. CASE Acquire(c)
  BY <1>2 DEF Acquire, LockedAt
<1>3. CASE StopTakes(c)
  <2>1. CASE slot = NO_INSTANCE /\ Return(c, "not running") /\ UNCHANGED slot
    BY <1>3, <2>1 DEF StopTakes
  <2>2. CASE slot # NO_INSTANCE /\ Goto(c, "begin", "probe")
    BY <1>3, <2>2 DEF StopTakes, LockedAt, Ladder
  <2> QED
    BY <1>3, <2>1, <2>2 DEF StopTakes
<1>4. CASE StartTakes(c)
  BY <1>4 DEF StartTakes, LockedAt, Ladder
<1>5. CASE ExecTakes(c)
  <2>1. CASE Return(c, "not running") /\ UNCHANGED <<slot, process, copies>>
    BY <1>5, <2>1 DEF ExecTakes
  <2>2. CASE Reap(slot) /\ slot' = NO_INSTANCE /\ RemoveFiles /\ Return(c, "exited")
    BY <1>5, <2>2 DEF ExecTakes
  <2>3. CASE /\ step' = [step EXCEPT ![c] = "ping"]
             /\ target' = [target EXCEPT ![c] = slot]
             /\ lock' = NO_CALL
             /\ UNCHANGED <<slot, tool, source, outcome, process, copies>>
    BY <1>5, <2>3 DEF ExecTakes
  <2> QED
    BY <1>5, <2>1, <2>2, <2>3 DEF ExecTakes
<1>6. CASE ExecPing(c) \/ ExecReturns(c)
  BY <1>6 DEF ExecPing, ExecReturns
<1>7. CASE Prepare(c)
  BY <1>7 DEF Prepare, Fresh, LockedAt
<1>8. CASE Spawn(c)
  <2>1. process' = [process EXCEPT ![target[c]] = "running"] \/ UNCHANGED process
    BY <1>8 DEF Spawn
  <2>2. process' \in [Instance -> {"none", "running", "exited", "reaped"}]
    BY <2>1
  <2>3. step' \in [Call -> Steps] /\ outcome' \in [Call -> Outcomes]
    BY <1>8 DEF Spawn, LockedAt
  <2>4. lock' \in {lock, NO_CALL} /\ copies' \in {copies, NO_INSTANCE}
        /\ UNCHANGED <<slot, killed, tool, source, target>>
    BY <1>8 DEF Spawn
  <2> QED
    BY <2>2, <2>3, <2>4
<1>9. CASE Booted(c)
  <2>1. slot' = target[c] /\ Return(c, "started") /\ UNCHANGED <<process, killed, copies>>
    BY <1>9 DEF Booted
  <2> QED
    BY <2>1, ReturnTypes
<1>10. CASE BootExits(c)
  BY <1>10, ReturnTypes DEF BootExits
<1>11. CASE BootFails(c)
  <2>1. target[c] \in Instance
    BY <1>11 DEF BootFails, Safe, TargetKnown, Working
  <2> QED
    BY <1>11, <2>1, ReturnTypes DEF BootFails
<1>12. CASE Exited(c)
  BY <1>12 DEF Exited, ShutDown, LockedAt
<1>13. CASE StillRuns(c) \/ Ask(c) \/ PowerOffTimeout(c) \/ Terminate(c) \/ TermTimeout(c)
  BY <1>13 DEF StillRuns, Ask, PowerOffTimeout, Terminate, TermTimeout, Climb, LockedAt, Ladder
<1>14. CASE Kill(c)
  <2>1. target[c] \in Instance
    BY <1>14 DEF Kill, Safe, TargetKnown, Working, Ladder
  <2>2. step' \in [Call -> Steps]
    BY <1>14 DEF Kill, LockedAt, Ladder
  <2> QED
    BY <1>14, <2>1, <2>2 DEF Kill
<1> QED
  BY <1>1, <1>2, <1>3, <1>4, <1>5, <1>6, <1>7, <1>8, <1>9, <1>10, <1>11, <1>12, <1>13, <1>14
     DEF CallNext, StartNext, ExecNext, LadderNext

(* So does a process. *)
LEMMA TypeProcess ==
  ASSUME IInv, NEW i \in Instance, QemuExits(i) \/ OrphanReaped(i)
  PROVE  TypeOK'
BY DEF IInv, TypeOK, QemuExits, OrphanReaped, callVars, Reap, LockedAt

-----------------------------------------------------------------------------
(* Safety.  A step of the holder either returns or goes on to another      *)
(* position; in both cases it is enough to look at who is alive after it.  *)

(* Only one call is at a position of the mutex. *)
LEMMA OneHolder ==
  ASSUME IInv, NEW c \in Call, step[c] \in LockedAt
  PROVE  lock = c /\ \A d \in Call \ {c} : step[d] \notin LockedAt
BY DEF IInv, Safe, LockDiscipline

(* The holder lets the mutex go. *)
LEMMA ReleaseSafe ==
  ASSUME IInv, NEW c \in Call, step[c] \in LockedAt,
         NEW to \in {"done", "ping"}, step' = [step EXCEPT ![c] = to],
         lock' = NO_CALL,
         \A i \in Alive' : slot' = i /\ copies' = i
  PROVE  Safe'
<1>1. \A d \in Call : step'[d] \notin LockedAt
  BY OneHolder DEF IInv, TypeOK, LockedAt, Ladder
<1> QED
  BY <1>1 DEF Safe, LockDiscipline, SlotEmptied, TargetKnown, NoLostQemu,
     FilesOfTheLiving, Working, LockedAt

(* The holder goes on, with an empty slot. *)
LEMMA HoldSafe ==
  ASSUME IInv, NEW c \in Call, step[c] \in LockedAt,
         NEW to \in LockedAt \ {"begin"}, step' = [step EXCEPT ![c] = to],
         UNCHANGED lock, slot' = NO_INSTANCE,
         to \in Working \union {"spawn"} => target'[c] \in Instance,
         to = "spawn" => process'[target'[c]] = "none" /\ copies' = target'[c],
         \A i \in Alive' : to \in Working /\ target'[c] = i /\ copies' = i
  PROVE  Safe'
<1>1. step'[c] = to /\ \A d \in Call \ {c} : step'[d] = step[d] /\ step'[d] \notin LockedAt
  <2>1. step \in [Call -> Steps]
    BY StepTypes, Zenon DEF IInv, TypeOK, Steps
  <2>2. \A d \in Call \ {c} : step[d] \notin LockedAt
    BY OneHolder
  <2> QED
    BY <2>1, <2>2
<1>2. LockDiscipline'
  BY <1>1, OneHolder DEF LockDiscipline
<1>3. SlotEmptied'
  BY DEF SlotEmptied
<1>4. TargetKnown'
  BY <1>1 DEF TargetKnown, Working, LockedAt
<1>5. NoLostQemu' /\ FilesOfTheLiving'
  BY <1>1 DEF NoLostQemu, FilesOfTheLiving, Handled, Working
<1> QED
  BY <1>2, <1>3, <1>4, <1>5 DEF Safe

(* A step of a call that neither has the mutex nor touches what it guards. *)
LEMMA OutsideSafe ==
  ASSUME IInv, NEW c \in Call, Begin(c) \/ Acquire(c) \/ ExecPing(c) \/ ExecReturns(c)
  PROVE  Safe'
<1>1. PICK to \in {"done", "lock", "begin", "execute"} :
        /\ step' = [step EXCEPT ![c] = to]
        /\ to = "begin" => lock = NO_CALL /\ lock' = c
        /\ to # "begin" => UNCHANGED lock
  BY DEF Begin, Acquire, ExecPing, ExecReturns, Goto
<1>2. step[c] \notin LockedAt /\ UNCHANGED <<slot, target, process, killed, copies>>
  BY DEF Begin, Acquire, ExecPing, ExecReturns, Goto, LockedAt, Ladder
<1>3. step'[c] = to /\ \A d \in Call \ {c} : step'[d] = step[d]
  BY <1>1 DEF IInv, TypeOK
<1>4. Alive' = Alive
  BY <1>2 DEF Alive
<1>5. LockDiscipline'
  BY <1>1, <1>2, <1>3 DEF IInv, Safe, LockDiscipline, LockedAt, Ladder
<1>6. SlotEmptied' /\ TargetKnown'
  BY <1>2, <1>3 DEF IInv, Safe, SlotEmptied, TargetKnown, Working, LockedAt, Ladder
<1>7. NoLostQemu' /\ FilesOfTheLiving'
  BY <1>2, <1>3, <1>4 DEF IInv, Safe, NoLostQemu, FilesOfTheLiving, Handled, LockedAt
<1> QED
  BY <1>5, <1>6, <1>7 DEF Safe

(* The first step under the mutex, which looks into the slot. *)
LEMMA TakesSafe ==
  ASSUME IInv, NEW c \in Call, StopTakes(c) \/ StartTakes(c) \/ ExecTakes(c)
  PROVE  Safe'
<1>1. step[c] = "begin" /\ step[c] \in LockedAt
  BY DEF StopTakes, StartTakes, ExecTakes, Goto, LockedAt
<1>2. \A i \in Alive : i = slot /\ copies = i /\ slot \in Instance /\ process[i] = "running"
  <2>1. \A d \in Call : step[d] \notin LockedAt \ {"begin"}
    BY <1>1, OneHolder
  <2> QED
    BY <2>1, OnlySlotAlive DEF IInv, Safe, FilesOfTheLiving, Alive
<1>3. ASSUME slot = NO_INSTANCE PROVE Alive = {}
  BY <1>2, <1>3
<1>4. CASE StopTakes(c)
  <2>1. UNCHANGED <<process, killed, copies>> /\ Alive' = Alive
    BY <1>4 DEF StopTakes, Alive
  <2>2. CASE slot = NO_INSTANCE
    BY <1>1, <1>3, <1>4, <2>1, <2>2, ReleaseSafe DEF StopTakes, Return
  <2>3. CASE slot # NO_INSTANCE
    <3>1. /\ step' = [step EXCEPT ![c] = "probe"] /\ target'[c] = slot
          /\ slot' = NO_INSTANCE /\ UNCHANGED lock /\ slot \in Instance
      BY <1>4, <2>3 DEF StopTakes, Goto, IInv, TypeOK
    <3> QED
      BY <1>1, <1>2, <2>1, <3>1, HoldSafe DEF Working, LockedAt, Ladder
  <2> QED
    BY <2>2, <2>3
<1>5. CASE StartTakes(c)
  <2>1. /\ UNCHANGED <<lock, process, killed, copies>> /\ Alive' = Alive
        /\ target'[c] = slot /\ slot' = NO_INSTANCE
    BY <1>5 DEF StartTakes, Alive, IInv, TypeOK
  <2>2. CASE slot = NO_INSTANCE
    BY <1>1, <1>3, <1>5, <2>1, <2>2, HoldSafe DEF StartTakes, Goto, Working, LockedAt, Ladder
  <2>3. CASE slot # NO_INSTANCE
    <3>1. step' = [step EXCEPT ![c] = "probe"] /\ slot \in Instance
      BY <1>5, <2>3 DEF StartTakes, Goto, IInv, TypeOK
    <3> QED
      BY <1>1, <1>2, <2>1, <3>1, HoldSafe DEF Working, LockedAt, Ladder
  <2> QED
    BY <2>2, <2>3
<1>6. CASE ExecTakes(c)
  <2>1. PICK to \in {"done", "ping"} : step' = [step EXCEPT ![c] = to] /\ lock' = NO_CALL
    BY <1>6 DEF ExecTakes, Return
  <2>2. CASE slot = NO_INSTANCE
    <3>1. Alive' = Alive
      BY <1>6, <2>2 DEF ExecTakes, Reap, Alive
    <3> QED
      BY <1>1, <1>3, <2>1, <2>2, <3>1, ReleaseSafe
  <2>3. CASE slot # NO_INSTANCE /\ Reap(slot)
    <3>1. Alive' \subseteq Alive \ {slot}
      BY <1>6, <2>3 DEF ExecTakes, Reap, Alive, IInv, TypeOK
    <3>2. Alive' = {}
      BY <1>2, <3>1
    <3> QED
      BY <1>1, <2>1, <3>2, ReleaseSafe
  <2>4. CASE UNCHANGED <<slot, process, copies>>
    <3>1. Alive' = Alive
      BY <1>6, <2>4 DEF ExecTakes, Alive
    <3> QED
      BY <1>1, <1>2, <2>1, <2>4, <3>1, ReleaseSafe
  <2> QED
    BY <1>6, <2>2, <2>3, <2>4 DEF ExecTakes
<1> QED
  BY <1>4, <1>5, <1>6

(* The steps of the shutdown ladder that wait for nothing or in vain. *)
LEMMA ClimbSafe ==
  ASSUME IInv, NEW c \in Call,
         StillRuns(c) \/ Ask(c) \/ PowerOffTimeout(c) \/ Terminate(c)
           \/ TermTimeout(c) \/ Kill(c)
  PROVE  Safe'
<1>1. PICK to \in Ladder : step[c] \in Ladder /\ step' = [step EXCEPT ![c] = to]
  BY DEF StillRuns, Ask, PowerOffTimeout, Terminate, TermTimeout, Kill, Climb, Goto, Ladder
<1>2. /\ UNCHANGED <<lock, slot, target, process, copies>>
      /\ killed \subseteq killed'
  BY DEF StillRuns, Ask, PowerOffTimeout, Terminate, TermTimeout, Kill, Climb
<1>3. Alive' \subseteq Alive
  BY <1>2 DEF Alive
<1>4. step[c] \in LockedAt \ {"begin"} /\ to \in Working /\ to \in LockedAt \ {"begin", "spawn"}
  BY <1>1 DEF Working, LockedAt, Ladder
<1>5. target[c] \in Instance /\ slot = NO_INSTANCE
  BY <1>1, <1>4 DEF IInv, Safe, TargetKnown, SlotEmptied, Working
<1>6. \A i \in Alive' : i = target[c] /\ copies = i
  BY <1>3, <1>4, OnlyTargetAlive DEF IInv, Safe, FilesOfTheLiving
<1> QED
  BY <1>1, <1>2, <1>4, <1>5, <1>6, HoldSafe

(* A QEMU that is reaped or killed by the holder leaves none alive. *)
LEMMA TargetGone ==
  ASSUME IInv, NEW c \in Call, step[c] \in Working,
         \/ Reap(target[c]) /\ UNCHANGED killed
         \/ killed' = killed \union {target[c]} /\ UNCHANGED process
  PROVE  Alive' = {}
<1>1. target[c] \in Instance /\ step[c] \in LockedAt \ {"begin"}
  BY DEF IInv, Safe, TargetKnown, Working, LockedAt, Ladder
<1>2. CASE Reap(target[c]) /\ UNCHANGED killed
  <2>1. process \in [Instance -> {"none", "running", "exited", "reaped"}]
    BY DEF IInv, TypeOK
  <2>2. /\ process'[target[c]] = "reaped"
        /\ \A i \in Instance \ {target[c]} : process'[i] = process[i]
    BY <1>1, <1>2, <2>1 DEF Reap
  <2>3. Alive' \subseteq Alive \ {target[c]}
    BY <1>2, <2>2 DEF Alive
  <2> QED
    BY <1>1, <2>3, OnlyTargetAlive
<1>3. CASE killed' = killed \union {target[c]} /\ UNCHANGED process
  <2>1. Alive' \subseteq Alive \ {target[c]}
    BY <1>3 DEF Alive
  <2> QED
    BY <1>1, <2>1, OnlyTargetAlive
<1> QED
  BY <1>2, <1>3

(* The end of the ladder: a stop returns, a start goes on. *)
LEMMA ExitedSafe ==
  ASSUME IInv, NEW c \in Call, Exited(c)
  PROVE  Safe'
<1>1. step[c] \in Working /\ step[c] \in LockedAt \ {"begin"}
  BY DEF Exited, Working, Ladder, LockedAt
<1>2. slot = NO_INSTANCE /\ slot' = NO_INSTANCE
  BY <1>1 DEF IInv, Safe, SlotEmptied, Exited, ShutDown
<1>3. Alive' = {}
  BY <1>1, TargetGone DEF Exited, ShutDown
<1>4. CASE tool[c] = "stop" /\ Return(c, "stopped")
  BY <1>1, <1>3, <1>4, ReleaseSafe DEF Return
<1>5. CASE step' = [step EXCEPT ![c] = "prepare"] /\ UNCHANGED lock
  BY <1>1, <1>2, <1>3, <1>5, HoldSafe DEF Working, LockedAt, Ladder
<1> QED
  BY <1>4, <1>5 DEF Exited, ShutDown

(* A start, from the files to the boot. *)
LEMMA StartSafe ==
  ASSUME IInv, NEW c \in Call,
         Prepare(c) \/ Spawn(c) \/ Booted(c) \/ BootExits(c) \/ BootFails(c)
  PROVE  Safe'
<1>1. step[c] \in {"prepare", "spawn", "boot"} /\ step[c] \in LockedAt \ {"begin"}
  BY DEF Prepare, Spawn, Booted, BootExits, BootFails, Goto, LockedAt
<1>2. slot = NO_INSTANCE
  BY <1>1 DEF IInv, Safe, SlotEmptied
<1>3. \A i \in Alive : step[c] = "boot" /\ i = target[c] /\ copies = i
  BY <1>1, OnlyTargetAlive DEF Working, Ladder, IInv, Safe, FilesOfTheLiving
<1>4. CASE Prepare(c)
  <2>1. Alive' = {}
    BY <1>3, <1>4 DEF Prepare, Alive
  <2>2. CASE step' = [step EXCEPT ![c] = "done"] /\ lock' = NO_CALL
    BY <1>1, <2>1, <2>2, ReleaseSafe
  <2>3. CASE /\ \E i \in Fresh : copies' = i /\ target' = [target EXCEPT ![c] = i]
             /\ Goto(c, "prepare", "spawn")
             /\ UNCHANGED lock
    <3>1. /\ target'[c] \in Instance /\ process'[target'[c]] = "none"
          /\ copies' = target'[c] /\ slot' = NO_INSTANCE
      BY <1>2, <1>4, <2>3 DEF Prepare, Fresh, IInv, TypeOK
    <3> QED
      BY <1>1, <2>1, <2>3, <3>1, HoldSafe DEF Goto, LockedAt
  <2> QED
    BY <1>4, <2>2, <2>3 DEF Prepare, Return
<1>5. CASE Spawn(c)
  <2>1. CASE step' = [step EXCEPT ![c] = "done"] /\ lock' = NO_CALL /\ UNCHANGED process
    <3>1. Alive' = {}
      BY <1>3, <1>5, <2>1 DEF Spawn, Alive
    <3> QED
      BY <1>1, <2>1, <3>1, ReleaseSafe
  <2>2. CASE /\ process' = [process EXCEPT ![target[c]] = "running"]
             /\ Goto(c, "spawn", "boot")
             /\ UNCHANGED <<lock, target, copies>>
    <3>1. target[c] \in Instance /\ copies = target[c]
      BY <2>2 DEF Goto, IInv, Safe, TargetKnown
    <3>2. Alive = {}
      BY <1>3, <2>2 DEF Goto
    <3>3. \A i \in Alive' : i = target[c]
      BY <1>5, <2>2, <3>2 DEF Spawn, Alive, IInv, TypeOK
    <3> QED
      BY <1>1, <1>2, <1>5, <2>2, <3>1, <3>3, HoldSafe DEF Spawn, Goto, Working, LockedAt
  <2> QED
    BY <1>5, <2>1, <2>2 DEF Spawn, Return
<1>6. CASE Booted(c)
  <2>1. Alive' = Alive /\ slot' = target[c] /\ UNCHANGED copies
    BY <1>6 DEF Booted, Alive
  <2> QED
    BY <1>1, <1>3, <1>6, <2>1, ReleaseSafe DEF Booted, Return
<1>7. CASE BootExits(c) \/ BootFails(c)
  <2>1. step[c] \in Working
    BY <1>7 DEF BootExits, BootFails, Working
  <2>2. Alive' = {}
    BY <1>7, <2>1, TargetGone DEF BootExits, BootFails
  <2> QED
    BY <1>1, <1>7, <2>2, ReleaseSafe DEF BootExits, BootFails, Return
<1> QED
  BY <1>4, <1>5, <1>6, <1>7

(* A process that exits or is reaped by the runtime. *)
LEMMA ProcessSafe ==
  ASSUME IInv, NEW i \in Instance, QemuExits(i) \/ OrphanReaped(i)
  PROVE  Safe'
<1>1. UNCHANGED <<lock, slot, step, target, killed, copies>>
  BY DEF QemuExits, OrphanReaped, callVars
<1>2. /\ process[i] # "none" /\ process'[i] # "running"
      /\ \A j \in Instance \ {i} : process'[j] = process[j]
  BY DEF QemuExits, OrphanReaped, Reap, IInv, TypeOK
<1>3. Alive' \subseteq Alive
  BY <1>1, <1>2 DEF Alive
<1>4. TargetKnown'
  BY <1>1, <1>2 DEF IInv, Safe, TargetKnown
<1> QED
  BY <1>1, <1>3, <1>4 DEF IInv, Safe, LockDiscipline, SlotEmptied, NoLostQemu,
     FilesOfTheLiving, Handled

-----------------------------------------------------------------------------
(* Every step preserves the invariant. *)
LEMMA StepInvariant == IInv /\ [Next]_vars => IInv'
<1> SUFFICES ASSUME IInv, [Next]_vars PROVE IInv'
  OBVIOUS
<1>1. ASSUME NEW c \in Call, CallNext(c) PROVE IInv'
  <2>1. Safe'
    BY <1>1, OutsideSafe, TakesSafe, StartSafe, ClimbSafe, ExitedSafe
       DEF CallNext, StartNext, ExecNext, LadderNext
  <2> QED
    BY <1>1, <2>1, TypeStep DEF IInv
<1>2. ASSUME NEW i \in Instance, QemuExits(i) \/ OrphanReaped(i) PROVE IInv'
  BY <1>2, TypeProcess, ProcessSafe DEF IInv
<1>3. CASE UNCHANGED vars
  BY <1>3 DEF vars, callVars, IInv, TypeOK, Safe, LockDiscipline, SlotEmptied,
     TargetKnown, NoLostQemu, FilesOfTheLiving, Alive, Handled
<1> QED
  BY <1>1, <1>2, <1>3 DEF Next

(* The invariant holds throughout every behaviour. *)
LEMMA Invariance == Spec => []IInv
BY InitInvariant, StepInvariant, PTL DEF Spec

(* Every variable keeps its type: a call that works on an instance has one *)
(* to work on, whatever came before.                                       *)
THEOREM TypeCorrect == Spec => []TypeOK
<1>1. IInv => TypeOK
  BY DEF IInv
<1> QED
  BY <1>1, Invariance, PTL

(* The mutex is held by exactly the call that is between its lock() and    *)
(* the drop of the guard (start, exec and stop of RdkQemuManager).         *)
THEOREM LockDisciplineHolds == Spec => []LockDiscipline
<1>1. IInv => LockDiscipline
  BY DEF IInv, Safe
<1> QED
  BY <1>1, Invariance, PTL

(* However many calls start, stop and execute at once, and whatever fails  *)
(* on the way, there is never a second QEMU that was not told to die.      *)
THEOREM SingleQemuHolds == Spec => []SingleQemu
BY SingleFromInvariant, Invariance, PTL

(* A QEMU that runs is in the slot, or a call is booting it or shutting it *)
(* down: a boot that fails and a start that replaces lose none.            *)
THEOREM NoLostQemuHolds == Spec => []NoLostQemu
<1>1. IInv => NoLostQemu
  BY DEF IInv, Safe
<1> QED
  BY <1>1, Invariance, PTL

(* The working files in the folder are those of the QEMU that runs: no     *)
(* Drop for RdkQemuFiles comes late enough to remove another's.            *)
THEOREM FilesOfTheLivingHolds == Spec => []FilesOfTheLiving
<1>1. IInv => FilesOfTheLiving
  BY DEF IInv, Safe
<1> QED
  BY <1>1, Invariance, PTL

(* A call leaves the ladder of shutdown only through Exited, and there its *)
(* target has just been reaped.                                            *)
LEMMA LadderLeft ==
  ASSUME IInv, NEW d \in Call, CallNext(d), NEW c \in Call,
         step[c] \in Ladder, step'[c] \notin Ladder
  PROVE  process'[target[c]] = "reaped"
<1>1. \E to : step' = [step EXCEPT ![d] = to]
  <2>1. CASE Begin(d) \/ Acquire(d) \/ StopTakes(d) \/ StartTakes(d)
    BY <2>1 DEF Begin, Acquire, StopTakes, StartTakes, Goto, Return
  <2>2. CASE Prepare(d) \/ Spawn(d) \/ Booted(d) \/ BootExits(d) \/ BootFails(d)
    BY <2>2 DEF Prepare, Spawn, Booted, BootExits, BootFails, Goto, Return
  <2>3. CASE ExecNext(d)
    BY <2>3 DEF ExecNext, ExecTakes, ExecPing, ExecReturns, Goto, Return
  <2>4. CASE Exited(d) \/ Kill(d)
    BY <2>4 DEF Exited, ShutDown, Kill, Goto, Return
  <2>5. CASE StillRuns(d) \/ Ask(d) \/ PowerOffTimeout(d) \/ Terminate(d) \/ TermTimeout(d)
    BY <2>5 DEF StillRuns, Ask, PowerOffTimeout, Terminate, TermTimeout, Climb, Goto
  <2> QED
    BY <2>1, <2>2, <2>3, <2>4, <2>5 DEF CallNext, StartNext, LadderNext
<1>2. d = c
  BY <1>1 DEF IInv, TypeOK
<1>3. Exited(c)
  <2>1. ~(Begin(c) \/ Acquire(c) \/ StopTakes(c) \/ StartTakes(c) \/ Prepare(c)
            \/ Spawn(c) \/ Booted(c) \/ BootExits(c) \/ BootFails(c) \/ ExecNext(c))
    BY DEF Begin, Acquire, StopTakes, StartTakes, Prepare, Spawn, Booted, BootExits,
       BootFails, ExecNext, ExecTakes, ExecPing, ExecReturns, Goto, Ladder
  <2>2. ~(StillRuns(c) \/ Ask(c) \/ PowerOffTimeout(c) \/ Terminate(c) \/ TermTimeout(c)
            \/ Kill(c))
    BY DEF StillRuns, Ask, PowerOffTimeout, Terminate, TermTimeout, Kill, Climb, Goto,
       Ladder, IInv, TypeOK
  <2> QED
    BY <1>2, <2>1, <2>2 DEF CallNext, StartNext, LadderNext
<1>4. target[c] \in Instance
  BY DEF IInv, Safe, TargetKnown, Working
<1> QED
  BY <1>3, <1>4 DEF Exited, Reap, IInv, TypeOK

(* When shutdown of RdkQemuInstance returns, its QEMU is gone and reaped,  *)
(* however many rungs of the ladder it took and whatever else goes on.     *)
THEOREM StopMeansGoneHolds == Spec => StopMeansGone
<1> DEFINE Gone == \A c \in Call : step[c] \in Ladder /\ step'[c] \notin Ladder
                     => process'[target[c]] = "reaped"
<1>1. ASSUME IInv, [Next]_vars, NEW c \in Call, step[c] \in Ladder, step'[c] \notin Ladder
      PROVE  process'[target[c]] = "reaped"
  <2>1. ~UNCHANGED vars /\ ~\E i \in Instance : QemuExits(i) \/ OrphanReaped(i)
    BY <1>1 DEF vars, callVars, QemuExits, OrphanReaped
  <2>2. PICK d \in Call : CallNext(d)
    BY <1>1, <2>1 DEF Next
  <2> QED
    BY <1>1, <2>2, LadderLeft
<1>2. IInv /\ [Next]_vars => [Gone]_vars
  BY <1>1
<1> QED
  BY <1>2, Invariance, PTL DEF Spec, StopMeansGone
=============================================================================
