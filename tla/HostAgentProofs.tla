-------------------------- MODULE HostAgentProofs --------------------------
(***************************************************************************)
(* Proofs about HostAgent: a registration goes with its call, nobody waits *)
(* for a pump that has ended, a call that returns leaves no command        *)
(* running in the guest, and one that reports an end has all the output.   *)
(***************************************************************************)
EXTENDS HostAgent, FiniteSetTheorems, TLAPS

USE HostAssumption

-----------------------------------------------------------------------------
(* How often a value stands in a queue, and what putting one in at the end *)
(* and taking the first one out do to that.                                *)

(* The places of e in the queue q, and how many there are. *)
Places(q, e) == {i \in DOMAIN q : q[i] = e}
Count(q, e) == Cardinality(Places(q, e))

(* A queue holds a value finitely often. *)
LEMMA PlacesFinite ==
  ASSUME NEW S, NEW q \in Seq(S), NEW e
  PROVE  IsFiniteSet(Places(q, e)) /\ Count(q, e) \in Nat
<1>1. IsFiniteSet(1..Len(q))
  BY FS_Interval
<1>2. Places(q, e) \in SUBSET (1..Len(q))
  BY DEF Places
<1>3. IsFiniteSet(Places(q, e))
  BY <1>1, <1>2, FS_Subset
<1> QED
  BY <1>3, FS_CardinalityType DEF Count

(* An empty queue holds nothing. *)
LEMMA CountEmpty ==
  ASSUME NEW e
  PROVE  Count(<<>>, e) = 0
<1>1. Places(<<>>, e) = {}
  BY DEF Places
<1> QED
  BY <1>1, FS_EmptySet DEF Count

(* One more of what is put in, as many as before of anything else. *)
LEMMA CountAppend ==
  ASSUME NEW S, NEW q \in Seq(S), NEW x \in S, NEW e
  PROVE  IF x = e THEN Count(Append(q, x), e) = Count(q, e) + 1
                  ELSE Count(Append(q, x), e) = Count(q, e)
<1> DEFINE t == Append(q, x)
<1> SUFFICES IF x = e THEN Count(t, e) = Count(q, e) + 1
                      ELSE Count(t, e) = Count(q, e)
  OBVIOUS
<1>1. /\ Len(q) \in Nat /\ DOMAIN q = 1..Len(q) /\ DOMAIN t = 1..(Len(q) + 1)
      /\ \A i \in 1..Len(q) : t[i] = q[i]
      /\ t[Len(q) + 1] = x
  OBVIOUS
<1> HIDE DEF t
<1>2. IsFiniteSet(Places(q, e)) /\ Len(q) + 1 \notin Places(q, e)
  <2>1. IsFiniteSet(Places(q, e))
    BY PlacesFinite
  <2>2. Len(q) + 1 \notin 1..Len(q)
    BY <1>1
  <2>3. Places(q, e) \subseteq 1..Len(q)
    BY <1>1 DEF Places
  <2> QED
    BY <2>1, <2>2, <2>3
<1>3. CASE x = e
  <2>1. Places(t, e) = Places(q, e) \union {Len(q) + 1}
    BY <1>1, <1>3 DEF Places
  <2> QED
    BY <1>2, <1>3, <2>1, FS_AddElement DEF Count
<1>4. CASE x # e
  <2>1. Places(t, e) = Places(q, e)
    BY <1>1, <1>4 DEF Places
  <2> QED
    BY <1>4, <2>1 DEF Count
<1> QED
  BY <1>3, <1>4

(* One less of what is taken out. *)
LEMMA CountTail ==
  ASSUME NEW S, NEW q \in Seq(S), q # <<>>, NEW e
  PROVE  Count(q, e) = IF Head(q) = e THEN Count(Tail(q), e) + 1 ELSE Count(Tail(q), e)
<1> DEFINE t == Tail(q)
           P == Places(t, e)
           Q == Places(q, e) \ {1}
           f == [i \in P |-> i + 1]
<1>1. /\ Len(q) \in Nat \ {0} /\ DOMAIN q = 1..Len(q) /\ DOMAIN t = 1..(Len(q) - 1)
      /\ \A i \in 1..(Len(q) - 1) : t[i] = q[i + 1]
      /\ Head(q) = q[1] /\ t \in Seq(S)
  OBVIOUS
<1> HIDE DEF t
<1>2. IsFiniteSet(P) /\ IsFiniteSet(Places(q, e))
  BY <1>1, PlacesFinite
<1>3. \A i \in P : i \in Nat /\ i + 1 \in Q
  BY <1>1 DEF Places
<1>4. \A j \in Q : j - 1 \in P /\ (j - 1) + 1 = j
  BY <1>1 DEF Places
<1> HIDE DEF P, Q
<1>5. f \in [P -> Q] /\ \A i \in P : f[i] = i + 1
  BY <1>3
<1>6. \A i, j \in P : f[i] = f[j] => i = j
  BY <1>3, <1>5
<1>7. \A j \in Q : \E i \in P : f[i] = j
  BY <1>4, <1>5
<1> HIDE DEF f
<1>8. f \in Bijection(P, Q)
  BY <1>5, <1>6, <1>7 DEF Bijection, Injection, Surjection, IsInjective
<1>9. Cardinality(Q) = Cardinality(P) /\ IsFiniteSet(Q)
  BY <1>2, <1>8, FS_Bijection DEF ExistsBijection
<1>10. CASE Head(q) = e
  <2>1. Places(q, e) = Q \union {1} /\ 1 \notin Q
    BY <1>1, <1>10 DEF Places, Q
  <2> QED
    BY <1>9, <1>10, <2>1, FS_AddElement DEF Count, P, t
<1>11. CASE Head(q) # e
  <2>1. Places(q, e) = Q
    BY <1>1, <1>11 DEF Places, Q
  <2> QED
    BY <1>9, <1>11, <2>1 DEF Count, P, t
<1> QED
  BY <1>10, <1>11

-----------------------------------------------------------------------------
(* The inductive invariant, in two parts. *)

Positions == {"idle", "lock", "write", "wait", "notify", "cancel", "kill", "done"}
Kinds == {"none", "Pong", "Started", "Refused", "Output", "Finished", "Killed"}

Requests == [call : Call, type : {"Ping", "Exec", "Kill"}]
Answers  == [id : Call \union {NO_CALL}, type : Kinds]

(* As much of the types as the proofs need. *)
Shape ==
  /\ pc \in [Call -> Positions]
  /\ op \in [Call -> {"Ping", "Exec"}]
  /\ guest \in [Call -> {"none", "running", "dying", "over"}]
  /\ queue \in [Call -> Seq(Kinds)]
  /\ pending \subseteq Call
  /\ toGuest \in Seq(Requests)
  /\ toHost \in Seq(Answers)
  /\ parcel \in Answers

(* While QEMU is up, a call under way is registered, and the pump ends     *)
(* only once QEMU is gone.                                                 *)
Registered ==
  /\ link = "up" => \A k \in Call : pc[k] \notin {"idle", "done"} => k \in pending
  /\ pump = "done" => link = "down"

RegInv == Registered /\ NoPendingLeak /\ NoDeafWaiter

(* An event that makes an execution return is on its way to it. *)
EndOnWay(k) ==
  \/ \E i \in DOMAIN queue[k] : queue[k][i] \in {"Finished", "Refused"}
  \/ \E i \in DOMAIN toHost : toHost[i].id = k /\ toHost[i].type \in {"Finished", "Refused"}
  \/ parcel.id = k /\ parcel.type \in {"Finished", "Refused"}

(* Such an event tells the truth. *)
EndIsTrue == \A k \in Call : EndOnWay(k) => guest[k] = "over"

Early == {"idle", "lock", "write"}

(* A command is asked for once, by an execution past its write, and it is  *)
(* not there before the request is taken; a kill is a call's last word.    *)
AskedOnce ==
  /\ \A k \in Call : guest[k] # "none" => op[k] = "Exec" /\ pc[k] \notin Early
  /\ \A i \in DOMAIN toGuest :
       LET k == toGuest[i].call
       IN /\ toGuest[i].type = "Exec" =>
               /\ guest[k] = "none" /\ op[k] = "Exec" /\ pc[k] \notin Early
               /\ \A j \in DOMAIN toGuest : toGuest[j] = toGuest[i] => j = i
          /\ toGuest[i].type = "Kill" => pc[k] = "done"

CommandInv == EndIsTrue /\ AskedOnce /\ NoRunawayCommand

IInv == Shape /\ RegInv /\ CommandInv

-----------------------------------------------------------------------------
(* Nothing is under way at first. *)
LEMMA InitInvariant == Init => IInv
<1> SUFFICES ASSUME Init PROVE IInv
  OBVIOUS
<1>1. Shape
  BY DEF Init, Shape, Positions, Kinds, Answer, Answers
<1>2. RegInv
  BY DEF Init, RegInv, Registered, NoPendingLeak, NoDeafWaiter
<1>3. EndIsTrue
  BY DEF Init, EndIsTrue, EndOnWay, Answer
<1>4. AskedOnce /\ NoRunawayCommand
  BY DEF Init, AskedOnce, NoRunawayCommand
<1> QED
  BY <1>1, <1>2, <1>3, <1>4 DEF IInv, CommandInv

-----------------------------------------------------------------------------
(* Shape *)

(* A call that goes on or returns stays within the types. *)
LEMMA MoveShape ==
  ASSUME Shape, NEW k \in Call
  PROVE  /\ \A from, to : to \in Positions /\ Goto(k, from, to) => pc' \in [Call -> Positions]
         /\ \A from, how : Return(k, from, how) =>
              /\ pc' \in [Call -> Positions] /\ queue' \in [Call -> Seq(Kinds)]
              /\ pending' \subseteq Call /\ UNCHANGED op
<1>1. \A from, to : to \in Positions /\ Goto(k, from, to) => pc' \in [Call -> Positions]
  BY DEF Shape, Goto
<1>2. ASSUME NEW from, NEW how, Return(k, from, how)
      PROVE  /\ pc' \in [Call -> Positions] /\ queue' \in [Call -> Seq(Kinds)]
             /\ pending' \subseteq Call /\ UNCHANGED op
  <2>1. pc' \in [Call -> Positions]
    BY <1>1, <1>2 DEF Return, Positions
  <2>2. <<>> \in Seq(Kinds)
    OBVIOUS
  <2>3. queue' \in [Call -> Seq(Kinds)]
    BY <1>2, <2>2 DEF Return, Shape
  <2> QED
    BY <1>2, <2>1, <2>3 DEF Return, Shape
<1> QED
  BY <1>1, <1>2

(* The positions, the requests and the events are those that are named. *)
LEMMA ShapeCall ==
  ASSUME IInv, NEW k \in Call, CallNext(k)
  PROVE  Shape'
<1> USE MoveShape DEF IInv, Shape
<1>1. CASE Start(k)
  BY <1>1 DEF Start, Positions, pumpVars, linkVars, guestVars
<1>2. CASE LockWriter(k, "lock", "write") \/ LockWriter(k, "cancel", "kill")
  BY <1>2 DEF LockWriter, Positions, pumpVars, linkVars, guestVars
<1>3. CASE WriteRequest(k)
  <2>1. Append(toGuest, Request(k, op[k])) \in Seq(Requests)
    <3>1. Request(k, op[k]) \in Requests
      BY DEF Request, Requests
    <3> QED
      BY <3>1
  <2>2. toGuest' \in Seq(Requests)
    BY <1>3, <2>1 DEF WriteRequest
  <2>3. pc' \in [Call -> Positions] /\ queue' \in [Call -> Seq(Kinds)] /\ pending' \subseteq Call
    BY <1>3 DEF WriteRequest, Positions
  <2> QED
    BY <1>3, <2>2, <2>3 DEF WriteRequest, pumpVars, guestVars
<1>4. CASE Expire(k) \/ Notify(k) \/ NotifyTaken(k) \/ GiveUp(k)
  BY <1>4 DEF Expire, Notify, NotifyTaken, GiveUp, Positions, pumpVars, linkVars, guestVars
<1>5. CASE PingReturns(k) \/ ExecLosesAgent(k)
  <2>1. pc' \in [Call -> Positions] /\ queue' \in [Call -> Seq(Kinds)] /\ pending' \subseteq Call
    BY <1>5 DEF PingReturns, ExecLosesAgent
  <2> QED
    BY <1>5, <2>1 DEF PingReturns, ExecLosesAgent, pumpVars, linkVars, guestVars
<1>6. CASE TakeEvent(k)
  <2>1. UNCHANGED <<op, guest, toGuest, toHost, parcel>>
    BY <1>6 DEF TakeEvent, pumpVars, linkVars, guestVars
  <2>2. CASE Goto(k, "wait", "wait") /\ queue' = [queue EXCEPT ![k] = Tail(@)] /\ UNCHANGED pending
    <3>1. queue[k] \in Seq(Kinds) /\ queue[k] # <<>>
      BY <1>6 DEF TakeEvent
    <3>2. Tail(queue[k]) \in Seq(Kinds)
      BY <3>1
    <3>3. queue' \in [Call -> Seq(Kinds)]
      BY <2>2, <3>2
    <3> QED
      BY <2>1, <2>2, <3>3 DEF Positions
  <2>3. CASE \E how : Return(k, "wait", how)
    BY <2>1, <2>3
  <2> QED
    BY <1>6, <2>2, <2>3 DEF TakeEvent
<1>7. CASE WriteKill(k)
  <2>1. Append(toGuest, Request(k, "Kill")) \in Seq(Requests)
    <3>1. Request(k, "Kill") \in Requests
      BY DEF Request, Requests
    <3> QED
      BY <3>1
  <2>2. toGuest' \in Seq(Requests)
    BY <1>7, <2>1 DEF WriteKill
  <2> QED
    BY <1>7, <2>2 DEF WriteKill, pumpVars, guestVars
<1> QED
  BY <1>1, <1>2, <1>3, <1>4, <1>5, <1>6, <1>7 DEF CallNext, SendNext, LoopNext

(* What the pump and the guest do keeps to them as well. *)
LEMMA ShapeRest ==
  ASSUME IInv, PumpNext \/ GuestNext
  PROVE  Shape'
<1> USE DEF IInv, Shape
<1>1. Answer(NO_CALL, "none") \in Answers
  BY DEF Answer, Answers, Kinds
<1>2. CASE PumpReads
  <2>1. Head(toHost) \in Answers /\ Tail(toHost) \in Seq(Answers)
    BY <1>2 DEF PumpReads
  <2>2. toHost' \in Seq(Answers) /\ parcel' \in Answers
    BY <1>2, <2>1 DEF PumpReads, pumpVars
  <2> QED
    BY <1>2, <2>2 DEF PumpReads, callVars, guestVars
<1>3. CASE PumpDelivers
  <2>1. parcel.type \in Kinds
    BY DEF Answers
  <2>2. \A k \in Call : Append(queue[k], parcel.type) \in Seq(Kinds)
    BY <2>1
  <2>3. queue' = queue \/ queue' = [queue EXCEPT ![parcel.id] = Append(@, parcel.type)]
    BY <1>3 DEF PumpDelivers
  <2>4. queue' \in [Call -> Seq(Kinds)]
    <3>1. CASE parcel.id \in Call
      BY <2>2, <2>3, <3>1
    <3>2. CASE parcel.id \notin Call
      BY <2>3, <3>2
    <3> QED
      BY <3>1, <3>2
  <2> QED
    BY <1>1, <1>3, <2>4 DEF PumpDelivers, callVars, linkVars, guestVars
<1>4. CASE PumpEnds
  BY <1>4 DEF PumpEnds, callVars, linkVars, guestVars
<1>5. CASE GuestAnswers
  <2>1. Head(toGuest) \in Requests /\ Tail(toGuest) \in Seq(Requests)
    BY <1>5 DEF GuestAnswers
  <2>2. PICK a \in Answers : HostSees(a)
    BY <1>5, <2>1 DEF GuestAnswers, Answer, Answers, Requests, Kinds
  <2>3. toHost' \in Seq(Answers)
    BY <2>2 DEF HostSees
  <2>4. guest' \in [Call -> {"none", "running", "dying", "over"}]
    <3>1. Head(toGuest).call \in Call
      BY <2>1 DEF Requests
    <3>2. \/ UNCHANGED guest
          \/ \E g \in {"running", "dying", "over"} :
               guest' = [guest EXCEPT ![Head(toGuest).call] = g]
      BY <1>5 DEF GuestAnswers
    <3> QED
      BY <3>1, <3>2
  <2> QED
    BY <1>5, <2>1, <2>3, <2>4 DEF GuestAnswers, callVars, pumpVars
<1>6. ASSUME NEW k \in Call, GuestEmits(k) \/ GuestFinishes(k) PROVE Shape'
  <2>1. PICK a \in Answers : HostSees(a)
    BY <1>6 DEF GuestEmits, GuestFinishes, Answer, Answers, Kinds
  <2>2. toHost' \in Seq(Answers)
    BY <2>1 DEF HostSees
  <2> QED
    BY <1>6, <2>2 DEF GuestEmits, GuestFinishes, callVars, pumpVars
<1>7. CASE LinkBreaks
  BY <1>7 DEF LinkBreaks, callVars, pumpVars
<1> QED
  BY <1>2, <1>3, <1>4, <1>5, <1>6, <1>7 DEF PumpNext, GuestNext

-----------------------------------------------------------------------------
(* Registrations *)

(* A call goes on, and stays registered if it was. *)
LEMMA RegGoto ==
  ASSUME IInv, NEW k \in Call, NEW from \in Positions \ {"idle", "done"},
         NEW to \in Positions \ {"idle", "done"}, Goto(k, from, to),
         UNCHANGED <<pending, pump, link>>,
         to \in {"wait", "notify"} => link = "up" \/ from \in {"wait", "notify"}
  PROVE  RegInv'
<1>1. /\ pc[k] = from /\ pc'[k] = to
      /\ \A j \in Call \ {k} : pc'[j] = pc[j]
  BY DEF Goto, IInv, Shape
<1>2. Registered'
  BY <1>1 DEF IInv, RegInv, Registered
<1>3. NoPendingLeak'
  BY <1>1 DEF IInv, RegInv, NoPendingLeak, Shape
<1>4. NoDeafWaiter'
  BY <1>1 DEF IInv, RegInv, Registered, NoDeafWaiter, Shape
<1> QED
  BY <1>2, <1>3, <1>4 DEF RegInv

(* A call returns, and its registration goes. *)
LEMMA RegReturn ==
  ASSUME IInv, NEW k \in Call, NEW from, NEW how, Return(k, from, how),
         UNCHANGED <<pump, link>>
  PROVE  RegInv'
<1>1. /\ pc'[k] = "done" /\ pending' = pending \ {k}
      /\ \A j \in Call \ {k} : pc'[j] = pc[j]
  BY DEF Return, Goto, IInv, Shape
<1> QED
  BY <1>1 DEF IInv, RegInv, Registered, NoPendingLeak, NoDeafWaiter, Shape

(* Every step of a call keeps the books. *)
LEMMA RegCall ==
  ASSUME IInv, NEW k \in Call, CallNext(k)
  PROVE  RegInv'
<1>1. UNCHANGED <<pump, link>>
  BY DEF CallNext, SendNext, LoopNext, Start, LockWriter, WriteRequest, WriteKill,
     Expire, PingReturns, TakeEvent, ExecLosesAgent, Notify, GiveUp, NotifyTaken,
     pumpVars, linkVars
<1>2. CASE Start(k)
  <2>1. /\ pc'[k] = "lock" /\ pending' = pending \union {k}
        /\ \A j \in Call \ {k} : pc'[j] = pc[j]
    BY <1>2 DEF Start, Goto, IInv, Shape
  <2> QED
    BY <1>1, <2>1 DEF IInv, RegInv, Registered, NoPendingLeak, NoDeafWaiter, Shape
<1>3. CASE \E from, how : Return(k, from, how)
  BY <1>1, <1>3, RegReturn
<1>4. CASE LockWriter(k, "lock", "write") \/ LockWriter(k, "cancel", "kill") \/ GiveUp(k)
  BY <1>1, <1>4, RegGoto DEF LockWriter, GiveUp, Positions
<1>5. CASE WriteRequest(k)
  BY <1>1, <1>3, <1>5, RegGoto DEF WriteRequest, Positions
<1>6. CASE Expire(k)
  BY <1>1, <1>6 DEF Expire, IInv, RegInv, Registered, NoPendingLeak, NoDeafWaiter
<1>7. CASE Notify(k) \/ NotifyTaken(k)
  BY <1>1, <1>7, RegGoto DEF Notify, NotifyTaken, Positions
<1>8. CASE TakeEvent(k)
  BY <1>1, <1>3, <1>8, RegGoto DEF TakeEvent, Positions
<1>9. CASE PingReturns(k) \/ ExecLosesAgent(k) \/ WriteKill(k)
  BY <1>3, <1>9 DEF PingReturns, ExecLosesAgent, WriteKill
<1> QED
  BY <1>2, <1>4, <1>5, <1>6, <1>7, <1>8, <1>9 DEF CallNext, SendNext, LoopNext

(* The pump ends with an empty map, and QEMU does not come back. *)
LEMMA RegRest ==
  ASSUME IInv, PumpNext \/ GuestNext
  PROVE  RegInv'
<1>1. UNCHANGED pc
  BY DEF PumpNext, PumpReads, PumpDelivers, PumpEnds, GuestNext, GuestAnswers,
     GuestEmits, GuestFinishes, LinkBreaks, callVars
<1>2. CASE PumpReads \/ PumpDelivers
  BY <1>1, <1>2 DEF PumpReads, PumpDelivers, pumpVars, linkVars, IInv, RegInv,
     Registered, NoPendingLeak, NoDeafWaiter
<1>3. CASE PumpEnds
  BY <1>1, <1>3 DEF PumpEnds, linkVars, IInv, RegInv, Registered, NoPendingLeak, NoDeafWaiter
<1>4. CASE GuestNext
  <2>1. UNCHANGED <<pending, pump>> /\ link' \in {link, "down"}
    BY <1>4 DEF GuestNext, GuestAnswers, GuestEmits, GuestFinishes, LinkBreaks,
       HostSees, pumpVars
  <2> QED
    BY <1>1, <2>1 DEF IInv, RegInv, Registered, NoPendingLeak, NoDeafWaiter
<1> QED
  BY <1>2, <1>3, <1>4 DEF PumpNext

-----------------------------------------------------------------------------
(* What is in a queue after something was taken or put in. *)

(* What is left was there before, one place further back. *)
LEMMA TailFrom ==
  ASSUME NEW S, NEW s \in Seq(S), s # <<>>
  PROVE  /\ \A i \in DOMAIN Tail(s) : i + 1 \in DOMAIN s /\ Tail(s)[i] = s[i + 1]
         /\ \A i \in DOMAIN s : i # 1 => i - 1 \in DOMAIN Tail(s) /\ Tail(s)[i - 1] = s[i]
         /\ 1 \in DOMAIN s /\ s[1] = Head(s)
OBVIOUS

(* What is there was there before, or is the new element at the end. *)
LEMMA AppendTo ==
  ASSUME NEW S, NEW s \in Seq(S), NEW e \in S
  PROVE  /\ DOMAIN Append(s, e) = DOMAIN s \union {Len(s) + 1}
         /\ \A i \in DOMAIN s : Append(s, e)[i] = s[i] /\ i < Len(s) + 1 /\ i \in Nat
         /\ Append(s, e)[Len(s) + 1] = e
OBVIOUS

-----------------------------------------------------------------------------
(* The ends of commands *)

(* No step of a call puts an event on its way. *)
LEMMA EndCall ==
  ASSUME IInv, NEW k \in Call, CallNext(k)
  PROVE  EndIsTrue'
<1>1. UNCHANGED <<toHost, parcel, guest>>
  BY DEF CallNext, SendNext, LoopNext, Start, LockWriter, WriteRequest, WriteKill,
     Expire, PingReturns, TakeEvent, ExecLosesAgent, Notify, GiveUp, NotifyTaken,
     pumpVars, linkVars, guestVars
<1>2. \/ UNCHANGED queue
      \/ queue' = [queue EXCEPT ![k] = <<>>]
      \/ queue[k] # <<>> /\ queue' = [queue EXCEPT ![k] = Tail(@)]
  BY DEF CallNext, SendNext, LoopNext, Start, LockWriter, WriteRequest, WriteKill,
     Expire, PingReturns, TakeEvent, ExecLosesAgent, Notify, GiveUp, NotifyTaken, Return
<1>3. \A j \in Call \ {k} : queue'[j] = queue[j]
  BY <1>2 DEF IInv, Shape
<1>4. \A i \in DOMAIN queue'[k] : \E n \in DOMAIN queue[k] : queue'[k][i] = queue[k][n]
  <2>1. CASE UNCHANGED queue
    BY <2>1
  <2>2. CASE queue' = [queue EXCEPT ![k] = <<>>]
    BY <2>2 DEF IInv, Shape
  <2>3. CASE queue[k] # <<>> /\ queue' = [queue EXCEPT ![k] = Tail(@)]
    BY <2>3, TailFrom DEF IInv, Shape
  <2> QED
    BY <1>2, <2>1, <2>2, <2>3
<1>5. \A j \in Call : EndOnWay(j)' => EndOnWay(j)
  BY <1>1, <1>3, <1>4 DEF EndOnWay
<1> QED
  BY <1>1, <1>5 DEF IInv, CommandInv, EndIsTrue

(* The pump moves an event on and makes none. *)
LEMMA EndPump ==
  ASSUME IInv, PumpNext
  PROVE  EndIsTrue'
<1>1. UNCHANGED guest
  BY DEF PumpNext, PumpReads, PumpDelivers, PumpEnds, guestVars
<1>2. CASE PumpReads
  <2>1. toHost \in Seq(Answers) /\ toHost # <<>> /\ toHost' = Tail(toHost)
    BY <1>2 DEF PumpReads, IInv, Shape
  <2>2. UNCHANGED queue /\ parcel' \in {parcel, Head(toHost)}
    BY <1>2 DEF PumpReads, pumpVars
  <2>3. \A i \in DOMAIN toHost' : \E n \in DOMAIN toHost : toHost'[i] = toHost[n]
    BY <2>1, TailFrom
  <2>4. \E n \in DOMAIN toHost : Head(toHost) = toHost[n]
    BY <2>1, TailFrom
  <2>5. \A j \in Call : EndOnWay(j)' => EndOnWay(j)
    BY <2>2, <2>3, <2>4 DEF EndOnWay
  <2> QED
    BY <1>1, <2>5 DEF IInv, CommandInv, EndIsTrue
<1>3. CASE PumpDelivers
  <2>1. UNCHANGED toHost /\ parcel'.id = NO_CALL
    BY <1>3 DEF PumpDelivers, Answer, linkVars
  <2>2. \A j \in Call : \A i \in DOMAIN queue'[j] :
          \/ \E n \in DOMAIN queue[j] : queue'[j][i] = queue[j][n]
          \/ parcel.id = j /\ queue'[j][i] = parcel.type
    <3>1. CASE UNCHANGED queue
      BY <3>1
    <3>2. CASE queue' = [queue EXCEPT ![parcel.id] = Append(@, parcel.type)]
      <4> SUFFICES ASSUME NEW j \in Call, NEW i \in DOMAIN queue'[j]
                   PROVE  \/ \E n \in DOMAIN queue[j] : queue'[j][i] = queue[j][n]
                          \/ parcel.id = j /\ queue'[j][i] = parcel.type
        OBVIOUS
      <4>1. queue[j] \in Seq(Kinds) /\ parcel.type \in Kinds
        BY DEF IInv, Shape, Answers
      <4>2. CASE parcel.id = j
        <5>1. queue'[j] = Append(queue[j], parcel.type)
          BY <3>2, <4>2 DEF IInv, Shape
        <5> QED
          BY <4>1, <4>2, <5>1, AppendTo
      <4>3. CASE parcel.id # j
        BY <3>2, <4>3 DEF IInv, Shape
      <4> QED
        BY <4>2, <4>3
    <3> QED
      BY <1>3, <3>1, <3>2 DEF PumpDelivers
  <2>3. \A j \in Call : EndOnWay(j)' => EndOnWay(j)
    BY <2>1, <2>2 DEF EndOnWay
  <2> QED
    BY <1>1, <2>3 DEF IInv, CommandInv, EndIsTrue
<1>4. CASE PumpEnds
  BY <1>4 DEF PumpEnds, linkVars, guestVars, IInv, CommandInv, EndIsTrue, EndOnWay
<1> QED
  BY <1>2, <1>3, <1>4 DEF PumpNext

(* What the guest reports as over is over, and stays so. *)
LEMMA EndGuest ==
  ASSUME IInv, GuestNext
  PROVE  EndIsTrue'
<1>1. UNCHANGED <<queue, parcel>>
  BY DEF GuestNext, GuestAnswers, GuestEmits, GuestFinishes, LinkBreaks, pumpVars
<1>2. \A k \in Call : guest[k] = "over" => guest'[k] = "over"
  <2>1. CASE GuestAnswers
    <3>1. toGuest \in Seq(Requests) /\ toGuest # <<>>
      BY <2>1 DEF GuestAnswers, IInv, Shape
    <3>2. Head(toGuest) \in Requests /\ 1 \in DOMAIN toGuest /\ toGuest[1] = Head(toGuest)
      BY <3>1, TailFrom
    <3>3. Head(toGuest).type = "Exec" => guest[Head(toGuest).call] = "none"
      BY <3>2 DEF IInv, CommandInv, AskedOnce
    <3> QED
      BY <2>1, <3>2, <3>3 DEF GuestAnswers, IInv, Shape, Requests
  <2>2. CASE \E k \in Call : GuestEmits(k) \/ GuestFinishes(k)
    BY <2>2 DEF GuestEmits, GuestFinishes, IInv, Shape
  <2>3. CASE LinkBreaks
    BY <2>3 DEF LinkBreaks, IInv, Shape
  <2> QED
    BY <2>1, <2>2, <2>3 DEF GuestNext
<1>3. ASSUME NEW a \in Answers, HostSees(a),
             \A k \in Call : a.id = k /\ a.type \in {"Finished", "Refused"} => guest'[k] = "over"
      PROVE  EndIsTrue'
  <2>1. toHost \in Seq(Answers) /\ toHost' = Append(toHost, a)
    BY <1>3 DEF HostSees, IInv, Shape
  <2>2. \A i \in DOMAIN toHost' :
          toHost'[i] = a \/ \E n \in DOMAIN toHost : toHost'[i] = toHost[n]
    BY <2>1, AppendTo
  <2> QED
    BY <1>1, <1>2, <1>3, <2>2 DEF IInv, CommandInv, EndIsTrue, EndOnWay
<1>4. CASE GuestAnswers
  <2>1. Head(toGuest) \in Requests
    BY <1>4 DEF GuestAnswers, IInv, Shape
  <2> DEFINE c == Head(toGuest).call
  <2>2. c \in Call
    BY <2>1 DEF Requests
  <2>3. \A type \in Kinds : /\ Answer(c, type) \in Answers
                           /\ Answer(c, type).id = c /\ Answer(c, type).type = type
    BY <2>2 DEF Answer, Answers
  <2>4. CASE HostSees(Answer(c, "Pong")) \/ HostSees(Answer(c, "Started"))
    BY <1>3, <2>3, <2>4 DEF Kinds
  <2>5. CASE HostSees(Answer(c, "Refused")) /\ guest' = [guest EXCEPT ![c] = "over"]
    BY <1>3, <2>2, <2>3, <2>5 DEF Kinds, IInv, Shape
  <2>6. CASE HostSees(Answer(NO_CALL, "Killed"))
    BY <1>3, <2>6 DEF Answer, Answers, Kinds
  <2> QED
    BY <1>4, <2>4, <2>5, <2>6 DEF GuestAnswers
<1>5. ASSUME NEW k \in Call, GuestEmits(k) PROVE EndIsTrue'
  BY <1>3, <1>5 DEF GuestEmits, Answer, Answers, Kinds
<1>6. ASSUME NEW k \in Call, GuestFinishes(k) PROVE EndIsTrue'
  <2>1. guest'[k] = "over" /\ HostSees(Answer(k, "Finished"))
    BY <1>6 DEF GuestFinishes, IInv, Shape
  <2>2. Answer(k, "Finished") \in Answers /\ Answer(k, "Finished").id = k
    BY DEF Answer, Answers, Kinds
  <2> QED
    BY <1>3, <2>1, <2>2
<1>7. CASE LinkBreaks
  BY <1>1, <1>2, <1>7 DEF LinkBreaks, IInv, CommandInv, EndIsTrue, EndOnWay
<1> QED
  BY <1>4, <1>5, <1>6, <1>7 DEF GuestNext

-----------------------------------------------------------------------------
(* Commands and kills *)

(* NoRunawayCommand, place by place. *)
Covered(k) ==
  link = "up" /\ pc[k] = "done" =>
    /\ guest[k] = "running" => \E j \in DOMAIN toGuest : toGuest[j] = Request(k, "Kill")
    /\ \A i \in DOMAIN toGuest : toGuest[i] = Request(k, "Exec") =>
         \E j \in DOMAIN toGuest : toGuest[j] = Request(k, "Kill") /\ i < j

(* The two say the same, before a step and after it. *)
LEMMA CoveredIsProperty ==
  /\ NoRunawayCommand <=> \A k \in Call : Covered(k)
  /\ NoRunawayCommand' <=> \A k \in Call : Covered(k)'
BY DEF NoRunawayCommand, Covered

(* A request is one of the requests, and has its parts. *)
LEMMA RequestParts ==
  ASSUME NEW k \in Call, NEW type \in {"Ping", "Exec", "Kill"}
  PROVE  /\ Request(k, type) \in Requests
         /\ Request(k, type).call = k /\ Request(k, type).type = type
         /\ \A r \in Requests : r.call = k /\ r.type = type <=> r = Request(k, type)
BY DEF Request, Requests

(* What is on its way to the guest. *)
LEMMA RequestsTyped ==
  ASSUME IInv
  PROVE  \A i \in DOMAIN toGuest : toGuest[i] \in Requests /\ toGuest[i].call \in Call
<1>1. \A i \in DOMAIN toGuest : toGuest[i] \in Requests
  BY DEF IInv, Shape
<1> QED
  BY <1>1 DEF Requests

(* A call goes on without a word to the guest. *)
LEMMA AskedGoto ==
  ASSUME IInv, NEW k \in Call, NEW from \in Positions \ {"done"},
         NEW to \in Positions \ {"done"}, Goto(k, from, to),
         UNCHANGED <<op, guest, toGuest, link>>, to \in Early => from \in Early
  PROVE  AskedOnce' /\ NoRunawayCommand'
<1>1. /\ pc[k] = from /\ pc'[k] = to
      /\ \A j \in Call \ {k} : pc'[j] = pc[j]
  BY DEF Goto, IInv, Shape
<1>2. \A i \in DOMAIN toGuest : toGuest[i].call \in Call
  BY RequestsTyped
<1>3. AskedOnce'
  BY <1>1, <1>2 DEF IInv, CommandInv, AskedOnce
<1>4. \A j \in Call : Covered(j)'
  BY <1>1, CoveredIsProperty DEF IInv, CommandInv, Covered
<1> QED
  BY <1>3, <1>4, CoveredIsProperty

(* A call returns that has nothing left to kill. *)
LEMMA AskedReturn ==
  ASSUME IInv, NEW k \in Call, NEW from, NEW how,
         Return(k, from, how), UNCHANGED <<guest, toGuest, link>>,
         link = "up" => /\ guest[k] # "running"
                        /\ \A i \in DOMAIN toGuest : toGuest[i] # Request(k, "Exec")
  PROVE  AskedOnce' /\ NoRunawayCommand'
<1>1. /\ pc[k] = from /\ pc'[k] = "done" /\ UNCHANGED op
      /\ \A j \in Call \ {k} : pc'[j] = pc[j]
  BY DEF Return, Goto, IInv, Shape
<1>2. \A i \in DOMAIN toGuest : toGuest[i].call \in Call
  BY RequestsTyped
<1>3. AskedOnce'
  BY <1>1, <1>2 DEF IInv, CommandInv, AskedOnce, Early
<1>4. \A j \in Call : Covered(j)'
  BY <1>1, CoveredIsProperty DEF IInv, CommandInv, Covered
<1> QED
  BY <1>3, <1>4, CoveredIsProperty

(* Without a request of its own on the way, and without a command that     *)
(* runs, an execution has nothing to kill: so it is when it took the end   *)
(* of its command from its channel, and a ping never has.                  *)
LEMMA NothingToKill ==
  ASSUME IInv, NEW k \in Call, op[k] = "Ping" \/ guest[k] = "over"
  PROVE  /\ guest[k] # "running"
         /\ \A i \in DOMAIN toGuest : toGuest[i] # Request(k, "Exec")
<1>1. \A i \in DOMAIN toGuest :
        toGuest[i].call = k /\ toGuest[i].type = "Exec" => guest[k] = "none" /\ op[k] = "Exec"
  BY DEF IInv, CommandInv, AskedOnce
<1> QED
  BY <1>1, RequestParts DEF IInv, CommandInv, AskedOnce

(* A call whose sender is gone has lost QEMU. *)
LEMMA SenderGoneDown ==
  ASSUME IInv, NEW k \in Call, SenderGone(k), pc[k] = "wait"
  PROVE  link # "up"
BY DEF SenderGone, IInv, RegInv, Registered

(* The request of a call is the first word of it, and comes last. *)
LEMMA AskedRequest ==
  ASSUME IInv, NEW k \in Call, Goto(k, "write", "wait"), UNCHANGED <<op, guest, link>>,
         toGuest' = Append(toGuest, Request(k, op[k]))
  PROVE  AskedOnce' /\ NoRunawayCommand'
<1>1. /\ pc[k] = "write" /\ pc'[k] = "wait"
      /\ \A j \in Call \ {k} : pc'[j] = pc[j]
  BY DEF Goto, IInv, Shape
<1>2. op[k] \in {"Ping", "Exec"} /\ guest[k] = "none"
  BY <1>1 DEF IInv, Shape, CommandInv, AskedOnce, Early
<1>3. \A i \in DOMAIN toGuest : toGuest[i].call = k => toGuest[i].type = "Ping"
  BY <1>1, RequestsTyped DEF IInv, CommandInv, AskedOnce, Early, Requests
<1>4. /\ Request(k, op[k]) \in Requests
      /\ Request(k, op[k]).call = k /\ Request(k, op[k]).type = op[k]
  BY <1>2, RequestParts
<1>5. /\ DOMAIN toGuest' = DOMAIN toGuest \union {Len(toGuest) + 1}
      /\ \A i \in DOMAIN toGuest : toGuest'[i] = toGuest[i]
      /\ toGuest'[Len(toGuest) + 1] = Request(k, op[k])
  BY <1>4, AppendTo DEF IInv, Shape
<1>6. AskedOnce'
  <2>1. \A j \in Call : guest'[j] # "none" => op'[j] = "Exec" /\ pc'[j] \notin Early
    BY <1>1, <1>2 DEF IInv, CommandInv, AskedOnce
  <2>2. ASSUME NEW i \in DOMAIN toGuest', toGuest'[i].type = "Exec"
        PROVE  /\ guest'[toGuest'[i].call] = "none" /\ op'[toGuest'[i].call] = "Exec"
               /\ pc'[toGuest'[i].call] \notin Early
               /\ \A j \in DOMAIN toGuest' : toGuest'[j] = toGuest'[i] => j = i
    <3>1. CASE i \in DOMAIN toGuest
      <4>1. toGuest[i].call \in Call \ {k} /\ toGuest'[i] = toGuest[i]
        BY <1>3, <1>5, <2>2, <3>1, RequestsTyped
      <4> QED
        BY <1>1, <1>4, <1>5, <2>2, <3>1, <4>1 DEF IInv, CommandInv, AskedOnce
    <3>2. CASE i = Len(toGuest) + 1
      <4>1. op[k] = "Exec" /\ toGuest'[i] = Request(k, op[k])
        BY <1>4, <1>5, <2>2, <3>2
      <4>2. \A j \in DOMAIN toGuest : toGuest[j] # Request(k, op[k])
        BY <1>3, <1>4, <4>1
      <4> QED
        BY <1>1, <1>2, <1>4, <1>5, <3>2, <4>1, <4>2 DEF Early
    <3> QED
      BY <1>5, <3>1, <3>2
  <2>3. ASSUME NEW i \in DOMAIN toGuest', toGuest'[i].type = "Kill"
        PROVE  pc'[toGuest'[i].call] = "done"
    <3>1. i \in DOMAIN toGuest /\ toGuest'[i] = toGuest[i]
      BY <1>2, <1>4, <1>5, <2>3
    <3>2. toGuest[i].call \in Call \ {k}
      BY <1>3, <2>3, <3>1, RequestsTyped
    <3> QED
      BY <1>1, <2>3, <3>1, <3>2 DEF IInv, CommandInv, AskedOnce
  <2> QED
    BY <2>1, <2>2, <2>3 DEF AskedOnce
<1>7. ASSUME NEW j \in Call PROVE Covered(j)'
  <2>1. CASE j = k
    BY <1>1, <2>1 DEF Covered
  <2>2. CASE j # k
    <3>1. Covered(j) /\ pc'[j] = pc[j]
      BY <1>1, <2>2, CoveredIsProperty DEF IInv, CommandInv
    <3>2. \A i \in DOMAIN toGuest' : toGuest'[i] = Request(j, "Exec") => i \in DOMAIN toGuest
      BY <1>4, <1>5, <2>2, RequestParts
    <3> QED
      BY <1>5, <3>1, <3>2 DEF Covered, Request
  <2> QED
    BY <2>1, <2>2
<1> QED
  BY <1>6, <1>7, CoveredIsProperty

(* The kill of a call is its last word: it comes behind the request. *)
LEMMA AskedKill ==
  ASSUME IInv, NEW k \in Call, NEW how, Return(k, "kill", how), UNCHANGED <<guest, link>>,
         toGuest' = Append(toGuest, Request(k, "Kill"))
  PROVE  AskedOnce' /\ NoRunawayCommand'
<1>1. /\ pc[k] = "kill" /\ pc'[k] = "done" /\ UNCHANGED op
      /\ \A j \in Call \ {k} : pc'[j] = pc[j]
  BY DEF Return, Goto, IInv, Shape
<1>2. /\ Request(k, "Kill") \in Requests
      /\ Request(k, "Kill").call = k /\ Request(k, "Kill").type = "Kill"
  BY RequestParts
<1>3. /\ DOMAIN toGuest' = DOMAIN toGuest \union {Len(toGuest) + 1}
      /\ \A i \in DOMAIN toGuest : toGuest'[i] = toGuest[i] /\ i < Len(toGuest) + 1
      /\ toGuest'[Len(toGuest) + 1] = Request(k, "Kill")
  BY <1>2, AppendTo DEF IInv, Shape
<1>4. AskedOnce'
  <2>1. \A j \in Call : guest'[j] # "none" => op'[j] = "Exec" /\ pc'[j] \notin Early
    BY <1>1 DEF IInv, CommandInv, AskedOnce, Early
  <2>2. ASSUME NEW i \in DOMAIN toGuest', toGuest'[i].type = "Exec"
        PROVE  /\ guest'[toGuest'[i].call] = "none" /\ op'[toGuest'[i].call] = "Exec"
               /\ pc'[toGuest'[i].call] \notin Early
               /\ \A j \in DOMAIN toGuest' : toGuest'[j] = toGuest'[i] => j = i
    <3>1. i \in DOMAIN toGuest /\ toGuest'[i] = toGuest[i] /\ toGuest[i].call \in Call
      BY <1>2, <1>3, <2>2, RequestsTyped
    <3> QED
      BY <1>1, <1>2, <1>3, <2>2, <3>1 DEF IInv, CommandInv, AskedOnce, Early
  <2>3. ASSUME NEW i \in DOMAIN toGuest', toGuest'[i].type = "Kill"
        PROVE  pc'[toGuest'[i].call] = "done"
    <3>1. CASE i \in DOMAIN toGuest
      BY <1>1, <1>3, <2>3, <3>1, RequestsTyped DEF IInv, CommandInv, AskedOnce
    <3>2. CASE i = Len(toGuest) + 1
      BY <1>1, <1>2, <1>3, <3>2
    <3> QED
      BY <1>3, <3>1, <3>2
  <2> QED
    BY <2>1, <2>2, <2>3 DEF AskedOnce
<1>5. ASSUME NEW j \in Call PROVE Covered(j)'
  <2>1. \A i \in DOMAIN toGuest' : toGuest'[i] = Request(j, "Exec") =>
          i \in DOMAIN toGuest /\ toGuest[i] = Request(j, "Exec") /\ i < Len(toGuest) + 1
    BY <1>2, <1>3, RequestParts
  <2>2. CASE j = k
    BY <1>3, <2>1, <2>2 DEF Covered, Request
  <2>3. CASE j # k
    <3>1. Covered(j) /\ pc'[j] = pc[j]
      BY <1>1, <2>3, CoveredIsProperty DEF IInv, CommandInv
    <3> QED
      BY <1>3, <2>1, <3>1 DEF Covered, Request
  <2> QED
    BY <2>2, <2>3
<1> QED
  BY <1>4, <1>5, CoveredIsProperty

(* Every step of a call. *)
LEMMA AskedCall ==
  ASSUME IInv, NEW k \in Call, CallNext(k)
  PROVE  AskedOnce' /\ NoRunawayCommand'
<1>1. UNCHANGED <<guest, link>>
  BY DEF CallNext, SendNext, LoopNext, Start, LockWriter, WriteRequest, WriteKill,
     Expire, PingReturns, TakeEvent, ExecLosesAgent, Notify, GiveUp, NotifyTaken,
     linkVars, guestVars
<1>2. CASE Start(k)
  <2>1. /\ pc[k] = "idle" /\ pc'[k] = "lock" /\ UNCHANGED toGuest
        /\ \A j \in Call \ {k} : pc'[j] = pc[j] /\ op'[j] = op[j]
    BY <1>2 DEF Start, Goto, linkVars, IInv, Shape
  <2>2. AskedOnce'
    BY <1>1, <2>1, RequestsTyped DEF IInv, CommandInv, AskedOnce, Early
  <2>3. \A j \in Call : Covered(j)'
    BY <1>1, <2>1, CoveredIsProperty DEF IInv, CommandInv, Covered
  <2> QED
    BY <2>2, <2>3, CoveredIsProperty
<1>3. CASE \/ LockWriter(k, "lock", "write") \/ LockWriter(k, "cancel", "kill")
           \/ Notify(k) \/ NotifyTaken(k) \/ GiveUp(k)
  BY <1>1, <1>3, AskedGoto DEF LockWriter, Notify, NotifyTaken, GiveUp, linkVars,
     Positions, Early
<1>4. CASE WriteRequest(k)
  <2>1. CASE link = "up"
    BY <1>1, <1>4, <2>1, AskedRequest DEF WriteRequest
  <2>2. CASE link # "up"
    BY <1>1, <1>4, <2>2, AskedReturn DEF WriteRequest
  <2> QED
    BY <2>1, <2>2
<1>5. CASE Expire(k)
  <2>1. UNCHANGED <<pc, op, guest, toGuest, link>>
    BY <1>5 DEF Expire, linkVars, guestVars
  <2> QED
    BY <2>1 DEF IInv, CommandInv, AskedOnce, NoRunawayCommand
<1>6. CASE PingReturns(k)
  <2>1. op[k] = "Ping" /\ UNCHANGED toGuest /\ \E how : Return(k, "wait", how)
    BY <1>6 DEF PingReturns, linkVars
  <2> QED
    BY <1>1, <2>1, NothingToKill, AskedReturn
<1>7. CASE ExecLosesAgent(k)
  <2>1. SenderGone(k) /\ Return(k, "wait", "failed") /\ UNCHANGED toGuest /\ pc[k] = "wait"
    BY <1>7 DEF ExecLosesAgent, Return, Goto, linkVars
  <2> QED
    BY <1>1, <2>1, SenderGoneDown, AskedReturn
<1>8. CASE TakeEvent(k)
  <2>1. UNCHANGED toGuest /\ queue[k] # <<>>
    BY <1>8 DEF TakeEvent, linkVars
  <2>2. CASE Goto(k, "wait", "wait") /\ UNCHANGED op
    BY <1>1, <2>1, <2>2, AskedGoto DEF Positions, Early
  <2>3. CASE Head(queue[k]) \in {"Finished", "Refused"} /\ \E how : Return(k, "wait", how)
    <3>1. 1 \in DOMAIN queue[k] /\ queue[k][1] = Head(queue[k])
      BY <2>1, TailFrom DEF IInv, Shape
    <3>2. guest[k] = "over"
      BY <2>3, <3>1 DEF IInv, CommandInv, EndIsTrue, EndOnWay
    <3> QED
      BY <1>1, <2>1, <2>3, <3>2, NothingToKill, AskedReturn
  <2> QED
    BY <1>8, <2>2, <2>3 DEF TakeEvent
<1>9. CASE WriteKill(k)
  <2>1. CASE link = "up"
    BY <1>1, <1>9, <2>1, AskedKill DEF WriteKill
  <2>2. CASE link # "up"
    BY <1>1, <1>9, <2>2, AskedReturn DEF WriteKill
  <2> QED
    BY <2>1, <2>2
<1> QED
  BY <1>2, <1>3, <1>4, <1>5, <1>6, <1>7, <1>8, <1>9 DEF CallNext, SendNext, LoopNext

(* The guest takes a request: a command that starts while its kill is on   *)
(* the way will still be reached by it.                                    *)
LEMMA AskedTaken ==
  ASSUME IInv, GuestAnswers
  PROVE  AskedOnce' /\ NoRunawayCommand'
<1> DEFINE c == Head(toGuest).call
<1>1. /\ toGuest \in Seq(Requests) /\ toGuest # <<>> /\ toGuest' = Tail(toGuest)
      /\ UNCHANGED <<pc, op, link>>
  BY DEF GuestAnswers, HostSees, callVars, IInv, Shape
<1>2. /\ \A i \in DOMAIN toGuest' : i + 1 \in DOMAIN toGuest /\ toGuest'[i] = toGuest[i + 1]
                                  /\ i \in Nat
      /\ \A i \in DOMAIN toGuest : i # 1 => i - 1 \in DOMAIN toGuest' /\ toGuest'[i - 1] = toGuest[i]
      /\ 1 \in DOMAIN toGuest /\ toGuest[1] = Head(toGuest)
      /\ \A i \in DOMAIN toGuest : i \in Nat
  BY <1>1, TailFrom
<1>3. c \in Call /\ Head(toGuest) \in Requests
  BY <1>2, RequestsTyped
<1>4. \A j \in Call \ {c} : guest'[j] = guest[j]
  BY <1>3 DEF GuestAnswers, IInv, Shape
<1>5. \/ Head(toGuest).type = "Ping" /\ UNCHANGED guest
      \/ Head(toGuest).type = "Exec" /\ guest'[c] \in {"running", "over"}
      \/ /\ Head(toGuest).type = "Kill" /\ guest'[c] # "running"
         /\ guest'[c] = "none" <=> guest[c] = "none"
  BY <1>3 DEF GuestAnswers, IInv, Shape
<1>6. AskedOnce'
  <2>1. \A j \in Call : guest'[j] # "none" => op'[j] = "Exec" /\ pc'[j] \notin Early
    <3>1. Head(toGuest).type = "Exec" => op[c] = "Exec" /\ pc[c] \notin Early
      BY <1>2 DEF IInv, CommandInv, AskedOnce
    <3> QED
      BY <1>1, <1>4, <1>5, <3>1 DEF IInv, CommandInv, AskedOnce
  <2>2. ASSUME NEW i \in DOMAIN toGuest', toGuest'[i].type = "Exec"
        PROVE  /\ guest'[toGuest'[i].call] = "none" /\ op'[toGuest'[i].call] = "Exec"
               /\ pc'[toGuest'[i].call] \notin Early
               /\ \A j \in DOMAIN toGuest' : toGuest'[j] = toGuest'[i] => j = i
    <3>1. i + 1 \in DOMAIN toGuest /\ toGuest'[i] = toGuest[i + 1] /\ toGuest[i + 1] \in Requests
      BY <1>2, RequestsTyped
    <3>2. /\ guest[toGuest[i + 1].call] = "none" /\ op[toGuest[i + 1].call] = "Exec"
          /\ pc[toGuest[i + 1].call] \notin Early
          /\ \A j \in DOMAIN toGuest : toGuest[j] = toGuest[i + 1] => j = i + 1
      BY <2>2, <3>1 DEF IInv, CommandInv, AskedOnce
    <3>3. ASSUME NEW j \in DOMAIN toGuest', toGuest'[j] = toGuest'[i]
          PROVE  j = i
      <4>1. j + 1 \in DOMAIN toGuest /\ toGuest[j + 1] = toGuest[i + 1]
        BY <1>2, <3>1, <3>3
      <4>2. j + 1 = i + 1 /\ i \in Nat /\ j \in Nat
        BY <1>2, <3>2, <4>1
      <4> QED
        BY <4>2
    <3>4. guest'[toGuest[i + 1].call] = "none"
      <4>1. CASE toGuest[i + 1].call # c
        BY <1>4, <3>1, <3>2, <4>1, RequestsTyped
      <4>2. CASE toGuest[i + 1].call = c
        <5>1. Head(toGuest).type # "Exec"
          <6> SUFFICES ASSUME Head(toGuest).type = "Exec" PROVE FALSE
            OBVIOUS
          <6>1. Head(toGuest) = toGuest[i + 1]
            BY <1>3, <2>2, <3>1, <4>2, RequestParts
          <6>2. 1 = i + 1
            BY <1>2, <3>2, <6>1
          <6>3. i \in 1..Len(toGuest')
            BY <1>1, <2>2
          <6> QED
            BY <6>2, <6>3
        <5> QED
          BY <1>5, <3>2, <4>2, <5>1
      <4> QED
        BY <4>1, <4>2
    <3> QED
      BY <1>1, <3>1, <3>2, <3>3, <3>4
  <2>3. ASSUME NEW i \in DOMAIN toGuest', toGuest'[i].type = "Kill"
        PROVE  pc'[toGuest'[i].call] = "done"
    BY <1>1, <1>2, <2>3 DEF IInv, CommandInv, AskedOnce
  <2> QED
    BY <2>1, <2>2, <2>3 DEF AskedOnce
<1>7. ASSUME NEW j \in Call, link = "up", pc[j] = "done"
      PROVE  /\ guest'[j] = "running" =>
                  \E n \in DOMAIN toGuest' : toGuest'[n] = Request(j, "Kill")
             /\ \A i \in DOMAIN toGuest' : toGuest'[i] = Request(j, "Exec") =>
                  \E n \in DOMAIN toGuest' : toGuest'[n] = Request(j, "Kill") /\ i < n
  <2>1. Covered(j)
    BY CoveredIsProperty DEF IInv, CommandInv
  <2>2. ASSUME guest'[j] = "running"
        PROVE  \E n \in DOMAIN toGuest' : toGuest'[n] = Request(j, "Kill")
    <3>1. CASE Head(toGuest) = Request(j, "Exec")
      <4>1. PICK n \in DOMAIN toGuest : toGuest[n] = Request(j, "Kill") /\ 1 < n
        BY <1>2, <1>7, <2>1, <3>1 DEF Covered
      <4> QED
        BY <1>2, <4>1
    <3>2. CASE Head(toGuest) # Request(j, "Exec")
      <4>1. guest[j] = "running" /\ Head(toGuest) # Request(j, "Kill")
        BY <1>3, <1>4, <1>5, <2>2, <3>2, RequestParts
      <4>2. PICK n \in DOMAIN toGuest : toGuest[n] = Request(j, "Kill")
        BY <1>7, <2>1, <4>1 DEF Covered
      <4> QED
        BY <1>2, <4>1, <4>2
    <3> QED
      BY <3>1, <3>2
  <2>3. ASSUME NEW i \in DOMAIN toGuest', toGuest'[i] = Request(j, "Exec")
        PROVE  \E n \in DOMAIN toGuest' : toGuest'[n] = Request(j, "Kill") /\ i < n
    <3>1. PICK n \in DOMAIN toGuest : toGuest[n] = Request(j, "Kill") /\ i + 1 < n
      BY <1>2, <1>7, <2>1, <2>3 DEF Covered
    <3> QED
      BY <1>2, <3>1
  <2> QED
    BY <2>2, <2>3
<1>8. \A j \in Call : Covered(j)'
  BY <1>1, <1>7 DEF Covered, Request
<1> QED
  BY <1>6, <1>8, CoveredIsProperty

(* The pump, and what the guest does of itself: a command that runs was    *)
(* asked for already, and QEMU takes every request with it.                *)
LEMMA AskedRest ==
  ASSUME IInv, PumpNext \/ GuestNext, ~GuestAnswers
  PROVE  AskedOnce' /\ NoRunawayCommand'
<1>1. UNCHANGED <<pc, op>>
  BY DEF PumpNext, PumpReads, PumpDelivers, PumpEnds, GuestNext, GuestEmits,
     GuestFinishes, LinkBreaks, callVars
<1>2. CASE PumpNext \/ \E k \in Call : GuestEmits(k)
  <2>1. UNCHANGED <<guest, toGuest, link>>
    BY <1>2 DEF PumpNext, PumpReads, PumpDelivers, PumpEnds, GuestEmits, HostSees,
       linkVars, guestVars
  <2> QED
    BY <1>1, <2>1 DEF IInv, CommandInv, AskedOnce, NoRunawayCommand
<1>3. ASSUME NEW k \in Call, GuestFinishes(k)
      PROVE  AskedOnce' /\ NoRunawayCommand'
  <2>1. /\ UNCHANGED <<toGuest, link>>
        /\ guest[k] # "none" /\ guest'[k] = "over"
        /\ \A j \in Call \ {k} : guest'[j] = guest[j]
    BY <1>3 DEF GuestFinishes, HostSees, IInv, Shape
  <2>2. AskedOnce'
    BY <1>1, <2>1, RequestsTyped DEF IInv, CommandInv, AskedOnce
  <2>3. \A j \in Call : Covered(j)'
    BY <1>1, <2>1, CoveredIsProperty DEF IInv, CommandInv, Covered
  <2> QED
    BY <2>2, <2>3, CoveredIsProperty
<1>4. CASE LinkBreaks
  <2>1. /\ link' = "down" /\ toGuest' = <<>>
        /\ \A j \in Call : guest'[j] # "none" => guest[j] # "none"
    BY <1>4 DEF LinkBreaks
  <2>2. AskedOnce'
    BY <1>1, <2>1 DEF IInv, CommandInv, AskedOnce
  <2> QED
    BY <2>1, <2>2 DEF NoRunawayCommand
<1> QED
  BY <1>2, <1>3, <1>4 DEF GuestNext

-----------------------------------------------------------------------------
(* The invariant is kept. *)
LEMMA StepInvariant == IInv /\ [Next]_vars => IInv'
<1> SUFFICES ASSUME IInv, [Next]_vars PROVE IInv'
  OBVIOUS
<1>1. ASSUME NEW k \in Call, CallNext(k) PROVE IInv'
  BY <1>1, ShapeCall, RegCall, EndCall, AskedCall DEF IInv, CommandInv
<1>2. CASE PumpNext \/ GuestNext
  <2>1. EndIsTrue'
    BY <1>2, EndPump, EndGuest
  <2>2. AskedOnce' /\ NoRunawayCommand'
    BY <1>2, AskedTaken, AskedRest
  <2> QED
    BY <1>2, <2>1, <2>2, ShapeRest, RegRest DEF IInv, CommandInv
<1>3. CASE UNCHANGED vars
  BY <1>3 DEF vars, callVars, pumpVars, linkVars, guestVars, IInv, Shape, RegInv,
     Registered, NoPendingLeak, NoDeafWaiter, CommandInv, EndIsTrue, EndOnWay,
     AskedOnce, NoRunawayCommand
<1> QED
  BY <1>1, <1>2, <1>3 DEF Next

(* The invariant holds in every behaviour. *)
LEMMA Invariance == Spec => []IInv
BY InitInvariant, StepInvariant, PTL DEF Spec

(* Whatever way a call returns (an answer, a timeout, a failed write, a    *)
(* refusal, a cancellation), its entry in RdkQemuAgent::pending is gone.   *)
THEOREM NoPendingLeakHolds == Spec => []NoPendingLeak
<1>1. IInv => NoPendingLeak
  BY DEF IInv, RegInv
<1> QED
  BY <1>1, Invariance, PTL

(* No call waits for an answer on a channel that pump_agent, which has     *)
(* ended, still holds the sender of.                                       *)
THEOREM NoDeafWaiterHolds == Spec => []NoDeafWaiter
<1>1. IInv => NoDeafWaiter
  BY DEF IInv, RegInv
<1> QED
  BY <1>1, Invariance, PTL

(* When CommandExecTask::run has returned and QEMU is still there, the     *)
(* command is over, or its kill is on the way behind the request that      *)
(* starts it: whatever the order of timeouts, answers and the guest.       *)
THEOREM NoRunawayCommandHolds == Spec => []NoRunawayCommand
<1>1. IInv => NoRunawayCommand
  BY DEF IInv, CommandInv
<1> QED
  BY <1>1, Invariance, PTL

-----------------------------------------------------------------------------
(* The output of an execution *)

Events == {"Pong", "Started", "Refused", "Output", "Finished"}

(* The pump has an answer for a call that has started, every call under    *)
(* way is registered until the pump has ended, and no queue is filled for  *)
(* a call that has not started.                                            *)
Delivered ==
  /\ pump # "send" => parcel = Answer(NO_CALL, "none")
  /\ pump = "send" => parcel.id \in Call /\ pc[parcel.id] # "idle" /\ parcel.type \in Events
  /\ pump # "done" => \A k \in Call : pc[k] \notin {"idle", "done"} => k \in pending
  /\ \A i \in DOMAIN toHost : toHost[i].id \in Call => toHost[i].type \in Events
  /\ \A k \in Call : pc[k] = "idle" => queue[k] = <<>>
  /\ \A k \in Call : emitted[k] > 0 => guest[k] # "none"

(* What TypeOK says of the queues and the counters, and of the rest.       *)
Bounded ==
  /\ queue \in [Call -> Seq(Events)]
  /\ \A k \in Call : Len(queue[k]) <= Capacity(k)
  /\ got \in [Call -> 0..MaxLines] /\ emitted \in [Call -> 0..MaxLines]

Marked ==
  /\ expired \in [Call -> BOOLEAN]
  /\ result \in [Call -> {"none", "answered", "finished", "failed", "timeout", "cancelled"}]
  /\ locked \in BOOLEAN
  /\ writer \in Call \union {NO_CALL}
  /\ pump \in {"read", "send", "done"}
  /\ link \in {"up", "down"}

(* The lines the guest has sent for k are with the call, in its queue, in  *)
(* the hands of the pump or on the link, until the call returns.           *)
InParcel(k) == IF parcel = Answer(k, "Output") THEN 1 ELSE 0
Lines(k) == got[k] + Count(queue[k], "Output") + InParcel(k) + Count(toHost, Answer(k, "Output"))

LinesCounted == \A k \in Call : pc[k] # "done" => Lines(k) = emitted[k]

(* Behind the end of a command comes no line of it. *)
EndInQueue(k) == \E i \in DOMAIN queue[k] : queue[k][i] = "Finished"
LineOnLink(k) == \E i \in DOMAIN toHost : toHost[i] = Answer(k, "Output")

NoLineBehind(k) ==
  /\ \A i, j \in DOMAIN queue[k] : i < j /\ queue[k][i] = "Finished" => queue[k][j] # "Output"
  /\ \A i, j \in DOMAIN toHost :
       i < j /\ toHost[i] = Answer(k, "Finished") => toHost[j] # Answer(k, "Output")
  /\ EndInQueue(k) => parcel # Answer(k, "Output")
  /\ EndInQueue(k) \/ parcel = Answer(k, "Finished") => ~LineOnLink(k)

EndIsLast == \A k \in Call : NoLineBehind(k)

ResultIsWhole ==
  \A k \in Call : result[k] = "finished" =>
    pc[k] = "done" /\ guest[k] = "over" /\ got[k] = emitted[k]

OutInv == Delivered /\ Bounded /\ Marked /\ LinesCounted /\ EndIsLast /\ ResultIsWhole

(* The invariant gives the property. *)
LEMMA OutputIsComplete == IInv /\ OutInv => ExecResultComplete
<1> SUFFICES ASSUME IInv, OutInv PROVE ExecResultComplete
  OBVIOUS
<1>1. /\ \A i \in DOMAIN toGuest : toGuest[i].call \in Call
      /\ \A i \in DOMAIN toHost : toHost[i].id \in Call \union {NO_CALL}
      /\ parcel.id \in Call \union {NO_CALL}
  <2>1. /\ \A i \in DOMAIN toGuest : toGuest[i] \in Requests
        /\ \A i \in DOMAIN toHost : toHost[i] \in Answers
        /\ parcel \in Answers
    BY DEF IInv, Shape
  <2> QED
    BY <2>1 DEF Requests, Answers
<1>2. TypeOK
  BY <1>1 DEF IInv, Shape, Positions, OutInv, Bounded, Events, Marked, TypeOK
<1> QED
  BY <1>2 DEF OutInv, ResultIsWhole, ExecResultComplete

(* What a step of a call does: it begins, goes on, takes an event that is  *)
(* not the last, or returns.                                               *)
Begins(k) ==
  /\ pc[k] = "idle" /\ pc'[k] = "lock" /\ pending' = pending \union {k}
  /\ UNCHANGED <<queue, got, result>>
GoesOn(k) ==
  /\ pc[k] \notin {"idle", "done"} /\ pc'[k] \notin {"idle", "done"}
  /\ UNCHANGED <<queue, got, pending, op>>
  /\ result'[k] \in {result[k], "timeout", "cancelled"}
Takes(k) ==
  /\ pc[k] = "wait" /\ pc'[k] = "wait" /\ UNCHANGED <<pending, op, result>>
  /\ queue[k] # <<>> /\ queue'[k] = Tail(queue[k])
  /\ got'[k] = IF Head(queue[k]) = "Output" THEN got[k] + 1 ELSE got[k]
Returns(k) ==
  /\ pc[k] \notin {"idle", "done"} /\ pc'[k] = "done"
  /\ queue'[k] = <<>> /\ pending' = pending \ {k} /\ UNCHANGED <<got, op>>
  /\ \/ result'[k] \in {"answered", "failed", "timeout", result[k]}
     \/ result'[k] = "finished" /\ queue[k] # <<>> /\ Head(queue[k]) = "Finished"

(* A move of one call is a move of that call only. *)
LEMMA Goes ==
  ASSUME IInv, NEW k \in Call, NEW from, NEW to, Goto(k, from, to)
  PROVE  pc[k] = from /\ pc'[k] = to /\ \A j \in Call \ {k} : pc'[j] = pc[j]
BY DEF Goto, IInv, Shape

(* So is a return, which empties its queue and ends its registration. *)
LEMMA ReturnReturns ==
  ASSUME IInv, OutInv, NEW k \in Call, NEW from \in Positions \ {"idle", "done"}, NEW how,
         Return(k, from, how)
  PROVE  /\ pc[k] \notin {"idle", "done"} /\ pc'[k] = "done" /\ queue'[k] = <<>>
         /\ pending' = pending \ {k} /\ UNCHANGED <<op, expired, locked>> /\ result'[k] = how
         /\ \A j \in Call \ {k} :
              pc'[j] = pc[j] /\ queue'[j] = queue[j] /\ result'[j] = result[j]
BY Goes DEF Return, IInv, Shape, OutInv, Marked

(* Every step of a call is of one of the four sorts, and leaves the others *)
(* and the link alone.                                                     *)
LEMMA CallEffect ==
  ASSUME IInv, OutInv, NEW k \in Call, CallNext(k)
  PROVE  /\ UNCHANGED <<toHost, parcel, pump, link, guest, emitted>>
         /\ \A j \in Call \ {k} : /\ pc'[j] = pc[j] /\ queue'[j] = queue[j] /\ op'[j] = op[j]
                                  /\ result'[j] = result[j] /\ got'[j] = got[j]
         /\ Begins(k) \/ GoesOn(k) \/ Takes(k) \/ Returns(k)
<1>1. UNCHANGED <<toHost, parcel, pump, link, guest, emitted>>
  BY DEF CallNext, SendNext, LoopNext, Start, LockWriter, WriteRequest, WriteKill,
     Expire, PingReturns, TakeEvent, ExecLosesAgent, Notify, GiveUp, NotifyTaken,
     pumpVars, linkVars, guestVars
<1> USE DEF Positions
<1>2. CASE Start(k)
  BY <1>1, <1>2, Goes DEF Start, Begins, IInv, Shape
<1>3. CASE LockWriter(k, "lock", "write") \/ LockWriter(k, "cancel", "kill") \/ Notify(k) \/ NotifyTaken(k)
  BY <1>1, <1>3, Goes DEF LockWriter, Notify, NotifyTaken, GoesOn
<1>4. CASE Expire(k)
  BY <1>1, <1>4 DEF Expire, GoesOn
<1>5. CASE GiveUp(k)
  BY <1>1, <1>5, Goes DEF GiveUp, GoesOn, OutInv, Marked
<1>6. CASE WriteRequest(k)
  BY <1>1, <1>6, Goes, ReturnReturns DEF WriteRequest, GoesOn, Returns
<1>7. CASE PingReturns(k) \/ ExecLosesAgent(k)
  BY <1>1, <1>7, ReturnReturns DEF PingReturns, ExecLosesAgent, Returns
<1>8. CASE WriteKill(k)
  BY <1>1, <1>8, ReturnReturns DEF WriteKill, Returns
<1>9. CASE TakeEvent(k)
  <2>1. CASE Goto(k, "wait", "wait")
    BY <1>1, <1>9, <2>1, Goes DEF TakeEvent, Takes, Return, IInv, Shape, OutInv, Bounded
  <2>2. CASE Head(queue[k]) = "Finished" /\ Return(k, "wait", "finished") /\ UNCHANGED got
    BY <1>1, <1>9, <2>2, ReturnReturns DEF TakeEvent, Returns
  <2>3. CASE Head(queue[k]) = "Refused" /\ Return(k, "wait", "failed") /\ UNCHANGED got
    BY <1>1, <1>9, <2>3, ReturnReturns DEF TakeEvent, Returns
  <2> QED
    BY <1>9, <2>1, <2>2, <2>3 DEF TakeEvent
<1> QED
  BY <1>2, <1>3, <1>4, <1>5, <1>6, <1>7, <1>8, <1>9 DEF CallNext, SendNext, LoopNext

-----------------------------------------------------------------------------
(* The queues and the answers as sequences of what they carry. *)
LEMMA QueueTypes ==
  ASSUME IInv, OutInv, NEW k \in Call
  PROVE  /\ queue[k] \in Seq(Events) /\ toHost \in Seq(Answers)
         /\ got[k] \in Nat /\ emitted[k] \in Nat /\ emitted[k] <= MaxLines
         /\ Count(queue[k], "Output") \in Nat /\ Count(toHost, Answer(k, "Output")) \in Nat
         /\ InParcel(k) \in {0, 1}
<1>1. /\ queue[k] \in Seq(Events) /\ toHost \in Seq(Answers)
      /\ got[k] \in 0..MaxLines /\ emitted[k] \in 0..MaxLines
  BY DEF OutInv, Bounded, IInv, Shape
<1>2. Count(queue[k], "Output") \in Nat /\ Count(toHost, Answer(k, "Output")) \in Nat
  BY <1>1, PlacesFinite
<1> QED
  BY <1>1, <1>2 DEF InParcel

(* The step of a call adds no line and loses none of one still under way.  *)
LEMMA LinesCall ==
  ASSUME IInv, OutInv, NEW k \in Call, CallNext(k)
  PROVE  LinesCounted'
<1> SUFFICES ASSUME NEW j \in Call, pc'[j] # "done" PROVE Lines(j)' = emitted'[j]
  BY DEF LinesCounted
<1>1. UNCHANGED <<toHost, parcel, emitted>>
  BY CallEffect
<1>2. CASE j # k
  <2>1. pc'[j] = pc[j] /\ queue'[j] = queue[j] /\ got'[j] = got[j]
    BY <1>2, CallEffect
  <2>2. Lines(j) = emitted[j]
    BY <2>1 DEF OutInv, LinesCounted
  <2> QED
    BY <1>1, <2>1, <2>2 DEF Lines, InParcel, Count, Places, Answer
<1>3. CASE j = k
  <2>1. pc[k] # "done" => Lines(k) = emitted[k]
    BY DEF OutInv, LinesCounted
  <2>2. CASE Begins(k) \/ GoesOn(k)
    <3>1. UNCHANGED <<queue, got>> /\ pc[k] # "done"
      BY <2>2 DEF Begins, GoesOn
    <3> QED
      BY <1>1, <1>3, <2>1, <3>1 DEF Lines, InParcel, Count, Places, Answer
  <2>3. CASE Takes(k)
    <3>1. /\ queue[k] # <<>> /\ queue'[k] = Tail(queue[k]) /\ pc[k] # "done"
          /\ got'[k] = IF Head(queue[k]) = "Output" THEN got[k] + 1 ELSE got[k]
      BY <2>3 DEF Takes
    <3>2. Tail(queue[k]) \in Seq(Events)
      BY <3>1, QueueTypes
    <3> DEFINE a == Count(queue[k], "Output")
               b == Count(Tail(queue[k]), "Output")
               c == InParcel(k)
               d == Count(toHost, Answer(k, "Output"))
    <3>3. a = IF Head(queue[k]) = "Output" THEN b + 1 ELSE b
      BY <3>1, QueueTypes, CountTail
    <3>4. b \in Nat /\ a \in Nat /\ c \in {0, 1} /\ d \in Nat /\ got[k] \in Nat
      BY <3>2, QueueTypes, PlacesFinite
    <3>5. Lines(k) = got[k] + a + c + d
      BY DEF Lines
    <3>6. Lines(k)' = got'[k] + b + c + d
      BY <1>1, <3>1 DEF Lines, InParcel, Count, Places, Answer
    <3> HIDE DEF a, b, c, d
    <3>7. got'[k] + b = got[k] + a
      BY <3>1, <3>3, <3>4
    <3>8. got'[k] \in Nat
      BY <3>1, <3>4
    <3>9. Lines(k)' = Lines(k)
      BY <3>4, <3>5, <3>6, <3>7, <3>8
    <3> QED
      BY <1>1, <1>3, <2>1, <3>1, <3>9
  <2> QED
    BY <1>3, <2>2, <2>3, CallEffect DEF Returns
<1> QED
  BY <1>2, <1>3

(* It leaves the last event the last. *)
LEMMA LastCall ==
  ASSUME IInv, OutInv, NEW k \in Call, CallNext(k)
  PROVE  EndIsLast'
<1> SUFFICES ASSUME NEW j \in Call PROVE NoLineBehind(j)'
  BY DEF EndIsLast
<1>1. UNCHANGED <<toHost, parcel>> /\ NoLineBehind(j)
  BY CallEffect DEF OutInv, EndIsLast
<1>2. CASE queue'[j] = queue[j]
  BY <1>1, <1>2 DEF NoLineBehind, EndInQueue, LineOnLink, Answer
<1>3. CASE queue'[j] = <<>>
  <2>1. DOMAIN queue'[j] = {}
    BY <1>3
  <2> QED
    BY <1>1, <2>1 DEF NoLineBehind, EndInQueue, LineOnLink, Answer
<1>4. CASE queue[j] # <<>> /\ queue'[j] = Tail(queue[j])
  <2>1. \A i \in DOMAIN queue'[j] : i + 1 \in DOMAIN queue[j] /\ queue'[j][i] = queue[j][i + 1] /\ i \in Nat
    BY <1>4, TailFrom, QueueTypes
  <2>2. \A i, n \in DOMAIN queue'[j] : i < n => i + 1 < n + 1
    BY <2>1
  <2>3. EndInQueue(j)' => EndInQueue(j)
    BY <2>1 DEF EndInQueue
  <2> QED
    BY <1>1, <2>1, <2>2, <2>3 DEF NoLineBehind, LineOnLink, Answer
<1> QED
  BY <1>2, <1>3, <1>4, CallEffect DEF Begins, GoesOn, Takes, Returns

(* The last event is taken with all lines taken before it. *)
LEMMA WholeCall ==
  ASSUME IInv, OutInv, NEW k \in Call, CallNext(k)
  PROVE  ResultIsWhole'
<1> SUFFICES ASSUME NEW j \in Call, result'[j] = "finished"
             PROVE  pc'[j] = "done" /\ guest'[j] = "over" /\ got'[j] = emitted'[j]
  BY DEF ResultIsWhole
<1>1. UNCHANGED <<guest, emitted, toHost, parcel>>
  BY CallEffect
<1>2. CASE j # k
  BY <1>1, <1>2, CallEffect DEF OutInv, ResultIsWhole
<1>3. CASE j = k /\ result[k] = "finished"
  BY <1>1, <1>3, CallEffect DEF OutInv, ResultIsWhole, Begins, GoesOn, Takes, Returns
<1>4. CASE j = k /\ result[k] # "finished"
  <2>1. Returns(k) /\ queue[k] # <<>> /\ Head(queue[k]) = "Finished"
    BY <1>4, CallEffect DEF Begins, GoesOn, Takes, Returns
  <2>2. 1 \in DOMAIN queue[k] /\ queue[k][1] = "Finished" /\ \A i \in DOMAIN queue[k] : i = 1 \/ 1 < i
    BY <2>1, QueueTypes
  <2>3. EndInQueue(k) /\ NoLineBehind(k)
    BY <2>2 DEF EndInQueue, OutInv, EndIsLast
  <2>4. Places(queue[k], "Output") = {} /\ Places(toHost, Answer(k, "Output")) = {}
        /\ InParcel(k) = 0
    BY <2>2, <2>3 DEF NoLineBehind, LineOnLink, InParcel, Places
  <2>5. Count(queue[k], "Output") = 0 /\ Count(toHost, Answer(k, "Output")) = 0
    BY <2>4, FS_EmptySet DEF Count
  <2>6. Lines(k) = emitted[k]
    BY <2>1 DEF OutInv, LinesCounted, Returns
  <2>7. got[k] = emitted[k]
    BY <2>4, <2>5, <2>6, QueueTypes DEF Lines
  <2>8. guest[k] = "over"
    BY <2>2 DEF IInv, CommandInv, EndIsTrue, EndOnWay
  <2> QED
    BY <1>1, <1>4, <2>1, <2>7, <2>8 DEF Returns
<1> QED
  BY <1>2, <1>3, <1>4

(* A call leaves the queues within their bounds and the pump its answer.   *)
LEMMA BoundsCall ==
  ASSUME IInv, OutInv, NEW k \in Call, CallNext(k)
  PROVE  Bounded' /\ Delivered'
<1>1. /\ UNCHANGED <<toHost, parcel, pump, guest, emitted>>
      /\ \A j \in Call \ {k} : /\ pc'[j] = pc[j] /\ queue'[j] = queue[j] /\ op'[j] = op[j]
                               /\ got'[j] = got[j]
  BY CallEffect
<1>2. \/ pc[k] = "idle" /\ queue'[k] = queue[k] /\ got'[k] = got[k]
      \/ /\ op'[k] = op[k] /\ got'[k] = got[k]
         /\ queue'[k] = queue[k] \/ queue'[k] = <<>>
      \/ Takes(k)
  BY CallEffect DEF Begins, GoesOn, Returns
<1>3. Shape'
  BY ShapeCall
<1>4. /\ queue[k] \in Seq(Events) /\ got[k] \in 0..MaxLines /\ Len(queue[k]) <= Capacity(k)
      /\ pc[k] = "idle" => queue[k] = <<>>
  BY DEF OutInv, Bounded, Delivered
<1>5. queue'[k] \in Seq(Events) /\ Len(queue'[k]) <= Capacity(k)'
  <2>1. CASE Takes(k)
    <3>1. queue[k] # <<>> /\ queue'[k] = Tail(queue[k]) /\ op'[k] = op[k]
      BY <2>1 DEF Takes
    <3>2. Tail(queue[k]) \in Seq(Events) /\ Len(Tail(queue[k])) <= Len(queue[k])
      BY <1>4, <3>1
    <3>3. Capacity(k)' = Capacity(k) /\ Capacity(k) \in Nat /\ Len(queue[k]) \in Nat
      BY <1>4, <3>1 DEF Capacity
    <3>4. Len(Tail(queue[k])) \in Nat
      BY <3>2
    <3> QED
      BY <1>4, <3>1, <3>2, <3>3, <3>4
  <2>2. CASE op'[k] = op[k] /\ (queue'[k] = queue[k] \/ queue'[k] = <<>>)
    <3>1. Capacity(k)' = Capacity(k) /\ Capacity(k) \in Nat /\ 0 <= Capacity(k)
      BY <2>2 DEF Capacity
    <3>2. <<>> \in Seq(Events) /\ Len(<<>>) = 0
      OBVIOUS
    <3> QED
      BY <1>4, <2>2, <3>1, <3>2
  <2>3. CASE pc[k] = "idle" /\ queue'[k] = queue[k]
    <3>1. queue'[k] = <<>> /\ <<>> \in Seq(Events) /\ Len(<<>>) = 0
      BY <1>4, <2>3
    <3>2. Capacity(k)' \in Nat /\ 0 <= Capacity(k)'
      BY DEF Capacity
    <3> QED
      BY <3>1, <3>2
  <2> QED
    BY <1>2, <2>1, <2>2, <2>3
<1>6. got'[k] \in 0..MaxLines
  <2>1. CASE Takes(k)
    <3>1. LinesCounted' /\ pc'[k] # "done"
      BY <2>1, LinesCall DEF Takes
    <3>2. Lines(k)' = emitted[k]
      BY <1>1, <3>1 DEF LinesCounted
    <3>3. got'[k] \in Nat /\ queue'[k] \in Seq(Events)
      BY <1>4, <1>5, <2>1 DEF Takes
    <3>4. Count(queue'[k], "Output") \in Nat
      BY <3>3, PlacesFinite
    <3>5. Lines(k)' = got'[k] + Count(queue'[k], "Output") + InParcel(k) + Count(toHost, Answer(k, "Output"))
      BY <1>1 DEF Lines, InParcel, Count, Places, Answer
    <3>6. /\ emitted[k] \in Nat /\ emitted[k] <= MaxLines /\ InParcel(k) \in Nat
          /\ Count(toHost, Answer(k, "Output")) \in Nat
      BY QueueTypes
    <3> DEFINE n == got'[k]
               a == Count(queue'[k], "Output")
               b == InParcel(k)
               c == Count(toHost, Answer(k, "Output"))
    <3>7. n + a + b + c = emitted[k] /\ n \in Nat /\ a \in Nat /\ b \in Nat /\ c \in Nat
      BY <3>2, <3>3, <3>4, <3>5, <3>6
    <3> HIDE DEF n, a, b, c
    <3>8. n <= emitted[k]
      BY <3>6, <3>7
    <3>9. got'[k] <= MaxLines
      BY <3>6, <3>7, <3>8 DEF n
    <3> QED
      BY <3>3, <3>9
  <2> QED
    BY <1>2, <1>4, <2>1
<1>7. Bounded'
  <2>1. \A j \in Call : queue'[j] \in Seq(Events) /\ got'[j] \in 0..MaxLines
    BY <1>1, <1>5, <1>6 DEF OutInv, Bounded
  <2>2. \A j \in Call : Len(queue'[j]) <= Capacity(j)'
    BY <1>1, <1>5 DEF OutInv, Bounded, Capacity
  <2>3. queue' = [j \in Call |-> queue'[j]] /\ got' = [j \in Call |-> got'[j]]
    <3>1. UNCHANGED got \/ got' = [got EXCEPT ![k] = @ + 1]
      BY DEF CallNext, SendNext, LoopNext, Start, LockWriter, WriteRequest, WriteKill,
         Expire, PingReturns, TakeEvent, ExecLosesAgent, Notify, GiveUp, NotifyTaken
    <3>2. got' = [j \in Call |-> got'[j]]
      BY <3>1 DEF OutInv, Bounded
    <3> QED
      BY <1>3, <3>2 DEF Shape
  <2> QED
    BY <1>1, <2>1, <2>2, <2>3 DEF OutInv, Bounded
<1>8. Delivered'
  <2>1. pc'[k] # "idle" /\ \A j \in Call : pc[j] # "idle" => pc'[j] # "idle"
    BY <1>1, CallEffect DEF Begins, GoesOn, Takes, Returns
  <2>2. \A j \in Call : pc'[j] = "idle" => queue'[j] = <<>>
    BY <1>1, <2>1 DEF OutInv, Delivered
  <2>3. pump # "done" => \A j \in Call : pc'[j] \notin {"idle", "done"} => j \in pending'
    <3>1. ASSUME NEW j \in Call, j \in pending, j # k \/ pc'[k] # "done"
          PROVE  j \in pending'
      <4>1. CASE Begins(k)
        BY <3>1, <4>1 DEF Begins
      <4>2. CASE GoesOn(k) \/ Takes(k)
        BY <3>1, <4>2 DEF GoesOn, Takes
      <4>3. CASE Returns(k)
        BY <3>1, <4>3 DEF Returns
      <4> QED
        BY <4>1, <4>2, <4>3, CallEffect
    <3>2. pc[k] = "idle" => k \in pending'
      BY CallEffect DEF Begins, GoesOn, Takes, Returns
    <3>3. pc[k] # "done"
      BY CallEffect DEF Begins, GoesOn, Takes, Returns
    <3> QED
      BY <1>1, <3>1, <3>2, <3>3 DEF OutInv, Delivered
  <2>4. /\ pump' # "send" => parcel' = Answer(NO_CALL, "none")
        /\ pump' = "send" => parcel'.id \in Call /\ pc'[parcel'.id] # "idle" /\ parcel'.type \in Events
        /\ \A i \in DOMAIN toHost' : toHost'[i].id \in Call => toHost'[i].type \in Events
        /\ \A j \in Call : emitted'[j] > 0 => guest'[j] # "none"
    BY <1>1, <2>1 DEF OutInv, Delivered
  <2>5. pump' = pump
    BY <1>1
  <2> QED
    BY <2>2, <2>3, <2>4, <2>5 DEF Delivered, Answer
<1> QED
  BY <1>7, <1>8

(* The marks of a call stay what they may be. *)
LEMMA MarksCall ==
  ASSUME IInv, OutInv, NEW k \in Call, CallNext(k)
  PROVE  Marked'
<1> DEFINE Results == {"none", "answered", "finished", "failed", "timeout", "cancelled"}
<1>1. /\ expired \in [Call -> BOOLEAN] /\ result \in [Call -> Results]
      /\ locked \in BOOLEAN /\ writer \in Call \union {NO_CALL}
  BY DEF OutInv, Marked
<1>2. expired' \in [Call -> BOOLEAN]
  BY <1>1 DEF CallNext, SendNext, LoopNext, Start, LockWriter, WriteRequest, WriteKill, Return,
     Expire, PingReturns, TakeEvent, ExecLosesAgent, Notify, GiveUp, NotifyTaken
<1>3. locked' \in BOOLEAN /\ writer' \in Call \union {NO_CALL}
  BY <1>1 DEF CallNext, SendNext, LoopNext, Start, LockWriter, WriteRequest, WriteKill, Return,
     Expire, PingReturns, TakeEvent, ExecLosesAgent, Notify, GiveUp, NotifyTaken
<1>4. result' \in [Call -> Results]
  <2>1. \/ UNCHANGED result
        \/ \E how \in Results : result' = [result EXCEPT ![k] = how]
    BY <1>1 DEF CallNext, SendNext, LoopNext, Start, LockWriter, WriteRequest, WriteKill, Return,
       Expire, PingReturns, TakeEvent, ExecLosesAgent, Notify, GiveUp, NotifyTaken
  <2> QED
    BY <1>1, <2>1
<1> QED
  BY <1>2, <1>3, <1>4, CallEffect DEF OutInv, Marked

(* The pump and the guest touch nothing of a call but its queue. *)
LEMMA RestEffect ==
  ASSUME IInv, OutInv, PumpNext \/ GuestNext
  PROVE  UNCHANGED <<pc, op, got, result>> /\ Marked'
<1>1. UNCHANGED <<pc, op, got, result, expired, writer>>
  BY DEF PumpNext, PumpReads, PumpDelivers, PumpEnds, GuestNext, GuestAnswers,
     GuestEmits, GuestFinishes, LinkBreaks, callVars
<1>2. locked' \in BOOLEAN /\ pump' \in {"read", "send", "done"} /\ link' \in {"up", "down"}
  BY DEF PumpNext, PumpReads, PumpDelivers, PumpEnds, GuestNext, GuestAnswers, HostSees,
     GuestEmits, GuestFinishes, LinkBreaks, pumpVars, linkVars, OutInv, Marked
<1> QED
  BY <1>1, <1>2 DEF OutInv, Marked

(* An answer is what it says, and whose. *)
LEMMA AnswerIs ==
  ASSUME NEW a \in Answers, NEW k, NEW type
  PROVE  a = Answer(k, type) <=> a.id = k /\ a.type = type
BY DEF Answer, Answers

(* The pump takes the first answer: it has it, or drops it because the call *)
(* has returned or not begun.                                               *)
LEMMA OutReads ==
  ASSUME IInv, OutInv, PumpReads
  PROVE  OutInv'
<1> DEFINE a == Head(toHost)
<1>1. /\ pump = "read" /\ toHost # <<>> /\ toHost' = Tail(toHost)
      /\ UNCHANGED <<pc, op, got, result, queue, pending, emitted, guest>>
  BY DEF PumpReads, callVars, guestVars
<1>2. Marked'
  BY RestEffect DEF PumpNext
<1>3. parcel = Answer(NO_CALL, "none") /\ parcel.id = NO_CALL
  BY <1>1 DEF OutInv, Delivered, Answer
<1>4. toHost \in Seq(Answers) /\ a \in Answers /\ Tail(toHost) \in Seq(Answers)
  BY <1>1 DEF IInv, Shape
<1>5. /\ \A i \in DOMAIN toHost' : i + 1 \in DOMAIN toHost /\ toHost'[i] = toHost[i + 1] /\ i \in Nat
      /\ 1 \in DOMAIN toHost /\ toHost[1] = a
  BY <1>1, <1>4, TailFrom
<1>6. \/ a.id \in pending /\ pump' = "send" /\ parcel' = a
      \/ a.id \notin pending /\ UNCHANGED <<pump, parcel>>
  BY DEF PumpReads, pumpVars
<1>7. Bounded'
  BY <1>1 DEF OutInv, Bounded, Capacity
<1>8. ResultIsWhole'
  BY <1>1 DEF OutInv, ResultIsWhole
<1>9. Delivered'
  <2>1. a.id \in Call => a.type \in Events
    BY <1>5 DEF OutInv, Delivered
  <2>2. a.id \in pending => a.id \in Call /\ pc[a.id] # "idle"
    BY DEF IInv, Shape, RegInv, NoPendingLeak
  <2>3. \A i \in DOMAIN toHost' : toHost'[i].id \in Call => toHost'[i].type \in Events
    BY <1>5 DEF OutInv, Delivered
  <2>4. /\ pump' # "send" => parcel' = Answer(NO_CALL, "none")
        /\ pump' = "send" => parcel'.id \in Call /\ pc'[parcel'.id] # "idle" /\ parcel'.type \in Events
    BY <1>1, <1>3, <1>6, <2>1, <2>2
  <2>5. /\ \A k \in Call : pc'[k] \notin {"idle", "done"} => k \in pending'
        /\ \A k \in Call : pc'[k] = "idle" => queue'[k] = <<>>
        /\ \A k \in Call : emitted'[k] > 0 => guest'[k] # "none"
    BY <1>1 DEF OutInv, Delivered
  <2> QED
    BY <2>3, <2>4, <2>5 DEF Delivered, Answer
<1>10. LinesCounted'
  <2> SUFFICES ASSUME NEW k \in Call, pc'[k] # "done" PROVE Lines(k)' = emitted'[k]
    BY DEF LinesCounted
  <2> DEFINE m == Count(Tail(toHost), Answer(k, "Output"))
             n == Count(toHost, Answer(k, "Output"))
             q == Count(queue[k], "Output")
  <2>1. n = IF a = Answer(k, "Output") THEN m + 1 ELSE m
    BY <1>1, <1>4, CountTail
  <2>2. m \in Nat /\ n \in Nat /\ q \in Nat /\ got[k] \in Nat /\ emitted[k] \in Nat
    BY <1>4, QueueTypes, PlacesFinite
  <2>3. InParcel(k) = 0
    BY <1>3 DEF InParcel, Answer
  <2>4. Lines(k) = got[k] + q + InParcel(k) + n /\ Lines(k) = emitted[k]
    BY <1>1 DEF Lines, OutInv, LinesCounted
  <2>5. Lines(k)' = got[k] + q + InParcel(k)' + m
    BY <1>1 DEF Lines, Count, Places, Answer
  <2>6. CASE a.id \in pending /\ parcel' = a
    <3>1. InParcel(k)' = IF a = Answer(k, "Output") THEN 1 ELSE 0
      BY <2>6 DEF InParcel, Answer
    <3> HIDE DEF m, n, q, a
    <3>2. Lines(k)' = emitted[k]
      BY <2>1, <2>2, <2>3, <2>4, <2>5, <3>1
    <3> QED
      BY <1>1, <3>2
  <2>7. CASE a.id \notin pending /\ UNCHANGED parcel
    <3>1. InParcel(k)' = 0
      BY <1>3, <2>7 DEF InParcel, Answer
    <3>2. a # Answer(k, "Output")
      <4> SUFFICES ASSUME a = Answer(k, "Output") PROVE FALSE
        OBVIOUS
      <4>1. k \notin pending /\ pc[k] = "idle"
        BY <1>1, <2>7 DEF Answer, OutInv, Delivered
      <4>2. guest[k] = "none"
        BY <4>1 DEF IInv, CommandInv, AskedOnce, Early
      <4>3. ~(emitted[k] > 0)
        BY <4>2 DEF OutInv, Delivered
      <4>4. n = m + 1
        BY <2>1
      <4> HIDE DEF m, n, q
      <4> QED
        BY <2>2, <2>3, <2>4, <4>3, <4>4
    <3> HIDE DEF m, n, q, a
    <3>3. Lines(k)' = emitted[k]
      BY <2>1, <2>2, <2>3, <2>4, <2>5, <3>1, <3>2
    <3> QED
      BY <1>1, <3>3
  <2> QED
    BY <1>6, <2>6, <2>7
<1>11. EndIsLast'
  <2> SUFFICES ASSUME NEW k \in Call PROVE NoLineBehind(k)'
    BY DEF EndIsLast
  <2>1. NoLineBehind(k)
    BY DEF OutInv, EndIsLast
  <2>2. \A i, j \in DOMAIN toHost' : i < j => i + 1 < j + 1 /\ 1 < j + 1
    BY <1>5
  <2>3. \A i \in DOMAIN toHost' : 1 < i + 1
    <3>1. toHost' \in Seq(Answers)
      BY <1>1, <1>4
    <3> QED
      BY <3>1
  <2>4. LineOnLink(k)' => LineOnLink(k)
    BY <1>5 DEF LineOnLink, Answer
  <2>5. a = Answer(k, "Output") => LineOnLink(k)
    BY <1>5 DEF LineOnLink
  <2>6. a = Answer(k, "Finished") => ~LineOnLink(k)'
    BY <1>5, <2>1, <2>3 DEF NoLineBehind, LineOnLink, Answer
  <2>7. EndInQueue(k)' <=> EndInQueue(k)
    BY <1>1 DEF EndInQueue
  <2>8. parcel' = a \/ parcel' = parcel
    BY <1>6
  <2>9. \A i, j \in DOMAIN toHost' :
          i < j /\ toHost'[i] = Answer(k, "Finished") => toHost'[j] # Answer(k, "Output")
    BY <1>5, <2>1, <2>2 DEF NoLineBehind
  <2>10. /\ EndInQueue(k) => parcel' # Answer(k, "Output")
         /\ EndInQueue(k) \/ parcel' = Answer(k, "Finished") => ~LineOnLink(k)'
    BY <2>1, <2>4, <2>5, <2>6, <2>8 DEF NoLineBehind
  <2> QED
    BY <1>1, <2>1, <2>7, <2>9, <2>10 DEF NoLineBehind, Answer
<1> QED
  BY <1>2, <1>7, <1>8, <1>9, <1>10, <1>11 DEF OutInv

(* The pump puts its answer into the queue of the call, or drops it because *)
(* the call has returned.                                                   *)
LEMMA OutDelivers ==
  ASSUME IInv, OutInv, PumpDelivers
  PROVE  OutInv'
<1> DEFINE c == parcel.id
<1>1. /\ pump = "send" /\ pump' = "read" /\ parcel' = Answer(NO_CALL, "none")
      /\ UNCHANGED <<pc, op, got, result, pending, emitted, guest, toHost>>
  BY DEF PumpDelivers, callVars, linkVars, guestVars
<1>2. Marked'
  BY RestEffect DEF PumpNext
<1>3. c \in Call /\ pc[c] # "idle" /\ parcel.type \in Events /\ parcel \in Answers
  BY <1>1 DEF OutInv, Delivered, IInv, Shape
<1>4. /\ queue \in [Call -> Seq(Events)] /\ queue[c] \in Seq(Events)
      /\ \A j \in Call : Len(queue[j]) <= Capacity(j)
  BY <1>3 DEF OutInv, Bounded
<1>5. \/ /\ pc[c] # "done" /\ Len(queue[c]) < Capacity(c)
         /\ queue' = [queue EXCEPT ![c] = Append(queue[c], parcel.type)]
      \/ pc[c] = "done" /\ UNCHANGED queue
  BY <1>3, <1>4 DEF PumpDelivers
<1>6. \A j \in Call \ {c} : queue'[j] = queue[j]
  BY <1>4, <1>5
<1>7. \/ /\ pc[c] # "done" /\ Len(queue[c]) < Capacity(c)
         /\ queue'[c] = Append(queue[c], parcel.type)
      \/ pc[c] = "done" /\ queue'[c] = queue[c]
  BY <1>3, <1>4, <1>5
<1>8. Append(queue[c], parcel.type) \in Seq(Events)
      /\ Len(Append(queue[c], parcel.type)) = Len(queue[c]) + 1 /\ Len(queue[c]) \in Nat
  BY <1>3, <1>4
<1>9. Bounded'
  <2>1. queue' \in [Call -> Seq(Events)]
    BY <1>3, <1>4, <1>5, <1>8
  <2>2. \A j \in Call : Capacity(j)' = Capacity(j) /\ Capacity(j) \in Nat
    BY <1>1 DEF Capacity
  <2>3. Len(queue'[c]) <= Capacity(c)
    BY <1>3, <1>4, <1>7, <1>8, <2>2
  <2>4. \A j \in Call : Len(queue'[j]) <= Capacity(j)'
    BY <1>4, <1>6, <2>2, <2>3
  <2> QED
    BY <1>1, <2>1, <2>4 DEF OutInv, Bounded
<1>10. ResultIsWhole'
  BY <1>1 DEF OutInv, ResultIsWhole
<1>11. Delivered'
  <2>1. \A j \in Call : pc'[j] = "idle" => queue'[j] = <<>>
    BY <1>1, <1>3, <1>6 DEF OutInv, Delivered
  <2>2. /\ \A i \in DOMAIN toHost' : toHost'[i].id \in Call => toHost'[i].type \in Events
        /\ \A k \in Call : emitted'[k] > 0 => guest'[k] # "none"
        /\ pump' # "done" => \A k \in Call : pc'[k] \notin {"idle", "done"} => k \in pending'
    BY <1>1 DEF OutInv, Delivered
  <2> QED
    BY <1>1, <2>1, <2>2 DEF Delivered, Answer
<1>12. \A k \in Call : InParcel(k)' = 0
  BY <1>1 DEF InParcel, Answer
<1>13. LinesCounted'
  <2> SUFFICES ASSUME NEW k \in Call, pc'[k] # "done" PROVE Lines(k)' = emitted'[k]
    BY DEF LinesCounted
  <2> DEFINE n == Count(toHost, Answer(k, "Output"))
             q == Count(queue[k], "Output")
             r == Count(queue'[k], "Output")
  <2>1. n \in Nat /\ q \in Nat /\ got[k] \in Nat /\ emitted[k] \in Nat
    BY QueueTypes
  <2>2. Lines(k) = got[k] + q + InParcel(k) + n /\ Lines(k) = emitted[k]
    BY <1>1 DEF Lines, OutInv, LinesCounted
  <2>3. Lines(k)' = got[k] + r + 0 + n
    BY <1>1, <1>12 DEF Lines, Count, Places, Answer
  <2>4. r = q + InParcel(k)
    <3>1. CASE k = c
      <4>1. r = IF parcel.type = "Output" THEN q + 1 ELSE q
        <5>1. IF parcel.type = "Output" THEN Count(Append(queue[c], parcel.type), "Output") = q + 1
                                        ELSE Count(Append(queue[c], parcel.type), "Output") = q
          BY <1>3, <1>4, <3>1, CountAppend
        <5>2. queue'[c] = Append(queue[c], parcel.type)
          BY <1>1, <1>7, <3>1
        <5> QED
          BY <3>1, <5>1, <5>2
      <4>2. parcel = Answer(k, "Output") <=> parcel.type = "Output"
        BY <1>3, <3>1, AnswerIs
      <4> QED
        BY <2>1, <4>1, <4>2 DEF InParcel
    <3>2. CASE k # c
      <4>1. InParcel(k) = 0 /\ r = q
        BY <1>6, <3>2 DEF InParcel, Answer
      <4> QED
        BY <2>1, <4>1
    <3> QED
      BY <3>1, <3>2
  <2>5. InParcel(k) \in {0, 1}
    BY DEF InParcel
  <2> HIDE DEF n, q, r
  <2>6. Lines(k)' = emitted[k]
    BY <2>1, <2>2, <2>3, <2>4, <2>5
  <2> QED
    BY <1>1, <2>6
<1>14. EndIsLast'
  <2> SUFFICES ASSUME NEW k \in Call PROVE NoLineBehind(k)'
    BY DEF EndIsLast
  <2>1. NoLineBehind(k)
    BY DEF OutInv, EndIsLast
  <2>2. parcel' # Answer(k, "Output") /\ parcel' # Answer(k, "Finished")
    BY <1>1 DEF Answer
  <2>3. LineOnLink(k)' <=> LineOnLink(k)
    BY <1>1 DEF LineOnLink, Answer
  <2>4. CASE queue'[k] = queue[k]
    BY <1>1, <2>1, <2>2, <2>3, <2>4 DEF NoLineBehind, EndInQueue, Answer
  <2>5. CASE k = c /\ queue'[k] = Append(queue[k], parcel.type)
    <3> DEFINE z == Len(queue[k]) + 1
    <3>1. /\ DOMAIN queue'[k] = DOMAIN queue[k] \union {z}
          /\ \A i \in DOMAIN queue[k] : queue'[k][i] = queue[k][i] /\ i < z /\ i \in Nat
          /\ queue'[k][z] = parcel.type /\ z \in Nat
      BY <1>3, <1>4, <2>5, AppendTo
    <3>2. \A type : parcel = Answer(k, type) <=> parcel.type = type
      BY <1>3, <2>5, AnswerIs
    <3>3. EndInQueue(k)' => EndInQueue(k) \/ parcel = Answer(k, "Finished")
      BY <3>1, <3>2 DEF EndInQueue
    <3>4. ASSUME NEW i \in DOMAIN queue'[k], NEW j \in DOMAIN queue'[k],
                 i < j, queue'[k][i] = "Finished"
          PROVE  queue'[k][j] # "Output"
      <4>1. i \in DOMAIN queue[k]
        <5> HIDE DEF z
        <5>1. CASE i = z
          BY <3>1, <3>4, <5>1
        <5> QED
          BY <3>1, <5>1
      <4>2. CASE j \in DOMAIN queue[k]
        BY <2>1, <3>1, <3>4, <4>1, <4>2 DEF NoLineBehind
      <4>3. CASE j = z
        <5>1. EndInQueue(k)
          BY <3>1, <3>4, <4>1 DEF EndInQueue
        <5>2. parcel.type # "Output"
          BY <2>1, <3>2, <5>1 DEF NoLineBehind
        <5> QED
          BY <3>1, <4>3, <5>2
      <4> QED
        BY <3>1, <4>2, <4>3
    <3>5. EndInQueue(k)' => ~LineOnLink(k)
      BY <2>1, <3>3 DEF NoLineBehind
    <3> QED
      BY <1>1, <2>1, <2>2, <2>3, <3>4, <3>5 DEF NoLineBehind, Answer
  <2> QED
    BY <1>6, <1>7, <2>4, <2>5
<1> QED
  BY <1>2, <1>9, <1>10, <1>11, <1>13, <1>14 DEF OutInv

(* The pump has read everything when it ends. *)
LEMMA OutEnds ==
  ASSUME IInv, OutInv, PumpEnds
  PROVE  OutInv'
<1>1. /\ pump' = "done" /\ pump = "read"
      /\ UNCHANGED <<pc, op, got, result, queue, parcel, emitted, guest, toHost>>
  BY DEF PumpEnds, callVars, linkVars, guestVars
<1>2. Marked'
  BY RestEffect DEF PumpNext
<1>3. Delivered'
  BY <1>1 DEF OutInv, Delivered, Answer
<1>4. Bounded' /\ ResultIsWhole'
  BY <1>1 DEF OutInv, Bounded, Capacity, ResultIsWhole
<1>5. LinesCounted'
  BY <1>1 DEF OutInv, LinesCounted, Lines, InParcel, Count, Places, Answer
<1>6. EndIsLast'
  BY <1>1 DEF OutInv, EndIsLast, NoLineBehind, EndInQueue, LineOnLink, Answer
<1> QED
  BY <1>2, <1>3, <1>4, <1>5, <1>6 DEF OutInv

(* What the host sees of the guest: one answer more at the end of the link, *)
(* a line only of a command whose end is not on its way.                    *)
LEMMA OutSees ==
  ASSUME IInv, OutInv, GuestNext, NEW a \in Answers, HostSees(a),
         a.id \in Call => a.type \in Events,
         guest' \in [Call -> {"none", "running", "dying", "over"}],
         emitted' \in [Call -> 0..MaxLines],
         \A k \in Call :
           /\ emitted'[k] = IF a = Answer(k, "Output") THEN emitted[k] + 1 ELSE emitted[k]
           /\ a = Answer(k, "Output") => ~EndOnWay(k) /\ guest[k] \notin {"none", "over"}
           /\ guest[k] = "over" => guest'[k] = "over"
           /\ guest[k] # "none" => guest'[k] # "none"
  PROVE  OutInv'
<1>1. /\ toHost \in Seq(Answers) /\ toHost' = Append(toHost, a)
      /\ UNCHANGED <<pc, op, got, result, queue, pump, parcel, pending>>
  BY DEF IInv, Shape, HostSees, GuestNext, GuestAnswers, GuestEmits, GuestFinishes,
     LinkBreaks, callVars, pumpVars
<1>2. Marked'
  BY RestEffect
<1> DEFINE z == Len(toHost) + 1
<1>3. /\ DOMAIN toHost' = DOMAIN toHost \union {z}
      /\ \A i \in DOMAIN toHost : toHost'[i] = toHost[i] /\ i < z /\ i \in Nat
      /\ toHost'[z] = a /\ z \in Nat
  BY <1>1, AppendTo
<1>4. Bounded'
  BY <1>1 DEF OutInv, Bounded, Capacity
<1>5. Delivered'
  <2>1. \A i \in DOMAIN toHost' : toHost'[i].id \in Call => toHost'[i].type \in Events
    BY <1>3 DEF OutInv, Delivered
  <2>2. \A k \in Call : emitted'[k] > 0 => guest'[k] # "none"
    <3> SUFFICES ASSUME NEW k \in Call, guest'[k] = "none" PROVE ~(emitted'[k] > 0)
      OBVIOUS
    <3>1. guest[k] = "none" /\ a # Answer(k, "Output")
      OBVIOUS
    <3>2. emitted'[k] = emitted[k]
      BY <3>1
    <3> QED
      BY <3>1, <3>2 DEF OutInv, Delivered
  <2>3. /\ pump' # "send" => parcel' = Answer(NO_CALL, "none")
        /\ pump' = "send" => parcel'.id \in Call /\ pc'[parcel'.id] # "idle" /\ parcel'.type \in Events
        /\ pump' # "done" => \A k \in Call : pc'[k] \notin {"idle", "done"} => k \in pending'
        /\ \A k \in Call : pc'[k] = "idle" => queue'[k] = <<>>
    BY <1>1 DEF OutInv, Delivered
  <2> QED
    BY <2>1, <2>2, <2>3 DEF Delivered, Answer
<1>6. LinesCounted'
  <2> SUFFICES ASSUME NEW k \in Call, pc'[k] # "done" PROVE Lines(k)' = emitted'[k]
    BY DEF LinesCounted
  <2> DEFINE n == Count(toHost, Answer(k, "Output"))
             m == Count(toHost', Answer(k, "Output"))
             q == Count(queue[k], "Output")
             p == InParcel(k)
  <2>1. n \in Nat /\ q \in Nat /\ got[k] \in Nat /\ emitted[k] \in Nat /\ p \in {0, 1}
    BY QueueTypes
  <2>2. Lines(k) = got[k] + q + p + n /\ Lines(k) = emitted[k]
    BY <1>1 DEF Lines, OutInv, LinesCounted
  <2>3. Lines(k)' = got[k] + q + p + m
    BY <1>1 DEF Lines, Count, Places, Answer, InParcel
  <2>4. m = IF a = Answer(k, "Output") THEN n + 1 ELSE n
    <3>1. IF a = Answer(k, "Output") THEN Count(Append(toHost, a), Answer(k, "Output")) = n + 1
                                     ELSE Count(Append(toHost, a), Answer(k, "Output")) = n
      BY <1>1, CountAppend
    <3> QED
      BY <1>1, <3>1
  <2>5. emitted'[k] = IF a = Answer(k, "Output") THEN emitted[k] + 1 ELSE emitted[k]
    OBVIOUS
  <2> HIDE DEF n, m, q, p
  <2> QED
    BY <2>1, <2>2, <2>3, <2>4, <2>5
<1>7. EndIsLast'
  <2> SUFFICES ASSUME NEW k \in Call PROVE NoLineBehind(k)'
    BY DEF EndIsLast
  <2>1. NoLineBehind(k)
    BY DEF OutInv, EndIsLast
  <2>2. EndInQueue(k)' <=> EndInQueue(k)
    BY <1>1 DEF EndInQueue
  <2>3. LineOnLink(k)' => LineOnLink(k) \/ a = Answer(k, "Output")
    BY <1>3 DEF LineOnLink, Answer
  <2>4. a = Answer(k, "Output") =>
          /\ ~EndInQueue(k) /\ parcel # Answer(k, "Finished")
          /\ \A i \in DOMAIN toHost : toHost[i] # Answer(k, "Finished")
    <3>1. ~EndOnWay(k) => /\ ~EndInQueue(k) /\ parcel # Answer(k, "Finished")
                          /\ \A i \in DOMAIN toHost : toHost[i] # Answer(k, "Finished")
      BY DEF EndOnWay, EndInQueue, Answer
    <3> QED
      BY <3>1
  <2>5. ASSUME NEW i \in DOMAIN toHost', NEW j \in DOMAIN toHost', i < j,
               toHost'[i] = Answer(k, "Finished")
        PROVE  toHost'[j] # Answer(k, "Output")
    <3> HIDE DEF z
    <3>1. i \in DOMAIN toHost
      <4>1. CASE i = z
        BY <1>3, <2>5, <4>1
      <4> QED
        BY <1>3, <4>1
    <3>2. CASE j \in DOMAIN toHost
      BY <1>3, <2>1, <2>5, <3>1, <3>2 DEF NoLineBehind
    <3>3. CASE j = z
      BY <1>3, <2>4, <2>5, <3>1, <3>3
    <3> QED
      BY <1>3, <3>2, <3>3
  <2>6. EndInQueue(k) \/ parcel = Answer(k, "Finished") => ~LineOnLink(k)'
    BY <2>1, <2>3, <2>4 DEF NoLineBehind
  <2> QED
    BY <1>1, <2>1, <2>2, <2>5, <2>6 DEF NoLineBehind, Answer
<1>8. ResultIsWhole'
  <2> SUFFICES ASSUME NEW k \in Call, result'[k] = "finished"
               PROVE  pc'[k] = "done" /\ guest'[k] = "over" /\ got'[k] = emitted'[k]
    BY DEF ResultIsWhole
  <2>1. pc[k] = "done" /\ guest[k] = "over" /\ got[k] = emitted[k]
    BY <1>1 DEF OutInv, ResultIsWhole
  <2>2. a # Answer(k, "Output")
    BY <2>1
  <2> QED
    BY <1>1, <2>1, <2>2
<1> QED
  BY <1>2, <1>4, <1>5, <1>6, <1>7, <1>8 DEF OutInv

(* The guest answers, sends lines, ends commands, or goes with QEMU. *)
LEMMA OutGuest ==
  ASSUME IInv, OutInv, GuestNext
  PROVE  OutInv'
<1>1. /\ guest \in [Call -> {"none", "running", "dying", "over"}]
      /\ emitted \in [Call -> 0..MaxLines]
  BY DEF IInv, Shape, OutInv, Bounded
<1>2. \A k \in Call \union {NO_CALL} : \A type \in Kinds :
        /\ Answer(k, type) \in Answers
        /\ Answer(k, type).id = k /\ Answer(k, type).type = type
        /\ \A j \in Call : Answer(k, type) = Answer(j, "Output") <=> k = j /\ type = "Output"
  BY DEF Answer, Answers
<1>3. CASE GuestAnswers
  <2>1. toGuest \in Seq(Requests) /\ toGuest # <<>>
    BY <1>3 DEF GuestAnswers, IInv, Shape
  <2>2. Head(toGuest) \in Requests /\ 1 \in DOMAIN toGuest /\ toGuest[1] = Head(toGuest)
    BY <2>1, TailFrom
  <2> DEFINE c == Head(toGuest).call
  <2>3. c \in Call /\ (Head(toGuest).type = "Exec" => guest[c] = "none")
    BY <2>2 DEF IInv, CommandInv, AskedOnce, Requests
  <2>4. UNCHANGED emitted
    BY <1>3 DEF GuestAnswers
  <2>5. PICK a \in {Answer(c, "Pong"), Answer(c, "Started"), Answer(c, "Refused"),
                    Answer(NO_CALL, "Killed")} :
          /\ HostSees(a)
          /\ \/ UNCHANGED guest
             \/ guest[c] = "none" /\ guest' = [guest EXCEPT ![c] = "running"]
             \/ guest[c] = "none" /\ guest' = [guest EXCEPT ![c] = "over"]
             \/ guest[c] = "running" /\ guest' = [guest EXCEPT ![c] = "dying"]
    BY <1>3, <2>3 DEF GuestAnswers
  <2>6. /\ a \in Answers /\ (a.id \in Call => a.type \in Events)
        /\ \A k \in Call : a # Answer(k, "Output")
    BY <1>2, <2>3 DEF Kinds, Events
  <2>7. guest' \in [Call -> {"none", "running", "dying", "over"}]
    BY <1>1, <2>5
  <2>8. \A k \in Call : /\ guest[k] = "over" => guest'[k] = "over"
                       /\ guest[k] # "none" => guest'[k] # "none"
    BY <1>1, <2>3, <2>5
  <2> QED
    BY <1>1, <2>4, <2>5, <2>6, <2>7, <2>8, OutSees
<1>4. ASSUME NEW c \in Call, GuestEmits(c)
      PROVE  OutInv'
  <2>1. /\ guest[c] \in {"running", "dying"} /\ emitted[c] < MaxLines
        /\ HostSees(Answer(c, "Output")) /\ UNCHANGED guest
        /\ emitted' = [emitted EXCEPT ![c] = emitted[c] + 1]
    BY <1>1, <1>4 DEF GuestEmits
  <2>2. ~EndOnWay(c)
    BY <2>1 DEF IInv, CommandInv, EndIsTrue
  <2>3. emitted' \in [Call -> 0..MaxLines]
    <3>1. emitted[c] + 1 \in 0..MaxLines
      BY <1>1, <2>1
    <3> QED
      BY <1>1, <2>1, <3>1
  <2>4. /\ Answer(c, "Output") \in Answers
        /\ Answer(c, "Output").id = c /\ Answer(c, "Output").type \in Events
        /\ \A k \in Call : Answer(c, "Output") = Answer(k, "Output") <=> k = c
    BY <1>2 DEF Kinds, Events
  <2>5. \A k \in Call : emitted'[k] = IF k = c THEN emitted[k] + 1 ELSE emitted[k]
    BY <1>1, <2>1
  <2> QED
    BY <1>1, <2>1, <2>2, <2>3, <2>4, <2>5, OutSees
<1>5. ASSUME NEW c \in Call, GuestFinishes(c)
      PROVE  OutInv'
  <2>1. /\ guest[c] \in {"running", "dying"} /\ UNCHANGED emitted
        /\ HostSees(Answer(c, "Finished"))
        /\ guest' = [guest EXCEPT ![c] = "over"]
    BY <1>5 DEF GuestFinishes
  <2>2. /\ Answer(c, "Finished") \in Answers
        /\ Answer(c, "Finished").type \in Events
        /\ \A k \in Call : Answer(c, "Finished") # Answer(k, "Output")
    BY <1>2 DEF Kinds, Events
  <2>3. /\ guest' \in [Call -> {"none", "running", "dying", "over"}]
        /\ \A k \in Call : /\ guest[k] = "over" => guest'[k] = "over"
                           /\ guest[k] # "none" => guest'[k] # "none"
    BY <1>1, <2>1
  <2> QED
    BY <1>1, <2>1, <2>2, <2>3, OutSees
<1>6. CASE LinkBreaks
  <2>1. /\ UNCHANGED <<pc, op, got, result, queue, pump, parcel, pending, toHost, emitted>>
        /\ guest' = [k \in Call |-> IF guest[k] = "none" THEN "none" ELSE "over"]
    BY <1>6 DEF LinkBreaks, callVars, pumpVars
  <2>2. Marked'
    BY RestEffect
  <2>3. Delivered'
    BY <2>1 DEF OutInv, Delivered, Answer
  <2>4. Bounded' /\ ResultIsWhole'
    BY <2>1 DEF OutInv, Bounded, Capacity, ResultIsWhole
  <2>5. LinesCounted'
    BY <2>1 DEF OutInv, LinesCounted, Lines, InParcel, Count, Places, Answer
  <2>6. EndIsLast'
    BY <2>1 DEF OutInv, EndIsLast, NoLineBehind, EndInQueue, LineOnLink, Answer
  <2> QED
    BY <2>2, <2>3, <2>4, <2>5, <2>6 DEF OutInv
<1> QED
  BY <1>3, <1>4, <1>5, <1>6 DEF GuestNext

-----------------------------------------------------------------------------
(* Nothing has been sent at first. *)
LEMMA OutInit == Init => OutInv
<1> SUFFICES ASSUME Init PROVE OutInv
  OBVIOUS
<1>1. <<>> \in Seq(Events) /\ Len(<<>>) = 0
  OBVIOUS
<1>2. Bounded
  BY <1>1 DEF Init, Bounded, Capacity
<1>3. Marked
  BY DEF Init, Marked
<1>4. toHost = <<>> /\ DOMAIN toHost = {}
  BY DEF Init
<1>5. Delivered
  BY <1>4 DEF Init, Delivered
<1>6. LinesCounted
  <2>1. \A k \in Call : /\ Count(queue[k], "Output") = 0 /\ Count(toHost, Answer(k, "Output")) = 0
                       /\ InParcel(k) = 0 /\ got[k] = 0 /\ emitted[k] = 0
    BY CountEmpty DEF Init, InParcel, Answer
  <2> QED
    BY <2>1 DEF LinesCounted, Lines
<1>7. EndIsLast
  <2> SUFFICES ASSUME NEW k \in Call PROVE NoLineBehind(k)
    BY DEF EndIsLast
  <2>1. DOMAIN queue[k] = {} /\ parcel = Answer(NO_CALL, "none")
    BY DEF Init
  <2> QED
    BY <1>4, <2>1 DEF NoLineBehind, EndInQueue, LineOnLink
<1>8. ResultIsWhole
  BY DEF Init, ResultIsWhole
<1> QED
  BY <1>2, <1>3, <1>5, <1>6, <1>7, <1>8 DEF OutInv

(* Every step, and every stutter, keeps the lines together. *)
LEMMA OutStep == IInv /\ OutInv /\ [Next]_vars => OutInv'
<1> SUFFICES ASSUME IInv, OutInv, [Next]_vars PROVE OutInv'
  OBVIOUS
<1>1. ASSUME NEW k \in Call, CallNext(k)
      PROVE  OutInv'
  BY <1>1, LinesCall, LastCall, WholeCall, BoundsCall, MarksCall DEF OutInv
<1>2. CASE PumpNext
  BY <1>2, OutReads, OutDelivers, OutEnds DEF PumpNext
<1>3. CASE GuestNext
  BY <1>3, OutGuest
<1>4. CASE UNCHANGED vars
  <2>1. /\ UNCHANGED <<pc, op, got, result, queue, pump, parcel, pending, toHost, emitted, guest>>
        /\ UNCHANGED <<expired, locked, writer, link>>
    BY <1>4 DEF vars, callVars, pumpVars, linkVars, guestVars
  <2>2. Marked' /\ Delivered'
    BY <2>1 DEF OutInv, Marked, Delivered, Answer
  <2>3. Bounded' /\ ResultIsWhole'
    BY <2>1 DEF OutInv, Bounded, Capacity, ResultIsWhole
  <2>4. LinesCounted'
    BY <2>1 DEF OutInv, LinesCounted, Lines, InParcel, Count, Places, Answer
  <2>5. EndIsLast'
    BY <2>1 DEF OutInv, EndIsLast, NoLineBehind, EndInQueue, LineOnLink, Answer
  <2> QED
    BY <2>2, <2>3, <2>4, <2>5 DEF OutInv
<1> QED
  BY <1>1, <1>2, <1>3, <1>4 DEF Next

(* The second invariant holds always, beside the first. *)
LEMMA OutAlways == Spec => []OutInv
<1>1. Init => OutInv
  BY OutInit
<1>2. IInv /\ OutInv /\ [Next]_vars => OutInv'
  BY OutStep
<1> QED
  BY <1>1, <1>2, Invariance, PTL DEF Spec

(* An execution that reports the end of its command has every line the     *)
(* guest sent before it, and no channel holds more than it has room for.   *)
THEOREM ExecResultCompleteHolds == Spec => []ExecResultComplete
<1>1. IInv /\ OutInv => ExecResultComplete
  BY OutputIsComplete
<1> QED
  BY <1>1, Invariance, OutAlways, PTL
=============================================================================
