------------------------- MODULE InstanceBootProofs -------------------------
(***************************************************************************)
(* Proofs about InstanceBoot: the console buffer holds the last lines of   *)
(* both consoles, and an agent that connect_agent returns is in the        *)
(* session it announced, on a link that carries nothing else.              *)
(***************************************************************************)
EXTENDS InstanceBoot, TLAPS

USE InstanceBootAssumption

-----------------------------------------------------------------------------
(* The inductive invariant: the types, in two parts, ... *)

(* A pump that has a line in its hand has read one. *)
ConsoleTypes ==
  /\ pipe \in [Stream -> 0..PIPE_CAPACITY] /\ taken \in [Stream -> Nat]
  /\ pump \in [Stream -> {"read", "reserve", "done"}]
  /\ channel \in Seq(Line) /\ Len(channel) <= CONSOLE_CHANNEL
  /\ listening \in BOOLEAN /\ console \in Seq(Line)
  /\ \A s \in Stream : taken[s] + pipe[s] <= ConsoleLines[s]
                         /\ (pump[s] = "reserve" => taken[s] \in 1..ConsoleLines[s])

BootTypes ==
  /\ qemu \in {"running", "exited"}
  /\ main \in {"select", "notify", "ready", "failed"}
  /\ prep \in {"prompt", "install", "tick", "connect", "init"}
  /\ due \in BOOLEAN /\ mishaps \in 0..MaxMishaps
  /\ connected \in BOOLEAN /\ session \in Session \union {NO_SESSION}
  /\ toGuest \in Seq(Session) /\ answers \in Seq(Session) /\ toHost \in Seq(Session)
  /\ port \in {"absent", "starting", "open", "closing", "closed"}
  /\ accepted \in Session \union {NO_SESSION}

(* ... what the buffer shows, ... *)

(* The lines of a console are in their order, none that was not pushed.    *)
Ordered ==
  /\ \A i, j \in 1..Len(console) :
       i < j /\ console[i][1] = console[j][1] => console[i][2] < console[j][2]
  /\ \A i \in 1..Len(console) : console[i][2] \in 1..Pushed(console[i][1])

Gapless ==
  \A s \in Stream : \A n \in 1..Pushed(s) :
    Len(console) < CONSOLE_CAPACITY \/ (\E k \in 1..n : Shows(s, k)) => Shows(s, n)

BufferInv == Len(console) <= CONSOLE_CAPACITY /\ Ordered /\ Gapless

(* ... and where the announced session is. *)

Without(q, s) == \A i \in 1..Len(q) : q[i] # s
OnlyLast(q, s) == q # <<>> /\ \A i \in 1..Len(q) : q[i] = s <=> i = Len(q)

(* The announcement is the last one that the guest has to read, ... *)
Announced ==
  /\ OnlyLast(toGuest, session)
  /\ Without(answers, session) /\ Without(toHost, session) /\ accepted # session

(* ... or it was read, and its answer is the last one on the way back, ... *)
Taken ==
  /\ toGuest = <<>> /\ accepted = session /\ port \in {"open", "absent"}
  /\ \/ OnlyLast(answers, session) /\ Without(toHost, session)
     \/ answers = <<>> /\ OnlyLast(toHost, session)

(* ... or one of the two was lost with the port. *)
Lost ==
  /\ Without(toGuest, session) /\ Without(answers, session) /\ Without(toHost, session)

Reached ==
  /\ toGuest = <<>> /\ answers = <<>> /\ toHost = <<>>
  /\ accepted = session /\ port \in {"open", "absent"}

LinkInv ==
  /\ ~connected => toHost = <<>>
  /\ connected => session \in Session /\ prep = "init"
  /\ main = "ready" => connected /\ Reached
  /\ connected /\ main # "ready" => Announced \/ Taken \/ Lost

BootInv == ConsoleTypes /\ BootTypes /\ BufferInv /\ LinkInv

-----------------------------------------------------------------------------
(* What putting in and taking out do to a queue that a session is not in,  *)
(* or is the last in.                                                      *)

(* Something else is put behind. *)
LEMMA WithoutAppend ==
  ASSUME NEW S, NEW q \in Seq(S), NEW e \in S, NEW s, Without(q, s), e # s
  PROVE  Without(Append(q, e), s)
<1>1. Len(q) \in Nat /\ Len(Append(q, e)) = Len(q) + 1
  OBVIOUS
<1>2. ASSUME NEW i \in 1..Len(q) + 1 PROVE Append(q, e)[i] # s
  <2>1. CASE i = Len(q) + 1
    BY <2>1
  <2>2. CASE i \in 1..Len(q)
    BY <2>2 DEF Without
  <2> QED
    BY <1>1, <2>1, <2>2
<1> QED
  BY <1>1, <1>2 DEF Without

(* It is put behind itself. *)
LEMMA OnlyLastAppend ==
  ASSUME NEW S, NEW q \in Seq(S), NEW s \in S, Without(q, s)
  PROVE  OnlyLast(Append(q, s), s)
<1>1. /\ Len(q) \in Nat /\ Len(Append(q, s)) = Len(q) + 1 /\ Append(q, s) # <<>>
  OBVIOUS
<1>2. ASSUME NEW i \in 1..Len(q) + 1 PROVE Append(q, s)[i] = s <=> i = Len(q) + 1
  <2>1. CASE i = Len(q) + 1
    BY <2>1
  <2>2. CASE i \in 1..Len(q)
    BY <1>1, <2>2 DEF Without
  <2> QED
    BY <1>1, <2>1, <2>2
<1> QED
  BY <1>1, <1>2 DEF OnlyLast

(* The first is taken out of a queue it is not in. *)
LEMMA WithoutTail ==
  ASSUME NEW S, NEW q \in Seq(S), q # <<>>, NEW s, Without(q, s)
  PROVE  Without(Tail(q), s) /\ Head(q) # s
<1>1. /\ Len(q) \in Nat \ {0} /\ Head(q) = q[1] /\ Len(Tail(q)) = Len(q) - 1
      /\ \A i \in 1..Len(q) - 1 : Tail(q)[i] = q[i + 1] /\ i + 1 \in 1..Len(q)
  OBVIOUS
<1> QED
  BY <1>1 DEF Without

(* The first is taken out of a queue it is the last in. *)
LEMMA OnlyLastTail ==
  ASSUME NEW S, NEW q \in Seq(S), NEW s, OnlyLast(q, s)
  PROVE  IF Head(q) = s THEN Tail(q) = <<>> ELSE OnlyLast(Tail(q), s)
<1> DEFINE n == Len(q)
<1>1. /\ n \in Nat \ {0} /\ Head(q) = q[1] /\ Len(Tail(q)) = n - 1 /\ Tail(q) \in Seq(S)
      /\ \A i \in 1..n - 1 : Tail(q)[i] = q[i + 1]
  BY DEF OnlyLast
<1>2. \A i \in 1..n : q[i] = s <=> i = n
  BY DEF OnlyLast
<1>3. Tail(q) = <<>> <=> Len(Tail(q)) = 0
  <2>1. \A r \in Seq(S) : r = <<>> <=> Len(r) = 0
    OBVIOUS
  <2> QED
    BY <1>1, <2>1
<1> HIDE DEF n
<1>4. q[1] = s <=> n = 1
  <2>1. 1 \in 1..n
    BY <1>1
  <2>2. q[1] = s <=> 1 = n
    BY <1>2, <2>1
  <2> QED
    BY <2>2
<1>5. \A i \in 1..n - 1 : Tail(q)[i] = s <=> i = n - 1
  <2> TAKE i \in 1..n - 1
  <2>1. i + 1 \in 1..n /\ (i + 1 = n <=> i = n - 1)
    BY <1>1
  <2>2. Tail(q)[i] = q[i + 1]
    BY <1>1
  <2> QED
    BY <1>2, <2>1, <2>2
<1>6. n # 1 => OnlyLast(Tail(q), s)
  BY <1>1, <1>3, <1>5 DEF OnlyLast
<1> QED
  BY <1>1, <1>3, <1>4, <1>6

-----------------------------------------------------------------------------
(* The link *)

(* Nothing of it changes. *)
LEMMA LinkStays ==
  ASSUME LinkInv, UNCHANGED <<main, prep, connected, session, toGuest, toHost, guestVars>>
  PROVE  LinkInv'
BY DEF LinkInv, Announced, Taken, Lost, Reached, guestVars

(* There is no connection, or no longer. *)
LEMMA LinkDown ==
  ASSUME connected' = FALSE, toHost' = <<>>, main' # "ready"
  PROVE  LinkInv'
BY DEF LinkInv

(* Before the probe connects there is none either. *)
LEMMA LinkBeforeInit ==
  ASSUME BootTypes, LinkInv, prep # "init", main = "select",
         UNCHANGED <<main, connected, toHost>>
  PROVE  LinkInv'
<1>1. connected = FALSE /\ toHost = <<>>
  BY DEF BootTypes, LinkInv
<1> QED
  BY <1>1, LinkDown

(* A session that is announced is behind all others. *)
LEMMA ConnectAnnounces ==
  ASSUME BootTypes, LinkInv, Connect
  PROVE  LinkInv'
<1>1. toHost = <<>> /\ toHost' = toHost /\ answers' = answers /\ accepted' = accepted
      /\ connected' = TRUE /\ prep' = "init" /\ main' = "select"
  BY DEF Connect, LinkInv, guestVars
<1>2. session' \in FreshSessions /\ toGuest' = Append(toGuest, session')
  BY DEF Connect
<1>3. /\ session' \in Session /\ accepted # session'
      /\ session' \notin Range(toGuest) /\ session' \notin Range(answers)
  BY <1>2 DEF FreshSessions
<1>4. ASSUME NEW q \in Seq(Session), session' \notin Range(q) PROVE Without(q, session')
  BY <1>4 DEF Range, Without
<1>5. Without(toGuest, session') /\ Without(answers, session') /\ Without(toHost, session')
  BY <1>1, <1>3, <1>4 DEF BootTypes, Without
<1>6. OnlyLast(Append(toGuest, session'), session')
  BY <1>3, <1>5, OnlyLastAppend DEF BootTypes
<1>7. Announced'
  BY <1>1, <1>2, <1>3, <1>5, <1>6 DEF Announced
<1> QED
  BY <1>1, <1>3, <1>7 DEF LinkInv

(* Only the answer to the announcement makes the agent ready, and then it  *)
(* is all that was left on the link.                                       *)
LEMMA InitializedIsOwn ==
  ASSUME BootTypes, LinkInv, Initialized
  PROVE  LinkInv'
<1>1. CASE Head(toHost) # session
  BY <1>1, LinkDown DEF Initialized, DropAgent
<1>2. CASE Head(toHost) = session
  <2>1. /\ main' = "ready" /\ toHost' = Tail(toHost) /\ toHost # <<>> /\ main = "select"
        /\ UNCHANGED <<prep, connected, session, toGuest, guestVars>>
    BY <1>2 DEF Initialized, Ready
  <2>2. connected
    BY <2>1 DEF LinkInv, BootTypes
  <2>3. ~Without(toHost, session)
    <3>1. Len(toHost) \in Nat \ {0} /\ toHost[1] = session
      BY <1>2, <2>1 DEF BootTypes
    <3> QED
      BY <3>1 DEF Without
  <2>4. Taken /\ answers = <<>> /\ OnlyLast(toHost, session)
    BY <2>1, <2>2, <2>3 DEF LinkInv, Announced, Lost, Taken
  <2>5. Tail(toHost) = <<>>
    BY <1>2, <2>4, OnlyLastTail DEF BootTypes
  <2>6. Reached'
    BY <2>1, <2>4, <2>5 DEF Reached, Taken, guestVars
  <2> QED
    BY <2>1, <2>2, <2>6 DEF LinkInv
<1> QED
  BY <1>1, <1>2

(* The guest's steps, and the end of QEMU.  What they must keep, while the *)
(* probe waits and after it.                                               *)
LinkKept ==
  /\ Announced \/ Taken \/ Lost => Announced' \/ Taken' \/ Lost'
  /\ Reached => Reached'

(* That is all they have to do. *)
LEMMA LinkFollows ==
  ASSUME LinkInv, LinkKept, UNCHANGED <<main, prep, connected, session>>, ~connected => toHost' = <<>>
  PROVE  LinkInv'
BY DEF LinkInv, LinkKept

(* The port goes, and the answers that are not written with it. *)
LEMMA ExitKeeps ==
  ASSUME BootTypes, LinkInv, QemuExits
  PROVE  LinkInv'
<1>1. /\ port' = "absent" /\ answers' = <<>>
      /\ UNCHANGED <<main, prep, connected, session, toGuest, toHost, accepted>>
  BY DEF QemuExits, probeVars
<1>2. Without(answers', session)
  BY <1>1 DEF Without
<1>3. ASSUME OnlyLast(answers, session), Without(toHost, session), toGuest = <<>> PROVE Lost'
  <2>1. Without(toGuest, session)
    BY <1>3 DEF Without
  <2> QED
    BY <1>1, <1>2, <1>3, <2>1 DEF Lost
<1>4. LinkKept
  BY <1>1, <1>2, <1>3 DEF LinkKept, Announced, Taken, Lost, Reached
<1> QED
  BY <1>1, <1>4, LinkFollows DEF LinkInv

(* Only a port that is closed, with nothing announced taken in, is opened. *)
LEMMA OpenKeeps ==
  ASSUME BootTypes, LinkInv, GuestOpens
  PROVE  LinkInv'
<1>1. /\ port \in {"starting", "closed"} /\ port' = "open" /\ accepted' = NO_SESSION
      /\ UNCHANGED <<main, prep, connected, session, toGuest, toHost, answers>>
  BY DEF GuestOpens
<1>2. CASE connected
  <2>1. session # NO_SESSION
    BY <1>2 DEF LinkInv
  <2>2. LinkKept
    BY <1>1, <2>1 DEF LinkKept, Announced, Taken, Lost, Reached
  <2> QED
    BY <1>1, <1>2, <2>2, LinkFollows
<1>3. CASE ~connected
  BY <1>1, <1>3, LinkDown DEF LinkInv, BootTypes
<1> QED
  BY <1>2, <1>3

(* An announcement is read: the last one, or one before it. *)
LEMMA ReadKeeps ==
  ASSUME BootTypes, LinkInv, GuestReads
  PROVE  LinkInv'
<1> DEFINE e == Head(toGuest)
<1>1. /\ port = "open" /\ toGuest # <<>> /\ accepted' = e
      /\ answers' = Append(answers, e) /\ toGuest' = Tail(toGuest)
      /\ UNCHANGED <<main, prep, connected, session, toHost, port>>
  BY DEF GuestReads
<1>2. e \in Session /\ toGuest \in Seq(Session) /\ answers \in Seq(Session)
  BY <1>1 DEF BootTypes
<1> HIDE DEF e
<1>3. CASE connected
  <2>1. session \in Session
    BY <1>3 DEF LinkInv
  <2>2. ASSUME Announced, e = session PROVE Taken'
    <3>1. toGuest' = <<>>
      BY <1>1, <1>2, <2>2, OnlyLastTail DEF Announced, e
    <3>2. OnlyLast(answers', session)
      BY <1>1, <1>2, <2>1, <2>2, OnlyLastAppend DEF Announced
    <3> QED
      BY <1>1, <2>2, <3>1, <3>2 DEF Taken, Announced
  <2>3. ASSUME Announced, e # session PROVE Announced'
    <3>1. OnlyLast(toGuest', session)
      BY <1>1, <1>2, <2>3, OnlyLastTail DEF Announced, e
    <3>2. Without(answers', session)
      BY <1>1, <1>2, <2>1, <2>3, WithoutAppend DEF Announced
    <3> QED
      BY <1>1, <2>3, <3>1, <3>2 DEF Announced
  <2>4. ASSUME Lost PROVE Lost'
    <3>1. Without(toGuest', session) /\ e # session
      BY <1>1, <1>2, <2>4, WithoutTail DEF Lost, e
    <3>2. Without(answers', session)
      BY <1>1, <1>2, <2>1, <2>4, <3>1, WithoutAppend DEF Lost
    <3> QED
      BY <1>1, <2>4, <3>1, <3>2 DEF Lost
  <2>5. LinkKept
    BY <1>1, <2>2, <2>3, <2>4 DEF LinkKept, Taken, Reached
  <2> QED
    BY <1>1, <1>3, <2>5, LinkFollows
<1>4. CASE ~connected
  BY <1>1, <1>4, LinkDown DEF LinkInv, BootTypes
<1> QED
  BY <1>3, <1>4

(* An answer is written: the last one, or one before it. *)
LEMMA WriteKeeps ==
  ASSUME BootTypes, LinkInv, GuestWrites
  PROVE  LinkInv'
<1> DEFINE e == Head(answers)
<1>1. /\ connected /\ answers # <<>>
      /\ toHost' = Append(toHost, e) /\ answers' = Tail(answers)
      /\ UNCHANGED <<main, prep, connected, session, toGuest, port, accepted>>
  BY DEF GuestWrites
<1>2. e \in Session /\ answers \in Seq(Session) /\ toHost \in Seq(Session) /\ session \in Session
  BY <1>1 DEF BootTypes, LinkInv
<1> HIDE DEF e
<1>3. ASSUME OnlyLast(answers, session), Without(toHost, session), e = session
      PROVE  answers' = <<>> /\ OnlyLast(toHost', session)
  BY <1>1, <1>2, <1>3, OnlyLastTail, OnlyLastAppend DEF e
<1>4. ASSUME OnlyLast(answers, session), Without(toHost, session), e # session
      PROVE  OnlyLast(answers', session) /\ Without(toHost', session)
  BY <1>1, <1>2, <1>4, OnlyLastTail, WithoutAppend DEF e
<1>5. ASSUME Without(answers, session), Without(toHost, session)
      PROVE  Without(answers', session) /\ Without(toHost', session)
  BY <1>1, <1>2, <1>5, WithoutTail, WithoutAppend DEF e
<1>6. Taken => Taken'
  BY <1>1, <1>3, <1>4 DEF Taken
<1>7. (Announced => Announced') /\ (Lost => Lost') /\ ~Reached
  BY <1>1, <1>5 DEF Announced, Lost, Reached
<1>8. LinkKept
  BY <1>6, <1>7 DEF LinkKept
<1> QED
  BY <1>1, <1>8, LinkFollows

(* The port is closed: the announcement stays alone, or is lost. *)
LEMMA CloseKeeps ==
  ASSUME BootTypes, LinkInv, GuestCloses
  PROVE  LinkInv'
<1>1. /\ port = "closing" /\ UNCHANGED <<main, prep, connected, session, toHost, accepted, answers>>
      /\ toGuest' = <<session>> \/ toGuest' = <<>>
  BY DEF GuestCloses
<1>2. toGuest' = <<session>> => \E i \in DOMAIN toGuest : toGuest[i] = session
  <2>1. <<session>> # <<>>
    OBVIOUS
  <2>2. toGuest' = <<>> \/ session \in Range(toGuest)
    BY DEF GuestCloses
  <2> QED
    BY <2>1, <2>2 DEF Range
<1>3. Lost => toGuest' = <<>>
  BY <1>1, <1>2 DEF Lost, BootTypes, Without
<1>4. toGuest' = <<>> => Without(toGuest', session)
  BY DEF Without
<1>5. toGuest' = <<session>> => OnlyLast(toGuest', session)
  BY DEF OnlyLast
<1>6. LinkKept
  BY <1>1, <1>3, <1>4, <1>5 DEF LinkKept, Announced, Taken, Lost, Reached
<1> QED
  BY <1>1, <1>6, LinkFollows DEF LinkInv

-----------------------------------------------------------------------------
(* The console *)

(* The buffer and what was pushed into it are the same. *)
LEMMA BufferStays ==
  ASSUME BufferInv, console' = console, \A s \in Stream : Pushed(s)' = Pushed(s),
         console \in Seq(Line)
  PROVE  BufferInv'
<1>1. \A i \in 1..Len(console) : console[i][1] \in Stream
  BY DEF Line
<1>2. Len(console) <= CONSOLE_CAPACITY /\ Len(console') <= CONSOLE_CAPACITY
  BY DEF BufferInv
<1>3. Ordered'
  <2>1. ASSUME NEW i \in 1..Len(console) PROVE console[i][2] \in 1..(Pushed(console[i][1]))'
    <3>1. PICK s \in Stream : s = console[i][1]
      BY <1>1
    <3>2. console[i][2] \in 1..Pushed(s) /\ Pushed(s)' = Pushed(s)
      BY <3>1 DEF BufferInv, Ordered
    <3> QED
      BY <3>1, <3>2 DEF Pushed
  <2> QED
    BY <2>1 DEF BufferInv, Ordered, Pushed
<1>4. Gapless'
  <2>1. ASSUME NEW s \in Stream, NEW n \in 1..Pushed(s)',
               Len(console) < CONSOLE_CAPACITY \/ \E k \in 1..n : Shows(s, k)
        PROVE  Shows(s, n)
    <3>1. n \in 1..Pushed(s)
      BY Pushed(s)' = Pushed(s)
    <3> QED
      BY <2>1, <3>1 DEF BufferInv, Gapless
  <2> QED
    BY <2>1 DEF Gapless, Shows
<1> QED
  BY <1>2, <1>3, <1>4 DEF BufferInv

(* Nothing of it changes. *)
LEMMA ConsoleStays ==
  ASSUME ConsoleTypes, BufferInv, UNCHANGED <<consoleVars, listening>>
  PROVE  ConsoleTypes' /\ BufferInv'
<1>1. UNCHANGED <<pipe, taken, pump, channel, console, listening>>
  BY DEF consoleVars
<1>2. ConsoleTypes'
  BY <1>1 DEF ConsoleTypes
<1>3. BufferInv'
  BY <1>1, BufferStays DEF ConsoleTypes, Pushed
<1> QED
  BY <1>2, <1>3

(* What is taken out of the channel, or falls with it, leaves the rest. *)
LEMMA ChannelShrinks ==
  ASSUME ConsoleTypes, BufferInv, channel' = <<>> \/ (channel # <<>> /\ channel' = Tail(channel)),
         listening' \in BOOLEAN, UNCHANGED <<pipe, taken, pump, console>>
  PROVE  ConsoleTypes' /\ BufferInv'
<1>1. channel' \in Seq(Line) /\ Len(channel') <= CONSOLE_CHANNEL
  <2>1. channel \in Seq(Line) /\ Len(channel) \in Nat /\ Len(channel) <= CONSOLE_CHANNEL /\ CONSOLE_CHANNEL \in Nat
    BY DEF ConsoleTypes
  <2>2. channel # <<>> => Tail(channel) \in Seq(Line) /\ Len(Tail(channel)) = Len(channel) - 1
    BY <2>1
  <2>3. <<>> \in Seq(Line) /\ Len(<<>>) = 0
    OBVIOUS
  <2>4. CASE channel' = <<>>
    BY <2>1, <2>3, <2>4
  <2>5. CASE channel # <<>> /\ channel' = Tail(channel)
    BY <2>1, <2>2, <2>5
  <2> QED
    BY <2>4, <2>5
<1>2. ConsoleTypes'
  BY <1>1 DEF ConsoleTypes
<1>3. BufferInv'
  BY BufferStays DEF ConsoleTypes, Pushed
<1> QED
  BY <1>2, <1>3

(* QEMU prints no more than there is, into a pipe that has room. *)
LEMMA PrintKeeps ==
  ASSUME ConsoleTypes, BufferInv, NEW s \in Stream, QemuPrints(s)
  PROVE  ConsoleTypes' /\ BufferInv'
<1>1. /\ pipe[s] \in 0..PIPE_CAPACITY /\ pipe[s] # PIPE_CAPACITY /\ taken[s] \in Nat
      /\ taken[s] + pipe[s] < ConsoleLines[s] /\ ConsoleLines[s] \in Nat /\ PIPE_CAPACITY \in Nat
  BY DEF ConsoleTypes, QemuPrints, Blocked
<1>2. /\ pipe' = [pipe EXCEPT ![s] = pipe[s] + 1]
      /\ UNCHANGED <<taken, pump, channel, console, listening>>
  BY DEF QemuPrints
<1>3. pipe' \in [Stream -> 0..PIPE_CAPACITY]
  BY <1>1, <1>2 DEF ConsoleTypes
<1>4. \A x \in Stream : taken'[x] + pipe'[x] <= ConsoleLines[x]
  <2> TAKE x \in Stream
  <2>1. CASE x = s
    BY <1>1, <1>2, <2>1 DEF ConsoleTypes
  <2>2. CASE x # s
    BY <1>2, <2>2 DEF ConsoleTypes
  <2> QED
    BY <2>1, <2>2
<1>5. ConsoleTypes'
  BY <1>2, <1>3, <1>4 DEF ConsoleTypes
<1>6. BufferInv'
  BY <1>2, BufferStays DEF ConsoleTypes, Pushed
<1> QED
  BY <1>5, <1>6

(* A pump reads a line that it does not push yet, or ends. *)
LEMMA PumpReadKeeps ==
  ASSUME ConsoleTypes, BufferInv, NEW s \in Stream, PumpReads(s)
  PROVE  ConsoleTypes' /\ BufferInv'
<1>1. /\ pump[s] = "read" /\ pipe[s] \in 0..PIPE_CAPACITY /\ taken[s] \in Nat
      /\ taken[s] + pipe[s] <= ConsoleLines[s] /\ ConsoleLines[s] \in Nat /\ PIPE_CAPACITY \in Nat
  BY DEF ConsoleTypes, PumpReads
<1>2. UNCHANGED <<channel, console, listening>>
  BY DEF PumpReads
<1>3. CASE pipe[s] > 0 /\ pipe' = [pipe EXCEPT ![s] = pipe[s] - 1]
             /\ taken' = [taken EXCEPT ![s] = taken[s] + 1] /\ pump' = [pump EXCEPT ![s] = "reserve"]
  <2>1. /\ pipe' \in [Stream -> 0..PIPE_CAPACITY] /\ taken' \in [Stream -> Nat]
        /\ pump' \in [Stream -> {"read", "reserve", "done"}]
    <3>1. pipe[s] - 1 \in 0..PIPE_CAPACITY /\ taken[s] + 1 \in Nat
      BY <1>1, <1>3
    <3> QED
      BY <1>3, <3>1 DEF ConsoleTypes
  <2>2. /\ pipe'[s] = pipe[s] - 1 /\ taken'[s] = taken[s] + 1 /\ pump'[s] = "reserve"
        /\ \A x \in Stream : x # s => pipe'[x] = pipe[x] /\ taken'[x] = taken[x] /\ pump'[x] = pump[x]
    BY <1>3 DEF ConsoleTypes
  <2>3. taken'[s] + pipe'[s] <= ConsoleLines[s] /\ taken'[s] \in 1..ConsoleLines[s]
    BY <1>1, <1>3, <2>2
  <2>4. ConsoleTypes'
    BY <1>2, <2>1, <2>2, <2>3 DEF ConsoleTypes
  <2>5. ASSUME NEW x \in Stream PROVE Pushed(x)' = Pushed(x)
    <3>1. CASE x = s
      BY <1>1, <2>2, <3>1 DEF Pushed
    <3>2. CASE x # s
      BY <2>2, <3>2 DEF Pushed
    <3> QED
      BY <3>1, <3>2
  <2>6. BufferInv'
    BY <1>2, <2>5, BufferStays DEF ConsoleTypes
  <2> QED
    BY <2>4, <2>6
<1>4. CASE pump' = [pump EXCEPT ![s] = "done"] /\ UNCHANGED <<pipe, taken>>
  <2>1. /\ pump' \in [Stream -> {"read", "reserve", "done"}] /\ pump'[s] = "done"
        /\ \A x \in Stream : x # s => pump'[x] = pump[x]
    BY <1>4 DEF ConsoleTypes
  <2>2. ConsoleTypes'
    BY <1>2, <1>4, <2>1 DEF ConsoleTypes
  <2>3. ASSUME NEW x \in Stream PROVE Pushed(x)' = Pushed(x)
    <3>1. CASE x = s
      BY <1>1, <1>4, <2>1, <3>1 DEF Pushed
    <3>2. CASE x # s
      BY <1>4, <2>1, <3>2 DEF Pushed
    <3> QED
      BY <3>1, <3>2
  <2>4. BufferInv'
    BY <1>2, <2>3, BufferStays DEF ConsoleTypes
  <2> QED
    BY <2>2, <2>4
<1> QED
  BY <1>3, <1>4 DEF PumpReads

(* What push makes of a buffer: the lines but the first if it was full,    *)
(* and the new one.                                                        *)
LEMMA PushIs ==
  ASSUME console \in Seq(Line), Len(console) <= CONSOLE_CAPACITY, NEW line \in Line,
         console' = Push(line)
  PROVE  /\ console' \in Seq(Line)
         /\ \E k \in {0, 1} :
              /\ k = 1 <=> Len(console) = CONSOLE_CAPACITY
              /\ Len(console') = Len(console) - k + 1
              /\ \A i \in 1..Len(console) - k : console'[i] = console[i + k]
              /\ console'[Len(console) - k + 1] = line
<1>1. Len(console) \in Nat /\ CONSOLE_CAPACITY \in Nat \ {0}
  OBVIOUS
<1>2. CASE Len(console) = CONSOLE_CAPACITY
  <2> DEFINE rest == Tail(console)
  <2>1. /\ rest \in Seq(Line) /\ Len(rest) = Len(console) - 1
        /\ \A i \in 1..Len(console) - 1 : rest[i] = console[i + 1]
    BY <1>1, <1>2
  <2>2. console' = Append(rest, line)
    BY <1>1, <1>2 DEF Push
  <2> HIDE DEF rest
  <2>3. /\ console' \in Seq(Line) /\ Len(console') = Len(rest) + 1 /\ console'[Len(rest) + 1] = line
        /\ \A i \in 1..Len(rest) : console'[i] = rest[i]
    BY <2>1, <2>2
  <2> QED
    BY <1>1, <1>2, <2>1, <2>3
<1>3. CASE Len(console) # CONSOLE_CAPACITY
  <2>1. console' = Append(console, line)
    BY <1>1, <1>3 DEF Push
  <2>2. /\ console' \in Seq(Line) /\ Len(console') = Len(console) + 1
        /\ console'[Len(console) + 1] = line
        /\ \A i \in 1..Len(console) : console'[i] = console[i]
    BY <1>1, <2>1
  <2> QED
    BY <1>1, <1>3, <2>2
<1> QED
  BY <1>2, <1>3

(* The pump that pushes a line has pushed all before it, and no other      *)
(* pump's are touched.                                                     *)
LEMMA PassCounts ==
  ASSUME ConsoleTypes, NEW s \in Stream, PumpPasses(s)
  PROVE  /\ taken[s] \in Nat \ {0} /\ <<s, taken[s]>> \in Line
         /\ Pushed(s) = taken[s] - 1 /\ Pushed(s)' = taken[s]
         /\ \A x \in Stream : x # s => Pushed(x)' = Pushed(x)
         /\ \A x \in Stream : Pushed(x) \in Nat
<1>1. /\ pump[s] = "reserve" /\ pump' = [pump EXCEPT ![s] = "read"] /\ taken' = taken
  BY DEF PumpPasses
<1>2. taken[s] \in 1..ConsoleLines[s] /\ taken[s] \in Nat
  BY <1>1 DEF ConsoleTypes
<1>3. pump'[s] = "read" /\ \A x \in Stream : x # s => pump'[x] = pump[x]
  BY <1>1 DEF ConsoleTypes
<1>4. <<s, taken[s]>> \in Line
  BY <1>2 DEF Line
<1>5. taken[s] \in Nat \ {0}
  BY <1>2
<1>6. Pushed(s) = taken[s] - 1 /\ Pushed(s)' = taken[s]
  BY <1>1, <1>3 DEF Pushed
<1>7. \A x \in Stream : x # s => Pushed(x)' = Pushed(x)
  BY <1>1, <1>3 DEF Pushed
<1>8. ASSUME NEW x \in Stream PROVE Pushed(x) \in Nat
  <2>1. taken[x] \in Nat
    BY DEF ConsoleTypes
  <2>2. pump[x] = "reserve" => taken[x] \in 1..ConsoleLines[x]
    BY DEF ConsoleTypes
  <2> QED
    BY <2>1, <2>2 DEF Pushed
<1> QED
  BY <1>4, <1>5, <1>6, <1>7, <1>8

(* A line that is pushed is the next of its console, and the one that it   *)
(* pushes out the first of all.                                            *)
LEMMA PassKeeps ==
  ASSUME ConsoleTypes, BufferInv, NEW s \in Stream, PumpPasses(s)
  PROVE  ConsoleTypes' /\ BufferInv'
<1> DEFINE line == <<s, taken[s]>>
<1>1. /\ taken[s] \in Nat \ {0} /\ line \in Line
      /\ Pushed(s) = taken[s] - 1 /\ Pushed(s)' = taken[s]
      /\ \A x \in Stream : x # s => Pushed(x)' = Pushed(x)
      /\ \A x \in Stream : Pushed(x) \in Nat
  BY PassCounts
<1>2. console \in Seq(Line) /\ Len(console) \in Nat /\ Len(console) <= CONSOLE_CAPACITY
  BY DEF ConsoleTypes, BufferInv
<1>3. console' = Push(line)
  BY DEF PumpPasses
<1>4. PICK k \in {0, 1} :
        /\ console' \in Seq(Line)
        /\ k = 1 <=> Len(console) = CONSOLE_CAPACITY
        /\ Len(console') = Len(console) - k + 1
        /\ \A i \in 1..Len(console) - k : console'[i] = console[i + k]
        /\ console'[Len(console) - k + 1] = line
  BY <1>1, <1>2, <1>3, PushIs
<1> DEFINE m == Len(console) - k
<1>5. /\ CONSOLE_CAPACITY \in Nat \ {0}
      /\ m \in Nat /\ Len(console) = m + k /\ Len(console') = m + 1
      /\ m + 1 <= CONSOLE_CAPACITY /\ (m + 1 < CONSOLE_CAPACITY => k = 0)
  BY <1>2, <1>4
<1>6. /\ \A i \in 1..m : console'[i] = console[i + k] /\ i + k \in 1..Len(console)
      /\ console'[m + 1] = line
  <2>1. ASSUME NEW i \in 1..m PROVE i + k \in 1..Len(console)
    <3>1. m \in Nat /\ Len(console) = m + k /\ i \in 1..m
      BY <1>5
    <3> HIDE DEF m
    <3>2. CASE k = 0
      BY <3>1, <3>2
    <3>3. CASE k = 1
      BY <3>1, <3>3
    <3> QED
      BY <3>2, <3>3
  <2> QED
    BY <1>4, <2>1
<1> HIDE DEF line, m
<1>7. line[1] = s /\ line[2] = taken[s]
  BY DEF line
<1>8. \A i \in 1..Len(console) :
        console[i][1] \in Stream /\ console[i][2] \in 1..Pushed(console[i][1])
  BY <1>2 DEF BufferInv, Ordered, Line
<1>9. ConsoleTypes'
  <2>1. channel' \in Seq(Line) /\ Len(channel') <= CONSOLE_CHANNEL
    <3>1. channel \in Seq(Line) /\ Len(channel) \in Nat /\ CONSOLE_CHANNEL \in Nat /\ Len(channel) <= CONSOLE_CHANNEL
      BY DEF ConsoleTypes
    <3>2. CASE channel' = channel
      BY <3>1, <3>2
    <3>3. CASE Len(channel) < CONSOLE_CHANNEL /\ channel' = Append(channel, line)
      BY <1>1, <3>1, <3>3
    <3> QED
      BY <3>2, <3>3 DEF PumpPasses, line
  <2>2. pump' = [pump EXCEPT ![s] = "read"] /\ UNCHANGED <<pipe, taken, listening>>
    BY DEF PumpPasses
  <2>3. /\ pump' \in [Stream -> {"read", "reserve", "done"}]
        /\ \A x \in Stream : pump'[x] = "reserve" => pump[x] = "reserve"
    BY <2>2 DEF ConsoleTypes
  <2> QED
    BY <1>4, <2>1, <2>2, <2>3 DEF ConsoleTypes
<1>10. ASSUME NEW i \in 1..m + 1
       PROVE  \/ i \in 1..m /\ console'[i] = console[i + k]
              \/ i = m + 1 /\ console'[i] = line
  BY <1>5, <1>6
<1>11. ASSUME NEW i \in 1..m + 1, NEW j \in 1..m + 1, i < j, console'[i][1] = console'[j][1]
       PROVE  console'[i][2] < console'[j][2]
  <2>1. i \in 1..m /\ console'[i] = console[i + k] /\ i + k \in 1..Len(console)
    BY <1>5, <1>6, <1>11
  <2>2. CASE j \in 1..m
    <3>1. j + k \in 1..Len(console) /\ i + k < j + k /\ console'[j] = console[j + k]
      BY <1>4, <1>5, <1>6, <1>11, <2>2
    <3> DEFINE a == i + k
               b == j + k
    <3>2. /\ a \in 1..Len(console) /\ b \in 1..Len(console) /\ a < b
          /\ console'[i] = console[a] /\ console'[j] = console[b]
      BY <2>1, <3>1
    <3> HIDE DEF a, b
    <3>3. console[a][1] = console[b][1] => console[a][2] < console[b][2]
      BY <3>2 DEF BufferInv, Ordered
    <3> QED
      BY <1>11, <3>2, <3>3
  <2>3. CASE j = m + 1
    <3>1. console[i + k][1] = s /\ console'[j][2] = taken[s]
      BY <1>6, <1>7, <1>11, <2>1, <2>3
    <3>2. console[i + k][2] \in 1..taken[s] - 1
      BY <1>1, <1>8, <2>1, <3>1
    <3> QED
      BY <1>1, <2>1, <3>1, <3>2
  <2> QED
    BY <1>5, <2>2, <2>3
<1>12. ASSUME NEW i \in 1..m + 1
       PROVE  \E x \in Stream : console'[i][1] = x /\ console'[i][2] \in 1..Pushed(x)'
  <2>1. CASE i \in 1..m
    <3>1. PICK x \in Stream : x = console[i + k][1]
      BY <1>6, <1>8, <2>1
    <3>2. console[i + k][2] \in 1..Pushed(x)
      BY <1>6, <1>8, <2>1, <3>1
    <3>3. console[i + k][2] \in 1..Pushed(x)'
      BY <1>1, <3>2
    <3>4. console'[i][1] = x
      BY <1>6, <2>1, <3>1
    <3> QED
      BY <1>6, <2>1, <3>3, <3>4
  <2>2. CASE i = m + 1
    <3>1. console'[i][1] = s /\ console'[i][2] = taken[s]
      BY <1>6, <1>7, <2>2
    <3>2. taken[s] \in 1..Pushed(s)'
      BY <1>1
    <3> QED
      BY <3>1, <3>2
  <2> QED
    BY <1>5, <2>1, <2>2
<1>13. Ordered'
  <2>1. \A i \in 1..Len(console') : console'[i][2] \in 1..(IF pump'[console'[i][1]] = "reserve"
          THEN taken'[console'[i][1]] - 1 ELSE taken'[console'[i][1]])
    BY <1>5, <1>12 DEF Pushed
  <2> QED
    BY <1>5, <1>11, <2>1 DEF Ordered, Pushed
<1>14. ASSUME NEW x \in Stream, NEW n \in 1..Pushed(x)',
              Len(console') < CONSOLE_CAPACITY
                \/ \E l \in 1..n : \E i \in 1..Len(console') : console'[i] = <<x, l>>
       PROVE  \E i \in 1..Len(console') : console'[i] = <<x, n>>
  <2>1. CASE x = s /\ n = taken[s]
    <3>1. m + 1 \in 1..Len(console') /\ console'[m + 1] = <<x, n>>
      BY <1>5, <1>6, <2>1 DEF line
    <3> QED
      BY <3>1
  <2>2. CASE ~(x = s /\ n = taken[s])
    <3>1. n \in 1..Pushed(x) /\ n \in Nat
      BY <1>1, <2>2
    <3>2. CASE Len(console') < CONSOLE_CAPACITY
      <4>1. k = 0 /\ Len(console) < CONSOLE_CAPACITY
        BY <1>5, <3>2
      <4>2. PICK j \in 1..Len(console) : console[j] = <<x, n>>
        BY <3>1, <4>1 DEF BufferInv, Gapless, Shows
      <4>3. j \in 1..m /\ j + k = j /\ j \in 1..Len(console')
        BY <1>5, <4>1
      <4> QED
        BY <1>6, <4>2, <4>3
    <3>3. ASSUME NEW l \in 1..n, NEW i \in 1..Len(console'), console'[i] = <<x, l>>
          PROVE  \E j \in 1..Len(console') : console'[j] = <<x, n>>
      <4>1. i \in 1..m
        <5>1. ASSUME i = m + 1 PROVE FALSE
          <6>1. x = s /\ l = taken[s]
            BY <1>6, <3>3, <5>1 DEF line
          <6> QED
            BY <1>1, <3>1, <6>1
        <5> QED
          BY <1>5, <5>1
      <4>2. console[i + k] = <<x, l>> /\ i + k \in 1..Len(console)
        BY <1>6, <3>3, <4>1
      <4>3. PICK j \in 1..Len(console) : console[j] = <<x, n>>
        BY <3>1, <4>2 DEF BufferInv, Gapless, Shows
      <4>4. j >= i + k
        <5>1. ASSUME j < i + k PROVE FALSE
          <6> DEFINE a == i + k
          <6>1. /\ a \in 1..Len(console) /\ j < a
                /\ console[j][1] = x /\ console[a][1] = x
                /\ console[j][2] = n /\ console[a][2] = l
            BY <4>2, <4>3, <5>1
          <6>2. \A b \in 1..Len(console) :
                  j < b /\ console[j][1] = console[b][1] => console[j][2] < console[b][2]
            BY <4>3 DEF BufferInv, Ordered
          <6> HIDE DEF a
          <6>3. n < l
            BY <6>1, <6>2
          <6> QED
            BY <3>1, <6>3
        <5> QED
          BY <1>4, <5>1
      <4>5. j - k \in 1..m /\ (j - k) + k = j /\ j - k \in 1..Len(console')
        BY <1>4, <1>5, <4>1, <4>4
      <4> QED
        BY <1>6, <4>3, <4>5
    <3> QED
      BY <1>14, <3>2, <3>3
  <2> QED
    BY <2>1, <2>2
<1>15. Gapless'
  BY <1>14 DEF Gapless, Shows
<1> QED
  BY <1>5, <1>9, <1>13, <1>15 DEF BufferInv

-----------------------------------------------------------------------------
(* The types of the boot *)

(* Nothing of it changes. *)
LEMMA BootTypesStay ==
  ASSUME BootTypes, UNCHANGED <<qemu, main, prep, probeVars, guestVars>>
  PROVE  BootTypes'
BY DEF BootTypes, probeVars, guestVars

(* What time takes is bounded. *)
LEMMA PatienceIs ==
  ASSUME BootTypes, NEW busy \in BOOLEAN, Patience(busy)
  PROVE  mishaps' \in 0..MaxMishaps
<1>1. mishaps \in 0..MaxMishaps /\ MaxMishaps \in Nat
  BY DEF BootTypes
<1> QED
  BY <1>1 DEF Patience

(* The queues of the link hold sessions. *)
LEMMA QueueTypes ==
  ASSUME NEW q \in Seq(Session), NEW e \in Session
  PROVE  /\ Append(q, e) \in Seq(Session) /\ <<>> \in Seq(Session) /\ <<e>> \in Seq(Session)
         /\ q # <<>> => Tail(q) \in Seq(Session) /\ Head(q) \in Session
OBVIOUS

-----------------------------------------------------------------------------
(* Every step keeps the invariant. *)

(* At first there is nothing. *)
LEMMA BootInit == Init => BootInv
<1> SUFFICES ASSUME Init PROVE BootInv
  OBVIOUS
<1>1. /\ Len(<<>>) = 0 /\ <<>> \in Seq(Line) /\ <<>> \in Seq(Session)
      /\ {PIPE_CAPACITY, CONSOLE_CHANNEL, CONSOLE_CAPACITY, MaxMishaps} \subseteq Nat
      /\ \A s \in Stream : ConsoleLines[s] \in Nat
  OBVIOUS
<1>2. ConsoleTypes
  <2>1. /\ pipe \in [Stream -> 0..PIPE_CAPACITY] /\ taken \in [Stream -> Nat]
        /\ pump \in [Stream -> {"read", "reserve", "done"}]
    BY <1>1 DEF Init
  <2>2. \A s \in Stream : taken[s] = 0 /\ pipe[s] = 0 /\ pump[s] = "read"
    BY DEF Init
  <2>3. \A s \in Stream : taken[s] + pipe[s] <= ConsoleLines[s]
    BY <1>1, <2>2
  <2> QED
    BY <1>1, <2>1, <2>2, <2>3 DEF Init, ConsoleTypes
<1>3. BootTypes
  <2>1. mishaps \in 0..MaxMishaps
    BY <1>1 DEF Init
  <2> QED
    BY <1>1, <2>1 DEF Init, BootTypes
<1>4. BufferInv
  <2>1. \A s \in Stream : Pushed(s) = 0
    BY DEF Init, Pushed
  <2>2. Len(console) = 0
    BY <1>1 DEF Init
  <2>3. Ordered /\ Gapless
    BY <2>1, <2>2 DEF Ordered, Gapless
  <2> QED
    BY <1>1, <2>2, <2>3 DEF BufferInv
<1>5. LinkInv
  BY DEF Init, LinkInv
<1> QED
  BY <1>2, <1>3, <1>4, <1>5 DEF BootInv

(* The boot ends with an error. *)
LEMMA FailKeeps ==
  ASSUME BootInv, Fail
  PROVE  BootInv'
<1>1. ConsoleTypes' /\ BufferInv'
  BY ChannelShrinks DEF BootInv, Fail
<1>2. BootTypes'
  <2>1. <<>> \in Seq(Session)
    OBVIOUS
  <2> QED
    BY <2>1 DEF BootInv, BootTypes, Fail
<1>3. LinkInv'
  BY LinkDown DEF Fail
<1> QED
  BY <1>1, <1>2, <1>3 DEF BootInv

(* The console's pumps. *)
LEMMA PumpKeeps ==
  ASSUME BootInv, NEW s \in Stream, PumpNext(s) \/ QemuPrints(s)
  PROVE  BootInv'
<1>1. ConsoleTypes' /\ BufferInv'
  BY PumpReadKeeps, PassKeeps, PrintKeeps DEF BootInv, PumpNext
<1>2. UNCHANGED <<qemu, main, prep, probeVars, guestVars>>
  BY DEF PumpNext, PumpReads, PumpPasses, QemuPrints
<1>3. UNCHANGED <<connected, session, toGuest, toHost>>
  BY <1>2 DEF probeVars
<1> QED
  BY <1>1, <1>2, <1>3, BootTypesStay, LinkStays DEF BootInv

(* QEMU exits. *)
LEMMA QemuKeeps ==
  ASSUME BootInv, QemuExits
  PROVE  BootInv'
<1>1. ConsoleTypes' /\ BufferInv'
  BY ConsoleStays DEF BootInv, QemuExits
<1>2. BootTypes'
  <2>1. <<>> \in Seq(Session)
    OBVIOUS
  <2> QED
    BY <2>1 DEF BootInv, BootTypes, QemuExits, probeVars
<1> QED
  BY <1>1, <1>2, ExitKeeps DEF BootInv

(* The branches of wait_for_agent. *)
LEMMA WaitKeeps ==
  ASSUME BootInv, WaitNext
  PROVE  BootInv'
<1>1. CASE ProgressTicks \/ NotifyTaken
  <2>1. /\ main \in {"select", "notify"} /\ main' \in {"select", "notify"}
        /\ UNCHANGED <<consoleVars, listening, qemu, prep, probeVars, guestVars>>
    BY <1>1 DEF ProgressTicks, NotifyTaken
  <2>2. ConsoleTypes' /\ BufferInv'
    BY <2>1, ConsoleStays DEF BootInv
  <2>3. BootTypes'
    BY <2>1 DEF BootInv, BootTypes, probeVars, guestVars
  <2>4. LinkInv'
    BY <2>1 DEF BootInv, LinkInv, Announced, Taken, Lost, probeVars, guestVars
  <2> QED
    BY <2>2, <2>3, <2>4 DEF BootInv
<1> QED
  BY <1>1, FailKeeps DEF WaitNext, ChildExits, Deadline

(* prepare_agent before it connects. *)
LEMMA PrepKeeps ==
  ASSUME BootInv, PrepNext
  PROVE  BootInv'
<1>1. CASE WaitForPrompt
  <2>1. /\ channel # <<>>
        /\ channel' = <<>> \/ channel' = Tail(channel)
        /\ listening' = listening \/ listening' = FALSE
        /\ prep = "prompt" /\ main = "select" /\ prep' \in {"prompt", "install"}
        /\ UNCHANGED <<qemu, pipe, taken, pump, console, main, probeVars, guestVars>>
    BY <1>1 DEF WaitForPrompt, PromptSeen
  <2>2. listening' \in BOOLEAN
    BY <2>1 DEF BootInv, ConsoleTypes
  <2>3. ConsoleTypes' /\ BufferInv'
    BY <2>1, <2>2, ChannelShrinks DEF BootInv
  <2>4. BootTypes'
    BY <2>1 DEF BootInv, BootTypes, probeVars, guestVars
  <2>5. LinkInv'
    BY <2>1, LinkBeforeInit DEF BootInv, probeVars
  <2> QED
    BY <2>3, <2>4, <2>5 DEF BootInv
<1>2. CASE InstallAgent
  <2>1. /\ prep = "install" /\ main = "select" /\ prep' = "tick" /\ port' \in {"absent", "starting"}
        /\ UNCHANGED <<qemu, consoleVars, listening, main, probeVars, accepted, answers>>
    BY <1>2 DEF InstallAgent
  <2>2. ConsoleTypes' /\ BufferInv'
    BY <2>1, ConsoleStays DEF BootInv
  <2>3. BootTypes'
    BY <2>1 DEF BootInv, BootTypes, probeVars
  <2>4. LinkInv'
    BY <2>1, LinkBeforeInit DEF BootInv, probeVars
  <2> QED
    BY <2>2, <2>3, <2>4 DEF BootInv
<1> QED
  BY <1>1, <1>2, FailKeeps DEF PrepNext, StdoutDied, InstallFails

(* connect_agent *)
LEMMA ProbeKeeps ==
  ASSUME BootInv, ProbeNext
  PROVE  BootInv'
<1> USE DEF BootInv
<1>1. UNCHANGED <<consoleVars, listening>>
  BY DEF ProbeNext, IntervalPasses, Tick, Connect, ConnectFails, Initialized, InitTimeout, AgentDies,
     Ready, DropAgent
<1>2. ConsoleTypes' /\ BufferInv'
  BY <1>1, ConsoleStays
<1>3. CASE IntervalPasses
  <2>1. GuestWorks \in BOOLEAN
    BY DEF GuestWorks
  <2>2. mishaps' \in 0..MaxMishaps
    BY <1>3, <2>1, PatienceIs DEF IntervalPasses
  <2>3. due' = TRUE /\ UNCHANGED <<qemu, main, prep, connected, session, toGuest, toHost, guestVars>>
    BY <1>3 DEF IntervalPasses
  <2>4. BootTypes'
    BY <2>2, <2>3 DEF BootTypes, guestVars
  <2> QED
    BY <1>2, <2>3, <2>4, LinkStays
<1>4. CASE Tick \/ ConnectFails
  <2>1. /\ prep \in {"tick", "connect"} /\ main = "select" /\ prep' \in {"tick", "connect"} /\ due' \in BOOLEAN
        /\ UNCHANGED <<qemu, main, mishaps, connected, session, toGuest, toHost, guestVars>>
    BY <1>4 DEF Tick, ConnectFails, probeVars, BootTypes
  <2>2. BootTypes'
    BY <2>1 DEF BootTypes, guestVars
  <2> QED
    BY <1>2, <2>1, <2>2, LinkBeforeInit
<1>5. CASE Connect
  <2>1. session' \in Session
    BY <1>5 DEF Connect, FreshSessions
  <2>2. toGuest' \in Seq(Session)
    BY <1>5, <2>1, QueueTypes DEF Connect, BootTypes
  <2>3. BootTypes'
    BY <1>5, <2>1, <2>2 DEF Connect, BootTypes, guestVars
  <2> QED
    BY <1>2, <1>5, <2>3, ConnectAnnounces
<1>6. ASSUME DropAgent, due' \in BOOLEAN, mishaps' \in 0..MaxMishaps, main = "select" PROVE BootInv'
  <2>1. /\ prep' = "tick" /\ connected' = FALSE /\ toHost' = <<>>
        /\ toGuest' = toGuest \/ toGuest' = <<>>
        /\ UNCHANGED <<qemu, main, session, guestVars>>
    BY <1>6 DEF DropAgent
  <2>2. toGuest' \in Seq(Session) /\ toHost' \in Seq(Session)
    <3>1. <<>> \in Seq(Session)
      OBVIOUS
    <3> QED
      BY <2>1, <3>1 DEF BootTypes
  <2>3. BootTypes'
    BY <1>6, <2>1, <2>2 DEF BootTypes, guestVars
  <2> QED
    BY <1>2, <1>6, <2>1, <2>3, LinkDown
<1>7. CASE Initialized
  <2>1. CASE Head(toHost) = session
    <3>1. /\ toHost # <<>> /\ main' = "ready" /\ toHost' = Tail(toHost)
          /\ UNCHANGED <<qemu, prep, due, mishaps, connected, session, toGuest, guestVars>>
      BY <1>7, <2>1 DEF Initialized, Ready
    <3>2. toHost' \in Seq(Session)
      BY <3>1 DEF BootTypes
    <3>3. BootTypes'
      BY <3>1, <3>2 DEF BootTypes, guestVars
    <3> QED
      BY <1>2, <1>7, <3>3, InitializedIsOwn
  <2>2. CASE Head(toHost) # session
    BY <1>6, <1>7, <2>2 DEF Initialized, BootTypes
  <2> QED
    BY <2>1, <2>2
<1>8. CASE InitTimeout
  <2> DEFINE busy == toHost # <<>> \/ GuestWorks \/ port = "closed"
  <2>1. busy \in BOOLEAN /\ Patience(busy)
    BY <1>8 DEF InitTimeout
  <2> HIDE DEF busy
  <2>2. mishaps' \in 0..MaxMishaps
    BY <2>1, PatienceIs
  <2> QED
    BY <1>6, <1>8, <2>2 DEF InitTimeout
<1>9. CASE AgentDies
  BY <1>6, <1>9 DEF AgentDies, BootTypes
<1> QED
  BY <1>3, <1>4, <1>5, <1>7, <1>8, <1>9 DEF ProbeNext

(* The guest. *)
LEMMA GuestKeeps ==
  ASSUME BootInv, GuestNext
  PROVE  BootInv'
<1> USE DEF BootInv
<1>1. UNCHANGED <<qemu, consoleVars, listening, main, prep>>
  BY DEF GuestNext, GuestOpens, GuestReads, GuestSeesHangup, GuestWrites, GuestCloses
<1>2. ConsoleTypes' /\ BufferInv'
  BY <1>1, ConsoleStays
<1>3. CASE GuestOpens
  <2>1. (toHost # <<>>) \in BOOLEAN /\ Patience(toHost # <<>>)
    BY <1>3 DEF GuestOpens
  <2>2. mishaps' \in 0..MaxMishaps
    BY <2>1, PatienceIs
  <2>3. BootTypes'
    BY <1>1, <1>3, <2>2 DEF BootTypes, GuestOpens
  <2> QED
    BY <1>2, <1>3, <2>3, OpenKeeps
<1>4. CASE GuestReads
  <2>1. /\ Head(toGuest) \in Session /\ answers' \in Seq(Session) /\ toGuest' \in Seq(Session)
    BY <1>4, QueueTypes DEF BootTypes, GuestReads
  <2>2. BootTypes'
    BY <1>1, <1>4, <2>1 DEF BootTypes, GuestReads
  <2> QED
    BY <1>2, <1>4, <2>2, ReadKeeps
<1>5. CASE GuestSeesHangup
  <2>1. /\ connected = FALSE /\ port' = "closing" /\ UNCHANGED <<probeVars, accepted, answers>>
    BY <1>5 DEF BootTypes, GuestSeesHangup
  <2>2. BootTypes'
    BY <1>1, <2>1 DEF BootTypes, probeVars
  <2>3. LinkInv'
    BY <1>1, <2>1, LinkDown DEF LinkInv, probeVars
  <2> QED
    BY <1>2, <2>2, <2>3
<1>6. CASE GuestWrites
  <2>1. answers' \in Seq(Session) /\ toHost' \in Seq(Session)
    BY <1>6, QueueTypes DEF BootTypes, GuestWrites
  <2>2. BootTypes'
    BY <1>1, <1>6, <2>1 DEF BootTypes, GuestWrites
  <2> QED
    BY <1>2, <1>6, <2>2, WriteKeeps
<1>7. CASE GuestCloses
  <2>1. PICK quick \in BOOLEAN :
          /\ Patience(quick)
          /\ toGuest' = IF connected /\ ~quick /\ session \in Range(toGuest)
                          THEN <<session>> ELSE <<>>
    BY <1>7 DEF GuestCloses
  <2>2. mishaps' \in 0..MaxMishaps
    BY <2>1, PatienceIs
  <2>3. connected => session \in Session
    BY DEF LinkInv
  <2>4. toGuest' \in Seq(Session)
    BY <2>1, <2>3
  <2>5. BootTypes'
    BY <1>1, <1>7, <2>2, <2>4 DEF BootTypes, GuestCloses
  <2> QED
    BY <1>2, <1>7, <2>5, CloseKeeps
<1> QED
  BY <1>3, <1>4, <1>5, <1>6, <1>7 DEF GuestNext

(* All of them. *)
LEMMA BootStep == BootInv /\ [Next]_vars => BootInv'
<1> SUFFICES ASSUME BootInv, [Next]_vars PROVE BootInv'
  OBVIOUS
<1>1. CASE UNCHANGED vars
  <2>1. UNCHANGED <<qemu, consoleVars, listening, main, prep, probeVars, guestVars>>
    BY <1>1 DEF vars
  <2>2. UNCHANGED <<connected, session, toGuest, toHost>>
    BY <2>1 DEF probeVars
  <2> QED
    BY <2>1, <2>2, ConsoleStays, BootTypesStay, LinkStays DEF BootInv
<1>2. CASE Next
  BY <1>2, PumpKeeps, WaitKeeps, PrepKeeps, ProbeKeeps, GuestKeeps, QemuKeeps DEF Next, QemuNext
<1> QED
  BY <1>1, <1>2

(* The invariant holds always. *)
LEMMA BootInvariance == Spec => []BootInv
BY BootInit, BootStep, PTL DEF Spec

-----------------------------------------------------------------------------
(* The theorems *)

(* What console_dump shows of a console are its last lines, in order and   *)
(* without a gap, whichever pump pushes when and whether anyone listens.   *)
THEOREM ConsoleHoldsLastHolds == Spec => []ConsoleHoldsLast
<1>1. BootInv => ConsoleHoldsLast
  <2> SUFFICES ASSUME BootInv PROVE ConsoleHoldsLast
    OBVIOUS
  <2>1. TypeOK
    BY DEF BootInv, ConsoleTypes, BootTypes, TypeOK
  <2> QED
    BY <2>1 DEF BootInv, BufferInv, Ordered, Gapless, ConsoleHoldsLast
<1> QED
  BY <1>1, BootInvariance, PTL

(* An agent that connect_agent returns is in the session it announced, and *)
(* nothing of an earlier attempt is left on its link, however late the     *)
(* answers to earlier attempts are.                                        *)
THEOREM ReadyOnOwnSessionHolds == Spec => []ReadyOnOwnSession
<1>1. BootInv => ReadyOnOwnSession
  BY DEF BootInv, LinkInv, Reached, ReadyOnOwnSession
<1> QED
  BY <1>1, BootInvariance, PTL
=============================================================================
