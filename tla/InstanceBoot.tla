---------------------------- MODULE InstanceBoot ----------------------------
(***************************************************************************)
(* The boot of an instance, mcp-server/src/tools/other/rdk_qemu: from the  *)
(* spawn of QEMU to an agent that has accepted a session (instance.rs,     *)
(* agent/mod.rs, console_buffer.rs).  Three things go on at once:          *)
(*   - two pumps read the console, pass every line on to wait_for_prompt   *)
(*     while it listens, and keep the last ones in the console buffer;     *)
(*   - wait_for_agent selects among prepare_agent, the progress report,    *)
(*     the exit of QEMU and the deadline;                                  *)
(*   - connect_agent connects again and again until an Initialize comes    *)
(*     back with its session.  Every connection numbers its requests from  *)
(*     0, so that the answer to an earlier attempt carries the right id.   *)
(* The guest agent is reduced to what its port shows of GuestAgent.tla.    *)
(***************************************************************************)
EXTENDS Naturals, Sequences, SequencesExt

CONSTANTS
  Stream, STDOUT,      \* the consoles of QEMU, and the one that shows the prompt
  PromptLine,          \* which line of STDOUT is the prompt
  ConsoleLines,        \* bound: lines each stream carries
  Session, NO_SESSION, \* sessions that initialize draws at random
  PIPE_CAPACITY, CONSOLE_CHANNEL, CONSOLE_CAPACITY,
  MaxMishaps           \* bound: how often time is against the boot

ASSUME InstanceBootAssumption ==
  /\ STDOUT \in Stream
  /\ ConsoleLines \in [Stream -> Nat]
  /\ PromptLine \in 1..ConsoleLines[STDOUT]
  /\ NO_SESSION \notin Session
  /\ {PIPE_CAPACITY, CONSOLE_CHANNEL, CONSOLE_CAPACITY} \subseteq Nat \ {0}
  /\ MaxMishaps \in Nat

VARIABLES
  qemu,        \* running, exited
  pipe, taken, \* per stream: lines in the pipe, lines a pump has read
  pump,        \* per stream, pump_console: read, reserve, done
  channel,     \* the lines on their way to wait_for_prompt
  listening,   \* console_rx has not been dropped
  console,     \* RdkQemuConsoleBuffer
  main,        \* wait_for_agent: select, notify, ready, failed
  prep,        \* prepare_agent: prompt, install, tick, connect, init
  due,         \* the next tick of the probe interval has already passed
  mishaps,        \* how often the guest has been slow
  connected,   \* the connection of connect_agent, if there is one
  session,     \* the session it announced last
  toGuest,     \* sessions announced on the port and not read
  port,        \* the guest's end: absent, starting, open, closing, closed
  accepted,    \* the session the orchestrator is in
  answers,     \* Initialized answers the guest has not written
  toHost       \* those it has written

consoleVars == <<pipe, taken, pump, channel, console>>
probeVars   == <<due, mishaps, connected, session, toGuest, toHost>>
guestVars   == <<port, accepted, answers>>
vars == <<qemu, consoleVars, listening, main, prep, probeVars, guestVars>>

Line == UNION {{s} \X (1..ConsoleLines[s]) : s \in Stream}
PROMPT == <<STDOUT, PromptLine>>

Init ==
  /\ qemu = "running"
  /\ pipe = [s \in Stream |-> 0] /\ taken = [s \in Stream |-> 0]
  /\ pump = [s \in Stream |-> "read"]
  /\ channel = <<>> /\ listening = TRUE /\ console = <<>>
  /\ main = "select" /\ prep = "prompt"
  /\ due = TRUE /\ mishaps = 0
  /\ connected = FALSE /\ session = NO_SESSION /\ toGuest = <<>>
  /\ port = "absent" /\ accepted = NO_SESSION
  /\ answers = <<>> /\ toHost = <<>>

-----------------------------------------------------------------------------
(* QEMU.  A full pipe stops it, and with it the guest's console. *)

Blocked(s) == pipe[s] = PIPE_CAPACITY

QemuPrints(s) ==
  /\ qemu = "running" /\ ~Blocked(s) /\ taken[s] + pipe[s] < ConsoleLines[s]
  /\ pipe' = [pipe EXCEPT ![s] = @ + 1]
  /\ UNCHANGED <<qemu, taken, pump, channel, console, listening, main, prep,
                 probeVars, guestVars>>

QemuExits ==
  /\ qemu = "running"
  /\ qemu' = "exited" /\ port' = "absent" /\ answers' = <<>>
  /\ UNCHANGED <<consoleVars, listening, main, prep, probeVars, accepted>>

-----------------------------------------------------------------------------
(* pump_console.  The pumps of a boot that failed are dropped. *)

PumpReads(s) ==
  /\ main # "failed" /\ pump[s] = "read"
  /\ \/ /\ pipe[s] > 0
        /\ pipe' = [pipe EXCEPT ![s] = @ - 1]
        /\ taken' = [taken EXCEPT ![s] = @ + 1]
        /\ pump' = [pump EXCEPT ![s] = "reserve"]
     \/ /\ pipe[s] = 0 /\ qemu = "exited"
        /\ pump' = [pump EXCEPT ![s] = "done"]
        /\ UNCHANGED <<pipe, taken>>
  /\ UNCHANGED <<qemu, channel, console, listening, main, prep, probeVars, guestVars>>

(* Mutation of Push: the buffer drops the oldest line one line too late.  *)
PushLate(line) ==
  IF Len(console) > CONSOLE_CAPACITY THEN Append(Tail(console), line)
  ELSE Append(console, line)

(* RdkQemuConsoleBuffer::push *)
Push(line) ==
  IF Len(console) >= CONSOLE_CAPACITY THEN Append(Tail(console), line)
  ELSE Append(console, line)

(* The line goes to the listener, if there still is one, and to the buffer. *)
PumpPasses(s) ==
  /\ main # "failed" /\ pump[s] = "reserve"
  /\ \/ ~listening /\ UNCHANGED channel
     \/ /\ listening /\ Len(channel) < CONSOLE_CHANNEL
        /\ channel' = Append(channel, <<s, taken[s]>>)
  /\ console' = Push(<<s, taken[s]>>)
  /\ pump' = [pump EXCEPT ![s] = "read"]
  /\ UNCHANGED <<qemu, pipe, taken, listening, main, prep, probeVars, guestVars>>

-----------------------------------------------------------------------------
(* The other branches of wait_for_agent. *)

ProgressTicks ==
  /\ main = "select" /\ console # <<>>
  /\ main' = "notify"
  /\ UNCHANGED <<qemu, consoleVars, listening, prep, probeVars, guestVars>>

(* notify_progress returns; until then no branch is polled. *)
NotifyTaken ==
  /\ main = "notify"
  /\ main' = "select"
  /\ UNCHANGED <<qemu, consoleVars, listening, prep, probeVars, guestVars>>

(* The boot returns an error: the child is killed and everything dropped. *)
Fail ==
  /\ main' = "failed" /\ qemu' = "exited"
  /\ listening' = FALSE /\ channel' = <<>>
  /\ connected' = FALSE /\ toGuest' = <<>> /\ toHost' = <<>>
  /\ port' = "absent" /\ answers' = <<>>
  /\ UNCHANGED <<pipe, taken, pump, console, prep, due, mishaps, session, accepted>>

ChildExits == main = "select" /\ qemu = "exited" /\ Fail
Deadline   == main = "select" /\ Fail

-----------------------------------------------------------------------------
(* prepare_agent up to connect_agent *)

(* Mutation of PromptSeen: the receiver lives on after the prompt. *)
PromptSeenListening ==
  /\ prep' = "install"
  /\ channel' = Tail(channel) /\ UNCHANGED listening

(* wait_for_prompt returns and drops console_rx with what is in it. *)
PromptSeen ==
  /\ prep' = "install"
  /\ listening' = FALSE /\ channel' = <<>>

WaitForPrompt ==
  /\ main = "select" /\ prep = "prompt" /\ channel # <<>>
  /\ IF Head(channel) = PROMPT
       THEN PromptSeen
       ELSE channel' = Tail(channel) /\ UNCHANGED <<listening, prep>>
  /\ UNCHANGED <<qemu, pipe, taken, pump, console, main, probeVars, guestVars>>

(* Both pumps have ended, and with them the senders. *)
StdoutDied ==
  /\ main = "select" /\ prep = "prompt" /\ channel = <<>>
  /\ \A s \in Stream : pump[s] = "done"
  /\ Fail

(* The lines are typed, which QEMU takes while its console is not stuck.   *)
(* What they start opens the port, unless they were lost on a shell that   *)
(* was not reading yet.                                                    *)
InstallAgent ==
  /\ main = "select" /\ prep = "install" /\ qemu = "running"
  /\ \A s \in Stream : ~Blocked(s)
  /\ prep' = "tick"
  /\ port' \in {"absent", "starting"}
  /\ UNCHANGED <<qemu, consoleVars, listening, main, probeVars, accepted, answers>>

InstallFails == main = "select" /\ prep = "install" /\ qemu = "exited" /\ Fail

-----------------------------------------------------------------------------
(* connect_agent *)

(* An agent that has opened the port has something to do. *)
GuestWorks ==
  \/ port = "open" /\ (toGuest # <<>> \/ ~connected)
  \/ port \in {"open", "closing"} /\ connected /\ answers # <<>>
  \/ port = "closing" /\ answers = <<>>

(* Two seconds that pass while `busy` holds: how often is bounded. *)
Patience(busy) ==
  /\ busy => mishaps < MaxMishaps
  /\ mishaps' = IF busy THEN mishaps + 1 ELSE mishaps

(* AGENT_PROBE_INTERVAL after a short attempt: the next one is due. *)
IntervalPasses ==
  /\ prep = "tick" /\ ~due /\ main # "failed"
  /\ Patience(GuestWorks)
  /\ due' = TRUE
  /\ UNCHANGED <<qemu, consoleVars, listening, main, prep, connected, session, toGuest,
                 toHost, guestVars>>

Tick ==
  /\ main = "select" /\ prep = "tick" /\ due
  /\ prep' = "connect" /\ due' = FALSE
  /\ UNCHANGED <<qemu, consoleVars, listening, main, mishaps, connected, session, toGuest,
                 toHost, guestVars>>

(* What rand::random draws differs from every session that is still around; *)
(* the bound Session is large enough for one to be left.                   *)
FreshSessions ==
  Session \ (Range(toGuest) \union Range(answers) \union {accepted, session})

(* RdkQemuAgent::connect, and initialize up to its send. *)
Connect ==
  /\ main = "select" /\ prep = "connect" /\ qemu = "running"
  /\ FreshSessions # {}
  /\ prep' = "init" /\ connected' = TRUE
  /\ session' = CHOOSE s \in FreshSessions : TRUE
  /\ toGuest' = Append(toGuest, session')
  /\ UNCHANGED <<qemu, consoleVars, listening, main, due, mishaps, toHost, guestVars>>

ConnectFails ==
  /\ main = "select" /\ prep = "connect"
  /\ prep' = "tick"
  /\ UNCHANGED <<qemu, consoleVars, listening, main, probeVars, guestVars>>

(* Mutation of DropAgent: the pump of the old connection keeps it open. *)
DropAgentConnected ==
  /\ prep' = "tick" /\ toHost' = <<>>
  /\ toGuest' = IF port \in {"open", "closing"} THEN toGuest ELSE <<>>
  /\ UNCHANGED <<qemu, consoleVars, listening, main, connected, session, guestVars>>

(* The agent is dropped, and its connection with what is under way on it;  *)
(* what the guest's open port has taken in stays there.                    *)
DropAgent ==
  /\ prep' = "tick" /\ connected' = FALSE
  /\ toHost' = <<>>
  /\ toGuest' = IF port \in {"open", "closing"} THEN toGuest ELSE <<>>
  /\ UNCHANGED <<qemu, consoleVars, listening, main, session, guestVars>>

Ready ==
  /\ main' = "ready" /\ toHost' = Tail(toHost)
  /\ UNCHANGED <<qemu, consoleVars, listening, prep, due, mishaps, connected, session,
                 toGuest, guestVars>>

(* Mutation of Initialized: the session in the answer is not compared. *)
InitializedAnyhow ==
  /\ main = "select" /\ prep = "init" /\ toHost # <<>>
  /\ Ready

(* Any answer on the connection carries the id that initialize waits for.  *)
Initialized ==
  /\ main = "select" /\ prep = "init" /\ toHost # <<>>
  /\ IF Head(toHost) = session THEN Ready
       ELSE DropAgent /\ UNCHANGED <<due, mishaps>>

(* The probe times out.  The attempt took the whole interval. *)
InitTimeout ==
  /\ main = "select" /\ prep = "init"
  /\ Patience(toHost # <<>> \/ GuestWorks \/ port = "closed")
  /\ due' = TRUE
  /\ DropAgent

(* QEMU is gone: pump_agent ends, and with it the waiting for an answer. *)
AgentDies ==
  /\ main = "select" /\ prep = "init" /\ qemu = "exited"
  /\ DropAgent /\ UNCHANGED <<due, mishaps>>

-----------------------------------------------------------------------------
(* The guest agent as its port shows it: main, run_session. *)

(* RETRY_DELAY after it was closed, or once it runs.  A host that has not  *)
(* taken an answer by then is slow.                                        *)
GuestOpens ==
  /\ port \in {"starting", "closed"}
  /\ Patience(toHost # <<>>)
  /\ port' = "open" /\ accepted' = NO_SESSION
  /\ UNCHANGED <<qemu, consoleVars, listening, main, prep, due, connected, session,
                 toGuest, toHost, answers>>

GuestReads ==
  /\ port = "open" /\ toGuest # <<>>
  /\ accepted' = Head(toGuest)
  /\ answers' = Append(answers, Head(toGuest))
  /\ toGuest' = Tail(toGuest)
  /\ UNCHANGED <<qemu, consoleVars, listening, main, prep, due, mishaps, connected,
                 session, toHost, port>>

(* A read returns 0: the reader ends, the orchestrator after it. *)
GuestSeesHangup ==
  /\ port = "open" /\ toGuest = <<>> /\ ~connected
  /\ port' = "closing"
  /\ UNCHANGED <<qemu, consoleVars, listening, main, prep, probeVars, accepted, answers>>

GuestWrites ==
  /\ connected /\ answers # <<>>
  /\ toHost' = Append(toHost, Head(answers))
  /\ answers' = Tail(answers)
  /\ UNCHANGED <<qemu, consoleVars, listening, main, prep, due, mishaps, connected,
                 session, toGuest, port, accepted>>

(* The writer has written everything.  Closing the port discards what it   *)
(* has taken in and nobody read: leftovers of earlier connections, and of  *)
(* the present one what was quick enough to be there.                      *)
GuestCloses ==
  /\ port = "closing" /\ answers = <<>>
  /\ port' = "closed"
  /\ \E quick \in BOOLEAN :
       /\ Patience(quick)
       /\ toGuest' = IF connected /\ ~quick /\ session \in Range(toGuest)
                       THEN <<session>> ELSE <<>>
  /\ UNCHANGED <<qemu, consoleVars, listening, main, prep, due, connected,
                 session, toHost, accepted, answers>>

-----------------------------------------------------------------------------
PumpNext(s) == PumpReads(s) \/ PumpPasses(s)
WaitNext    == ProgressTicks \/ NotifyTaken \/ ChildExits \/ Deadline
PrepNext    == WaitForPrompt \/ StdoutDied \/ InstallAgent \/ InstallFails
ProbeNext   == IntervalPasses \/ Tick \/ Connect \/ ConnectFails \/ Initialized \/ InitTimeout \/ AgentDies
GuestNext   == GuestOpens \/ GuestReads \/ GuestSeesHangup \/ GuestWrites \/ GuestCloses
QemuNext    == QemuExits \/ \E s \in Stream : QemuPrints(s)

Next == (\E s \in Stream : PumpNext(s)) \/ WaitNext \/ PrepNext \/ ProbeNext
          \/ GuestNext \/ QemuNext

Spec == Init /\ [][Next]_vars

(* Every task that can go on is polled, and select! takes each of its      *)
(* ready branches sooner or later; QEMU prints and the guest works on; the *)
(* client takes its notifications; a connect does not fail forever.        *)
(* Nothing is asked of the deadline: it must not be needed.                *)
Fairness ==
  /\ \A s \in Stream : WF_vars(PumpNext(s)) /\ WF_vars(QemuPrints(s))
  /\ WF_vars(NotifyTaken)
  /\ SF_vars(ChildExits) /\ SF_vars(IntervalPasses) /\ SF_vars(Connect)
  /\ SF_vars(PrepNext \/ Tick \/ Initialized \/ InitTimeout \/ AgentDies)
  /\ WF_vars(GuestOpens \/ GuestReads \/ GuestSeesHangup \/ GuestCloses)
  /\ WF_vars(GuestWrites)

FairSpec == Spec /\ Fairness

-----------------------------------------------------------------------------
(* Every variable has its type. *)
TypeOK ==
  /\ qemu \in {"running", "exited"}
  /\ pipe \in [Stream -> 0..PIPE_CAPACITY] /\ taken \in [Stream -> Nat]
  /\ pump \in [Stream -> {"read", "reserve", "done"}]
  /\ channel \in Seq(Line) /\ Len(channel) <= CONSOLE_CHANNEL
  /\ listening \in BOOLEAN /\ console \in Seq(Line)
  /\ main \in {"select", "notify", "ready", "failed"}
  /\ prep \in {"prompt", "install", "tick", "connect", "init"}
  /\ due \in BOOLEAN /\ mishaps \in 0..MaxMishaps
  /\ connected \in BOOLEAN /\ session \in Session \union {NO_SESSION}
  /\ {toGuest, answers, toHost} \subseteq Seq(Session)
  /\ port \in {"absent", "starting", "open", "closing", "closed"}
  /\ accepted \in Session \union {NO_SESSION}

(* The lines of stream s that have reached the console buffer. *)
Pushed(s) == IF pump[s] = "reserve" THEN taken[s] - 1 ELSE taken[s]
Shows(s, n) == \E i \in 1..Len(console) : console[i] = <<s, n>>

(* console_dump shows the last lines: of each stream the latest ones, in   *)
(* order and without a gap, and no line is missing as long as there is     *)
(* room (console_buffer.rs, and two pumps that push at the same time); nor *)
(* does any channel or pipe before it hold more than it has room for.      *)
ConsoleHoldsLast ==
  /\ TypeOK
  /\ Len(console) <= CONSOLE_CAPACITY
  /\ \A i, j \in 1..Len(console) :
       i < j /\ console[i][1] = console[j][1] => console[i][2] < console[j][2]
  /\ \A i \in 1..Len(console) : console[i][2] \in 1..Pushed(console[i][1])
  /\ \A s \in Stream : \A n \in 1..Pushed(s) :
       Len(console) < CONSOLE_CAPACITY \/ (\E k \in 1..n : Shows(s, k)) => Shows(s, n)

(* An agent that connect_agent returns is in the session it announced, on  *)
(* a link that carries nothing of an earlier attempt: no late answer can   *)
(* be taken for the answer to one of its requests (agent/mod.rs:86).       *)
ReadyOnOwnSession ==
  main = "ready" =>
    /\ connected /\ accepted = session
    /\ toGuest = <<>> /\ answers = <<>> /\ toHost = <<>>

(* Whatever the boot is waiting for, and after it, the console is read:    *)
(* QEMU, and the guest with it, is never stuck for good on a full pipe.    *)
ConsoleIsRead ==
  \A s \in Stream : (pipe[s] > 0 /\ main # "failed") ~> (pipe[s] = 0 \/ main = "failed")

(* The boot ends without the deadline's help: however late answers meet    *)
(* new attempts, connect_agent gets to a session, unless the lines that    *)
(* should start the agent were lost.                                       *)
AgentIsReached ==
  <>(\/ main \in {"ready", "failed"}
     \/ prep \in {"tick", "connect", "init"} /\ port = "absent")
=============================================================================
