--------------------------- MODULE StreamCommand ---------------------------
(***************************************************************************)
(* The host commands of the exec, git, GitHub, ssh, lima and docker tools: *)
(* StreamCommand::execute (mcp-server/src/helpers/steam_command.rs), with  *)
(* its two line readers, the child, and a descendant of it that may keep   *)
(* the pipes open.  A line is UTF-8 text or it is not; its characters, and *)
(* the exit status, do not matter here.                                    *)
(***************************************************************************)
EXTENDS Naturals, Sequences

CONSTANTS StreamKind,  \* Stdout and Stderr
          Stdout,      \* the one of them a mutation favours
          LineKind,    \* what a line may be: text, or binary
          PIPE,        \* bound: lines a pipe holds
          CAPACITY,    \* lines the channel holds
          MaxLines     \* bound: lines the child writes to a stream

ASSUME StreamAssumption ==
  /\ Stdout \in StreamKind
  /\ LineKind \subseteq {"text", "binary"}
  /\ {PIPE, CAPACITY} \subseteq Nat \ {0} /\ MaxLines \in Nat

VARIABLES
  child,   \* running, zombie, reaped
  kid,     \* a descendant that inherited the pipes: alive, gone
  todo,    \* todo[s]: lines the child has still to write
  wrote,   \* wrote[s]: what it has written
  pipe,    \* pipe[s]: what of it is in the pipe
  reader,  \* reader[s]: read_lines: read, send, done
  line,    \* line[s]: the line it waits to send
  chan,    \* the channel to the loop
  pc,      \* execute_for_result: loop, notify, wait, done
  token,   \* the request carries a progress token
  buffer   \* buffer[s]: stdout_buf and stderr_buf

childVars  == <<child, kid, todo, wrote>>
readerVars == <<reader, line>>
mainVars   == <<pc, token, buffer>>
vars == <<childVars, pipe, readerVars, chan, mainVars>>

NONE == "none"

Init ==
  /\ child = "running" /\ kid \in {"alive", "gone"}
  /\ todo \in [StreamKind -> 0..MaxLines]
  /\ wrote = [s \in StreamKind |-> <<>>]
  /\ pipe = [s \in StreamKind |-> <<>>]
  /\ reader = [s \in StreamKind |-> "read"]
  /\ line = [s \in StreamKind |-> NONE]
  /\ chan = <<>>
  /\ pc = "loop" /\ token \in BOOLEAN
  /\ buffer = [s \in StreamKind |-> <<>>]

-----------------------------------------------------------------------------
(* The child blocks on a full pipe, and a broken one may end it. *)

ChildWrites(s) ==
  /\ child = "running" /\ todo[s] > 0
  /\ reader[s] # "done" /\ Len(pipe[s]) < PIPE
  /\ \E l \in LineKind : /\ pipe' = [pipe EXCEPT ![s] = Append(@, l)]
                         /\ wrote' = [wrote EXCEPT ![s] = Append(@, l)]
  /\ todo' = [todo EXCEPT ![s] = @ - 1]
  /\ UNCHANGED <<child, kid, readerVars, chan, mainVars>>

ChildExits ==
  /\ child = "running"
  /\ \A s \in StreamKind : todo[s] > 0 => reader[s] = "done"
  /\ child' = "zombie"
  /\ UNCHANGED <<kid, todo, wrote, pipe, readerVars, chan, mainVars>>

KidExits ==
  /\ kid = "alive" /\ kid' = "gone"
  /\ UNCHANGED <<child, todo, wrote, pipe, readerVars, chan, mainVars>>

-----------------------------------------------------------------------------
(* read_lines: the end of the pipe and a line that is not UTF-8 end it.    *)

(* Mutation of ReaderReads: stderr is read once stdout has ended. *)
ReaderReadsInTurn(s) ==
  /\ reader[s] = "read" /\ pipe[s] # <<>>
  /\ s # Stdout => reader[Stdout] = "done"
  /\ pipe' = [pipe EXCEPT ![s] = Tail(@)]
  /\ \/ /\ Head(pipe[s]) = "text"
        /\ reader' = [reader EXCEPT ![s] = "send"]
        /\ line' = [line EXCEPT ![s] = Head(pipe[s])]
     \/ /\ Head(pipe[s]) # "text"
        /\ reader' = [reader EXCEPT ![s] = "done"]
        /\ UNCHANGED line
  /\ UNCHANGED <<childVars, chan, mainVars>>

ReaderReads(s) ==
  /\ reader[s] = "read" /\ pipe[s] # <<>>
  /\ pipe' = [pipe EXCEPT ![s] = Tail(@)]
  /\ \/ /\ Head(pipe[s]) = "text"
        /\ reader' = [reader EXCEPT ![s] = "send"]
        /\ line' = [line EXCEPT ![s] = Head(pipe[s])]
     \/ /\ Head(pipe[s]) # "text"
        /\ reader' = [reader EXCEPT ![s] = "done"]
        /\ UNCHANGED line
  /\ UNCHANGED <<childVars, chan, mainVars>>

ReaderEnds(s) ==
  /\ reader[s] = "read" /\ pipe[s] = <<>>
  /\ child # "running" /\ kid = "gone"
  /\ reader' = [reader EXCEPT ![s] = "done"]
  /\ UNCHANGED <<childVars, pipe, line, chan, mainVars>>

ReaderSends(s) ==
  /\ reader[s] = "send" /\ Len(chan) < CAPACITY
  /\ chan' = Append(chan, [stream |-> s, line |-> line[s]])
  /\ reader' = [reader EXCEPT ![s] = "read"]
  /\ line' = [line EXCEPT ![s] = NONE]
  /\ UNCHANGED <<childVars, pipe, mainVars>>

-----------------------------------------------------------------------------
(* execute_for_result *)

Receive ==
  /\ pc = "loop" /\ chan # <<>>
  /\ chan' = Tail(chan)
  /\ buffer' = [buffer EXCEPT ![Head(chan).stream] = Append(@, Head(chan).line)]
  /\ pc' = IF token THEN "notify" ELSE "loop"
  /\ UNCHANGED <<childVars, pipe, readerVars, token>>

NotifyTaken ==
  /\ pc = "notify" /\ pc' = "loop"
  /\ UNCHANGED <<childVars, pipe, readerVars, chan, token, buffer>>

(* Mutation of LoopEnds: the loop ends with the child, not with its output. *)
LoopEndsWithChild ==
  /\ pc = "loop" /\ chan = <<>> /\ child # "running"
  /\ pc' = "wait"
  /\ UNCHANGED <<childVars, pipe, readerVars, chan, token, buffer>>

(* The channel closes when both readers have dropped their senders. *)
LoopEnds ==
  /\ pc = "loop" /\ chan = <<>>
  /\ \A s \in StreamKind : reader[s] = "done"
  /\ pc' = "wait"
  /\ UNCHANGED <<childVars, pipe, readerVars, chan, token, buffer>>

Wait ==
  /\ pc = "wait" /\ child = "zombie"
  /\ child' = "reaped" /\ pc' = "done"
  /\ UNCHANGED <<kid, todo, wrote, pipe, readerVars, chan, token, buffer>>

-----------------------------------------------------------------------------
ReaderNext(s) == ReaderReads(s) \/ ReaderEnds(s) \/ ReaderSends(s)
MainNext == Receive \/ NotifyTaken \/ LoopEnds \/ Wait
ChildNext == ChildExits \/ \E s \in StreamKind : ChildWrites(s)
Next == KidExits \/ ChildNext \/ MainNext \/ \E s \in StreamKind : ReaderNext(s)

Spec == Init /\ [][Next]_vars

(* The runtime polls whatever can go on, the client takes notifications,   *)
(* and the child goes on as long as nothing blocks it.                     *)
FairSpec ==
  /\ Spec /\ WF_vars(ChildNext) /\ WF_vars(MainNext)
  /\ \A s \in StreamKind : WF_vars(ReaderNext(s))

-----------------------------------------------------------------------------
(* Every variable has its type. *)
TypeOK ==
  /\ child \in {"running", "zombie", "reaped"} /\ kid \in {"alive", "gone"}
  /\ todo \in [StreamKind -> 0..MaxLines]
  /\ reader \in [StreamKind -> {"read", "send", "done"}]
  /\ line \in [StreamKind -> LineKind \union {NONE}]
  /\ pc \in {"loop", "notify", "wait", "done"} /\ token \in BOOLEAN
  /\ wrote \in [StreamKind -> Seq(LineKind)]
  /\ \A s \in StreamKind : buffer[s] \in Seq(LineKind) /\ Len(pipe[s]) <= PIPE
  /\ \A i \in DOMAIN chan : chan[i].stream \in StreamKind
  /\ Len(chan) <= CAPACITY

IsText(l) == l = "text"

(* Of a stream that is text, the result has all that was written to it,    *)
(* even if the other stream is cut short: nothing is lost on its way       *)
(* through pipe, reader and channel, and none of them holds more than it   *)
(* has room for.                                                           *)
ResultIsComplete ==
  /\ TypeOK
  /\ pc = "done" => \A s \in StreamKind :
       (\A i \in DOMAIN wrote[s] : IsText(wrote[s][i])) => buffer[s] = wrote[s]

(* "returns their combined stdout/stderr" (README.md:5): each line of text *)
(* that was written is in the result.  The code does not provide this:     *)
(* read_lines ends at a line that is not UTF-8 as if the stream had, and   *)
(* what is behind that line is dropped without a word.                     *)
OutputIsReturned ==
  pc = "done" => \A s \in StreamKind : buffer[s] = SelectSeq(wrote[s], IsText)

(* A command that waits for nobody else gets to its end and is returned:   *)
(* no pipe is left unread while the other one is waited for.               *)
CommandReturns == (kid = "gone") ~> (pc = "done")
=============================================================================
