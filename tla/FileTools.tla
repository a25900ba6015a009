----------------------------- MODULE FileTools ------------------------------
(***************************************************************************)
(* The file tools of one session: main.rs (the session's context),         *)
(* context.rs and tools/fs.  Every call runs in a task of its own; they    *)
(* share the context, built by the first of them under a mutex, and the    *)
(* tree of files, which no call locks.  A write is what tokio::fs::write   *)
(* makes of it: the file is opened and emptied, then written.              *)
(*                                                                         *)
(* A text is a sequence of words and NLs.  Resolving a path, listing one   *)
(* folder and reading one file are one step each; the order in which a     *)
(* folder gives its entries is left open.                                  *)
(***************************************************************************)
EXTENDS FileTree, FiniteSets

CONSTANTS Caller,      \* the calls that run at a time
          Request,     \* what may be called
          Header,      \* x-mcp-workspace-root of the session, or NOWHERE
          RootAnswer,  \* first file root the client lists, NOWHERE for none
          InitialTree,
          Word, NL,    \* what a text is made of, the end of a line among it
          QUERY,
          ANY,         \* a glob or grep without a pattern
          MaxResults,  \* MAX_RESULTS
          MaxCalls     \* bound: calls of the session

Tools == {"read", "list", "write", "edit", "move", "make", "glob", "grep"}
Fields == {"tool", "path", "target", "start", "stop", "text", "include"}

Text == Seq(Word)

(* What the arguments of a call are: a line number is a NonZeroUsize.  A   *)
(* glob or grep without a path is one with the path <<".">>.               *)
Types == [path |-> Path, target |-> Path, start |-> Nat \ {0}, stop |-> Nat \ {0}, text |-> Text]

ASSUME FileToolsAssumption ==
  /\ NOWHERE \notin Caller /\ NL \in Word
  /\ \A request \in Request :
       /\ {"tool", "path"} \subseteq DOMAIN request /\ DOMAIN request \subseteq Fields
       /\ request.tool \in Tools
       /\ \A field \in DOMAIN request \intersect DOMAIN Types : request[field] \in Types[field]
  /\ Header \union RootAnswer \subseteq Path \union {NOWHERE}
  /\ WellFormed(InitialTree) /\ IsFiniteSet(DOMAIN InitialTree)
  /\ \A p \in DOMAIN InitialTree : InitialTree[p].text \in Text
  /\ MaxResults \in Nat \ {0} /\ MaxCalls \in Nat

VARIABLES
  tree,     \* the files
  header,   \* init_context: the root in the headers of the first initialize
  lock,     \* who holds the mutex of the context, or NOWHERE
  cell,     \* the context, or NOWHERE
  call,     \* the calls
  calls,    \* how many there have been
  handle,   \* where the file is that a call has open for writing
  seen      \* history: files and texts a call saw, that no other has changed since

session == <<header, lock, cell>>
vars == <<tree, session, call, calls, handle, seen>>

IDLE == [at |-> "idle", tool |-> "none", path |-> <<>>, target |-> <<>>, context |-> NOWHERE,
         start |-> 1, stop |-> 1, text |-> <<>>, include |-> ANY,
         data |-> <<>>, dirs |-> {}, files |-> {}, hits |-> {}, cut |-> FALSE, ok |-> FALSE]

Init ==
  /\ tree = InitialTree
  /\ header \in Header /\ lock = NOWHERE /\ cell = NOWHERE
  /\ call = [c \in Caller |-> IDLE] /\ calls = 0
  /\ handle = [c \in Caller |-> NOWHERE]
  /\ seen = [c \in Caller |-> {}]

(* The call goes on as the record says. *)
With(record, changed) ==
  [field \in DOMAIN record |-> IF field \in DOMAIN changed THEN changed[field] ELSE record[field]]
Goes(c, changed) == call' = [call EXCEPT ![c] = With(@, changed)]

Ends(c, result) == Goes(c, [at |-> "done", ok |-> result])

(* The call may change what it has seen at p, nobody what another has seen. *)
Changes(c, p, new) ==
  /\ tree' = new
  /\ seen' = [d \in Caller |-> {x \in seen[d] :
                IF d = c THEN x[1] = p ELSE x[1] \in DOMAIN tree' /\ tree'[x[1]] = tree[x[1]]}]

Sees(c, paths) ==
  /\ seen' = [seen EXCEPT ![c] = {<<p, tree[p].text>> : p \in {q \in paths : Is("file", tree, q)}}]
  /\ UNCHANGED tree

-----------------------------------------------------------------------------
(* Lines, as split_inclusive gives them: with their NL, the last maybe without. *)

LineStep(lines, word) ==
  IF lines = <<>> \/ Last(Last(lines)) = NL
    THEN Append(lines, <<word>>)
    ELSE Append(Front(lines), Append(Last(lines), word))

Lines(text) == Along(LineStep, text)

(* read_file: numbered lines, from an offset, at most limit of them *)
Numbered(text, offset, limit) ==
  LET lines == Lines(text)
  IN  {<<n, lines[n]>> : n \in {k \in DOMAIN lines : k >= offset /\ k < offset + limit}}

Matching(text) == {n \in DOMAIN Lines(text) : Contains(Lines(text)[n], QUERY)}

Terminated(text) == IF text = <<>> \/ Last(text) = NL THEN text ELSE Append(text, NL)

(* Mutation of Edited: the start line itself is kept. *)
EditedAfter(text, start, stop, new) ==
  LET lines == Lines(text)
  IN  FlattenSeq(SubSeq(lines, 1, start)) \o Terminated(new) \o FlattenSeq(SubSeq(lines, stop + 1, Len(lines)))

Edited(text, start, stop, new) ==
  LET lines == Lines(text)
  IN  FlattenSeq(SubSeq(lines, 1, Min({start - 1, Len(lines)}))) \o Terminated(new)
      \o FlattenSeq(SubSeq(lines, stop, Len(lines)))

-----------------------------------------------------------------------------
(* A call arrives, and gets the session's context: try_get_context. *)

Arrives(c, request) ==
  /\ call[c] = IDLE /\ calls < MaxCalls
  /\ calls' = calls + 1
  /\ call' = [call EXCEPT ![c] = With(With(@, request), [at |-> "context"])]
  /\ UNCHANGED <<tree, session, handle, seen>>

HasContext(c, context) == Goes(c, [at |-> "resolve", context |-> context])

TakesContext(c) ==
  /\ call[c].at = "context" /\ lock = NOWHERE /\ cell # NOWHERE
  /\ HasContext(c, cell)
  /\ UNCHANGED <<tree, session, calls, handle, seen>>

Builds(c, root) ==
  LET context == Context(tree, Walk(tree, root)) IN
  /\ cell' = context /\ HasContext(c, context)

HeaderWorks == header # NOWHERE /\ Walk(tree, header) # NOWHERE

BuildsFromHeader(c) ==
  /\ call[c].at = "context" /\ lock = NOWHERE /\ cell = NOWHERE
  /\ HeaderWorks
  /\ Builds(c, header)
  /\ UNCHANGED <<tree, header, lock, calls, handle, seen>>

NeedsRoots(c) ==
  /\ call[c].at = "context" /\ lock = NOWHERE /\ cell = NOWHERE
  /\ ~HeaderWorks
  /\ Goes(c, [at |-> "roots"])
  /\ UNCHANGED <<tree, header, cell, calls, handle, seen>>

(* Mutation of AsksRoots: the mutex is not held while the client is asked. *)
AsksRootsUnlocked(c) == NeedsRoots(c) /\ UNCHANGED lock

AsksRoots(c) == NeedsRoots(c) /\ lock' = c

(* What the client lists is not cached when no context can be built of it. *)
RootsArrive(c, root) ==
  /\ call[c].at = "roots"
  /\ lock' = NOWHERE
  /\ IF root # NOWHERE /\ Walk(tree, root) # NOWHERE
       THEN Builds(c, root) ELSE Ends(c, FALSE) /\ UNCHANGED cell
  /\ UNCHANGED <<tree, header, calls, handle, seen>>

-----------------------------------------------------------------------------
(* What the tools have in common: resolve, then check. *)

Group(tool) == IF tool \in {"write", "edit", "move", "make"} THEN "write" ELSE "read"

Resolves(c) ==
  LET full(raw) == Resolve(tree, MakeAbsolute(call[c].context.root, raw)) IN
  /\ call[c].at = "resolve"
  /\ Goes(c, [at |-> "check", path |-> full(call[c].path), target |-> full(call[c].target)])
  /\ UNCHANGED <<tree, session, calls, handle, seen>>

Checked(c) ==
  LET may(p) == Check(tree, call[c].context, Group(call[c].tool), p)
  IN  may(call[c].path) /\ (call[c].tool = "move" => may(call[c].target))

Checks(c) ==
  /\ call[c].at = "check"
  /\ IF Checked(c) THEN Goes(c, [at |-> call[c].tool]) ELSE Ends(c, FALSE)
  /\ UNCHANGED <<tree, session, calls, handle, seen>>

-----------------------------------------------------------------------------
(* file_read.rs, file_read_raw.rs, directory_list.rs *)

Reads(c) ==
  LET p == Walk(tree, call[c].path) IN
  /\ call[c].at = "read"
  /\ IF Is("file", tree, p)
       THEN Goes(c, [at |-> "done", ok |-> TRUE,
                     hits |-> Numbered(tree[p].text, call[c].start, call[c].stop)])
       ELSE Ends(c, FALSE)
  /\ UNCHANGED <<tree, session, calls, handle, seen>>

Lists(c) ==
  /\ call[c].at = "list"
  /\ Ends(c, Is("dir", tree, Walk(tree, call[c].path)))
  /\ UNCHANGED <<tree, session, calls, handle, seen>>

-----------------------------------------------------------------------------
(* file_write.rs, file_edit.rs *)

(* An edit reads first; what it writes is made of what it has read. *)
EditReads(c) ==
  LET p == Walk(tree, call[c].path)
      e == call[c]
  IN  /\ e.at = "edit"
      /\ IF e.stop >= e.start /\ Is("file", tree, p)
           THEN /\ Goes(c, [at |-> "write", data |-> Edited(tree[p].text, e.start, e.stop, e.text)])
                /\ Sees(c, {p})
           ELSE Ends(c, FALSE) /\ UNCHANGED <<tree, seen>>
      /\ UNCHANGED <<session, calls, handle>>

(* tokio::fs::write opens the file, which makes or empties it, ... *)
Opens(c) ==
  LET p == OpenPlace(tree, call[c].path) IN
  /\ call[c].at = "write"
  /\ IF p # NOWHERE /\ (p \in DOMAIN tree => Is("file", tree, p))
       THEN /\ Changes(c, p, Put(tree, p, File(<<>>)))
            /\ handle' = [handle EXCEPT ![c] = p]
            /\ Goes(c, [at |-> "fill"])
       ELSE Ends(c, FALSE) /\ UNCHANGED <<tree, seen, handle>>
  /\ UNCHANGED <<session, calls>>

(* ... and writes from its start, over what another call has written. *)
Fills(c) ==
  LET new == IF call[c].tool = "edit" THEN call[c].data ELSE call[c].text
      p == handle[c]
  IN  /\ call[c].at = "fill"
      /\ Changes(c, p, IF p = NOWHERE THEN tree
                       ELSE Put(tree, p, File(new \o From(tree[p].text, new))))
      /\ handle' = [handle EXCEPT ![c] = NOWHERE]
      /\ Ends(c, TRUE)
      /\ UNCHANGED <<session, calls>>

-----------------------------------------------------------------------------
(* file_move.rs, directory_make.rs *)

(* A file that is open moves along; one that is replaced is lost. *)
Moves(c) ==
  LET source == Place(tree, call[c].path)
      target == Place(tree, call[c].target)
      moved(p) == IF p = NOWHERE \/ (p = target /\ source # target) THEN NOWHERE
                  ELSE Moved(source, target, p)
  IN  /\ call[c].at = "move"
      /\ IF source # NOWHERE /\ MayRename(tree, source, target)
           THEN /\ Changes(c, target, Renamed(tree, source, target))
                /\ handle' = [d \in Caller |-> moved(handle[d])]
                /\ Ends(c, TRUE)
           ELSE Ends(c, FALSE) /\ UNCHANGED <<tree, seen, handle>>
      /\ UNCHANGED <<session, calls>>

Makes(c) ==
  /\ call[c].at = "make"
  /\ IF MayMake(tree, call[c].path)
       THEN Changes(c, call[c].path, Made(tree, call[c].path)) /\ Ends(c, TRUE)
       ELSE Ends(c, FALSE) /\ UNCHANGED <<tree, seen>>
  /\ UNCHANGED <<session, calls, handle>>

-----------------------------------------------------------------------------
(* glob.rs, grep.rs: collect_files walks, then the files are searched. *)

Hidden(name) == name \in {".git", ".cargo"}
Entries(d, kind) ==
  LET at == Walk(tree, d)
  IN  {Append(d, Last(p)) : p \in {q \in DOMAIN tree : Parent(q) = at /\ q # at
                                     /\ ~Hidden(Last(q)) /\ tree[q].kind = kind}}

WalkStarts(c) ==
  LET one == Is("file", tree, Walk(tree, call[c].path)) IN
  /\ call[c].at \in {"glob", "grep"}
  /\ Goes(c, [at |-> "walk", files |-> IF one THEN {call[c].path} ELSE {},
              dirs |-> IF one THEN {} ELSE {call[c].path}])
  /\ Sees(c, DOMAIN tree)
  /\ UNCHANGED <<session, calls, handle>>

Listing(c, d, dirs) ==
  /\ call[c].at = "walk" /\ d \in call[c].dirs
  /\ Goes(c, [dirs |-> (call[c].dirs \ {d}) \union dirs,
              files |-> call[c].files \union Entries(d, "file")])
  /\ UNCHANGED <<tree, session, calls, handle, seen>>

(* Mutation of ListsFolder: a link to a folder is a folder. *)
ListsLinked(c, d) ==
  Listing(c, d, Entries(d, "dir") \union
                {p \in {Walk(tree, q) : q \in Entries(d, "link")} : Is("dir", tree, p)})

(* A folder that is gone, or cannot be read, has no entries. *)
ListsFolder(c, d) == Listing(c, d, Entries(d, "dir"))

(* The pattern is matched against the path below the folder that is searched. *)
Included(c, p) ==
  LET below == From(p, call[c].path)
  IN  call[c].include = ANY \/ (below # <<>> /\ Last(below) = call[c].include)

SomeOf(S, n) == IF Cardinality(S) <= n THEN S ELSE CHOOSE T \in SUBSET S : Cardinality(T) = n

WalkEnds(c) ==
  LET files == {p \in call[c].files : Included(c, p)} IN
  /\ call[c].at = "walk" /\ call[c].dirs = {}
  /\ IF call[c].tool = "glob"
       THEN Goes(c, [at |-> "done", ok |-> TRUE, cut |-> Cardinality(files) > MaxResults,
                     hits |-> {<<p, 0>> : p \in SomeOf(files, MaxResults)}])
       ELSE Goes(c, [at |-> "scan", files |-> files])
  /\ UNCHANGED <<tree, session, calls, handle, seen>>

(* collect_file_lines: the first matches of a file that still is one *)
FileHits(c, p) ==
  LET at == Walk(tree, p)
      found == IF Is("file", tree, at) /\ Check(tree, call[c].context, "read", p)
                 THEN Matching(tree[at].text) ELSE {}
      room == MaxResults - Cardinality(call[c].hits)
  IN  {<<p, n>> : n \in {k \in found : Cardinality({j \in found : j < k}) < room}}

Scans(c, p) ==
  /\ call[c].at = "scan" /\ p \in call[c].files /\ Cardinality(call[c].hits) < MaxResults
  /\ Goes(c, [files |-> call[c].files \ {p}, hits |-> call[c].hits \union FileHits(c, p)])
  /\ UNCHANGED <<tree, session, calls, handle, seen>>

(* Mutation of ScanEnds: as glob does, more than the maximum is needed. *)
ScanEndsOver(c) ==
  /\ call[c].at = "scan"
  /\ call[c].files = {} \/ Cardinality(call[c].hits) >= MaxResults
  /\ Goes(c, [at |-> "done", ok |-> TRUE, cut |-> Cardinality(call[c].hits) > MaxResults])
  /\ UNCHANGED <<tree, session, calls, handle, seen>>

(* Enough is found or nothing is left; whoever has enough says so. *)
ScanEnds(c) ==
  /\ call[c].at = "scan"
  /\ call[c].files = {} \/ Cardinality(call[c].hits) >= MaxResults
  /\ Goes(c, [at |-> "done", ok |-> TRUE, cut |-> Cardinality(call[c].hits) >= MaxResults])
  /\ UNCHANGED <<tree, session, calls, handle, seen>>

-----------------------------------------------------------------------------
Returns(c) ==
  /\ call[c].at = "done"
  /\ call' = [call EXCEPT ![c] = IDLE]
  /\ seen' = [seen EXCEPT ![c] = {}]
  /\ UNCHANGED <<tree, session, calls, handle>>

ContextNext(c) ==
  \/ TakesContext(c) \/ BuildsFromHeader(c) \/ AsksRoots(c)
  \/ \E root \in RootAnswer : RootsArrive(c, root)

SearchNext(c) ==
  \/ WalkStarts(c) \/ WalkEnds(c) \/ ScanEnds(c)
  \/ \E d \in call[c].dirs : ListsFolder(c, d)
  \/ \E p \in call[c].files : Scans(c, p)

CallNext(c) ==
  \/ ContextNext(c) \/ Resolves(c) \/ Checks(c) \/ Returns(c)
  \/ Reads(c) \/ Lists(c) \/ EditReads(c) \/ Opens(c) \/ Fills(c)
  \/ Moves(c) \/ Makes(c) \/ SearchNext(c)

Next == \E c \in Caller : CallNext(c) \/ \E request \in Request : Arrives(c, request)

(* What CallNext(c) is enabled by, in every state that is reached. *)
Ready(c) == call[c].at # "idle" /\ (call[c].at = "context" => lock = NOWHERE)

(* A task that can go on does, and the client answers what it is asked:    *)
(* WF_vars(CallNext(c)), with its ENABLED written as Ready.                *)
FairSpec ==
  /\ Init /\ [][Next]_vars
  /\ \A c \in Caller : []<>~Ready(c) \/ []<><<CallNext(c)>>_vars

-----------------------------------------------------------------------------
(* Properties *)

(* The state is well formed: whatever the calls make of it, the tree is a  *)
(* tree, a file that is open is one of its files, and no search has more   *)
(* than MAX_RESULTS hits.                                                  *)
TypeOK ==
  /\ WellFormed(tree)
  /\ calls \in 0..MaxCalls
  /\ \A c \in Caller :
       /\ DOMAIN call[c] = DOMAIN IDLE
       /\ handle[c] # NOWHERE => Is("file", tree, handle[c]) /\ call[c].at = "fill"
       /\ call[c].tool \in {"glob", "grep"} => Cardinality(call[c].hits) <= MaxResults

(* try_get_context: all calls of a session work in the one context it has, *)
(* whichever of them built it and whatever root another was told, and the  *)
(* mutex it is built under is free unless the client is being asked.       *)
CallsAgree ==
  /\ lock # NOWHERE => call[lock].at = "roots"
  /\ \A c \in Caller : call[c].context \in {NOWHERE, cell}

(* resolve_symlinks: in every tree that calls leave behind, what a path    *)
(* leads to for the kernel, through links and .., is what it is resolved   *)
(* to; and to resolve it again, as every check does, changes nothing.      *)
ResolveIsWalk ==
  /\ TypeOK
  /\ cell # NOWHERE /\ (\A c \in Caller : call[c] = IDLE) =>
       \A request \in Request :
         LET p == MakeAbsolute(cell.root, request.path) IN
         /\ Walk(tree, p) # NOWHERE => Resolve(tree, p) = Walk(tree, p)
         /\ Resolve(tree, Resolve(tree, p)) = Resolve(tree, p)

(* edit_file: while no other call touches the file, an edit leaves every   *)
(* other line as it was, under the number read_file gives it, moved by     *)
(* what the edit added; but a last line without a NL may get text behind.  *)
EditsAreLocal ==
  \A c \in Caller : call[c].at = "done" /\ call[c].tool = "edit" /\ call[c].ok =>
    \A x \in seen[c] :
      LET before == Lines(x[2])
          e == call[c]
          added == Len(Lines(Terminated(e.text))) - (e.stop - e.start)
          shown(n) == Numbered(tree[x[1]].text, n, 1)
      IN  \A n \in DOMAIN before :
            /\ n < e.start /\ Last(before[n]) = NL => shown(n) = {<<n, before[n]>>}
            /\ n >= e.stop => shown(n + added) = {<<n + added, before[n]>>}

(* glob, grep: a search that does not say it was cut short has found all   *)
(* there is in the files that stayed as they were since it began; grep, in *)
(* those of them that it may read.                                         *)
SearchIsComplete ==
  \A c \in Caller :
    call[c].at = "done" /\ call[c].tool \in {"glob", "grep"} /\ call[c].ok /\ ~call[c].cut =>
      \A x \in seen[c] :
        LET p == x[1]
            inside == /\ IsPrefix(call[c].path, p) /\ Included(c, p)
                      /\ call[c].tool = "grep" => Check(tree, call[c].context, "read", p)
                      /\ \A i \in Len(call[c].path) + 1..Len(p) : ~Hidden(p[i])
        IN  inside => \A n \in IF call[c].tool = "glob" THEN {0} ELSE Matching(x[2]) :
                        <<p, n>> \in call[c].hits

(* Every call returns: no walk runs in circles, nobody keeps the mutex.    *)
CallsReturn == \A c \in Caller : call[c].at # "idle" ~> call[c].at = "idle"
=============================================================================
