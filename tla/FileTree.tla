------------------------------ MODULE FileTree ------------------------------
(***************************************************************************)
(* Paths and the tree of files they lead through: path_resolver.rs and     *)
(* permissions.rs, and what the calls of the file system do to a tree.     *)
(*                                                                         *)
(* A path from / is the sequence of its names, <<>> the root itself.  A    *)
(* tree is a function from the paths that exist, none of which leads       *)
(* through a link, to nodes.  A link leads to its target in one hop.       *)
(***************************************************************************)
EXTENDS Naturals, Sequences, SequencesExt, FiniteSetsExt

CONSTANTS NOWHERE,  \* no path
          HOME      \* the user's home directory

Path == Seq(STRING)

ASSUME FileTreeAssumption == NOWHERE \notin Path /\ HOME \in Path

DIR == [kind |-> "dir", text |-> <<>>, to |-> <<>>]
File(text) == [kind |-> "file", text |-> text, to |-> <<>>]
Link(to) == [kind |-> "link", text |-> <<>>, to |-> to]

Is(kind, t, p) == p \in DOMAIN t /\ t[p].kind = kind
Parent(p) == IF p = <<>> THEN <<>> ELSE Front(p)
From(p, base) == SubSeq(p, Len(base) + 1, Len(p))

(* A path without . and .., and a tree: every entry is in a folder. *)
Plain(p) == p \in Path /\ ~Contains(p, ".") /\ ~Contains(p, "..")

WellFormed(t) ==
  /\ Is("dir", t, <<>>)
  /\ \A p \in DOMAIN t :
       /\ Plain(p) /\ (p # <<>> => Is("dir", t, Parent(p)))
       /\ t[p].kind \in {"dir", "file", "link"} /\ (t[p].kind = "link" => Plain(t[p].to))

(* The end of the steps along p; each starts from the one value before. *)
Along(Step(_, _), p) ==
  LET at[k \in 0..Len(p)] == IF k = 0 THEN {<<>>} ELSE {Step(q, p[k]) : q \in at[k - 1]}
  IN  CHOOSE q \in at[Len(p)] : TRUE

-----------------------------------------------------------------------------
(* The kernel's walk along a path: canonicalize, and every open. *)

Follow(t, p) ==
  LET q == IF Is("link", t, p) THEN t[p].to ELSE p
  IN  IF Is("dir", t, q) \/ Is("file", t, q) THEN q ELSE NOWHERE

WalkStep(t, at, name) ==
  IF ~Is("dir", t, at) THEN NOWHERE
  ELSE CASE name = "."  -> at
         [] name = ".." -> Parent(at)
         [] OTHER       -> Follow(t, Append(at, name))

Walk(t, p) == Along(LAMBDA at, name : WalkStep(t, at, name), p)

(* Where a call that makes, renames or replaces the entry p acts. *)
Place(t, p) ==
  LET at == Walk(t, Parent(p))
  IN  IF p # <<>> /\ Is("dir", t, at) THEN Append(at, Last(p)) ELSE NOWHERE

(* Where an open that may create the file p creates or finds it. *)
OpenPlace(t, p) ==
  LET q == Place(t, p) IN IF Is("link", t, q) THEN Place(t, t[q].to) ELSE q

-----------------------------------------------------------------------------
(* PathResolver *)

MakeAbsolute(root, raw) ==
  CASE raw # <<>> /\ Head(raw) = "~" -> HOME \o Tail(raw)
    [] raw # <<>> /\ Head(raw) = "/" -> Tail(raw)
    [] OTHER                         -> root \o raw

(* A component that cannot be canonicalized stays as it is written. *)
ResolveStep(t, at, name) ==
  LET candidate == Append(at, name)
      canonical == Walk(t, candidate)
  IN  CASE name = "."  -> at
        [] name = ".." -> Parent(at)
        [] OTHER       -> IF canonical = NOWHERE THEN candidate ELSE canonical

(* Mutation of Resolve: `..` is taken from the text, before any link. *)
ResolveText(t, p) ==
  LET text == Along(LAMBDA at, name : CASE name = "."  -> at
                                        [] name = ".." -> Parent(at)
                                        [] OTHER       -> Append(at, name), p)
      canonical == Walk(t, text)
  IN  IF canonical = NOWHERE THEN text ELSE canonical

Resolve(t, p) == Along(LAMBDA at, name : ResolveStep(t, at, name), p)

-----------------------------------------------------------------------------
(* Permissions: the patterns are made when the session's context is. *)

Context(t, root) ==
  [root  |-> root,
   reads |-> {Resolve(t, HOME \o <<folder>>) : folder \in {".cargo", ".claude"}}]

Denied(context, p) ==
  IsPrefix(context.root, p) /\ Contains(From(p, context.root), ".git")

Allowed(context, group, p) ==
  \/ IsStrictPrefix(context.root, p)
  \/ group = "read" /\ \/ p = context.root
                       \/ \E folder \in context.reads : IsStrictPrefix(folder, p)

Check(t, context, group, p) ==
  LET q == Resolve(t, p) IN ~Denied(context, q) /\ Allowed(context, group, q)

-----------------------------------------------------------------------------
(* What the calls of the file system make of a tree. *)

Put(t, p, node) == [q \in DOMAIN t \union {p} |-> IF q = p THEN node ELSE t[q]]

Empty(t, p) == \A q \in DOMAIN t : ~IsStrictPrefix(p, q)

(* rename(2), from one entry to another *)
MayRename(t, source, target) ==
  /\ source \in DOMAIN t /\ target # NOWHERE
  /\ ~IsStrictPrefix(source, target)
  /\ target \in DOMAIN t \ {source} =>
       Is("dir", t, source) = Is("dir", t, target) /\ Empty(t, target)

Moved(source, target, p) == IF IsPrefix(source, p) THEN target \o From(p, source) ELSE p

Renamed(t, source, target) ==
  LET kept == IF source = target THEN DOMAIN t ELSE DOMAIN t \ {target}
      move(p) == Moved(source, target, p)
  IN  [q \in {move(p) : p \in kept} |-> t[CHOOSE p \in kept : move(p) = q]]

(* mkdir -p: what exists is walked, the rest is made. *)
Existing(t, p) == SubSeq(p, 1, Max({k \in 0..Len(p) : Walk(t, SubSeq(p, 1, k)) # NOWHERE}))

MayMake(t, p) ==
  LET base == Existing(t, p) IN
  /\ Is("dir", t, Walk(t, base))
  /\ base # p => Append(Walk(t, base), p[Len(base) + 1]) \notin DOMAIN t

Made(t, p) ==
  LET base == Existing(t, p)
      made == {Walk(t, base) \o SubSeq(p, Len(base) + 1, k) : k \in Len(base) + 1..Len(p)}
  IN  [q \in DOMAIN t \union made |-> IF q \in made THEN DIR ELSE t[q]]
=============================================================================
