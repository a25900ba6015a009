---------------------------- MODULE MCFileTools -----------------------------
(* Instances of FileTools for TLC. *)
EXTENDS FileTools

Home == <<"h">>
W == <<"w">>
Words == {"x", "y", NL}

(* src/l leads back to the workspace; the last line of f has no NL. *)
Tree ==
  (<<>> :> DIR) @@ (W :> DIR) @@ (<<"w", "f">> :> File(<<"x", NL, "x">>))
  @@ (<<"w", "src">> :> DIR) @@ (<<"w", "src", "g">> :> File(<<"x", NL>>))
  @@ (<<"w", "src", "l">> :> Link(W))
  @@ (<<"w", ".git">> :> DIR) @@ (<<"w", ".git", "c">> :> File(<<"y", NL>>))
  @@ (Home :> DIR) @@ (<<"h", ".cargo">> :> DIR) @@ (<<"h", ".cargo", "r">> :> File(<<"x", NL>>))

Requests == {
  [tool |-> "read",  path |-> <<"src", "l", "f">>, start |-> 2, stop |-> 1],
  [tool |-> "read",  path |-> <<"~", ".cargo", "r">>, start |-> 1, stop |-> 1],
  [tool |-> "list",  path |-> <<"src", "l", "..">>],
  [tool |-> "write", path |-> <<"src", "h">>, text |-> <<"x">>],
  [tool |-> "write", path |-> <<"src", "l", ".git", "c">>, text |-> <<"x">>],
  [tool |-> "edit",  path |-> <<"f">>, start |-> 1, stop |-> 2, text |-> <<"y">>],
  [tool |-> "edit",  path |-> <<"f">>, start |-> 2, stop |-> 2, text |-> <<"x", NL, "y">>],
  [tool |-> "edit",  path |-> <<"src", "g">>, start |-> 3, stop |-> 2, text |-> <<"y">>],
  [tool |-> "move",  path |-> <<"src">>, target |-> <<"e">>],
  [tool |-> "move",  path |-> <<"f">>, target |-> <<"src", "g">>],
  [tool |-> "make",  path |-> <<"e", "k">>],
  [tool |-> "glob",  path |-> <<".">>],
  [tool |-> "glob",  path |-> <<"src", "l">>, include |-> "g"],
  [tool |-> "grep",  path |-> <<".">>],
  [tool |-> "grep",  path |-> <<"/", "w", "src">>] }

Headers == {NOWHERE, W}
RootAnswers == {NOWHERE, W, <<"w", "src">>}
=============================================================================
