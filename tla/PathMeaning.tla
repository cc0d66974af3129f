------------------------------ MODULE PathMeaning ------------------------------
(***************************************************************************)
(* What a path means, as a recursive definition over a tree that does not  *)
(* change, and the walks of PathWalk against it.                           *)
(***************************************************************************)
EXTENDS PathWalk

\* What POSIX makes of a path below a base that it must not leave: dirs are
\* the directories from the base to the one reached, n the links left.
RECURSIVE Resolve(_, _, _, _)
Resolve(dirs, p, n, m) ==
  IF p = <<>> THEN (IF m = "excl" THEN "error" ELSE Last(dirs))
  ELSE IF Head(p) = "." THEN Resolve(dirs, Tail(p), n, m)
  ELSE IF Head(p) = ".."
  THEN IF Len(dirs) = 1 THEN "error" ELSE Resolve(Front(dirs), Tail(p), n, m)
  ELSE LET e == ent[Last(dirs)][Head(p)]
           last == Len(p) = 1
       IN  CASE e = "l" /\ (m \in {"follow", "create"} \/ ~last) ->
                  IF n = 0 \/ target = Absolute THEN "error"
                  ELSE Resolve(dirs, target \o Tail(p), n - 1, m)
             [] e \in Dirs /\ ~last -> Resolve(Append(dirs, e), Tail(p), n, m)
             [] last /\ m \in {"create", "excl"} /\ e = "none" -> "new"
             [] last /\ m # "excl" /\ e \notin {"none", "l"} -> e
             [] last /\ op \in {"metadata", "stat"} /\ e = "l" -> "l"
             [] OTHER -> "error"

Expected == Resolve(<<"base">>, name, MaxLinks, mode)

\* In a tree that does not change, a walk opens what the path means, links,
\* parent steps and their order included, and creates a file where the last
\* link points; exclusive creation does not go through a link, except with
\* openAtDarwin, which follows it.  And where links may appear anywhere, nothing
\* that the path means is refused, but for directories that are to be created,
\* paths that Preview 1 rejects by their text, and depths beyond the pinned
\* handles.
OpensWhatItNames ==
  [][op # "parent" /\ ~changing /\ at' = "done" /\ result' # Expected =>
       IF result' # "error" THEN variant = "darwin" /\ mode = "excl"
       ELSE \/ variant = "linux"
            \/ mode = "create" /\ Expected \in Dirs
            \/ variant # "p2" /\ (Escapes(name) \/ TooDeep)]_vars
================================================================================
