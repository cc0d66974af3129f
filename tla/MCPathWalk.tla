------------------------------ MODULE MCPathWalk ------------------------------
EXTENDS PathMeaning

MCVariants == {"linux", "darwin", "windows", "p2"}

Contents(nodes) == [Names -> nodes \cup {"none"}]
Nothing == [n \in Names |-> "none"]
Out == [a |-> "none", b |-> "x"]

\* Every way to place the directory, the files and the link.
MCTrees ==
  {[base |-> b, d |-> d, e |-> Nothing, out |-> Out] :
     b \in {c \in Contents({"d", "f", "l"}) : c["a"] # "d" \/ c["b"] # "d"},
     d \in Contents({"g", "l"})}

\* The directories and the link move; the other names stay taken.
MCTree ==
  {[base |-> [a |-> "d", b |-> "l"], d |-> [a |-> "h", b |-> "e"],
    e |-> [a |-> "h", b |-> "h"], out |-> Out]}

MCPaths ==
  UNION {[1..n -> Components] : n \in 1..2}
    \cup {<<"a", "..", "b">>, <<"a", "b", "..">>, <<"b", "a", "b">>, <<"a", "b", ".">>,
          <<"a", "..", "a", "b">>, <<"b", "..", "a">>, <<"a", "b", "..", "b">>, <<"a", "b", "..", "..">>}
MCDeepPaths ==
  {<<"a", "..", "a", "a">>, <<"a", "b", "..", "..", "b">>, <<"a", "b", "a", "..">>, <<"b", "..">>}

MCTargets ==
  {<<"a">>, <<"..", "a">>, <<"a", "..">>, <<"a", "b">>, <<".">>, Absolute}
MCLoopTargets == {<<"a", "..", "b">>, <<"a", "b">>}

MCWalks ==
  [name : MCPaths, ent : MCTrees, target : MCTargets, changing : {FALSE}]
    \cup [name : MCDeepPaths, ent : MCTree, target : MCLoopTargets, changing : {TRUE}]
==============================================================================
