------------------------------- MODULE PathWalk -------------------------------
(***************************************************************************)
(* The four walks that resolve a guest path below a directory handle one   *)
(* component at a time: openAtWalkFD (Preview 1 on Linux, when openat2 is  *)
(* not to be had), openAtDarwin, walkWindowsParents (for paths with a      *)
(* parent step), and walkUnder of Preview 2; and openParent and            *)
(* parentUnderRaw, which split off the last component for an operation on  *)
(* a name.  They open a file, also to create it, or a handle that is good  *)
(* for metadata only and may be a link's own; walkUnder may instead stat   *)
(* the last component.  Meanwhile other processes rename what is below the *)
(* directory, also out of it.                                              *)
(*                                                                         *)
(* A path is a sequence of components; "." stands for the empty component  *)
(* too.  One link, two directories below the base and two files are        *)
(* enough to form cycles, nested directories and moved directories.        *)
(***************************************************************************)
EXTENDS Integers, Sequences, FiniteSets, Functions

CONSTANTS Variants,   \* subset of {"linux", "darwin", "windows", "p2"}
          Walks,      \* the path asked for, the directories' contents, what the
                      \* link holds, and whether other processes rename things
          MaxLinks,   \* links that a walk follows (40)
          MaxPinned   \* maxPinnedPathDepth (64)

\* As in SequencesExt, which is too large for the prover to carry along.
Front(s) == SubSeq(s, 1, Len(s) - 1)
Last(s) == s[Len(s)]

Names == {"a", "b"}
Components == Names \cup {".", ".."}
Dirs == {"base", "d", "e", "out"}
Below == Dirs \ {"out"}
Inside == {"d", "e", "f", "g", "l"}     \* nodes that begin below the base
Outside == {"out", "x"}                 \* nodes that do not
Nodes == Inside \cup Outside \cup {"h"}
Absolute == <<"/">>

\* A path has at least one component, the empty one included, and at first
\* nothing outside the base is below it.
ASSUME WalkAssumption ==
  /\ Variants \subseteq {"linux", "darwin", "windows", "p2"}
  /\ MaxLinks \in Nat /\ MaxPinned \in Nat
  /\ \A w \in Walks :
       /\ w.name \in Seq(Components) \ {<<>>}
       /\ w.ent \in [Dirs -> [Names -> Nodes \cup {"none"}]]
       /\ \A d \in Below, n \in Names : w.ent[d][n] \notin Outside
       /\ w.target \in Seq(Components) \cup {Absolute}

VARIABLES variant, op, mode, name,   \* the call
          changing,          \* whether other processes rename things meanwhile
          ent, target,       \* directory entries, and the link's content
          rest, resolved,    \* components to do, components done
          cur, parents,      \* the directory reached, and those pinned above it
          retain,            \* whether they are pinned
          outer,             \* files of the calls that this one is nested in
          links, leaf, at, result,
          open               \* open host files

tree == <<ent, target>>
asked == <<variant, op, mode, name, changing>>
walk == <<rest, resolved, cur, parents, retain, outer, links, leaf>>
vars == <<asked, tree, walk, at, result, open>>

Init ==
  /\ variant \in Variants /\ op \in {"open", "parent", "metadata", "stat"}
  /\ \E w \in Walks :
       name = w.name /\ ent = w.ent /\ target = w.target /\ changing = w.changing
  /\ variant = "windows" => ".." \in Range(name)
  /\ op = "stat" => variant = "p2"
  /\ mode \in CASE op = "open" -> {"follow", "nofollow", "create", "excl"}
               [] op = "parent" -> {"follow"}
               [] OTHER -> {"follow", "nofollow"}
  /\ rest = <<>> /\ resolved = <<>> /\ cur = "base" /\ parents = <<>> /\ retain = FALSE
  /\ outer = 0 /\ links = 0 /\ leaf = "nil" /\ at = "start" /\ result = "none" /\ open = 0

\* Another process renames a node; nothing from outside enters.
Rename(d1, n1, d2, n2) ==
  /\ changing /\ ent[d1][n1] \in Inside /\ ent[d2][n2] = "none"
  /\ LET e == ent[d1][n1] IN e \in Dirs => d2 \notin {e} \cup Range(ent[e])
  /\ ent' = [ent EXCEPT ![d1][n1] = "none", ![d2][n2] = ent[d1][n1]]
  /\ UNCHANGED <<asked, target, walk, at, result, open>>

-----------------------------------------------------------------------------
\* pathEscapes, a scan of the names alone.
Depth(p, i) ==
  Cardinality({j \in 1..i : p[j] \in Names}) - Cardinality({j \in 1..i : p[j] = ".."})
Escapes(p) == \E i \in 1..Len(p) : Depth(p, i) < 0

\* Files the walk has to close: windows uses the descriptor's own handle for
\* the base, the others a duplicate.
Own == outer + Len(parents) + (IF variant = "windows" THEN 0 ELSE 1)

\* Every return closes what the walk owns.
Return(r, opened) ==
  at' = "done" /\ result' = r /\ open' = open - Own + opened /\ UNCHANGED walk
Fail == Return("error", 0)

Retained(p) == variant = "windows" \/ (variant # "p2" /\ ".." \in Range(p))

\* From the base again, with another path.
Restart(p) ==
  /\ rest' = p /\ resolved' = <<>> /\ cur' = "base" /\ parents' = <<>> /\ retain' = Retained(p)
  /\ at' = "part" /\ open' = open - Len(parents)
  /\ UNCHANGED <<outer, leaf, result>>

\* openParent: a final parent step is walked like the others.
SplitParent(p) ==
  IF Last(p) = ".." THEN [parent |-> p, leaf |-> "."]
  ELSE [parent |-> Front(p), leaf |-> Last(p)]

\* parentUnderRaw: trailing empty components stay with the name; there must be one.
SplitRaw(p) ==
  LET named == {i \in 1..Len(p) : p[i] # "."}
      i == CHOOSE j \in named : \A k \in named : k <= j
  IN  IF named = {} \/ p[i] = ".." THEN [parent |-> <<>>, leaf |-> "refused"]
      ELSE [parent |-> SubSeq(p, 1, i - 1), leaf |-> p[i]]

Start ==
  /\ at = "start"
  /\ LET split == IF op # "parent" THEN [parent |-> name, leaf |-> "nil"]
                  ELSE IF variant = "p2" THEN SplitRaw(name) ELSE SplitParent(name)
     IN  IF split.leaf = "refused" \/ (variant # "p2" /\ Escapes(name))
         THEN at' = "done" /\ result' = "error" /\ UNCHANGED <<walk, open>>
         ELSE /\ rest' = split.parent /\ leaf' = split.leaf /\ retain' = Retained(split.parent)
              /\ at' = "part" /\ open' = Own
              /\ UNCHANGED <<resolved, cur, parents, outer, links, result>>
  /\ UNCHANGED <<asked, tree>>

Next1 == Head(rest)
Entry == ent[cur][Next1]

Skip ==
  /\ at = "part" /\ rest # <<>> /\ Next1 = "." /\ rest' = Tail(rest)
  /\ UNCHANGED <<asked, tree, resolved, cur, parents, retain, outer, links, leaf, at, result, open>>

\* Mutant: a parent step opens ".." in the directory reached.
PoppedNative ==
  IF \E d \in Dirs, n \in Names : ent[d][n] = cur
  THEN CHOOSE d \in Dirs : \E n \in Names : ent[d][n] = cur
  ELSE "out"

Popped == Last(parents)

\* Mutant: the directory left by a parent step stays open.
PopClosesNot == 0

PopCloses == 1

\* "..": back to a pinned directory; walkUnder instead starts again without
\* the last directory, and with an empty component when nothing follows.
Replayed ==
  Front(resolved) \o (IF Len(rest) = 1 THEN <<".">> ELSE Tail(rest))

Pop ==
  /\ at = "part" /\ rest # <<>> /\ Next1 = ".."
  /\ IF variant = "p2"
     THEN IF resolved = <<>> THEN Fail
          ELSE Restart(Replayed) /\ UNCHANGED links
     ELSE IF parents = <<>> THEN Fail
          ELSE /\ cur' = Popped /\ parents' = Front(parents) /\ resolved' = Front(resolved)
               /\ rest' = Tail(rest) /\ open' = open - PopCloses
               /\ UNCHANGED <<retain, outer, links, leaf, at, result>>
  /\ UNCHANGED <<asked, tree>>

TooDeep == retain /\ Len(parents) >= MaxPinned

Intermediate == at = "part" /\ Len(rest) > 1 /\ Next1 \in Names

Descend ==
  /\ Intermediate
  /\ IF TooDeep THEN Fail
     ELSE IF Entry \in Dirs
     THEN /\ cur' = Entry /\ resolved' = Append(resolved, Next1) /\ rest' = Tail(rest)
          /\ parents' = IF retain THEN Append(parents, cur) ELSE parents
          /\ open' = IF retain THEN open + 1 ELSE open
          /\ UNCHANGED <<retain, outer, links, leaf, at, result>>
     ELSE IF variant = "linux" THEN Fail
     ELSE at' = "link" /\ UNCHANGED <<walk, result, open>>
  /\ UNCHANGED <<asked, tree>>

Final == Len(rest) = 1 /\ Next1 \in Names

\* openAtWalkFD reads the last component as a link before it opens it; a link
\* is resolved from here, by a nested call.
Peeks == variant = "linux" /\ mode \in {"follow", "create"}
Peek ==
  /\ at = "part" /\ Final /\ Peeks
  /\ IF Entry # "l" THEN at' = "open" /\ UNCHANGED <<walk, result, open>>
     ELSE IF links = MaxLinks \/ target = Absolute \/ Escapes(target) THEN Fail
     ELSE /\ links' = links + 1 /\ outer' = Own /\ open' = open + 1
          /\ rest' = target /\ resolved' = <<>> /\ parents' = <<>> /\ retain' = Retained(target)
          /\ UNCHANGED <<cur, leaf, at, result>>
  /\ UNCHANGED <<asked, tree>>

\* A failed open is followed by a look for a link; openAtDarwin does that for
\* exclusive creation too.
Follows == mode \in {"follow", "create"} \/ (mode = "excl" /\ variant = "darwin")

\* The last component can be opened as asked, a link only for its own metadata.
\* A directory may be refused to O_CREAT, and is by most hosts.
Openable ==
  /\ mode # "excl" /\ Entry # "none"
  /\ Entry = "l" => op \in {"metadata", "stat"} /\ mode = "nofollow"
  /\ op = "parent" => Entry \in Dirs
Creatable == mode \in {"create", "excl"} /\ Entry = "none"
Refused == ~(Openable \/ Creatable) \/ (mode = "create" /\ Entry \in Dirs)

\* statLeaf opens nothing.  A metadata handle that turns out to be a link's
\* when its target was asked for is closed again.
Opened == IF op = "stat" THEN 0 ELSE 1

OpenLast ==
  /\ at = "open" \/ (at = "part" /\ Final /\ ~Peeks)
  /\ \/ Openable /\ Return(Entry, Opened) /\ UNCHANGED ent
     \/ Creatable /\ Return("new", Opened) /\ ent' = [ent EXCEPT ![cur][Next1] = "new"]
     \/ /\ Refused
        /\ IF Follows /\ variant # "linux" THEN at' = "link" /\ UNCHANGED <<walk, result, open>>
           ELSE Fail
        /\ UNCHANGED ent
  /\ UNCHANGED <<asked, target>>

\* Mutant: the link's target replaces the directories before it.
ExpandedFromBase == target \o Tail(rest)

Expanded == resolved \o target \o Tail(rest)

\* Mutant: links are not counted.
LinksUncounted == 0

LinksCounted == links + 1

\* What could not be opened is read as a link, and the walk begins again.
ReadLink ==
  /\ at = "link"
  /\ IF Entry # "l" \/ target = Absolute \/ links = MaxLinks THEN Fail
     ELSE Restart(Expanded) /\ links' = LinksCounted
  /\ UNCHANGED <<asked, tree>>

\* The path ended with a directory: "." is opened in it, but not created.
End ==
  /\ at = "part" /\ rest = <<>>
  /\ \/ mode # "excl" /\ Return(cur, Opened)
     \/ mode \in {"create", "excl"} /\ Fail
  /\ UNCHANGED <<asked, tree>>

\* The four functions take these steps; only openAtWalkFD looks at the last
\* component before it opens it, and does not go back to the base for a link.
OpenAtWalkFD ==
  variant = "linux" /\ (Start \/ Skip \/ Pop \/ Descend \/ Peek \/ OpenLast \/ End)
OpenAtDarwin ==
  variant = "darwin" /\ (Start \/ Skip \/ Pop \/ Descend \/ OpenLast \/ ReadLink \/ End)
WalkWindowsParents ==
  variant = "windows" /\ (Start \/ Skip \/ Pop \/ Descend \/ OpenLast \/ ReadLink \/ End)
WalkUnder ==
  variant = "p2" /\ (Start \/ Skip \/ Pop \/ Descend \/ OpenLast \/ ReadLink \/ End)

Step == OpenAtWalkFD \/ OpenAtDarwin \/ WalkWindowsParents \/ WalkUnder

Next ==
  \/ Step
  \/ \E d1, d2 \in Dirs, n1, n2 \in Names : Rename(d1, n1, d2, n2)

Spec == Init /\ [][Next]_vars

\* The walk's own steps are system calls and arithmetic: it goes on.
FairSpec == Spec /\ WF_vars(Step)

-----------------------------------------------------------------------------
(* Properties *)

\* Whatever is renamed meanwhile, the walk never reaches a directory or file
\* that was outside the base: no parent step is left to the host.
NoEscape == cur \notin Outside /\ result \notin Outside /\ leaf # ".."

\* Every file that the walk opened is closed again, except the one it returns,
\* on every way out; what is open in between is what it holds, and pinned
\* directories stay within their limit.
HandlesClosed ==
  /\ at = "done" => open = IF result = "error" THEN 0 ELSE Opened
  /\ at \notin {"start", "done"} => open = Own
  /\ Len(parents) <= MaxPinned

\* A walk ends, also in a cycle of links and while others rename.
WalkEnds == <>(at = "done")
==============================================================================
