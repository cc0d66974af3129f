---------------------------- MODULE PathWalkProofs ----------------------------
(***************************************************************************)
(* PathWalk for any paths, trees and links, any limit on the links that a  *)
(* walk follows and on the directories that it pins: its inductive         *)
(* invariant and what follows from it.                                     *)
(***************************************************************************)
EXTENDS PathWalk, SequenceTheorems, WellFoundedInduction, TLAPS

Shape ==
  /\ variant \in {"linux", "darwin", "windows", "p2"}
  /\ name \in Seq(Components) \ {<<>>}
  /\ ent \in [Dirs -> [Names -> Nodes \cup {"none", "new"}]]
  /\ target \in Seq(Components) \cup {Absolute}
  /\ rest \in Seq(Components) /\ resolved \in Seq(Names)
  /\ cur \in Below /\ parents \in Seq(Below) /\ retain \in BOOLEAN
  /\ outer \in Nat /\ links \in 0..MaxLinks /\ open \in Int
  /\ at \in {"start", "part", "open", "link", "done"}

\* No node from outside is in a directory that began below the base.
TreeKept == \A d \in Below, n \in Names : ent[d][n] \notin Outside

\* The walk is about to open, or has failed to open, a name.
AtName == at \in {"open", "link"} => rest # <<>> /\ Head(rest) \in Names

\* There is a pinned directory for every component done, or none at all.
Pinned ==
  /\ retain => Len(parents) = Len(resolved)
  /\ ~retain => parents = <<>>
  /\ Len(parents) <= MaxPinned

\* Without pinned directories, only walkUnder meets a parent step.
Foreseen == variant # "p2" /\ ~retain => \A i \in 1..Len(rest) : rest[i] # ".."

Balanced ==
  /\ at = "start" => open = 0 /\ outer = 0 /\ parents = <<>> /\ resolved = <<>>
  /\ at \in {"part", "open", "link"} => open = Own
  /\ at = "done" => open = IF result = "error" THEN 0 ELSE Opened

\* The inductive invariant.
IInv ==
  Shape /\ TreeKept /\ AtName /\ Pinned /\ Foreseen /\ Balanced /\ NoEscape

\* A parent step of Preview 1 has the directory that it goes back to pinned
\* for every component done: it fails at the base only, and the slice of
\* components done is never cut below its beginning.
ParentStepsPinned ==
  variant # "p2" /\ at = "part" /\ rest # <<>> /\ Next1 = ".." => Len(parents) = Len(resolved)

\* What a step of a walk lowers: first the links it may still follow, then the
\* components it has, done or not, then those to do, then how far it is with
\* the next one.
Total == Len(resolved) + Len(rest)
Place == [start |-> 4, part |-> 3, open |-> 2, link |-> 1, done |-> 0]
Lowered ==
  \/ at = "start" /\ at' # "start"
  \/ at' # "start" /\ links < links' /\ links' <= MaxLinks
  \/ at' # "start" /\ links' = links /\ Total' < Total
  \/ at' # "start" /\ links' = links /\ Total' = Total /\ Len(rest') < Len(rest)
  \/ UNCHANGED <<links, resolved, rest>> /\ Place[at'] < Place[at]

\* The walk's own steps lower it, and what other processes do leaves it alone:
\* links, lengths and places being natural numbers, a walk comes to an end.
StepsLower ==
  /\ Step => Lowered
  /\ ~Step => UNCHANGED <<links, resolved, rest, at>>

-----------------------------------------------------------------------------
(* Sequences *)

LEMMA TailOf ==
  ASSUME NEW S, NEW q \in Seq(S), q # <<>>
  PROVE  /\ Head(q) \in S /\ Tail(q) \in Seq(S) /\ Len(Tail(q)) = Len(q) - 1 /\ Len(q) >= 1
         /\ Head(q) = q[1] /\ \A i \in 1..Len(Tail(q)) : Tail(q)[i] = q[i + 1] /\ i + 1 \in 1..Len(q)
OBVIOUS

LEMMA LengthBefore ==
  ASSUME NEW n \in Nat, n >= 1, NEW k, k = IF 1 <= n - 1 THEN n - 1 - 1 + 1 ELSE 0
  PROVE  k = n - 1
OBVIOUS

LEMMA FrontOf ==
  ASSUME NEW S, NEW q \in Seq(S), q # <<>>
  PROVE  Front(q) \in Seq(S) /\ Last(q) \in S /\ Len(Front(q)) = Len(q) - 1
<1>1. Len(q) \in Nat /\ Len(q) >= 1 /\ \A i \in 1..Len(q) : q[i] \in S
  OBVIOUS
<1>2. Last(q) \in S
  BY <1>1 DEF Last
<1>3. Len(q) - 1 \in Int /\ \A i \in 1..(Len(q) - 1) : q[i] \in S
  BY <1>1
<1>4. /\ SubSeq(q, 1, Len(q) - 1) \in Seq(S)
      /\ Len(SubSeq(q, 1, Len(q) - 1)) = IF 1 <= Len(q) - 1 THEN Len(q) - 1 - 1 + 1 ELSE 0
  BY <1>3, SubSeqProperties
<1>5. Len(SubSeq(q, 1, Len(q) - 1)) = Len(q) - 1
  BY <1>1, <1>4, LengthBefore, Zenon
<1> QED
  BY <1>2, <1>4, <1>5, Zenon DEF Front

LEMMA EmptyOf ==
  ASSUME NEW S, NEW q \in Seq(S)
  PROVE  q = <<>> <=> Len(q) = 0
OBVIOUS

LEMMA ConcatOf ==
  ASSUME NEW S, NEW q \in Seq(S), NEW r \in Seq(S)
  PROVE  q \o r \in Seq(S)
OBVIOUS

LEMMA ConcatLength ==
  ASSUME NEW S, NEW q \in Seq(S), NEW r \in Seq(S)
  PROVE  Len(q \o r) = Len(q) + Len(r)
OBVIOUS

LEMMA NamesAreComponents ==
  ASSUME NEW q \in Seq(Names)
  PROVE  q \in Seq(Components)
BY DEF Components

\* A path that is not retained has no parent step.
LEMMA RetainedOf ==
  ASSUME NEW q \in Seq(Components)
  PROVE  /\ Retained(q) \in BOOLEAN
         /\ variant # "p2" /\ ~Retained(q) => \A i \in 1..Len(q) : q[i] # ".."
BY DEF Retained, Range

\* A set of positions has a last one.
LEMMA LastPosition ==
  ASSUME NEW n \in Nat, NEW N \in SUBSET (1..n), N # {}
  PROVE  \E j \in N : \A k \in N : k <= j
<1> DEFINE T == {n - k : k \in N}
<1>1. \A k \in N : k \in Nat /\ n - k \in Nat
  OBVIOUS
<1>2. T \subseteq Nat /\ T # {}
  BY <1>1, Zenon
<1>3. PICK x \in T : \A y \in T : ~(<<y, x>> \in OpToRel(<, Nat))
  BY <1>2, NatLessThanWellFounded, WFMin, Zenon
<1>4. PICK j \in N : x = n - j
  BY <1>3, Zenon
<1>5. ASSUME NEW k \in N PROVE k <= j
  <2>1. n - k \in Nat /\ n - j \in Nat /\ k \in Nat /\ j \in Nat
    BY <1>1, Zenon
  <2>2. n - k < n - j => <<n - k, n - j>> \in OpToRel(<, Nat)
    BY <2>1, Zenon DEF OpToRel
  <2>3. ~(n - k < n - j)
    BY <1>3, <1>4, <2>2, Zenon
  <2> QED
    BY <2>1, <2>3
<1> QED
  BY <1>5, Zenon

-----------------------------------------------------------------------------
(* The name that an operation is about *)

LEMMA SplitParentOf ==
  ASSUME NEW q \in Seq(Components), q # <<>>
  PROVE  SplitParent(q).parent \in Seq(Components) /\ SplitParent(q).leaf # ".."
<1>1. Front(q) \in Seq(Components)
  BY FrontOf, Zenon
<1> QED
  BY <1>1, Zenon DEF SplitParent

LEMMA SplitRawOf ==
  ASSUME NEW q \in Seq(Components)
  PROVE  SplitRaw(q).parent \in Seq(Components) /\ SplitRaw(q).leaf # ".."
<1> DEFINE named == {i \in 1..Len(q) : q[i] # "."}
           last == CHOOSE j \in named : \A k \in named : k <= j
<1>1. Len(q) \in Nat /\ named \in SUBSET (1..Len(q))
  BY LenProperties, Zenon
<1>2. SplitRaw(q) = IF named = {} \/ q[last] = ".." THEN [parent |-> <<>>, leaf |-> "refused"]
                    ELSE [parent |-> SubSeq(q, 1, last - 1), leaf |-> q[last]]
  BY Zenon DEF SplitRaw
<1>3. CASE named = {} \/ q[last] = ".."
  BY <1>2, <1>3
<1>4. CASE ~(named = {} \/ q[last] = "..")
  <2>1. last \in named
    BY <1>1, <1>4, LastPosition, Zenon
  <2>2. last \in 1..Len(q)
    BY <2>1, Zenon
  <2> HIDE DEF last, named
  <2>3. SubSeq(q, 1, last - 1) \in Seq(Components)
    BY <1>1, <2>2
  <2> QED
    BY <1>2, <1>4, <2>3
<1> QED
  BY <1>3, <1>4, Zenon

-----------------------------------------------------------------------------
(* The invariant is inductive *)

LEMMA InitHolds ==
  ASSUME Init
  PROVE  IInv
<1>1. PICK w \in Walks : name = w.name /\ ent = w.ent /\ target = w.target
  BY Zenon DEF Init
<1>2. /\ rest = <<>> /\ resolved = <<>> /\ cur = "base" /\ parents = <<>> /\ retain = FALSE
      /\ outer = 0 /\ links = 0 /\ leaf = "nil" /\ at = "start" /\ result = "none" /\ open = 0
      /\ variant \in {"linux", "darwin", "windows", "p2"}
  BY WalkAssumption, Zenon DEF Init
<1>3. Shape
  <2>1. /\ name \in Seq(Components) \ {<<>>} /\ target \in Seq(Components) \cup {Absolute}
        /\ w.ent \in [Dirs -> [Names -> Nodes \cup {"none"}]]
    BY <1>1, WalkAssumption, Zenon
  <2>2. ent \in [Dirs -> [Names -> Nodes \cup {"none", "new"}]]
    BY <1>1, <2>1
  <2>3. cur \in Below
    BY <1>2, Zenon DEF Below, Dirs
  <2>4. rest \in Seq(Components) /\ resolved \in Seq(Names) /\ parents \in Seq(Below)
    BY <1>2
  <2>5. outer \in Nat /\ links \in 0..MaxLinks /\ open \in Int
    BY <1>2, WalkAssumption
  <2> QED
    BY <1>2, <2>1, <2>2, <2>3, <2>4, <2>5, Zenon DEF Shape
<1>4. TreeKept
  BY <1>1, WalkAssumption, Zenon DEF TreeKept
<1>5. Pinned
  BY <1>2, WalkAssumption DEF Pinned
<1>6. AtName /\ Foreseen
  BY <1>2 DEF AtName, Foreseen
<1>7. Balanced
  BY <1>2, Zenon DEF Balanced
<1>8. NoEscape
  BY <1>2, Zenon DEF NoEscape, Outside
<1> QED
  BY <1>3, <1>4, <1>5, <1>6, <1>7, <1>8, Zenon DEF IInv

Underway == at \in {"part", "open", "link"}

LEMMA OwnIsNat ==
  ASSUME Shape
  PROVE  Own \in Nat /\ Len(parents) \in Nat
<1>1. outer \in Nat /\ Len(parents) \in Nat
  BY LenProperties, Zenon DEF Shape
<1> QED
  BY <1>1 DEF Own

LEMMA OwnGrows ==
  ASSUME Shape, UNCHANGED <<outer, variant>>, Len(parents') = Len(parents) + 1
  PROVE  Own' = Own + 1 /\ Own + 1 \in Int
<1>1. outer \in Nat /\ Len(parents) \in Nat
  BY LenProperties, Zenon DEF Shape
<1> QED
  BY <1>1 DEF Own

\* What is in an entry of a directory below the base.
LEMMA EntryOf ==
  ASSUME IInv, rest # <<>>, Next1 \in Names
  PROVE  /\ Entry \in Inside \cup {"h", "none", "new"}
         /\ Entry \notin Outside /\ Entry # "error"
         /\ Entry \in Dirs => Entry \in Below
<1>1. cur \in Below /\ cur \in Dirs
  BY Zenon DEF IInv, Shape, Below
<1>2. Entry \in Nodes \cup {"none", "new"}
  BY <1>1, Zenon DEF IInv, Shape, Entry
<1>3. Entry \notin Outside
  BY <1>1, Zenon DEF IInv, TreeKept, Entry
<1> HIDE DEF Entry
<1> QED
  BY <1>2, <1>3, Zenon DEF Nodes, Inside, Outside, Below, Dirs

\* A return closes what the walk owns, and keeps the file it returns.
LEMMA ReturnKeeps ==
  ASSUME IInv, Underway, NEW r, NEW k, Return(r, k),
         r \notin Outside, k = IF r = "error" THEN 0 ELSE Opened,
         UNCHANGED <<asked, target>>,
         ent' \in [Dirs -> [Names -> Nodes \cup {"none", "new"}]], TreeKept'
  PROVE  IInv'
<1>1. /\ at' = "done" /\ result' = r /\ open' = open - Own + k
      /\ UNCHANGED <<rest, resolved, cur, parents, retain, outer, links, leaf>>
      /\ UNCHANGED <<variant, op, name, target>>
  BY Zenon DEF Return, walk, asked
<1>2. open' \in Int /\ open' = k
  <2>1. open = Own
    BY Zenon DEF IInv, Balanced, Underway
  <2>2. Own \in Nat
    BY OwnIsNat, Zenon DEF IInv
  <2>3. k \in {0, 1}
    BY Zenon DEF Opened
  <2> HIDE DEF Own
  <2> QED
    BY <1>1, <2>1, <2>2, <2>3
<1>3. Shape'
  BY <1>1, <1>2, Zenon DEF IInv, Shape
<1>4. AtName'
  BY <1>1, Zenon DEF AtName
<1>5. Pinned' /\ Foreseen'
  BY <1>1, Zenon DEF IInv, Pinned, Foreseen
<1>6. Balanced'
  BY <1>1, <1>2, Zenon DEF Balanced, Opened
<1>7. NoEscape'
  BY <1>1, Zenon DEF IInv, NoEscape
<1> QED
  BY <1>3, <1>4, <1>5, <1>6, <1>7, Zenon DEF IInv

LEMMA FailKeeps ==
  ASSUME IInv, Underway, Fail, UNCHANGED <<asked, tree>>
  PROVE  IInv'
<1>1. Return("error", 0) /\ ent' = ent /\ target' = target /\ "error" \notin Outside
  BY Zenon DEF Fail, tree, Outside
<1>2. ent' \in [Dirs -> [Names -> Nodes \cup {"none", "new"}]]
  BY <1>1, Zenon DEF IInv, Shape
<1>3. TreeKept'
  BY <1>1, Zenon DEF IInv, TreeKept
<1>4. UNCHANGED <<asked, target>>
  BY <1>1, Zenon
<1>5. 0 = IF "error" = "error" THEN 0 ELSE Opened
  BY Zenon
<1> QED
  BY <1>1, <1>2, <1>3, <1>4, <1>5, ReturnKeeps, Zenon

\* From the base again, all pinned directories are closed.
LEMMA RestartKeeps ==
  ASSUME IInv, Underway, NEW p \in Seq(Components), Restart(p), links' \in 0..MaxLinks,
         UNCHANGED <<asked, tree>>
  PROVE  IInv'
<1>1. /\ rest' = p /\ resolved' = <<>> /\ cur' = "base" /\ parents' = <<>>
      /\ retain' = Retained(p) /\ at' = "part" /\ open' = open - Len(parents)
      /\ UNCHANGED <<outer, leaf, result>>
      /\ UNCHANGED <<variant, name, ent, target>>
  BY Zenon DEF Restart, asked, tree
<1>2. open' \in Int /\ open' = Own'
  <2>1. open = Own
    BY Zenon DEF IInv, Balanced, Underway
  <2>2. outer \in Nat /\ Len(parents) \in Nat
    BY OwnIsNat, Zenon DEF IInv, Shape
  <2> QED
    BY <1>1, <2>1, <2>2 DEF Own
<1>3. Shape'
  <2>1. Retained(p) \in BOOLEAN
    BY RetainedOf, Zenon
  <2>2. cur' \in Below /\ resolved' \in Seq(Names) /\ parents' \in Seq(Below)
    BY <1>1 DEF Below, Dirs
  <2> QED
    BY <1>1, <1>2, <2>1, <2>2, Zenon DEF IInv, Shape
<1>4. TreeKept' /\ AtName'
  BY <1>1, Zenon DEF IInv, TreeKept, AtName
<1>5. Pinned'
  <2>1. Len(<<>>) = 0 /\ 0 <= MaxPinned
    BY WalkAssumption
  <2> QED
    BY <1>1, <2>1, Zenon DEF Pinned
<1>6. Foreseen'
  BY <1>1, RetainedOf, Zenon DEF Foreseen
<1>7. Balanced'
  BY <1>1, <1>2, Zenon DEF Balanced
<1>8. NoEscape'
  <2>1. cur' \notin Outside
    BY <1>1, Zenon DEF Outside
  <2> QED
    BY <1>1, <2>1, Zenon DEF IInv, NoEscape
<1> QED
  BY <1>3, <1>4, <1>5, <1>6, <1>7, <1>8, Zenon DEF IInv

\* An entry of a directory is set.
Put(f, d, n, v) == [f EXCEPT ![d][n] = v]

LEMMA EntryPut ==
  ASSUME NEW S, NEW f \in [Dirs -> [Names -> S]], NEW d \in Dirs, NEW n \in Names, NEW v \in S
  PROVE  /\ Put(f, d, n, v) \in [Dirs -> [Names -> S]]
         /\ \A x \in Dirs, y \in Names : Put(f, d, n, v)[x][y] \in {f[x][y], v}
<1>1. f[d] \in [Names -> S]
  BY Zenon
<1> DEFINE row == [f[d] EXCEPT ![n] = v]
<1>2. row \in [Names -> S] /\ \A y \in Names : row[y] \in {f[d][y], v}
  BY <1>1, Zenon
<1>3. Put(f, d, n, v) = [f EXCEPT ![d] = row]
  BY Zenon DEF Put
<1> HIDE DEF row
<1>4. /\ Put(f, d, n, v) \in [Dirs -> [Names -> S]]
      /\ \A x \in Dirs : Put(f, d, n, v)[x] = IF x = d THEN row ELSE f[x]
  BY <1>2, <1>3, Zenon
<1> QED
  BY <1>2, <1>4, Zenon

LEMMA RenameKeeps ==
  ASSUME IInv, NEW d1 \in Dirs, NEW d2 \in Dirs, NEW n1 \in Names, NEW n2 \in Names,
         Rename(d1, n1, d2, n2)
  PROVE  IInv'
<1>1. /\ ent[d1][n1] \in Inside
      /\ ent' = [ent EXCEPT ![d1][n1] = "none", ![d2][n2] = ent[d1][n1]]
      /\ UNCHANGED <<variant, op, name, target, at, result, open>>
      /\ UNCHANGED <<rest, resolved, cur, parents, retain, outer, links, leaf>>
  BY Zenon DEF Rename, asked, walk
<1>2. ent \in [Dirs -> [Names -> Nodes \cup {"none", "new"}]]
  BY Zenon DEF IInv, Shape
<1> DEFINE without == Put(ent, d1, n1, "none")
           S == Nodes \cup {"none", "new"}
<1>3. ent' = Put(without, d2, n2, ent[d1][n1])
  BY <1>1, Zenon DEF Put
<1>4. "none" \in S /\ ent[d1][n1] \in S
  BY <1>1, Zenon DEF Nodes
<1>5. ent \in [Dirs -> [Names -> S]]
  BY <1>2, Zenon
<1> HIDE DEF S
<1>6. /\ without \in [Dirs -> [Names -> S]]
      /\ \A x \in Dirs, y \in Names : without[x][y] \in {ent[x][y], "none"}
  BY <1>4, <1>5, EntryPut, Zenon
<1> HIDE DEF without
<1>7. /\ ent' \in [Dirs -> [Names -> S]]
      /\ \A x \in Dirs, y \in Names : ent'[x][y] \in {without[x][y], ent[d1][n1]}
  BY <1>3, <1>4, <1>6, EntryPut, Zenon
<1>8. ent' \in [Dirs -> [Names -> Nodes \cup {"none", "new"}]]
  BY <1>7, Zenon DEF S
<1>9. ASSUME NEW d \in Dirs, NEW n \in Names
      PROVE  ent'[d][n] \in {ent[d][n], "none", ent[d1][n1]}
  BY <1>6, <1>7, Zenon
<1>10. Shape'
  BY <1>1, <1>8, Zenon DEF IInv, Shape
<1>11. TreeKept'
  <2> SUFFICES ASSUME NEW d \in Below, NEW n \in Names PROVE ent'[d][n] \notin Outside
    BY Zenon DEF TreeKept
  <2>1. d \in Dirs /\ ent[d][n] \notin Outside
    BY Zenon DEF IInv, TreeKept, Below
  <2>2. ent'[d][n] \in {ent[d][n], "none", ent[d1][n1]}
    BY <1>9, <2>1, Zenon
  <2>3. \A e \in Inside \cup {"none"} : e \notin Outside
    BY Zenon DEF Inside, Outside
  <2> QED
    BY <1>1, <2>1, <2>2, <2>3, Zenon
<1>12. AtName' /\ Pinned' /\ Foreseen'
  BY <1>1, Zenon DEF IInv, AtName, Pinned, Foreseen
<1>13. Balanced' /\ NoEscape'
  BY <1>1, Zenon DEF IInv, Balanced, Opened, NoEscape, Own
<1> QED
  BY <1>10, <1>11, <1>12, <1>13, Zenon DEF IInv

LEMMA StartKeeps ==
  ASSUME IInv, Start
  PROVE  IInv'
<1> DEFINE split == IF op # "parent" THEN [parent |-> name, leaf |-> "nil"]
                    ELSE IF variant = "p2" THEN SplitRaw(name) ELSE SplitParent(name)
<1>1. /\ at = "start" /\ UNCHANGED <<variant, name, ent, target>>
      /\ \/ at' = "done" /\ result' = "error" /\ UNCHANGED <<walk, open>>
         \/ /\ rest' = split.parent /\ leaf' = split.leaf /\ retain' = Retained(split.parent)
            /\ at' = "part" /\ open' = Own
            /\ UNCHANGED <<resolved, cur, parents, outer, links, result>>
  BY Zenon DEF Start, asked, tree
<1>2. split.parent \in Seq(Components) /\ split.leaf # ".."
  <2>1. name \in Seq(Components) /\ name # <<>>
    BY Zenon DEF IInv, Shape
  <2>2. CASE op = "open"
    BY <2>1, <2>2, Zenon
  <2>3. CASE op # "open"
    BY <2>1, <2>3, SplitRawOf, SplitParentOf, Zenon
  <2> QED
    BY <2>2, <2>3, Zenon
<1> HIDE DEF split
<1>3. open = 0 /\ outer = 0 /\ parents = <<>> /\ resolved = <<>>
  BY <1>1, Zenon DEF IInv, Balanced
<1>4. CASE at' = "done" /\ result' = "error" /\ UNCHANGED <<walk, open>>
  <2>1. UNCHANGED <<rest, resolved, cur, parents, retain, outer, links, leaf, open>>
    BY <1>4, Zenon DEF walk
  <2>2. Shape' /\ TreeKept' /\ Pinned' /\ Foreseen'
    BY <1>1, <1>4, <2>1, Zenon DEF IInv, Shape, TreeKept, Pinned, Foreseen
  <2>3. AtName' /\ Balanced' /\ NoEscape'
    BY <1>3, <1>4, <2>1, Zenon DEF IInv, AtName, Balanced, NoEscape, Outside
  <2> QED
    BY <2>2, <2>3, Zenon DEF IInv
<1>5. CASE /\ rest' = split.parent /\ leaf' = split.leaf /\ retain' = Retained(split.parent)
           /\ at' = "part" /\ open' = Own
           /\ UNCHANGED <<resolved, cur, parents, outer, links, result>>
  <2>1. open' \in Int /\ open' = Own'
    <3>1. Own \in Nat
      BY OwnIsNat, Zenon DEF IInv
    <3>2. Own' = Own
      BY <1>1, <1>5, Zenon DEF Own
    <3> HIDE DEF Own
    <3> QED
      BY <1>5, <3>1, <3>2
  <2>2. Retained(split.parent) \in BOOLEAN
    BY <1>2, RetainedOf, Zenon
  <2>3. Shape'
    BY <1>1, <1>2, <1>5, <2>1, <2>2, Zenon DEF IInv, Shape
  <2>4. TreeKept' /\ AtName'
    BY <1>1, <1>5, Zenon DEF IInv, TreeKept, AtName
  <2>5. Foreseen'
    BY <1>1, <1>2, <1>5, RetainedOf, Zenon DEF Foreseen
  <2>6. Balanced' /\ NoEscape'
    BY <1>2, <1>5, <2>1, Zenon DEF IInv, Balanced, NoEscape
  <2>7. Pinned'
    <3>1. Len(<<>>) = 0 /\ 0 <= MaxPinned
      BY WalkAssumption
    <3> QED
      BY <1>3, <1>5, <3>1, Zenon DEF Pinned
  <2> QED
    BY <2>3, <2>4, <2>5, <2>6, <2>7, Zenon DEF IInv
<1> QED
  BY <1>1, <1>4, <1>5, Zenon

\* Without its first component the path is as foreseen.
LEMMA ForeseenTail ==
  ASSUME IInv, rest # <<>>, rest' = Tail(rest), UNCHANGED <<variant, retain>>
  PROVE  rest' \in Seq(Components) /\ Foreseen'
<1>1. rest \in Seq(Components)
  BY Zenon DEF IInv, Shape
<1>2. /\ Tail(rest) \in Seq(Components)
      /\ \A i \in 1..Len(Tail(rest)) : Tail(rest)[i] = rest[i + 1] /\ i + 1 \in 1..Len(rest)
  BY <1>1, TailOf, Zenon
<1> QED
  BY <1>2, Zenon DEF IInv, Foreseen

LEMMA SkipKeeps ==
  ASSUME IInv, Skip
  PROVE  IInv'
<1>1. /\ at = "part" /\ rest # <<>> /\ rest' = Tail(rest)
      /\ UNCHANGED <<variant, name, ent, target, resolved, cur, parents, retain, outer, links>>
      /\ UNCHANGED <<leaf, at, result, open>>
  BY Zenon DEF Skip, asked, tree
<1>2. rest' \in Seq(Components) /\ Foreseen'
  BY <1>1, ForeseenTail, Zenon
<1>3. Shape' /\ TreeKept' /\ Pinned' /\ NoEscape'
  BY <1>1, <1>2, Zenon DEF IInv, Shape, TreeKept, Pinned, NoEscape
<1>4. AtName'
  BY <1>1, Zenon DEF AtName
<1>5. Balanced'
  BY <1>1, Zenon DEF IInv, Balanced, Own
<1> QED
  BY <1>2, <1>3, <1>4, <1>5, Zenon DEF IInv

\* Going back to the directory pinned last.
LEMMA PopPinnedKeeps ==
  ASSUME IInv, at = "part", rest # <<>>, parents # <<>>,
         cur' = Popped, parents' = Front(parents), resolved' = Front(resolved),
         rest' = Tail(rest), open' = open - PopCloses,
         UNCHANGED <<retain, outer, links, leaf, at, result>>, UNCHANGED <<asked, tree>>
  PROVE  IInv'
<1>1. UNCHANGED <<variant, name, ent, target, retain, outer, links, leaf, at, result>>
  BY Zenon DEF asked, tree
<1>2. rest' \in Seq(Components) /\ Foreseen'
  BY <1>1, ForeseenTail, Zenon
<1>3. /\ parents \in Seq(Below) /\ resolved \in Seq(Names) /\ open \in Int
      /\ retain /\ Len(parents) = Len(resolved) /\ Len(parents) <= MaxPinned
  BY Zenon DEF IInv, Shape, Pinned
<1>4. resolved # <<>>
  BY <1>3, EmptyOf, Zenon
<1>5. /\ parents' \in Seq(Below) /\ cur' \in Below /\ Len(parents') = Len(parents) - 1
      /\ resolved' \in Seq(Names) /\ Len(resolved') = Len(resolved) - 1
  BY <1>3, <1>4, FrontOf, Zenon DEF Popped
<1>6. open' \in Int /\ open' = Own'
  <2>1. open = Own
    BY Zenon DEF IInv, Balanced
  <2>2. outer \in Nat /\ Len(parents) \in Nat
    BY OwnIsNat, Zenon DEF IInv, Shape
  <2> QED
    BY <1>1, <1>3, <1>5, <2>1, <2>2 DEF Own, PopCloses
<1>7. Shape' /\ TreeKept'
  BY <1>1, <1>2, <1>5, <1>6, Zenon DEF IInv, Shape, TreeKept
<1>8. Pinned'
  <2>1. Len(parents) \in Nat /\ MaxPinned \in Nat
    BY <1>3, LenProperties, WalkAssumption, Zenon
  <2>2. Len(parents') <= MaxPinned
    BY <1>3, <1>5, <2>1
  <2>3. Len(parents') = Len(resolved')
    BY <1>3, <1>5, Zenon
  <2>4. retain'
    BY <1>1, <1>3
  <2> QED
    BY <2>2, <2>3, <2>4, Zenon DEF Pinned
<1>9. AtName'
  BY <1>1, Zenon DEF AtName
<1>10. Balanced'
  BY <1>1, <1>6, Zenon DEF Balanced
<1>11. NoEscape'
  <2>1. cur' \notin Outside
    BY <1>5, Zenon DEF Below, Dirs, Outside
  <2> QED
    BY <1>1, <2>1, Zenon DEF IInv, NoEscape
<1> QED
  BY <1>2, <1>7, <1>8, <1>9, <1>10, <1>11, Zenon DEF IInv

\* What walkUnder goes on with after a parent step is shorter by the directory
\* that it leaves.
LEMMA ReplayedOf ==
  ASSUME resolved \in Seq(Names), rest \in Seq(Components), resolved # <<>>, rest # <<>>
  PROVE  /\ Replayed \in Seq(Components)
         /\ Len(Replayed) < Len(resolved) + Len(rest)
<1> DEFINE tail == IF Len(rest) = 1 THEN <<".">> ELSE Tail(rest)
<1>1. /\ Front(resolved) \in Seq(Names) /\ Len(Front(resolved)) = Len(resolved) - 1
      /\ Tail(rest) \in Seq(Components) /\ Len(Tail(rest)) = Len(rest) - 1
  BY FrontOf, TailOf, Zenon
<1>2. Front(resolved) \in Seq(Components)
  BY <1>1, NamesAreComponents, Zenon
<1>3. <<".">> \in Seq(Components) /\ Len(<<".">>) = 1
  BY DEF Components
<1>4. Len(rest) \in Nat /\ Len(resolved) \in Nat
  BY LenProperties, Zenon
<1>5. tail \in Seq(Components) /\ Len(tail) \in Nat /\ Len(tail) <= Len(rest)
  BY <1>1, <1>3, <1>4
<1> HIDE DEF tail
<1>6. Replayed = Front(resolved) \o tail
  BY Zenon DEF Replayed, tail
<1>7. Replayed \in Seq(Components)
  BY <1>2, <1>5, <1>6, ConcatOf, Zenon
<1>8. Len(Replayed) = Len(Front(resolved)) + Len(tail)
  BY <1>2, <1>5, <1>6, ConcatLength, Zenon
<1> QED
  BY <1>1, <1>4, <1>5, <1>7, <1>8

LEMMA PopKeeps ==
  ASSUME IInv, Pop
  PROVE  IInv'
<1>1. at = "part" /\ rest # <<>> /\ UNCHANGED <<asked, tree>> /\ Underway
  BY Zenon DEF Pop, Underway
<1>2. CASE Fail
  BY <1>1, <1>2, FailKeeps, Zenon
<1>3. CASE resolved # <<>> /\ Restart(Replayed) /\ UNCHANGED links
  <2>1. resolved \in Seq(Names) /\ rest \in Seq(Components)
    BY Zenon DEF IInv, Shape
  <2>2. Replayed \in Seq(Components)
    BY <1>1, <1>3, <2>1, ReplayedOf, Zenon
  <2>4. links' \in 0..MaxLinks
    BY <1>3, Zenon DEF IInv, Shape
  <2> QED
    BY <1>1, <1>3, <2>2, <2>4, RestartKeeps, Zenon
<1>4. CASE /\ parents # <<>> /\ cur' = Popped /\ parents' = Front(parents)
           /\ resolved' = Front(resolved) /\ rest' = Tail(rest) /\ open' = open - PopCloses
           /\ UNCHANGED <<retain, outer, links, leaf, at, result>>
  BY <1>1, <1>4, PopPinnedKeeps, Zenon
<1> QED
  BY <1>2, <1>3, <1>4, Zenon DEF Pop

\* Going down into a directory, with the one before it pinned or closed.
LEMMA DownKeeps ==
  ASSUME IInv, Intermediate, ~TooDeep, Entry \in Dirs,
         cur' = Entry, resolved' = Append(resolved, Next1), rest' = Tail(rest),
         parents' = IF retain THEN Append(parents, cur) ELSE parents,
         open' = IF retain THEN open + 1 ELSE open,
         UNCHANGED <<retain, outer, links, leaf, at, result>>, UNCHANGED <<asked, tree>>
  PROVE  IInv'
<1>1. /\ UNCHANGED <<variant, name, ent, target, retain, outer, links, leaf, at, result>>
      /\ at = "part" /\ Next1 \in Names /\ Len(rest) > 1
  BY Zenon DEF asked, tree, Intermediate
<1>2. /\ parents \in Seq(Below) /\ resolved \in Seq(Names) /\ open \in Int /\ cur \in Below
      /\ retain \in BOOLEAN /\ rest \in Seq(Components)
      /\ retain => Len(parents) = Len(resolved)
      /\ ~retain => parents = <<>>
      /\ Len(parents) <= MaxPinned
  BY Zenon DEF IInv, Shape, Pinned
<1>3. rest # <<>>
  BY <1>1, <1>2
<1>4. rest' \in Seq(Components) /\ Foreseen'
  BY <1>1, <1>3, ForeseenTail, Zenon
<1>5. cur' \in Below
  BY <1>1, <1>3, EntryOf, Zenon
<1>6. resolved' \in Seq(Names) /\ Len(resolved') = Len(resolved) + 1
  BY <1>1, <1>2, AppendProperties, Zenon
<1>7. /\ retain => parents' \in Seq(Below) /\ Len(parents') = Len(parents) + 1 /\ open' = open + 1
      /\ ~retain => parents' = parents /\ open' = open
  BY <1>2, AppendProperties, Zenon
<1>8. parents' \in Seq(Below)
  BY <1>2, <1>7, Zenon
<1>9. open' \in Int /\ open' = Own'
  <2>1. open = Own
    BY <1>1, Zenon DEF IInv, Balanced
  <2>2. outer \in Nat /\ Len(parents) \in Nat
    BY OwnIsNat, Zenon DEF IInv, Shape
  <2>3. CASE retain
    <3>1. open' = open + 1 /\ Len(parents') = Len(parents) + 1
      BY <1>7, <2>3, Zenon
    <3>2. Own' = Own + 1 /\ Own + 1 \in Int
      BY <1>1, <3>1, OwnGrows, Zenon DEF IInv
    <3> QED
      BY <2>1, <3>1, <3>2, Zenon
  <2>4. CASE ~retain
    BY <1>1, <1>2, <1>7, <2>1, <2>4, Zenon DEF Own
  <2> QED
    BY <2>3, <2>4, Zenon
<1>10. Shape' /\ TreeKept'
  BY <1>1, <1>2, <1>4, <1>5, <1>6, <1>8, <1>9, Zenon DEF IInv, Shape, TreeKept
<1>11. Pinned'
  <2>1. Len(parents) \in Nat /\ MaxPinned \in Nat
    BY <1>2, LenProperties, WalkAssumption, Zenon
  <2>2. CASE retain
    <3>1. ~(Len(parents) >= MaxPinned) /\ Len(parents') = Len(parents) + 1
      BY <1>7, <2>2, Zenon DEF TooDeep
    <3>2. Len(parents') <= MaxPinned
      BY <2>1, <3>1
    <3>3. Len(parents') = Len(resolved')
      BY <1>2, <1>6, <2>2, <3>1, Zenon
    <3> QED
      BY <1>1, <2>2, <3>2, <3>3, Zenon DEF Pinned
  <2>3. CASE ~retain
    <3>1. ~retain'
      BY <1>1, <1>2, <2>3
    <3>2. parents' = <<>> /\ Len(parents') <= MaxPinned
      BY <1>2, <1>7, <2>3, Zenon
    <3> QED
      BY <3>1, <3>2, Zenon DEF Pinned
  <2> QED
    BY <2>2, <2>3, Zenon
<1>12. AtName'
  BY <1>1, Zenon DEF AtName
<1>13. Balanced'
  BY <1>1, <1>9, Zenon DEF Balanced
<1>14. NoEscape'
  <2>1. cur' \notin Outside
    BY <1>5, Zenon DEF Below, Dirs, Outside
  <2> QED
    BY <1>1, <2>1, Zenon DEF IInv, NoEscape
<1> QED
  BY <1>4, <1>10, <1>11, <1>12, <1>13, <1>14, Zenon DEF IInv

\* Only the place in the walk changes, to one where a name is next.
LEMMA AtKeeps ==
  ASSUME IInv, Underway, at' \in {"open", "link"}, rest # <<>>, Next1 \in Names,
         UNCHANGED <<walk, result, open>>, UNCHANGED <<asked, tree>>
  PROVE  IInv'
<1>1. /\ UNCHANGED <<variant, name, ent, target>>
      /\ UNCHANGED <<rest, resolved, cur, parents, retain, outer, links, leaf, result, open>>
  BY Zenon DEF walk, asked, tree
<1>2. Shape' /\ TreeKept' /\ Pinned' /\ Foreseen' /\ NoEscape'
  BY <1>1, Zenon DEF IInv, Shape, TreeKept, Pinned, Foreseen, NoEscape
<1>3. AtName'
  BY <1>1, Zenon DEF AtName, Next1
<1>4. Balanced'
  <2>1. open = Own /\ Own' = Own
    BY <1>1, Zenon DEF IInv, Balanced, Underway, Own
  <2>2. at' # "start" /\ at' # "done"
    BY Zenon
  <2> QED
    BY <1>1, <2>1, <2>2, Zenon DEF Balanced
<1> QED
  BY <1>2, <1>3, <1>4, Zenon DEF IInv

LEMMA DescendKeeps ==
  ASSUME IInv, Descend
  PROVE  IInv'
<1>1. Intermediate /\ UNCHANGED <<asked, tree>>
  BY Zenon DEF Descend
<1>2. at = "part" /\ rest # <<>> /\ Next1 \in Names /\ Underway
  BY <1>1 DEF Intermediate, Underway, IInv, Shape
<1>3. CASE Fail
  BY <1>1, <1>2, <1>3, FailKeeps, Zenon
<1>4. CASE at' = "link" /\ UNCHANGED <<walk, result, open>>
  BY <1>1, <1>2, <1>4, AtKeeps, Zenon
<1>5. CASE /\ ~TooDeep /\ Entry \in Dirs
           /\ cur' = Entry /\ resolved' = Append(resolved, Next1) /\ rest' = Tail(rest)
           /\ parents' = IF retain THEN Append(parents, cur) ELSE parents
           /\ open' = IF retain THEN open + 1 ELSE open
           /\ UNCHANGED <<retain, outer, links, leaf, at, result>>
  BY <1>1, <1>5, DownKeeps, Zenon
<1> QED
  BY <1>3, <1>4, <1>5, Zenon DEF Descend

\* A nested call begins at the directory reached; this one's files wait.
LEMMA NestKeeps ==
  ASSUME IInv, at = "part", target # Absolute, links # MaxLinks,
         links' = links + 1, outer' = Own, open' = open + 1,
         rest' = target, resolved' = <<>>, parents' = <<>>, retain' = Retained(target),
         variant # "windows",
         UNCHANGED <<cur, leaf, at, result>>, UNCHANGED <<asked, tree>>
  PROVE  IInv'
<1>1. UNCHANGED <<variant, name, ent, target, cur, leaf, at, result>>
  BY Zenon DEF asked, tree
<1>2. target \in Seq(Components)
  BY Zenon DEF IInv, Shape
<1>3. open = Own /\ Own \in Nat
  BY OwnIsNat, Zenon DEF IInv, Balanced
<1>4. open' \in Int /\ open' = Own' /\ outer' \in Nat
  <2>1. Own' = outer' + Len(<<>>) + 1
    BY <1>1, Zenon DEF Own
  <2> HIDE DEF Own
  <2> QED
    BY <1>3, <2>1
<1>5. links' \in 0..MaxLinks
  <2>1. links \in 0..MaxLinks
    BY Zenon DEF IInv, Shape
  <2> QED
    BY <2>1, WalkAssumption
<1>6. Shape' /\ TreeKept'
  <2>1. Retained(target) \in BOOLEAN
    BY <1>2, RetainedOf, Zenon
  <2>2. <<>> \in Seq(Names) /\ <<>> \in Seq(Below)
    OBVIOUS
  <2> QED
    BY <1>1, <1>2, <1>4, <1>5, <2>1, <2>2, Zenon DEF IInv, Shape, TreeKept
<1>7. Pinned'
  <2>1. Len(<<>>) = 0 /\ 0 <= MaxPinned
    BY WalkAssumption
  <2> QED
    BY <2>1, Zenon DEF Pinned
<1>8. AtName'
  BY <1>1, Zenon DEF AtName
<1>9. Foreseen'
  BY <1>1, <1>2, RetainedOf, Zenon DEF Foreseen
<1>10. Balanced' /\ NoEscape'
  BY <1>1, <1>4, Zenon DEF IInv, Balanced, NoEscape
<1> QED
  BY <1>6, <1>7, <1>8, <1>9, <1>10, Zenon DEF IInv

LEMMA FinalIsName ==
  ASSUME IInv, Final
  PROVE  rest # <<>> /\ Next1 \in Names
BY DEF Final

LEMMA PeekKeeps ==
  ASSUME IInv, Peek
  PROVE  IInv'
<1>1. at = "part" /\ Final /\ variant # "windows" /\ UNCHANGED <<asked, tree>> /\ Underway
  BY Zenon DEF Peek, Peeks, Underway
<1>2. rest # <<>> /\ Next1 \in Names
  BY <1>1, FinalIsName, Zenon
<1>3. CASE Fail
  BY <1>1, <1>3, FailKeeps, Zenon
<1>4. CASE at' = "open" /\ UNCHANGED <<walk, result, open>>
  BY <1>1, <1>2, <1>4, AtKeeps, Zenon
<1>5. CASE /\ target # Absolute /\ links # MaxLinks
           /\ links' = links + 1 /\ outer' = Own /\ open' = open + 1
           /\ rest' = target /\ resolved' = <<>> /\ parents' = <<>> /\ retain' = Retained(target)
           /\ UNCHANGED <<cur, leaf, at, result>>
  BY <1>1, <1>5, NestKeeps, Zenon
<1> QED
  BY <1>3, <1>4, <1>5, Zenon DEF Peek

LEMMA OpenLastKeeps ==
  ASSUME IInv, OpenLast
  PROVE  IInv'
<1>1. UNCHANGED <<asked, target>> /\ Underway /\ rest # <<>> /\ Next1 \in Names
  BY FinalIsName, Zenon DEF OpenLast, Underway, IInv, AtName, Next1
<1>2. /\ Entry \notin Outside /\ Entry # "error" /\ "new" \notin Outside
      /\ Opened = IF Entry = "error" THEN 0 ELSE Opened
      /\ Opened = IF "new" = "error" THEN 0 ELSE Opened
  <2>1. Entry \notin Outside /\ Entry # "error"
    BY <1>1, EntryOf, Zenon
  <2> HIDE DEF Entry
  <2> QED
    BY <2>1, Zenon DEF Outside
<1>3. ent \in [Dirs -> [Names -> Nodes \cup {"none", "new"}]]
  BY Zenon DEF IInv, Shape
<1>4. ASSUME UNCHANGED ent
      PROVE  /\ ent' \in [Dirs -> [Names -> Nodes \cup {"none", "new"}]] /\ TreeKept'
             /\ UNCHANGED <<asked, tree>>
  BY <1>1, <1>3, <1>4, Zenon DEF IInv, TreeKept, tree
<1>5. CASE Return(Entry, Opened) /\ UNCHANGED ent
  BY <1>1, <1>2, <1>4, <1>5, ReturnKeeps, Zenon
<1>6. CASE Return("new", Opened) /\ ent' = [ent EXCEPT ![cur][Next1] = "new"]
  <2>1. cur \in Dirs
    BY Zenon DEF IInv, Shape, Below
  <2>2. /\ ent' \in [Dirs -> [Names -> Nodes \cup {"none", "new"}]]
        /\ \A d \in Dirs, n \in Names : ent'[d][n] \in {ent[d][n], "new"}
    <3> DEFINE S == Nodes \cup {"none", "new"}
    <3>1. "new" \in S /\ ent \in [Dirs -> [Names -> S]]
      BY <1>3, Zenon
    <3> HIDE DEF S
    <3>2. ent' = Put(ent, cur, Next1, "new")
      BY <1>6, Zenon DEF Put
    <3>3. /\ ent' \in [Dirs -> [Names -> S]]
          /\ \A d \in Dirs, n \in Names : ent'[d][n] \in {ent[d][n], "new"}
      BY <1>1, <2>1, <3>1, <3>2, EntryPut, Zenon
    <3> QED
      BY <3>3, Zenon DEF S
  <2>3. TreeKept'
    BY <1>2, <2>2, Zenon DEF IInv, TreeKept, Below
  <2> QED
    BY <1>1, <1>2, <1>6, <2>2, <2>3, ReturnKeeps, Zenon
<1>7. CASE Fail /\ UNCHANGED ent
  BY <1>1, <1>4, <1>7, FailKeeps, Zenon
<1>8. CASE at' = "link" /\ UNCHANGED <<walk, result, open>> /\ UNCHANGED ent
  BY <1>1, <1>4, <1>8, AtKeeps, Zenon
<1> QED
  BY <1>5, <1>6, <1>7, <1>8, Zenon DEF OpenLast

LEMMA ReadLinkKeeps ==
  ASSUME IInv, ReadLink
  PROVE  IInv'
<1>1. Underway /\ UNCHANGED <<asked, tree>> /\ rest # <<>>
  BY Zenon DEF ReadLink, Underway, IInv, AtName
<1>2. CASE Fail
  BY <1>1, <1>2, FailKeeps, Zenon
<1>3. CASE target # Absolute /\ links # MaxLinks /\ Restart(Expanded) /\ links' = LinksCounted
  <2>1. /\ resolved \in Seq(Names) /\ rest \in Seq(Components) /\ target \in Seq(Components)
        /\ links \in 0..MaxLinks
    BY <1>3, Zenon DEF IInv, Shape
  <2>2. Tail(rest) \in Seq(Components)
    BY <1>1, <2>1, TailOf, Zenon
  <2>3. resolved \in Seq(Components)
    BY <2>1, NamesAreComponents, Zenon
  <2>4. resolved \o target \in Seq(Components)
    BY <2>1, <2>3, ConcatOf, Zenon
  <2>5. Expanded \in Seq(Components)
    BY <2>2, <2>4, ConcatOf, Zenon DEF Expanded
  <2>6. links' \in 0..MaxLinks
    BY <1>3, <2>1, WalkAssumption DEF LinksCounted
  <2> QED
    BY <1>1, <1>3, <2>5, <2>6, RestartKeeps, Zenon
<1> QED
  BY <1>2, <1>3, Zenon DEF ReadLink

LEMMA EndKeeps ==
  ASSUME IInv, End
  PROVE  IInv'
<1>1. Underway /\ UNCHANGED <<asked, tree>> /\ (Fail \/ Return(cur, Opened))
  BY Zenon DEF End, Underway
<1>2. CASE Fail
  BY <1>1, <1>2, FailKeeps, Zenon
<1>3. CASE Return(cur, Opened)
  <2>1. cur \notin Outside /\ Opened = IF cur = "error" THEN 0 ELSE Opened
    BY Zenon DEF IInv, Shape, Below, Dirs, Outside
  <2>2. ent' = ent /\ target' = target
    BY <1>1, Zenon DEF tree
  <2>3. ent' \in [Dirs -> [Names -> Nodes \cup {"none", "new"}]] /\ TreeKept'
    BY <2>2, Zenon DEF IInv, Shape, TreeKept
  <2>4. UNCHANGED <<asked, target>>
    BY <1>1, <2>2, Zenon
  <2> QED
    BY <1>1, <1>3, <2>1, <2>3, <2>4, ReturnKeeps, Zenon
<1> QED
  BY <1>1, <1>2, <1>3, Zenon

LEMMA StutterKeeps ==
  ASSUME IInv, UNCHANGED vars
  PROVE  IInv'
<1>1. /\ UNCHANGED <<variant, op, name, ent, target, at, result, open>>
      /\ UNCHANGED <<rest, resolved, cur, parents, retain, outer, links, leaf>>
  BY Zenon DEF vars, asked, tree, walk
<1>2. Shape' /\ TreeKept' /\ AtName' /\ Pinned'
  BY <1>1, Zenon DEF IInv, Shape, TreeKept, AtName, Pinned
<1>3. Foreseen' /\ Balanced' /\ NoEscape'
  BY <1>1, Zenon DEF IInv, Foreseen, Balanced, Opened, NoEscape, Own
<1> QED
  BY <1>2, <1>3, Zenon DEF IInv

\* The steps that the four walks are made of.
LEMMA StepsOf ==
  ASSUME Step
  PROVE  Start \/ Skip \/ Pop \/ Descend \/ Peek \/ OpenLast \/ ReadLink \/ End
BY Zenon DEF Step, OpenAtWalkFD, OpenAtDarwin, WalkWindowsParents, WalkUnder

LEMMA StepKeeps ==
  ASSUME IInv, [Next]_vars
  PROVE  IInv'
<1>1. CASE Step
  BY <1>1, StepsOf, StartKeeps, SkipKeeps, PopKeeps, DescendKeeps, PeekKeeps, OpenLastKeeps,
     ReadLinkKeeps, EndKeeps, Zenon
<1>2. CASE \E d1, d2 \in Dirs, n1, n2 \in Names : Rename(d1, n1, d2, n2)
  BY <1>2, RenameKeeps, Zenon
<1>3. CASE UNCHANGED vars
  BY <1>3, StutterKeeps, Zenon
<1> QED
  BY <1>1, <1>2, <1>3, Zenon DEF Next

\* The inductive invariant holds in every state of every walk.
THEOREM WalkInvariant == Spec => []IInv
<1>1. Init => IInv
  BY InitHolds, Zenon
<1>2. IInv /\ [Next]_vars => IInv'
  BY StepKeeps, Zenon
<1> QED
  BY <1>1, <1>2, PTL DEF Spec

\* Whatever other processes rename meanwhile, no walk, of whatever path, tree
\* and links, reaches a directory or file from outside the base.
THEOREM WalkNeverEscapes == Spec => []NoEscape
<1>1. IInv => NoEscape
  BY Zenon DEF IInv
<1> QED
  BY <1>1, WalkInvariant, PTL

\* On every way out of a walk all files are closed but the one it returns, and
\* no walk pins more directories than the limit.
THEOREM WalkClosesHandles == Spec => []HandlesClosed
<1>1. IInv => HandlesClosed
  <2>1. ASSUME IInv PROVE HandlesClosed
    <3>1. at \notin {"start", "done"} => at \in {"part", "open", "link"}
      BY <2>1, Zenon DEF IInv, Shape
    <3> QED
      BY <2>1, <3>1, Zenon DEF IInv, Balanced, Pinned, HandlesClosed
  <2> QED
    BY <2>1, Zenon
<1> QED
  BY <1>1, WalkInvariant, PTL

\* When openAtWalkFD, openAtDarwin or walkWindowsParents meets a parent step, a
\* directory is pinned for every component done: popping both never fails.
THEOREM ParentStepsArePinned == Spec => []ParentStepsPinned
<1>1. IInv => ParentStepsPinned
  <2>1. ASSUME IInv, variant # "p2", rest # <<>>, Next1 = ".."
        PROVE  Len(parents) = Len(resolved)
    <3>1. Len(rest) >= 1 /\ Len(rest) \in Nat /\ Head(rest) = rest[1]
      BY <2>1 DEF IInv, Shape
    <3>2. 1 \in 1..Len(rest)
      BY <3>1
    <3>3. retain
      BY <2>1, <3>1, <3>2, Zenon DEF IInv, Foreseen, Next1
    <3> QED
      BY <2>1, <3>3, Zenon DEF IInv, Pinned
  <2> QED
    BY <2>1, Zenon DEF ParentStepsPinned
<1> QED
  BY <1>1, WalkInvariant, PTL

-----------------------------------------------------------------------------
(* A walk comes to an end *)

LEMMA LengthsAreNat ==
  ASSUME IInv
  PROVE  Len(resolved) \in Nat /\ Len(rest) \in Nat /\ links \in Nat /\ links <= MaxLinks
<1>1. resolved \in Seq(Names) /\ rest \in Seq(Components) /\ links \in 0..MaxLinks
  BY Zenon DEF IInv, Shape
<1> QED
  BY <1>1, WalkAssumption

\* A step that only moves on in its place.
LEMMA PlaceLowers ==
  ASSUME UNCHANGED walk,
         \/ Underway /\ at' = "done"
         \/ at = "part" /\ at' \in {"open", "link"}
         \/ at = "open" /\ at' = "link"
  PROVE  Lowered
<1>1. UNCHANGED <<links, resolved, rest>>
  BY Zenon DEF walk
<1>2. Place[at'] < Place[at]
  BY DEF Place, Underway
<1> QED
  BY <1>1, <1>2, Zenon DEF Lowered

LEMMA FailLowers ==
  ASSUME Underway, NEW r, NEW k, Return(r, k)
  PROVE  Lowered
BY PlaceLowers, Zenon DEF Return

LEMMA PopLowers ==
  ASSUME IInv, Pop
  PROVE  Lowered
<1>1. at = "part" /\ rest # <<>> /\ Underway
  BY Zenon DEF Pop, Underway
<1>2. resolved \in Seq(Names) /\ rest \in Seq(Components) /\ parents \in Seq(Below)
  BY Zenon DEF IInv, Shape
<1>3. /\ Tail(rest) \in Seq(Components) /\ Len(Tail(rest)) = Len(rest) - 1
      /\ Len(rest) \in Nat /\ Len(resolved) \in Nat
  BY <1>1, <1>2, TailOf, LengthsAreNat, Zenon
<1>4. CASE Fail
  BY <1>1, <1>4, FailLowers, Zenon DEF Fail
<1>5. CASE resolved # <<>> /\ Restart(Replayed) /\ UNCHANGED links
  <2>1. Len(Replayed) < Len(resolved) + Len(rest) /\ Len(Replayed) \in Nat
    BY <1>1, <1>2, <1>5, ReplayedOf, LenProperties, Zenon
  <2>2. Len(rest') = Len(Replayed)
    BY <1>5, Zenon DEF Restart
  <2>3. resolved' = <<>> /\ at' = "part"
    BY <1>5, Zenon DEF Restart
  <2>4. Len(resolved') = 0
    BY <2>3, Zenon
  <2>5. Total' < Total
    BY <1>3, <2>1, <2>2, <2>4 DEF Total
  <2> QED
    BY <1>5, <2>3, <2>5, Zenon DEF Lowered
<1>6. CASE /\ parents # <<>> /\ resolved' = Front(resolved) /\ rest' = Tail(rest)
           /\ UNCHANGED <<links, at>>
  <2>1. retain => Len(parents) = Len(resolved)
    BY Zenon DEF IInv, Pinned
  <2>2. resolved # <<>>
    BY <1>2, <1>6, <2>1, EmptyOf, Zenon DEF IInv, Pinned
  <2>3. Len(Front(resolved)) = Len(resolved) - 1
    BY <1>2, <2>2, FrontOf, Zenon
  <2>4. Total' < Total
    BY <1>3, <1>6, <2>3 DEF Total
  <2> QED
    BY <1>1, <1>6, <2>4, Zenon DEF Lowered
<1> QED
  BY <1>4, <1>5, <1>6, Zenon DEF Pop

LEMMA SkipLowers ==
  ASSUME IInv, Skip
  PROVE  Lowered
<1>1. at = "part" /\ rest # <<>> /\ rest' = Tail(rest) /\ UNCHANGED <<links, at, resolved>>
  BY Zenon DEF Skip
<1>2. Len(Tail(rest)) = Len(rest) - 1 /\ Len(rest) \in Nat /\ Len(resolved) \in Nat
  BY <1>1, TailOf, LengthsAreNat, Zenon DEF IInv, Shape
<1>3. Total' < Total
  BY <1>1, <1>2 DEF Total
<1> QED
  BY <1>1, <1>3, Zenon DEF Lowered

LEMMA DescendLowers ==
  ASSUME IInv, Descend
  PROVE  Lowered
<1>1. Intermediate
  BY Zenon DEF Descend
<1>2. at = "part" /\ rest # <<>> /\ Next1 \in Names /\ Underway
  BY <1>1 DEF Intermediate, Underway, IInv, Shape
<1>3. CASE Fail
  BY <1>2, <1>3, FailLowers, Zenon DEF Fail
<1>4. CASE at' = "link" /\ UNCHANGED <<walk, result, open>>
  <2>1. UNCHANGED walk /\ at' \in {"open", "link"}
    BY <1>4, Zenon
  <2> QED
    BY <1>2, <2>1, PlaceLowers, Zenon
<1>5. CASE resolved' = Append(resolved, Next1) /\ rest' = Tail(rest) /\ UNCHANGED <<links, at>>
  <2>1. /\ Len(Tail(rest)) = Len(rest) - 1 /\ Len(rest) \in Nat /\ Len(resolved) \in Nat
        /\ Len(Append(resolved, Next1)) = Len(resolved) + 1
    <3>1. rest \in Seq(Components) /\ resolved \in Seq(Names)
      BY Zenon DEF IInv, Shape
    <3>2. Len(Tail(rest)) = Len(rest) - 1
      BY <1>2, <3>1, TailOf, Zenon
    <3>3. Len(Append(resolved, Next1)) = Len(resolved) + 1
      BY <1>2, <3>1, AppendProperties, Zenon
    <3> QED
      BY <3>2, <3>3, LengthsAreNat, Zenon
  <2>2. Total' = (Len(resolved) + 1) + (Len(rest) - 1) /\ Len(rest') = Len(rest) - 1
    BY <1>5, <2>1, Zenon DEF Total
  <2>3. (Len(resolved) + 1) + (Len(rest) - 1) = Total /\ Len(rest) - 1 < Len(rest)
    BY <2>1 DEF Total
  <2> QED
    BY <1>2, <1>5, <2>2, <2>3, Zenon DEF Lowered
<1> QED
  BY <1>3, <1>4, <1>5, Zenon DEF Descend

LEMMA LinkLowers ==
  ASSUME IInv, at' = "part", links # MaxLinks, links' = links + 1
  PROVE  Lowered
<1>1. links \in Nat /\ links <= MaxLinks /\ MaxLinks \in Nat
  BY LengthsAreNat, WalkAssumption, Zenon
<1>2. links < links' /\ links' <= MaxLinks
  BY <1>1
<1> QED
  BY <1>2, Zenon DEF Lowered

LEMMA OthersLower ==
  ASSUME IInv, Start \/ Peek \/ OpenLast \/ ReadLink \/ End
  PROVE  Lowered
<1>1. CASE Start
  <2>1. at = "start" /\ at' \in {"done", "part"}
    BY <1>1, Zenon DEF Start
  <2> QED
    BY <2>1, Zenon DEF Lowered
<1>2. CASE Peek
  <2>1. at = "part" /\ Underway
    BY <1>2, Zenon DEF Peek, Underway
  <2>2. \/ Fail
        \/ at' = "open" /\ UNCHANGED walk
        \/ links # MaxLinks /\ links' = links + 1 /\ at' = at
    BY <1>2, Zenon DEF Peek
  <2>3. CASE at' = "open" /\ UNCHANGED walk
    <3>1. at' \in {"open", "link"}
      BY <2>3, Zenon
    <3> QED
      BY <2>1, <2>3, <3>1, PlaceLowers, Zenon
  <2>4. CASE links # MaxLinks /\ links' = links + 1 /\ at' = at
    BY <2>1, <2>4, LinkLowers, Zenon
  <2> QED
    BY <2>1, <2>2, <2>3, <2>4, FailLowers, Zenon DEF Fail
<1>3. CASE OpenLast
  <2>1. at \in {"open", "part"} /\ Underway
    BY <1>3, Zenon DEF OpenLast, Underway
  <2>2. \/ \E r, k : Return(r, k)
        \/ at' = "link" /\ UNCHANGED walk
    BY <1>3, Zenon DEF OpenLast, Fail
  <2> QED
    BY <2>1, <2>2, FailLowers, PlaceLowers, Zenon
<1>4. CASE ReadLink
  <2>1. Underway
    BY <1>4, Zenon DEF ReadLink, Underway
  <2>2. Fail \/ (links # MaxLinks /\ at' = "part" /\ links' = links + 1)
    BY <1>4, Zenon DEF ReadLink, Restart, LinksCounted
  <2> QED
    BY <2>1, <2>2, FailLowers, LinkLowers, Zenon DEF Fail
<1>5. CASE End
  <2>1. Underway /\ \E r, k : Return(r, k)
    BY <1>5, Zenon DEF End, Underway, Fail
  <2> QED
    BY <2>1, FailLowers, Zenon
<1> QED
  BY <1>1, <1>2, <1>3, <1>4, <1>5, Zenon

\* Every step of a walk lowers a measure of natural numbers in lexicographic
\* order that other processes leave alone: in a cycle of links, with parent
\* steps that start again, and however the tree changes, a walk ends.
THEOREM WalkStepsLower == Spec => [][StepsLower]_vars
<1>1. ASSUME IInv, [Next]_vars PROVE [StepsLower]_vars
  <2>1. Step => Lowered
    BY <1>1, StepsOf, SkipLowers, PopLowers, DescendLowers, OthersLower, Zenon
  <2>2. ASSUME NEW d1, NEW d2, NEW n1, NEW n2, Rename(d1, n1, d2, n2)
        PROVE  UNCHANGED <<links, resolved, rest, at>>
    BY <2>2, Zenon DEF Rename, walk
  <2> QED
    BY <1>1, <2>1, <2>2, Zenon DEF Next, StepsLower
<1> QED
  BY <1>1, WalkInvariant, PTL DEF Spec

===============================================================================
