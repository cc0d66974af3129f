--------------------------- MODULE P1FdTableProofs ---------------------------
(***************************************************************************)
(* Proofs about P1FdTable, for any number of mounts, files and             *)
(* descriptors, any width of the descriptor numbers and any limit.         *)
(***************************************************************************)
EXTENDS P1FdTable, FiniteSetTheorems, WellFoundedInduction, TLAPS

\* The host files a number of the table refers to.
HeldBy == [fd \in FD |-> IF fds[fd] = NoEntry THEN {} ELSE Held(fds[fd])]

\* Every member of S is held in exactly one place of h, and h holds no other.
Parts(h, S) ==
  /\ \A fd \in FD : h[fd] \subseteq S
  /\ \A f \in S : \E fd \in FD : f \in h[fd]
  /\ \A a, b \in FD : a # b => h[a] \cap h[b] = {}

\* An entry is as it should be: its file is not its iterator and belongs to a
\* mount, its rights are the mount's, and its file was opened for them.
EntryOK(e, host) ==
  /\ e.file # NoFile => e.file # e.iter /\ e.mount # NoMount
  /\ e.mount # NoMount => e.rights \cup e.inheriting \subseteq Inherited(e.mount)
  /\ e.file # NoFile /\ "fd_read" \in e.rights => host[e.file].mode \in {"r", "rw"} /\ ~host[e.file].dir
  /\ e.file # NoFile /\ e.rights \cap FileWriteRights # {} =>
       host[e.file].mode \in {"w", "rw"} /\ ~host[e.file].dir

EntriesOK == \A fd \in FD : fds[fd] # NoEntry => EntryOK(fds[fd], hosts)

\* What RightsOnlyShrink says of a step.
Shrinks ==
  \A a, b \in FD :
    /\ fds[a] # NoEntry /\ fds'[b] # NoEntry
    /\ fds[a].file # NoFile /\ fds[a].file = fds'[b].file
    => /\ fds'[b].rights \subseteq fds[a].rights
       /\ fds'[b].inheriting \subseteq fds[a].inheriting

IInv == TypeOK /\ Parts(HeldBy, Open) /\ EntriesOK /\ TableBounded /\ EffectsGranted

-----------------------------------------------------------------------------
\* Facts about the table.
LEMMA FDFinite == IsFiniteSet(FD) /\ Cardinality(FD) = Width
<1>1. Width \in Nat /\ Width > 0  BY FdAssumption
<1> QED  BY <1>1, FS_Interval DEF FD

LEMMA UsedFinite == Used \subseteq FD /\ IsFiniteSet(Used) /\ Cardinality(Used) \in Nat
<1>1. Used \subseteq FD  BY Zenon DEF Used
<1>2. IsFiniteSet(Used)  BY <1>1, FDFinite, FS_Subset, Zenon
<1> QED  BY <1>1, <1>2, FS_CardinalityType, Zenon

LEMMA ModNat ==
  ASSUME NEW a \in Int, NEW w \in Nat, w > 0
  PROVE  a % w \in 0..(w - 1)
  BY Z3, Zenon

\* alloc finds a free number while the table is not full.
LEMMA FreshFree ==
  ASSUME Cardinality(Used) < MaxFDs, NEW start \in FD
  PROVE  Fresh(start) \in FD \ Used
<1> DEFINE D(g) == (g - start) % Width
           T == {D(g) : g \in FD \ Used}
<1>1. Width \in Nat /\ Width > 0 /\ MaxFDs \in Nat /\ MaxFDs < Width  BY FdAssumption
<1>2. FD \ Used # {}
  <2> SUFFICES ASSUME FD \ Used = {} PROVE FALSE
    BY Zenon
  <2>1. Used = FD  BY UsedFinite, Zenon
  <2> QED  BY <1>1, <2>1, FDFinite
<1>3. ASSUME NEW g \in FD PROVE D(g) \in Nat
  <2>1. g - start \in Int  BY <1>1 DEF FD
  <2>2. (g - start) % Width \in 0..(Width - 1)  BY <1>1, <2>1, ModNat, Zenon
  <2> QED  BY <2>2
<1> HIDE DEF D
<1>4. T \subseteq Nat /\ T # {}  BY <1>2, <1>3, Zenon
<1>5. PICK x \in T : \A y \in T : ~(<<y, x>> \in OpToRel(<, Nat))
  BY <1>4, NatLessThanWellFounded, WFMin, Zenon
<1>6. ASSUME NEW y \in T PROVE x <= y
  <2> HIDE DEF T
  <2>1. x \in Nat /\ y \in Nat  BY <1>4, <1>5, Zenon
  <2>2. y < x => <<y, x>> \in OpToRel(<, Nat)  BY <2>1, Zenon DEF OpToRel
  <2>3. ~(y < x)  BY <1>5, <2>2, Zenon
  <2> QED  BY <2>1, <2>3
<1>7. \E fd \in FD \ Used : \A g \in FD \ Used : D(fd) <= D(g)  BY <1>6, Zenon
<1> QED  BY <1>7, Zenon DEF Fresh, D

-----------------------------------------------------------------------------
\* One place gives up the files R and gets the new files A.
LEMMA PartsChange ==
  ASSUME NEW h, DOMAIN h = FD, NEW S, Parts(h, S), NEW n \in FD,
         NEW R, R \subseteq h[n], NEW A, A \cap S = {}
  PROVE  Parts([h EXCEPT ![n] = (h[n] \ R) \cup A], (S \ R) \cup A)
<1> DEFINE g == [h EXCEPT ![n] = (h[n] \ R) \cup A]
<1>1. g[n] = (h[n] \ R) \cup A /\ \A a \in FD : a # n => g[a] = h[a]
  BY Zenon
<1> HIDE DEF g
<1>2. \A a \in FD : g[a] \subseteq (S \ R) \cup A
  <2> SUFFICES ASSUME NEW a \in FD PROVE g[a] \subseteq (S \ R) \cup A
    BY Zenon
  <2>1. CASE a = n  BY <1>1, <2>1, Zenon DEF Parts
  <2>2. CASE a # n
    <3>1. h[a] \subseteq S /\ h[a] \cap h[n] = {}  BY <2>2, Zenon DEF Parts
    <3> QED  BY <1>1, <2>2, <3>1, Zenon
  <2> QED  BY <2>1, <2>2, Zenon
<1>3. ASSUME NEW f \in (S \ R) \cup A PROVE \E a \in FD : f \in g[a]
  <2>1. CASE f \in A  BY <1>1, <2>1, Zenon
  <2>2. CASE f \in S \ R
    <3>1. PICK a \in FD : f \in h[a]  BY <2>2, Zenon DEF Parts
    <3> QED  BY <1>1, <2>2, <3>1, Zenon
  <2> QED  BY <1>3, <2>1, <2>2, Zenon
<1>4. ASSUME NEW a \in FD, NEW b \in FD, a # b PROVE g[a] \cap g[b] = {}
  <2>1. h[a] \cap h[b] = {} /\ h[a] \subseteq S /\ h[b] \subseteq S  BY <1>4, Zenon DEF Parts
  <2>2. CASE a = n  BY <1>1, <1>4, <2>1, <2>2, Zenon
  <2>3. CASE b = n  BY <1>1, <1>4, <2>1, <2>3, Zenon
  <2>4. CASE a # n /\ b # n  BY <1>1, <2>1, <2>4, Zenon
  <2> QED  BY <2>2, <2>3, <2>4, Zenon
<1>5. Parts(g, (S \ R) \cup A)  BY <1>2, <1>3, <1>4, Zenon DEF Parts
<1> QED  BY <1>5, Zenon DEF g

\* One place takes over what another holds, and gives up what it held.
LEMMA PartsMove ==
  ASSUME NEW h, DOMAIN h = FD, NEW S, Parts(h, S), NEW from \in FD, NEW to \in FD, from # to
  PROVE  Parts([h EXCEPT ![to] = h[from], ![from] = {}], S \ h[to])
<1> DEFINE g == [h EXCEPT ![to] = h[from], ![from] = {}]
<1>1. g[to] = h[from] /\ g[from] = {} /\ \A a \in FD \ {from, to} : g[a] = h[a]
  BY Zenon
<1> HIDE DEF g
<1>2. ASSUME NEW a \in FD PROVE g[a] \subseteq S \ h[to]
  <2>1. h[from] \subseteq S /\ h[from] \cap h[to] = {}  BY Zenon DEF Parts
  <2>2. CASE a = to  BY <1>1, <2>1, <2>2, Zenon
  <2>3. CASE a = from  BY <1>1, <2>3, Zenon
  <2>4. CASE a \notin {from, to}
    <3>1. h[a] \subseteq S /\ h[a] \cap h[to] = {}  BY <2>4, Zenon DEF Parts
    <3> QED  BY <1>1, <2>4, <3>1, Zenon
  <2> QED  BY <2>2, <2>3, <2>4, Zenon
<1>3. ASSUME NEW f \in S \ h[to] PROVE \E a \in FD : f \in g[a]
  <2>1. PICK a \in FD : f \in h[a]  BY <1>3, Zenon DEF Parts
  <2>2. CASE a = from  BY <1>1, <2>1, <2>2, Zenon
  <2>3. CASE a # from  BY <1>1, <1>3, <2>1, <2>3, Zenon
  <2> QED  BY <2>2, <2>3, Zenon
<1>4. ASSUME NEW a \in FD, NEW b \in FD, a # b PROVE g[a] \cap g[b] = {}
  <2>1. \A c, d \in FD : c # d => h[c] \cap h[d] = {}  BY Zenon DEF Parts
  <2>2. CASE a = from \/ b = from  BY <1>1, <2>2, Zenon
  <2>3. CASE a # from /\ b = to  BY <1>1, <1>4, <2>1, <2>3, Zenon
  <2>4. CASE b # from /\ a = to  BY <1>1, <1>4, <2>1, <2>4, Zenon
  <2>5. CASE a \notin {from, to} /\ b \notin {from, to}  BY <1>1, <1>4, <2>1, <2>5, Zenon
  <2> QED  BY <2>2, <2>3, <2>4, <2>5, Zenon
<1>5. Parts(g, S \ h[to])  BY <1>2, <1>3, <1>4, Zenon DEF Parts
<1> QED  BY <1>5, Zenon DEF g

\* Closing host files.
LEMMA Closing ==
  ASSUME TypeOK, NEW C, hosts' = CloseHosts(C)
  PROVE  /\ hosts' \in [Files -> HostFile \cup {Closed}] /\ Open' = Open \ C
         /\ \A f \in Files \ C : hosts'[f] = hosts[f]
<1>1. hosts \in [Files -> HostFile \cup {Closed}]  BY Zenon DEF TypeOK
<1>2. \A f \in Files : hosts'[f] = IF f \in C THEN Closed ELSE hosts[f]
  BY Zenon DEF CloseHosts
<1>3. hosts' \in [Files -> HostFile \cup {Closed}]
  <2> HIDE DEF HostFile, Closed
  <2> QED  BY <1>1, Zenon DEF CloseHosts
<1>4. Open' = Open \ C  BY <1>2, Zenon DEF Open
<1> QED  BY <1>2, <1>3, <1>4, Zenon

\* Opening a host file.
LEMMA Opening ==
  ASSUME TypeOK, NEW f \in Files, NEW x \in HostFile, NEW old \in [Files -> HostFile \cup {Closed}],
         hosts' = [old EXCEPT ![f] = x]
  PROVE  /\ hosts' \in [Files -> HostFile \cup {Closed}]
         /\ Open' = {g \in Files : old[g] # Closed} \cup {f}
         /\ hosts'[f] = x /\ \A g \in Files \ {f} : hosts'[g] = old[g]
<1>1. x # Closed  BY DEF HostFile, Closed
<1>2. hosts'[f] = x /\ \A g \in Files \ {f} : hosts'[g] = old[g]  BY Zenon
<1>3. hosts' \in [Files -> HostFile \cup {Closed}]
  <2> HIDE DEF HostFile, Closed
  <2> QED  BY Zenon
<1>4. Open' = {g \in Files : old[g] # Closed} \cup {f}  BY <1>1, <1>2, Zenon DEF Open
<1> QED  BY <1>2, <1>3, <1>4, Zenon

-----------------------------------------------------------------------------
LEMMA EntryThere ==
  ASSUME TypeOK, NEW fd \in FD, fds[fd] # NoEntry
  PROVE  fds[fd] \in Entry /\ HeldBy[fd] = Held(fds[fd]) /\ fd \in Used
<1>1. fds[fd] \in Entry \cup {NoEntry}
  <2> HIDE DEF Entry
  <2> QED  BY Zenon DEF TypeOK
<1> QED  BY <1>1, Zenon DEF HeldBy, Used

\* What changes with one place of the table.
LEMMA PlaceSet ==
  ASSUME TypeOK, NEW fd \in FD, NEW e \in Entry \cup {NoEntry}, fds' = [fds EXCEPT ![fd] = e]
  PROVE  /\ fds' \in [FD -> Entry \cup {NoEntry}]
         /\ fds'[fd] = e /\ \A g \in FD : g # fd => fds'[g] = fds[g]
         /\ HeldBy' = [HeldBy EXCEPT ![fd] = IF e = NoEntry THEN {} ELSE Held(e)]
         /\ Used' = IF e = NoEntry THEN Used \ {fd} ELSE Used \cup {fd}
<1>1. fds \in [FD -> Entry \cup {NoEntry}]  BY Zenon DEF TypeOK
<1> HIDE DEF Entry
<1>2. fds' \in [FD -> Entry \cup {NoEntry}]  BY <1>1, Zenon
<1>3. fds'[fd] = e /\ \A g \in FD : g # fd => fds'[g] = fds[g]  BY <1>1, Zenon
<1>4. HeldBy' = [HeldBy EXCEPT ![fd] = IF e = NoEntry THEN {} ELSE Held(e)]
  BY <1>3, Zenon DEF HeldBy, Held
<1>5. Used' = IF e = NoEntry THEN Used \ {fd} ELSE Used \cup {fd}  BY <1>3, Zenon DEF Used
<1> QED  BY <1>2, <1>3, <1>4, <1>5, Zenon

\* A step that changes one place of the table: it gives up the files R, which
\* are closed, and gets the files A, which are opened.
LEMMA PlaceInv ==
  ASSUME IInv, NEW fd \in FD, NEW e \in Entry \cup {NoEntry}, fds' = [fds EXCEPT ![fd] = e],
         NEW R, R \subseteq HeldBy[fd], NEW A, A \cap Open = {},
         (IF e = NoEntry THEN {} ELSE Held(e)) = (HeldBy[fd] \ R) \cup A,
         Open' = (Open \ R) \cup A, hosts' \in [Files -> HostFile \cup {Closed}],
         \A f \in Open \ R : hosts'[f] = hosts[f],
         nextFD' \in FD, effects' \in SUBSET (Mounts \X {"create", "truncate", "write", "mutate"}),
         EffectsGranted', e # NoEntry => EntryOK(e, hosts'),
         fds[fd] = NoEntry => Cardinality(Used) < MaxFDs
  PROVE  IInv'
<1>0. TypeOK /\ Parts(HeldBy, Open) /\ EntriesOK /\ TableBounded  BY Zenon DEF IInv
<1>1. /\ fds' \in [FD -> Entry \cup {NoEntry}]
      /\ fds'[fd] = e /\ \A g \in FD : g # fd => fds'[g] = fds[g]
      /\ HeldBy' = [HeldBy EXCEPT ![fd] = IF e = NoEntry THEN {} ELSE Held(e)]
      /\ Used' = IF e = NoEntry THEN Used \ {fd} ELSE Used \cup {fd}
  BY <1>0, PlaceSet, Zenon
<1> HIDE DEF Entry
<1>2. TypeOK'
  <2> HIDE DEF HostFile, Closed
  <2> QED  BY <1>1, Zenon DEF TypeOK
<1>3. Parts(HeldBy, Open)'
  <2>1. DOMAIN HeldBy = FD  BY Zenon DEF HeldBy
  <2>2. Parts([HeldBy EXCEPT ![fd] = (HeldBy[fd] \ R) \cup A], (Open \ R) \cup A)
    BY <1>0, <2>1, PartsChange, Zenon
  <2>3. HeldBy' = [HeldBy EXCEPT ![fd] = (HeldBy[fd] \ R) \cup A]  BY <1>1, Zenon
  <2>4. Parts(HeldBy', Open')  BY <2>2, <2>3, Zenon
  <2> QED  BY <2>4, Zenon DEF Parts
<1>4. EntriesOK'
  <2> SUFFICES ASSUME NEW g \in FD, fds'[g] # NoEntry PROVE EntryOK(fds'[g], hosts')
    BY Zenon DEF EntriesOK
  <2>1. CASE g = fd  BY <1>1, <2>1, Zenon
  <2>2. CASE g # fd
    <3>1. fds'[g] = fds[g] /\ fds[g] # NoEntry /\ EntryOK(fds[g], hosts)
      BY <1>0, <1>1, <2>2, Zenon DEF EntriesOK
    <3>2. fds[g] \in Entry /\ HeldBy[g] = Held(fds[g])  BY <1>0, <3>1, EntryThere, Zenon
    <3>3. HeldBy[g] \subseteq Open \ R  BY <1>0, <2>2, Zenon DEF Parts
    <3>4. fds[g].file # NoFile => hosts'[fds[g].file] = hosts[fds[g].file]
      BY <3>2, <3>3, Zenon DEF Held, Entry
    <3> QED  BY <3>1, <3>4, Zenon DEF EntryOK
  <2> QED  BY <2>1, <2>2, Zenon
<1>5. TableBounded'
  <2>1. IsFiniteSet(Used) /\ Cardinality(Used) \in Nat /\ MaxFDs \in Nat
    BY UsedFinite, FdAssumption, Zenon
  <2>2. CASE e = NoEntry
    <3>1. Used \ {fd} \subseteq Used  BY Zenon
    <3>2. IsFiniteSet(Used \ {fd}) /\ Cardinality(Used \ {fd}) <= Cardinality(Used)
      BY <2>1, <3>1, FS_Subset, Zenon
    <3>3. Cardinality(Used \ {fd}) \in Nat  BY <3>2, FS_CardinalityType, Zenon
    <3> QED  BY <1>0, <1>1, <2>1, <2>2, <3>2, <3>3 DEF TableBounded
  <2>3. CASE e # NoEntry
    <3>1. Cardinality(Used \cup {fd}) = IF fd \in Used THEN Cardinality(Used) ELSE Cardinality(Used) + 1
      BY <2>1, FS_AddElement, Zenon
    <3>2. fd \notin Used => fds[fd] = NoEntry  BY Zenon DEF Used
    <3> QED  BY <1>0, <1>1, <2>1, <2>3, <3>1, <3>2 DEF TableBounded
  <2> QED  BY <2>2, <2>3, Zenon
<1> QED  BY <1>2, <1>3, <1>4, <1>5, Zenon DEF IInv

LEMMA PlaceShrinks ==
  ASSUME IInv, NEW fd \in FD, NEW e \in Entry \cup {NoEntry}, fds' = [fds EXCEPT ![fd] = e],
         NEW A, A \cap Open = {},
         e # NoEntry => Held(e) \subseteq HeldBy[fd] \cup A,
         e # NoEntry /\ fds[fd] # NoEntry =>
           e.rights \subseteq fds[fd].rights /\ e.inheriting \subseteq fds[fd].inheriting
  PROVE  Shrinks
<1>0. TypeOK /\ Parts(HeldBy, Open)  BY Zenon DEF IInv
<1>1. fds'[fd] = e /\ \A g \in FD : g # fd => fds'[g] = fds[g]  BY <1>0, PlaceSet, Zenon
<1> HIDE DEF Entry
<1> SUFFICES ASSUME NEW a \in FD, NEW b \in FD, fds[a] # NoEntry, fds'[b] # NoEntry,
                    fds[a].file # NoFile, fds[a].file = fds'[b].file
             PROVE  /\ fds'[b].rights \subseteq fds[a].rights
                    /\ fds'[b].inheriting \subseteq fds[a].inheriting
  BY Zenon DEF Shrinks
<1>2. fds[a] \in Entry /\ HeldBy[a] = Held(fds[a])  BY <1>0, EntryThere, Zenon
<1>3. fds[a].file \in HeldBy[a] /\ fds[a].file \in Files  BY <1>2, Zenon DEF Held, Entry
<1>4. fds[a].file \in Open  BY <1>0, <1>3, Zenon DEF Parts
<1>5. CASE b # fd
  <2>1. fds'[b] = fds[b] /\ fds[b] # NoEntry  BY <1>1, <1>5, Zenon
  <2>2. HeldBy[b] = Held(fds[b])  BY <1>0, <2>1, EntryThere, Zenon
  <2>3. fds[a].file \in HeldBy[b]  BY <1>3, <2>1, <2>2, Zenon DEF Held
  <2>4. a = b  BY <1>0, <1>3, <2>3, Zenon DEF Parts
  <2> QED  BY <2>1, <2>4, Zenon
<1>6. CASE b = fd
  <2>1. fds'[b] = e /\ e # NoEntry  BY <1>1, <1>6, Zenon
  <2>2. fds[a].file \in Held(e)  BY <1>3, <2>1, Zenon DEF Held
  <2>3. fds[a].file \in HeldBy[fd]  BY <2>1, <2>2, <1>4, Zenon
  <2>4. a = fd  BY <1>0, <1>3, <2>3, Zenon DEF Parts
  <2> QED  BY <2>1, <2>4, Zenon
<1> QED  BY <1>5, <1>6, Zenon

\* What the rights of an entry with a file say about its mount.
LEMMA Granted ==
  ASSUME IInv, NEW fd \in FD, fds[fd] # NoEntry, fds[fd].file # NoFile
  PROVE  /\ fds[fd] \in Entry /\ fds[fd].mount \in Mounts
         /\ "path_mutate" \in fds[fd].rights => Grant[fds[fd].mount].mutate
         /\ "path_set_size" \in fds[fd].rights => Grant[fds[fd].mount].write
         /\ fds[fd].rights \cap FileWriteRights # {} => Grant[fds[fd].mount].write
<1>1. fds[fd] \in Entry  BY EntryThere, Zenon DEF IInv
<1>2. EntryOK(fds[fd], hosts)  BY Zenon DEF IInv, EntriesOK
<1>3. fds[fd].mount \in Mounts  BY <1>1, <1>2, Zenon DEF Entry, EntryOK
<1>4. fds[fd].rights \subseteq Inherited(fds[fd].mount)  BY <1>2, Zenon DEF EntryOK
<1>5. \A m \in Mounts : /\ "path_mutate" \in Inherited(m) => Grant[m].mutate
                        /\ "path_set_size" \in Inherited(m) => Grant[m].write
                        /\ Inherited(m) \cap FileWriteRights # {} => Grant[m].write
  BY Zenon DEF Inherited, If, DirectoryReadRights, FileReadRights, FileWriteRights,
         DirectoryMutationRights
<1> QED  BY <1>1, <1>3, <1>4, <1>5, Zenon

\* What path_open does on the host, its caller's directory allows.
LEMMA OpenGranted ==
  ASSUME IInv, NEW fd \in FD, NEW q \in Request, PathOpenAllowed(fd, q),
         effects' \in SUBSET OpenEffects(fd, q)
  PROVE  /\ effects' \in SUBSET (Mounts \X {"create", "truncate", "write", "mutate"})
         /\ EffectsGranted'
<1>1. fds[fd] # NoEntry /\ fds[fd].file # NoFile  BY Zenon DEF PathOpenAllowed, Resolve
<1>2. /\ fds[fd].mount \in Mounts
      /\ q.create => Grant[fds[fd].mount].mutate
      /\ q.trunc => Grant[fds[fd].mount].write
  BY <1>1, Granted, Zenon DEF PathOpenAllowed, Require
<1> DEFINE K == If(q.create, {"create"}) \cup If(q.trunc, {"truncate"})
<1>a. effects' \subseteq {fds[fd].mount} \X K  BY Zenon DEF OpenEffects
<1>b. \A k \in K : (k = "create" /\ q.create) \/ (k = "truncate" /\ q.trunc)
  <2> SUFFICES ASSUME NEW k \in K
               PROVE  (k = "create" /\ q.create) \/ (k = "truncate" /\ q.trunc)
    BY Zenon
  <2>1. CASE k \in If(q.create, {"create"})
    <3>1. q.create  BY <2>1, Zenon DEF If
    <3>2. k = "create"  BY <2>1, <3>1, Zenon DEF If
    <3> QED  BY <3>1, <3>2, Zenon
  <2>2. CASE k \in If(q.trunc, {"truncate"})
    <3>1. q.trunc  BY <2>2, Zenon DEF If
    <3>2. k = "truncate"  BY <2>2, <3>1, Zenon DEF If
    <3> QED  BY <3>1, <3>2, Zenon
  <2> QED  BY <2>1, <2>2, Zenon
<1> HIDE DEF K
<1>c. \A x \in effects' : x = <<x[1], x[2]>> /\ x[1] = fds[fd].mount /\ x[2] \in K  BY <1>a
<1>3. \A x \in effects' : /\ x = <<x[1], x[2]>> /\ x[1] = fds[fd].mount
                          /\ (x[2] = "create" /\ q.create) \/ (x[2] = "truncate" /\ q.trunc)
  BY <1>b, <1>c, Zenon
<1>4. EffectsGranted'  BY <1>2, <1>3, Zenon DEF EffectsGranted
<1>5. effects' \in SUBSET (Mounts \X {"create", "truncate", "write", "mutate"})
  BY <1>2, <1>3
<1> QED  BY <1>4, <1>5, Zenon

LEMMA NoEffects == ASSUME effects' = {}
                   PROVE  EffectsGranted' /\ effects' \in SUBSET (Mounts \X {"create", "truncate", "write", "mutate"})
BY Zenon DEF EffectsGranted

-----------------------------------------------------------------------------
\* The steps.

LEMMA PathOpenInv ==
  ASSUME IInv, NEW fd \in FD, NEW q \in Request, NEW f \in Files, PathOpen(fd, q, f)
  PROVE  IInv' /\ Shrinks
<1>0. TypeOK /\ EntriesOK  BY Zenon DEF IInv
<1>1. /\ PathOpenAllowed(fd, q) /\ f \notin Open /\ Cardinality(Used) < MaxFDs
      /\ fds[fd] # NoEntry /\ fds[fd].file # NoFile
  BY Zenon DEF PathOpen, PathOpenAllowed, Resolve
<1>2. PICK o \in HostOpens(q) \cup RetryOpens(q) :
        /\ ~(o.dir /\ "fd_write" \in q.rights)
        /\ hosts' = [hosts EXCEPT ![f] = [dir |-> o.dir, mode |-> o.mode, mount |-> fds[fd].mount]]
        /\ Alloc([file |-> f, iter |-> NoFile,
                  rights |-> IF o.dir THEN q.rights \cap DirectoryRights ELSE q.rights,
                  inheriting |-> q.inheriting, mount |-> fds[fd].mount])
  BY Zenon DEF PathOpen, Opened
<1> DEFINE n == Fresh(nextFD)
           x == [dir |-> o.dir, mode |-> o.mode, mount |-> fds[fd].mount]
           e == [file |-> f, iter |-> NoFile,
                 rights |-> IF o.dir THEN q.rights \cap DirectoryRights ELSE q.rights,
                 inheriting |-> q.inheriting, mount |-> fds[fd].mount]
<1>3. fds[fd].mount \in Mounts /\ fds[fd] \in Entry  BY <1>1, Granted, Zenon
<1>4. q.rights \in SUBSET Rights /\ q.inheriting \in SUBSET Rights
      /\ q.create \in BOOLEAN /\ q.trunc \in BOOLEAN /\ q.directory \in BOOLEAN
  BY FdAssumption, Zenon DEF Request
<1>5. /\ o = [dir |-> TRUE, mode |-> "r"] \/ o = [dir |-> FALSE, mode |-> Mode(q)]
  <2>1. ASSUME o \in RetryOpens(q)
        PROVE  o = [dir |-> TRUE, mode |-> "r"]
    <3>1. o \in RetryCandidates(q) /\ o.dir  BY <2>1, Zenon DEF RetryOpens
    <3>2. PICK d \in BOOLEAN : o = [dir |-> d, mode |-> "r"]
      BY <3>1, Zenon DEF RetryCandidates, If
    <3>3. d = TRUE  BY <3>1, <3>2
    <3> QED  BY <3>2, <3>3, Zenon
  <2> QED  BY <1>2, <2>1, Zenon DEF HostOpens, If
<1>6. o.dir \in BOOLEAN /\ o.mode \in {"r", "w", "rw"}
  <2>1. Mode(q) \in {"r", "w", "rw"}  BY Zenon DEF Mode
  <2>2. CASE o = [dir |-> TRUE, mode |-> "r"]  BY <2>2, Zenon
  <2>3. CASE o = [dir |-> FALSE, mode |-> Mode(q)]  BY <2>1, <2>3, Zenon
  <2> QED  BY <1>5, <2>2, <2>3, Zenon
<1>7. x \in HostFile  BY <1>3, <1>6, Zenon DEF HostFile
<1>8. e \in Entry
  <2>1. (IF o.dir THEN q.rights \cap DirectoryRights ELSE q.rights) \in SUBSET Rights  BY <1>4, Zenon
  <2>2. f \in Files \cup {NoFile} /\ NoFile \in Files \cup {NoFile, Stale}
        /\ fds[fd].mount \in Mounts \cup {NoMount}
    BY <1>3, Zenon
  <2> QED  BY <1>4, <2>1, <2>2, Zenon DEF Entry
<1>9. n \in FD \ Used
  <2>1. nextFD \in FD  BY <1>0, Zenon DEF TypeOK
  <2> QED  BY <1>1, <2>1, FreshFree, Zenon
<1>10. fds' = [fds EXCEPT ![n] = e] /\ nextFD' = (n + 1) % Width  BY <1>2, Zenon DEF Alloc
<1>11. nextFD' \in FD
  <2>1. n + 1 \in Int /\ Width \in Nat /\ Width > 0  BY <1>9, FdAssumption DEF FD
  <2> QED  BY <1>10, <2>1, ModNat, Zenon DEF FD
<1>12. fds[n] = NoEntry /\ HeldBy[n] = {}  BY <1>9, Zenon DEF Used, HeldBy
<1>13. Held(e) = {f}  BY FdAssumption, Zenon DEF Held
<1>14. /\ hosts' \in [Files -> HostFile \cup {Closed}]
       /\ Open' = Open \cup {f}
       /\ hosts'[f] = x /\ \A g \in Files \ {f} : hosts'[g] = hosts[g]
  BY <1>0, <1>2, <1>7, Opening, Zenon DEF TypeOK, Open
<1>15. EntryOK(e, hosts')
  <2>1. e.file # e.iter /\ e.mount # NoMount  BY <1>3, FdAssumption, Zenon
  <2>2. e.rights \cup e.inheriting \subseteq Inherited(e.mount)
    <3>1. q.rights \cup q.inheriting \subseteq fds[fd].inheriting  BY <1>1, Zenon DEF PathOpenAllowed
    <3>2. fds[fd].inheriting \subseteq Inherited(fds[fd].mount)
      BY <1>0, <1>1, <1>3, FdAssumption, Zenon DEF EntriesOK, EntryOK
    <3>3. e.rights \subseteq q.rights  BY Zenon
    <3> QED  BY <3>1, <3>2, <3>3, Zenon
  <2>3. CASE o = [dir |-> TRUE, mode |-> "r"]
    <3>1. "fd_read" \notin e.rights /\ e.rights \cap FileWriteRights = {}
      BY <2>3, Zenon DEF DirectoryRights, FileWriteRights
    <3> HIDE DEF e
    <3> QED  BY <2>1, <2>2, <3>1, Zenon DEF EntryOK
  <2>4. CASE o = [dir |-> FALSE, mode |-> Mode(q)]
    <3>1. e.rights = q.rights  BY <2>4, Zenon
    <3>2. hosts'[e.file].mode = Mode(q) /\ ~hosts'[e.file].dir  BY <1>14, <2>4
    <3>3. "fd_read" \in q.rights => Mode(q) \in {"r", "rw"}  BY Zenon DEF Mode
    <3>4. q.rights \cap FileWriteRights # {} => Mode(q) \in {"w", "rw"}  BY Zenon DEF Mode, HostWrite
    <3> HIDE DEF e
    <3> QED  BY <2>1, <2>2, <3>1, <3>2, <3>3, <3>4, Zenon DEF EntryOK
  <2> QED  BY <1>5, <2>3, <2>4, Zenon
<1>16. /\ effects' \in SUBSET (Mounts \X {"create", "truncate", "write", "mutate"})
       /\ EffectsGranted'
  <2>1. effects' \in SUBSET OpenEffects(fd, q)  BY Zenon DEF PathOpen
  <2> QED  BY <1>1, <2>1, OpenGranted, Zenon
<1>17. e # NoEntry  BY <1>8, NoEntryAssumption, Zenon
<1> HIDE DEF e, n, x
<1>18. {f} \cap Open = {} /\ Held(e) = (HeldBy[n] \ {}) \cup {f} /\ Open' = (Open \ {}) \cup {f}
       /\ \A g \in Open \ {} : hosts'[g] = hosts[g]
  BY <1>1, <1>12, <1>13, <1>14, Zenon DEF Open
<1>19. IInv'
  <2>1. {} \subseteq HeldBy[n] /\ n \in FD /\ e \in Entry \cup {NoEntry}  BY <1>8, <1>9, Zenon
  <2>2. (IF e = NoEntry THEN {} ELSE Held(e)) = (HeldBy[n] \ {}) \cup {f}  BY <1>17, <1>18, Zenon
  <2> QED  BY <1>1, <1>10, <1>11, <1>14, <1>15, <1>16, <1>18, <2>1, <2>2, PlaceInv, Zenon
<1>20. Shrinks
  <2>1. n \in FD /\ e \in Entry \cup {NoEntry} /\ Held(e) \subseteq HeldBy[n] \cup {f}
    BY <1>8, <1>9, <1>13, Zenon
  <2> QED  BY <1>10, <1>12, <1>18, <2>1, PlaceShrinks, Zenon
<1> QED  BY <1>19, <1>20, Zenon

\* A step that leaves the table and the host files alone.
LEMMA TableKept ==
  ASSUME IInv, UNCHANGED <<fds, nextFD, hosts>>, EffectsGranted',
         effects' \in SUBSET (Mounts \X {"create", "truncate", "write", "mutate"})
  PROVE  IInv' /\ Shrinks
<1> HIDE DEF Entry
<1>1. TypeOK'  BY Zenon DEF IInv, TypeOK
<1>2. HeldBy' = HeldBy /\ Open' = Open /\ Used' = Used  BY Zenon DEF HeldBy, Open, Used, Held
<1>3. Parts(HeldBy, Open)'  BY <1>2, Zenon DEF IInv, Parts
<1>4. EntriesOK' /\ TableBounded'  BY <1>2, Zenon DEF IInv, EntriesOK, EntryOK, TableBounded
<1>5. Shrinks
  <2> SUFFICES ASSUME NEW a \in FD, NEW b \in FD, fds[a] # NoEntry, fds[b] # NoEntry,
                      fds[a].file # NoFile, fds[a].file = fds[b].file
               PROVE  a = b
    BY Zenon DEF Shrinks
  <2>0. TypeOK /\ Parts(HeldBy, Open)  BY Zenon DEF IInv
  <2>1. fds[a] \in Entry /\ HeldBy[a] = Held(fds[a]) /\ HeldBy[b] = Held(fds[b])
    BY <2>0, EntryThere, Zenon
  <2>2. fds[a].file \in HeldBy[a] /\ fds[a].file \in HeldBy[b]  BY <2>1, Zenon DEF Held, Entry
  <2> QED  BY <2>0, <2>2, Zenon DEF Parts
<1> QED  BY <1>1, <1>3, <1>4, <1>5, Zenon DEF IInv

LEMMA PathOpenFailsInv ==
  ASSUME IInv, NEW fd \in FD, NEW q \in Request, PathOpenFails(fd, q)
  PROVE  IInv' /\ Shrinks
<1>1. PathOpenAllowed(fd, q) /\ effects' \in SUBSET OpenEffects(fd, q)
      /\ UNCHANGED <<fds, nextFD, hosts>>
  BY Zenon DEF PathOpenFails
<1> QED  BY <1>1, OpenGranted, TableKept, Zenon

LEMMA PathOpenRejectsInv ==
  ASSUME IInv, NEW fd \in FD, NEW q \in Request, NEW f \in Files, PathOpenRejects(fd, q, f)
  PROVE  IInv' /\ Shrinks
<1>1. PathOpenAllowed(fd, q) /\ effects' \in SUBSET OpenEffects(fd, q)
      /\ UNCHANGED <<fds, nextFD>> /\ hosts[f] = Closed
  BY Zenon DEF PathOpenRejects, Open
<1>2. hosts' = hosts
  <2>1. PICK o : hosts' = [Opened(fd, f, o) EXCEPT ![f] = Closed]  BY Zenon DEF PathOpenRejects
  <2>2. hosts \in [Files -> HostFile \cup {Closed}]  BY Zenon DEF IInv, TypeOK
  <2> DEFINE T == HostFile \cup {Closed}
  <2>3. hosts \in [Files -> T]  BY <2>2, Zenon
  <2> HIDE DEF T
  <2> QED  BY <1>1, <2>1, <2>3 DEF Opened
<1> QED  BY <1>1, <1>2, OpenGranted, TableKept, Zenon

LEMMA FdChangeInv ==
  ASSUME IInv, NEW fd \in FD, FdChange(fd)
  PROVE  IInv' /\ Shrinks
<1>1. /\ fds[fd] # NoEntry /\ fds[fd].file # NoFile /\ fds[fd].rights \cap FileWriteRights # {}
      /\ effects' = {<<fds[fd].mount, "write">>} /\ UNCHANGED <<fds, nextFD, hosts>>
  BY Zenon DEF FdChange, Require
<1>2. fds[fd].mount \in Mounts /\ Grant[fds[fd].mount].write  BY <1>1, Granted, Zenon
<1>3. EffectsGranted'  BY <1>1, <1>2 DEF EffectsGranted
<1> QED  BY <1>1, <1>2, <1>3, TableKept

LEMMA PathMutateInv ==
  ASSUME IInv, NEW fd \in FD, PathMutate(fd)
  PROVE  IInv' /\ Shrinks
<1>1. /\ fds[fd] # NoEntry /\ fds[fd].file # NoFile /\ "path_mutate" \in fds[fd].rights
      /\ effects' = {<<fds[fd].mount, "mutate">>} /\ UNCHANGED <<fds, nextFD, hosts>>
  BY Zenon DEF PathMutate, Require, Resolve
<1>2. fds[fd].mount \in Mounts /\ Grant[fds[fd].mount].mutate  BY <1>1, Granted, Zenon
<1>3. EffectsGranted'  BY <1>1, <1>2 DEF EffectsGranted
<1> QED  BY <1>1, <1>2, <1>3, TableKept

LEMMA FdCloseInv ==
  ASSUME IInv, NEW fd \in FD, FdClose(fd)
  PROVE  IInv' /\ Shrinks
<1>0. TypeOK /\ Parts(HeldBy, Open)  BY Zenon DEF IInv
<1>1. /\ fds[fd] # NoEntry /\ hosts' = CloseHosts(Held(fds[fd]))
      /\ fds' = [fds EXCEPT ![fd] = NoEntry] /\ effects' = {} /\ nextFD' = nextFD
  BY Zenon DEF FdClose
<1>2. HeldBy[fd] = Held(fds[fd])  BY <1>0, <1>1, EntryThere, Zenon
<1>3. /\ hosts' \in [Files -> HostFile \cup {Closed}] /\ Open' = Open \ HeldBy[fd]
      /\ \A f \in Files \ HeldBy[fd] : hosts'[f] = hosts[f]
  BY <1>0, <1>1, <1>2, Closing, Zenon
<1>4. nextFD' \in FD  BY <1>0, <1>1, Zenon DEF TypeOK
<1>5. EffectsGranted' /\ effects' \in SUBSET (Mounts \X {"create", "truncate", "write", "mutate"})
  BY <1>1, NoEffects, Zenon
<1>6. IInv'
  <2>1. NoEntry \in Entry \cup {NoEntry} /\ {} \cap Open = {} /\ HeldBy[fd] \subseteq HeldBy[fd]
    BY Zenon
  <2>2. (IF NoEntry = NoEntry THEN {} ELSE Held(NoEntry)) = (HeldBy[fd] \ HeldBy[fd]) \cup {}
    BY Zenon
  <2>3. Open' = (Open \ HeldBy[fd]) \cup {} /\ \A f \in Open \ HeldBy[fd] : hosts'[f] = hosts[f]
    BY <1>3, Zenon DEF Open
  <2> QED  BY <1>1, <1>3, <1>4, <1>5, <2>1, <2>2, <2>3, PlaceInv, Zenon
<1>7. Shrinks
  <2>1. NoEntry \in Entry \cup {NoEntry} /\ {} \cap Open = {}  BY Zenon
  <2> QED  BY <1>1, <2>1, PlaceShrinks, Zenon
<1> QED  BY <1>6, <1>7, Zenon

LEMMA FdFdstatSetRightsInv ==
  ASSUME IInv, NEW fd \in FD, NEW base \in Asked, NEW inheriting \in Asked,
         FdFdstatSetRights(fd, base, inheriting)
  PROVE  IInv' /\ Shrinks
<1>0. TypeOK /\ EntriesOK  BY Zenon DEF IInv
<1>1. /\ fds[fd] # NoEntry /\ base \subseteq fds[fd].rights /\ inheriting \subseteq fds[fd].inheriting
      /\ effects' = {} /\ UNCHANGED <<nextFD, hosts>>
  BY Zenon DEF FdFdstatSetRights
<1>2. fds[fd] \in Entry /\ HeldBy[fd] = Held(fds[fd])  BY <1>0, <1>1, EntryThere, Zenon
<1> DEFINE e == [fds[fd] EXCEPT !.rights = base, !.inheriting = inheriting]
<1>3. fds' = [fds EXCEPT ![fd] = e]  BY <1>0, <1>1, Zenon DEF FdFdstatSetRights, TypeOK
<1>4. /\ e \in Entry /\ e.rights = base /\ e.inheriting = inheriting
      /\ e.file = fds[fd].file /\ e.iter = fds[fd].iter /\ e.mount = fds[fd].mount
  BY <1>2, FdAssumption, Zenon DEF Entry
<1>5. e # NoEntry  BY <1>4, NoEntryAssumption, Zenon
<1> HIDE DEF e
<1>6. Held(e) = Held(fds[fd])  BY <1>4, Zenon DEF Held
<1>7. EntryOK(e, hosts')
  <2>1. EntryOK(fds[fd], hosts)  BY <1>0, <1>1, Zenon DEF EntriesOK
  <2> QED  BY <1>1, <1>4, <2>1, Zenon DEF EntryOK
<1>8. nextFD' \in FD /\ hosts' \in [Files -> HostFile \cup {Closed}] /\ Open' = Open
  BY <1>0, <1>1, Zenon DEF TypeOK, Open
<1>9. EffectsGranted' /\ effects' \in SUBSET (Mounts \X {"create", "truncate", "write", "mutate"})
  BY <1>1, NoEffects, Zenon
<1>10. IInv'
  <2>1. {} \subseteq HeldBy[fd] /\ {} \cap Open = {} /\ e \in Entry \cup {NoEntry}  BY <1>4, Zenon
  <2>2. (IF e = NoEntry THEN {} ELSE Held(e)) = (HeldBy[fd] \ {}) \cup {}  BY <1>2, <1>5, <1>6, Zenon
  <2>3. Open' = (Open \ {}) \cup {} /\ \A f \in Open \ {} : hosts'[f] = hosts[f]  BY <1>1, <1>8, Zenon
  <2> QED  BY <1>1, <1>3, <1>7, <1>8, <1>9, <2>1, <2>2, <2>3, PlaceInv, Zenon
<1>11. Shrinks
  <2>1. {} \cap Open = {} /\ e \in Entry \cup {NoEntry} /\ Held(e) \subseteq HeldBy[fd] \cup {}
    BY <1>2, <1>4, <1>6, Zenon
  <2> QED  BY <1>1, <1>3, <1>4, <2>1, PlaceShrinks, Zenon
<1> QED  BY <1>10, <1>11, Zenon

\* fd_readdir gives up the old iterator and may get a new one; `it' is what the
\* entry refers to afterwards.
LEMMA ReaddirEntry ==
  ASSUME IInv, NEW fd \in FD, fds[fd] # NoEntry, fds[fd].file # NoFile,
         NEW it \in Files \cup {NoFile, Stale}, it # fds[fd].file,
         NEW e, e = [fds[fd] EXCEPT !.iter = it]
  PROVE  /\ e \in Entry /\ e # NoEntry
         /\ e.rights = fds[fd].rights /\ e.inheriting = fds[fd].inheriting
         /\ HeldBy[fd] = Held(fds[fd])
         /\ Held(e) = (HeldBy[fd] \ ({fds[fd].iter} \cap Files)) \cup ({it} \cap Files)
         /\ fds[fd].file \in Open \ ({fds[fd].iter} \cap Files)
         /\ {fds[fd].iter} \cap Files \subseteq HeldBy[fd]
         /\ \A h : h[fds[fd].file] = hosts[fds[fd].file] => EntryOK(e, h)
<1>0. TypeOK /\ Parts(HeldBy, Open) /\ EntryOK(fds[fd], hosts)  BY Zenon DEF IInv, EntriesOK
<1>1. fds[fd] \in Entry /\ HeldBy[fd] = Held(fds[fd])  BY <1>0, EntryThere, Zenon
<1>2. /\ e \in Entry /\ e.file = fds[fd].file /\ e.iter = it /\ e.mount = fds[fd].mount
      /\ e.rights = fds[fd].rights /\ e.inheriting = fds[fd].inheriting
  BY <1>1, Zenon DEF Entry
<1>3. e # NoEntry  BY <1>2, NoEntryAssumption, Zenon
<1>4. fds[fd].file \in Files /\ fds[fd].file # fds[fd].iter /\ fds[fd].mount # NoMount
  BY <1>0, <1>1, Zenon DEF Entry, EntryOK
<1>5. HeldBy[fd] = {fds[fd].file} \cup ({fds[fd].iter} \cap Files)  BY <1>1, <1>4, Zenon DEF Held
<1>6. Held(e) = {fds[fd].file} \cup ({it} \cap Files)  BY <1>2, <1>4, Zenon DEF Held
<1>7. Held(e) = (HeldBy[fd] \ ({fds[fd].iter} \cap Files)) \cup ({it} \cap Files)
  BY <1>4, <1>5, <1>6, Zenon
<1>8. fds[fd].file \in Open  BY <1>0, <1>5, Zenon DEF Parts
<1>9. \A h : h[fds[fd].file] = hosts[fds[fd].file] => EntryOK(e, h)
  BY <1>0, <1>2, Zenon DEF EntryOK
<1> QED  BY <1>1, <1>2, <1>3, <1>4, <1>5, <1>7, <1>8, <1>9, Zenon

LEMMA FdReaddirReopensInv ==
  ASSUME IInv, NEW fd \in FD, NEW f \in Files, FdReaddirReopens(fd, f)
  PROVE  IInv' /\ Shrinks
<1>0. TypeOK /\ Parts(HeldBy, Open)  BY Zenon DEF IInv
<1>1. /\ fds[fd] # NoEntry /\ fds[fd].file # NoFile /\ f \notin Open
      /\ effects' = {} /\ nextFD' = nextFD
  BY Zenon DEF FdReaddirReopens, Require
<1> DEFINE e == [fds[fd] EXCEPT !.iter = f]
           R == {fds[fd].iter} \cap Files
           old == CloseHosts({fds[fd].iter})
           x == [dir |-> TRUE, mode |-> "r", mount |-> fds[fd].mount]
<1>2. fds' = [fds EXCEPT ![fd] = e]  BY <1>0, Zenon DEF FdReaddirReopens, TypeOK
<1>3. hosts' = [old EXCEPT ![f] = x]  BY Zenon DEF FdReaddirReopens
<1>4. fds[fd].mount \in Mounts /\ fds[fd] \in Entry  BY <1>1, Granted, Zenon
<1>5. fds[fd].file \in Open
  <2>1. HeldBy[fd] = Held(fds[fd])  BY <1>0, <1>1, EntryThere, Zenon
  <2> QED  BY <1>0, <1>1, <1>4, <2>1, Zenon DEF Held, Parts, Entry
<1>6. f # fds[fd].file /\ f \in Files \cup {NoFile, Stale}  BY <1>1, <1>5, Zenon
<1>7. /\ e \in Entry /\ e # NoEntry
      /\ e.rights = fds[fd].rights /\ e.inheriting = fds[fd].inheriting
      /\ Held(e) = (HeldBy[fd] \ R) \cup ({f} \cap Files)
      /\ fds[fd].file \in Open \ R /\ R \subseteq HeldBy[fd]
      /\ \A h : h[fds[fd].file] = hosts[fds[fd].file] => EntryOK(e, h)
  BY <1>1, <1>6, ReaddirEntry
<1>8. x \in HostFile  BY <1>4, Zenon DEF HostFile
<1>9. /\ old \in [Files -> HostFile \cup {Closed}]
      /\ \A g \in Files : old[g] = IF g \in R THEN Closed ELSE hosts[g]
  <2>1. hosts \in [Files -> HostFile \cup {Closed}]  BY <1>0, Zenon DEF TypeOK
  <2> HIDE DEF HostFile, Closed
  <2> QED  BY <2>1, Zenon DEF CloseHosts
<1> HIDE DEF e, R, old, x
<1>10. /\ hosts' \in [Files -> HostFile \cup {Closed}]
       /\ Open' = {g \in Files : old[g] # Closed} \cup {f}
       /\ \A g \in Files \ {f} : hosts'[g] = old[g]
  BY <1>0, <1>3, <1>8, <1>9, Opening, ZenonT(30)
<1>11. {g \in Files : old[g] # Closed} = Open \ R  BY <1>9, Zenon DEF Open
<1>12. \A g \in Open \ R : hosts'[g] = hosts[g]  BY <1>1, <1>9, <1>10, Zenon DEF Open
<1>13. EntryOK(e, hosts')  BY <1>7, <1>12
<1>14. nextFD' \in FD  BY <1>0, <1>1, Zenon DEF TypeOK
<1>15. EffectsGranted' /\ effects' \in SUBSET (Mounts \X {"create", "truncate", "write", "mutate"})
  BY <1>1, NoEffects, Zenon
<1>16. {f} \cap Open = {} /\ {f} \cap Files = {f} /\ e \in Entry \cup {NoEntry}  BY <1>1, <1>7, Zenon
<1>17. IInv'
  <2>1. (IF e = NoEntry THEN {} ELSE Held(e)) = (HeldBy[fd] \ R) \cup {f}  BY <1>7, <1>16, Zenon
  <2>2. Open' = (Open \ R) \cup {f}  BY <1>10, <1>11, Zenon
  <2>3. fds[fd] = NoEntry => Cardinality(Used) < MaxFDs  BY <1>1, Zenon
  <2>4. R \subseteq HeldBy[fd] /\ (e # NoEntry => EntryOK(e, hosts'))  BY <1>7, <1>13, Zenon
  <2>5. hosts' \in [Files -> HostFile \cup {Closed}] /\ {f} \cap Open = {}  BY <1>10, <1>16, Zenon
  <2> QED  BY <1>2, <1>12, <1>14, <1>15, <1>16, <2>1, <2>2, <2>3, <2>4, <2>5, PlaceInv, Zenon
<1>18. Shrinks
  <2>1. Held(e) \subseteq HeldBy[fd] \cup {f}  BY <1>7, Zenon
  <2> QED  BY <1>2, <1>7, <1>16, <2>1, PlaceShrinks, Zenon
<1> QED  BY <1>17, <1>18, Zenon

LEMMA FdReaddirFailsInv ==
  ASSUME IInv, NEW fd \in FD, FdReaddirFails(fd)
  PROVE  IInv' /\ Shrinks
<1>0. TypeOK /\ Parts(HeldBy, Open)  BY DEF IInv
<1>1. /\ fds[fd] # NoEntry /\ fds[fd].file # NoFile /\ hosts' = CloseHosts({fds[fd].iter})
      /\ effects' = {} /\ nextFD' = nextFD
  BY Zenon DEF FdReaddirFails, Require
<1> DEFINE it == IF fds[fd].iter = NoFile THEN NoFile ELSE Stale
           e == [fds[fd] EXCEPT !.iter = it]
           R == {fds[fd].iter} \cap Files
<1>2. fds' = [fds EXCEPT ![fd] = e]  BY <1>0, Zenon DEF FdReaddirFails, TypeOK
<1>3. fds[fd] \in Entry  BY <1>0, <1>1, EntryThere, Zenon
<1>4. it \in Files \cup {NoFile, Stale} /\ it # fds[fd].file /\ {it} \cap Files = {}
  BY <1>1, <1>3, FdAssumption DEF Entry
<1> HIDE DEF it
<1>5. /\ e \in Entry /\ e # NoEntry
      /\ e.rights = fds[fd].rights /\ e.inheriting = fds[fd].inheriting
      /\ Held(e) = (HeldBy[fd] \ R) \cup ({it} \cap Files)
      /\ fds[fd].file \in Open \ R /\ R \subseteq HeldBy[fd]
      /\ \A h : h[fds[fd].file] = hosts[fds[fd].file] => EntryOK(e, h)
  BY <1>1, <1>4, ReaddirEntry
<1>6. /\ hosts' \in [Files -> HostFile \cup {Closed}] /\ Open' = Open \ {fds[fd].iter}
      /\ \A g \in Files \ {fds[fd].iter} : hosts'[g] = hosts[g]
  BY <1>0, <1>1, Closing, Zenon
<1>7. Open' = Open \ R /\ \A g \in Open \ R : hosts'[g] = hosts[g]  BY <1>6, Zenon DEF Open
<1> HIDE DEF e, R
<1>8. EntryOK(e, hosts')  BY <1>5, <1>7
<1>9. nextFD' \in FD  BY <1>0, <1>1, Zenon DEF TypeOK
<1>10. EffectsGranted' /\ effects' \in SUBSET (Mounts \X {"create", "truncate", "write", "mutate"})
  BY <1>1, NoEffects, Zenon
<1>11. {} \cap Open = {} /\ e \in Entry \cup {NoEntry}  BY <1>5, Zenon
<1>12. IInv'
  <2>1. (IF e = NoEntry THEN {} ELSE Held(e)) = (HeldBy[fd] \ R) \cup {}  BY <1>4, <1>5, Zenon
  <2>2. Open' = (Open \ R) \cup {}  BY <1>7, Zenon
  <2> QED  BY <1>1, <1>2, <1>5, <1>6, <1>7, <1>8, <1>9, <1>10, <1>11, <2>1, <2>2, PlaceInv, ZenonT(30)
<1>13. Shrinks
  <2>1. Held(e) \subseteq HeldBy[fd] \cup {}  BY <1>4, <1>5, Zenon
  <2> QED  BY <1>2, <1>5, <1>11, <2>1, PlaceShrinks, Zenon
<1> QED  BY <1>12, <1>13

LEMMA FdRenumberInv ==
  ASSUME IInv, NEW from \in FD, NEW to \in FD, FdRenumber(from, to)
  PROVE  IInv' /\ Shrinks
<1>0. TypeOK /\ Parts(HeldBy, Open) /\ EntriesOK /\ TableBounded  BY Zenon DEF IInv
<1>1. /\ fds[from] # NoEntry /\ fds[to] # NoEntry /\ from # to
      /\ hosts' = CloseHosts(Held(fds[to])) /\ effects' = {} /\ nextFD' = nextFD
      /\ fds' = [fds EXCEPT ![to] = fds[from], ![from] = NoEntry]
  BY Zenon DEF FdRenumber
<1>2. /\ fds[from] \in Entry /\ HeldBy[from] = Held(fds[from])
      /\ HeldBy[to] = Held(fds[to]) /\ from \in Used /\ to \in Used
  BY <1>0, <1>1, EntryThere, Zenon
<1> HIDE DEF Entry, HostFile, Closed
<1>3. fds \in [FD -> Entry \cup {NoEntry}]  BY <1>0, Zenon DEF TypeOK
<1>4. fds' \in [FD -> Entry \cup {NoEntry}]  BY <1>1, <1>2, <1>3, Zenon
<1>5. fds'[to] = fds[from] /\ fds'[from] = NoEntry
      /\ \A g \in FD \ {from, to} : fds'[g] = fds[g]
  BY <1>1, <1>3, Zenon
<1>6. /\ hosts' \in [Files -> HostFile \cup {Closed}] /\ Open' = Open \ HeldBy[to]
      /\ \A f \in Files \ HeldBy[to] : hosts'[f] = hosts[f]
  BY <1>0, <1>1, <1>2, Closing, Zenon
<1>7. EffectsGranted' /\ effects' \in SUBSET (Mounts \X {"create", "truncate", "write", "mutate"})
  BY <1>1, NoEffects, Zenon
<1>8. TypeOK'  BY <1>0, <1>1, <1>4, <1>6, <1>7, Zenon DEF TypeOK
<1>9. Parts(HeldBy, Open)'
  <2>1. DOMAIN HeldBy = FD  BY Zenon DEF HeldBy
  <2>2. Parts([HeldBy EXCEPT ![to] = HeldBy[from], ![from] = {}], Open \ HeldBy[to])
    BY <1>0, <1>1, <2>1, PartsMove, Zenon
  <2>3. HeldBy' = [HeldBy EXCEPT ![to] = HeldBy[from], ![from] = {}]
    <3>1. HeldBy' = [g \in FD |-> IF fds'[g] = NoEntry THEN {} ELSE Held(fds'[g])]
      BY Zenon DEF HeldBy, Held
    <3>2. \A g \in FD : HeldBy'[g] = [HeldBy EXCEPT ![to] = HeldBy[from], ![from] = {}][g]
      <4> SUFFICES ASSUME NEW g \in FD
                   PROVE  HeldBy'[g] = [HeldBy EXCEPT ![to] = HeldBy[from], ![from] = {}][g]
        BY Zenon
      <4>1. HeldBy'[g] = IF fds'[g] = NoEntry THEN {} ELSE Held(fds'[g])  BY <3>1, Zenon
      <4>2. CASE g = to  BY <1>1, <1>2, <1>5, <2>1, <4>1, <4>2, Zenon
      <4>3. CASE g = from  BY <1>5, <2>1, <4>1, <4>3, Zenon
      <4>4. CASE g \notin {from, to}
        <5>1. HeldBy[g] = IF fds[g] = NoEntry THEN {} ELSE Held(fds[g])  BY Zenon DEF HeldBy
        <5> QED  BY <1>5, <2>1, <4>1, <4>4, <5>1, Zenon
      <4> QED  BY <4>2, <4>3, <4>4, Zenon
    <3> QED  BY <2>1, <3>1, <3>2, Zenon
  <2>4. Parts(HeldBy', Open')  BY <1>6, <2>2, <2>3, Zenon
  <2> QED  BY <2>4, Zenon DEF Parts
<1>10. ASSUME NEW g \in FD, fds[g] # NoEntry, g # to
       PROVE  EntryOK(fds[g], hosts')
  <2>1. EntryOK(fds[g], hosts)  BY <1>0, <1>10, Zenon DEF EntriesOK
  <2>2. fds[g] \in Entry /\ HeldBy[g] = Held(fds[g])  BY <1>0, <1>10, EntryThere, Zenon
  <2>3. HeldBy[g] \cap HeldBy[to] = {}  BY <1>0, <1>10, Zenon DEF Parts
  <2>4. fds[g].file # NoFile => hosts'[fds[g].file] = hosts[fds[g].file]
    BY <1>6, <2>2, <2>3, Zenon DEF Held, Entry
  <2> QED  BY <2>1, <2>4, Zenon DEF EntryOK
<1>11. EntriesOK'
  <2> SUFFICES ASSUME NEW g \in FD, fds'[g] # NoEntry PROVE EntryOK(fds'[g], hosts')
    BY Zenon DEF EntriesOK
  <2>1. CASE g = to  BY <1>1, <1>5, <1>10, <2>1, Zenon
  <2>2. CASE g # to  BY <1>5, <1>10, <2>2, Zenon
  <2> QED  BY <2>1, <2>2, Zenon
<1>12. TableBounded'
  <2>1. Used' \subseteq Used  BY <1>1, <1>2, <1>5, Zenon DEF Used
  <2>2. IsFiniteSet(Used') /\ Cardinality(Used') <= Cardinality(Used)
    BY <2>1, UsedFinite, FS_Subset, Zenon
  <2>3. Cardinality(Used') \in Nat /\ Cardinality(Used) \in Nat /\ MaxFDs \in Nat
    BY <2>2, UsedFinite, FS_CardinalityType, FdAssumption, Zenon
  <2> QED  BY <1>0, <2>2, <2>3 DEF TableBounded
<1>13. Shrinks
  <2> SUFFICES ASSUME NEW a \in FD, NEW b \in FD, fds[a] # NoEntry, fds'[b] # NoEntry,
                      fds[a].file # NoFile, fds[a].file = fds'[b].file
               PROVE  fds'[b] = fds[a]
    BY Zenon DEF Shrinks
  <2>1. fds[a] \in Entry /\ HeldBy[a] = Held(fds[a])  BY <1>0, EntryThere, Zenon
  <2>2. fds[a].file \in HeldBy[a]  BY <2>1, Zenon DEF Held, Entry
  <2>3. PICK c \in FD : fds'[b] = fds[c] /\ fds[c] # NoEntry  BY <1>1, <1>5, Zenon
  <2>4. HeldBy[c] = Held(fds[c])  BY <1>0, <2>3, EntryThere, Zenon
  <2>5. fds[a].file \in HeldBy[c]  BY <2>1, <2>2, <2>3, <2>4, Zenon DEF Held
  <2>6. a = c  BY <1>0, <2>2, <2>5, Zenon DEF Parts
  <2> QED  BY <2>3, <2>6, Zenon
<1> QED  BY <1>7, <1>8, <1>9, <1>11, <1>12, <1>13, Zenon DEF IInv

LEMMA CloseTableInv ==
  ASSUME IInv, CloseTable
  PROVE  IInv' /\ Shrinks
<1>0. TypeOK /\ Parts(HeldBy, Open)  BY Zenon DEF IInv
<1>1. /\ hosts' = CloseHosts(UNION {Held(fds[fd]) : fd \in Used})
      /\ fds' = [fd \in FD |-> NoEntry] /\ effects' = {} /\ nextFD' = nextFD
  BY Zenon DEF CloseTable
<1> HIDE DEF Entry, HostFile, Closed
<1>2. /\ hosts' \in [Files -> HostFile \cup {Closed}]
      /\ Open' = Open \ UNION {Held(fds[fd]) : fd \in Used}
  BY <1>0, <1>1, Closing, Zenon
<1>3. Open' = {}
  <2>1. ASSUME NEW f \in Open PROVE f \in UNION {Held(fds[fd]) : fd \in Used}
    <3>1. PICK fd \in FD : f \in HeldBy[fd]  BY <1>0, <2>1, Zenon DEF Parts
    <3>2. fds[fd] # NoEntry /\ f \in Held(fds[fd])  BY <3>1, Zenon DEF HeldBy
    <3> QED  BY <3>2, Zenon DEF Used
  <2> QED  BY <1>2, <2>1, Zenon
<1>4. EffectsGranted' /\ effects' \in SUBSET (Mounts \X {"create", "truncate", "write", "mutate"})
  BY <1>1, NoEffects, Zenon
<1>5. TypeOK'  BY <1>0, <1>1, <1>2, <1>4, Zenon DEF TypeOK
<1>6. Used' = {}  BY <1>1, Zenon DEF Used
<1>7. \A fd \in FD : HeldBy'[fd] = {}  BY <1>1, Zenon DEF HeldBy
<1>8. Parts(HeldBy, Open)'  BY <1>3, <1>7, Zenon DEF Parts
<1>9. EntriesOK'  BY <1>1, Zenon DEF EntriesOK
<1>10. TableBounded'  BY <1>6, FS_EmptySet, FdAssumption DEF TableBounded
<1>11. Shrinks  BY <1>1, Zenon DEF Shrinks
<1> QED  BY <1>4, <1>5, <1>8, <1>9, <1>10, <1>11, Zenon DEF IInv

-----------------------------------------------------------------------------
\* makeFS.
LEMMA InitInv == Init => IInv
<1> SUFFICES ASSUME Init PROVE IInv
  BY Zenon
<1> DEFINE N == Len(MountSeq)
<1>1. PICK of \in [1..N -> Files] :
        /\ \A i, j \in 1..N : of[i] = of[j] => i = j
        /\ fds = [fd \in FD |->
                    IF fd < Std THEN StdEntry(fd)
                    ELSE IF fd < Std + N THEN Preopen(of[fd - Std + 1], MountSeq[fd - Std + 1])
                         ELSE NoEntry]
        /\ nextFD = Std + N
        /\ hosts = [f \in Files |->
                      IF \E i \in 1..N : of[i] = f
                      THEN [dir |-> TRUE, mode |-> "r",
                            mount |-> MountSeq[CHOOSE i \in 1..N : of[i] = f]]
                      ELSE Closed]
        /\ effects = {}
  BY Zenon DEF Init
<1>2. N \in Nat /\ Std \in Nat /\ MaxFDs \in Nat /\ Width \in Nat /\ Std + N <= MaxFDs /\ MaxFDs < Width
      /\ \A i \in 1..N : MountSeq[i] \in Mounts
  BY FdAssumption
<1> HIDE DEF N
<1>3. ASSUME NEW fd \in FD, fd < Std
      PROVE  fds[fd] = StdEntry(fd) /\ StdEntry(fd) \in Entry /\ Held(StdEntry(fd)) = {}
  <2>1. fds[fd] = StdEntry(fd)  BY <1>1, <1>3, Zenon
  <2>2. StdEntry(fd).rights \in SUBSET Rights  BY Zenon DEF StdEntry, Rights
  <2>3. StdEntry(fd) \in Entry  BY <2>2, Zenon DEF StdEntry, Entry
  <2>4. Held(StdEntry(fd)) = {}  BY FdAssumption, Zenon DEF Held, StdEntry
  <2> QED  BY <2>1, <2>3, <2>4, Zenon
<1>4. ASSUME NEW fd \in FD, ~(fd < Std), fd < Std + N
      PROVE  /\ fds[fd] = Preopen(of[fd - Std + 1], MountSeq[fd - Std + 1])
             /\ fd - Std + 1 \in 1..N
             /\ fds[fd] \in Entry /\ Held(fds[fd]) = {of[fd - Std + 1]}
  <2>1. fds[fd] = Preopen(of[fd - Std + 1], MountSeq[fd - Std + 1])  BY <1>1, <1>4, Zenon
  <2>2. fd - Std + 1 \in 1..N  BY <1>2, <1>4 DEF FD
  <2>3. of[fd - Std + 1] \in Files /\ MountSeq[fd - Std + 1] \in Mounts  BY <1>1, <1>2, <2>2, Zenon
  <2>4. \A m : MountRights(m) \in SUBSET Rights /\ Inherited(m) \in SUBSET Rights
    BY Zenon DEF MountRights, Inherited, If, Rights, DirectoryReadRights, FileReadRights,
           FileWriteRights, DirectoryMutationRights
  <2>5. fds[fd] \in Entry  BY <2>1, <2>3, <2>4 DEF Preopen, Entry
  <2>6. Held(fds[fd]) = {of[fd - Std + 1]}  BY <2>1, <2>3, FdAssumption DEF Preopen, Held
  <2> QED  BY <2>1, <2>2, <2>5, <2>6, Zenon
<1>5. \A fd \in FD : ~(fd < Std + N) => fds[fd] = NoEntry  BY <1>1, <1>2 DEF FD
<1>6. \A f \in Files : hosts[f] = IF \E i \in 1..N : of[i] = f
                                  THEN [dir |-> TRUE, mode |-> "r",
                                        mount |-> MountSeq[CHOOSE i \in 1..N : of[i] = f]]
                                  ELSE Closed
  BY <1>1, Zenon
<1>7. \A f \in Files : (\E i \in 1..N : of[i] = f) =>
        hosts[f] \in HostFile /\ hosts[f].dir /\ hosts[f] # Closed
  <2> SUFFICES ASSUME NEW f \in Files, \E i \in 1..N : of[i] = f
               PROVE  hosts[f] \in HostFile /\ hosts[f].dir /\ hosts[f] # Closed
    BY Zenon
  <2> DEFINE k == CHOOSE i \in 1..N : of[i] = f
  <2>1. MountSeq[k] \in Mounts  BY <1>2, Zenon
  <2>2. hosts[f] = [dir |-> TRUE, mode |-> "r", mount |-> MountSeq[k]]  BY <1>6, Zenon
  <2> HIDE DEF k
  <2> QED  BY <2>1, <2>2 DEF HostFile, Closed
<1>8. \A f \in Files : ~(\E i \in 1..N : of[i] = f) => hosts[f] = Closed  BY <1>6, Zenon
<1>9. TypeOK
  <2>1. \A fd \in FD : fds[fd] \in Entry \cup {NoEntry}  BY <1>3, <1>4, <1>5, Zenon
  <2>2. fds \in [FD -> Entry \cup {NoEntry}]
    <3>1. fds = [fd \in FD |-> fds[fd]]  BY <1>1, Zenon
    <3> QED  BY <2>1, <3>1, Zenon
  <2>3. hosts \in [Files -> HostFile \cup {Closed}]
    <3>1. hosts = [f \in Files |-> hosts[f]]  BY <1>1, Zenon
    <3> QED  BY <1>7, <1>8, <3>1
  <2>4. nextFD \in FD  BY <1>1, <1>2 DEF FD
  <2> QED  BY <1>1, <2>2, <2>3, <2>4, Zenon DEF TypeOK
<1>10. \A f \in Files : f \in Open <=> \E i \in 1..N : of[i] = f  BY <1>7, <1>8, Zenon DEF Open
<1>11. \A fd \in FD : fd < Std => HeldBy[fd] = {}  BY <1>3, Zenon DEF HeldBy
<1>12. \A fd \in FD : ~(fd < Std) /\ fd < Std + N =>
         fd - Std + 1 \in 1..N /\ HeldBy[fd] = {of[fd - Std + 1]}
  BY <1>4, NoEntryAssumption, Zenon DEF HeldBy
<1>13. \A fd \in FD : ~(fd < Std + N) => HeldBy[fd] = {}  BY <1>5, Zenon DEF HeldBy
<1>14. Parts(HeldBy, Open)
  <2>1. \A fd \in FD : HeldBy[fd] \subseteq Open  BY <1>1, <1>10, <1>11, <1>12, <1>13
  <2>2. ASSUME NEW f \in Open PROVE \E fd \in FD : f \in HeldBy[fd]
    <3>1. PICK i \in 1..N : of[i] = f  BY <1>10, <2>2, Zenon DEF Open
    <3>2. /\ Std + i - 1 \in FD /\ ~(Std + i - 1 < Std) /\ Std + i - 1 < Std + N
          /\ (Std + i - 1) - Std + 1 = i
      BY <1>2 DEF FD
    <3> QED  BY <1>12, <3>1, <3>2, Zenon
  <2>3. ASSUME NEW a \in FD, NEW b \in FD, a # b PROVE HeldBy[a] \cap HeldBy[b] = {}
    <3>1. CASE a < Std \/ ~(a < Std + N)  BY <1>11, <1>13, <3>1, Zenon
    <3>2. CASE b < Std \/ ~(b < Std + N)  BY <1>11, <1>13, <3>2, Zenon
    <3>3. CASE ~(a < Std) /\ a < Std + N /\ ~(b < Std) /\ b < Std + N
      <4>1. a - Std + 1 # b - Std + 1  BY <1>2, <2>3 DEF FD
      <4>2. of[a - Std + 1] # of[b - Std + 1]  BY <1>1, <1>12, <3>3, <4>1, Zenon
      <4> QED  BY <1>12, <3>3, <4>2
    <3> QED  BY <3>1, <3>2, <3>3, Zenon
  <2> QED  BY <2>1, <2>2, <2>3, Zenon DEF Parts
<1>15. EntriesOK
  <2> SUFFICES ASSUME NEW fd \in FD, fds[fd] # NoEntry PROVE EntryOK(fds[fd], hosts)
    BY Zenon DEF EntriesOK
  <2>1. CASE fd < Std
    <3>1. fds[fd] = StdEntry(fd)  BY <1>3, <2>1, Zenon
    <3>2. fds[fd].file = NoFile /\ fds[fd].mount = NoMount  BY <3>1 DEF StdEntry
    <3> QED  BY <3>2, Zenon DEF EntryOK
  <2>2. CASE ~(fd < Std)
    <3>1. fd < Std + N  BY <1>5, Zenon
    <3> DEFINE i == fd - Std + 1
    <3>2. fds[fd] = Preopen(of[i], MountSeq[i]) /\ i \in 1..N  BY <1>4, <2>2, <3>1, Zenon
    <3> HIDE DEF i
    <3>3. of[i] \in Files /\ MountSeq[i] \in Mounts  BY <1>1, <1>2, <3>2, Zenon
    <3>4. /\ fds[fd].file = of[i] /\ fds[fd].iter = NoFile /\ fds[fd].mount = MountSeq[i]
          /\ fds[fd].rights = MountRights(MountSeq[i]) /\ fds[fd].inheriting = Inherited(MountSeq[i])
      BY <3>2 DEF Preopen
    <3>5. \A m : /\ MountRights(m) \subseteq Inherited(m) /\ "fd_read" \notin MountRights(m)
                 /\ MountRights(m) \cap FileWriteRights = {}
      BY Zenon DEF MountRights, Inherited, If, DirectoryReadRights, FileReadRights,
             FileWriteRights, DirectoryMutationRights
    <3>6. of[i] # NoFile /\ MountSeq[i] # NoMount  BY <3>3, FdAssumption, Zenon
    <3> QED  BY <3>4, <3>5, <3>6, Zenon DEF EntryOK
  <2> QED  BY <2>1, <2>2, Zenon
<1>16. TableBounded
  <2> DEFINE top == Std + N - 1
  <2>1. Used \subseteq 0..top  BY <1>2, <1>5 DEF Used, FD
  <2>2. 0 \in Int /\ top \in Int /\ (IF 0 > top THEN 0 ELSE top - 0 + 1) = Std + N  BY <1>2
  <2> HIDE DEF top
  <2>3. IsFiniteSet(0..top) /\ Cardinality(0..top) = Std + N  BY <2>2, FS_Interval, Zenon
  <2>4. Cardinality(Used) <= Std + N
    <3> DEFINE I == 0..top
    <3>1. Used \in SUBSET I /\ IsFiniteSet(I) /\ Cardinality(I) = Std + N  BY <2>1, <2>3, Zenon
    <3> HIDE DEF I
    <3>2. Cardinality(Used) <= Cardinality(I)  BY <3>1, FS_Subset, Zenon
    <3> QED  BY <3>1, <3>2, Zenon
  <2> QED  BY <1>2, <2>4, UsedFinite DEF TableBounded
<1>17. EffectsGranted  BY <1>1, Zenon DEF EffectsGranted
<1> QED  BY <1>9, <1>14, <1>15, <1>16, <1>17, Zenon DEF IInv

LEMMA StepInv ==
  ASSUME IInv, Next
  PROVE  IInv' /\ Shrinks
<1>1. CASE \E fd \in FD, q \in Request, f \in Files : PathOpen(fd, q, f)
  BY <1>1, PathOpenInv, Zenon
<1>2. CASE \E fd \in FD, q \in Request : PathOpenFails(fd, q)  BY <1>2, PathOpenFailsInv, Zenon
<1>3. CASE \E fd \in FD : FdClose(fd)  BY <1>3, FdCloseInv, Zenon
<1>4. CASE \E fd \in FD : FdReaddirFails(fd)  BY <1>4, FdReaddirFailsInv, Zenon
<1>5. CASE \E fd \in FD : FdChange(fd)  BY <1>5, FdChangeInv
<1>6. CASE \E fd \in FD : PathMutate(fd)  BY <1>6, PathMutateInv
<1>7. CASE \E fd, to \in FD : FdRenumber(fd, to)  BY <1>7, FdRenumberInv, Zenon
<1>8. CASE \E fd \in FD : \E base, inheriting \in Asked : FdFdstatSetRights(fd, base, inheriting)
  BY <1>8, FdFdstatSetRightsInv, Zenon
<1>9. CASE \E fd \in FD, f \in Files : FdReaddirReopens(fd, f)  BY <1>9, FdReaddirReopensInv, Zenon
<1>10. CASE CloseTable  BY <1>10, CloseTableInv, Zenon
<1>11. CASE \E fd \in FD, q \in Request, f \in Files : PathOpenRejects(fd, q, f)
  BY <1>11, PathOpenRejectsInv, Zenon
<1> QED  BY <1>1, <1>2, <1>3, <1>4, <1>5, <1>6, <1>7, <1>8, <1>9, <1>10, <1>11, Zenon DEF Next

\* The inductive invariant: the open host files are exactly what the numbers of
\* the table hold, no two of them the same, and every entry is as path_open,
\* fd_renumber, fd_fdstat_set_rights and fd_readdir should leave it.
THEOREM TableInvariant == Spec => []IInv
<1>1. IInv /\ [Next]_vars => IInv'
  <2> SUFFICES ASSUME IInv, [Next]_vars PROVE IInv'
    BY Zenon
  <2>1. CASE Next  BY <2>1, StepInv, Zenon
  <2>2. CASE UNCHANGED vars
    <3>1. EffectsGranted' /\ UNCHANGED <<fds, nextFD, hosts>>
          /\ effects' \in SUBSET (Mounts \X {"create", "truncate", "write", "mutate"})
      BY <2>2, Zenon DEF vars, IInv, EffectsGranted, TypeOK
    <3> QED  BY <3>1, TableKept, Zenon
  <2> QED  BY <2>1, <2>2, Zenon
<1> QED  BY InitInv, <1>1, PTL DEF Spec

\* The descriptor table never holds more than maxFDs entries (alloc, and the
\* check pathOpen makes first), for any limit.
THEOREM BoundedTable == Spec => []TableBounded
<1>1. IInv => TableBounded  BY Zenon DEF IInv
<1> QED  BY <1>1, TableInvariant, PTL

\* Whatever path_open, fd_renumber and fd_fdstat_set_rights do, no descriptor
\* has or passes on a right its mount was not configured with.
THEOREM MountRightsKept == Spec => []RightsWithinMount
<1>1. IInv => RightsWithinMount  BY Zenon DEF IInv, EntriesOK, EntryOK, RightsWithinMount, Used
<1> QED  BY <1>1, TableInvariant, PTL

\* A right to read or change data comes with a host file opened for it.
THEOREM RightsMatchMode == Spec => []ModeMatchesRights
<1>1. IInv => ModeMatchesRights  BY Zenon DEF IInv, EntriesOK, EntryOK, ModeMatchesRights, Used
<1> QED  BY <1>1, TableInvariant, PTL

\* The host is changed only as the mount's configuration allows.
THEOREM OnlyGrantedEffects == Spec => []EffectsGranted
<1>1. IInv => EffectsGranted  BY Zenon DEF IInv
<1> QED  BY <1>1, TableInvariant, PTL

\* No host file leaks and none is shared: each open one is referred to from one
\* place, and what the table refers to is open (pathOpen's error paths, alloc,
\* fdRenumber, positionDirectory, closeFS).
THEOREM FilesOwned == Spec => []HostFilesOwned
<1>1. IInv => HostFilesOwned
  <2> SUFFICES ASSUME IInv PROVE HostFilesOwned
    BY Zenon
  <2>0. TypeOK /\ Parts(HeldBy, Open) /\ EntriesOK  BY Zenon DEF IInv
  <2>1. ASSUME NEW fd \in Used PROVE Held(fds[fd]) \subseteq Open
    <3>1. fd \in FD /\ fds[fd] # NoEntry  BY Zenon DEF Used
    <3> QED  BY <2>0, <3>1, EntryThere, Zenon DEF Parts
  <2>2. ASSUME NEW f \in Open PROVE Cardinality(Owners(f)) = 1
    <3>1. PICK fd \in FD : f \in HeldBy[fd]  BY <2>0, <2>2, Zenon DEF Parts
    <3>2. fds[fd] # NoEntry /\ fd \in Used /\ f \in Files  BY <2>2, <3>1, Zenon DEF HeldBy, Used, Open
    <3>3. fds[fd] \in Entry /\ HeldBy[fd] = Held(fds[fd])  BY <2>0, <3>2, EntryThere, Zenon
    <3>4. ASSUME NEW g \in Used, fds[g].file = f \/ fds[g].iter = f PROVE g = fd
      <4>1. g \in FD /\ fds[g] # NoEntry  BY Zenon DEF Used
      <4>2. HeldBy[g] = Held(fds[g])  BY <2>0, <4>1, EntryThere, Zenon
      <4>3. f \in HeldBy[g]  BY <3>2, <3>4, <4>2, Zenon DEF Held
      <4> QED  BY <2>0, <3>1, <4>1, <4>3, Zenon DEF Parts
    <3>5. fds[fd].file = f \/ fds[fd].iter = f  BY <3>1, <3>3, Zenon DEF Held
    <3>6. ~(fds[fd].file = f /\ fds[fd].iter = f)
      <4>1. EntryOK(fds[fd], hosts) /\ f # NoFile  BY <2>0, <3>2, FdAssumption, Zenon DEF EntriesOK
      <4> QED  BY <4>1, Zenon DEF EntryOK
    <3>7. CASE fds[fd].file = f
      <4>1. {g \in Used : fds[g].file = f} = {fd} /\ {g \in Used : fds[g].iter = f} = {}
        BY <3>2, <3>4, <3>6, <3>7, Zenon
      <4>2. Owners(f) = {<<fd, "file">>}  BY <4>1 DEF Owners
      <4> QED  BY <4>2, FS_Singleton, Zenon
    <3>8. CASE fds[fd].iter = f
      <4>1. {g \in Used : fds[g].iter = f} = {fd} /\ {g \in Used : fds[g].file = f} = {}
        BY <3>2, <3>4, <3>6, <3>8, Zenon
      <4>2. Owners(f) = {<<fd, "iter">>}  BY <4>1 DEF Owners
      <4> QED  BY <4>2, FS_Singleton, Zenon
    <3> QED  BY <3>5, <3>7, <3>8, Zenon
  <2> QED  BY <2>1, <2>2, Zenon DEF HostFilesOwned
<1> QED  BY <1>1, TableInvariant, PTL

\* The rights attached to an open file only shrink, whatever number
\* fd_renumber moves it to.
THEOREM RightsShrink == Spec => RightsOnlyShrink
<1>1. IInv /\ [Next]_vars => [Shrinks]_vars  BY StepInv, Zenon
<1>2. Spec => [][Shrinks]_vars  BY <1>1, TableInvariant, PTL DEF Spec
<1> QED  BY <1>2, Zenon DEF RightsOnlyShrink, Shrinks

\* A full table opens, creates and truncates nothing: pathOpen looks at the
\* limit before O_CREAT or O_TRUNC reaches the host.
THEOREM FullTableOpensNothing == Spec => FullOpensNothing
<1> DEFINE Quiet == Cardinality(Used) >= MaxFDs => effects' \subseteq Mounts \X {"write", "mutate"}
<1>1. IInv /\ [Next]_vars => [Quiet]_vars
  <2> SUFFICES ASSUME IInv, Next, Cardinality(Used) >= MaxFDs
               PROVE  effects' \subseteq Mounts \X {"write", "mutate"}
    BY Zenon
  <2>0. ~(Cardinality(Used) < MaxFDs)  BY UsedFinite, FdAssumption
  <2>1. CASE \E fd \in FD, q \in Request, f \in Files : PathOpen(fd, q, f)
    BY <2>0, <2>1, Zenon DEF PathOpen, PathOpenAllowed
  <2>2. CASE \E fd \in FD, q \in Request : PathOpenFails(fd, q)
    BY <2>0, <2>2, Zenon DEF PathOpenFails, PathOpenAllowed
  <2>6. CASE \E fd \in FD, q \in Request, f \in Files : PathOpenRejects(fd, q, f)
    BY <2>0, <2>6, Zenon DEF PathOpenRejects, PathOpenAllowed
  <2>3. CASE effects' = {}  BY <2>3, Zenon
  <2>4. CASE \E fd \in FD : FdChange(fd)
    <3>1. PICK fd \in FD : FdChange(fd)  BY <2>4, Zenon
    <3>2. fds[fd].mount \in Mounts  BY <3>1, Granted, Zenon DEF FdChange, Require
    <3> QED  BY <3>1, <3>2 DEF FdChange
  <2>5. CASE \E fd \in FD : PathMutate(fd)
    <3>1. PICK fd \in FD : PathMutate(fd)  BY <2>5
    <3>2. fds[fd].mount \in Mounts  BY <3>1, Granted, Zenon DEF PathMutate, Resolve
    <3> QED  BY <3>1, <3>2 DEF PathMutate
  <2> QED  BY <2>1, <2>2, <2>3, <2>4, <2>5, <2>6, Zenon
           DEF Next, FdClose, FdReaddirFails, FdRenumber, FdFdstatSetRights, FdReaddirReopens, CloseTable
<1>2. Spec => [][Quiet]_vars  BY <1>1, TableInvariant, PTL DEF Spec
<1> QED  BY <1>2, Zenon DEF FullOpensNothing
==============================================================================
