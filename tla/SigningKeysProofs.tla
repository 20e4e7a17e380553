-------------------------- MODULE SigningKeysProofs --------------------------
(***************************************************************************)
(* Safety of the signing keys (SigningKeys), for any number of names, key  *)
(* pairs, crashes and files placed by hand.                                *)
(***************************************************************************)
EXTENDS SigningKeys, SequenceTheorems, FiniteSetTheorems, TLAPS

-----------------------------------------------------------------------------
(* The order of a directory *)

Before(names, k) == {j \in names : j < k}

\* Where a name comes among names: a later one comes later, and every place is
\* taken.
LEMMA Places ==
    ASSUME NEW S, S \subseteq Nat, IsFiniteSet(S)
    PROVE  /\ Cardinality(S) \in Nat
           /\ \A k \in S : Cardinality(Before(S, k)) \in 0 .. Cardinality(S) - 1
           /\ \A j, k \in S : j < k => Cardinality(Before(S, j)) < Cardinality(Before(S, k))
           /\ \A i \in 1 .. Cardinality(S) : \E k \in S : Cardinality(Before(S, k)) = i - 1
<1>1. Cardinality(S) \in Nat
    BY FS_CardinalityType
<1>2. \A k \in S : IsFiniteSet(Before(S, k)) /\ Cardinality(Before(S, k)) \in Nat
    <2> TAKE k \in S
    <2>1. Before(S, k) \in SUBSET S
        BY DEF Before
    <2>2. IsFiniteSet(Before(S, k))
        BY <2>1, FS_Subset
    <2> QED BY <2>2, FS_CardinalityType
<1>3. \A k \in S : Cardinality(Before(S, k)) \in 0 .. Cardinality(S) - 1
    <2> TAKE k \in S
    <2>1. IsFiniteSet(S \ {k}) /\ Cardinality(S \ {k}) = Cardinality(S) - 1
        BY FS_RemoveElement
    <2>2. Before(S, k) \in SUBSET (S \ {k})
        BY DEF Before
    <2>3. Cardinality(Before(S, k)) <= Cardinality(S) - 1
        BY <2>1, <2>2, FS_Subset
    <2> QED BY <1>1, <1>2, <2>3
<1>4. \A j, k \in S : j < k => Cardinality(Before(S, j)) < Cardinality(Before(S, k))
    <2> SUFFICES ASSUME NEW j \in S, NEW k \in S, j < k
                 PROVE  Cardinality(Before(S, j)) < Cardinality(Before(S, k))
        OBVIOUS
    <2>1. Before(S, j) \union {j} \in SUBSET Before(S, k)
        <3>1. j \in Nat /\ k \in Nat
            OBVIOUS
        <3>2. ASSUME NEW i \in Before(S, j) PROVE i \in S /\ i < k
            BY <3>1 DEF Before
        <3> QED BY <3>2 DEF Before
    <2>2. j \notin Before(S, j)
        BY DEF Before
    <2>3. Cardinality(Before(S, j) \union {j}) = Cardinality(Before(S, j)) + 1
        BY <1>2, <2>2, FS_AddElement
    <2>4. Cardinality(Before(S, j) \union {j}) <= Cardinality(Before(S, k))
        BY <1>2, <2>1, FS_Subset
    <2> QED BY <1>2, <2>3, <2>4
<1>5. \A i \in 1 .. Cardinality(S) : \E k \in S : Cardinality(Before(S, k)) = i - 1
    <2> DEFINE place == [k \in S |-> Cardinality(Before(S, k)) + 1]
               T     == 1 .. Cardinality(S)
    <2>1. place \in [S -> T]
        BY <1>1, <1>3
    <2>2. ASSUME NEW j \in S, NEW k \in S, place[j] = place[k] PROVE j = k
        BY <1>2, <1>4, <2>2
    <2>3. place \in Injection(S, T)
        BY <2>1, <2>2, Zenon DEF Injection, IsInjective
    <2>4. IsFiniteSet(T) /\ Cardinality(T) = Cardinality(S)
        BY <1>1, FS_Interval
    <2>5. place \in Surjection(S, T)
        BY <2>3, <2>4, FS_Injection
    <2>6. ASSUME NEW i \in T PROVE \E k \in S : place[k] = i
        BY <2>5 DEF Surjection
    <2> QED BY <1>2, <2>6
<1> QED BY <1>1, <1>3, <1>4, <1>5

\* readdirSync lists every name once.
LEMMA ByNameListsAll ==
    ASSUME NEW S, S \subseteq Nat, IsFiniteSet(S)
    PROVE  ByName(S) \in Seq(S) /\ ToSet(ByName(S)) = S
<1>1. \A i \in 1 .. Cardinality(S) : \E k \in S : Cardinality({j \in S : j < k}) = i - 1
    BY Places DEF Before
<1>2. \A i \in 1 .. Cardinality(S) :
        ByName(S)[i] \in S /\ Cardinality(Before(S, ByName(S)[i])) = i - 1
    BY <1>1 DEF ByName, Before
<1>3. Cardinality(S) \in Nat /\ DOMAIN ByName(S) = 1 .. Cardinality(S)
    BY Places DEF ByName
<1>4. ByName(S) \in [1 .. Cardinality(S) -> S]
    BY <1>2, <1>3 DEF ByName
<1>5. ByName(S) \in Seq(S)
    BY <1>3, <1>4, SeqDef
<1>6. \A k \in S : Cardinality(Before(S, k)) \in 0 .. Cardinality(S) - 1
    BY Places
<1>7. \A j, k \in S : j < k => Cardinality(Before(S, j)) < Cardinality(Before(S, k))
    BY Places
<1>8. ASSUME NEW k \in S, NEW j \in S, Cardinality(Before(S, j)) = Cardinality(Before(S, k))
      PROVE  j = k
    <2>1. ~(j < k) /\ ~(k < j)
        <3>1. Cardinality(Before(S, k)) \in Nat
            BY <1>3, <1>6
        <3>2. ~(Cardinality(Before(S, k)) < Cardinality(Before(S, k)))
            BY <3>1
        <3> QED BY <1>8, <1>7, <3>2
    <2>2. j \in Nat /\ k \in Nat
        OBVIOUS
    <2> QED BY <2>1, <2>2
<1>9. ASSUME NEW k \in S PROVE \E i \in 1 .. Cardinality(S) : ByName(S)[i] = k
    <2>1. PICK n \in Nat : n = Cardinality(Before(S, k)) /\ n + 1 \in 1 .. Cardinality(S)
        BY <1>3, <1>6
    <2>2. ByName(S)[n + 1] \in S /\ Cardinality(Before(S, ByName(S)[n + 1])) = n
        BY <1>2, <2>1
    <2>3. ByName(S)[n + 1] = k
        BY <1>8, <2>1, <2>2
    <2> QED BY <2>1, <2>3
<1> QED BY <1>2, <1>3, <1>5, <1>9 DEF ToSet

LEMMA InsertedLists ==
    ASSUME NEW seq \in Seq(Kids), NEW k \in Kids
    PROVE  Inserted(seq, k) \in Seq(Kids) /\ ToSet(Inserted(seq, k)) = ToSet(seq) \union {k}
<1>1. CASE k \in ToSet(seq)
    BY <1>1 DEF Inserted
<1>2. CASE k \notin ToSet(seq)
    <2>1. Inserted(seq, k) = Append(seq, k)
        BY <1>2 DEF Inserted
    <2>2. /\ Append(seq, k) \in Seq(Kids) /\ Len(seq) \in Nat
          /\ DOMAIN Append(seq, k) = 1 .. Len(seq) + 1 /\ DOMAIN seq = 1 .. Len(seq)
          /\ Append(seq, k)[Len(seq) + 1] = k
          /\ \A j \in 1 .. Len(seq) : Append(seq, k)[j] = seq[j]
        BY AppendProperties, LenProperties
    <2>3. ToSet(Append(seq, k)) = ToSet(seq) \union {k}
        BY <2>2 DEF ToSet
    <2> QED BY <2>1, <2>2, <2>3
<1> QED BY <1>1, <1>2

LEMMA HeadAndTail ==
    ASSUME NEW seq \in Seq(Kids), seq # <<>>
    PROVE  /\ Tail(seq) \in Seq(Kids) /\ Head(seq) \in Kids
           /\ ToSet(seq) = {Head(seq)} \union ToSet(Tail(seq))
<1>1. /\ Len(seq) \in Nat \ {0} /\ DOMAIN seq = 1 .. Len(seq)
      /\ Tail(seq) \in Seq(Kids) /\ Len(Tail(seq)) = Len(seq) - 1
      /\ DOMAIN Tail(seq) = 1 .. Len(seq) - 1
      /\ \A j \in 1 .. Len(seq) - 1 : Tail(seq)[j] = seq[j + 1]
      /\ Head(seq) = seq[1] /\ Head(seq) \in Kids
    BY HeadTailProperties, EmptySeq, LenProperties
<1>2. ASSUME NEW x \in ToSet(seq) PROVE x = Head(seq) \/ x \in ToSet(Tail(seq))
    <2>1. PICK j \in 1 .. Len(seq) : seq[j] = x
        BY <1>1 DEF ToSet
    <2>2. CASE j = 1
        BY <1>1, <2>1, <2>2
    <2>3. CASE j # 1
        <3>1. j - 1 \in 1 .. Len(seq) - 1 /\ Tail(seq)[j - 1] = x
            BY <1>1, <2>1, <2>3
        <3> QED BY <1>1, <3>1 DEF ToSet
    <2> QED BY <2>2, <2>3
<1>3. ASSUME NEW x \in ToSet(Tail(seq)) PROVE x \in ToSet(seq)
    <2>1. PICK j \in 1 .. Len(seq) - 1 : Tail(seq)[j] = x
        BY <1>1 DEF ToSet
    <2>2. j + 1 \in 1 .. Len(seq) /\ seq[j + 1] = x
        BY <1>1, <2>1
    <2> QED BY <1>1, <2>2 DEF ToSet
<1>4. Head(seq) \in ToSet(seq)
    BY <1>1 DEF ToSet
<1> QED BY <1>1, <1>2, <1>3, <1>4

LEMMA WrittenFirst ==
    ASSUME NEW seq \in Seq(Kids), NEW k \in Kids
    PROVE  <<k>> \o seq \in Seq(Kids) /\ ToSet(<<k>> \o seq) = {k} \union ToSet(seq)
<1>1. <<k>> \in Seq(Kids) /\ Len(<<k>>) = 1 /\ <<k>>[1] = k
    OBVIOUS
<1>2. /\ <<k>> \o seq \in Seq(Kids) /\ Len(seq) \in Nat /\ DOMAIN seq = 1 .. Len(seq)
      /\ DOMAIN (<<k>> \o seq) = 1 .. Len(seq) + 1
      /\ (<<k>> \o seq)[1] = k
      /\ \A j \in 2 .. Len(seq) + 1 : (<<k>> \o seq)[j] = seq[j - 1]
    BY <1>1, ConcatProperties, LenProperties
<1>3. ASSUME NEW x \in ToSet(seq) PROVE x \in ToSet(<<k>> \o seq)
    <2>1. PICK j \in 1 .. Len(seq) : seq[j] = x
        BY <1>2 DEF ToSet
    <2>2. j + 1 \in 1 .. Len(seq) + 1 /\ (<<k>> \o seq)[j + 1] = x
        BY <1>2, <2>1
    <2> QED BY <1>2, <2>2 DEF ToSet
<1>4. ASSUME NEW x \in ToSet(<<k>> \o seq) PROVE x \in {k} \union ToSet(seq)
    <2>1. PICK j \in 1 .. Len(seq) + 1 : (<<k>> \o seq)[j] = x
        BY <1>2 DEF ToSet
    <2>2. CASE j = 1
        BY <1>2, <2>1, <2>2
    <2>3. CASE j # 1
        <3>1. j - 1 \in 1 .. Len(seq) /\ seq[j - 1] = x
            BY <1>2, <2>1, <2>3
        <3> QED BY <1>2, <3>1 DEF ToSet
    <2> QED BY <2>2, <2>3
<1>5. k \in ToSet(<<k>> \o seq)
    BY <1>2 DEF ToSet
<1> QED BY <1>2, <1>3, <1>4, <1>5

-----------------------------------------------------------------------------
(* The inductive invariant *)

Listed == ToSet(order)

\* Calls write, and name, keys of the Map.
ShapeInv ==
    /\ ToSet(todo) \subseteq Listed
    /\ activeKid # NoKid => activeKid \in Listed
    /\ pc = "revoke" => target \in Listed /\ keys[target].status = "revoked"

\* Pair p is to be found under k, in the Map or in the directory.
Holds(k, p) ==
    \/ keys[k] # NoKey /\ keys[k].pair = p
    \/ disk[k] \in Record /\ disk[k].pair = p

\* No pair is to be found under two names, and none that was not generated.
OwnerInv ==
    /\ \A k \in Kids, p \in Pairs : Holds(k, p) => p <= pairs
    /\ \A j, k \in Kids, p \in Pairs : Holds(j, p) /\ Holds(k, p) => j = k
    /\ \A p \in revoked : p <= pairs

\* What the running call need not write any more is in the directory.
SyncInv == \A k \in Listed : k \in ToSet(todo) \/ disk[k] = keys[k]

\* Nothing that could be loaded or used revives a revoked pair.
RevokedInv ==
    /\ \A k \in Listed : keys[k].pair \in revoked => keys[k].status # "active"
    /\ \A k \in Kids : disk[k] \in Record /\ disk[k].pair \in revoked
                         => disk[k].status # "active"

\* A pair that signed is kept under its name, in the directory and in the Map.
SignedInv ==
    \A s \in signed : s[1] \notin reused =>
        /\ disk[s[1]] # Torn => disk[s[1]] \in Record /\ disk[s[1]].pair = s[2]
        /\ pc # "down" => s[1] \in Listed /\ keys[s[1]].pair = s[2]

\* The key of the last rotate is never lost from the directory.
CurrentInv ==
    current # NoKid =>
        /\ disk[current] # NoFile
        /\ pc # "down" => current \in Listed

\* Without a crash or a file placed by hand there is one active key.
SingleInv ==
    crashes = 0 /\ placed = {} =>
        /\ pc # "down" =>
            /\ \A k \in Listed : keys[k].status = "active" => k = activeKid
            /\ \A k \in Kids \ Listed : disk[k] = NoFile
        /\ pc = "down" => \A j, k \in Kids :
            /\ disk[j] \in Record /\ disk[j].status = "active"
            /\ disk[k] \in Record /\ disk[k].status = "active"
            => j = k

KeyInv ==
    TypeOK /\ ShapeInv /\ OwnerInv /\ SyncInv /\ RevokedInv /\ SignedInv
    /\ CurrentInv /\ SingleInv

-----------------------------------------------------------------------------
(* What the helpers return *)

LEMMA Records ==
    /\ \A r \in Record : /\ r.pair \in Pairs /\ r.status \in KeyStatus
                         /\ r \notin {NoFile, Torn, NoKey}
    /\ \A r \in Record, st \in KeyStatus :
            /\ [r EXCEPT !.status = st] \in Record
            /\ [r EXCEPT !.status = st].pair = r.pair
            /\ [r EXCEPT !.status = st].status = st
<1>1. \A r \in Record : r \notin {NoFile, Torn, NoKey}
    BY KeyMarkerAssumption
<1>2. \A r \in Record : r.pair \in Pairs /\ r.status \in KeyStatus
    BY DEF Record
<1>3. ASSUME NEW r \in Record, NEW st \in KeyStatus
      PROVE  /\ [r EXCEPT !.status = st] \in Record
             /\ [r EXCEPT !.status = st].pair = r.pair
             /\ [r EXCEPT !.status = st].status = st
    BY DEF Record
<1> QED BY <1>1, <1>2, <1>3

LEMMA GeneratedIs ==
    ASSUME TypeOK, pairs < MaxPairs
    PROVE  /\ Generated \in Record
           /\ Generated.pair = pairs + 1 /\ Generated.status = "active"
           /\ pairs + 1 \in 1 .. MaxPairs
<1>1. pairs + 1 \in 1 .. MaxPairs
    BY KeyBoundAssumption DEF TypeOK
<1> QED BY <1>1 DEF Generated, Record, Pairs, KeyStatus

\* A non-empty set of names has a last one.
LEMMA Latest ==
    ASSUME NEW S, S \subseteq Nat, IsFiniteSet(S), S # {}
    PROVE  \E k \in S : \A j \in S : j <= k
<1>1. /\ Cardinality(S) \in Nat
      /\ \A k \in S : Cardinality(Before(S, k)) \in 0 .. Cardinality(S) - 1
      /\ \A j, k \in S : j < k => Cardinality(Before(S, j)) < Cardinality(Before(S, k))
      /\ \A i \in 1 .. Cardinality(S) : \E k \in S : Cardinality(Before(S, k)) = i - 1
    BY Places
<1>2. Cardinality(S) # 0
    BY FS_EmptySet
<1>3. PICK k \in S : Cardinality(Before(S, k)) = Cardinality(S) - 1
    BY <1>1, <1>2
<1>4. ASSUME NEW j \in S PROVE j <= k
    <2>1. ~ k < j
        BY <1>1, <1>3
    <2>2. j \in Nat /\ k \in Nat
        OBVIOUS
    <2> QED BY <2>1, <2>2
<1> QED BY <1>4

LEMMA LoadedIs ==
    ASSUME TypeOK, \A k \in Kids : disk[k] # Torn
    PROVE  /\ Loaded \in [Kids -> Record \union {NoKey}]
           /\ \A k \in Files : disk[k] \in Record /\ Loaded[k] = disk[k]
           /\ \A k \in Kids \ Files : Loaded[k] = NoKey /\ disk[k] = NoFile
           /\ Files = {k \in Kids : Loaded[k] # NoKey}
           /\ ByName(Files) \in Seq(Kids) /\ ToSet(ByName(Files)) = Files
<1>1. \A k \in Files : disk[k] \in Record /\ Loaded[k] = disk[k]
    BY DEF TypeOK, Files, Loaded
<1>2. \A k \in Kids \ Files : Loaded[k] = NoKey /\ disk[k] = NoFile
    BY DEF Files, Loaded
<1>3. Loaded \in [Kids -> Record \union {NoKey}]
    BY <1>1, <1>2 DEF Loaded
<1>4. Files \subseteq Nat /\ IsFiniteSet(Files) /\ Files \subseteq Kids
    BY KidAssumption, FS_Subset DEF Files
<1>5. ByName(Files) \in Seq(Files) /\ ToSet(ByName(Files)) = Files
    BY <1>4, ByNameListsAll
<1>6. ByName(Files) \in Seq(Kids)
    <2>1. PICK n \in Nat : ByName(Files) \in [1 .. n -> Files]
        BY <1>5, SeqDef
    <2>2. ByName(Files) \in [1 .. n -> Kids]
        BY <1>4, <2>1
    <2> QED BY <2>2, SeqDef
<1> QED BY <1>1, <1>2, <1>3, <1>5, <1>6, Records DEF Files

LEMMA LoadedActiveIs ==
    ASSUME TypeOK, \A k \in Kids : disk[k] # Torn
    PROVE  /\ LoadedActive = NoKid =>
                /\ ~HasActive(Loaded, LoadedActive)
                /\ \A k \in Files : disk[k].status # "active"
           /\ LoadedActive # NoKid =>
                /\ HasActive(Loaded, LoadedActive)
                /\ LoadedActive \in Files /\ disk[LoadedActive].status = "active"
<1> DEFINE active == {k \in Files : disk[k].status = "active"}
<1>1. active \subseteq Nat /\ IsFiniteSet(active) /\ active \subseteq Kids
    BY KidAssumption, FS_Subset DEF Files
<1>2. CASE active = {}
    BY <1>2 DEF LoadedActive, HasActive
<1>3. CASE active # {}
    <2>1. \E k \in active : \A j \in active : j <= k
        BY <1>1, <1>3, Latest
    <2>2. LoadedActive \in active
        BY <1>3, <2>1 DEF LoadedActive
    <2>3. LoadedActive # NoKid
        BY <1>1, <2>2, KidAssumption
    <2>4. Loaded[LoadedActive] = disk[LoadedActive]
        BY <2>2, LoadedIs
    <2> QED BY <2>2, <2>3, <2>4 DEF HasActive
<1> QED BY <1>2, <1>3

LEMMA DemotedIs ==
    ASSUME TypeOK, ShapeInv
    PROVE  /\ Demoted(keys, activeKid) \in [Kids -> Record \union {NoKey}]
           /\ \A k \in Kids \ Listed : Demoted(keys, activeKid)[k] = NoKey
           /\ \A k \in Listed :
                /\ Demoted(keys, activeKid)[k] \in Record
                /\ Demoted(keys, activeKid)[k].pair = keys[k].pair
                /\ k # activeKid => Demoted(keys, activeKid)[k] = keys[k]
                /\ k = activeKid => Demoted(keys, activeKid)[k].status = "rotated"
<1>1. Listed = {k \in Kids : keys[k] # NoKey} /\ \A k \in Listed : keys[k] \in Record
    BY DEF TypeOK, Listed
<1>2. CASE activeKid = NoKid
    <2>1. NoKid \notin Listed
        BY <1>1, KidAssumption
    <2> QED BY <1>1, <1>2, <2>1 DEF Demoted, TypeOK
<1>3. CASE activeKid # NoKid
    <2>1. activeKid \in Listed /\ activeKid \in Kids /\ keys[activeKid] \in Record
        BY <1>1, <1>3 DEF ShapeInv
    <2>2. "rotated" \in KeyStatus
        BY DEF KeyStatus
    <2>3. Demoted(keys, activeKid) =
            [keys EXCEPT ![activeKid] = [keys[activeKid] EXCEPT !.status = "rotated"]]
        BY <1>3 DEF Demoted
    <2>4. /\ [keys[activeKid] EXCEPT !.status = "rotated"] \in Record
          /\ [keys[activeKid] EXCEPT !.status = "rotated"].pair = keys[activeKid].pair
          /\ [keys[activeKid] EXCEPT !.status = "rotated"].status = "rotated"
        BY <2>1, <2>2, Records
    <2> QED BY <1>1, <2>1, <2>3, <2>4 DEF TypeOK
<1> QED BY <1>2, <1>3

-----------------------------------------------------------------------------
(* Every step keeps the type and the shape *)

LEMMA TypeShapeStep ==
    ASSUME TypeOK, ShapeInv, [Next]_vars
    PROVE  TypeOK' /\ ShapeInv'
<1> USE DEF Listed
<1>0. /\ Listed = {k \in Kids : keys[k] # NoKey} /\ Listed \subseteq Kids
      /\ \A k \in Listed : keys[k] \in Record
      /\ NoKid \notin Kids
      /\ keys \in [Kids -> Record \union {NoKey}]
    BY KidAssumption DEF TypeOK
<1>1. ASSUME NEW k \in Kids, Boot(k) PROVE TypeOK' /\ ShapeInv'
    <2>1. /\ Loaded \in [Kids -> Record \union {NoKey}]
          /\ Files = {j \in Kids : Loaded[j] # NoKey}
          /\ ByName(Files) \in Seq(Kids) /\ ToSet(ByName(Files)) = Files
          /\ <<>> \in Seq(Kids) /\ ToSet(<<>>) = {}
        BY <1>1, LoadedIs DEF Boot, ToSet
    <2>2. CASE BootLoads(k)
        <3>1. LoadedActive \in Files
            BY <1>1, <2>2, LoadedActiveIs DEF Boot, BootLoads
        <3>2. TypeOK'
            BY <1>1, <2>1, <2>2, <3>1 DEF TypeOK, Boot, BootLoads
        <3>3. ShapeInv'
            BY <1>1, <2>1, <2>2, <3>1 DEF ShapeInv, Boot, BootLoads
        <3> QED BY <3>2, <3>3
    <2>3. CASE BootGenerates(k)
        <3>1. Generated \in Record /\ Generated # NoKey /\ pairs + 1 \in 0 .. MaxPairs
            BY <2>3, GeneratedIs, Records DEF BootGenerates
        <3>2. /\ Inserted(ByName(Files), k) \in Seq(Kids)
              /\ ToSet(Inserted(ByName(Files), k)) = Files \union {k}
            BY <2>1, InsertedLists
        <3>3. <<k>> \in Seq(Kids) /\ ToSet(<<k>>) = {k}
            BY DEF ToSet
        <3>4. /\ keys' \in [Kids -> Record \union {NoKey}]
              /\ ToSet(order') = {j \in Kids : keys'[j] # NoKey}
              /\ k \in ToSet(order')
            BY <2>1, <2>3, <3>1, <3>2 DEF BootGenerates
        <3>5. TypeOK'
            BY <1>1, <2>3, <3>1, <3>2, <3>3, <3>4 DEF TypeOK, Boot, BootGenerates
        <3>6. ShapeInv'
            BY <1>1, <2>3, <3>3, <3>4 DEF ShapeInv, Boot, BootGenerates
        <3> QED BY <3>5, <3>6
    <2> QED BY <1>1, <2>2, <2>3 DEF Boot
<1>2. ASSUME NEW k \in Kids, Rotate(k) PROVE TypeOK' /\ ShapeInv'
    <2>1. Generated \in Record /\ Generated # NoKey /\ pairs + 1 \in 0 .. MaxPairs
        BY <1>2, GeneratedIs, Records DEF Rotate
    <2>2. /\ order' \in Seq(Kids) /\ ToSet(order') = Listed \union {k}
          /\ todo' \in Seq(Kids) /\ ToSet(todo') = Listed \union {k}
        <3>1. order' \in Seq(Kids) /\ ToSet(order') = Listed \union {k}
            BY <1>2, InsertedLists DEF Rotate, TypeOK
        <3>2. <<k>> \o order' \in Seq(Kids) /\ ToSet(<<k>> \o order') = Listed \union {k}
            BY <3>1, WrittenFirst
        <3> QED BY <1>2, <3>1, <3>2 DEF Rotate
    <2>3. /\ keys' \in [Kids -> Record \union {NoKey}]
          /\ ToSet(order') = {j \in Kids : keys'[j] # NoKey}
        <3>1. /\ Demoted(keys, activeKid) \in [Kids -> Record \union {NoKey}]
              /\ \A j \in Kids \ Listed : Demoted(keys, activeKid)[j] = NoKey
              /\ \A j \in Listed : Demoted(keys, activeKid)[j] \in Record
            BY DemotedIs
        <3>2. \A r \in Record : r # NoKey
            BY Records
        <3> QED BY <1>0, <1>2, <2>1, <2>2, <3>1, <3>2 DEF Rotate
    <2>4. TypeOK'
        BY <1>2, <2>1, <2>2, <2>3 DEF TypeOK, Rotate
    <2>5. ShapeInv'
        BY <1>2, <2>2 DEF ShapeInv, Rotate
    <2> QED BY <2>4, <2>5
<1>3. ASSUME NEW k \in Kids, Revoke(k) PROVE TypeOK' /\ ShapeInv'
    <2>1. k \in Listed /\ keys[k] \in Record /\ "revoked" \in KeyStatus
        BY <1>0, <1>3 DEF Revoke, KeyStatus
    <2>2. [keys[k] EXCEPT !.status = "revoked"] \in Record
        BY <2>1, Records
    <2>3. keys' = [keys EXCEPT ![k] = [keys[k] EXCEPT !.status = "revoked"]]
        BY <1>3 DEF Revoke
    <2>4. [keys[k] EXCEPT !.status = "revoked"] # NoKey
        BY <2>2, Records
    <2>5. /\ keys' \in [Kids -> Record \union {NoKey}]
          /\ Listed = {j \in Kids : keys'[j] # NoKey}
          /\ keys'[k].status = "revoked"
        <3>1. keys' \in [Kids -> Record \union {NoKey}]
            BY <1>0, <2>2, <2>3
        <3>2. keys'[k] = [keys[k] EXCEPT !.status = "revoked"]
            BY <1>0, <2>3
        <3>3. \A j \in Kids \ {k} : keys'[j] = keys[j]
            BY <1>0, <2>3
        <3>4. keys'[k].status = "revoked"
            BY <2>1, <3>2, Records
        <3> QED BY <1>0, <2>1, <2>4, <3>1, <3>2, <3>3, <3>4
    <2>6. TypeOK'
        BY <1>3, <2>5 DEF TypeOK, Revoke, historyVars
    <2>7. ShapeInv'
        BY <1>3, <2>1, <2>5 DEF ShapeInv, Revoke
    <2> QED BY <2>6, <2>7
<1>4. ASSUME NEW k \in Kids, PlaceFile(k) PROVE TypeOK' /\ ShapeInv'
    <2>1. Generated \in Record /\ pairs + 1 \in 0 .. MaxPairs
        BY <1>4, GeneratedIs DEF PlaceFile
    <2> QED BY <1>4, <2>1 DEF TypeOK, ShapeInv, PlaceFile, memoryVars
<1>5. CASE Truncate
    BY <1>5, HeadAndTail DEF TypeOK, ShapeInv, Truncate, memoryVars, historyVars
<1>6. CASE Fill
    <2>1. /\ Tail(todo) \in Seq(Kids) /\ Head(todo) \in Listed
          /\ ToSet(Tail(todo)) \subseteq ToSet(todo)
        BY <1>6, HeadAndTail DEF Fill, TypeOK, ShapeInv
    <2>2. keys[Head(todo)] \in Record
        BY <1>0, <2>1
    <2>3. TypeOK'
        BY <1>6, <2>1, <2>2 DEF TypeOK, Fill, memoryVars, historyVars
    <2>4. ShapeInv'
        BY <1>6, <2>1 DEF ShapeInv, Fill, memoryVars, historyVars
    <2> QED BY <2>3, <2>4
<1>7. CASE Started
    BY <1>7 DEF TypeOK, ShapeInv, Started, memoryVars, historyVars
<1>8. CASE Sign
    <2>1. activeKid \in Kids /\ keys[activeKid].pair \in Pairs
        BY <1>0, <1>8, Records DEF Sign, HasActive, ShapeInv
    <2> QED BY <1>8, <2>1 DEF TypeOK, ShapeInv, Sign, memoryVars
<1>9. CASE RotateReturns
    BY <1>9 DEF TypeOK, ShapeInv, RotateReturns, memoryVars
<1>10. CASE RevokeReturns
    <2>1. keys[target].pair \in Pairs
        BY <1>0, <1>10, Records DEF RevokeReturns, ShapeInv
    <2> QED BY <1>10, <2>1 DEF TypeOK, ShapeInv, RevokeReturns
<1>11. CASE Stop
    <2>1. crashes' \in 0 .. MaxCrashes
        BY <1>11, KeyBoundAssumption DEF TypeOK, Stop
    <2>2. <<>> \in Seq(Kids) /\ ToSet(<<>>) = {}
        BY DEF ToSet
    <2>3. TypeOK'
        BY <1>11, <2>1, <2>2 DEF TypeOK, Stop
    <2>4. ShapeInv'
        BY <1>11, <2>2 DEF ShapeInv, Stop
    <2> QED BY <2>3, <2>4
<1>12. CASE UNCHANGED vars
    BY <1>12 DEF TypeOK, ShapeInv, vars, memoryVars, historyVars
<1> QED BY <1>1, <1>2, <1>3, <1>4, <1>5, <1>6, <1>7, <1>8, <1>9, <1>10, <1>11, <1>12 DEF Next

-----------------------------------------------------------------------------
(* Where the records of a step come from *)

\* r is a record of k from before, demoted perhaps.
Kept(k, r) ==
    \E old \in Record :
        /\ old = keys[k] \/ old = disk[k]
        /\ r.pair = old.pair
        /\ r.status = "active" => old.status = "active"

LEMMA KeptAsIs ==
    ASSUME NEW k \in Kids
    PROVE  /\ keys[k] \in Record => Kept(k, keys[k])
           /\ disk[k] \in Record => Kept(k, disk[k])
    BY DEF Kept

\* Every record after a step was there before it, under its name, but for the one
\* that the step generates.
LEMMA Origins ==
    ASSUME TypeOK, ShapeInv, Next
    PROVE  \E g \in Kids \union {NoKid} : \A k \in Kids :
             /\ keys'[k] # NoKey =>
                    \/ Kept(k, keys'[k])
                    \/ k = g /\ pairs' = pairs + 1 /\ keys'[k] = Generated
             /\ disk'[k] \in Record =>
                    \/ Kept(k, disk'[k])
                    \/ k = g /\ pairs' = pairs + 1 /\ disk'[k] = Generated
<1> USE DEF Listed
<1>0. /\ Listed = {k \in Kids : keys[k] # NoKey} /\ Listed \subseteq Kids
      /\ \A k \in Listed : keys[k] \in Record
      /\ keys \in [Kids -> Record \union {NoKey}]
      /\ disk \in [Kids -> Record \union {NoFile, Torn}]
    BY DEF TypeOK
<1>k. \A k \in Kids : keys[k] # NoKey => Kept(k, keys[k])
    BY <1>0, KeptAsIs
<1>d. \A k \in Kids : disk[k] \in Record => Kept(k, disk[k])
    BY KeptAsIs
<1> DEFINE Goal(g) == \A k \in Kids :
             /\ keys'[k] # NoKey =>
                    \/ Kept(k, keys'[k])
                    \/ k = g /\ pairs' = pairs + 1 /\ keys'[k] = Generated
             /\ disk'[k] \in Record =>
                    \/ Kept(k, disk'[k])
                    \/ k = g /\ pairs' = pairs + 1 /\ disk'[k] = Generated
<1> HIDE DEF Goal
<1>1. ASSUME NEW k \in Kids, Boot(k) PROVE Goal(k)
    <2>1. /\ \A j \in Files : disk[j] \in Record /\ Loaded[j] = disk[j]
          /\ \A j \in Kids \ Files : Loaded[j] = NoKey
          /\ Loaded \in [Kids -> Record \union {NoKey}]
        BY <1>1, LoadedIs DEF Boot
    <2>2. \A j \in Kids : Loaded[j] # NoKey => Kept(j, Loaded[j])
        BY <1>d, <2>1
    <2>3. CASE BootLoads(k)
        BY <1>1, <1>d, <2>2, <2>3 DEF Boot, BootLoads, Goal
    <2>4. CASE BootGenerates(k)
        <3>1. ASSUME NEW j \in Kids, keys'[j] # NoKey
              PROVE  \/ Kept(j, keys'[j])
                     \/ j = k /\ pairs' = pairs + 1 /\ keys'[j] = Generated
            BY <2>1, <2>2, <2>4, <3>1 DEF BootGenerates
        <3> QED BY <1>1, <1>d, <3>1 DEF Boot, Goal
    <2> QED BY <1>1, <2>3, <2>4 DEF Boot
<1>2. ASSUME NEW k \in Kids, Rotate(k) PROVE Goal(k)
    <2>1. ASSUME NEW j \in Kids, keys'[j] # NoKey
          PROVE  \/ Kept(j, keys'[j])
                 \/ j = k /\ pairs' = pairs + 1 /\ keys'[j] = Generated
        <3>1. CASE j = k
            BY <1>2, <3>1, DemotedIs DEF Rotate
        <3>2. CASE j # k
            <4>1. keys'[j] = Demoted(keys, activeKid)[j]
                BY <1>2, <3>2, DemotedIs DEF Rotate
            <4>2. j \in Listed /\ keys[j] \in Record
                BY <1>0, <2>1, <4>1, DemotedIs
            <4>3. CASE j = activeKid
                BY <4>1, <4>2, <4>3, DemotedIs DEF Kept
            <4>4. CASE j # activeKid
                BY <1>k, <1>0, <4>1, <4>2, <4>4, DemotedIs
            <4> QED BY <4>3, <4>4
        <3> QED BY <3>1, <3>2
    <2> QED BY <1>2, <1>d, <2>1 DEF Rotate, Goal
<1>3. ASSUME NEW k \in Kids, Revoke(k) PROVE Goal(k)
    <2>1. k \in Listed /\ keys[k] \in Record /\ "revoked" \in KeyStatus
        BY <1>0, <1>3 DEF Revoke, KeyStatus
    <2>2. keys' = [keys EXCEPT ![k] = [keys[k] EXCEPT !.status = "revoked"]]
        BY <1>3 DEF Revoke
    <2>3. keys'[k].pair = keys[k].pair /\ keys'[k].status = "revoked"
        BY <1>0, <2>1, <2>2, Records
    <2>4. Kept(k, keys'[k])
        BY <2>1, <2>3 DEF Kept
    <2>5. ASSUME NEW j \in Kids, keys'[j] # NoKey PROVE Kept(j, keys'[j])
        BY <1>0, <1>k, <2>2, <2>4, <2>5
    <2> QED BY <1>3, <1>d, <2>5 DEF Revoke, Goal
<1>4. ASSUME NEW k \in Kids, PlaceFile(k) PROVE Goal(k)
    <2>1. ASSUME NEW j \in Kids, disk'[j] \in Record
          PROVE  \/ Kept(j, disk'[j])
                 \/ j = k /\ pairs' = pairs + 1 /\ disk'[j] = Generated
        BY <1>0, <1>4, <1>d, <2>1 DEF PlaceFile
    <2> QED BY <1>4, <1>k, <2>1 DEF PlaceFile, memoryVars, Goal
<1>5. CASE Truncate
    <2>1. ASSUME NEW j \in Kids, disk'[j] \in Record PROVE Kept(j, disk'[j])
        <3>1. Torn \notin Record
            BY Records
        <3> QED BY <1>0, <1>5, <1>d, <2>1, <3>1 DEF Truncate
    <2> QED BY <1>5, <1>k, <2>1 DEF Truncate, memoryVars, Goal
<1>6. CASE Fill
    <2>1. Head(todo) \in Listed
        BY <1>6, HeadAndTail DEF Fill, TypeOK, ShapeInv
    <2>2. ASSUME NEW j \in Kids, disk'[j] \in Record PROVE Kept(j, disk'[j])
        BY <1>0, <1>6, <1>d, <1>k, <2>1, <2>2 DEF Fill
    <2> QED BY <1>6, <1>k, <2>2 DEF Fill, memoryVars, Goal
<1>7. CASE Started \/ Sign \/ RotateReturns \/ RevokeReturns
    BY <1>7, <1>k, <1>d
       DEF Started, Sign, RotateReturns, RevokeReturns, memoryVars, Goal
<1>8. CASE Stop
    BY <1>8, <1>d DEF Stop, Goal
<1>9. CASE \E k \in Kids : Boot(k) \/ Rotate(k) \/ Revoke(k) \/ PlaceFile(k)
    <2>1. PICK k \in Kids : Goal(k)
        BY <1>1, <1>2, <1>3, <1>4, <1>9
    <2> QED BY <2>1 DEF Goal
<1> QED BY <1>5, <1>6, <1>7, <1>8, <1>9 DEF Next

-----------------------------------------------------------------------------
(* Every step keeps the rest of the invariant *)

LEMMA SyncStep ==
    ASSUME TypeOK, ShapeInv, SyncInv, [Next]_vars
    PROVE  SyncInv'
<1> USE DEF Listed
<1>0. /\ Listed = {k \in Kids : keys[k] # NoKey} /\ Listed \subseteq Kids
      /\ \A k \in Listed : keys[k] \in Record
      /\ keys \in [Kids -> Record \union {NoKey}]
      /\ disk \in [Kids -> Record \union {NoFile, Torn}]
    BY DEF TypeOK
<1>1. ASSUME NEW k \in Kids, Boot(k) PROVE SyncInv'
    <2>1. /\ \A j \in Files : Loaded[j] = disk[j]
          /\ Loaded \in [Kids -> Record \union {NoKey}]
          /\ ByName(Files) \in Seq(Kids) /\ ToSet(ByName(Files)) = Files
        BY <1>1, LoadedIs DEF Boot
    <2>2. CASE BootLoads(k)
        BY <1>1, <2>1, <2>2 DEF Boot, BootLoads, SyncInv
    <2>3. CASE BootGenerates(k)
        <3>1. ToSet(order') = Files \union {k}
            BY <2>1, <2>3, InsertedLists DEF BootGenerates
        <3>2. k \in ToSet(todo')
            BY <2>3 DEF BootGenerates, ToSet
        <3>3. ASSUME NEW j \in Files, j # k PROVE disk'[j] = keys'[j]
            BY <1>1, <2>1, <2>3, <3>3 DEF Boot, BootGenerates, Files
        <3> QED BY <3>1, <3>2, <3>3 DEF SyncInv
    <2> QED BY <1>1, <2>2, <2>3 DEF Boot
<1>2. ASSUME NEW k \in Kids, Rotate(k) PROVE SyncInv'
    <2>1. order' \in Seq(Kids)
        BY <1>2, InsertedLists DEF Rotate, TypeOK
    <2>2. ToSet(todo') = {k} \union ToSet(order')
        BY <1>2, <2>1, WrittenFirst DEF Rotate
    <2> QED BY <2>2 DEF SyncInv
<1>3. ASSUME NEW k \in Kids, Revoke(k) PROVE SyncInv'
    BY <1>3 DEF Revoke, SyncInv
<1>4. ASSUME NEW k \in Kids, PlaceFile(k) PROVE SyncInv'
    <2>1. ASSUME k \in Listed PROVE k \in ToSet(todo)
        BY <1>0, <1>4, <2>1, Records DEF PlaceFile, SyncInv
    <2> QED BY <1>0, <1>4, <2>1 DEF PlaceFile, SyncInv, memoryVars
<1>5. CASE Truncate
    <2>1. Head(todo) \in ToSet(todo)
        BY <1>5, HeadAndTail DEF Truncate, TypeOK
    <2> QED BY <1>0, <1>5, <2>1 DEF Truncate, SyncInv, memoryVars
<1>6. CASE Fill
    <2>1. /\ Head(todo) \in Kids
          /\ ToSet(todo) = {Head(todo)} \union ToSet(Tail(todo))
        BY <1>6, HeadAndTail DEF Fill, TypeOK
    <2> QED BY <1>0, <1>6, <2>1 DEF Fill, SyncInv, memoryVars
<1>7. CASE Started \/ Sign \/ RotateReturns \/ RevokeReturns \/ UNCHANGED vars
    BY <1>7 DEF Started, Sign, RotateReturns, RevokeReturns, vars, memoryVars, SyncInv
<1>8. CASE Stop
    <2>1. ToSet(order') = {}
        BY <1>8 DEF Stop, ToSet
    <2> QED BY <2>1 DEF SyncInv
<1> QED BY <1>1, <1>2, <1>3, <1>4, <1>5, <1>6, <1>7, <1>8 DEF Next

\* What is to be found after a step was to be found before it, or is the new pair.
LEMMA HoldsOrigins ==
    ASSUME TypeOK, ShapeInv, OwnerInv, Next, TypeOK'
    PROVE  \E g \in Kids \union {NoKid} : \A k \in Kids, p \in Pairs :
             Holds(k, p)' => \/ Holds(k, p)
                             \/ k = g /\ p = pairs + 1 /\ pairs' = pairs + 1
<1>1. PICK g \in Kids \union {NoKid} : \A k \in Kids :
             /\ keys'[k] # NoKey =>
                    \/ Kept(k, keys'[k])
                    \/ k = g /\ pairs' = pairs + 1 /\ keys'[k] = Generated
             /\ disk'[k] \in Record =>
                    \/ Kept(k, disk'[k])
                    \/ k = g /\ pairs' = pairs + 1 /\ disk'[k] = Generated
    BY Origins
<1>2. ASSUME NEW k \in Kids, NEW r, Kept(k, r) PROVE Holds(k, r.pair)
    BY <1>2, Records DEF Kept, Holds
<1>3. Generated.pair = pairs + 1
    BY DEF Generated
<1> QED BY <1>1, <1>2, <1>3 DEF Holds

LEMMA OwnerStep ==
    ASSUME TypeOK, ShapeInv, OwnerInv, [Next]_vars, TypeOK'
    PROVE  OwnerInv'
<1>0. pairs \in Nat /\ MaxPairs \in Nat /\ Pairs \subseteq Nat
    BY KeyBoundAssumption DEF TypeOK, Pairs
<1>1. CASE Next
    <2>1. PICK g \in Kids \union {NoKid} : \A k \in Kids, p \in Pairs :
             Holds(k, p)' => \/ Holds(k, p)
                             \/ k = g /\ p = pairs + 1 /\ pairs' = pairs + 1
        BY <1>1, HoldsOrigins
    <2>2. pairs' \in Nat /\ pairs <= pairs'
        <3>1. pairs' = pairs \/ pairs' = pairs + 1
            BY <1>1 DEF Next, Boot, BootLoads, BootGenerates, Rotate, Revoke, PlaceFile,
               Truncate, Fill, Started, Sign, RotateReturns, RevokeReturns, Stop
        <3> QED BY <1>0, <3>1
    <2>3. ASSUME NEW k \in Kids, NEW p \in Pairs, Holds(k, p)' PROVE p <= pairs'
        <3>1. CASE Holds(k, p)
            BY <1>0, <2>2, <3>1 DEF OwnerInv
        <3>2. CASE p = pairs + 1 /\ pairs' = pairs + 1
            BY <1>0, <3>2
        <3> QED BY <2>1, <2>3, <3>1, <3>2
    <2>4. ASSUME NEW j \in Kids, NEW k \in Kids, NEW p \in Pairs, Holds(j, p)', Holds(k, p)'
          PROVE  j = k
        <3>1. CASE p = pairs + 1
            <4>1. ~Holds(j, p) /\ ~Holds(k, p)
                BY <1>0, <3>1 DEF OwnerInv
            <4> QED BY <2>1, <2>4, <4>1
        <3>2. CASE p # pairs + 1
            BY <2>1, <2>4, <3>2 DEF OwnerInv
        <3> QED BY <3>1, <3>2
    <2>5. ASSUME NEW p \in revoked' PROVE p <= pairs'
        <3>1. CASE p \in revoked
            BY <1>0, <2>2, <3>1 DEF OwnerInv, TypeOK
        <3>2. CASE p \notin revoked
            <4>1. RevokeReturns
                BY <1>1, <2>5, <3>2
                   DEF Next, Boot, Rotate, Revoke, PlaceFile, Truncate, Fill, Started,
                       Sign, RotateReturns, Stop, historyVars
            <4>2. p = keys[target].pair /\ target \in Kids /\ keys[target] # NoKey
                  /\ pairs' = pairs
                BY <2>5, <3>2, <4>1 DEF RevokeReturns, ShapeInv, TypeOK, Listed
            <4>3. p \in Pairs
                BY <2>5 DEF TypeOK
            <4> QED BY <4>2, <4>3 DEF OwnerInv, Holds
        <3> QED BY <3>1, <3>2
    <2> QED BY <2>3, <2>4, <2>5 DEF OwnerInv, Holds
<1>2. CASE UNCHANGED vars
    BY <1>2 DEF vars, memoryVars, historyVars, OwnerInv, Holds
<1> QED BY <1>1, <1>2

LEMMA RevokedStep ==
    ASSUME TypeOK, ShapeInv, OwnerInv, SyncInv, RevokedInv, [Next]_vars, TypeOK'
    PROVE  RevokedInv'
<1> USE DEF Listed
<1>0. /\ Listed = {k \in Kids : keys[k] # NoKey} /\ Listed \subseteq Kids
      /\ \A k \in Listed : keys[k] \in Record
      /\ Listed' = {k \in Kids : keys'[k] # NoKey}
      /\ pairs \in Nat /\ revoked \subseteq Pairs /\ Pairs \subseteq Nat
    BY KeyBoundAssumption DEF TypeOK, Pairs
<1>1. CASE RevokeReturns
    <2>1. /\ target \in Listed /\ keys[target].status = "revoked"
          /\ disk[target] = keys[target]
          /\ revoked' = revoked \union {keys[target].pair}
          /\ UNCHANGED <<keys, order, disk>>
        <3>1. ToSet(<<>>) = {}
            BY DEF ToSet
        <3> QED BY <1>1, <3>1 DEF RevokeReturns, ShapeInv, SyncInv
    <2>2. ASSUME NEW k \in Listed, keys[k].pair = keys[target].pair PROVE k = target
        <3>1. keys[k].pair \in Pairs
            BY <1>0, Records
        <3> QED BY <1>0, <2>1, <2>2, <3>1 DEF OwnerInv, Holds
    <2>3. ASSUME NEW k \in Kids, disk[k] \in Record, disk[k].pair = keys[target].pair
          PROVE  k = target
        <3>1. disk[k].pair \in Pairs
            BY <2>3, Records
        <3> QED BY <1>0, <2>1, <2>3, <3>1 DEF OwnerInv, Holds
    <2>4. \A k \in Listed : keys[k].pair \in revoked' => keys[k].status # "active"
        BY <2>1, <2>2 DEF RevokedInv
    <2>5. \A k \in Kids : disk[k] \in Record /\ disk[k].pair \in revoked'
                            => disk[k].status # "active"
        BY <2>1, <2>3 DEF RevokedInv
    <2> QED BY <2>1, <2>4, <2>5 DEF RevokedInv
<1>2. CASE Next /\ ~RevokeReturns
    <2>1. revoked' = revoked
        BY <1>2 DEF Next, Boot, Rotate, Revoke, PlaceFile, Truncate, Fill, Started,
                    Sign, RotateReturns, Stop, historyVars
    <2>2. PICK g \in Kids \union {NoKid} : \A k \in Kids :
             /\ keys'[k] # NoKey =>
                    \/ Kept(k, keys'[k])
                    \/ k = g /\ pairs' = pairs + 1 /\ keys'[k] = Generated
             /\ disk'[k] \in Record =>
                    \/ Kept(k, disk'[k])
                    \/ k = g /\ pairs' = pairs + 1 /\ disk'[k] = Generated
        BY <1>2, Origins
    <2>3. ASSUME NEW k \in Kids, NEW r, Kept(k, r), r.pair \in revoked
          PROVE  r.status # "active"
        <3>1. PICK old \in Record : /\ old = keys[k] \/ old = disk[k]
                                    /\ r.pair = old.pair
                                    /\ r.status = "active" => old.status = "active"
            BY <2>3 DEF Kept
        <3>2. old = keys[k] => k \in Listed
            BY <1>0, <3>1, Records
        <3> QED BY <2>3, <3>1, <3>2 DEF RevokedInv
    <2>4. Generated.pair \notin revoked
        <3>1. Generated.pair = pairs + 1
            BY DEF Generated
        <3> QED BY <1>0, <3>1 DEF OwnerInv
    <2>5. ASSUME NEW k \in Listed', keys'[k].pair \in revoked'
          PROVE  keys'[k].status # "active"
        BY <1>0, <2>1, <2>2, <2>3, <2>4, <2>5
    <2>6. ASSUME NEW k \in Kids, disk'[k] \in Record, disk'[k].pair \in revoked'
          PROVE  disk'[k].status # "active"
        BY <2>1, <2>2, <2>3, <2>4, <2>6
    <2> QED BY <2>5, <2>6 DEF RevokedInv
<1>3. CASE UNCHANGED vars
    BY <1>3 DEF vars, memoryVars, historyVars, RevokedInv
<1> QED BY <1>1, <1>2, <1>3

LEMMA SignedStep ==
    ASSUME TypeOK, ShapeInv, SyncInv, SignedInv, [Next]_vars
    PROVE  SignedInv'
<1> USE DEF Listed
<1>0. /\ Listed = {k \in Kids : keys[k] # NoKey} /\ Listed \subseteq Kids
      /\ \A k \in Listed : keys[k] \in Record
      /\ keys \in [Kids -> Record \union {NoKey}]
      /\ disk \in [Kids -> Record \union {NoFile, Torn}]
      /\ \A s \in signed : s[1] \in Kids
      /\ \A r \in Record : r \notin {NoFile, Torn, NoKey}
      /\ NoFile # Torn
    BY Records, KeyMarkerAssumption DEF TypeOK
<1>1. ASSUME NEW k \in Kids, Boot(k) PROVE SignedInv'
    <2>1. /\ \A j \in Files : Loaded[j] = disk[j]
          /\ Loaded \in [Kids -> Record \union {NoKey}]
          /\ ByName(Files) \in Seq(Kids) /\ ToSet(ByName(Files)) = Files
        BY <1>1, LoadedIs DEF Boot
    <2>2. ASSUME NEW s \in signed, s[1] \notin reused
          PROVE  s[1] \in Files /\ disk[s[1]] \in Record /\ disk[s[1]].pair = s[2]
        BY <1>0, <1>1, <2>2 DEF Boot, SignedInv, Files
    <2>3. UNCHANGED <<disk, signed>> /\ reused \subseteq reused'
        BY <1>1 DEF Boot, BootLoads, BootGenerates
    <2>4. ASSUME NEW s \in signed, s[1] \notin reused'
          PROVE  s[1] \in Listed' /\ keys'[s[1]].pair = s[2]
        <3>1. s[1] \in Files /\ disk[s[1]].pair = s[2]
            BY <2>2, <2>3, <2>4
        <3>2. CASE BootLoads(k)
            BY <2>1, <3>1, <3>2 DEF BootLoads
        <3>3. CASE BootGenerates(k)
            <4>1. ToSet(order') = Files \union {k}
                BY <2>1, <3>3, InsertedLists DEF BootGenerates
            <4>2. s[1] # k
                BY <2>4, <3>1, <3>3 DEF BootGenerates
            <4>3. keys'[s[1]] = Loaded[s[1]]
                BY <2>1, <3>3, <4>2 DEF BootGenerates
            <4> QED BY <2>1, <3>1, <4>1, <4>3
        <3> QED BY <1>1, <3>2, <3>3 DEF Boot
    <2> QED BY <2>2, <2>3, <2>4 DEF SignedInv
<1>2. ASSUME NEW k \in Kids, Rotate(k) PROVE SignedInv'
    <2>1. ToSet(order') = Listed \union {k}
        BY <1>2, InsertedLists DEF Rotate, TypeOK
    <2>2. ASSUME NEW s \in signed, s[1] \notin reused'
          PROVE  s[1] \in Listed' /\ keys'[s[1]].pair = s[2]
        <3>1. s[1] \in Listed /\ keys[s[1]].pair = s[2]
            BY <1>2, <2>2 DEF Rotate, SignedInv
        <3>2. s[1] # k
            BY <1>2, <2>2, <3>1 DEF Rotate
        <3>3. keys'[s[1]] = Demoted(keys, activeKid)[s[1]]
            BY <1>0, <1>2, <3>2, DemotedIs DEF Rotate
        <3> QED BY <2>1, <3>1, <3>3, DemotedIs
    <2> QED BY <1>2, <2>2 DEF Rotate, SignedInv
<1>3. ASSUME NEW k \in Kids, Revoke(k) PROVE SignedInv'
    <2>1. k \in Listed /\ keys[k] \in Record /\ "revoked" \in KeyStatus
        BY <1>0, <1>3 DEF Revoke, KeyStatus
    <2>2. keys' = [keys EXCEPT ![k] = [keys[k] EXCEPT !.status = "revoked"]]
        BY <1>3 DEF Revoke
    <2>3. \A j \in Listed : keys'[j].pair = keys[j].pair
        BY <1>0, <2>1, <2>2, Records
    <2> QED BY <1>3, <2>3 DEF Revoke, SignedInv, historyVars
<1>4. ASSUME NEW k \in Kids, PlaceFile(k) PROVE SignedInv'
    <2>1. ASSUME NEW s \in signed, s[1] \notin reused PROVE s[1] # k
        BY <1>0, <1>4, <2>1 DEF PlaceFile, SignedInv
    <2> QED BY <1>0, <1>4, <2>1 DEF PlaceFile, SignedInv, memoryVars
<1>5. CASE Truncate
    <2>1. ASSUME NEW s \in signed, s[1] \notin reused, disk'[s[1]] # Torn
          PROVE  disk'[s[1]] = disk[s[1]]
        BY <1>0, <1>5, <2>1 DEF Truncate
    <2> QED BY <1>5, <2>1 DEF Truncate, SignedInv, memoryVars, historyVars
<1>6. CASE Fill
    <2>1. pc # "down" /\ Head(todo) \in Listed /\ keys[Head(todo)] \in Record
        BY <1>0, <1>6, HeadAndTail DEF Fill, TypeOK, ShapeInv
    <2>2. ASSUME NEW s \in signed, s[1] \notin reused, disk'[s[1]] # Torn
          PROVE  disk'[s[1]] \in Record /\ disk'[s[1]].pair = s[2]
        <3>1. CASE s[1] = Head(todo)
            BY <1>0, <1>6, <2>1, <2>2, <3>1 DEF Fill, SignedInv
        <3>2. CASE s[1] # Head(todo)
            BY <1>0, <1>6, <2>2, <3>2 DEF Fill, SignedInv
        <3> QED BY <3>1, <3>2
    <2> QED BY <1>6, <2>2 DEF Fill, SignedInv, memoryVars, historyVars
<1>7. CASE Sign
    <2>1. /\ activeKid \in Listed
          /\ activeKid \notin ToSet(todo)
        <3>1. ToSet(<<>>) = {}
            BY DEF ToSet
        <3> QED BY <1>7, <3>1 DEF Sign, HasActive, ShapeInv, TypeOK
    <2>2. disk[activeKid] = keys[activeKid] /\ keys[activeKid] \in Record
        BY <1>0, <2>1 DEF SyncInv
    <2>3. ASSUME NEW s \in signed', s[1] \notin reused
          PROVE  /\ disk[s[1]] # Torn => disk[s[1]] \in Record /\ disk[s[1]].pair = s[2]
                 /\ s[1] \in Listed /\ keys[s[1]].pair = s[2]
        <3>1. CASE s \in signed
            BY <1>7, <2>3, <3>1 DEF Sign, SignedInv
        <3>2. CASE s = <<activeKid, keys[activeKid].pair>>
            BY <2>1, <2>2, <3>2
        <3> QED BY <1>7, <2>3, <3>1, <3>2 DEF Sign
    <2> QED BY <1>7, <2>3 DEF Sign, SignedInv, memoryVars
<1>8. CASE Started \/ RotateReturns \/ RevokeReturns \/ UNCHANGED vars
    BY <1>8 DEF Started, RotateReturns, RevokeReturns, vars, memoryVars, historyVars, SignedInv
<1>9. CASE Stop
    BY <1>9 DEF Stop, SignedInv
<1> QED BY <1>1, <1>2, <1>3, <1>4, <1>5, <1>6, <1>7, <1>8, <1>9 DEF Next

LEMMA CurrentStep ==
    ASSUME TypeOK, ShapeInv, SyncInv, CurrentInv, [Next]_vars
    PROVE  CurrentInv'
<1> USE DEF Listed
<1>0. /\ Listed = {k \in Kids : keys[k] # NoKey} /\ Listed \subseteq Kids
      /\ \A k \in Listed : keys[k] \in Record
      /\ disk \in [Kids -> Record \union {NoFile, Torn}]
      /\ current # NoKid => current \in Kids
      /\ \A r \in Record : r \notin {NoFile, Torn, NoKey}
      /\ NoFile # Torn
      /\ ToSet(<<>>) = {}
    BY Records, KeyMarkerAssumption DEF TypeOK, ToSet
<1>1. ASSUME NEW k \in Kids, Boot(k) PROVE CurrentInv'
    <2>1. ByName(Files) \in Seq(Kids) /\ ToSet(ByName(Files)) = Files
        BY <1>1, LoadedIs DEF Boot
    <2>2. Files \subseteq ToSet(order')
        <3>1. CASE BootLoads(k)
            BY <2>1, <3>1 DEF BootLoads
        <3>2. CASE BootGenerates(k)
            BY <2>1, <3>2, InsertedLists DEF BootGenerates
        <3> QED BY <1>1, <3>1, <3>2 DEF Boot
    <2> QED BY <1>0, <1>1, <2>2 DEF Boot, CurrentInv, Files
<1>2. ASSUME NEW k \in Kids, Rotate(k) PROVE CurrentInv'
    <2>1. Listed \subseteq ToSet(order')
        BY <1>2, InsertedLists DEF Rotate, TypeOK
    <2> QED BY <1>2, <2>1 DEF Rotate, CurrentInv
<1>3. ASSUME NEW k \in Kids, Revoke(k) \/ PlaceFile(k) PROVE CurrentInv'
    <2>1. CASE Revoke(k)
        BY <2>1 DEF Revoke, CurrentInv, historyVars
    <2>2. CASE PlaceFile(k)
        BY <1>0, <2>2 DEF PlaceFile, CurrentInv, memoryVars
    <2> QED BY <1>3, <2>1, <2>2
<1>4. CASE Truncate
    BY <1>0, <1>4 DEF Truncate, CurrentInv, memoryVars, historyVars
<1>5. CASE Fill
    <2>1. Head(todo) \in Listed /\ keys[Head(todo)] # NoFile
        BY <1>0, <1>5, HeadAndTail DEF Fill, TypeOK, ShapeInv
    <2> QED BY <1>0, <1>5, <2>1 DEF Fill, CurrentInv, memoryVars, historyVars
<1>6. CASE RotateReturns
    <2>1. activeKid # NoKid => activeKid \in Listed /\ disk[activeKid] = keys[activeKid]
        BY <1>0, <1>6 DEF RotateReturns, ShapeInv, SyncInv
    <2> QED BY <1>0, <1>6, <2>1 DEF RotateReturns, CurrentInv, memoryVars
<1>7. CASE Started \/ Sign \/ RevokeReturns \/ Stop \/ UNCHANGED vars
    BY <1>7 DEF Started, Sign, RevokeReturns, Stop, vars, memoryVars, historyVars, CurrentInv
<1> QED BY <1>1, <1>2, <1>3, <1>4, <1>5, <1>6, <1>7 DEF Next

LEMMA SingleStep ==
    ASSUME TypeOK, ShapeInv, SyncInv, SingleInv, [Next]_vars
    PROVE  SingleInv'
<1> USE DEF Listed
<1>0. /\ Listed = {k \in Kids : keys[k] # NoKey} /\ Listed \subseteq Kids
      /\ \A k \in Listed : keys[k] \in Record
      /\ keys \in [Kids -> Record \union {NoKey}]
      /\ disk \in [Kids -> Record \union {NoFile, Torn}]
      /\ \A r \in Record : r \notin {NoFile, Torn, NoKey}
      /\ ToSet(<<>>) = {}
    BY Records DEF TypeOK, ToSet
<1>1. ASSUME NEW k \in Kids, Boot(k) PROVE SingleInv'
    <2>1. /\ \A j \in Files : disk[j] \in Record /\ Loaded[j] = disk[j]
          /\ \A j \in Kids \ Files : disk[j] = NoFile
          /\ Loaded \in [Kids -> Record \union {NoKey}]
          /\ ByName(Files) \in Seq(Kids) /\ ToSet(ByName(Files)) = Files
          /\ Files \subseteq Kids
        BY <1>1, LoadedIs DEF Boot, Files
    <2>2. pc' = "boot" /\ UNCHANGED <<disk, crashes, placed>> /\ pc = "down"
        BY <1>1 DEF Boot
    <2>3. CASE BootLoads(k)
        <3>1. LoadedActive \in Files /\ disk[LoadedActive].status = "active"
            BY <1>1, <2>3, LoadedActiveIs DEF Boot, BootLoads
        <3>2. Listed' = Files /\ keys' = Loaded /\ activeKid' = LoadedActive
            BY <2>1, <2>3 DEF BootLoads
        <3>3. ASSUME NEW j \in Files, disk[j].status = "active", crashes = 0, placed = {}
              PROVE  j = LoadedActive
            BY <2>1, <2>2, <3>1, <3>3 DEF SingleInv
        <3> QED BY <2>1, <2>2, <3>2, <3>3 DEF SingleInv
    <2>4. CASE BootGenerates(k)
        <3>1. \A j \in Files : disk[j].status # "active"
            BY <1>1, <2>4, LoadedActiveIs DEF Boot, BootGenerates
        <3>2. Listed' = Files \union {k} /\ activeKid' = k
            BY <2>1, <2>4, InsertedLists DEF BootGenerates
        <3>3. ASSUME NEW j \in Files, j # k PROVE keys'[j] = disk[j]
            BY <2>1, <2>4, <3>3 DEF BootGenerates
        <3> QED BY <2>1, <2>2, <3>1, <3>2, <3>3 DEF SingleInv
    <2> QED BY <1>1, <2>3, <2>4 DEF Boot
<1>2. ASSUME NEW k \in Kids, Rotate(k) PROVE SingleInv'
    <2>1. Listed' = Listed \union {k} /\ activeKid' = k
        BY <1>2, InsertedLists DEF Rotate, TypeOK
    <2>2. UNCHANGED <<disk, crashes, placed>> /\ pc = "up" /\ pc' = "rotate"
        BY <1>2 DEF Rotate
    <2>3. ASSUME NEW j \in Listed', keys'[j].status = "active", crashes = 0, placed = {}
          PROVE  j = k
        <3> SUFFICES ASSUME j # k PROVE FALSE
            OBVIOUS
        <3>1. j \in Listed /\ keys'[j] = Demoted(keys, activeKid)[j]
            BY <1>0, <1>2, <2>1, DemotedIs DEF Rotate
        <3>2. CASE j = activeKid
            BY <2>3, <3>1, <3>2, DemotedIs
        <3>3. CASE j # activeKid
            BY <2>2, <2>3, <3>1, <3>3, DemotedIs DEF SingleInv
        <3> QED BY <3>2, <3>3
    <2> QED BY <2>1, <2>2, <2>3 DEF SingleInv
<1>3. ASSUME NEW k \in Kids, Revoke(k) PROVE SingleInv'
    <2>1. k \in Listed /\ keys[k] \in Record /\ "revoked" \in KeyStatus
        BY <1>0, <1>3 DEF Revoke, KeyStatus
    <2>2. keys' = [keys EXCEPT ![k] = [keys[k] EXCEPT !.status = "revoked"]]
        BY <1>3 DEF Revoke
    <2>3. \A j \in Listed : keys'[j].status = "active" => keys[j].status = "active"
        BY <1>0, <2>1, <2>2, Records
    <2> QED BY <1>3, <2>3 DEF Revoke, SingleInv, historyVars
<1>4. ASSUME NEW k \in Kids, PlaceFile(k) PROVE SingleInv'
    <2>1. placed' # {}
        BY <1>4 DEF PlaceFile
    <2> QED BY <2>1 DEF SingleInv
<1>5. CASE Truncate \/ Fill
    <2>1. Head(todo) \in Listed /\ pc # "down"
        BY <1>5, HeadAndTail DEF Truncate, Fill, TypeOK, ShapeInv
    <2>2. \A k \in Kids \ Listed : disk'[k] = disk[k]
        BY <1>0, <1>5, <2>1 DEF Truncate, Fill
    <2> QED BY <1>5, <2>1, <2>2 DEF Truncate, Fill, SingleInv, memoryVars, historyVars
<1>6. CASE Started \/ Sign \/ RotateReturns \/ RevokeReturns \/ UNCHANGED vars
    BY <1>6 DEF Started, Sign, RotateReturns, RevokeReturns, vars, memoryVars,
                historyVars, SingleInv
<1>7. CASE Stop
    <2>1. pc # "down" /\ pc' = "down" /\ UNCHANGED <<disk, placed>>
        BY <1>7 DEF Stop
    <2>2. CASE todo = <<>> /\ UNCHANGED crashes
        <3>1. ASSUME NEW j \in Kids, disk[j] \in Record, disk[j].status = "active",
                     crashes = 0, placed = {}
              PROVE  j = activeKid
            <4>1. j \in Listed
                BY <1>0, <2>1, <3>1 DEF SingleInv
            <4>2. disk[j] = keys[j]
                BY <1>0, <2>2, <4>1 DEF SyncInv
            <4> QED BY <2>1, <3>1, <4>1, <4>2 DEF SingleInv
        <3> QED BY <2>1, <2>2, <3>1 DEF SingleInv
    <2>3. CASE crashes' = crashes + 1
        <3>1. crashes' # 0
            BY <2>3 DEF TypeOK
        <3> QED BY <3>1 DEF SingleInv
    <2> QED BY <1>7, <2>2, <2>3 DEF Stop
<1> QED BY <1>1, <1>2, <1>3, <1>4, <1>5, <1>6, <1>7 DEF Next

-----------------------------------------------------------------------------
(* The theorems *)

LEMMA KeyInvInit == Init => KeyInv
<1> SUFFICES ASSUME Init PROVE KeyInv
    OBVIOUS
<1>1. <<>> \in Seq(Kids) /\ ToSet(<<>>) = {}
    BY DEF ToSet
<1>2. TypeOK
    BY <1>1, KeyBoundAssumption DEF Init, TypeOK
<1>3. NoFile \notin Record
    BY KeyMarkerAssumption
<1>4. OwnerInv
    BY <1>3 DEF Init, OwnerInv, Holds
<1>5. ShapeInv /\ SyncInv /\ SignedInv /\ CurrentInv
    BY <1>1 DEF Init, ShapeInv, SyncInv, SignedInv, CurrentInv, Listed
<1>6. RevokedInv /\ SingleInv
    BY <1>1, <1>3 DEF Init, RevokedInv, SingleInv, Listed
<1> QED BY <1>2, <1>4, <1>5, <1>6 DEF KeyInv

\* The inductive invariant: the type of every variable; calls write only keys of
\* the Map; a pair has one name; what a call need not write is written; a revoked
\* pair is nowhere active; a pair that signed stays under its name.
THEOREM KeyInvHolds == Spec => []KeyInv
<1>1. Init => KeyInv
    BY KeyInvInit
<1>2. KeyInv /\ [Next]_vars => KeyInv'
    <2> SUFFICES ASSUME KeyInv, [Next]_vars PROVE KeyInv'
        OBVIOUS
    <2>1. TypeOK' /\ ShapeInv'
        BY TypeShapeStep DEF KeyInv
    <2>2. SyncInv' /\ OwnerInv' /\ RevokedInv'
        BY <2>1, SyncStep, OwnerStep, RevokedStep DEF KeyInv
    <2>3. SignedInv' /\ CurrentInv' /\ SingleInv'
        BY SignedStep, CurrentStep, SingleStep DEF KeyInv
    <2> QED BY <2>1, <2>2, <2>3 DEF KeyInv
<1> QED BY <1>1, <1>2, PTL DEF Spec

\* Every verdict can be verified: whatever rotations, revocations, restarts and
\* crashes have happened, the pair that signed is under its kid.
THEOREM SignedVerdictsVerify == Spec => []SignaturesVerifiable
<1>1. KeyInv => SignaturesVerifiable
    <2> SUFFICES ASSUME KeyInv, pc = "up", NEW s \in signed, s[1] \notin reused
                 PROVE  keys[s[1]] # NoKey /\ keys[s[1]].pair = s[2]
        BY DEF SignaturesVerifiable
    <2>1. s[1] \in Listed /\ keys[s[1]].pair = s[2]
        BY DEF KeyInv, SignedInv
    <2> QED BY <2>1 DEF KeyInv, TypeOK, Listed
<1> QED BY <1>1, KeyInvHolds, PTL

\* Nothing is signed with a pair whose revoke has returned.
THEOREM RevokedIsRetired == Spec => RevokedNeverSigns
<1>1. KeyInv /\ [Next]_vars => [\A s \in signed' \ signed : s[2] \notin revoked]_vars
    <2> SUFFICES ASSUME KeyInv, [Next]_vars, NEW s \in signed' \ signed
                 PROVE  s[2] \notin revoked
        OBVIOUS
    <2>1. Sign
        BY DEF Next, Boot, Rotate, Revoke, PlaceFile, Truncate, Fill, Started,
               RotateReturns, RevokeReturns, Stop, vars, historyVars
    <2>2. s[2] = keys[activeKid].pair /\ keys[activeKid].status = "active"
          /\ activeKid \in Listed
        BY <2>1 DEF Sign, HasActive, KeyInv, ShapeInv
    <2> QED BY <2>2 DEF KeyInv, RevokedInv
<1> QED BY <1>1, KeyInvHolds, PTL DEF Spec, RevokedNeverSigns

\* A rotation that returned survives restarts.
THEOREM RotationIsKept == Spec => []CompletedRotationSticks
<1>1. KeyInv => CompletedRotationSticks
    BY DEF KeyInv, CurrentInv, SingleInv, CompletedRotationSticks
<1> QED BY <1>1, KeyInvHolds, PTL

=============================================================================
