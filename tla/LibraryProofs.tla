--------------------------- MODULE LibraryProofs ---------------------------
(***************************************************************************)
(* The generated libraries, for every type of key and value, every width   *)
(* of a word and every sequence of calls.  The enumerable map is a         *)
(* dictionary, and map and set list what they hold; checked casts keep the *)
(* number.  The binary lookups of Checkpoints find the right place in      *)
(* every history with increasing keys and read nothing outside of it, and  *)
(* so the histories answer with what was recorded.                         *)
(***************************************************************************)
EXTENDS MCLibraries, SumTheorems, SequenceTheorems, TLAPS

(* The map.                                                                 *)

Sets == [values : Seq(Bytes32), indexes : [Bytes32 -> Nat]]

\* A new value has the last place of an array one longer, and nothing else moves.
LEMMA AddedAgrees ==
  ASSUME NEW s \in Sets, Agree(s), NEW value \in Bytes32
  PROVE  /\ Added(s, value) \in Sets
         /\ Agree(Added(s, value))
         /\ \A w \in Bytes32 : SetContains(Added(s, value), w)
                                 <=> w = value \/ SetContains(s, w)
  <1>1. CASE SetContains(s, value)
    BY <1>1 DEF Added
  <1>2. CASE ~SetContains(s, value)
    <2> DEFINE vs == Append(s.values, value)
               new == [values |-> vs,
                       indexes |-> [s.indexes EXCEPT ![value] = Len(s.values) + 1]]
    <2>1. Added(s, value) = new
      BY <1>2 DEF Added
    <2>2. s.values \in Seq(Bytes32) /\ s.indexes \in [Bytes32 -> Nat]
      BY DEF Sets
    <2>3. /\ vs \in Seq(Bytes32) /\ Len(vs) = Len(s.values) + 1
          /\ vs[Len(s.values) + 1] = value
          /\ \A k \in 1 .. Len(s.values) : vs[k] = s.values[k]
          /\ DOMAIN vs = 1 .. Len(s.values) + 1
          /\ DOMAIN s.values = 1 .. Len(s.values)
      BY <2>2
    <2> HIDE DEF vs
    <2>4. new \in Sets
      BY <2>2, <2>3 DEF Sets
    <2>5. \A w \in Bytes32 : SetContains(new, w) <=> w = value \/ SetContains(s, w)
      BY <2>2 DEF SetContains
    <2>6. \A k \in 1 .. Len(s.values) : s.values[k] # value /\ s.values[k] \in Bytes32
      BY <1>2, <2>2, <2>3 DEF Agree, SetContains
    <2>7. ASSUME NEW k \in DOMAIN vs PROVE new.indexes[vs[k]] = k
      <3>1. CASE k \in 1 .. Len(s.values)
        <4>1. vs[k] = s.values[k] /\ s.indexes[s.values[k]] = k
          BY <2>3, <3>1 DEF Agree
        <4> QED
          BY <2>2, <2>6, <3>1, <4>1
      <3>2. CASE k = Len(s.values) + 1
        BY <2>2, <2>3, <3>2
      <3> QED
        BY <2>2, <2>3, <3>1, <3>2
    <2>8. ASSUME NEW w \in Bytes32, SetContains(new, w)
          PROVE  new.indexes[w] \in DOMAIN vs /\ vs[new.indexes[w]] = w
      <3>1. CASE w = value
        BY <2>2, <2>3, <3>1
      <3>2. CASE w # value
        BY <2>2, <2>3, <2>5, <2>8, <3>2 DEF Agree
      <3> QED
        BY <3>1, <3>2
    <2> QED
      BY <2>1, <2>4, <2>5, <2>7, <2>8 DEF Agree
  <1> QED
    BY <1>1, <1>2

\* The last value takes the place of the one removed, whichever it is, and none is lost.
LEMMA RemovedAgrees ==
  ASSUME NEW s \in Sets, Agree(s), NEW value \in Bytes32
  PROVE  /\ Removed(s, value) \in Sets
         /\ Agree(Removed(s, value))
         /\ \A w \in Bytes32 : SetContains(Removed(s, value), w)
                                 <=> w # value /\ SetContains(s, w)
  <1>1. CASE ~SetContains(s, value)
    BY <1>1 DEF Removed, SetContains
  <1>2. CASE SetContains(s, value)
    <2> DEFINE at == s.indexes[value]
               vs == SubSeq([s.values EXCEPT ![at] = s.values[Len(s.values)]], 1,
                            Len(s.values) - 1)
               is == [s.indexes EXCEPT ![s.values[Len(s.values)]] = at, ![value] = 0]
               new == [values |-> vs, indexes |-> is]
    <2>1. Removed(s, value) = new
      BY <1>2 DEF Removed, SetContains
    <2>2. s.values \in Seq(Bytes32) /\ s.indexes \in [Bytes32 -> Nat]
      BY DEF Sets
    <2>3. PICK n \in Nat : n = Len(s.values)
      BY <2>2
    <2>4. /\ at \in 1 .. n /\ s.values[at] = value
          /\ DOMAIN s.values = 1 .. n /\ s.values[n] \in Bytes32
      BY <1>2, <2>2, <2>3 DEF Agree
    <2>5. /\ vs \in Seq(Bytes32) /\ Len(vs) = n - 1 /\ DOMAIN vs = 1 .. n - 1
          /\ \A k \in 1 .. n - 1 : vs[k] = IF k = at THEN s.values[n] ELSE s.values[k]
      <3> DEFINE moved == [s.values EXCEPT ![at] = s.values[n]]
      <3>1. moved \in Seq(Bytes32) /\ Len(moved) = n
            /\ \A k \in 1 .. n : moved[k] = IF k = at THEN s.values[n] ELSE s.values[k]
        BY <2>2, <2>3, <2>4
      <3>2. vs = SubSeq(moved, 1, n - 1)
        BY <2>3
      <3> HIDE DEF moved
      <3> QED
        BY <2>4, <3>1, <3>2, SubSeqProperties
    <2>6. is \in [Bytes32 -> Nat]
          /\ \A w \in Bytes32 : is[w] = IF w = value THEN 0
                                        ELSE IF w = s.values[n] THEN at ELSE s.indexes[w]
      BY <2>2, <2>3, <2>4
    <2> HIDE DEF vs, is
    <2>7. new \in Sets
      BY <2>5, <2>6 DEF Sets
    <2>8. \A j, k \in 1 .. n : s.values[j] = s.values[k] => j = k
      BY <2>4 DEF Agree
    <2>9. \A k \in 1 .. n : s.values[k] \in Bytes32 /\ s.indexes[s.values[k]] = k
      BY <2>2, <2>3, <2>4 DEF Agree
    <2>10. \A w \in Bytes32 : SetContains(new, w) <=> w # value /\ SetContains(s, w)
      BY <2>4, <2>6, <2>9 DEF SetContains
    <2>11. ASSUME NEW k \in 1 .. n - 1 PROVE is[vs[k]] = k
      <3>1. k \in 1 .. n /\ n \in 1 .. n /\ k # n
        BY <2>4
      <3>2. CASE k = at
        <4>1. vs[k] = s.values[n] /\ s.values[n] # value
          BY <2>4, <2>5, <2>8, <3>1, <3>2
        <4> QED
          BY <2>4, <2>6, <3>2, <4>1
      <3>3. CASE k # at
        <4>1. vs[k] = s.values[k] /\ s.values[k] # value /\ s.values[k] # s.values[n]
          BY <2>4, <2>5, <2>8, <3>1, <3>3
        <4> QED
          BY <2>6, <2>9, <3>1, <4>1
      <3> QED
        BY <3>2, <3>3
    <2>12. ASSUME NEW w \in Bytes32, is[w] # 0
           PROVE  is[w] \in 1 .. n - 1 /\ vs[is[w]] = w
      <3>1. w # value
        BY <2>6, <2>12
      <3>2. CASE w = s.values[n]
        <4>1. is[w] = at /\ at # n
          BY <2>4, <2>6, <3>1, <3>2
        <4> QED
          BY <2>4, <2>5, <3>2, <4>1
      <3>3. CASE w # s.values[n]
        <4>1. is[w] = s.indexes[w] /\ SetContains(s, w)
          BY <2>6, <2>12, <3>1, <3>3 DEF SetContains
        <4>2. s.indexes[w] \in 1 .. n /\ s.values[s.indexes[w]] = w
          BY <2>4, <4>1 DEF Agree
        <4>3. s.indexes[w] # n /\ s.indexes[w] # at
          BY <2>4, <3>1, <3>3, <4>2
        <4> QED
          BY <2>4, <2>5, <4>1, <4>2, <4>3
      <3> QED
        BY <3>2, <3>3
    <2>13. Agree(new)
      BY <2>5, <2>11, <2>12 DEF Agree, SetContains
    <2> QED
      BY <2>1, <2>7, <2>10, <2>13
  <1> QED
    BY <1>1, <1>2
-----------------------------------------------------------------------------
\* What a key of the map is as a word, and a value is as it was stored.
LEMMA RoundTrip ==
  ASSUME NEW type, NEW v \in ValuesOf(type)
  PROVE  /\ v \in Bytes32
         /\ ToBytes32(type, v) = v
         /\ FromBytes32(type, v) = v
  <1>1. CASE type = "address"
    <2>1. AddressSpan \in Nat /\ WordSpan \in Nat /\ AddressSpan <= WordSpan
          /\ v \in Nat /\ v < AddressSpan
      BY <1>1, SpanAssumption DEF ValuesOf
    <2>2. v % AddressSpan = v
      BY <2>1
    <2> QED
      BY <1>1, <2>1, <2>2 DEF ToBytes32, FromBytes32, Bytes32
  <1>2. CASE type # "address"
    BY <1>2 DEF ValuesOf, ToBytes32, FromBytes32, Bytes32
  <1> QED
    BY <1>1, <1>2

\* A value that is not 0 belongs to a key that is there: the mapping holds nothing for the
\* others.
MapInv ==
    /\ keys \in Sets
    /\ Agree(keys)
    /\ values \in [Bytes32 -> Bytes32]
    /\ \A w \in Bytes32 :
          /\ values[w] \in ValuesOf(ValueType)
          /\ IF SetContains(keys, w) THEN w \in Keys ELSE values[w] = 0

LEMMA ZeroIsAValue == 0 \in Bytes32 /\ \A type \in Types : 0 \in ValuesOf(type)
  BY SpanAssumption DEF Bytes32, ValuesOf

LEMMA MapInit == Init => MapInv
  <1> SUFFICES ASSUME Init PROVE MapInv
    OBVIOUS
  <1>1. keys.values = << >> /\ keys.indexes = [w \in Bytes32 |-> 0]
    BY DEF Init, EmptySet
  <1>2. keys \in Sets
    BY DEF Init, EmptySet, Sets
  <1>3. Agree(keys)
    BY <1>1 DEF Agree, SetContains
  <1>4. \A w \in Bytes32 : ~SetContains(keys, w) /\ values[w] = 0
    BY <1>1 DEF Init, SetContains
  <1> QED
    BY <1>2, <1>3, <1>4, ZeroIsAValue, MapAssumption DEF Init, MapInv

LEMMA MapStep ==
  ASSUME MapInv, [Next]_vars
  PROVE  MapInv'
  <1>1. ASSUME NEW entry \in Keys, NEW value \in Stored, Set(entry, value)
        PROVE  MapInv'
    <2>1. entry \in Bytes32 /\ ToBytes32(KeyType, entry) = entry
          /\ value \in ValuesOf(ValueType) /\ value \in Bytes32
          /\ ToBytes32(ValueType, value) = value
      BY RoundTrip, MapAssumption DEF Keys
    <2>2. keys' = Added(keys, entry) /\ values' = [values EXCEPT ![entry] = value]
      BY <1>1, <2>1 DEF Set, SetWord
    <2>3. /\ keys' \in Sets /\ Agree(keys')
          /\ \A w \in Bytes32 : SetContains(keys', w) <=> w = entry \/ SetContains(keys, w)
      BY <2>1, <2>2, AddedAgrees DEF MapInv
    <2>4. values' \in [Bytes32 -> Bytes32]
          /\ \A w \in Bytes32 : values'[w] = IF w = entry THEN value ELSE values[w]
      BY <2>1, <2>2 DEF MapInv
    <2> QED
      BY <2>1, <2>3, <2>4 DEF MapInv, Agree, Keys
  <1>2. ASSUME NEW entry \in Keys, Remove(entry)
        PROVE  MapInv'
    <2>1. entry \in Bytes32 /\ ToBytes32(KeyType, entry) = entry
      BY RoundTrip, MapAssumption DEF Keys
    <2>2. keys' = Removed(keys, entry) /\ values' = [values EXCEPT ![entry] = 0]
      BY <1>2, <2>1 DEF Remove, RemoveWord
    <2>3. /\ keys' \in Sets /\ Agree(keys')
          /\ \A w \in Bytes32 : SetContains(keys', w) <=> w # entry /\ SetContains(keys, w)
      BY <2>1, <2>2, RemovedAgrees DEF MapInv
    <2>4. values' \in [Bytes32 -> Bytes32]
          /\ \A w \in Bytes32 : values'[w] = IF w = entry THEN 0 ELSE values[w]
      BY <2>1, <2>2, ZeroIsAValue DEF MapInv
    <2> QED
      BY <2>1, <2>3, <2>4, ZeroIsAValue, MapAssumption DEF MapInv, Agree, Keys
  <1>3. CASE UNCHANGED vars
    BY <1>3 DEF vars, MapInv, Keys
  <1> QED
    BY <1>1, <1>2, <1>3 DEF Next

\* The array of the keys and their places agree, whatever is set and removed.
THEOREM PlacesStayRight == Spec => []PlacesAgree
  <1>1. MapInv => PlacesAgree
    BY DEF MapInv, PlacesAgree
  <1> QED
    BY <1>1, MapInit, MapStep, PTL DEF Spec

\* What contains and get say of a key.
LEMMA Answers ==
  ASSUME MapInv, NEW entry \in Keys
  PROVE  /\ entry \in Bytes32
         /\ Contains(entry) <=> SetContains(keys, entry)
         /\ Get(entry) = values[entry]
         /\ CanGet(entry) <=> Contains(entry)
  <1>1. entry \in Bytes32 /\ ToBytes32(KeyType, entry) = entry
    BY RoundTrip, MapAssumption DEF Keys
  <1>2. FromBytes32(ValueType, values[entry]) = values[entry]
    BY <1>1, RoundTrip, MapAssumption DEF MapInv
  <1> QED
    BY <1>1, <1>2 DEF MapInv, Contains, ContainsWord, Get, CanGet, CanGetWord

\* The map implements the dictionary: every change has its effect and its answer, and
\* touches no other key.
THEOREM MapIsDictionary == Spec => ImplementsDictionary
  <1>1. Init => Dictionary!Init
    <2> SUFFICES ASSUME Init PROVE Dictionary!Init
      OBVIOUS
    <2>1. \A k \in Keys : ~Contains(k)
      BY MapInit, Answers DEF Init, EmptySet, SetContains
    <2> QED
      BY <2>1 DEF Dictionary!Init, Init, Shown
  <1>2. ASSUME MapInv, [Next]_vars
        PROVE  [Dictionary!Next]_<<Shown, result>>
    <2>0. MapInv'
      BY <1>2, MapStep
    <2>1. ASSUME NEW entry \in Keys, NEW value \in Stored, Set(entry, value)
          PROVE  Dictionary!Put(entry, value)
      <3>1. entry \in Bytes32 /\ ToBytes32(KeyType, entry) = entry
            /\ value \in ValuesOf(ValueType) /\ ToBytes32(ValueType, value) = value
        BY RoundTrip, MapAssumption DEF Keys
      <3>2. /\ keys' = Added(keys, entry) /\ values' = [values EXCEPT ![entry] = value]
            /\ result' = ~SetContains(keys, entry)
        BY <2>1, <3>1 DEF Set, SetWord
      <3>3. \A w \in Bytes32 : SetContains(keys', w) <=> w = entry \/ SetContains(keys, w)
        BY <1>2, <3>1, <3>2, AddedAgrees DEF MapInv
      <3>4. \A w \in Bytes32 : values'[w] = IF w = entry THEN value ELSE values[w]
        BY <1>2, <3>1, <3>2 DEF MapInv
      <3>5. \A k \in Keys : /\ k \in Bytes32
                            /\ Contains(k) <=> SetContains(keys, k)
                            /\ Get(k) = values[k]
        BY <1>2, Answers
      <3>6. \A k \in Keys : /\ Contains(k)' <=> SetContains(keys', k)
                            /\ Get(k)' = values'[k]
        BY <2>0, RoundTrip, MapAssumption DEF MapInv, Keys, Contains, ContainsWord, Get
      <3>7. {k \in Keys : Contains(k)'} = {k \in Keys : Contains(k)} \cup {entry}
        BY <3>3, <3>5, <3>6
      <3>8. \A k \in Keys : Get(k)' = IF k = entry THEN value ELSE Get(k)
        BY <3>4, <3>5, <3>6
      <3>9. Shown' = [k \in DOMAIN Shown \cup {entry} |-> IF k = entry THEN value ELSE Shown[k]]
        BY <3>7, <3>8 DEF Shown
      <3>10. result' = (entry \notin DOMAIN Shown)
        BY <3>2, <3>5 DEF Shown
      <3> QED
        BY <3>9, <3>10 DEF Dictionary!Put
    <2>2. ASSUME NEW entry \in Keys, Remove(entry)
          PROVE  Dictionary!Delete(entry)
      <3>1. entry \in Bytes32 /\ ToBytes32(KeyType, entry) = entry
        BY RoundTrip, MapAssumption DEF Keys
      <3>2. /\ keys' = Removed(keys, entry) /\ values' = [values EXCEPT ![entry] = 0]
            /\ result' = SetContains(keys, entry)
        BY <2>2, <3>1 DEF Remove, RemoveWord
      <3>3. \A w \in Bytes32 : SetContains(keys', w) <=> w # entry /\ SetContains(keys, w)
        BY <1>2, <3>1, <3>2, RemovedAgrees DEF MapInv
      <3>4. \A w \in Bytes32 : values'[w] = IF w = entry THEN 0 ELSE values[w]
        BY <1>2, <3>1, <3>2 DEF MapInv
      <3>5. \A k \in Keys : /\ k \in Bytes32
                            /\ Contains(k) <=> SetContains(keys, k)
                            /\ Get(k) = values[k]
        BY <1>2, Answers
      <3>6. \A k \in Keys : /\ Contains(k)' <=> SetContains(keys', k)
                            /\ Get(k)' = values'[k]
        BY <2>0, RoundTrip, MapAssumption DEF MapInv, Keys, Contains, ContainsWord, Get
      <3>7. {k \in Keys : Contains(k)'} = {k \in Keys : Contains(k)} \ {entry}
        BY <3>3, <3>5, <3>6
      <3>8. \A k \in {j \in Keys : Contains(j)} \ {entry} : Get(k)' = Get(k)
        BY <3>4, <3>5, <3>6
      <3>9. Shown' = [k \in DOMAIN Shown \ {entry} |-> Shown[k]]
        BY <3>7, <3>8 DEF Shown
      <3>10. result' = (entry \in DOMAIN Shown)
        BY <3>2, <3>5 DEF SetContains, Shown
      <3> QED
        BY <3>9, <3>10 DEF Dictionary!Delete
    <2>3. CASE UNCHANGED vars
      BY <2>3 DEF vars, Shown, Contains, ContainsWord, Get
    <2> QED
      BY <1>2, <2>1, <2>2, <2>3 DEF Next, Dictionary!Next, Keys
  <1> QED
    BY <1>1, <1>2, MapInit, MapStep, PTL DEF Spec, ImplementsDictionary, Dictionary!Spec

\* What at shows at a place of the array
LEMMA Listed ==
  ASSUME MapInv, NEW i \in 0 .. Length - 1
  PROVE  /\ keys.values[i + 1] \in Keys
         /\ SetContains(keys, keys.values[i + 1])
         /\ keys.indexes[keys.values[i + 1]] = i + 1
         /\ At(i) = <<keys.values[i + 1], Get(keys.values[i + 1])>>
  <1>1. /\ keys.values \in Seq(Bytes32) /\ Len(keys.values) \in Nat
        /\ DOMAIN keys.values = 1 .. Len(keys.values)
    BY DEF MapInv, Sets
  <1>2. i \in Nat /\ i + 1 \in 1 .. Len(keys.values)
    BY <1>1 DEF Length, SetLength
  <1>3. PICK k \in Bytes32 : keys.values[i + 1] = k
    BY <1>1, <1>2
  <1>4. keys.indexes[k] = i + 1 /\ SetContains(keys, k)
    BY <1>1, <1>2, <1>3 DEF MapInv, Agree, SetContains
  <1>5. k \in Keys
    BY <1>4 DEF MapInv
  <1>6. ToBytes32(KeyType, k) = k /\ FromBytes32(KeyType, k) = k
    BY <1>5, RoundTrip, MapAssumption DEF Keys
  <1>7. At(i) = <<k, Get(k)>>
    BY <1>3, <1>6 DEF At, WordAt, SetAt, Get
  <1> QED
    BY <1>3, <1>4, <1>5, <1>7

\* A key that is there is at its place.
LEMMA Placed ==
  ASSUME MapInv, NEW k \in Keys, SetContains(keys, k)
  PROVE  /\ keys.indexes[k] - 1 \in 0 .. Length - 1
         /\ keys.values[keys.indexes[k]] = k
  <1>1. k \in Bytes32
    BY RoundTrip, MapAssumption DEF Keys
  <1>2. /\ keys.values \in Seq(Bytes32) /\ Len(keys.values) \in Nat
        /\ DOMAIN keys.values = 1 .. Len(keys.values)
    BY DEF MapInv, Sets
  <1>3. keys.indexes[k] \in 1 .. Len(keys.values) /\ keys.values[keys.indexes[k]] = k
    BY <1>1, <1>2 DEF MapInv, Agree
  <1> QED
    BY <1>2, <1>3 DEF Length, SetLength

\* at lists what tryGet and get find, each key once, for every type of key and value:
\* though both trust a value that is not 0 without asking for the key.
THEOREM MapIsListed == Spec => []ListedIsFound
  <1>1. ASSUME MapInv PROVE ListedIsFound
    <2> DEFINE listed == {At(i) : i \in 0 .. Length - 1}
               found == {<<k, Get(k)>> : k \in {j \in Keys : CanGet(j)}}
    <2>1. ASSUME NEW i \in 0 .. Length - 1 PROVE At(i) \in found
      <3>1. PICK k \in Keys : k = keys.values[i + 1] /\ SetContains(keys, k)
        BY <1>1, Listed
      <3>2. At(i) = <<k, Get(k)>>
        BY <1>1, <3>1, Listed
      <3>3. CanGet(k)
        BY <1>1, <3>1, Answers
      <3> QED
        BY <3>2, <3>3
    <2>2. ASSUME NEW k \in Keys, CanGet(k) PROVE <<k, Get(k)>> \in listed
      <3>1. SetContains(keys, k)
        BY <1>1, <2>2, Answers
      <3>2. k \in Bytes32 /\ keys.indexes[k] \in Nat
        BY <1>1, Answers DEF MapInv, Sets
      <3>3. PICK i \in 0 .. Length - 1 : i = keys.indexes[k] - 1 /\ keys.values[i + 1] = k
        <4>1. (keys.indexes[k] - 1) + 1 = keys.indexes[k]
          BY <3>2
        <4> QED
          BY <1>1, <3>1, <4>1, Placed
      <3>4. At(i) = <<k, Get(k)>>
        BY <1>1, <3>3, Listed
      <3> QED
        BY <3>4
    <2>3. listed = found
      <3>1. listed \subseteq found
        BY <2>1
      <3>2. found \subseteq listed
        BY <2>2
      <3> QED
        BY <3>1, <3>2
    <2>4. ASSUME NEW k \in Keys PROVE TryGet(k) = <<Contains(k), Get(k)>>
      <3>1. TryGet(k) = <<CanGet(k), Get(k)>>
        BY DEF TryGet, TryGetWord, CanGet, CanGetWord, Get
      <3>2. (CanGet(k)) = (Contains(k))
        <4>1. CanGet(k) <=> Contains(k)
          BY <1>1, Answers
        <4>2. CanGet(k) \in BOOLEAN /\ Contains(k) \in BOOLEAN
          BY DEF CanGet, CanGetWord, ContainsWord, SetContains, Contains
        <4> QED
          BY <4>1, <4>2
      <3> QED
        BY <3>1, <3>2
    <2>5. ASSUME NEW i \in 0 .. Length - 1, NEW j \in 0 .. Length - 1, i # j
          PROVE  At(i)[1] # At(j)[1]
      <3>1. /\ At(i)[1] = keys.values[i + 1] /\ keys.indexes[keys.values[i + 1]] = i + 1
            /\ At(j)[1] = keys.values[j + 1] /\ keys.indexes[keys.values[j + 1]] = j + 1
        BY <1>1, Listed
      <3>2. i + 1 # j + 1
        BY <2>5
      <3> QED
        BY <3>1, <3>2
    <2> QED
      BY <2>3, <2>4, <2>5 DEF ListedIsFound
  <1> QED
    BY <1>1, MapInit, MapStep, PTL DEF Spec

-----------------------------------------------------------------------------
(* The set.                                                                 *)

SetInv ==
    /\ set \in Sets
    /\ Agree(set)
    /\ \A w \in Bytes32 : SetContains(set, w) => w \in ValuesOf(SetType)

\* The operators of the set as its mock sees them
LEMMA MockOperators ==
  /\ EnumerableSetMock!EmptySet = EmptySet
  /\ \A s, v : /\ EnumerableSetMock!Added(s, v) = Added(s, v)
               /\ EnumerableSetMock!Removed(s, v) = Removed(s, v)
  /\ \A t, v : /\ EnumerableSetMock!ToBytes32(t, v) = ToBytes32(t, v)
               /\ EnumerableSetMock!FromBytes32(t, v) = FromBytes32(t, v)
               /\ EnumerableSetMock!ValuesOf(t) = ValuesOf(t)
  BY DEF EnumerableSetMock!EmptySet, EmptySet, EnumerableSetMock!Bytes32, Bytes32,
         EnumerableSetMock!Added, Added, EnumerableSetMock!SetContains, SetContains,
         EnumerableSetMock!Removed, Removed, EnumerableSetMock!ToBytes32, ToBytes32,
         EnumerableSetMock!FromBytes32, FromBytes32, EnumerableSetMock!ValuesOf, ValuesOf

LEMMA MockCardinality == \A S : EnumerableSetMock!Cardinality(S) = Cardinality(S)
  BY DEF EnumerableSetMock!Cardinality, Cardinality

\* What a step of the mock does to its set
LEMMA SetSteps ==
  ASSUME [EnumerableSetMock!Next]_(EnumerableSetMock!vars)
  PROVE  \/ \E v \in ValuesOf(SetType) :
              /\ v \in Bytes32
              /\ \/ set' = Added(set, v)
                 \/ set' = Removed(set, v)
         \/ set' = set
  <1>1. ASSUME NEW v \in ValuesOf(SetType), EnumerableSetMock!Add(v)
        PROVE  v \in Bytes32 /\ set' = Added(set, v)
    BY <1>1, RoundTrip, MockOperators DEF EnumerableSetMock!Add
  <1>2. ASSUME NEW v \in ValuesOf(SetType), EnumerableSetMock!Remove(v)
        PROVE  v \in Bytes32 /\ set' = Removed(set, v)
    BY <1>2, RoundTrip, MockOperators DEF EnumerableSetMock!Remove
  <1>3. CASE UNCHANGED EnumerableSetMock!vars
    BY <1>3 DEF EnumerableSetMock!vars
  <1> QED
    BY <1>1, <1>2, <1>3, MockOperators DEF EnumerableSetMock!Next

LEMMA SetInit == EnumerableSetMock!Init => SetInv
  <1> SUFFICES ASSUME EnumerableSetMock!Init PROVE SetInv
    OBVIOUS
  <1>1. set = EmptySet
    BY MockOperators DEF EnumerableSetMock!Init
  <1>2. set.values = << >> /\ set.indexes = [w \in Bytes32 |-> 0]
    BY <1>1 DEF EmptySet
  <1> QED
    BY <1>1, <1>2 DEF SetInv, EmptySet, Sets, Agree, SetContains

LEMMA SetStep == SetInv /\ [EnumerableSetMock!Next]_(EnumerableSetMock!vars) => SetInv'
  <1> SUFFICES ASSUME SetInv, [EnumerableSetMock!Next]_(EnumerableSetMock!vars) PROVE SetInv'
    OBVIOUS
  <1>1. ASSUME NEW v \in ValuesOf(SetType), v \in Bytes32, set' = Added(set, v) PROVE SetInv'
    <2>1. /\ set' \in Sets /\ Agree(set')
          /\ \A w \in Bytes32 : SetContains(set', w) <=> w = v \/ SetContains(set, w)
      BY <1>1, AddedAgrees DEF SetInv
    <2> QED
      BY <1>1, <2>1 DEF SetInv, Agree
  <1>2. ASSUME NEW v \in ValuesOf(SetType), v \in Bytes32, set' = Removed(set, v) PROVE SetInv'
    <2>1. /\ set' \in Sets /\ Agree(set')
          /\ \A w \in Bytes32 : SetContains(set', w) <=> w # v /\ SetContains(set, w)
      BY <1>2, RemovedAgrees DEF SetInv
    <2> QED
      BY <1>2, <2>1 DEF SetInv, Agree
  <1>3. CASE set' = set
    BY <1>3 DEF SetInv, Agree
  <1> QED
    BY <1>1, <1>2, <1>3, SetSteps

\* What values, length and contains answer
LEMMA MockAnswers ==
  ASSUME SetInv
  PROVE  /\ Len(set.values) \in Nat
         /\ DOMAIN set.values = 1 .. Len(set.values)
         /\ \A k \in 1 .. Len(set.values) :
               /\ set.values[k] \in ValuesOf(SetType)
               /\ set.indexes[set.values[k]] = k
         /\ EnumerableSetMock!Length = Len(set.values)
         /\ EnumerableSetMock!Values = set.values
         /\ EnumerableSetMock!Members = {v \in ValuesOf(SetType) : set.indexes[v] # 0}
         /\ \A i \in 0 .. Len(set.values) - 1 : EnumerableSetMock!At(i) = set.values[i + 1]
  <1>1. /\ set.values \in Seq(Bytes32) /\ Len(set.values) \in Nat
        /\ DOMAIN set.values = 1 .. Len(set.values)
    BY DEF SetInv, Sets
  <1>2. ASSUME NEW k \in 1 .. Len(set.values)
        PROVE  /\ set.values[k] \in ValuesOf(SetType)
               /\ set.indexes[set.values[k]] = k
               /\ FromBytes32(SetType, set.values[k]) = set.values[k]
    <2>1. set.values[k] \in Bytes32 /\ set.indexes[set.values[k]] = k
      BY <1>1 DEF SetInv, Agree
    <2>2. set.values[k] \in ValuesOf(SetType)
      BY <1>1, <2>1 DEF SetInv, SetContains
    <2> QED
      BY <2>1, <2>2, RoundTrip
  <1>3. EnumerableSetMock!Length = Len(set.values)
    BY DEF EnumerableSetMock!Length, EnumerableSetMock!SetLength
  <1>4. EnumerableSetMock!Values = set.values
    <2>1. EnumerableSetMock!Values = [k \in 1 .. Len(set.values) |-> set.values[k]]
      BY <1>2, <1>3, MockOperators DEF EnumerableSetMock!Values, EnumerableSetMock!SetValues
    <2> QED
      BY <1>1, <2>1
  <1>5. EnumerableSetMock!Members = {v \in ValuesOf(SetType) : set.indexes[v] # 0}
    BY RoundTrip, MockOperators
       DEF EnumerableSetMock!Members, EnumerableSetMock!Contains, EnumerableSetMock!SetContains
  <1>6. ASSUME NEW i \in 0 .. Len(set.values) - 1
        PROVE  EnumerableSetMock!At(i) = set.values[i + 1]
    <2>1. i + 1 \in 1 .. Len(set.values)
      BY <1>1
    <2> QED
      BY <1>2, <2>1, MockOperators DEF EnumerableSetMock!At, EnumerableSetMock!SetAt
  <1> QED
    BY <1>1, <1>2, <1>3, <1>4, <1>5, <1>6

LEMMA MembersListed ==
  ASSUME SetInv, NEW v \in EnumerableSetMock!Members
  PROVE  set.indexes[v] \in 1 .. Len(set.values) /\ set.values[set.indexes[v]] = v
  <1>1. v \in ValuesOf(SetType) /\ set.indexes[v] # 0 /\ v \in Bytes32
    BY MockAnswers, RoundTrip
  <1> QED
    BY <1>1, MockAnswers DEF SetInv, Agree, SetContains

\* values and at list the members of a set of any type, each once, after any sequence of
\* additions and removals.
THEOREM SetIsListed == EnumerableSetMock!Spec => []ListsMembers
  <1>1. ASSUME SetInv PROVE ListsMembers
    <2> DEFINE n == Len(set.values)
               members == EnumerableSetMock!Members
               place == [k \in 1 .. n |-> set.values[k]]
    <2>1. /\ n \in Nat /\ DOMAIN set.values = 1 .. n
          /\ \A k \in 1 .. n : set.values[k] \in ValuesOf(SetType)
                               /\ set.indexes[set.values[k]] = k
      BY <1>1, MockAnswers
    <2>2. \A k \in 1 .. n : set.values[k] \in members
      <3>1. \A k \in 1 .. n : set.indexes[set.values[k]] # 0
        BY <2>1
      <3> QED
        BY <1>1, <2>1, <3>1, MockAnswers
    <2>3. \A v \in members : set.indexes[v] \in 1 .. n /\ set.values[set.indexes[v]] = v
      BY <1>1, MembersListed
    <2> HIDE DEF n, members
    <2>4. members = {set.values[k] : k \in DOMAIN set.values}
      BY <2>1, <2>2, <2>3
    <2>5. place \in Bijection(1 .. n, members)
      BY <2>1, <2>2, <2>3 DEF Bijection, Injection, Surjection, IsInjective
    <2>6. n = Cardinality(members)
      <3>1. ExistsBijection(1 .. n, members)
        BY <2>5 DEF ExistsBijection
      <3>2. IsFiniteSet(1 .. n) /\ Cardinality(1 .. n) = n
        BY <2>1, FS_Interval
      <3> QED
        BY <3>1, <3>2, FS_Bijection
    <2>7. /\ EnumerableSetMock!Values = set.values
          /\ EnumerableSetMock!Length = n
          /\ \A i \in 0 .. n - 1 : EnumerableSetMock!At(i) = set.values[i + 1]
      BY <1>1, MockAnswers DEF n
    <2>8. members = {EnumerableSetMock!Values[k] : k \in DOMAIN EnumerableSetMock!Values}
      BY <2>4, <2>7
    <2>9. \A i \in 0 .. EnumerableSetMock!Length - 1 :
             EnumerableSetMock!At(i) = EnumerableSetMock!Values[i + 1]
      BY <2>7
    <2>10. EnumerableSetMock!Length = Cardinality(EnumerableSetMock!Members)
      BY <2>6, <2>7 DEF members
    <2>11. EnumerableSetMock!Members =
             {EnumerableSetMock!Values[k] : k \in DOMAIN EnumerableSetMock!Values}
      BY <2>8 DEF members
    <2> QED
      BY ONLY <2>9, <2>10, <2>11, MockCardinality, Zenon DEF ListsMembers, EnumerableSetMock!ListsMembers
  <1> QED
    BY <1>1, SetInit, SetStep, PTL DEF EnumerableSetMock!Spec

\* What values and contains answer, before and after a step
SetShown ==
    /\ Len(set.values) \in Nat
    /\ EnumerableSetMock!Length = Len(set.values)
    /\ EnumerableSetMock!Values = set.values
    /\ EnumerableSetMock!Members = {v \in ValuesOf(SetType) : set.indexes[v] # 0}

LEMMA AlwaysShown == SetInv => SetShown
  BY MockAnswers DEF SetShown

\* Where the values are after a step, if only one can be elsewhere than before
LEMMA Unmoved ==
  ASSUME SetInv, SetInv', SetShown', NEW last,
         \A k \in 1 .. Len(set.values) :
            \/ k \in DOMAIN set'.values /\ set'.values[k] = set.values[k]
            \/ set.values[k] = last
            \/ set'.indexes[set.values[k]] = 0
  PROVE  EnumerableSetMock!Displaced \subseteq {last}
  <1> SUFFICES ASSUME NEW v \in EnumerableSetMock!Displaced, v # last PROVE FALSE
    OBVIOUS
  <1>1. /\ v \in EnumerableSetMock!Members
        /\ v \in EnumerableSetMock!Members'
        /\ \A i \in DOMAIN set.values \cap DOMAIN set'.values :
              ~ (set.values[i] = v /\ set'.values[i] = v)
    BY MockAnswers DEF EnumerableSetMock!Displaced, SetShown
  <1>2. PICK k \in 1 .. Len(set.values) : set.values[k] = v
    BY <1>1, MembersListed
  <1>3. set'.indexes[v] # 0
    BY <1>1 DEF SetShown
  <1>4. k \in DOMAIN set'.values /\ set'.values[k] = v
    BY <1>2, <1>3
  <1>5. k \in DOMAIN set.values
    BY <1>2, MockAnswers
  <1> QED
    BY <1>1, <1>2, <1>4, <1>5

LEMMA AtMostOne ==
  ASSUME NEW S, NEW x, S \subseteq {x}
  PROVE  EnumerableSetMock!Cardinality(S) <= 1
  <1>1. IsFiniteSet({x}) /\ Cardinality({x}) = 1
    BY FS_Singleton
  <1>2. Cardinality(S) <= 1
    BY <1>1, FS_Subset
  <1> QED
    BY <1>2, MockCardinality

\* "This modifies the order of the array": of the values that stay one moves at most, and
\* that is the last one, so that a loop from the end that removes what is at hand misses none.
THEOREM OneValueMoves == EnumerableSetMock!Spec => OneMoves
  <1> DEFINE Kept == /\ EnumerableSetMock!Cardinality(EnumerableSetMock!Displaced) <= 1
                     /\ \A v \in EnumerableSetMock!Displaced :
                           EnumerableSetMock!Values[EnumerableSetMock!Length] = v
             n == Len(set.values)
  <1>1. ASSUME SetInv, SetInv', SetShown', [EnumerableSetMock!Next]_(EnumerableSetMock!vars)
        PROVE  Kept
    <2>1. /\ set \in Sets /\ Agree(set) /\ set.values \in Seq(Bytes32) /\ n \in Nat
          /\ DOMAIN set.values = 1 .. n
          /\ EnumerableSetMock!Values = set.values /\ EnumerableSetMock!Length = n
      BY <1>1, MockAnswers DEF SetInv, Sets
    <2>2. ASSUME NEW v \in Bytes32, set' = Added(set, v), ~ SetContains(set, v)
          PROVE  \A k \in 1 .. n : k \in DOMAIN set'.values /\ set'.values[k] = set.values[k]
      <3>1. set'.values = Append(set.values, v)
        BY <2>2 DEF Added
      <3> QED
        BY <2>1, <3>1
    <2>3. ASSUME NEW v \in Bytes32, set' = Removed(set, v), SetContains(set, v),
                 NEW k \in 1 .. n
          PROVE  \/ k \in DOMAIN set'.values /\ set'.values[k] = set.values[k]
                 \/ set.values[k] = set.values[n]
                 \/ set'.indexes[set.values[k]] = 0
      <3> DEFINE at == set.indexes[v]
                 moved == [set.values EXCEPT ![at] = set.values[n]]
      <3>1. at \in 1 .. n /\ set.values[at] = v
        BY <2>1, <2>3 DEF Agree
      <3>2. CASE k = at
        <4>1. ~ SetContains(set', v)
          BY <2>1, <2>3, RemovedAgrees
        <4> QED
          BY <3>1, <3>2, <4>1 DEF SetContains
      <3>3. CASE k # at /\ k # n
        <4>1. moved \in Seq(Bytes32) /\ Len(moved) = n /\ moved[k] = set.values[k]
          <5>1. set.values[n] \in Bytes32
            BY <2>1, <3>1
          <5> QED
            BY <2>1, <3>1, <3>3, <5>1
        <4>2. set'.values = SubSeq(moved, 1, n - 1)
          BY <2>3, <2>1, <3>1 DEF Removed
        <4> HIDE DEF moved
        <4>3. k \in 1 .. n - 1
          BY <2>1, <3>3
        <4> QED
          BY <2>1, <4>1, <4>2, <4>3, SubSeqProperties
      <3> QED
        BY <3>2, <3>3
    <2>4. EnumerableSetMock!Displaced \subseteq {set.values[n]}
      <3>1. SUFFICES \A k \in 1 .. n : \/ k \in DOMAIN set'.values /\ set'.values[k] = set.values[k]
                                       \/ set.values[k] = set.values[n]
                                       \/ set'.indexes[set.values[k]] = 0
        BY <1>1, Unmoved
      <3>2. CASE set' = set
        BY <2>1, <3>2
      <3>3. ASSUME NEW v \in Bytes32, set' = Added(set, v) \/ set' = Removed(set, v),
                   set' # set
            PROVE  /\ set' = Added(set, v) => ~ SetContains(set, v)
                   /\ set' = Removed(set, v) => SetContains(set, v)
        BY <3>3 DEF Added, Removed, SetContains
      <3> QED
        BY <1>1, <2>2, <2>3, <3>2, <3>3, SetSteps
    <2> QED
      BY <2>1, <2>4, AtMostOne
  <1>2. SetInv' => SetShown'
    BY AlwaysShown, PTL
  <1>3. SetInv /\ SetInv' /\ [EnumerableSetMock!Next]_(EnumerableSetMock!vars) =>
          [Kept]_(EnumerableSetMock!vars)
    BY <1>1, <1>2
  <1> HIDE DEF Kept
  <1>4. EnumerableSetMock!Spec => [][Kept]_(EnumerableSetMock!vars)
    BY <1>3, SetInit, SetStep, PTL DEF EnumerableSetMock!Spec
  <1> QED
    BY <1>4 DEF Kept, OneMoves, EnumerableSetMock!OneMoves
-----------------------------------------------------------------------------
(* Powers of 2, which are the numbers of subsets.                           *)

LEMMA PowerIsNumber ==
  ASSUME NEW n \in Nat
  PROVE  /\ 2 ^ n = Cardinality(SUBSET (1 .. n))
         /\ IsFiniteSet(SUBSET (1 .. n))
         /\ 2 ^ n \in Nat /\ 2 ^ n >= 1
  <1>1. IsFiniteSet(1 .. n) /\ Cardinality(1 .. n) = n
    BY FS_Interval
  <1>2. IsFiniteSet(SUBSET (1 .. n)) /\ Cardinality(SUBSET (1 .. n)) = 2 ^ n
    BY <1>1, FS_SUBSET
  <1>3. Cardinality(SUBSET (1 .. n)) \in Nat
    BY <1>2, FS_CardinalityType
  <1>4. Cardinality(SUBSET (1 .. n)) # 0
    <2>1. {} \in SUBSET (1 .. n)
      OBVIOUS
    <2> QED
      BY <1>2, <2>1, FS_EmptySet
  <1> QED
    BY <1>2, <1>3, <1>4

LEMMA PowerGrows ==
  ASSUME NEW m \in Nat, NEW n \in Nat, m <= n
  PROVE  2 ^ m <= 2 ^ n
  <1>1. SUBSET (1 .. m) \subseteq SUBSET (1 .. n)
    OBVIOUS
  <1>2. Cardinality(SUBSET (1 .. m)) <= Cardinality(SUBSET (1 .. n))
    BY <1>1, PowerIsNumber, FS_Subset
  <1> QED
    BY <1>2, PowerIsNumber

\* The sets with n + 1 are as many as those without.
LEMMA PowerDoubles ==
  ASSUME NEW n \in Nat
  PROVE  2 ^ (n + 1) = 2 ^ n + 2 ^ n
  <1> DEFINE without == SUBSET (1 .. n)
             with == {s \in SUBSET (1 .. n + 1) : n + 1 \in s}
             grow == [s \in without |-> s \union {n + 1}]
  <1>1. SUBSET (1 .. n + 1) = without \union with
    OBVIOUS
  <1>2. without \cap with = {}
    OBVIOUS
  <1>3. grow \in Bijection(without, with)
    <2>1. grow \in [without -> with]
      OBVIOUS
    <2>2. ASSUME NEW s \in without, NEW t \in without, grow[s] = grow[t] PROVE s = t
      BY <2>2
    <2>3. ASSUME NEW t \in with PROVE \E s \in without : grow[s] = t
      <3>1. t \ {n + 1} \in without
        OBVIOUS
      <3>2. grow[t \ {n + 1}] = t
        BY <3>1
      <3> QED
        BY <3>1, <3>2
    <2> HIDE DEF grow, without, with
    <2> QED
      BY <2>1, <2>2, <2>3 DEF Bijection, Injection, Surjection, IsInjective
  <1>4. IsFiniteSet(without) /\ Cardinality(without) = 2 ^ n /\ 2 ^ n \in Nat
    BY PowerIsNumber
  <1>5. Cardinality(SUBSET (1 .. n + 1)) = 2 ^ (n + 1)
    BY PowerIsNumber
  <1> HIDE DEF grow, without, with
  <1>6. IsFiniteSet(with) /\ Cardinality(with) = Cardinality(without)
    BY <1>3, <1>4, FS_Bijection DEF ExistsBijection
  <1>7. Cardinality(without \union with) = Cardinality(without) + Cardinality(with)
    <2>1. Cardinality(without \cap with) = 0
      BY <1>2, FS_EmptySet
    <2>2. Cardinality(without) \in Nat /\ Cardinality(with) \in Nat
      BY <1>4, <1>6
    <2>3. Cardinality(without \union with) =
             Cardinality(without) + Cardinality(with) - Cardinality(without \cap with)
      BY <1>4, <1>6, FS_Union
    <2> QED
      BY <2>1, <2>2, <2>3
  <1> QED
    BY <1>1, <1>4, <1>5, <1>6, <1>7
-----------------------------------------------------------------------------
(* The casts.                                                               *)

\* The low bits of a number that fits are the number.
LEMMA LowBits ==
  ASSUME NEW p \in Nat, NEW x \in Nat, x < p
  PROVE  x % p = x
  OBVIOUS

\* A signed word has one bit less for numbers that are not negative.
LEMMA SignBit ==
  /\ Word - 1 \in Nat
  /\ 2 ^ (Word - 1) \in Nat /\ 2 ^ (Word - 1) >= 1
  /\ 2 ^ Word \in Nat
  /\ 2 ^ (Word - 1) <= 2 ^ Word
  <1>1. Word - 1 \in Nat /\ Word \in Nat /\ Word - 1 <= Word
    BY WidthAssumption
  <1> QED
    BY <1>1, PowerIsNumber, PowerGrows

\* A number is what a word of its sign can hold, and what was given.
CastInv ==
    /\ number = given
    /\ signed \in BOOLEAN
    /\ number \in Int
    /\ IF signed THEN -(2 ^ (Word - 1)) <= number /\ number < 2 ^ (Word - 1)
                 ELSE 0 <= number /\ number < 2 ^ Word

LEMMA CastInit == Casts!Init => CastInv
  <1> SUFFICES ASSUME Casts!Init PROVE CastInv
    OBVIOUS
  <1> DEFINE half == 2 ^ (Word - 1)
             whole == 2 ^ Word
  <1>1. half \in Nat /\ whole \in Nat
    BY SignBit
  <1>2. /\ given = number
        /\ \/ signed = FALSE /\ number \in 0 .. whole - 1
           \/ signed = TRUE /\ number \in -half .. half - 1
    BY DEF Casts!Init, Casts!UintMax, Casts!IntMin, Casts!IntMax
  <1> HIDE DEF half, whole
  <1>3. /\ signed \in BOOLEAN /\ number \in Int
        /\ IF signed THEN -half <= number /\ number < half ELSE 0 <= number /\ number < whole
    <2>1. CASE signed = FALSE /\ number \in 0 .. whole - 1
      <3>1. number \in Int /\ 0 <= number /\ number < whole
        BY <1>1, <2>1
      <3> QED
        BY <2>1, <3>1
    <2>2. CASE signed = TRUE /\ number \in -half .. half - 1
      <3>1. -half \in Int /\ half - 1 \in Int
        BY <1>1
      <3>2. number \in Int /\ -half <= number /\ number <= half - 1
        BY <2>2, <3>1
      <3> QED
        BY <1>1, <2>2, <3>2
    <2> QED
      BY <1>2, <2>1, <2>2
  <1> QED
    BY <1>2, <1>3 DEF CastInv, half, whole

\* A cast that lets a number through lets it through unchanged.
LEMMA CastStep == CastInv /\ [Casts!Next]_(Casts!vars) => CastInv'
  <1> SUFFICES ASSUME CastInv, [Casts!Next]_(Casts!vars) PROVE CastInv'
    OBVIOUS
  <1> DEFINE half == 2 ^ (Word - 1)
             whole == 2 ^ Word
  <1>1. half \in Nat /\ half >= 1 /\ whole \in Nat /\ half <= whole
    BY SignBit
  <1>2. /\ number = given /\ signed \in BOOLEAN /\ number \in Int
        /\ IF signed THEN -half <= number /\ number < half ELSE 0 <= number /\ number < whole
    BY DEF CastInv
  <1>3. ASSUME NEW bits \in Lengths, Casts!ToUintDownCast(bits)
        PROVE  number' = number /\ UNCHANGED <<given, signed>>
    <2> DEFINE p == 2 ^ bits
    <2>1. p \in Nat
      BY PowerIsNumber, WidthAssumption
    <2>2. ~ signed /\ number <= p - 1 /\ number' = number % p /\ UNCHANGED <<given, signed>>
      BY <1>3 DEF Casts!ToUintDownCast, Casts!FitsUint, Casts!UintMax, Casts!UintCast
    <2> HIDE DEF p, half, whole
    <2>3. number \in Nat /\ number < p
      BY <1>2, <2>1, <2>2
    <2> QED
      BY <2>1, <2>2, <2>3, LowBits
  <1>4. ASSUME NEW bits \in Lengths, Casts!ToIntDownCast(bits)
        PROVE  number' = number /\ UNCHANGED <<given, signed>>
    BY <1>4 DEF Casts!ToIntDownCast, Casts!FitsInt
  <1>5. ASSUME Casts!ToInt
        PROVE  number' = number /\ number < half /\ number >= 0 /\ signed' = TRUE /\ given' = given
    <2>1. /\ ~ signed /\ number <= half - 1 /\ signed' = TRUE /\ given' = given
          /\ number' = IF number % whole > half - 1 THEN (number % whole) - whole
                                                    ELSE number % whole
      BY <1>5 DEF Casts!ToInt, Casts!FitsSign, Casts!IntMax, Casts!IntCast, Casts!UintCast
    <2> HIDE DEF half, whole
    <2>2. number \in Nat /\ number < whole
      BY <1>1, <1>2, <2>1
    <2>3. number % whole = number
      BY <1>1, <2>2, LowBits
    <2> QED
      BY <1>1, <2>1, <2>2, <2>3
  <1>6. ASSUME Casts!ToUint
        PROVE  number' = number /\ number >= 0 /\ number < whole /\ signed' = FALSE /\ given' = given
    <2>1. signed /\ number >= 0 /\ number' = number % whole /\ signed' = FALSE /\ given' = given
      BY <1>6 DEF Casts!ToUint, Casts!FitsNoSign, Casts!UintCast
    <2> HIDE DEF half, whole
    <2>2. number \in Nat /\ number < whole
      BY <1>1, <1>2, <2>1
    <2> QED
      BY <1>1, <2>1, <2>2, LowBits
  <1>7. CASE UNCHANGED Casts!vars
    <2>1. number' = number /\ UNCHANGED <<given, signed>>
      BY <1>7 DEF Casts!vars
    <2> QED
      BY <2>1 DEF CastInv
  <1>8. CASE number' = number /\ UNCHANGED <<given, signed>>
    BY <1>8 DEF CastInv
  <1>9. CASE Casts!ToInt
    <2>1. /\ number' = given' /\ signed' \in BOOLEAN /\ number' \in Int
          /\ signed' /\ -half <= number' /\ number' < half
      <3> HIDE DEF half, whole
      <3> QED
        BY <1>1, <1>2, <1>5, <1>9
    <2> QED
      BY <2>1 DEF CastInv
  <1>10. CASE Casts!ToUint
    <2>1. /\ number' = given' /\ signed' \in BOOLEAN /\ number' \in Int
          /\ ~ signed' /\ 0 <= number' /\ number' < whole
      BY <1>2, <1>6, <1>10
    <2> QED
      BY <2>1 DEF CastInv
  <1> QED
    BY <1>3, <1>4, <1>7, <1>8, <1>9, <1>10 DEF Casts!Next

\* However wide a word is and whatever the widths of the other types: no chain of checked
\* casts changes a number.
THEOREM CastsKeepNumbers == Casts!Spec => []NumberKept
  <1>1. CastInv => NumberKept
    BY DEF CastInv, NumberKept, Casts!NumberKept
  <1> QED
    BY <1>1, CastInit, CastStep, PTL DEF Casts!Spec
-----------------------------------------------------------------------------
(* The lookups.                                                             *)

\* Everything below low comes before the place that is looked for, and nothing from high
\* on: what a turn of either loop keeps, because the keys increase.
Bracketed ==
    /\ \A pos \in 0 .. range.low - 1 : Before(pos)
    /\ \A pos \in range.high .. Len(cs) - 1 : ~ Before(pos)

LookupInv == LookupTypeOK /\ Bracketed

\* The facts about a history that the proofs use, with positions counted from 0.
LEMMA HistoryFacts ==
    ASSUME NEW h \in Histories
    PROVE  /\ Len(h) \in Nat
           /\ \A pos \in 0 .. Len(h) - 1 : Access(h, pos).key \in Nat
           /\ \A p, q \in 0 .. Len(h) - 1 : p < q => Access(h, p).key < Access(h, q).key
<1>1. h \in Seq([key : Nat, value : Nat])
  BY HistoriesAssumption
<1>2. Len(h) \in Nat
  BY <1>1
<1>3. \A i \in 1 .. Len(h) : h[i] \in [key : Nat, value : Nat]
  BY <1>1, ElementOfSeq
<1>4. \A i, j \in 1 .. Len(h) : i < j => h[i].key < h[j].key
  BY HistoriesAssumption
<1>5. \A pos \in 0 .. Len(h) - 1 : pos + 1 \in 1 .. Len(h)
  BY <1>2
<1> QED
  BY <1>2, <1>3, <1>4, <1>5 DEF Access

\* The middle of a range that is not empty lies in it.
LEMMA Middle ==
    ASSUME NEW a \in Nat, NEW b \in Nat, a < b
    PROVE  Average(a, b) \in a .. b - 1
BY DEF Average

LEMMA LookupStarts == LookupInit => LookupInv
<1> SUFFICES ASSUME LookupInit PROVE LookupInv
  OBVIOUS
<1> DEFINE n == Len(cs)
<1>1. cs \in Histories /\ key \in SearchKeys /\ key \in Nat /\ upper \in BOOLEAN
  BY HistoriesAssumption DEF LookupInit
<1>2. /\ n \in Nat
      /\ \A pos \in 0 .. n - 1 : Access(cs, pos).key \in Nat
      /\ \A p, q \in 0 .. n - 1 : p < q => Access(cs, p).key < Access(cs, q).key
  BY <1>1, HistoryFacts
<1> HIDE DEF n
<1>3. CASE range = Whole
  <2>1. range.low = 0 /\ range.high = n
    BY <1>3 DEF Whole, n
  <2>2. LookupTypeOK
    BY <1>1, <1>2, <1>3 DEF LookupTypeOK, Whole, n
  <2>3. Bracketed
    BY <2>1, <1>2 DEF Bracketed, n
  <2> QED BY <2>2, <2>3 DEF LookupInv
<1>4. CASE upper /\ \E mid \in 0 .. Len(cs) - 1 : range = SplitAt(cs, key, mid)
  <2>1. PICK mid \in 0 .. n - 1 : range = SplitAt(cs, key, mid)
    BY <1>4 DEF n
  <2>2. upper
    BY <1>4
  <2>3. CASE key < Access(cs, mid).key
    <3>1. range = [low |-> 0, high |-> mid]
      BY <2>1, <2>3 DEF SplitAt
    <3>2. \A pos \in mid .. n - 1 : key < Access(cs, pos).key
      BY <1>1, <1>2, <2>3
    <3>3. LookupTypeOK
      BY <1>1, <1>2, <3>1 DEF LookupTypeOK, n
    <3>4. Bracketed
      BY <3>1, <3>2, <2>2, <1>1, <1>2 DEF Bracketed, Before, n
    <3> QED BY <3>3, <3>4 DEF LookupInv
  <2>4. CASE ~ (key < Access(cs, mid).key)
    <3>1. range = [low |-> mid + 1, high |-> n]
      BY <2>1, <2>4 DEF SplitAt, n
    <3>2. \A pos \in 0 .. mid : Access(cs, pos).key <= key
      BY <1>1, <1>2, <2>4
    <3>3. LookupTypeOK
      BY <1>1, <1>2, <3>1 DEF LookupTypeOK, n
    <3>4. Bracketed
      BY <3>1, <3>2, <2>2, <1>1, <1>2 DEF Bracketed, Before, n
    <3> QED BY <3>3, <3>4 DEF LookupInv
  <2> QED BY <2>3, <2>4
<1> QED BY <1>3, <1>4 DEF LookupInit

LEMMA TurnKeeps == LookupInv /\ Turn => LookupInv'
<1> SUFFICES ASSUME LookupInv, Turn PROVE LookupInv'
  OBVIOUS
<1> DEFINE n == Len(cs)
           mid == Average(range.low, range.high)
<1>1. /\ cs \in Histories /\ key \in SearchKeys /\ key \in Nat /\ upper \in BOOLEAN
      /\ cs' = cs /\ key' = key /\ upper' = upper
  BY HistoriesAssumption DEF LookupInv, LookupTypeOK, Turn
<1>2. /\ n \in Nat
      /\ \A pos \in 0 .. n - 1 : Access(cs, pos).key \in Nat
      /\ \A p, q \in 0 .. n - 1 : p < q => Access(cs, p).key < Access(cs, q).key
  BY <1>1, HistoryFacts
<1>3. /\ range \in [low : 0 .. n, high : 0 .. n]
      /\ range.low \in 0 .. n /\ range.high \in 0 .. n /\ range.low < range.high
  BY DEF LookupInv, LookupTypeOK, Turn, Searching
<1>4. mid \in range.low .. range.high - 1
  <2>1. range.low \in Nat /\ range.high \in Nat /\ range.low < range.high
    BY <1>2, <1>3
  <2> QED BY <2>1, Middle
<1>5. mid \in 0 .. n - 1
  BY <1>2, <1>3, <1>4
<1>6. Bracketed
  BY DEF LookupInv
<1>7. \/ range' = [range EXCEPT !.high = mid] /\ ~ Before(mid)
      \/ range' = [range EXCEPT !.low = mid + 1] /\ Before(mid)
  <2>1. Access(cs, mid).key \in Nat
    BY <1>2, <1>5
  <2>2. CASE upper
    <3>1. range' = UpperStep(cs, key, range)
      BY <2>2 DEF Turn
    <3>2. Before(mid) <=> Access(cs, mid).key <= key
      BY <2>2 DEF Before
    <3> HIDE DEF mid
    <3> QED BY <3>1, <3>2, <2>1, <1>1 DEF UpperStep, mid
  <2>3. CASE ~ upper
    <3>1. range' = LowerStep(cs, key, range)
      BY <2>3 DEF Turn
    <3>2. Before(mid) <=> Access(cs, mid).key < key
      BY <2>3 DEF Before
    <3> QED BY <3>1, <3>2, <2>1, <1>1 DEF LowerStep
  <2> QED BY <2>2, <2>3
<1> HIDE DEF n, mid
<1>8. \A pos \in 0 .. n - 1 : Before(pos)' <=> Before(pos)
  BY <1>1 DEF Before
<1>9. CASE range' = [range EXCEPT !.high = mid] /\ ~ Before(mid)
  <2>1. range'.low = range.low /\ range'.high = mid
    BY <1>9, <1>3
  <2>2. \A pos \in mid .. n - 1 : ~ Before(pos)
    BY <1>9, <1>1, <1>2, <1>5 DEF Before
  <2>3. LookupTypeOK'
    <3>1. range' \in [low : 0 .. n, high : 0 .. n]
      BY <1>9, <1>2, <1>3, <1>5
    <3>2. range'.low <= range'.high
      BY <2>1, <1>4, <1>3, <1>2
    <3> QED BY <3>1, <3>2, <1>1 DEF LookupTypeOK, n
  <2>4. \A pos \in 0 .. range.low - 1 : Before(pos)
    BY <1>6 DEF Bracketed
  <2>5. Bracketed'
    <3>1. \A pos \in 0 .. range'.low - 1 : Before(pos)'
      BY <2>1, <2>4, <1>8, <1>2, <1>3
    <3>2. \A pos \in range'.high .. n - 1 : ~ Before(pos)'
      BY <2>1, <2>2, <1>8, <1>2, <1>5
    <3>3. n' = n
      BY <1>1 DEF n
    <3> QED BY <3>1, <3>2, <3>3, <1>1 DEF Bracketed, n
  <2> QED BY <2>3, <2>5 DEF LookupInv
<1>10. CASE range' = [range EXCEPT !.low = mid + 1] /\ Before(mid)
  <2>1. range'.low = mid + 1 /\ range'.high = range.high
    BY <1>10, <1>3
  <2>2. \A pos \in 0 .. mid : Before(pos)
    BY <1>10, <1>1, <1>2, <1>5 DEF Before
  <2>3. LookupTypeOK'
    <3>1. range' \in [low : 0 .. n, high : 0 .. n]
      BY <1>10, <1>2, <1>3, <1>5
    <3>2. range'.low <= range'.high
      BY <2>1, <1>4, <1>3, <1>2
    <3> QED BY <3>1, <3>2, <1>1 DEF LookupTypeOK, n
  <2>4. \A pos \in range.high .. n - 1 : ~ Before(pos)
    BY <1>6 DEF Bracketed, n
  <2>5. Bracketed'
    <3>1. \A pos \in 0 .. range'.low - 1 : Before(pos)'
      BY <2>1, <2>2, <1>8, <1>2, <1>5
    <3>2. \A pos \in range'.high .. n - 1 : ~ Before(pos)'
      BY <2>1, <2>4, <1>8, <1>2, <1>3
    <3>3. n' = n
      BY <1>1 DEF n
    <3> QED BY <3>1, <3>2, <3>3, <1>1 DEF Bracketed, n
  <2> QED BY <2>3, <2>5 DEF LookupInv
<1> QED BY <1>7, <1>9, <1>10

LEMMA StutterKeeps == LookupInv /\ UNCHANGED lookupVars => LookupInv'
<1> SUFFICES ASSUME LookupInv, UNCHANGED lookupVars PROVE LookupInv'
  OBVIOUS
<1>1. cs' = cs /\ key' = key /\ upper' = upper /\ range' = range
  BY DEF lookupVars
<1> QED BY <1>1 DEF LookupInv, LookupTypeOK, Bracketed, Before

LEMMA LookupAlways == LookupSpec => []LookupInv
<1>1. LookupInv /\ [LookupNext]_lookupVars => LookupInv'
  BY TurnKeeps, StutterKeeps DEF LookupNext
<1> QED BY LookupStarts, <1>1, PTL DEF LookupSpec

\* _unsafeAccess is safe: whatever is looked for in whatever history, the loops read only
\* what is in the array.
THEOREM LookupInBounds == LookupSpec => []AccessInArray
<1>1. LookupInv => AccessInArray
  <2> SUFFICES ASSUME LookupInv, Searching PROVE Average(range.low, range.high) < Len(cs)
    BY DEF AccessInArray
  <2>1. Len(cs) \in Nat
    BY HistoryFacts DEF LookupInv, LookupTypeOK
  <2>2. /\ range.low \in Nat /\ range.high \in Nat
        /\ range.low < range.high /\ range.high <= Len(cs)
    BY <2>1 DEF LookupInv, LookupTypeOK, Searching
  <2> QED BY <2>1, <2>2, Middle
<1> QED BY LookupAlways, <1>1, PTL

\* Both lookups end at the place they are documented to find, wherever the recent lookup
\* splits the array.
THEOREM LookupRight == LookupSpec => []Found
<1>1. LookupInv => Found
  <2> SUFFICES ASSUME LookupInv, ~ Searching, NEW pos \in 0 .. Len(cs) - 1
               PROVE  Before(pos) <=> pos < range.high
    BY DEF Found
  <2>1. Len(cs) \in Nat
    BY HistoryFacts DEF LookupInv, LookupTypeOK
  <2>2. range.low \in 0 .. Len(cs) /\ range.high \in 0 .. Len(cs) /\ range.low = range.high
    BY <2>1 DEF LookupInv, LookupTypeOK, Searching
  <2> QED BY <2>1, <2>2 DEF LookupInv, Bracketed
<1> QED BY LookupAlways, <1>1, PTL

-----------------------------------------------------------------------------
(* The loops as recursive functions: on a set R of ranges each has a size,  *)
(* and as long as it is not 0 a step leads to a smaller one.                *)

LOCAL Shrinks(R, size, step) ==
    \A r \in R :
        /\ size[r] \in Nat
        /\ size[r] > 0 => step[r] \in R /\ size[step[r]] < size[r]

LOCAL Recurses(R, size, step, out, f) ==
    \A r \in R : f[r] = IF size[r] > 0 THEN f[step[r]] ELSE out[r]

LOCAL RecursesUpTo(R, size, step, out, f, n) ==
    \A r \in R : size[r] <= n => f[r] = IF size[r] > 0 THEN f[step[r]] ELSE out[r]

LOCAL StaysUntil(Kind, size, step, out, Goal) ==
    \A r \in Kind : IF size[r] > 0 THEN step[r] \in Kind ELSE out[r] \in Goal

LEMMA SearchExists ==
    ASSUME NEW R, NEW size, NEW step, NEW out, Shrinks(R, size, step),
           NEW most \in Nat, \A r \in R : size[r] <= most
    PROVE  \E f : f = [r \in R |-> IF size[r] > 0 THEN f[step[r]] ELSE out[r]]
<1> DEFINE P == {n \in Nat : \E f : RecursesUpTo(R, size, step, out, f, n)}
<1>1. 0 \in P
  <2>1. RecursesUpTo(R, size, step, out, [r \in R |-> out[r]], 0)
    BY DEF RecursesUpTo, Shrinks
  <2> QED BY <2>1
<1>2. ASSUME NEW n \in P PROVE n + 1 \in P
  <2>1. PICK f : RecursesUpTo(R, size, step, out, f, n)
    OBVIOUS
  <2> DEFINE g == [r \in R |-> IF size[r] <= n THEN f[r] ELSE f[step[r]]]
  <2>2. ASSUME NEW r \in R, size[r] <= n + 1
        PROVE  g[r] = IF size[r] > 0 THEN g[step[r]] ELSE out[r]
    <3>1. size[r] \in Nat /\ n \in Nat
      BY DEF Shrinks
    <3>2. CASE size[r] = 0
      BY <2>1, <3>1, <3>2 DEF RecursesUpTo
    <3>3. CASE size[r] > 0
      <4>1. step[r] \in R /\ size[step[r]] \in Nat /\ size[step[r]] <= n
        BY <2>2, <3>1, <3>3 DEF Shrinks
      <4>2. g[step[r]] = f[step[r]]
        BY <4>1
      <4>3. g[r] = f[step[r]]
        <5>1. CASE size[r] <= n
          BY <2>1, <3>3, <5>1 DEF RecursesUpTo
        <5>2. CASE ~ (size[r] <= n)
          BY <5>2
        <5> QED BY <5>1, <5>2
      <4> QED BY <3>3, <4>2, <4>3
    <3> QED BY <3>1, <3>2, <3>3
  <2> HIDE DEF g
  <2>3. RecursesUpTo(R, size, step, out, g, n + 1)
    BY <2>2 DEF RecursesUpTo
  <2> QED BY <2>3
<1>3. most \in P
  <2> HIDE DEF P
  <2>1. P \in SUBSET Nat
    BY DEF P
  <2> QED BY <1>1, <1>2, <2>1, SetInduction
<1>4. PICK f : RecursesUpTo(R, size, step, out, f, most)
  BY <1>3
<1> DEFINE g == [r \in R |-> f[r]]
<1>5. \A r \in R : g[r] = IF size[r] > 0 THEN g[step[r]] ELSE out[r]
  BY <1>4 DEF RecursesUpTo, Shrinks
<1>6. g = [r \in R |-> IF size[r] > 0 THEN g[step[r]] ELSE out[r]]
  BY <1>5
<1> QED BY <1>6

\* What holds of the ranges of a kind that the steps do not leave, where they end.
LEMMA SearchEnds ==
    ASSUME NEW R, NEW size, NEW step, NEW out, Shrinks(R, size, step),
           NEW f, Recurses(R, size, step, out, f),
           NEW Kind \in SUBSET R, NEW Goal, StaysUntil(Kind, size, step, out, Goal)
    PROVE  \A r \in Kind : f[r] \in Goal
<1> DEFINE P == {n \in Nat : \A r \in Kind : size[r] <= n => f[r] \in Goal}
<1>1. 0 \in P
  BY DEF Shrinks, Recurses, StaysUntil
<1>2. ASSUME NEW n \in P PROVE n + 1 \in P
  <2>1. ASSUME NEW r \in Kind, size[r] <= n + 1 PROVE f[r] \in Goal
    <3>1. size[r] \in Nat /\ n \in Nat /\ r \in R
      BY DEF Shrinks
    <3>2. CASE size[r] = 0
      BY <3>1, <3>2 DEF Recurses, StaysUntil
    <3>3. CASE size[r] > 0
      <4>1. step[r] \in Kind /\ size[step[r]] \in Nat /\ size[step[r]] <= n
        BY <2>1, <3>1, <3>3 DEF Shrinks, StaysUntil
      <4> QED BY <3>1, <3>3, <4>1 DEF Recurses
    <3> QED BY <3>1, <3>2, <3>3
  <2> QED BY <2>1
<1>3. P = Nat
  <2> HIDE DEF P
  <2>1. P \in SUBSET Nat
    BY DEF P
  <2> QED BY <1>1, <1>2, <2>1, SetInduction
<1>4. \A n \in Nat : \A r \in Kind : size[r] <= n => f[r] \in Goal
  BY <1>3
<1>5. \A r \in Kind : size[r] \in Nat /\ size[r] <= size[r]
  BY DEF Shrinks
<1> QED BY <1>4, <1>5

-----------------------------------------------------------------------------
(* Both loops, and the place they are to find.                              *)

\* What pushes make: the keys of a history increase.
Ordered(h) ==
    /\ h \in Seq([key : Nat, value : Nat])
    /\ \A i, j \in 1 .. Len(h) : i < j => h[i].key < h[j].key

\* Whether a checkpoint comes before the place the upper or the lower loop looks for
Comes(h, k, up, pos) == IF up THEN Access(h, pos).key <= k ELSE Access(h, pos).key < k

Places(h, k, up) ==
    {p \in 0 .. Len(h) : \A pos \in 0 .. Len(h) - 1 : Comes(h, k, up, pos) <=> pos < p}

\* The ranges that the place is in
Around(h, k, up) ==
    {r \in Ranges(h) :
        /\ r.low <= r.high
        /\ \A pos \in 0 .. r.low - 1 : Comes(h, k, up, pos)
        /\ \A pos \in r.high .. Len(h) - 1 : ~ Comes(h, k, up, pos)}

StepOf(h, k, up, r) == IF up THEN UpperStep(h, k, r) ELSE LowerStep(h, k, r)

LEMMA OrderedFacts ==
    ASSUME NEW h, Ordered(h)
    PROVE  /\ Len(h) \in Nat
           /\ DOMAIN h = 1 .. Len(h)
           /\ \A i \in 1 .. Len(h) : h[i] \in [key : Nat, value : Nat]
           /\ \A pos \in 0 .. Len(h) - 1 : Access(h, pos) \in [key : Nat, value : Nat]
           /\ \A pos \in 0 .. Len(h) - 1 : Access(h, pos).key \in Nat
           /\ \A p, q \in 0 .. Len(h) - 1 : p < q => Access(h, p).key < Access(h, q).key
<1>1. Len(h) \in Nat /\ DOMAIN h = 1 .. Len(h)
  BY DEF Ordered
<1>2. \A i \in 1 .. Len(h) : h[i] \in [key : Nat, value : Nat]
  BY <1>1, ElementOfSeq DEF Ordered
<1>3. \A pos \in 0 .. Len(h) - 1 : pos + 1 \in 1 .. Len(h)
  BY <1>1
<1>4. \A pos \in 0 .. Len(h) - 1 : Access(h, pos) \in [key : Nat, value : Nat]
  BY <1>2, <1>3 DEF Access
<1>5. \A p, q \in 0 .. Len(h) - 1 : p < q => Access(h, p).key < Access(h, q).key
  <2> SUFFICES ASSUME NEW p \in 0 .. Len(h) - 1, NEW q \in 0 .. Len(h) - 1, p < q
               PROVE  h[p + 1].key < h[q + 1].key
    BY DEF Access
  <2>1. p + 1 \in 1 .. Len(h) /\ q + 1 \in 1 .. Len(h) /\ p + 1 < q + 1
    BY <1>1, <1>3
  <2> QED BY <2>1 DEF Ordered
<1> QED BY <1>1, <1>2, <1>4, <1>5

\* A turn leads to a smaller range, and keeps the place in it.
LEMMA TurnNarrows ==
    ASSUME NEW h, Ordered(h), NEW k \in Nat, NEW up \in BOOLEAN,
           NEW r \in Ranges(h), r.low < r.high
    PROVE  LET s == StepOf(h, k, up, r)
           IN  /\ s \in Ranges(h)
               /\ s.low <= s.high
               /\ s.high - s.low < r.high - r.low
               /\ r \in Around(h, k, up) => s \in Around(h, k, up)
<1> DEFINE n == Len(h)
           mid == Average(r.low, r.high)
           s == StepOf(h, k, up, r)
<1>1. /\ n \in Nat /\ r \in [low : 0 .. n, high : 0 .. n]
      /\ r.low \in 0 .. n /\ r.high \in 0 .. n
  BY OrderedFacts DEF Ranges
<1>2. mid \in r.low .. r.high - 1
  <2>1. r.low \in Nat /\ r.high \in Nat
    BY <1>1
  <2> QED BY <2>1, Middle
<1>3. mid \in 0 .. n - 1
  BY <1>1, <1>2
<1>4. Access(h, mid).key \in Nat
  BY <1>3, OrderedFacts
<1> HIDE DEF mid
<1>5. \/ s = [r EXCEPT !.high = mid] /\ ~ Comes(h, k, up, mid)
      \/ s = [r EXCEPT !.low = mid + 1] /\ Comes(h, k, up, mid)
  <2>1. CASE up = TRUE
    BY <2>1, <1>4 DEF StepOf, UpperStep, Comes, mid
  <2>2. CASE up = FALSE
    BY <2>2, <1>4 DEF StepOf, LowerStep, Comes, mid
  <2> QED BY <2>1, <2>2
<1> HIDE DEF s
<1>6. \A p, q \in 0 .. n - 1 : p <= q /\ Comes(h, k, up, q) => Comes(h, k, up, p)
  <2> SUFFICES ASSUME NEW p \in 0 .. n - 1, NEW q \in 0 .. n - 1, p < q, Comes(h, k, up, q)
               PROVE  Comes(h, k, up, p)
    BY <1>1
  <2>1. /\ Access(h, p).key < Access(h, q).key
        /\ Access(h, p).key \in Nat /\ Access(h, q).key \in Nat
    BY OrderedFacts
  <2> QED BY <2>1 DEF Comes
<1> HIDE DEF n
<1>7. CASE s = [r EXCEPT !.high = mid] /\ ~ Comes(h, k, up, mid)
  <2>1. s.low = r.low /\ s.high = mid /\ s \in [low : 0 .. n, high : 0 .. n]
    BY <1>1, <1>3, <1>7
  <2>2. s \in Ranges(h)
    BY <2>1 DEF Ranges, n
  <2>3. \A pos \in mid .. n - 1 : ~ Comes(h, k, up, pos)
    BY <1>1, <1>3, <1>6, <1>7
  <2>4. r \in Around(h, k, up) => s \in Around(h, k, up)
    BY <2>1, <2>2, <2>3, <1>1, <1>2 DEF Around, n
  <2> QED BY <2>1, <2>2, <2>4, <1>1, <1>2 DEF s
<1>8. CASE s = [r EXCEPT !.low = mid + 1] /\ Comes(h, k, up, mid)
  <2>1. s.low = mid + 1 /\ s.high = r.high /\ s \in [low : 0 .. n, high : 0 .. n]
    BY <1>1, <1>3, <1>8
  <2>2. s \in Ranges(h)
    BY <2>1 DEF Ranges, n
  <2>3. \A pos \in 0 .. mid : Comes(h, k, up, pos)
    BY <1>1, <1>3, <1>6, <1>8
  <2>4. r \in Around(h, k, up) => s \in Around(h, k, up)
    BY <2>1, <2>2, <2>3, <1>1, <1>2 DEF Around, n
  <2> QED BY <2>1, <2>2, <2>4, <1>1, <1>2 DEF s
<1> QED BY <1>5, <1>7, <1>8

\* The recursive function of a loop
IsLoop(h, k, up, f) ==
    f = [r \in Ranges(h) |-> IF r.low < r.high THEN f[StepOf(h, k, up, r)] ELSE r.high]

LEMMA LoopFinds ==
    ASSUME NEW h, Ordered(h), NEW k \in Nat, NEW up \in BOOLEAN
    PROVE  /\ \E f : IsLoop(h, k, up, f)
           /\ \A f : IsLoop(h, k, up, f) =>
                 \A r \in Around(h, k, up) : f[r] \in Places(h, k, up)
<1> DEFINE R == Ranges(h)
           size == [r \in R |-> IF r.low < r.high THEN r.high - r.low ELSE 0]
           step == [r \in R |-> StepOf(h, k, up, r)]
           out == [r \in R |-> r.high]
<1>1. Len(h) \in Nat
  BY OrderedFacts
<1>2. ASSUME NEW r \in R
      PROVE  /\ r.low \in 0 .. Len(h) /\ r.high \in 0 .. Len(h)
             /\ size[r] \in Nat /\ size[r] <= Len(h)
             /\ size[r] > 0 <=> r.low < r.high
  <2>1. r.low \in 0 .. Len(h) /\ r.high \in 0 .. Len(h)
    BY DEF Ranges
  <2> QED BY <1>1, <2>1
<1>3. Shrinks(R, size, step)
  <2> SUFFICES ASSUME NEW r \in R, size[r] > 0
               PROVE  step[r] \in R /\ size[step[r]] < size[r]
    BY <1>2 DEF Shrinks
  <2>1. r.low < r.high
    BY <1>2
  <2>2. PICK s : s = StepOf(h, k, up, r)
    OBVIOUS
  <2>3. s \in R /\ s.low <= s.high /\ s.high - s.low < r.high - r.low
    BY <2>1, <2>2, TurnNarrows
  <2>4. size[s] < size[r]
    BY <2>1, <2>3, <1>1, <1>2
  <2>5. step[r] = s
    BY <2>2
  <2> QED BY <2>3, <2>4, <2>5
<1>4. ASSUME NEW r \in Around(h, k, up)
      PROVE  r \in R /\ IF size[r] > 0 THEN step[r] \in Around(h, k, up)
                                       ELSE out[r] \in Places(h, k, up)
  <2>1. r \in R
    BY DEF Around
  <2>2. CASE r.low < r.high
    <3>1. StepOf(h, k, up, r) \in Around(h, k, up)
      BY <2>1, <2>2, <1>4, TurnNarrows
    <3> QED BY <2>1, <2>2, <3>1, <1>2
  <2>3. CASE ~ (r.low < r.high)
    <3>1. r.low = r.high /\ r.high \in 0 .. Len(h)
      BY <2>1, <2>3, <1>1, <1>2 DEF Around
    <3>2. r.high \in Places(h, k, up)
      BY <3>1, <1>1 DEF Places, Around
    <3> QED BY <2>1, <2>3, <3>2, <1>2
  <2> QED BY <2>2, <2>3
<1>5. ASSUME NEW f
      PROVE  IsLoop(h, k, up, f) <=>
               f = [r \in R |-> IF size[r] > 0 THEN f[step[r]] ELSE out[r]]
  <2>1. \A r \in R : (IF r.low < r.high THEN f[StepOf(h, k, up, r)] ELSE r.high)
                     = (IF size[r] > 0 THEN f[step[r]] ELSE out[r])
    <3> SUFFICES ASSUME NEW r \in R
                 PROVE  (IF r.low < r.high THEN f[StepOf(h, k, up, r)] ELSE r.high)
                        = (IF size[r] > 0 THEN f[step[r]] ELSE out[r])
      OBVIOUS
    <3>1. size[r] > 0 <=> r.low < r.high
      BY <1>2
    <3>2. step[r] = StepOf(h, k, up, r) /\ out[r] = r.high
      OBVIOUS
    <3> HIDE DEF size, step, out
    <3> QED BY <3>1, <3>2
  <2> HIDE DEF size, step, out
  <2> QED BY <2>1 DEF IsLoop
<1> HIDE DEF size, step, out
<1>6. \E f : IsLoop(h, k, up, f)
  <2>1. \E f : f = [r \in R |-> IF size[r] > 0 THEN f[step[r]] ELSE out[r]]
    BY <1>1, <1>2, <1>3, SearchExists
  <2> QED BY <2>1, <1>5
<1>7. ASSUME NEW f, IsLoop(h, k, up, f)
      PROVE  \A r \in Around(h, k, up) : f[r] \in Places(h, k, up)
  <2>1. Recurses(R, size, step, out, f)
    <3>1. f = [r \in R |-> IF size[r] > 0 THEN f[step[r]] ELSE out[r]]
      BY <1>5, <1>7
    <3> QED BY <3>1 DEF Recurses
  <2>2. Around(h, k, up) \in SUBSET R
    BY <1>4
  <2>3. \A r \in Around(h, k, up) : IF size[r] > 0 THEN step[r] \in Around(h, k, up)
                                                 ELSE out[r] \in Places(h, k, up)
    BY <1>4
  <2> DEFINE Kind == Around(h, k, up)
             Goal == Places(h, k, up)
  <2>5. Kind \in SUBSET R /\ StaysUntil(Kind, size, step, out, Goal)
    BY <2>2, <2>3 DEF StaysUntil
  <2> HIDE DEF R, Kind, Goal
  <2>4. \A r \in Kind : f[r] \in Goal
    BY <1>3, <2>1, <2>5, SearchEnds, Zenon
  <2> QED BY <2>4 DEF Kind, Goal
<1> QED BY <1>6, <1>7

\* There is one place.
LEMMA OnePlace ==
    ASSUME NEW h, Ordered(h), NEW k, NEW up,
           NEW p \in Places(h, k, up), NEW q \in Places(h, k, up)
    PROVE  p = q
<1>1. Len(h) \in Nat
  BY OrderedFacts
<1>2. p \in 0 .. Len(h) /\ q \in 0 .. Len(h)
  BY DEF Places
<1>3. \A pos \in 0 .. Len(h) - 1 : pos < p <=> pos < q
  BY DEF Places
<1>4. ~ (p < q)
  BY <1>1, <1>2, <1>3
<1>5. ~ (q < p)
  BY <1>1, <1>2, <1>3
<1> QED BY <1>1, <1>2, <1>4, <1>5

LEMMA UpperFinds ==
    ASSUME NEW h, Ordered(h), NEW k \in Nat, NEW low, NEW high,
           [low |-> low, high |-> high] \in Around(h, k, TRUE)
    PROVE  UpperBinaryLookup(h, k, low, high) \in Places(h, k, TRUE)
<1> DEFINE search == CHOOSE f : IsLoop(h, k, TRUE, f)
<1>1. IsLoop(h, k, TRUE, search)
  BY LoopFinds
<1>2. search[[low |-> low, high |-> high]] \in Places(h, k, TRUE)
  <2> HIDE DEF search
  <2> QED BY <1>1, LoopFinds
<1>3. UpperBinaryLookup(h, k, low, high) = search[[low |-> low, high |-> high]]
  BY DEF UpperBinaryLookup, IsLoop, StepOf
<1> QED BY <1>2, <1>3

LEMMA LowerFinds ==
    ASSUME NEW h, Ordered(h), NEW k \in Nat, NEW low, NEW high,
           [low |-> low, high |-> high] \in Around(h, k, FALSE)
    PROVE  LowerBinaryLookup(h, k, low, high) \in Places(h, k, FALSE)
<1> DEFINE search == CHOOSE f : IsLoop(h, k, FALSE, f)
<1>1. IsLoop(h, k, FALSE, search)
  BY LoopFinds
<1>2. search[[low |-> low, high |-> high]] \in Places(h, k, FALSE)
  <2> HIDE DEF search
  <2> QED BY <1>1, LoopFinds
<1>3. LowerBinaryLookup(h, k, low, high) = search[[low |-> low, high |-> high]]
  BY DEF LowerBinaryLookup, IsLoop, StepOf
<1> QED BY <1>2, <1>3

\* A lookup starts with the place in its range: with the whole history, and with what is
\* left of it once the checkpoint at mid has been looked at.
LEMMA WholeIsAround ==
    ASSUME NEW h, Ordered(h), NEW k, NEW up
    PROVE  [low |-> 0, high |-> Len(h)] \in Around(h, k, up)
<1>1. Len(h) \in Nat
  BY OrderedFacts
<1> QED BY <1>1 DEF Around, Ranges

LEMMA SplitIsAround ==
    ASSUME NEW h, Ordered(h), NEW k \in Nat, NEW mid \in 0 .. Len(h) - 1
    PROVE  SplitAt(h, k, mid) \in Around(h, k, TRUE)
<1>1. Len(h) \in Nat
  BY OrderedFacts
<1>2. \A pos \in 0 .. Len(h) - 1 : Access(h, pos).key \in Nat
  BY OrderedFacts
<1>3. \A p, q \in 0 .. Len(h) - 1 : p < q => Access(h, p).key < Access(h, q).key
  BY OrderedFacts
<1>4. CASE k < Access(h, mid).key
  <2>1. SplitAt(h, k, mid) = [low |-> 0, high |-> mid]
    BY <1>4 DEF SplitAt
  <2>2. \A pos \in mid .. Len(h) - 1 : ~ (Access(h, pos).key <= k)
    BY <1>1, <1>2, <1>3, <1>4
  <2> QED BY <2>1, <2>2, <1>1 DEF Around, Ranges, Comes
<1>5. CASE ~ (k < Access(h, mid).key)
  <2>1. SplitAt(h, k, mid) = [low |-> mid + 1, high |-> Len(h)]
    BY <1>5 DEF SplitAt
  <2>2. \A pos \in 0 .. mid : Access(h, pos).key <= k
    BY <1>1, <1>2, <1>3, <1>5
  <2> QED BY <2>1, <2>2, <1>1 DEF Around, Ranges, Comes
<1> QED BY <1>4, <1>5

-----------------------------------------------------------------------------
(* The contracts that record a value: History and Trace have instances of   *)
(* Checkpoints, which are the same.                                         *)

LEMMA HistoryIsCheckpoints ==
    ASSUME NEW h, NEW k, NEW v, NEW low, NEW high
    PROVE  /\ History!Access(h, k) = Access(h, k)
           /\ History!Latest(h) = Latest(h)
           /\ History!KeyAllowed(h, k) <=> KeyAllowed(h, k)
           /\ History!Inserted(h, k, v) = Inserted(h, k, v)
           /\ History!ValueBefore(h, k) = ValueBefore(h, k)
           /\ History!SplitAt(h, k, v) = SplitAt(h, k, v)
           /\ History!UpperBinaryLookup(h, k, low, high) = UpperBinaryLookup(h, k, low, high)
<1>1. History!Access(h, k) = Access(h, k)
  BY DEF History!Access, Access
<1>2. History!Latest(h) = Latest(h)
  BY DEF History!Latest, Latest, History!Access, Access
<1>3. History!KeyAllowed(h, k) <=> KeyAllowed(h, k)
  BY DEF History!KeyAllowed, KeyAllowed, History!Access, Access
<1>4. History!Inserted(h, k, v) = Inserted(h, k, v)
  BY DEF History!Inserted, Inserted, History!Access, Access
<1>5. History!ValueBefore(h, k) = ValueBefore(h, k)
  BY DEF History!ValueBefore, ValueBefore, History!Access, Access
<1>6. History!SplitAt(h, k, v) = SplitAt(h, k, v)
  BY DEF History!SplitAt, SplitAt, History!Access, Access
<1>7. History!UpperBinaryLookup(h, k, low, high) = UpperBinaryLookup(h, k, low, high)
  BY DEF History!UpperBinaryLookup, UpperBinaryLookup, History!UpperStep, UpperStep,
         History!Average, Average, History!Ranges, Ranges, History!Access, Access
<1> QED BY <1>1, <1>2, <1>3, <1>4, <1>5, <1>6, <1>7

LEMMA TraceIsCheckpoints ==
    ASSUME NEW h, NEW k, NEW v, NEW low, NEW high
    PROVE  /\ Trace!Access(h, k) = Access(h, k)
           /\ Trace!KeyAllowed(h, k) <=> KeyAllowed(h, k)
           /\ Trace!Inserted(h, k, v) = Inserted(h, k, v)
           /\ Trace!ValueBefore(h, k) = ValueBefore(h, k)
           /\ Trace!UpperBinaryLookup(h, k, low, high) = UpperBinaryLookup(h, k, low, high)
           /\ Trace!LowerBinaryLookup(h, k, low, high) = LowerBinaryLookup(h, k, low, high)
<1>1. Trace!Access(h, k) = Access(h, k)
  BY DEF Trace!Access, Access
<1>2. Trace!KeyAllowed(h, k) <=> KeyAllowed(h, k)
  BY DEF Trace!KeyAllowed, KeyAllowed, Trace!Access, Access
<1>3. Trace!Inserted(h, k, v) = Inserted(h, k, v)
  BY DEF Trace!Inserted, Inserted, Trace!Access, Access
<1>4. Trace!ValueBefore(h, k) = ValueBefore(h, k)
  BY DEF Trace!ValueBefore, ValueBefore, Trace!Access, Access
<1>5. Trace!UpperBinaryLookup(h, k, low, high) = UpperBinaryLookup(h, k, low, high)
  BY DEF Trace!UpperBinaryLookup, UpperBinaryLookup, Trace!UpperStep, UpperStep,
         Trace!Average, Average, Trace!Ranges, Ranges, Trace!Access, Access
<1>6. Trace!LowerBinaryLookup(h, k, low, high) = LowerBinaryLookup(h, k, low, high)
  BY DEF Trace!LowerBinaryLookup, LowerBinaryLookup, Trace!LowerStep, LowerStep,
         Trace!Average, Average, Trace!Ranges, Ranges, Trace!Access, Access
<1> QED BY <1>1, <1>2, <1>3, <1>4, <1>5, <1>6

\* What a push adds is last, and the history stays in order.
LEMMA InsertedFacts ==
    ASSUME NEW h, Ordered(h), NEW k \in Nat, NEW v \in Nat, KeyAllowed(h, k),
           NEW g, g = Inserted(h, k, v)
    PROVE  /\ Ordered(g)
           /\ Len(g) \in Nat /\ Len(g) > 0
           /\ Access(g, Len(g) - 1) = [key |-> k, value |-> v]
           /\ \A pos \in 0 .. Len(g) - 2 :
                 pos \in 0 .. Len(h) - 1 /\ Access(g, pos) = Access(h, pos)
           /\ \A pos \in 0 .. Len(h) - 1 :
                 \/ pos \in 0 .. Len(g) - 2
                 \/ pos = Len(g) - 1 /\ Access(h, pos).key = k
           /\ \A pos \in 0 .. Len(g) - 2 : Access(g, pos).key < k
<1> DEFINE last == Access(h, Len(h) - 1)
           c == [key |-> k, value |-> v]
<1>1. /\ Len(h) \in Nat
      /\ DOMAIN h = 1 .. Len(h)
      /\ \A i \in 1 .. Len(h) : h[i] \in [key : Nat, value : Nat]
      /\ h = <<>> <=> Len(h) = 0
  BY OrderedFacts, EmptySeq DEF Ordered
<1>2. \A i, j \in 1 .. Len(h) : i < j => h[i].key < h[j].key
  BY DEF Ordered
<1>3. CASE h # <<>> /\ last.key = k
  <2>1. g = [h EXCEPT ![Len(h)].value = v]
    BY <1>3 DEF Inserted
  <2>2. Len(h) \in 1 .. Len(h) /\ h[Len(h)].key = k
    BY <1>1, <1>3 DEF Access
  <2>3. h[Len(h)] \in [key : Nat, value : Nat]
    BY <1>1, <2>2
  <2>4. g = [h EXCEPT ![Len(h)] = [h[Len(h)] EXCEPT !.value = v]]
    BY <2>1
  <2>5. [h[Len(h)] EXCEPT !.value = v] = c
    BY <2>2, <2>3
  <2>6. g = [h EXCEPT ![Len(h)] = c]
    BY <2>4, <2>5
  <2>7. /\ DOMAIN g = 1 .. Len(h)
        /\ g[Len(h)] = c
        /\ \A i \in 1 .. Len(h) : i # Len(h) => g[i] = h[i]
    BY <1>1, <2>2, <2>6
  <2>8. c \in [key : Nat, value : Nat] /\ c.key = k
    OBVIOUS
  <2> HIDE DEF c
  <2>9. \A i \in 1 .. Len(h) : g[i] \in [key : Nat, value : Nat] /\ g[i].key = h[i].key
    BY <1>1, <2>2, <2>7, <2>8
  <2>10. g = [i \in 1 .. Len(h) |-> g[i]]
    BY <2>6, <2>7
  <2>11. g \in Seq([key : Nat, value : Nat]) /\ Len(g) = Len(h)
    BY <1>1, <2>7, <2>9, <2>10
  <2>12. Ordered(g)
    BY <1>2, <2>9, <2>11 DEF Ordered
  <2>13. \A i \in 1 .. Len(h) - 1 : h[i].key < k
    BY <1>1, <1>2, <2>2
  <2>14. \A pos \in 0 .. Len(h) - 2 : pos + 1 \in 1 .. Len(h) - 1
    BY <1>1
  <2>15. Len(g) > 0 /\ (Len(g) - 1) + 1 = Len(h)
    BY <1>1, <2>2, <2>11
  <2>16. Len(g) = Len(h) /\ Len(h) \in Nat
    BY <1>1, <2>11
  <2>17. Access(g, Len(g) - 1) = c
    BY <2>7, <2>15 DEF Access
  <2>18. \A pos \in 0 .. Len(g) - 2 :
           /\ pos \in 0 .. Len(h) - 1 /\ Access(g, pos) = Access(h, pos)
           /\ Access(g, pos).key < k
    <3> SUFFICES ASSUME NEW pos \in 0 .. Len(g) - 2
                 PROVE  /\ pos \in 0 .. Len(h) - 1 /\ Access(g, pos) = Access(h, pos)
                        /\ Access(g, pos).key < k
      OBVIOUS
    <3>1. pos + 1 \in 1 .. Len(h) - 1 /\ pos + 1 \in 1 .. Len(h) /\ pos + 1 # Len(h)
      BY ONLY <2>16, pos \in 0 .. Len(g) - 2
    <3>2. g[pos + 1] = h[pos + 1] /\ h[pos + 1].key < k
      BY <2>7, <2>13, <3>1
    <3> QED BY <1>1, <2>11, <3>2 DEF Access
  <2>19. \A pos \in 0 .. Len(h) - 1 :
           \/ pos \in 0 .. Len(g) - 2
           \/ pos = Len(g) - 1 /\ Access(h, pos).key = k
    <3> SUFFICES ASSUME NEW pos \in 0 .. Len(h) - 1, ~ (pos \in 0 .. Len(g) - 2)
                 PROVE  pos = Len(g) - 1 /\ Access(h, pos).key = k
      OBVIOUS
    <3>1. pos + 1 = Len(h) /\ pos = Len(g) - 1
      BY ONLY <2>16, pos \in 0 .. Len(h) - 1, ~ (pos \in 0 .. Len(g) - 2)
    <3> QED BY <2>2, <3>1 DEF Access
  <2> QED BY <2>11, <2>12, <2>15, <2>17, <2>18, <2>19 DEF c
<1>4. CASE ~ (h # <<>> /\ last.key = k)
  <2>1. g = Append(h, c)
    BY <1>4 DEF Inserted
  <2>2. c \in [key : Nat, value : Nat] /\ c.key = k
    OBVIOUS
  <2>3. \A i \in 1 .. Len(h) : h[i].key < k
    <3>1. CASE h = <<>>
      BY <3>1, <1>1
    <3>2. CASE h # <<>>
      <4>1. Len(h) \in 1 .. Len(h) /\ last = h[Len(h)] /\ last.key \in Nat
        BY <1>1, <3>2 DEF Access
      <4>2. last.key <= k /\ last.key # k
        BY <3>2, <1>4 DEF KeyAllowed
      <4> QED BY <1>1, <1>2, <4>1, <4>2
    <3> QED BY <3>1, <3>2
  <2> HIDE DEF c
  <2>4. /\ g \in Seq([key : Nat, value : Nat])
        /\ Len(g) = Len(h) + 1
        /\ \A i \in 1 .. Len(h) : g[i] = h[i]
        /\ g[Len(h) + 1] = c
    BY <2>1, <2>2, AppendProperties DEF Ordered
  <2>5. Ordered(g)
    <3> SUFFICES ASSUME NEW i \in 1 .. Len(g), NEW j \in 1 .. Len(g), i < j
                 PROVE  g[i].key < g[j].key
      BY <2>4 DEF Ordered
    <3>1. Len(g) = Len(h) + 1 /\ Len(h) \in Nat
      BY <1>1, <2>4
    <3>2. i \in 1 .. Len(h) /\ g[i] = h[i]
      BY <1>1, <2>4
    <3>3. CASE j = Len(h) + 1
      BY <2>2, <2>3, <2>4, <3>2, <3>3
    <3>4. CASE j # Len(h) + 1
      <4>1. j \in 1 .. Len(h)
        BY ONLY <3>4, <3>1, j \in 1 .. Len(g)
      <4>2. g[j] = h[j]
        BY <2>4, <4>1
      <4> QED BY <1>2, <3>2, <4>1, <4>2
    <3> QED BY <3>3, <3>4
  <2>6. \A pos \in 0 .. Len(h) - 1 : pos + 1 \in 1 .. Len(h)
    BY <1>1
  <2>7. Len(g) > 0 /\ (Len(g) - 1) + 1 = Len(h) + 1
    BY <1>1, <2>4
  <2>8. Access(g, Len(g) - 1) = c
    BY <2>4, <2>7 DEF Access
  <2>9. \A pos \in 0 .. Len(h) - 1 :
          /\ pos \in 0 .. Len(g) - 2
          /\ Access(g, pos) = Access(h, pos)
          /\ Access(g, pos).key < k
    BY <1>1, <2>3, <2>4, <2>6 DEF Access
  <2>10. 0 .. Len(g) - 2 = 0 .. Len(h) - 1
    BY <1>1, <2>4
  <2> QED BY <2>4, <2>5, <2>7, <2>8, <2>9, <2>10 DEF c
<1> QED BY <1>3, <1>4

-----------------------------------------------------------------------------
(* A past block is looked up with the value it ended with.                  *)

HistoryInv ==
    /\ Ordered(votes)
    /\ block \in Nat
    /\ ended \in Seq(Nat)
    /\ Len(ended) = block
    /\ \A pos \in 0 .. Len(votes) - 1 : Access(votes, pos).key <= block
    /\ \A b \in 0 .. block - 1 :
          \A p \in Places(votes, b, TRUE) : ended[b + 1] = ValueBefore(votes, p)

\* The latest value is the one that is found for the key of the last checkpoint.
LEMMA LatestFacts ==
    ASSUME NEW h, Ordered(h)
    PROVE  Latest(h) \in Nat /\ Latest(h) = ValueBefore(h, Len(h))
<1>1. Len(h) \in Nat /\ h = <<>> <=> Len(h) = 0
  BY EmptySeq, OrderedFacts DEF Ordered
<1>2. CASE h = <<>>
  BY <1>1, <1>2 DEF Latest, ValueBefore
<1>3. CASE h # <<>>
  <2>1. Len(h) - 1 \in 0 .. Len(h) - 1
    BY <1>1, <1>3
  <2>2. Access(h, Len(h) - 1).value \in Nat
    BY <2>1, OrderedFacts
  <2> QED BY <1>1, <1>3, <2>1, <2>2 DEF Latest, ValueBefore
<1> QED BY <1>2, <1>3

\* A push under the number of the block leaves the answers for the earlier ones.
LEMMA PushKeepsPast ==
    ASSUME NEW value \in Nat, HistoryInv, History!Push(value)
    PROVE  HistoryInv'
<1> DEFINE g == Inserted(votes, block, value)
<1>1. votes' = g /\ UNCHANGED <<block, ended>> /\ KeyAllowed(votes, block)
  BY HistoryIsCheckpoints DEF History!Push
<1>2. Ordered(votes) /\ block \in Nat /\ Len(votes) \in Nat
  BY OrderedFacts DEF HistoryInv
<1> HIDE DEF g
<1>3. /\ Ordered(g)
      /\ Len(g) \in Nat /\ Len(g) > 0
      /\ Access(g, Len(g) - 1) = [key |-> block, value |-> value]
      /\ \A pos \in 0 .. Len(g) - 2 :
            pos \in 0 .. Len(votes) - 1 /\ Access(g, pos) = Access(votes, pos)
      /\ \A pos \in 0 .. Len(votes) - 1 :
            \/ pos \in 0 .. Len(g) - 2
            \/ pos = Len(g) - 1 /\ Access(votes, pos).key = block
      /\ \A pos \in 0 .. Len(g) - 2 : Access(g, pos).key < block
  BY <1>1, <1>2, InsertedFacts DEF g
<1>4. \A pos \in 0 .. Len(g) - 1 : Access(g, pos).key <= block
  <2> SUFFICES ASSUME NEW pos \in 0 .. Len(g) - 1 PROVE Access(g, pos).key <= block
    OBVIOUS
  <2>1. CASE pos = Len(g) - 1
    BY <2>1, <1>2, <1>3
  <2>2. CASE pos \in 0 .. Len(g) - 2
    <3>1. Access(g, pos).key \in Nat /\ Access(g, pos).key < block
      BY <2>2, <1>3, OrderedFacts
    <3> QED BY <3>1, <1>2
  <2> QED BY <2>1, <2>2, <1>3
<1>5. ASSUME NEW b \in 0 .. block - 1, NEW p \in Places(g, b, TRUE)
      PROVE  ended[b + 1] = ValueBefore(g, p)
  <2>1. p \in 0 .. Len(g) /\ \A pos \in 0 .. Len(g) - 1 : Access(g, pos).key <= b <=> pos < p
    BY DEF Places, Comes
  <2>2. b \in Nat /\ b < block
    BY <1>2
  <2>3. p \in 0 .. Len(g) - 1
    <3>1. Len(g) - 1 \in 0 .. Len(g) - 1 /\ Access(g, Len(g) - 1).key = block
      BY <1>3
    <3>2. ~ (Len(g) - 1 < p)
      BY <2>1, <2>2, <3>1, <1>2
    <3> QED BY <2>1, <3>2, <1>3
  <2>4. \A pos \in 0 .. Len(votes) - 1 : Access(votes, pos).key <= b <=> pos < p
    <3> SUFFICES ASSUME NEW pos \in 0 .. Len(votes) - 1
                 PROVE  Access(votes, pos).key <= b <=> pos < p
      OBVIOUS
    <3>1. CASE pos \in 0 .. Len(g) - 2
      BY <3>1, <2>1, <1>3
    <3>2. CASE pos = Len(g) - 1 /\ Access(votes, pos).key = block
      BY <3>2, <2>2, <2>3, <1>2, <1>3
    <3> QED BY <3>1, <3>2, <1>3
  <2>5. p \in 0 .. Len(votes)
    <3>1. CASE p = 0
      BY <3>1, <1>2
    <3>2. CASE p # 0
      <4>1. p - 1 \in 0 .. Len(g) - 2
        BY <3>2, <2>3, <1>3
      <4>2. p - 1 \in 0 .. Len(votes) - 1
        BY <4>1, <1>3
      <4> QED BY <4>2, <2>3, <1>2
    <3> QED BY <3>1, <3>2
  <2>6. p \in Places(votes, b, TRUE)
    BY <2>4, <2>5 DEF Places, Comes
  <2>7. ended[b + 1] = ValueBefore(votes, p)
    BY <2>6 DEF HistoryInv
  <2>8. CASE p = 0
    BY <2>7, <2>8 DEF ValueBefore
  <2>9. CASE p # 0
    <3>1. p - 1 \in 0 .. Len(g) - 2
      BY <2>9, <2>3, <1>3
    <3>2. Access(g, p - 1) = Access(votes, p - 1)
      BY <3>1, <1>3
    <3> QED BY <2>7, <2>9, <3>2 DEF ValueBefore
  <2> QED BY <2>8, <2>9
<1>6. /\ Ordered(votes')
      /\ block' \in Nat
      /\ ended' \in Seq(Nat)
      /\ Len(ended') = block'
      /\ \A pos \in 0 .. Len(votes') - 1 : Access(votes', pos).key <= block'
      /\ \A b \in 0 .. block' - 1 :
            \A p \in Places(votes', b, TRUE) : ended'[b + 1] = ValueBefore(votes', p)
  BY <1>1, <1>2, <1>3, <1>4, <1>5 DEF HistoryInv
<1> QED BY <1>6 DEF HistoryInv, Ordered, Places, Comes, Access, ValueBefore

LEMMA BlockKeepsPast ==
    ASSUME HistoryInv, History!NextBlock
    PROVE  HistoryInv'
<1>1. votes' = votes /\ block' = block + 1 /\ ended' = Append(ended, Latest(votes))
  BY HistoryIsCheckpoints DEF History!NextBlock
<1>2. /\ Ordered(votes) /\ block \in Nat /\ Len(votes) \in Nat
      /\ ended \in Seq(Nat) /\ Len(ended) = block
      /\ \A pos \in 0 .. Len(votes) - 1 : Access(votes, pos).key <= block
  BY OrderedFacts DEF HistoryInv
<1>3. Latest(votes) \in Nat /\ Latest(votes) = ValueBefore(votes, Len(votes))
  BY <1>2, LatestFacts
<1> DEFINE value == Latest(votes)
<1> HIDE DEF value
<1>4. /\ Append(ended, value) \in Seq(Nat)
      /\ Len(Append(ended, value)) = block + 1
      /\ \A i \in 1 .. block : Append(ended, value)[i] = ended[i]
      /\ Append(ended, value)[block + 1] = value
  BY <1>2, <1>3, AppendProperties DEF value
<1>5. \A pos \in 0 .. Len(votes) - 1 : Access(votes, pos).key <= block + 1
  <2>1. \A pos \in 0 .. Len(votes) - 1 : Access(votes, pos).key \in Nat
    BY <1>2, OrderedFacts
  <2> QED BY <1>2, <2>1
<1>6. ASSUME NEW b \in 0 .. block, NEW p \in Places(votes, b, TRUE)
      PROVE  Append(ended, value)[b + 1] = ValueBefore(votes, p)
  <2>1. CASE b = block
    <3>1. p \in 0 .. Len(votes) /\ \A pos \in 0 .. Len(votes) - 1 : pos < p
      BY <1>2, <2>1 DEF Places, Comes
    <3>2. p = Len(votes)
      <4>1. CASE Len(votes) = 0
        BY <3>1, <4>1
      <4>2. CASE Len(votes) # 0
        <5>1. Len(votes) - 1 \in 0 .. Len(votes) - 1
          BY <1>2, <4>2
        <5>2. Len(votes) - 1 < p
          BY <3>1, <5>1
        <5>3. Len(votes) \in Nat /\ p \in 0 .. Len(votes)
          BY <1>2, <3>1
        <5> QED BY ONLY <5>2, <5>3
      <4> QED BY <4>1, <4>2
    <3> QED BY <1>3, <1>4, <2>1, <3>2 DEF value
  <2>2. CASE b # block
    <3>1. b \in 0 .. block - 1 /\ b + 1 \in 1 .. block
      BY <1>2, <2>2
    <3>2. ended[b + 1] = ValueBefore(votes, p)
      BY <3>1 DEF HistoryInv
    <3> QED BY <1>4, <3>1, <3>2
  <2> QED BY <2>1, <2>2
<1>7. 0 .. (block + 1) - 1 = 0 .. block
  BY <1>2
<1>8. /\ Ordered(votes')
      /\ block' \in Nat
      /\ ended' \in Seq(Nat)
      /\ Len(ended') = block'
      /\ \A pos \in 0 .. Len(votes') - 1 : Access(votes', pos).key <= block'
      /\ \A b \in 0 .. block' - 1 :
            \A p \in Places(votes', b, TRUE) : ended'[b + 1] = ValueBefore(votes', p)
  <2>1. ended' = Append(ended, value)
    BY <1>1 DEF value
  <2>2. \A b \in 0 .. block' - 1 :
          \A p \in Places(votes, b, TRUE) : ended'[b + 1] = ValueBefore(votes, p)
    BY <2>1, <1>1, <1>6, <1>7
  <2>3. block' \in Nat /\ Len(ended') = block' /\ ended' \in Seq(Nat)
    BY <2>1, <1>1, <1>2, <1>4
  <2> QED BY <2>2, <2>3, <1>1, <1>2, <1>5
<1> QED BY <1>8 DEF HistoryInv, Ordered, Places, Comes, Access, ValueBefore

LEMMA HistoryAlways == History!Spec => []HistoryInv
<1>1. History!Init => HistoryInv
  <2> SUFFICES ASSUME History!Init PROVE HistoryInv
    OBVIOUS
  <2>1. votes = <<>> /\ block = 0 /\ ended = <<>>
    BY DEF History!Init
  <2>2. \A S : <<>> \in Seq(S) /\ Len(<<>>) = 0
    BY EmptySeq
  <2>3. 0 .. 0 - 1 = {}
    OBVIOUS
  <2>4. Len(votes) = 0 /\ Len(ended) = 0 /\ votes \in Seq([key : Nat, value : Nat])
        /\ ended \in Seq(Nat)
    BY <2>1, <2>2
  <2>5. 1 .. Len(votes) = {} /\ 0 .. Len(votes) - 1 = {} /\ 0 .. block - 1 = {}
    BY <2>1, <2>3, <2>4
  <2> QED BY <2>1, <2>4, <2>5 DEF HistoryInv, Ordered
<1>2. HistoryInv /\ [History!Next]_(History!vars) => HistoryInv'
  <2> SUFFICES ASSUME HistoryInv, [History!Next]_(History!vars) PROVE HistoryInv'
    OBVIOUS
  <2>1. Latest(votes) \in Nat /\ History!Latest(votes) = Latest(votes)
    BY LatestFacts, HistoryIsCheckpoints DEF HistoryInv
  <2>2. ASSUME NEW value \in Votes, History!Push(value) PROVE HistoryInv'
    BY <2>2, PushedAssumption, PushKeepsPast
  <2>3. ASSUME NEW delta \in Deltas, History!PushDelta(delta) PROVE HistoryInv'
    <3>1. delta \in Nat
      BY PushedAssumption
    <3>2. CASE History!Push(History!Latest(votes) + delta)
      <4>1. History!Latest(votes) + delta \in Nat
        BY <2>1, <3>1
      <4> QED BY <3>2, <4>1, PushKeepsPast
    <3>3. CASE History!Latest(votes) >= delta /\ History!Push(History!Latest(votes) - delta)
      <4>1. History!Latest(votes) - delta \in Nat
        BY <2>1, <3>1, <3>3
      <4> QED BY <3>3, <4>1, PushKeepsPast
    <3> QED BY <2>3, <3>2, <3>3 DEF History!PushDelta
  <2>4. CASE History!NextBlock
    BY <2>4, BlockKeepsPast
  <2>5. CASE UNCHANGED History!vars
    BY <2>5 DEF History!vars, HistoryInv, Ordered, Places, Comes, Access, ValueBefore
  <2> QED BY <2>2, <2>3, <2>4, <2>5 DEF History!Next
<1> QED BY <1>1, <1>2, PTL DEF History!Spec

\* getAtBlock answers for every past block with the value it ended with, whatever is
\* pushed later, for any values and deltas and however many blocks there are.
THEOREM AnswersAreKept == History!Spec => []PastIsKept
<1>1. HistoryInv => PastIsKept
  <2> SUFFICES ASSUME HistoryInv, NEW b \in History!Asked
               PROVE  History!UpperLookup(votes, b) = ended[b + 1]
    BY DEF PastIsKept, History!PastIsKept
  <2>1. b \in 0 .. block - 1 /\ b \in Nat
    BY DEF History!Asked, HistoryInv
  <2> DEFINE place == UpperBinaryLookup(votes, b, 0, Len(votes))
  <2>2. place \in Places(votes, b, TRUE)
    BY <2>1, UpperFinds, WholeIsAround DEF HistoryInv
  <2>3. ended[b + 1] = ValueBefore(votes, place)
    BY <2>1, <2>2 DEF HistoryInv
  <2> QED BY <2>3, HistoryIsCheckpoints DEF History!UpperLookup
<1> QED BY HistoryAlways, <1>1, PTL

-----------------------------------------------------------------------------
(* The square root stays within the number, which is what the place where   *)
(* the recent lookup splits the array rests on.                             *)

\* A number that is not 0 has a logarithm.
LEMMA LogExists ==
    ASSUME NEW a \in Nat \ {0}
    PROVE  \E k \in 0 .. a : 2 ^ k <= a /\ a < 2 ^ (k + 1)
<1> DEFINE Q(n) == \E k \in 0 .. n : 2 ^ k <= n /\ n < 2 ^ (k + 1)
           P == {n \in Nat : n = 0 \/ Q(n)}
<1>1. 0 \in P
  OBVIOUS
<1>2. ASSUME NEW n \in P PROVE n + 1 \in P
  <2>1. CASE n = 0
    <3>1. 2 ^ 0 = 1 /\ 2 ^ 1 = 2 /\ 0 \in 0 .. 1
      OBVIOUS
    <3>2. Q(1)
      BY <3>1
    <3> QED BY <2>1, <3>2
  <2>2. CASE n # 0
    <3>1. PICK k \in 0 .. n : 2 ^ k <= n /\ n < 2 ^ (k + 1)
      BY <2>2
    <3>2. /\ n \in Nat /\ k \in Nat /\ k + 1 \in Nat
          /\ k \in 0 .. n + 1 /\ k + 1 \in 0 .. n + 1
      OBVIOUS
    <3>3. 2 ^ k \in Nat /\ 2 ^ (k + 1) \in Nat /\ 2 ^ (k + 1) >= 1
      BY <3>2, PowerIsNumber
    <3>4. 2 ^ ((k + 1) + 1) = 2 ^ (k + 1) + 2 ^ (k + 1)
      BY <3>2, PowerDoubles
    <3>5. CASE n + 1 < 2 ^ (k + 1)
      <4>1. 2 ^ k <= n + 1
        BY <3>1, <3>2, <3>3
      <4> QED BY <3>2, <3>5, <4>1
    <3>6. CASE ~ (n + 1 < 2 ^ (k + 1))
      <4>1. 2 ^ (k + 1) <= n + 1 /\ n + 1 < 2 ^ ((k + 1) + 1)
        BY <3>1, <3>2, <3>3, <3>4, <3>6
      <4>2. Q(n + 1)
        BY <3>2, <4>1
      <4> QED BY <3>2, <4>2
    <3> QED BY <3>5, <3>6
  <2> QED BY <2>1, <2>2
<1>3. P = Nat
  <2> HIDE DEF P
  <2>1. P \in SUBSET Nat
    BY DEF P
  <2> QED BY <1>1, <1>2, <2>1, SetInduction
<1> QED BY <1>3

\* A quotient of a by one of its guesses, and the next guess, are from 1 to a.
LEMMA QuotientFacts ==
    ASSUME NEW a \in Nat \ {0}, NEW c \in 1 .. a
    PROVE  a \div c \in 1 .. a /\ (c + a \div c) \div 2 \in 1 .. a
<1> DEFINE q == a \div c
<1>1. q \in Int /\ c * q <= a /\ a < c * q + c
  OBVIOUS
<1> HIDE DEF q
<1>2. q >= 1
  BY <1>1
<1>3. q <= a
  BY <1>1, <1>2
<1> QED BY <1>1, <1>2, <1>3 DEF q

LEMMA HistoryAverages ==
    ASSUME NEW a
    PROVE  History!Log2(a) = Log2(a) /\ History!Sqrt(a) = Sqrt(a)
<1>1. History!Log2(a) = Log2(a)
  BY DEF History!Log2, Log2
<1>2. History!Sqrt(a) = Sqrt(a)
  BY DEF History!Sqrt, Sqrt, History!Log2, Log2
<1> QED BY <1>1, <1>2

\* The guesses of the square root
LOCAL IsNewton(a, f) ==
    f = [n \in 0 .. 7 |-> IF n = 0 THEN 2 ^ (Log2(a) \div 2)
                          ELSE (f[n - 1] + a \div f[n - 1]) \div 2]

LEMMA NewtonExists ==
    ASSUME NEW a
    PROVE  \E f : IsNewton(a, f)
<1> DEFINE next(c) == (c + a \div c) \div 2
           c0 == 2 ^ (Log2(a) \div 2)
           c1 == next(c0)
           c2 == next(c1)
           c3 == next(c2)
           c4 == next(c3)
           c5 == next(c4)
           c6 == next(c5)
           c7 == next(c6)
           f == [n \in 0 .. 7 |-> IF n = 0 THEN c0 ELSE IF n = 1 THEN c1
                             ELSE IF n = 2 THEN c2 ELSE IF n = 3 THEN c3
                             ELSE IF n = 4 THEN c4 ELSE IF n = 5 THEN c5
                             ELSE IF n = 6 THEN c6 ELSE c7]
<1>1. c1 = next(c0) /\ c2 = next(c1) /\ c3 = next(c2) /\ c4 = next(c3)
      /\ c5 = next(c4) /\ c6 = next(c5) /\ c7 = next(c6)
  OBVIOUS
<1> HIDE DEF next, c1, c2, c3, c4, c5, c6, c7
<1>2. /\ f[0] = c0 /\ f[1] = c1 /\ f[2] = c2 /\ f[3] = c3
      /\ f[4] = c4 /\ f[5] = c5 /\ f[6] = c6 /\ f[7] = c7
  BY DEF c0
<1> HIDE DEF c0
<1>3. \A n \in 0 .. 7 : f[n] = IF n = 0 THEN c0 ELSE next(f[n - 1])
  <2> HIDE DEF f
  <2>1. ASSUME NEW n \in 0 .. 7
        PROVE  \/ n = 0 \/ n = 1 \/ n = 2 \/ n = 3 \/ n = 4 \/ n = 5 \/ n = 6 \/ n = 7
    OBVIOUS
  <2> QED BY <2>1, <1>1, <1>2
<1>4. f = [n \in 0 .. 7 |-> f[n]]
  OBVIOUS
<1>5. f = [n \in 0 .. 7 |-> IF n = 0 THEN c0 ELSE next(f[n - 1])]
  <2> HIDE DEF f
  <2> QED BY <1>3, <1>4
<1> HIDE DEF f
<1>6. IsNewton(a, f)
  BY <1>5 DEF IsNewton, next, c0
<1> QED BY <1>6

LEMMA SqrtFacts ==
    ASSUME NEW a \in Nat \ {0}
    PROVE  Sqrt(a) \in 1 .. a
<1> DEFINE k == Log2(a)
           newton == CHOOSE f : IsNewton(a, f)
           guess == newton[7]
<1>1. k \in 0 .. a /\ 2 ^ k <= a
  BY LogExists DEF Log2
<1> HIDE DEF k
<1>2. 2 ^ (k \div 2) \in 1 .. a
  <2>1. k \in Nat /\ k \div 2 \in Nat /\ k \div 2 <= k
    BY <1>1
  <2>2. 2 ^ (k \div 2) \in Nat /\ 2 ^ (k \div 2) >= 1 /\ 2 ^ k \in Nat
    BY <2>1, PowerIsNumber
  <2>3. 2 ^ (k \div 2) <= 2 ^ k
    BY <2>1, PowerGrows
  <2> QED BY <1>1, <2>2, <2>3
<1>3. IsNewton(a, newton)
  BY NewtonExists
<1> HIDE DEF newton
<1>4. newton[0] \in 1 .. a
  BY <1>2, <1>3 DEF IsNewton, k
<1>5. \A n \in 1 .. 7 : newton[n - 1] \in 1 .. a => newton[n] \in 1 .. a
  <2> SUFFICES ASSUME NEW n \in 1 .. 7, newton[n - 1] \in 1 .. a
               PROVE  newton[n] \in 1 .. a
    OBVIOUS
  <2>1. newton[n] = (newton[n - 1] + a \div newton[n - 1]) \div 2
    BY <1>3 DEF IsNewton
  <2> QED BY <2>1, QuotientFacts
<1>6. guess \in 1 .. a
  BY <1>4, <1>5
<1>7. a \div guess \in 1 .. a
  BY <1>6, QuotientFacts
<1>8. Sqrt(a) = IF guess <= a \div guess THEN guess ELSE a \div guess
  BY DEF Sqrt, newton, IsNewton
<1> QED BY <1>6, <1>7, <1>8

\* getAtProbablyRecentBlock answers what getAtBlock answers: the place is in the part of
\* the history that it goes on with.
THEOREM RecentIsRight == History!Spec => []RecentAgrees
<1>1. HistoryInv => RecentAgrees
  <2> SUFFICES ASSUME HistoryInv, NEW b \in History!Asked
               PROVE  History!RecentLookup(votes, b) = History!UpperLookup(votes, b)
    BY DEF RecentAgrees, History!RecentAgrees
  <2>1. b \in Nat /\ Ordered(votes) /\ Len(votes) \in Nat
    BY OrderedFacts DEF History!Asked, HistoryInv
  <2> DEFINE n == Len(votes)
             range0 == IF n > 5 THEN SplitAt(votes, b, n - Sqrt(n)) ELSE [low |-> 0, high |-> n]
             place == UpperBinaryLookup(votes, b, range0.low, range0.high)
             whole == UpperBinaryLookup(votes, b, 0, n)
  <2>2. History!RecentLookup(votes, b) = ValueBefore(votes, place)
    BY HistoryIsCheckpoints, HistoryAverages DEF History!RecentLookup
  <2>3. History!UpperLookup(votes, b) = ValueBefore(votes, whole)
    BY HistoryIsCheckpoints DEF History!UpperLookup
  <2>4. range0 \in Around(votes, b, TRUE)
    <3>1. CASE n > 5
      <4>1. n - Sqrt(n) \in 0 .. n - 1
        BY <3>1, <2>1, SqrtFacts
      <4> QED BY <3>1, <4>1, <2>1, SplitIsAround
    <3>2. CASE ~ (n > 5)
      BY <3>2, <2>1, WholeIsAround
    <3> QED BY <3>1, <3>2
  <2> HIDE DEF range0
  <2>5. range0 = [low |-> range0.low, high |-> range0.high]
    BY <2>4 DEF Around, Ranges
  <2>6. place \in Places(votes, b, TRUE)
    BY <2>1, <2>4, <2>5, UpperFinds
  <2>7. whole \in Places(votes, b, TRUE)
    BY <2>1, UpperFinds, WholeIsAround
  <2> QED BY <2>1, <2>2, <2>3, <2>6, <2>7, OnePlace
<1> QED BY HistoryAlways, <1>1, PTL

-----------------------------------------------------------------------------
(* A trace is looked up with what was pushed last under the key: the trace  *)
(* has the last push under each key, and the keys of the pushes never fall. *)

LastPush(c, i) ==
    /\ c = pushes[i]
    /\ \A j \in DOMAIN pushes : pushes[j].key = c.key => j <= i

TraceInv ==
    /\ Ordered(trace)
    /\ pushes \in Seq([key : Nat, value : Nat])
    /\ \A i \in DOMAIN pushes : pushes[i].key \in TraceKeys
    /\ \A i, j \in DOMAIN pushes : i < j => pushes[i].key <= pushes[j].key
    /\ \A i \in DOMAIN pushes :
          \E pos \in 0 .. Len(trace) - 1 : Access(trace, pos).key = pushes[i].key
    /\ \A pos \in 0 .. Len(trace) - 1 :
          \E i \in DOMAIN pushes : LastPush(Access(trace, pos), i)

LEMMA TraceFacts ==
    ASSUME TraceInv
    PROVE  /\ Len(trace) \in Nat /\ Len(pushes) \in Nat
           /\ DOMAIN pushes = 1 .. Len(pushes)
           /\ \A i \in 1 .. Len(pushes) : pushes[i] \in [key : Nat, value : Nat]
           /\ \A i \in 1 .. Len(pushes) : pushes[i].key \in Nat
<1>1. Len(trace) \in Nat /\ pushes \in Seq([key : Nat, value : Nat])
  BY OrderedFacts DEF TraceInv
<1>2. Len(pushes) \in Nat /\ DOMAIN pushes = 1 .. Len(pushes)
  BY <1>1
<1>3. \A i \in 1 .. Len(pushes) : pushes[i] \in [key : Nat, value : Nat]
  BY <1>1, ElementOfSeq
<1> QED BY <1>1, <1>2, <1>3

LEMMA PushKeepsTrace ==
    ASSUME NEW k \in TraceKeys, NEW v \in TraceValues, TraceInv, Trace!Push(k, v)
    PROVE  TraceInv'
<1> DEFINE g == Inserted(trace, k, v)
           c == [key |-> k, value |-> v]
           n == Len(pushes)
<1>1. /\ trace' = g /\ pushes' = Append(pushes, c) /\ KeyAllowed(trace, k)
      /\ k \in Nat /\ v \in Nat /\ Ordered(trace)
  BY PushedAssumption, TraceIsCheckpoints DEF Trace!Push, TraceInv
<1>2. /\ Len(trace) \in Nat /\ n \in Nat /\ DOMAIN pushes = 1 .. n
      /\ \A i \in 1 .. n : pushes[i] \in [key : Nat, value : Nat]
      /\ \A i \in 1 .. n : pushes[i].key \in Nat
  BY TraceFacts
<1>3. c \in [key : Nat, value : Nat] /\ c.key = k
  BY <1>1
<1> HIDE DEF g, c, n
<1>4. /\ Ordered(g)
      /\ Len(g) \in Nat /\ Len(g) > 0
      /\ Access(g, Len(g) - 1) = c
      /\ \A pos \in 0 .. Len(g) - 2 :
            pos \in 0 .. Len(trace) - 1 /\ Access(g, pos) = Access(trace, pos)
      /\ \A pos \in 0 .. Len(trace) - 1 :
            \/ pos \in 0 .. Len(g) - 2
            \/ pos = Len(g) - 1 /\ Access(trace, pos).key = k
      /\ \A pos \in 0 .. Len(g) - 2 : Access(g, pos).key < k
  BY <1>1, InsertedFacts DEF g, c
<1>5. /\ pushes' \in Seq([key : Nat, value : Nat])
      /\ DOMAIN pushes' = 1 .. n + 1
      /\ \A i \in 1 .. n : pushes'[i] = pushes[i]
      /\ pushes'[n + 1] = c
  <2>1. pushes \in Seq([key : Nat, value : Nat])
    BY DEF TraceInv
  <2> QED BY <2>1, <1>1, <1>3, AppendProperties DEF n
<1>6. \A i \in 1 .. n : pushes[i].key <= k
  <2> SUFFICES ASSUME NEW i \in 1 .. n PROVE pushes[i].key <= k
    OBVIOUS
  <2>1. PICK pos \in 0 .. Len(trace) - 1 : Access(trace, pos).key = pushes[i].key
    BY <1>2 DEF TraceInv
  <2>2. CASE pos \in 0 .. Len(g) - 2
    <3>1. Access(g, pos) = Access(trace, pos) /\ Access(g, pos).key < k
      BY <2>2, <1>4
    <3> QED BY <3>1, <2>1, <1>1, <1>2
  <2>3. CASE pos = Len(g) - 1 /\ Access(trace, pos).key = k
    BY <2>1, <2>3, <1>1
  <2> QED BY <2>2, <2>3, <1>4
<1>7. ASSUME NEW i \in 1 .. n + 1
      PROVE  \/ i = n + 1 /\ pushes'[i] = c
             \/ i \in 1 .. n /\ i < n + 1 /\ pushes'[i] = pushes[i]
  <2>1. i = n + 1 \/ (i \in 1 .. n /\ i < n + 1)
    BY <1>2
  <2> QED BY <2>1, <1>5
<1>8. \A i \in DOMAIN pushes' : pushes'[i].key \in TraceKeys
  <2>1. \A i \in 1 .. n : pushes[i].key \in TraceKeys
    BY <1>2 DEF TraceInv
  <2> QED BY <2>1, <1>3, <1>5, <1>7
<1>9. \A i, j \in DOMAIN pushes' : i < j => pushes'[i].key <= pushes'[j].key
  <2> SUFFICES ASSUME NEW i \in 1 .. n + 1, NEW j \in 1 .. n + 1, i < j
               PROVE  pushes'[i].key <= pushes'[j].key
    BY <1>5
  <2>1. i \in 1 .. n /\ pushes'[i] = pushes[i]
    <3>1. i # n + 1
      BY <1>2
    <3> QED BY <3>1, <1>7
  <2>2. CASE j = n + 1 /\ pushes'[j] = c
    BY <2>1, <2>2, <1>3, <1>6
  <2>3. CASE j \in 1 .. n /\ pushes'[j] = pushes[j]
    BY <2>1, <2>3, <1>2 DEF TraceInv
  <2> QED BY <2>2, <2>3, <1>7
<1>10. \A i \in DOMAIN pushes' :
         \E pos \in 0 .. Len(g) - 1 : Access(g, pos).key = pushes'[i].key
  <2> SUFFICES ASSUME NEW i \in 1 .. n + 1
               PROVE  \E pos \in 0 .. Len(g) - 1 : Access(g, pos).key = pushes'[i].key
    BY <1>5
  <2>1. Len(g) - 1 \in 0 .. Len(g) - 1 /\ Access(g, Len(g) - 1).key = k
    BY <1>3, <1>4
  <2>2. CASE i = n + 1 /\ pushes'[i] = c
    BY <2>1, <2>2, <1>3
  <2>3. CASE i \in 1 .. n /\ pushes'[i] = pushes[i]
    <3>1. PICK pos \in 0 .. Len(trace) - 1 : Access(trace, pos).key = pushes[i].key
      BY <2>3, <1>2 DEF TraceInv
    <3>2. CASE pos \in 0 .. Len(g) - 2
      <4>1. pos \in 0 .. Len(g) - 1 /\ Access(g, pos) = Access(trace, pos)
        BY <3>2, <1>4
      <4> QED BY <4>1, <3>1, <2>3
    <3>3. CASE pos = Len(g) - 1 /\ Access(trace, pos).key = k
      BY <3>1, <3>3, <2>1, <2>3
    <3> QED BY <3>2, <3>3, <1>4
  <2> QED BY <2>2, <2>3, <1>7
<1>11. ASSUME NEW pos \in 0 .. Len(g) - 1
       PROVE  \E i \in DOMAIN pushes' :
                 /\ Access(g, pos) = pushes'[i]
                 /\ \A j \in DOMAIN pushes' : pushes'[j].key = Access(g, pos).key => j <= i
  <2>1. CASE pos = Len(g) - 1
    <3>1. n + 1 \in 1 .. n + 1 /\ \A j \in 1 .. n + 1 : j <= n + 1
      BY <1>2
    <3> QED BY <2>1, <3>1, <1>4, <1>5
  <2>2. CASE pos # Len(g) - 1
    <3>1. pos \in 0 .. Len(g) - 2
      BY <2>2, <1>4
    <3>2. pos \in 0 .. Len(trace) - 1 /\ Access(g, pos) = Access(trace, pos)
          /\ Access(g, pos).key < k
      BY <3>1, <1>4
    <3>3. PICK i \in 1 .. n : LastPush(Access(trace, pos), i)
      BY <3>2, <1>2 DEF TraceInv
    <3>4. i \in 1 .. n + 1 /\ pushes'[i] = Access(g, pos)
      BY <3>2, <3>3, <1>2, <1>5 DEF LastPush
    <3>5. ASSUME NEW j \in 1 .. n + 1, pushes'[j].key = Access(g, pos).key
          PROVE  j <= i
      <4>1. Access(g, pos).key \in Nat
        BY <1>4, OrderedFacts
      <4>2. j \in 1 .. n /\ pushes'[j] = pushes[j]
        <5>1. CASE j = n + 1 /\ pushes'[j] = c
          <6>1. Access(g, pos).key = k
            BY <3>5, <5>1, <1>3
          <6> QED BY <3>2, <4>1, <6>1, <1>1
        <5> QED BY <5>1, <1>7
      <4> QED BY <3>2, <3>3, <3>5, <4>2, <1>2 DEF LastPush
    <3> QED BY <3>4, <3>5, <1>5
  <2> QED BY <2>1, <2>2
<1>12. /\ Ordered(trace')
       /\ pushes' \in Seq([key : Nat, value : Nat])
       /\ \A i \in DOMAIN pushes' :
            \E pos \in 0 .. Len(trace') - 1 : Access(trace', pos).key = pushes'[i].key
       /\ \A pos \in 0 .. Len(trace') - 1 :
            \E i \in DOMAIN pushes' :
               /\ Access(trace', pos) = pushes'[i]
               /\ \A j \in DOMAIN pushes' : pushes'[j].key = Access(trace', pos).key => j <= i
  BY <1>1, <1>4, <1>5, <1>10, <1>11
<1> QED BY <1>8, <1>9, <1>12 DEF TraceInv, LastPush, Ordered, Access

LEMMA TraceAlways == Trace!Spec => []TraceInv
<1>1. Trace!Init => TraceInv
  <2> SUFFICES ASSUME Trace!Init PROVE TraceInv
    OBVIOUS
  <2>1. trace = <<>> /\ pushes = <<>>
    BY DEF Trace!Init
  <2>2. \A S : <<>> \in Seq(S) /\ Len(<<>>) = 0
    BY EmptySeq
  <2>3. /\ trace \in Seq([key : Nat, value : Nat]) /\ pushes \in Seq([key : Nat, value : Nat])
        /\ Len(trace) = 0 /\ Len(pushes) = 0
    BY <2>1, <2>2
  <2>4. 1 .. Len(trace) = {} /\ 0 .. Len(trace) - 1 = {} /\ DOMAIN pushes = {}
    BY <2>3
  <2> QED BY <2>3, <2>4 DEF TraceInv, Ordered
<1>2. TraceInv /\ [Trace!Next]_(Trace!vars) => TraceInv'
  <2> SUFFICES ASSUME TraceInv, [Trace!Next]_(Trace!vars) PROVE TraceInv'
    OBVIOUS
  <2>1. CASE Trace!Next
    BY <2>1, PushKeepsTrace DEF Trace!Next
  <2>2. CASE UNCHANGED Trace!vars
    BY <2>2 DEF Trace!vars, TraceInv, LastPush, Ordered, Access
  <2> QED BY <2>1, <2>2
<1> QED BY <1>1, <1>2, PTL DEF Trace!Spec

\* The last push under the keys ks
LOCAL IsLastUnder(ks, i) ==
    /\ i \in DOMAIN pushes
    /\ pushes[i].key \in ks
    /\ \A j \in DOMAIN pushes : pushes[j].key \in ks => j <= i

LEMMA LastUnderFacts ==
    ASSUME TraceInv, NEW ks
    PROVE  /\ \A i : IsLastUnder(ks, i) => Trace!LastUnder(ks) = pushes[i].value
           /\ (\A j \in DOMAIN pushes : pushes[j].key \notin ks) => Trace!LastUnder(ks) = 0
<1> DEFINE at == {i \in DOMAIN pushes : pushes[i].key \in ks}
           last == CHOOSE i \in at : \A j \in at : j <= i
<1>1. Trace!LastUnder(ks) = IF at = {} THEN 0 ELSE pushes[last].value
  BY DEF Trace!LastUnder
<1>2. ASSUME NEW i, IsLastUnder(ks, i)
      PROVE  Trace!LastUnder(ks) = pushes[i].value
  <2>1. i \in at /\ \A j \in at : j <= i
    BY <1>2 DEF IsLastUnder
  <2>2. last \in at /\ \A j \in at : j <= last
    BY <2>1
  <2>3. \A j \in at : j \in Nat
    BY TraceFacts
  <2> HIDE DEF at, last
  <2>4. last = i
    BY <2>1, <2>2, <2>3
  <2> QED BY <1>1, <2>1, <2>4
<1>3. (\A j \in DOMAIN pushes : pushes[j].key \notin ks) => Trace!LastUnder(ks) = 0
  BY <1>1
<1> QED BY <1>2, <1>3

LEMMA UpperIsRight ==
    ASSUME TraceInv, NEW k \in TraceKeys
    PROVE  Trace!UpperLookup(trace, k) = Trace!LastUnder({c \in TraceKeys : c <= k})
<1> DEFINE p == UpperBinaryLookup(trace, k, 0, Len(trace))
           ks == {c \in TraceKeys : c <= k}
<1>1. /\ k \in Nat /\ Ordered(trace) /\ Len(trace) \in Nat
      /\ DOMAIN pushes = 1 .. Len(pushes) /\ Len(pushes) \in Nat
      /\ \A i \in 1 .. Len(pushes) : pushes[i].key \in Nat
  BY PushedAssumption, TraceFacts DEF TraceInv
<1>2. p \in Places(trace, k, TRUE)
  BY <1>1, UpperFinds, WholeIsAround
<1>3. Trace!UpperLookup(trace, k) = ValueBefore(trace, p)
  BY TraceIsCheckpoints DEF Trace!UpperLookup
<1> HIDE DEF p
<1>4. /\ p \in 0 .. Len(trace)
      /\ \A pos \in 0 .. Len(trace) - 1 : Access(trace, pos).key <= k <=> pos < p
  BY <1>2 DEF Places, Comes
<1>5. CASE p = 0
  <2>1. ASSUME NEW j \in DOMAIN pushes PROVE pushes[j].key \notin ks
    <3>1. PICK pos \in 0 .. Len(trace) - 1 : Access(trace, pos).key = pushes[j].key
      BY DEF TraceInv
    <3>2. ~ (Access(trace, pos).key <= k)
      BY <1>1, <1>4, <1>5
    <3> QED BY <3>1, <3>2
  <2>2. Trace!LastUnder(ks) = 0
    BY <2>1, LastUnderFacts
  <2> QED BY <2>2, <1>3, <1>5 DEF ValueBefore
<1>6. CASE p # 0
  <2>1. p - 1 \in 0 .. Len(trace) - 1 /\ p - 1 < p
    BY <1>1, <1>4, <1>6
  <2>2. PICK i \in DOMAIN pushes : LastPush(Access(trace, p - 1), i)
    BY <2>1 DEF TraceInv
  <2>3. /\ pushes[i] = Access(trace, p - 1)
        /\ pushes[i].key \in ks
    BY <2>1, <2>2, <1>4 DEF LastPush, TraceInv
  <2>4. ASSUME NEW j \in DOMAIN pushes, pushes[j].key \in ks PROVE j <= i
    <3>1. PICK pos \in 0 .. Len(trace) - 1 : Access(trace, pos).key = pushes[j].key
      BY DEF TraceInv
    <3>2. pos < p
      BY <2>4, <3>1, <1>4
    <3>3. pushes[j].key <= pushes[i].key
      <4>1. \A q, r \in 0 .. Len(trace) - 1 :
              q < r => Access(trace, q).key < Access(trace, r).key
        BY <1>1, OrderedFacts
      <4>2. pos = p - 1 \/ pos < p - 1
        BY <3>2, <1>1, <1>4
      <4>3. pushes[j].key \in Nat /\ pushes[i].key \in Nat
        BY <1>1
      <4> QED BY <4>1, <4>2, <4>3, <2>1, <2>3, <3>1
    <3>4. CASE pushes[j].key = pushes[i].key
      BY <2>2, <2>3, <3>4 DEF LastPush
    <3>5. CASE pushes[j].key # pushes[i].key
      <4>1. pushes[j].key \in Nat /\ pushes[i].key \in Nat /\ i \in Nat /\ j \in Nat
        BY <1>1
      <4>2. ~ (i < j)
        <5>1. i < j => pushes[i].key <= pushes[j].key
          BY DEF TraceInv
        <5> QED BY <5>1, <4>1, <3>3, <3>5
      <4> QED BY <4>1, <4>2
    <3> QED BY <3>4, <3>5
  <2>5. IsLastUnder(ks, i)
    BY <2>3, <2>4 DEF IsLastUnder
  <2>6. Trace!LastUnder(ks) = pushes[i].value
    BY <2>5, LastUnderFacts
  <2> QED BY <2>3, <2>6, <1>3, <1>6 DEF ValueBefore
<1> QED BY <1>5, <1>6

LEMMA LowerIsRight ==
    ASSUME TraceInv, NEW k \in TraceKeys, NEW used,
           used = {c \in TraceKeys : c >= k /\ \E i \in DOMAIN pushes : pushes[i].key = c}
    PROVE  Trace!LowerLookup(trace, k)
             = Trace!LastUnder({c \in used : \A d \in used : c <= d})
<1> DEFINE p == LowerBinaryLookup(trace, k, 0, Len(trace))
           ks == {c \in used : \A d \in used : c <= d}
<1>1. /\ k \in Nat /\ Ordered(trace) /\ Len(trace) \in Nat
      /\ DOMAIN pushes = 1 .. Len(pushes) /\ Len(pushes) \in Nat
      /\ \A i \in 1 .. Len(pushes) : pushes[i].key \in Nat
      /\ \A c \in TraceKeys : c \in Nat
  BY PushedAssumption, TraceFacts DEF TraceInv
<1>2. p \in Places(trace, k, FALSE)
  BY <1>1, LowerFinds, WholeIsAround
<1>3. Trace!LowerLookup(trace, k) = IF p = Len(trace) THEN 0 ELSE Access(trace, p).value
  BY TraceIsCheckpoints DEF Trace!LowerLookup
<1> HIDE DEF p
<1>4. /\ p \in 0 .. Len(trace)
      /\ \A pos \in 0 .. Len(trace) - 1 : Access(trace, pos).key < k <=> pos < p
  BY <1>2 DEF Places, Comes
<1>5. \A c \in used : \E pos \in p .. Len(trace) - 1 : Access(trace, pos).key = c
  <2> SUFFICES ASSUME NEW c \in used
               PROVE  \E pos \in p .. Len(trace) - 1 : Access(trace, pos).key = c
    OBVIOUS
  <2>1. PICK i \in DOMAIN pushes : pushes[i].key = c
    OBVIOUS
  <2>2. PICK pos \in 0 .. Len(trace) - 1 : Access(trace, pos).key = c
    BY <2>1 DEF TraceInv
  <2>3. c >= k /\ c \in Nat
    BY <1>1
  <2>4. ~ (pos < p)
    BY <2>2, <2>3, <1>1, <1>4
  <2>5. pos \in p .. Len(trace) - 1
    BY <2>4, <1>1, <1>4
  <2> QED BY <2>2, <2>5
<1>6. CASE p = Len(trace)
  <2>1. used = {}
    <3>1. p .. Len(trace) - 1 = {}
      BY <1>1, <1>6
    <3> QED BY <3>1, <1>5
  <2>2. Trace!LastUnder(ks) = 0
    BY <2>1, LastUnderFacts
  <2> QED BY <2>2, <1>3, <1>6
<1>7. CASE p # Len(trace)
  <2>1. p \in 0 .. Len(trace) - 1 /\ ~ (p < p)
    BY <1>1, <1>4, <1>7
  <2>2. PICK i \in DOMAIN pushes : LastPush(Access(trace, p), i)
    BY <2>1 DEF TraceInv
  <2>3. pushes[i] = Access(trace, p) /\ pushes[i].key \in TraceKeys /\ pushes[i].key \in Nat
    BY <2>2, <1>1 DEF LastPush, TraceInv
  <2>4. pushes[i].key >= k
    <3>1. ~ (Access(trace, p).key < k)
      BY <2>1, <1>4
    <3> QED BY <3>1, <2>3, <1>1
  <2>5. pushes[i].key \in used
    BY <2>3, <2>4
  <2>6. ASSUME NEW c \in used PROVE pushes[i].key <= c
    <3>1. PICK pos \in p .. Len(trace) - 1 : Access(trace, pos).key = c
      BY <1>5
    <3>2. \A q, r \in 0 .. Len(trace) - 1 :
            q < r => Access(trace, q).key < Access(trace, r).key
      BY <1>1, OrderedFacts
    <3>3. pos \in 0 .. Len(trace) - 1 /\ (pos = p \/ p < pos)
      BY <1>1, <1>4
    <3>4. c \in Nat
      BY <1>1
    <3> QED BY <3>1, <3>2, <3>3, <3>4, <2>1, <2>3
  <2>7. pushes[i].key \in ks
    BY <2>5, <2>6
  <2>8. ASSUME NEW j \in DOMAIN pushes, pushes[j].key \in ks PROVE j <= i
    <3>1. pushes[j].key <= pushes[i].key /\ pushes[i].key <= pushes[j].key
      BY <2>5, <2>6, <2>8
    <3>2. pushes[j].key = pushes[i].key
      BY <3>1, <1>1
    <3> QED BY <2>2, <2>3, <3>2 DEF LastPush
  <2> HIDE DEF ks
  <2>9. IsLastUnder(ks, i)
    BY <2>7, <2>8 DEF IsLastUnder
  <2>10. Trace!LastUnder(ks) = pushes[i].value
    BY <2>9, LastUnderFacts
  <2> QED BY <2>3, <2>10, <1>3, <1>7 DEF ks
<1> QED BY <1>6, <1>7

\* upperLookup and lowerLookup find what was pushed last under the key that they are to
\* find, for any keys and values and any number of pushes.
THEOREM LookupsFindLast == Trace!Spec => []LookupsRight
<1>1. TraceInv => LookupsRight
  <2> SUFFICES ASSUME TraceInv PROVE LookupsRight
    OBVIOUS
  <2>1. Trace!UpperLookupRight
    BY UpperIsRight DEF Trace!UpperLookupRight
  <2>2. Trace!LowerLookupRight
    BY LowerIsRight DEF Trace!LowerLookupRight
  <2> QED BY <2>1, <2>2 DEF LookupsRight
<1> QED BY TraceAlways, <1>1, PTL
=============================================================================
