--------------------------- MODULE Create2Proofs ---------------------------
(***************************************************************************)
(* The factory never creates a contract twice at one address, and records  *)
(* all it creates, whatever the number of users, salts and init codes and  *)
(* however its calls are nested.                                           *)
(***************************************************************************)
EXTENDS Create2Factory, SequenceTheorems, TLAPS

Frame == [target : Addresses, caller : Users, deployed : SUBSET Addresses,
          accounts : SUBSET Addresses, doomed : SUBSET Addresses]

\* The constructor of the contract a is among the first n calls of the stack.
Running(a, n) == \E k \in 1 .. n : frames[k].target = a

\* What holds of a record d and the contracts as under the first n calls of the stack:
\* the contracts are recorded or being created, and the past is recorded.
Level(d, as, n) ==
    /\ past \subseteq d
    /\ \A a \in as : a \in d \/ Running(a, n)

\* NeverTwice speaks of the present, and Fail brings back what a call has found: the
\* invariant asks the same of both.
FactoryInv ==
    /\ frames \in Seq(Frame)
    /\ Level(deployed, accounts, Len(frames))
    /\ \A k \in 1 .. Len(frames) :
          /\ Level(frames[k].deployed, frames[k].accounts, k - 1)
          /\ frames[k].target \notin past

\* Nothing is recorded and nothing exists at first.
LEMMA FactoryInit == Init => FactoryInv
  BY DEF Init, FactoryInv, Level, Running, Frame

\* A call of the factory adds a level, which is the one it finds.
LEMMA CallKeeps ==
  ASSUME FactoryInv, accounts \subseteq Addresses, deployed \subseteq Addresses,
         doomed \subseteq Addresses,
         NEW caller \in Users, NEW salt \in Salts, NEW initCode \in InitCodes,
         SafeCreate2(caller, salt, initCode)
  PROVE  FactoryInv'
  <1> DEFINE target == [salt |-> salt, initCode |-> initCode]
             f == [target |-> target, caller |-> caller, deployed |-> deployed,
                   accounts |-> accounts, doomed |-> doomed]
  <1>0. PICK n \in Nat : n = Len(frames)
    BY DEF FactoryInv
  <1>1. f \in Frame
    BY DEF Frame, Addresses
  <1>2. frames \in Seq(Frame) /\ n = Len(frames)
    BY <1>0 DEF FactoryInv
  <1>3. frames' = Append(frames, f) /\ accounts' = accounts \cup {target}
        /\ UNCHANGED <<deployed, past>> /\ target \notin deployed
    BY DEF SafeCreate2, NotDeployed
  <1> HIDE DEF f
  <1>4. frames' \in Seq(Frame) /\ Len(frames') = n + 1
        /\ frames'[n + 1] = f /\ \A k \in 1 .. n : frames'[k] = frames[k]
    BY <1>1, <1>2, <1>3
  <1>5. \A m \in 0 .. n : \A a : Running(a, m)' <=> Running(a, m)
    BY <1>2, <1>4 DEF Running
  <1>6. f.target = target /\ f.deployed = deployed /\ f.accounts = accounts
    BY DEF f
  <1>7. \A a : Running(a, n + 1)' <=> Running(a, n) \/ a = target
    BY <1>2, <1>4, <1>6 DEF Running
  <1>8. Level(deployed, accounts, Len(frames))'
    BY <1>2, <1>3, <1>4, <1>7 DEF FactoryInv, Level
  <1>9. ASSUME NEW k \in 1 .. n + 1
        PROVE  /\ Level(frames[k].deployed, frames[k].accounts, k - 1)'
               /\ (frames[k].target \notin past)'
    <2>1. CASE k \in 1 .. n
      <3>1. k - 1 \in 0 .. n
        BY <1>2
      <3>2. \A a : Running(a, k - 1)' <=> Running(a, k - 1)
        BY <1>5, <3>1
      <3> QED
        BY <1>2, <1>3, <1>4, <2>1, <3>2 DEF FactoryInv, Level
    <2>2. CASE k = n + 1
      <3>1. k - 1 = n /\ n \in 0 .. n
        BY <1>2, <2>2
      <3>2. \A a : Running(a, n)' <=> Running(a, n)
        BY <1>5, <3>1
      <3>3. Level(frames[k].deployed, frames[k].accounts, k - 1)'
        BY <1>3, <1>4, <1>6, <2>2, <3>1, <3>2 DEF FactoryInv, Level
      <3>4. target \notin past
        BY <1>3 DEF FactoryInv, Level
      <3> QED
        BY <1>3, <1>4, <1>6, <2>2, <3>3, <3>4
    <2> QED
      BY <1>2, <2>1, <2>2
  <1> QED
    BY <1>4, <1>8, <1>9 DEF FactoryInv

\* The end of a call, with a record d and contracts as that are those of the level below.
LEMMA EndKeeps ==
  ASSUME FactoryInv, frames # <<>>,
         NEW STATE d, NEW STATE as, NEW STATE ds, Level(d, as, Len(frames) - 1),
         deployed' = d, Settle(as, ds)
  PROVE  FactoryInv'
  <1>0. PICK n \in Nat : n = Len(frames)
    BY DEF FactoryInv
  <1>1. frames \in Seq(Frame) /\ n = Len(frames) /\ n >= 1
    BY <1>0 DEF FactoryInv
  <1>2. /\ frames' = Outer
        /\ frames' \in Seq(Frame)
        /\ Len(frames') = n - 1
        /\ \A k \in 1 .. n - 1 : frames'[k] = frames[k]
    BY <1>1, SubSeqProperties DEF Settle, Outer
  <1>3. \A m \in 0 .. n - 1 : \A a : Running(a, m)' <=> Running(a, m)
    BY <1>1, <1>2 DEF Running
  <1>4. CASE n = 1
    <2>1. Outer = <<>>
      BY <1>1, <1>2, <1>4 DEF Settle
    <2>2. accounts' = as \ ds /\ past' = past \cup (as \ ds)
      BY <2>1 DEF Settle
    <2>3. as \subseteq d /\ past \subseteq d
      <3>1. Level(d, as, 0)
        <4>1. Len(frames) - 1 = 0
          BY <1>1, <1>4
        <4> QED
          BY <4>1
      <3>2. \A a : ~Running(a, 0)
        BY DEF Running
      <3> QED
        BY <3>1, <3>2 DEF Level
    <2>4. Level(deployed, accounts, Len(frames))'
      BY <2>2, <2>3 DEF Level
    <2> QED
      BY <1>1, <1>2, <1>4, <2>4 DEF FactoryInv
  <1>5. CASE n # 1
    <2>1. Outer # <<>>
      BY <1>1, <1>2, <1>5 DEF Settle
    <2>2. accounts' = as /\ past' = past
      BY <2>1 DEF Settle
    <2>3. \A a : Running(a, n - 1)' <=> Running(a, n - 1)
      BY <1>1, <1>3
    <2>4. Level(deployed, accounts, Len(frames))'
      <3>1. Level(d, as, n - 1)
        BY <1>1
      <3> QED
        BY <1>2, <2>2, <2>3, <3>1 DEF Level
    <2>5. ASSUME NEW k \in 1 .. n - 1
          PROVE  /\ Level(frames[k].deployed, frames[k].accounts, k - 1)'
                 /\ (frames[k].target \notin past)'
      <3>1. k - 1 \in 0 .. n - 1 /\ k \in 1 .. n
        BY <1>1
      <3>2. \A a : Running(a, k - 1)' <=> Running(a, k - 1)
        BY <1>3, <3>1
      <3>3. Level(frames[k].deployed, frames[k].accounts, k - 1) /\ frames[k].target \notin past
        BY <1>1, <3>1 DEF FactoryInv
      <3> QED
        BY <1>2, <2>2, <3>2, <3>3 DEF Level
    <2> QED
      BY <1>2, <2>4, <2>5 DEF FactoryInv
  <1> QED
    BY <1>4, <1>5

\* A contract that destroys itself is gone or will be; what is recorded stays.
LEMMA DestructKeeps ==
  ASSUME FactoryInv, NEW address, SelfDestruct(address)
  PROVE  FactoryInv'
  BY DEF FactoryInv, SelfDestruct, Level, Running

\* The types the proof needs beside those of the frames.
StorageOK ==
    /\ deployed \subseteq Addresses
    /\ accounts \subseteq Addresses
    /\ doomed \subseteq Addresses

LEMMA StorageKept ==
  ASSUME StorageOK, FactoryInv, [Next]_vars
  PROVE  StorageOK'
  <1>1. CASE \E caller \in Users, salt \in Salts, initCode \in InitCodes :
                SafeCreate2(caller, salt, initCode)
    BY <1>1 DEF SafeCreate2, StorageOK, Addresses
  <1>2. ASSUME frames # <<>> PROVE Top \in Frame
    BY <1>2 DEF FactoryInv, Top
  <1>3. CASE Created
    BY <1>2, <1>3 DEF Created, Settle, StorageOK, Frame
  <1>4. CASE Fail
    BY <1>2, <1>4 DEF Fail, Settle, StorageOK, Frame
  <1>5. CASE \E address \in accounts : SelfDestruct(address)
    BY <1>5 DEF SelfDestruct, StorageOK
  <1>6. CASE UNCHANGED vars
    BY <1>6 DEF vars, StorageOK
  <1> QED
    BY <1>1, <1>3, <1>4, <1>5, <1>6 DEF Next

LEMMA FactoryStep ==
  ASSUME StorageOK, FactoryInv, [Next]_vars
  PROVE  FactoryInv'
  <1>1. CASE \E caller \in Users, salt \in Salts, initCode \in InitCodes :
                SafeCreate2(caller, salt, initCode)
    BY <1>1, CallKeeps DEF StorageOK
  <1>2. ASSUME frames # <<>>
        PROVE  /\ frames \in Seq(Frame) /\ Len(frames) \in Nat /\ Len(frames) >= 1
               /\ Top = frames[Len(frames)]
               /\ \A a : Running(a, Len(frames)) => Running(a, Len(frames) - 1) \/ a = Top.target
    BY <1>2 DEF FactoryInv, Top, Running
  <1>3. CASE Created
    <2>1. frames # <<>> /\ deployed' = deployed \cup {Top.target} /\ Settle(accounts, doomed)
      BY <1>3 DEF Created
    <2>2. Level(deployed \cup {Top.target}, accounts, Len(frames) - 1)
      BY <1>2, <2>1 DEF FactoryInv, Level
    <2> QED
      BY <2>1, <2>2, EndKeeps
  <1>4. CASE Fail
    <2>1. frames # <<>> /\ deployed' = Top.deployed /\ Settle(Top.accounts, Top.doomed)
      BY <1>4 DEF Fail
    <2>2. Level(Top.deployed, Top.accounts, Len(frames) - 1)
      BY <1>2, <2>1 DEF FactoryInv
    <2> QED
      BY <2>1, <2>2, EndKeeps
  <1>5. CASE \E address \in accounts : SelfDestruct(address)
    BY <1>5, DestructKeeps
  <1>6. CASE UNCHANGED vars
    BY <1>6 DEF vars, FactoryInv, Level, Running
  <1> QED
    BY <1>1, <1>3, <1>4, <1>5, <1>6 DEF Next

LEMMA FactorySafe == FactoryInv => NeverTwice /\ RecordComplete
  BY DEF FactoryInv, NeverTwice, RecordComplete, FindCreate2Address, HasBeenDeployed,
         Constructing, Level, Running

\* No address the factory has used is ever used again, also after its contract has
\* destroyed itself, and however the calls of constructors to the factory are nested.
THEOREM Immutability == Spec => []NeverTwice
  <1>1. Init => StorageOK /\ FactoryInv
    BY FactoryInit DEF Init, StorageOK
  <1>2. StorageOK /\ FactoryInv /\ [Next]_vars => (StorageOK /\ FactoryInv)'
    BY StorageKept, FactoryStep
  <1> QED
    BY <1>1, <1>2, FactorySafe, PTL DEF Spec

\* Between transactions the record is never behind the chain.
THEOREM RecordKept == Spec => []RecordComplete
  <1>1. Init => StorageOK /\ FactoryInv
    BY FactoryInit DEF Init, StorageOK
  <1>2. StorageOK /\ FactoryInv /\ [Next]_vars => (StorageOK /\ FactoryInv)'
    BY StorageKept, FactoryStep
  <1> QED
    BY <1>1, <1>2, FactorySafe, PTL DEF Spec
=============================================================================
