-------------------------- MODULE RegistrarProofs --------------------------
(***************************************************************************)
(* The registrar's types, its guard, the copies its functions work with    *)
(* and its two registries; who may move a nota; and what a nota and a      *)
(* hook's earnings go through from one transaction to the next: proved for *)
(* every number of accounts, notas, hooks, currencies and nested calls.    *)
(*                                                                         *)
(* A revert brings back the storage a function has found, so an invariant  *)
(* must hold of every storage that waits in the stack, together with the   *)
(* functions that were in progress when it was saved.  Level gives the     *)
(* storage over which the first k functions are in progress.  Sound says   *)
(* of every level that its types, copies and registries are right,         *)
(* OwnedWell that each account owns what the counts say and that who moves *)
(* a nota may.  A step changes the uppermost level only, or adds one above *)
(* it, or removes it; the lemmas EnterLevels to LeaveLevels say so once    *)
(* for all actions, and LowerLevels for every step.  HistoryInv says that  *)
(* a storage has evolved from the one the function above it has found: a   *)
(* revert goes back along that line, and never past where the transaction  *)
(* has started.                                                            *)
(***************************************************************************)
EXTENDS RegistrarProperties, FiniteSetTheorems, SequenceTheorems, TLAPS

\* How a function's name, its place and its arguments go together.
Shape(f) ==
    /\ f.op \in GuardedOps =>
         /\ f.id \in NotaIds /\ f.hooks \in HookContracts
         /\ f.pc # "withdraw" /\ f.caller # Registrar
    /\ f.op \in GuardedOps \ {"write"} => f.owner # Null
    /\ f.op \notin GuardedOps => f.pc = "withdraw"
    /\ f.pc \in {"pull", "instant", "store"} =>
         f.op \in {"write", "fund"} /\ f.amount + f.fee <= MaxUint
    /\ f.pc \in {"pay", "credit"} => f.op = "cash" /\ f.fee <= f.amount
    /\ f.pc = "receiver" => f.op = "safeTransferFrom"
    /\ f.pc = "burn" => f.op = "burn"
    /\ f.op = "burn" => CurrentIn(f.saved, f)

\* What holds of a storage s under the first n functions of the stack fs.
Sound(s, fs, n) ==
    /\ s \in StorageType
    /\ AgreeIn(s)
    /\ ExclusiveIn(s, fs, n)
    /\ \A k \in 1 .. n : Shape(fs[k]) /\ CurrentIn(s, fs[k])

Level(s, fs, k) == IF k = Len(fs) THEN s ELSE fs[k + 1].saved

Levels(s, fs) == \A k \in 0 .. Len(fs) : Sound(Level(s, fs, k), fs, k)

StructureInv == TypeOK /\ Levels(Storage, frames)

\* The variables of the storage, typed one by one.
StorageOK ==
    /\ ERC20TypeOK
    /\ ERC721TypeOK
    /\ GovTypeOK
    /\ notas \in [NotaIds -> Nota \cup {EmptyNota}]
    /\ nextId \in 1 .. MaxNotas + 1
    /\ status \in {NotEntered, Entered}

-----------------------------------------------------------------------------
(* Storage and stack.                                                       *)

\* The fields of the storage are the variables.
LEMMA StorageFields ==
    /\ Storage.balanceOf = balanceOf /\ Storage.allowance = allowance
    /\ Storage.owners = owners /\ Storage.balances = balances
    /\ Storage.tokenApprovals = tokenApprovals
    /\ Storage.operatorApprovals = operatorApprovals
    /\ Storage.hookRevenue = hookRevenue
    /\ Storage.hookTotalRevenue = hookTotalRevenue
    /\ Storage.protocolRevenue = protocolRevenue
    /\ Storage.protocolTotalRevenue = protocolTotalRevenue
    /\ Storage.protocolFee = protocolFee /\ Storage.govOwner = govOwner
    /\ Storage.notas = notas /\ Storage.nextId = nextId /\ Storage.status = status
BY DEF Storage

\* The same after a step.
LEMMA StorageFieldsNext ==
    /\ Storage'.balanceOf = balanceOf' /\ Storage'.allowance = allowance'
    /\ Storage'.owners = owners' /\ Storage'.balances = balances'
    /\ Storage'.tokenApprovals = tokenApprovals'
    /\ Storage'.operatorApprovals = operatorApprovals'
    /\ Storage'.hookRevenue = hookRevenue'
    /\ Storage'.hookTotalRevenue = hookTotalRevenue'
    /\ Storage'.protocolRevenue = protocolRevenue'
    /\ Storage'.protocolTotalRevenue = protocolTotalRevenue'
    /\ Storage'.protocolFee = protocolFee' /\ Storage'.govOwner = govOwner'
    /\ Storage'.notas = notas' /\ Storage'.nextId = nextId' /\ Storage'.status = status'
BY DEF Storage

\* The storage is typed when its variables are.
LEMMA StorageTyped == Storage \in StorageType <=> StorageOK
BY DEF Storage, StorageType, StorageOK, ERC20TypeOK, ERC721TypeOK, GovTypeOK

\* The same after a step.
LEMMA StorageTypedNext == Storage' \in StorageType <=> StorageOK'
BY DEF Storage, StorageType, StorageOK, ERC20TypeOK, ERC721TypeOK, GovTypeOK

\* Soundness looks at the first n functions only.
LEMMA SoundPrefix ==
    ASSUME NEW s, NEW fs, NEW gs, NEW n \in Nat, \A k \in 1 .. n : fs[k] = gs[k],
           Sound(s, fs, n)
    PROVE  Sound(s, gs, n)
BY DEF Sound, ExclusiveIn

\* A new function above the others finds the storage of the level below it.
LEMMA EnterLevels ==
    ASSUME NEW s, NEW t, NEW fs \in Seq(FrameType), NEW f \in FrameType, f.saved = s,
           Levels(s, fs), Sound(t, Append(fs, f), Len(fs) + 1)
    PROVE  Levels(t, Append(fs, f))
<1> DEFINE gs == Append(fs, f)
<1>1. /\ gs \in Seq(FrameType)
      /\ Len(fs) \in Nat
      /\ Len(gs) = Len(fs) + 1
      /\ \A k \in 1 .. Len(fs) : gs[k] = fs[k]
      /\ gs[Len(fs) + 1] = f
  OBVIOUS
<1> HIDE DEF gs
<1>2. ASSUME NEW k \in 0 .. Len(fs) PROVE Sound(Level(t, gs, k), gs, k)
  <2>1. Level(t, gs, k) = Level(s, fs, k)
    BY <1>1 DEF Level
  <2>2. k \in Nat /\ \A j \in 1 .. k : fs[j] = gs[j]
    BY <1>1
  <2> QED BY <2>1, <2>2, SoundPrefix DEF Levels
<1>3. Level(t, gs, Len(fs) + 1) = t
  BY <1>1 DEF Level
<1>4. Sound(t, gs, Len(fs) + 1)
  BY DEF gs
<1>5. ASSUME NEW k \in 0 .. Len(gs) PROVE Sound(Level(t, gs, k), gs, k)
  <2>1. k \in 0 .. Len(fs) \/ k = Len(fs) + 1
    BY <1>1
  <2> QED BY <1>2, <1>3, <1>4, <2>1
<1> QED BY <1>5 DEF Levels, gs

\* The uppermost function going on, or ending, leaves the levels below as they are.
LEMMA ContinueLevels ==
    ASSUME NEW s, NEW t, NEW fs \in Seq(FrameType), fs # <<>>, NEW f \in FrameType,
           f.saved = fs[Len(fs)].saved, Levels(s, fs),
           Sound(t, [fs EXCEPT ![Len(fs)] = f], Len(fs))
    PROVE  Levels(t, [fs EXCEPT ![Len(fs)] = f])
<1> DEFINE gs == [fs EXCEPT ![Len(fs)] = f]
<1>1. /\ gs \in Seq(FrameType)
      /\ Len(fs) \in Nat \ {0}
      /\ Len(gs) = Len(fs)
      /\ \A k \in 1 .. Len(fs) - 1 : gs[k] = fs[k]
      /\ gs[Len(fs)] = f
  OBVIOUS
<1>2. Sound(t, gs, Len(fs))
  OBVIOUS
<1> HIDE DEF gs
<1>3. ASSUME NEW k \in 0 .. Len(fs) - 1 PROVE Sound(Level(t, gs, k), gs, k)
  <2>1. Level(t, gs, k) = Level(s, fs, k)
    BY <1>1 DEF Level
  <2>2. k \in Nat /\ \A j \in 1 .. k : fs[j] = gs[j]
    BY <1>1
  <2>3. Sound(Level(s, fs, k), fs, k)
    BY <1>1 DEF Levels
  <2> QED BY <2>1, <2>2, <2>3, SoundPrefix
<1>4. Level(t, gs, Len(fs)) = t
  BY <1>1 DEF Level
<1>5. ASSUME NEW k \in 0 .. Len(gs) PROVE Sound(Level(t, gs, k), gs, k)
  <2>1. k \in 0 .. Len(fs) - 1 \/ k = Len(fs)
    BY <1>1
  <2> QED BY <1>2, <1>3, <1>4, <2>1
<1> QED BY <1>5 DEF Levels, gs

\* A stack without its last function.
LEMMA Shorter ==
    ASSUME NEW fs \in Seq(FrameType), Len(fs) \in Nat \ {0}
    PROVE  /\ SubSeq(fs, 1, Len(fs) - 1) \in Seq(FrameType)
           /\ Len(SubSeq(fs, 1, Len(fs) - 1)) = Len(fs) - 1
           /\ \A k \in 1 .. Len(fs) - 1 : SubSeq(fs, 1, Len(fs) - 1)[k] = fs[k]
<1> DEFINE n == Len(fs) - 1
<1>1. n \in Nat /\ n \in Int /\ 1 \in Int /\ \A k \in 1 .. n : fs[k] \in FrameType
  OBVIOUS
<1> HIDE DEF n
<1>2. /\ SubSeq(fs, 1, n) \in Seq(FrameType)
      /\ Len(SubSeq(fs, 1, n)) = IF 1 <= n THEN n - 1 + 1 ELSE 0
      /\ \A k \in 1 .. n - 1 + 1 : SubSeq(fs, 1, n)[k] = fs[1 + k - 1]
  BY <1>1, SubSeqProperties
<1>3. /\ Len(SubSeq(fs, 1, n)) = n
      /\ \A k \in 1 .. n : SubSeq(fs, 1, n)[k] = fs[k]
  <2>1. n - 1 + 1 = n /\ (~(1 <= n) => n = 0) /\ \A k \in 1 .. n : 1 + k - 1 = k
    BY <1>1
  <2> QED BY <1>2, <2>1
<1> QED BY <1>2, <1>3 DEF n

\* When it ends the stack is one shorter.
LEMMA LeaveLevels ==
    ASSUME NEW s, NEW t, NEW fs \in Seq(FrameType), fs # <<>>, Levels(s, fs),
           Sound(t, fs, Len(fs) - 1)
    PROVE  /\ Levels(t, SubSeq(fs, 1, Len(fs) - 1))
           /\ SubSeq(fs, 1, Len(fs) - 1) \in Seq(FrameType)
           /\ Len(SubSeq(fs, 1, Len(fs) - 1)) = Len(fs) - 1
<1> DEFINE gs == SubSeq(fs, 1, Len(fs) - 1)
<1>1. /\ gs \in Seq(FrameType)
      /\ Len(fs) \in Nat \ {0}
      /\ Len(gs) = Len(fs) - 1
      /\ \A k \in 1 .. Len(fs) - 1 : gs[k] = fs[k]
  <2>1. Len(fs) \in Nat \ {0}
    OBVIOUS
  <2> QED BY <2>1, Shorter
<1> HIDE DEF gs
<1>2. ASSUME NEW k \in 0 .. Len(gs) PROVE Sound(Level(t, gs, k), gs, k)
  <2>1. k \in Nat /\ \A j \in 1 .. k : fs[j] = gs[j]
    BY <1>1
  <2>2. Sound(Level(t, gs, k), fs, k)
    <3>1. CASE k = Len(fs) - 1
      BY <1>1, <3>1 DEF Level
    <3>2. CASE k # Len(fs) - 1
      <4>1. Level(t, gs, k) = Level(s, fs, k)
        BY <1>1, <3>2 DEF Level
      <4>2. k \in 0 .. Len(fs)
        BY <1>1
      <4> QED BY <4>1, <4>2 DEF Levels
    <3> QED BY <3>1, <3>2
  <2> QED BY <2>1, <2>2, SoundPrefix
<1> QED BY <1>1, <1>2 DEF Levels, gs
-----------------------------------------------------------------------------
(* What the invariant says of the present storage and the innermost function. *)

\* The present storage is sound under all functions in progress.
LEMMA Present ==
    ASSUME StructureInv
    PROVE  /\ StorageOK /\ AgreeIn(Storage)
           /\ frames \in Seq(FrameType) /\ Len(frames) \in Nat
           /\ Sound(Storage, frames, Len(frames))
<1>1. frames \in Seq(FrameType) /\ Len(frames) \in Nat
  BY DEF StructureInv, TypeOK
<1>2. Level(Storage, frames, Len(frames)) = Storage
  BY DEF Level
<1>3. Sound(Storage, frames, Len(frames))
  BY <1>1, <1>2 DEF StructureInv, Levels
<1> QED BY <1>1, <1>3, StorageTyped DEF Sound

\* So is the storage the innermost function has found, under the others; and when
\* that function is guarded, none of the others is.
LEMMA Innermost ==
    ASSUME StructureInv, frames # <<>>
    PROVE  /\ Len(frames) \in Nat \ {0}
           /\ Top \in FrameType /\ Top = frames[Len(frames)]
           /\ Shape(Top) /\ CurrentIn(Storage, Top)
           /\ Sound(Top.saved, frames, Len(frames) - 1)
           /\ Top.op \in GuardedOps =>
                /\ status = Entered
                /\ \A k \in 1 .. Len(frames) - 1 : frames[k].op \notin GuardedOps
<1>1. frames \in Seq(FrameType) /\ Len(frames) \in Nat \ {0}
  BY DEF StructureInv, TypeOK
<1>2. Top \in FrameType /\ Top = frames[Len(frames)]
  BY <1>1 DEF Top
<1>3. Shape(Top) /\ CurrentIn(Storage, Top)
  BY <1>1, <1>2, Present DEF Sound
<1>4. Level(Storage, frames, Len(frames) - 1) = Top.saved
  BY <1>1 DEF Level, Top
<1>5. Sound(Top.saved, frames, Len(frames) - 1)
  <2>1. Len(frames) - 1 \in 0 .. Len(frames)
    BY <1>1
  <2> QED BY <1>4, <2>1 DEF StructureInv, Levels
<1>6. ASSUME Top.op \in GuardedOps
      PROVE  /\ status = Entered
             /\ \A k \in 1 .. Len(frames) - 1 : frames[k].op \notin GuardedOps
  <2>1. ExclusiveIn(Storage, frames, Len(frames))
    BY Present DEF Sound
  <2> QED BY <1>1, <1>2, <1>6, <2>1, StorageFields DEF ExclusiveIn
<1> QED BY <1>1, <1>2, <1>3, <1>5, <1>6

-----------------------------------------------------------------------------
(* The five ways a step changes the stack.                                  *)

\* Gas stays within its bound.
LEMMA GasBound ==
    ASSUME gas \in 0 .. MaxGas
    PROVE  SpendGas \/ Leave \/ UNCHANGED gas => gas' \in 0 .. MaxGas
BY EVMAssumption DEF SpendGas, Leave

\* A guarded function starts.
LEMMA EnterGuardedSound ==
    ASSUME StructureInv, NEW f \in FrameType, f.op \in GuardedOps, f.saved = Storage,
           Shape(f), CurrentIn(Storage, f), EnterGuarded(f)
    PROVE  StructureInv'
<1>1. /\ frames' = Append(frames, f) /\ Len(frames) < MaxDepth /\ gas' \in 0 .. MaxGas
      /\ status = NotEntered /\ status' = Entered
      /\ UNCHANGED <<erc20Vars, erc721Vars, govVars, notas, nextId>>
  BY GasBound DEF EnterGuarded, Enter, StructureInv, TypeOK
<1>2. frames \in Seq(FrameType) /\ Len(frames) \in Nat
  BY Present
<1>3. /\ frames' \in Seq(FrameType) /\ Len(frames') = Len(frames) + 1
      /\ frames'[Len(frames) + 1] = f
      /\ \A k \in 1 .. Len(frames) : frames'[k] = frames[k]
  BY <1>1, <1>2
<1>4. StorageOK'
  BY <1>1, Present DEF StorageOK, ERC20TypeOK, ERC721TypeOK, GovTypeOK, erc20Vars,
     erc721Vars, govVars
<1>5. Sound(Storage', frames', Len(frames) + 1)
  <2>1. AgreeIn(Storage')
    BY <1>1, Present, StorageFields, StorageFieldsNext DEF AgreeIn, erc721Vars
  <2>2. \A k \in 1 .. Len(frames) : frames[k].op \notin GuardedOps
    BY <1>1, Present, StorageFields DEF Sound, ExclusiveIn, NotEntered, Entered
  <2>3. ExclusiveIn(Storage', frames', Len(frames) + 1)
    BY <1>1, <1>2, <1>3, <2>2, StorageFieldsNext DEF ExclusiveIn
  <2>4. CurrentIn(Storage', f)
    BY <1>1, StorageFields, StorageFieldsNext DEF CurrentIn, erc721Vars
  <2>5. \A k \in 1 .. Len(frames) : Shape(frames[k]) /\ CurrentIn(Storage', frames[k])
    BY <2>2, Present DEF Sound, CurrentIn, GuardedOps
  <2> QED BY <1>2, <1>3, <1>4, <2>1, <2>3, <2>4, <2>5, StorageTypedNext DEF Sound
<1>6. Levels(Storage', frames')
  BY <1>1, <1>2, <1>5, EnterLevels DEF StructureInv
<1> QED BY <1>1, <1>2, <1>3, <1>4, <1>6, EVMAssumption, StorageTypedNext DEF StructureInv, TypeOK

\* Functions that wait keep their copies when a step changes neither notas nor owners.
LEMMA OthersCurrent ==
    ASSUME NEW f, CurrentIn(Storage, f), UNCHANGED <<owners, notas, nextId>>
    PROVE  CurrentIn(Storage', f)
BY StorageFields, StorageFieldsNext DEF CurrentIn

\* A withdrawal starts.
LEMMA EnterPlainSound ==
    ASSUME StructureInv, NEW f \in FrameType, f.op \notin GuardedOps, f.saved = Storage,
           Shape(f), Enter(f), StorageOK', UNCHANGED <<owners, notas, nextId, status>>
    PROVE  StructureInv'
<1>1. frames' = Append(frames, f) /\ Len(frames) < MaxDepth /\ gas' \in 0 .. MaxGas
  BY GasBound DEF Enter, StructureInv, TypeOK
<1>2. frames \in Seq(FrameType) /\ Len(frames) \in Nat
  BY Present
<1>3. /\ frames' \in Seq(FrameType) /\ Len(frames') = Len(frames) + 1
      /\ frames'[Len(frames) + 1] = f
      /\ \A k \in 1 .. Len(frames) : frames'[k] = frames[k]
  BY <1>1, <1>2
<1>4. Sound(Storage', frames', Len(frames) + 1)
  <2>1. AgreeIn(Storage')
    BY Present, StorageFields, StorageFieldsNext DEF AgreeIn
  <2>2. ExclusiveIn(Storage', frames', Len(frames) + 1)
    <3>1. ExclusiveIn(Storage, frames, Len(frames)) /\ Storage'.status = Storage.status
      BY Present, StorageFields, StorageFieldsNext DEF Sound
    <3>2. \A k \in 1 .. Len(frames) + 1 : frames'[k].op \in GuardedOps <=>
            k \in 1 .. Len(frames) /\ frames[k].op \in GuardedOps
      BY <1>2, <1>3
    <3>3. 1 .. Len(frames) \subseteq 1 .. Len(frames) + 1
      BY <1>2
    <3> QED BY <3>1, <3>2, <3>3 DEF ExclusiveIn
  <2>3. CurrentIn(Storage', f)
    BY DEF CurrentIn, GuardedOps
  <2>4. \A k \in 1 .. Len(frames) : Shape(frames[k]) /\ CurrentIn(Storage', frames[k])
    BY Present, OthersCurrent DEF Sound
  <2> QED BY <1>2, <1>3, <2>1, <2>2, <2>3, <2>4, StorageTypedNext DEF Sound
<1>5. Levels(Storage', frames')
  BY <1>1, <1>2, <1>4, EnterLevels DEF StructureInv
<1> QED BY <1>1, <1>2, <1>3, <1>5, EVMAssumption, StorageTypedNext DEF StructureInv, TypeOK

\* The stack stays as it is.
LEMMA RunSound ==
    ASSUME StructureInv, Run \/ UNCHANGED evmVars, StorageOK',
           UNCHANGED <<owners, notas, nextId, status>>
    PROVE  StructureInv'
<1>1. frames' = frames /\ gas' \in 0 .. MaxGas
  BY GasBound DEF Run, evmVars, StructureInv, TypeOK
<1>2. Sound(Storage', frames, Len(frames))
  <2>1. AgreeIn(Storage')
    BY Present, StorageFields, StorageFieldsNext DEF AgreeIn
  <2>2. ExclusiveIn(Storage', frames, Len(frames))
    BY Present, StorageFields, StorageFieldsNext DEF Sound, ExclusiveIn
  <2>3. \A k \in 1 .. Len(frames) : Shape(frames[k]) /\ CurrentIn(Storage', frames[k])
    BY Present, OthersCurrent DEF Sound
  <2> QED BY <2>1, <2>2, <2>3, StorageTypedNext DEF Sound
<1>3. Levels(Storage', frames)
  <2>1. ASSUME NEW k \in 0 .. Len(frames) PROVE Sound(Level(Storage', frames, k), frames, k)
    <3>1. CASE k = Len(frames)
      BY <1>2, <3>1 DEF Level
    <3>2. CASE k # Len(frames)
      <4>1. Level(Storage', frames, k) = Level(Storage, frames, k)
        BY <3>2 DEF Level
      <4> QED BY <4>1 DEF StructureInv, Levels
    <3> QED BY <3>1, <3>2
  <2> QED BY <2>1 DEF Levels
<1>4. frames' \in Seq(FrameType) /\ Len(frames') <= MaxDepth /\ Levels(Storage', frames')
  BY <1>1, <1>3 DEF StructureInv, TypeOK
<1> QED BY <1>1, <1>4, StorageTypedNext DEF StructureInv, TypeOK

\* A guarded function goes on to its next step.
LEMMA ContinueSound ==
    ASSUME StructureInv, frames # <<>>, NEW f \in FrameType, f.op = Top.op,
           f.op \in GuardedOps, f.saved = Top.saved, Continue(f), status' = status,
           StorageOK', AgreeIn(Storage'), Shape(f), CurrentIn(Storage', f)
    PROVE  StructureInv'
<1>1. frames' = [frames EXCEPT ![Len(frames)] = f] /\ gas' \in 0 .. MaxGas
  BY GasBound DEF Continue, StructureInv, TypeOK
<1>2. frames \in Seq(FrameType) /\ Len(frames) \in Nat \ {0}
  BY Present, Innermost
<1>3. /\ frames' \in Seq(FrameType) /\ Len(frames') = Len(frames)
      /\ frames'[Len(frames)] = f
      /\ \A k \in 1 .. Len(frames) - 1 : frames'[k] = frames[k]
  BY <1>1, <1>2
<1>4. Sound(Storage', frames', Len(frames))
  <2>1. \A k \in 1 .. Len(frames) - 1 : frames'[k].op \notin GuardedOps
    BY <1>3, Innermost
  <2>2. ExclusiveIn(Storage', frames', Len(frames))
    BY <1>2, <1>3, <2>1, Innermost, StorageFieldsNext DEF ExclusiveIn
  <2>3. ASSUME NEW k \in 1 .. Len(frames) - 1
        PROVE  Shape(frames'[k]) /\ CurrentIn(Storage', frames'[k])
    <3>1. Shape(frames'[k])
      BY <1>2, <1>3, Present DEF Sound
    <3> QED BY <2>1, <3>1 DEF CurrentIn, GuardedOps
  <2>4. \A k \in 1 .. Len(frames) : Shape(frames'[k]) /\ CurrentIn(Storage', frames'[k])
    BY <1>2, <1>3, <2>3
  <2> QED BY <2>2, <2>4, StorageTypedNext DEF Sound
<1>5. Levels(Storage', frames')
  BY <1>1, <1>2, <1>4, ContinueLevels, Innermost DEF StructureInv
<1> QED BY <1>1, <1>3, <1>5, StorageTypedNext DEF StructureInv, TypeOK

\* A function ends, over a storage that is sound without it.
LEMMA LeaveSound ==
    ASSUME StructureInv, frames # <<>>, Leave, Sound(Storage', frames, Len(frames) - 1)
    PROVE  StructureInv'
<1>1. frames' = SubSeq(frames, 1, Len(frames) - 1) /\ gas' \in 0 .. MaxGas
  BY GasBound DEF Leave, StructureInv, TypeOK
<1>2. frames \in Seq(FrameType) /\ Len(frames) \in Nat \ {0} /\ Len(frames) <= MaxDepth
  BY Present, Innermost DEF StructureInv, TypeOK
<1>3. /\ Levels(Storage', frames') /\ frames' \in Seq(FrameType)
      /\ Len(frames') = Len(frames) - 1
  BY <1>1, <1>2, LeaveLevels DEF StructureInv
<1>4. Storage' \in StorageType
  BY DEF Sound
<1> QED BY <1>1, <1>2, <1>3, <1>4, EVMAssumption DEF StructureInv, TypeOK

\* A guarded function ends.
LEMMA LeaveGuardedSound ==
    ASSUME StructureInv, frames # <<>>, Top.op \in GuardedOps, LeaveGuarded,
           StorageOK', AgreeIn(Storage')
    PROVE  StructureInv'
<1>1. Leave /\ status' = NotEntered
  BY DEF LeaveGuarded
<1>2. Len(frames) \in Nat \ {0} /\ \A k \in 1 .. Len(frames) - 1 : frames[k].op \notin GuardedOps
  BY Innermost
<1>3. ExclusiveIn(Storage', frames, Len(frames) - 1)
  BY <1>1, <1>2, StorageFieldsNext DEF ExclusiveIn, NotEntered, Entered
<1>4. \A k \in 1 .. Len(frames) - 1 : Shape(frames[k])
  BY <1>2, Present DEF Sound
<1>5. \A k \in 1 .. Len(frames) - 1 : CurrentIn(Storage', frames[k])
  BY <1>2 DEF CurrentIn, GuardedOps
<1>6. Sound(Storage', frames, Len(frames) - 1)
  BY <1>3, <1>4, <1>5, StorageTypedNext DEF Sound
<1> QED BY <1>1, <1>6, LeaveSound

\* A withdrawal ends.
LEMMA LeavePlainSound ==
    ASSUME StructureInv, frames # <<>>, Top.op \notin GuardedOps, Leave, StorageOK',
           UNCHANGED <<owners, notas, nextId, status>>
    PROVE  StructureInv'
<1>1. Len(frames) \in Nat \ {0} /\ frames[Len(frames)].op \notin GuardedOps
  BY Innermost
<1>2. AgreeIn(Storage')
  BY Present, StorageFields, StorageFieldsNext DEF AgreeIn
<1>3. ExclusiveIn(Storage', frames, Len(frames) - 1)
  <2>1. ExclusiveIn(Storage, frames, Len(frames))
    BY Present DEF Sound
  <2> QED BY <1>1, <2>1, StorageFields, StorageFieldsNext DEF ExclusiveIn
<1>4. \A k \in 1 .. Len(frames) - 1 : Shape(frames[k]) /\ CurrentIn(Storage', frames[k])
  <2>1. \A k \in 1 .. Len(frames) : Shape(frames[k]) /\ CurrentIn(Storage, frames[k])
    BY Present DEF Sound
  <2> QED BY <1>1, <2>1, OthersCurrent
<1>5. Sound(Storage', frames, Len(frames) - 1)
  BY <1>2, <1>3, <1>4, StorageTypedNext DEF Sound
<1> QED BY <1>5, LeaveSound

\* The innermost function reverts.
LEMMA RevertSound ==
    ASSUME StructureInv, Revert
    PROVE  StructureInv'
<1>1. frames # <<>> /\ Leave
  BY DEF Revert
<1>2. Top.saved \in StorageType /\ Sound(Top.saved, frames, Len(frames) - 1)
  BY <1>1, Innermost DEF FrameType
<1>3. Storage' = Top.saved
  BY <1>2 DEF Storage, StorageType, Revert, RestoreBut
<1> QED BY <1>1, <1>2, <1>3, LeaveSound

-----------------------------------------------------------------------------
(* What the operations on the storage keep.                                 *)

\* A sum of two words taken modulo the word size is a word.
LEMMA Wraps ==
    ASSUME NEW n \in Nat
    PROVE  n % (MaxUint + 1) \in Uint
BY EVMAssumption DEF Uint

\* A payment keeps the balances of a token words.
LEMMA MovedType ==
    ASSUME NEW b \in [Accounts -> Uint], NEW from \in Accounts, NEW to \in Accounts,
           NEW amount \in Uint, b[from] >= amount
    PROVE  Moved(b, from, to, amount) \in [Accounts -> Uint]
<1> DEFINE debited == [b EXCEPT ![from] = b[from] - amount]
<1>1. b[from] - amount \in Uint
  BY EVMAssumption DEF Uint
<1>2. debited \in [Accounts -> Uint]
  BY <1>1
<1>3. debited[to] + amount \in Nat
  BY <1>2, EVMAssumption DEF Uint
<1>4. (debited[to] + amount) % (MaxUint + 1) \in Uint
  BY <1>3, Wraps
<1>5. Moved(b, from, to, amount)
        = [debited EXCEPT ![to] = (debited[to] + amount) % (MaxUint + 1)]
  BY DEF Moved
<1> HIDE DEF debited
<1> QED BY <1>2, <1>4, <1>5

\* A payment keeps the tokens typed.
LEMMA MoveTokensType ==
    ASSUME ERC20TypeOK, NEW t \in Tokens, NEW from \in Accounts, NEW to \in MaybeAccount,
           NEW amount \in Uint, MoveTokens(t, from, to, amount)
    PROVE  balanceOf' \in Ledger
<1>1. balanceOf[t] \in [Accounts -> Uint] /\ to \in Accounts /\ balanceOf[t][from] >= amount
  BY DEF ERC20TypeOK, Ledger, MoveTokens, MaybeAccount
<1>2. Moved(balanceOf[t], from, to, amount) \in [Accounts -> Uint]
  BY <1>1, MovedType
<1>3. balanceOf' = [balanceOf EXCEPT ![t] = Moved(balanceOf[t], from, to, amount)]
  BY DEF MoveTokens
<1> QED BY <1>2, <1>3 DEF ERC20TypeOK, Ledger

\* So does safeTransfer.
LEMMA TransferType ==
    ASSUME ERC20TypeOK, NEW t \in Tokens, NEW from \in Accounts, NEW to \in MaybeAccount,
           NEW amount \in Uint, TokenTransfer(t, from, to, amount)
    PROVE  ERC20TypeOK'
BY MoveTokensType DEF TokenTransfer, ERC20TypeOK

\* So does safeTransferFrom.
LEMMA TransferFromType ==
    ASSUME ERC20TypeOK, NEW t \in Tokens, NEW owner \in Accounts, NEW to \in MaybeAccount,
           NEW amount \in Uint, TokenTransferFrom(t, owner, to, amount)
    PROVE  ERC20TypeOK'
<1>1. balanceOf' \in Ledger
  BY MoveTokensType DEF TokenTransferFrom
<1>2. allowance[t][owner] - amount \in Uint
  BY EVMAssumption DEF TokenTransferFrom, SpendAllowance, ERC20TypeOK, Ledger, Uint
<1>3. allowance' \in Ledger
  BY <1>2 DEF TokenTransferFrom, SpendAllowance, ERC20TypeOK, Ledger
<1> QED BY <1>1, <1>3 DEF ERC20TypeOK

\* The fees the hooks ask for are words.
LEMMA FeesAreWords ==
    ASSUME NEW op, NEW fee, HookAnswers(op, fee)
    PROVE  fee \in HookFees /\ fee \in Uint /\ frames # <<>> /\ Top.op = op /\ Top.pc = "hook"
<1>1. fee \in HookFees
  BY DEF HookAnswers, AcceptedFees, CallHookFees, Responses
<1> QED BY <1>1, NotaRegistrarAssumption DEF HookAnswers, At

\* A credited fee keeps the revenue books typed.
LEMMA CreditHookType ==
    ASSUME GovTypeOK, NEW f, f.hooks \in HookContracts, f.currency \in Tokens,
           NEW fee \in Uint, CreditHook(f, fee)
    PROVE  GovTypeOK'
<1>1. hookRevenue[f.hooks][f.currency] + fee \in Uint
  BY EVMAssumption DEF CreditHook, CreditFits, GovTypeOK, Books, Uint
<1>2. hookRevenue' \in Books
  BY <1>1 DEF CreditHook, Credit, GovTypeOK, Books
<1> QED BY <1>2 DEF CreditHook, GovTypeOK

\* A nota that exists has its terms; one that does not has none.
LEMMA NotaExists ==
    ASSUME StorageOK, AgreeIn(Storage), NEW id \in NotaIds
    PROVE  /\ Exists(id) <=> notas[id] \in Nota
           /\ EmptyNota \notin Nota
           /\ owners[id] \in MaybeAccount
<1>1. EmptyNota \notin Nota
  BY ERC20Assumption DEF EmptyNota, Nota
<1>2. (owners[id] # Null) <=> (notas[id] # EmptyNota)
  BY StorageFields DEF AgreeIn
<1> QED BY <1>1, <1>2 DEF StorageOK, ERC721TypeOK, Exists

\* A changed escrow leaves an existing nota with the rest of its terms.
LEMMA EscrowChange ==
    ASSUME StorageOK, AgreeIn(Storage), NEW id \in NotaIds, Exists(id), NEW e \in Uint,
           notas' = [notas EXCEPT ![id].escrowed = e], UNCHANGED nextId,
           \A i \in NotaIds : owners'[i] # Null <=> owners[i] # Null
    PROVE  /\ notas' \in [NotaIds -> Nota \cup {EmptyNota}]
           /\ notas'[id].escrowed = e
           /\ notas'[id].currency = notas[id].currency
           /\ notas'[id].hooks = notas[id].hooks
           /\ AgreeIn(Storage')
<1>1. notas[id] \in Nota /\ notas \in [NotaIds -> Nota \cup {EmptyNota}]
  BY NotaExists DEF StorageOK
<1>2. [notas[id] EXCEPT !.escrowed = e] \in Nota
  BY <1>1 DEF Nota
<1>3. notas' = [notas EXCEPT ![id] = [notas[id] EXCEPT !.escrowed = e]]
  OBVIOUS
<1>4. notas' \in [NotaIds -> Nota \cup {EmptyNota}]
  BY <1>1, <1>2, <1>3
<1>5. notas'[id] = [notas[id] EXCEPT !.escrowed = e]
  BY <1>1, <1>3
<1>6. ASSUME NEW i \in NotaIds
      PROVE  owners'[i] # Null <=> notas'[i] # EmptyNota
  <2>1. CASE i = id
    BY <1>2, <1>5, <2>1, NotaExists DEF Exists
  <2>2. CASE i # id
    BY <1>1, <1>3, <2>2, StorageFields DEF AgreeIn
  <2> QED BY <2>1, <2>2
<1>7. AgreeIn(Storage')
  BY <1>6, StorageFields, StorageFieldsNext DEF AgreeIn
<1>8. /\ notas'[id].escrowed = e
      /\ notas'[id].currency = notas[id].currency
      /\ notas'[id].hooks = notas[id].hooks
  BY <1>1, <1>5 DEF Nota
<1> QED BY <1>4, <1>7, <1>8

\* The nota of a guarded function in progress, other than write, exists.
LEMMA NotaInProgress ==
    ASSUME StructureInv, frames # <<>>, Top.op \in GuardedOps \ {"write"},
           Top.pc # "receiver"
    PROVE  /\ Top.id \in NotaIds /\ Exists(Top.id) /\ notas[Top.id] \in Nota
           /\ notas[Top.id].currency = Top.currency /\ notas[Top.id].hooks = Top.hooks
           /\ Top.currency \in Tokens /\ Top.hooks \in HookContracts
<1>1. Top.id \in NotaIds /\ Top.hooks \in HookContracts /\ Top.owner # Null
      /\ Top.currency \in Tokens
  BY Innermost DEF Shape, FrameType
<1>2. /\ owners[Top.id] = Top.owner
      /\ notas[Top.id].currency = Top.currency /\ notas[Top.id].hooks = Top.hooks
  BY Innermost, StorageFields DEF CurrentIn
<1>3. Exists(Top.id)
  BY <1>1, <1>2 DEF Exists
<1> QED BY <1>1, <1>2, <1>3, Present, NotaExists

\* The fee that approve, update and the transfers take.
LEMMA TakeFeeType ==
    ASSUME StructureInv, frames # <<>>, Top.op \in GuardedOps \ {"write"},
           Top.pc # "receiver", NEW fee \in Uint, TakeFee(Top, fee), UNCHANGED nextId,
           \A i \in NotaIds : owners'[i] # Null <=> owners[i] # Null
    PROVE  /\ notas' \in [NotaIds -> Nota \cup {EmptyNota}]
           /\ GovTypeOK'
           /\ AgreeIn(Storage')
           /\ notas'[Top.id].currency = notas[Top.id].currency
           /\ notas'[Top.id].hooks = notas[Top.id].hooks
<1>1. notas[Top.id].escrowed - fee \in Uint
  BY NotaInProgress, EVMAssumption DEF TakeFee, DebitNota, Nota, Uint
<1>2. notas' = [notas EXCEPT ![Top.id].escrowed = notas[Top.id].escrowed - fee]
  BY NotaInProgress DEF TakeFee, DebitNota
<1>3. GovTypeOK'
  BY NotaInProgress, Present, CreditHookType DEF TakeFee, StorageOK
<1> QED BY <1>1, <1>2, <1>3, EscrowChange, NotaInProgress, Present

-----------------------------------------------------------------------------
(* The initial state, and the steps that start a function.                  *)

\* The registrar is deployed in a sound state.
LEMMA InitSound ==
    ASSUME Init
    PROVE  StructureInv
<1>1. 0 \in Uint /\ GovOwners \subseteq MaybeAccount
  BY EVMAssumption, GovAssumption DEF Uint, MaybeAccount
<1>2. ERC20TypeOK /\ ERC721TypeOK /\ GovTypeOK
  BY <1>1, NotaRegistrarAssumption DEF Init, ERC20TypeOK, ERC721TypeOK, ERC721Init,
     GovTypeOK, GovStart, MaybeAccount, Books
<1>3. StorageOK
  BY <1>2, NotaRegistrarAssumption DEF Init, StorageOK
<1>4. AgreeIn(Storage)
  BY StorageFields DEF Init, ERC721Init, AgreeIn, EmptyNota
<1>5. frames = <<>> /\ gas \in 0 .. MaxGas
  BY EVMAssumption DEF Init, EVMInit
<1>6. Sound(Storage, frames, 0)
  BY <1>3, <1>4, <1>5, StorageFields, StorageTyped
  DEF Sound, ExclusiveIn, Init, NotEntered, Entered
<1>7. Levels(Storage, frames)
  BY <1>5, <1>6 DEF Levels, Level
<1> QED BY <1>3, <1>5, <1>7, EVMAssumption, StorageTyped DEF StructureInv, TypeOK

\* f is a frame of a function on the nota id, about to call its hook.
OfNota(f, id) ==
    /\ f \in FrameType
    /\ f.op \in GuardedOps \ {"write"} /\ f.pc = "hook" /\ f.id = id /\ f.saved = Storage
    /\ f.currency = notas[id].currency /\ f.hooks = notas[id].hooks
    /\ f.escrowed = notas[id].escrowed /\ f.owner = owners[id] /\ f.caller # Registrar

\* Frame builds one.
LEMMA FrameOfNota ==
    ASSUME StructureInv, NEW op \in GuardedOps \ {"write"}, NEW caller \in Callers,
           NEW id \in NotaIds, Exists(id)
    PROVE  OfNota(Frame(op, caller, id), id)
<1> DEFINE f == Frame(op, caller, id)
<1>1. notas[id] \in Nota /\ owners[id] \in MaybeAccount
  BY Present, NotaExists
<1>2. caller \in Accounts /\ caller # Registrar /\ 0 \in Uint
  BY NotaRegistrarAssumption, EVMAssumption DEF Uint
<1>3. /\ notas[id].escrowed \in Uint /\ notas[id].currency \in Tokens
      /\ notas[id].hooks \in HookContracts
  BY <1>1 DEF Nota
<1>4. Storage \in StorageType
  BY Present, StorageTyped
<1>5. f \in FrameType
  BY <1>1, <1>2, <1>3, <1>4 DEF Frame, FrameType, Ops, Pcs, MaybeAccount
<1> QED BY <1>2, <1>5 DEF Frame, OfNota

\* Arguments of the right type leave it one.
LEMMA WithArguments ==
    ASSUME NEW f, NEW id, OfNota(f, id), NEW from \in MaybeAccount, NEW to \in MaybeAccount,
           NEW amount \in Uint, NEW instant \in Uint
    PROVE  /\ OfNota([f EXCEPT !.amount = amount, !.instant = instant], id)
           /\ OfNota([f EXCEPT !.amount = amount, !.to = to], id)
           /\ OfNota([f EXCEPT !.to = to], id)
           /\ OfNota([f EXCEPT !.from = from, !.to = to], id)
BY DEF OfNota, FrameType

\* A function of an existing nota starts with what the nota holds.
LEMMA EnterNota ==
    ASSUME StructureInv, NEW id \in NotaIds, Exists(id), NEW f, OfNota(f, id), EnterGuarded(f)
    PROVE  StructureInv'
<1>1. notas[id] \in Nota /\ notas[id].hooks \in HookContracts
  BY Present, NotaExists DEF Nota
<1>2. CurrentIn(Storage, f)
  BY StorageFields DEF CurrentIn, OfNota
<1>3. Shape(f)
  BY <1>1, <1>2 DEF Shape, OfNota, Exists
<1> QED BY <1>2, <1>3, EnterGuardedSound DEF OfNota

\* What Frame builds of an id that is not written yet: its currency may be Null.
BlankFrame ==
    [op : Ops, pc : Pcs, caller : Accounts, id : NotaIds \cup {0},
     from : MaybeAccount, to : MaybeAccount,
     amount : Uint, instant : Uint, fee : Uint,
     currency : Tokens \cup {Null}, hooks : HookContracts \cup {Null},
     escrowed : Uint, owner : MaybeAccount, saved : StorageType]

\* Filled with the arguments of write, it is a frame.
LEMMA Filled ==
    ASSUME NEW f \in BlankFrame, NEW currency \in Tokens, NEW hooks \in HookContracts,
           NEW amount \in Uint, NEW instant \in Uint, NEW owner \in MaybeAccount
    PROVE  [f EXCEPT !.currency = currency, !.hooks = hooks, !.amount = amount,
                     !.instant = instant, !.owner = owner] \in FrameType
BY DEF BlankFrame, FrameType

\* write starts with the next id.
LEMMA WriteSound ==
    ASSUME StructureInv, NEW caller \in Callers, NEW currency \in Tokens,
           NEW escrowed \in Amounts, NEW instant \in Instants, NEW owner \in Recipients,
           NEW hooks \in NotaHooks, Write(caller, currency, escrowed, instant, owner, hooks)
    PROVE  StructureInv'
<1> DEFINE f == [Frame("write", caller, nextId) EXCEPT
                   !.currency = currency, !.hooks = hooks, !.amount = escrowed,
                   !.instant = instant, !.owner = owner]
<1>1. nextId \in NotaIds /\ owners[nextId] = Null /\ notas[nextId] = EmptyNota
  <2>1. nextId \in NotaIds /\ nextId \in Nat
    BY NotaRegistrarAssumption DEF Write
  <2>2. owners[nextId] = Null /\ notas[nextId] = EmptyNota
    BY <2>1, Present, StorageFields DEF AgreeIn
  <2> QED BY <2>1, <2>2 DEF EmptyNota
<1>2. /\ caller \in Accounts /\ caller # Registrar /\ 0 \in Uint /\ escrowed \in Uint /\ instant \in Uint
      /\ owner \in MaybeAccount /\ hooks \in HookContracts
  BY NotaRegistrarAssumption, EVMAssumption DEF Uint
<1>3. Storage \in StorageType
  BY Present, StorageTyped
<1>4. /\ f.op = "write" /\ f.pc = "hook" /\ f.id = nextId /\ f.saved = Storage
      /\ f.hooks = hooks /\ f.caller = caller
  BY DEF Frame
<1>5. f \in FrameType
  <2>1. /\ notas[nextId].escrowed \in Uint /\ notas[nextId].currency = Null
        /\ notas[nextId].hooks = Null
    BY <1>1, <1>2 DEF EmptyNota
  <2>2. Frame("write", caller, nextId) \in BlankFrame
    BY <1>1, <1>2, <1>3, <2>1 DEF Frame, BlankFrame, Ops, GuardedOps, Pcs, MaybeAccount
  <2> QED BY <1>2, <2>2, Filled
<1>6. EnterGuarded(f)
  BY DEF Write
<1> HIDE DEF f
<1>7. CurrentIn(Storage, f)
  BY <1>1, <1>4, StorageFields DEF CurrentIn
<1>8. Shape(f) /\ f.op \in GuardedOps
  BY <1>1, <1>2, <1>4 DEF Shape, GuardedOps
<1> QED BY <1>4, <1>5, <1>6, <1>7, <1>8, EnterGuardedSound

\* Every call of a guarded function.
LEMMA CallSound ==
    ASSUME StructureInv, NEW caller \in Callers, Call(caller)
    PROVE  StructureInv'
<1>1. /\ 0 \in Uint /\ Null \in MaybeAccount /\ Recipients \subseteq MaybeAccount
      /\ Amounts \subseteq Uint /\ Instants \subseteq Uint
  BY EVMAssumption, NotaRegistrarAssumption DEF Uint, MaybeAccount
<1>2. ASSUME NEW currency \in Tokens, NEW escrowed \in Amounts, NEW instant \in Instants,
             NEW owner \in Recipients, NEW hooks \in NotaHooks,
             Write(caller, currency, escrowed, instant, owner, hooks)
      PROVE  StructureInv'
  BY <1>2, WriteSound
<1>3. ASSUME NEW id \in NotaIds, NEW amount \in Amounts, NEW instant \in Instants,
             Fund(caller, id, amount, instant)
      PROVE  StructureInv'
  <2>1. OfNota(Frame("fund", caller, id), id)
    BY <1>3, FrameOfNota DEF Fund, GuardedOps
  <2> QED BY <1>1, <1>3, <2>1, WithArguments, EnterNota DEF Fund
<1>4. ASSUME NEW id \in NotaIds, NEW amount \in Amounts, NEW to \in Recipients,
             Cash(caller, id, amount, to)
      PROVE  StructureInv'
  <2>1. OfNota(Frame("cash", caller, id), id)
    BY <1>4, FrameOfNota DEF Cash, GuardedOps
  <2> QED BY <1>1, <1>4, <2>1, WithArguments, EnterNota DEF Cash
<1>5. ASSUME NEW id \in NotaIds, NEW to \in Recipients, ApproveNota(caller, to, id)
      PROVE  StructureInv'
  <2>1. OfNota(Frame("approve", caller, id), id)
    BY <1>5, FrameOfNota DEF ApproveNota, GuardedOps
  <2> QED BY <1>1, <1>5, <2>1, WithArguments, EnterNota DEF ApproveNota
<1>6. ASSUME NEW id \in NotaIds, BurnNota(caller, id) \/ Update(caller, id)
      PROVE  StructureInv'
  <2>1. Exists(id)
    BY <1>6 DEF BurnNota, Update, IsApprovedOrOwner
  <2>2. OfNota(Frame("burn", caller, id), id) /\ OfNota(Frame("update", caller, id), id)
    BY <2>1, FrameOfNota DEF GuardedOps
  <2> QED BY <1>6, <2>1, <2>2, EnterNota DEF BurnNota, Update
<1>7. ASSUME NEW id \in NotaIds, NEW op \in {"transferFrom", "safeTransferFrom"},
             NEW from \in Recipients, NEW to \in Recipients,
             TransferFrom(op, caller, from, to, id)
      PROVE  StructureInv'
  <2>1. Exists(id)
    BY <1>7 DEF TransferFrom, IsApprovedOrOwner
  <2>2. OfNota(Frame(op, caller, id), id)
    BY <2>1, FrameOfNota DEF GuardedOps
  <2> QED BY <1>1, <1>7, <2>1, <2>2, WithArguments, EnterNota DEF TransferFrom
<1> QED BY <1>2, <1>3, <1>4, <1>5, <1>6, <1>7 DEF Call

-----------------------------------------------------------------------------
(* The steps that run while others wait.                                    *)

\* The protocol's share of a withdrawal is a number.
LEMMA FeeIsNat ==
    ASSUME NEW amount \in Uint, protocolFee \in Uint
    PROVE  FeeOn(amount) \in Nat
<1>1. amount \in Nat /\ protocolFee \in Nat
  BY EVMAssumption DEF Uint
<1>2. amount * protocolFee \in Nat
  BY <1>1
<1>3. \A n \in Nat : n \div 10000 \in Nat
  OBVIOUS
<1> QED BY <1>2, <1>3 DEF FeeOn, BasisPoints

\* A withdrawal that has written its books goes on to ask for its payment.
LEMMA AwaitPaymentSound ==
    ASSUME StructureInv, NEW op \in {"hookWithdraw", "protocolWithdraw"},
           NEW caller \in Accounts, NEW t \in Tokens, NEW amount \in Uint,
           NEW to \in Accounts, GovTypeOK', AwaitPayment(op, caller, t, amount, to)
    PROVE  StructureInv'
<1> DEFINE f == [op |-> op, pc |-> "withdraw", caller |-> caller, id |-> 0,
                 from |-> Null, to |-> to, amount |-> amount, instant |-> 0, fee |-> 0,
                 currency |-> t, hooks |-> Null, escrowed |-> 0, owner |-> Null,
                 saved |-> Storage]
<1>1. Storage \in StorageType /\ 0 \in Uint
  BY Present, StorageTyped, EVMAssumption DEF Uint
<1>2. f \in FrameType
  BY <1>1 DEF FrameType, Ops, Pcs, MaybeAccount
<1>3. f.op \notin GuardedOps /\ f.saved = Storage /\ Shape(f)
  BY DEF GuardedOps, Shape
<1>4. Enter(f) /\ UNCHANGED <<erc20Vars, erc721Vars, notas, nextId, status>>
  BY DEF AwaitPayment
<1> HIDE DEF f
<1>5. StorageOK' /\ UNCHANGED <<owners, notas, nextId, status>>
  BY <1>4, Present DEF StorageOK, ERC20TypeOK, ERC721TypeOK, erc20Vars, erc721Vars
<1> QED BY <1>2, <1>3, <1>4, <1>5, EnterPlainSound

\* Both withdrawals.
LEMMA WithdrawSound ==
    ASSUME StructureInv, NEW t \in Tokens, NEW amount \in GovAmounts \cup ProtocolAmounts,
           NEW to \in GovRecipients
    PROVE  /\ \A h \in HookContracts : HookWithdrawCall(h, t, amount, to) => StructureInv'
           /\ \A caller \in GovOwners :
                ProtocolWithdrawCall(caller, t, amount, to) => StructureInv'
<1>1. amount \in Uint /\ to \in Accounts /\ MaxTotal \in Uint /\ GovTypeOK
  BY Present, GovAssumption DEF StorageOK
<1>2. ASSUME NEW h \in HookContracts, HookWithdrawCall(h, t, amount, to)
      PROVE  StructureInv'
  <2>1. FeeOn(amount) \in Nat /\ FeeOn(amount) <= amount /\ h \in Accounts
    BY <1>1, <1>2, FeeIsNat, GovAssumption DEF GovTypeOK, HookWithdrawCall, HookWithdrawBooks
  <2>2. /\ hookRevenue[h][t] - amount \in Uint
        /\ hookTotalRevenue[h][t] + amount \in Uint
        /\ protocolRevenue[t] + FeeOn(amount) \in Uint
        /\ protocolTotalRevenue[t] + FeeOn(amount) \in Uint
        /\ amount - FeeOn(amount) \in Uint
    BY <1>1, <1>2, <2>1, EVMAssumption DEF HookWithdrawCall, HookWithdrawBooks, GovTypeOK,
       Books, Uint
  <2>3. GovTypeOK'
    BY <1>1, <1>2, <2>2 DEF HookWithdrawCall, HookWithdrawBooks, GovTypeOK, Books
  <2> QED BY <1>1, <1>2, <2>1, <2>2, <2>3, AwaitPaymentSound DEF HookWithdrawCall
<1>3. ASSUME NEW caller \in GovOwners, ProtocolWithdrawCall(caller, t, amount, to)
      PROVE  StructureInv'
  <2>1. protocolRevenue[t] - amount \in Uint /\ caller \in Accounts
    BY <1>1, <1>3, EVMAssumption, GovAssumption DEF ProtocolWithdrawCall,
       ProtocolWithdrawBooks, GovTypeOK, Uint
  <2>2. GovTypeOK'
    BY <1>1, <1>3, <2>1 DEF ProtocolWithdrawCall, ProtocolWithdrawBooks, GovTypeOK
  <2> QED BY <1>1, <1>3, <2>1, <2>2, AwaitPaymentSound DEF ProtocolWithdrawCall
<1> QED BY <1>2, <1>3

\* The owner's other functions, setApprovalForAll, and what happens in a currency.
LEMMA RunsSound ==
    ASSUME StructureInv
    PROVE  /\ \A caller \in GovOwners : AdministerCall(caller) => StructureInv'
           /\ \A caller \in Callers, operator \in Operators, approved \in BOOLEAN :
                SetApprovalForAllCall(caller, operator, approved) => StructureInv'
           /\ \A t \in Tokens, caller \in Callers : TokenCall(t, caller) => StructureInv'
<1>1. StorageOK
  BY Present
<1>2. ASSUME NEW caller \in GovOwners, AdministerCall(caller)
      PROVE  StructureInv'
  <2>1. GovTypeOK'
    BY <1>1, <1>2, GovAssumption DEF AdministerCall, Administer, SetProtocolFee,
       TransferOwnership, RenounceOwnership, StorageOK, GovTypeOK, MaybeAccount
  <2>2. StorageOK' /\ UNCHANGED <<owners, notas, nextId, status>> /\ Run
    BY <1>1, <1>2, <2>1 DEF AdministerCall, StorageOK, ERC20TypeOK, ERC721TypeOK,
       erc20Vars, erc721Vars
  <2> QED BY <2>2, RunSound
<1>3. ASSUME NEW caller \in Callers, NEW operator \in Operators, NEW approved \in BOOLEAN,
             SetApprovalForAllCall(caller, operator, approved)
      PROVE  StructureInv'
  <2>1. ERC721TypeOK'
    BY <1>1, <1>3, NotaRegistrarAssumption DEF SetApprovalForAllCall, SetApprovalForAll,
       StorageOK, ERC721TypeOK
  <2>2. StorageOK' /\ UNCHANGED <<owners, notas, nextId, status>> /\ Run
    BY <1>1, <1>3, <2>1 DEF SetApprovalForAllCall, SetApprovalForAll, StorageOK,
       ERC20TypeOK, GovTypeOK, erc20Vars, govVars
  <2> QED BY <2>2, RunSound
<1>4. ASSUME NEW t \in Tokens, NEW caller \in Callers, TokenCall(t, caller)
      PROVE  StructureInv'
  <2>1. /\ caller \in Accounts /\ Grants \subseteq Uint /\ Gifts \subseteq Uint
        /\ Recipients \subseteq MaybeAccount
    BY NotaRegistrarAssumption
  <2>2. ERC20TypeOK'
    <3>1. ASSUME NEW amount \in Grants, TokenApprove(t, caller, amount) PROVE ERC20TypeOK'
      BY <1>1, <2>1, <3>1 DEF TokenApprove, StorageOK, ERC20TypeOK, Ledger
    <3>2. ASSUME NEW amount \in Gifts, NEW to \in Recipients,
                 TokenTransfer(t, caller, to, amount)
          PROVE  ERC20TypeOK'
      BY <1>1, <2>1, <3>2, TransferType DEF StorageOK
    <3> QED BY <1>4, <3>1, <3>2 DEF TokenCall
  <2>3. StorageOK' /\ UNCHANGED <<owners, notas, nextId, status>> /\ Run
    BY <1>1, <1>4, <2>2 DEF TokenCall, StorageOK, ERC721TypeOK, GovTypeOK, erc721Vars, govVars
  <2> QED BY <2>3, RunSound
<1> QED BY <1>2, <1>3, <1>4

\* Every step without the guard.
LEMMA UnguardedSound ==
    ASSUME StructureInv, Unguarded
    PROVE  StructureInv'
BY WithdrawSound, RunsSound DEF Unguarded

-----------------------------------------------------------------------------
(* The steps of the innermost function.                                     *)

\* A frame at another place is a frame.
LEMMA FrameMoves ==
    ASSUME NEW f \in FrameType, NEW pc \in Pcs
    PROVE  [f EXCEPT !.pc = pc] \in FrameType
BY DEF FrameType

\* So is one at another place with a fee.
LEMMA FrameGoesOn ==
    ASSUME NEW f \in FrameType, NEW pc \in Pcs, NEW fee \in Uint
    PROVE  [f EXCEPT !.pc = pc, !.fee = fee] \in FrameType
BY DEF FrameType

\* write and fund wait for the currency.
LEMMA AskForEscrowSound ==
    ASSUME StructureInv, NEW op \in {"write", "fund"}, NEW fee, AskForEscrow(op, fee)
    PROVE  StructureInv'
<1> DEFINE f == [Top EXCEPT !.pc = "pull", !.fee = fee]
<1>1. fee \in Uint /\ frames # <<>> /\ Top.op = op /\ Top.pc = "hook"
  BY FeesAreWords DEF AskForEscrow
<1>2. Top \in FrameType /\ Shape(Top) /\ CurrentIn(Storage, Top) /\ Top.op \in GuardedOps
  BY <1>1, Innermost DEF GuardedOps
<1>3. f \in FrameType
  BY <1>1, <1>2, FrameGoesOn DEF Pcs
<1>4. /\ f.op = op /\ f.pc = "pull" /\ f.fee = fee /\ f.id = Top.id /\ f.saved = Top.saved
      /\ f.amount = Top.amount /\ f.hooks = Top.hooks /\ f.currency = Top.currency
      /\ f.escrowed = Top.escrowed /\ f.owner = Top.owner /\ f.caller = Top.caller
  BY <1>1, <1>2 DEF FrameType
<1>5. Continue(f) /\ f.amount + f.fee <= MaxUint
      /\ UNCHANGED <<erc20Vars, erc721Vars, govVars, notas, nextId, status>>
  BY <1>4 DEF AskForEscrow
<1> HIDE DEF f
<1>6. Shape(f)
  BY <1>1, <1>2, <1>4, <1>5 DEF Shape
<1>7. StorageOK' /\ AgreeIn(Storage')
  BY <1>5, Present, StorageFields, StorageFieldsNext DEF AgreeIn, StorageOK, ERC20TypeOK,
     ERC721TypeOK, GovTypeOK, erc20Vars, erc721Vars, govVars
<1>8. CurrentIn(Storage', f)
  BY <1>1, <1>2, <1>4, <1>5, StorageFields, StorageFieldsNext DEF CurrentIn, erc721Vars
<1> QED BY <1>1, <1>2, <1>3, <1>4, <1>5, <1>6, <1>7, <1>8, ContinueSound

\* The payments of write and fund.
LEMMA PaymentSound ==
    ASSUME StructureInv, NEW op \in {"write", "fund"}, PullEscrow(op) \/ PayInstant(op)
    PROVE  StructureInv'
<1> DEFINE pc == IF Top.pc = "pull" THEN "instant" ELSE "store"
           f == [Top EXCEPT !.pc = pc]
<1>1. frames # <<>> /\ Top.op = op /\ Top.pc \in {"pull", "instant"}
  BY DEF PullEscrow, PayInstant, At
<1>2. Top \in FrameType /\ Shape(Top) /\ CurrentIn(Storage, Top) /\ Top.op \in GuardedOps
  BY <1>1, Innermost DEF GuardedOps
<1>3. f \in FrameType /\ pc \in {"instant", "store"}
  <2>1. pc \in {"instant", "store"} /\ pc \in Pcs
    BY DEF Pcs
  <2> HIDE DEF pc
  <2> QED BY <1>2, <2>1, FrameMoves
<1>4. /\ f.op = op /\ f.pc = pc /\ f.fee = Top.fee /\ f.id = Top.id /\ f.saved = Top.saved
      /\ f.amount = Top.amount /\ f.hooks = Top.hooks /\ f.currency = Top.currency
      /\ f.escrowed = Top.escrowed /\ f.owner = Top.owner /\ f.caller = Top.caller
  BY <1>1, <1>2 DEF FrameType
<1>5. /\ Continue(f) /\ UNCHANGED <<erc721Vars, govVars, notas, nextId, status>>
      /\ \E to \in MaybeAccount, amount \in Uint : CallerPays(Top, to, amount)
  <2>1. Top.amount + Top.fee \in Uint /\ Top.instant \in Uint /\ Top.owner \in MaybeAccount
    BY <1>1, <1>2, EVMAssumption DEF Shape, FrameType, Uint
  <2>2. Registrar \in MaybeAccount
    BY EVMAssumption DEF MaybeAccount
  <2> QED BY <2>1, <2>2 DEF PullEscrow, PayInstant, At
<1> HIDE DEF f, pc
<1>6. ERC20TypeOK'
  <2>1. PICK to \in MaybeAccount, amount \in Uint : CallerPays(Top, to, amount)
    BY <1>5
  <2>2. ERC20TypeOK /\ Top.currency \in Tokens /\ Top.caller \in Accounts
    BY <1>2, Present DEF StorageOK, FrameType
  <2>3. CASE amount > 0
    BY <2>1, <2>2, <2>3, TransferFromType DEF CallerPays
  <2>4. CASE ~(amount > 0)
    BY <2>1, <2>2, <2>4 DEF CallerPays, ERC20TypeOK, erc20Vars
  <2> QED BY <2>3, <2>4
<1>7. StorageOK' /\ AgreeIn(Storage')
  BY <1>5, <1>6, Present, StorageFields, StorageFieldsNext DEF AgreeIn, StorageOK,
     ERC721TypeOK, GovTypeOK, erc721Vars, govVars
<1>8. Shape(f) /\ CurrentIn(Storage', f)
  BY <1>1, <1>2, <1>3, <1>4, <1>5, StorageFields, StorageFieldsNext DEF Shape, CurrentIn, erc721Vars
<1> QED BY <1>1, <1>2, <1>3, <1>4, <1>5, <1>7, <1>8, ContinueSound

\* write ends with a new nota.
LEMMA WriteStoreSound ==
    ASSUME StructureInv, WriteStore
    PROVE  StructureInv'
<1>1. frames # <<>> /\ Top.op = "write" /\ Top.pc = "store" /\ LeaveGuarded
  BY DEF WriteStore, At
<1>2. /\ Top \in FrameType /\ Top.id \in NotaIds /\ Top.hooks \in HookContracts
      /\ Top.id = nextId /\ Top.op \in GuardedOps
      /\ Top.currency \in Tokens /\ Top.amount \in Uint /\ Top.fee \in Uint
      /\ Top.owner \in Accounts
  BY <1>1, Innermost, StorageFields DEF Shape, CurrentIn, GuardedOps, FrameType, WriteStore,
     ERC721Mint, MaybeAccount
<1>3. StorageOK
  BY Present
<1>4. GovTypeOK'
  BY <1>2, <1>3, CreditHookType DEF WriteStore, StorageOK
<1>5. ERC721TypeOK'
  BY <1>2, <1>3 DEF WriteStore, ERC721Mint, StorageOK, ERC721TypeOK, MaybeAccount
<1>6. /\ notas' = [notas EXCEPT ![nextId] = [escrowed |-> Top.amount,
                       currency |-> Top.currency, hooks |-> Top.hooks]]
      /\ [escrowed |-> Top.amount, currency |-> Top.currency, hooks |-> Top.hooks] \in Nota
      /\ owners' = [owners EXCEPT ![nextId] = Top.owner]
      /\ nextId' = nextId + 1
  BY <1>2 DEF WriteStore, ERC721Mint, Nota
<1>7. notas' \in [NotaIds -> Nota \cup {EmptyNota}]
  BY <1>3, <1>6 DEF StorageOK
<1>8. nextId' \in 1 .. MaxNotas + 1
  BY <1>2, <1>6, NotaRegistrarAssumption
<1>9. StorageOK'
  BY <1>1, <1>3, <1>4, <1>5, <1>7, <1>8 DEF StorageOK, ERC20TypeOK, erc20Vars, WriteStore,
     LeaveGuarded
<1>10. ASSUME NEW id \in NotaIds
       PROVE  /\ owners'[id] # Null <=> notas'[id] # EmptyNota
              /\ id >= nextId' => owners'[id] = Null
  <2>1. /\ owners[id] # Null <=> notas[id] # EmptyNota
        /\ id >= nextId => owners[id] = Null
        /\ id \in Nat /\ nextId \in Nat
    BY <1>2, Present, StorageFields, NotaRegistrarAssumption DEF AgreeIn
  <2>2. owners \in [NotaIds -> MaybeAccount] /\ notas \in [NotaIds -> Nota \cup {EmptyNota}]
    BY <1>3 DEF StorageOK, ERC721TypeOK
  <2>3. CASE id = nextId
    <3>1. owners'[id] # Null /\ notas'[id] \in Nota
      BY <1>2, <1>6, <2>2, <2>3, EVMAssumption
    <3> QED BY <1>6, <2>1, <2>3, <3>1, NotaExists, Present
  <2>4. CASE id # nextId
    BY <1>6, <2>1, <2>2, <2>4
  <2> QED BY <2>3, <2>4
<1>11. AgreeIn(Storage')
  BY <1>10, StorageFieldsNext DEF AgreeIn
<1> QED BY <1>1, <1>2, <1>9, <1>11, LeaveGuardedSound

\* fund ends with a larger escrow.
LEMMA FundStoreSound ==
    ASSUME StructureInv, FundStore
    PROVE  StructureInv'
<1>1. frames # <<>> /\ Top.op = "fund" /\ Top.pc = "store" /\ LeaveGuarded
      /\ Top.op \in GuardedOps /\ Top.op \in GuardedOps \ {"write"}
  BY DEF FundStore, At, GuardedOps
<1>2. Top \in FrameType /\ Top.amount \in Uint /\ Top.fee \in Uint
  BY <1>1, Innermost DEF FrameType
<1>3. notas[Top.id].escrowed + Top.amount \in Uint
  BY <1>1, <1>2, NotaInProgress, EVMAssumption DEF FundStore, Nota, Uint
<1>4. notas' = [notas EXCEPT ![Top.id].escrowed = notas[Top.id].escrowed + Top.amount]
  BY <1>1, NotaInProgress DEF FundStore
<1>5. UNCHANGED <<owners, nextId>>
  BY DEF FundStore, erc721Vars
<1>6. notas' \in [NotaIds -> Nota \cup {EmptyNota}] /\ AgreeIn(Storage')
  BY <1>1, <1>3, <1>4, <1>5, Present, NotaInProgress, EscrowChange
<1>7. GovTypeOK'
  BY <1>1, <1>2, NotaInProgress, Present, CreditHookType DEF FundStore, StorageOK
<1>8. StorageOK'
  BY <1>1, <1>6, <1>7, Present DEF StorageOK, ERC20TypeOK, ERC721TypeOK, erc20Vars,
     erc721Vars, FundStore, LeaveGuarded
<1> QED BY <1>1, <1>6, <1>8, LeaveGuardedSound

\* cash has taken the amount out of the escrow and asks for its payment.
LEMMA CashDebitSound ==
    ASSUME StructureInv, NEW fee, CashDebit(fee)
    PROVE  StructureInv'
<1> DEFINE f == [Top EXCEPT !.pc = "pay", !.fee = fee]
<1>1. fee \in Uint /\ frames # <<>> /\ Top.op = "cash" /\ Top.pc = "hook"
  BY FeesAreWords DEF CashDebit
<1>2. /\ Top \in FrameType /\ Shape(Top) /\ CurrentIn(Storage, Top)
      /\ Top.op \in GuardedOps /\ Top.op \in GuardedOps \ {"write"}
  BY <1>1, Innermost DEF GuardedOps
<1>3. f \in FrameType
  BY <1>1, <1>2, FrameGoesOn DEF Pcs
<1>4. /\ f.op = "cash" /\ f.pc = "pay" /\ f.fee = fee /\ f.id = Top.id /\ f.saved = Top.saved
      /\ f.amount = Top.amount /\ f.hooks = Top.hooks /\ f.currency = Top.currency
      /\ f.escrowed = Top.escrowed /\ f.owner = Top.owner /\ f.caller = Top.caller
  BY <1>1, <1>2 DEF FrameType
<1>5. /\ Continue(f) /\ fee <= Top.amount /\ notas[Top.id].escrowed >= Top.amount
      /\ notas' = [notas EXCEPT ![Top.id].escrowed = notas[Top.id].escrowed - Top.amount]
      /\ UNCHANGED <<erc20Vars, erc721Vars, govVars, nextId, status>>
  BY <1>1, <1>2, NotaInProgress DEF CashDebit, DebitNota
<1> HIDE DEF f
<1>6. notas[Top.id].escrowed - Top.amount \in Uint
  BY <1>1, <1>2, <1>5, NotaInProgress, EVMAssumption DEF Nota, FrameType, Uint
<1>7. /\ notas' \in [NotaIds -> Nota \cup {EmptyNota}] /\ AgreeIn(Storage')
      /\ notas'[Top.id].escrowed = notas[Top.id].escrowed - Top.amount
      /\ notas'[Top.id].currency = notas[Top.id].currency
      /\ notas'[Top.id].hooks = notas[Top.id].hooks
  BY <1>1, <1>2, <1>5, <1>6, Present, NotaInProgress, EscrowChange DEF erc721Vars
<1>8. StorageOK'
  BY <1>5, <1>7, Present DEF StorageOK, ERC20TypeOK, ERC721TypeOK, GovTypeOK, erc20Vars,
     erc721Vars, govVars
<1>9. Shape(f)
  BY <1>1, <1>2, <1>4, <1>5 DEF Shape
<1>10. CurrentIn(Storage', f)
  BY <1>1, <1>2, <1>4, <1>5, <1>7, StorageFields, StorageFieldsNext DEF CurrentIn, erc721Vars
<1> QED BY <1>1, <1>2, <1>3, <1>4, <1>5, <1>7, <1>8, <1>9, <1>10, ContinueSound

\* The payment of cash.
LEMMA CashPaySound ==
    ASSUME StructureInv, CashPay
    PROVE  StructureInv'
<1> DEFINE f == [Top EXCEPT !.pc = "credit"]
<1>1. frames # <<>> /\ Top.op = "cash" /\ Top.pc = "pay"
  BY DEF CashPay, At
<1>2. Top \in FrameType /\ Shape(Top) /\ CurrentIn(Storage, Top) /\ Top.op \in GuardedOps
  BY <1>1, Innermost DEF GuardedOps
<1>3. f \in FrameType
  BY <1>2, FrameMoves DEF Pcs
<1>4. /\ f.op = "cash" /\ f.pc = "credit" /\ f.fee = Top.fee /\ f.id = Top.id
      /\ f.saved = Top.saved
      /\ f.amount = Top.amount /\ f.hooks = Top.hooks /\ f.currency = Top.currency
      /\ f.escrowed = Top.escrowed /\ f.owner = Top.owner /\ f.caller = Top.caller
  BY <1>1, <1>2 DEF FrameType
<1>5. Continue(f) /\ UNCHANGED <<erc721Vars, govVars, notas, nextId, status>>
  BY DEF CashPay
<1> HIDE DEF f
<1>6. ERC20TypeOK'
  <2>1. ERC20TypeOK /\ Top.currency \in Tokens /\ Registrar \in Accounts /\ Top.to \in MaybeAccount
    BY <1>2, Present, EVMAssumption DEF StorageOK, FrameType
  <2>2. Top.amount - Top.fee \in Uint
    BY <1>1, <1>2, EVMAssumption DEF Shape, FrameType, Uint
  <2>3. CASE Top.amount - Top.fee > 0
    BY <2>1, <2>2, <2>3, TransferType DEF CashPay
  <2>4. CASE ~(Top.amount - Top.fee > 0)
    BY <2>1, <2>4 DEF CashPay, ERC20TypeOK, erc20Vars
  <2> QED BY <2>3, <2>4
<1>7. StorageOK' /\ AgreeIn(Storage')
  BY <1>5, <1>6, Present, StorageFields, StorageFieldsNext DEF AgreeIn, StorageOK,
     ERC721TypeOK, GovTypeOK, erc721Vars, govVars
<1>8. Shape(f) /\ CurrentIn(Storage', f)
  BY <1>1, <1>2, <1>4, <1>5, StorageFields, StorageFieldsNext DEF Shape, CurrentIn, erc721Vars
<1> QED BY <1>1, <1>2, <1>3, <1>4, <1>5, <1>7, <1>8, ContinueSound

\* The rest of cash.
LEMMA CashCreditSound ==
    ASSUME StructureInv, CashCredit
    PROVE  StructureInv'
<1>1. frames # <<>> /\ Top.op = "cash" /\ Top.pc = "credit" /\ LeaveGuarded
      /\ Top.op \in GuardedOps /\ Top.op \in GuardedOps \ {"write"}
  BY DEF CashCredit, At, GuardedOps
<1>2. Top.fee \in Uint
  BY <1>1, Innermost DEF FrameType
<1>3. GovTypeOK'
  BY <1>1, <1>2, NotaInProgress, Present, CreditHookType DEF CashCredit, StorageOK
<1>4. UNCHANGED <<erc20Vars, erc721Vars, notas, nextId>>
  BY DEF CashCredit
<1>5. StorageOK' /\ AgreeIn(Storage')
  BY <1>1, <1>3, <1>4, Present, StorageFields, StorageFieldsNext DEF AgreeIn, StorageOK,
     ERC20TypeOK, ERC721TypeOK, erc20Vars, erc721Vars, LeaveGuarded
<1> QED BY <1>1, <1>5, LeaveGuardedSound

\* approve and update end.
LEMMA FeeOnlySound ==
    ASSUME StructureInv, NEW fee, ApproveStore(fee) \/ UpdateStore(fee)
    PROVE  StructureInv'
<1>1. /\ fee \in Uint /\ frames # <<>> /\ Top.op \in {"approve", "update"} /\ Top.pc = "hook"
      /\ Top.op \in GuardedOps /\ Top.op \in GuardedOps \ {"write"}
  BY FeesAreWords DEF ApproveStore, UpdateStore, GuardedOps
<1>2. /\ TakeFee(Top, fee) /\ LeaveGuarded /\ UNCHANGED <<erc20Vars, owners, nextId>>
  BY DEF ApproveStore, UpdateStore, erc721Vars, ERC721Approve
<1>3. ERC721TypeOK /\ Top.to \in MaybeAccount /\ Top.id \in NotaIds /\ StorageOK
  BY <1>1, Present, Innermost, NotaInProgress DEF StorageOK, FrameType
<1>4. ERC721TypeOK'
  BY <1>3 DEF ApproveStore, UpdateStore, ERC721Approve, ERC721TypeOK, erc721Vars
<1>5. /\ notas' \in [NotaIds -> Nota \cup {EmptyNota}] /\ GovTypeOK' /\ AgreeIn(Storage')
  BY <1>1, <1>2, TakeFeeType
<1>6. StorageOK'
  BY <1>2, <1>3, <1>4, <1>5 DEF StorageOK, ERC20TypeOK, erc20Vars, LeaveGuarded
<1> QED BY <1>1, <1>2, <1>5, <1>6, LeaveGuardedSound

\* The transfers move the nota; a safe one waits for the receiver.
LEMMA TransferStoreSound ==
    ASSUME StructureInv, NEW op \in {"transferFrom", "safeTransferFrom"}, NEW fee,
           TransferStore(op, fee)
    PROVE  StructureInv'
<1> DEFINE f == [Top EXCEPT !.pc = "receiver"]
<1>1. /\ fee \in Uint /\ frames # <<>> /\ Top.op = op /\ Top.pc = "hook"
      /\ Top.op \in GuardedOps /\ Top.op \in GuardedOps \ {"write"}
  BY FeesAreWords DEF TransferStore, GuardedOps
<1>2. /\ TakeFee(Top, fee) /\ ERC721Transfer(Top.from, Top.to, Top.id)
      /\ UNCHANGED <<erc20Vars, nextId>>
  BY DEF TransferStore
<1>3. /\ StorageOK /\ Top \in FrameType /\ Shape(Top) /\ CurrentIn(Storage, Top)
      /\ Top.from \in MaybeAccount /\ Top.to \in Accounts
      /\ Top.id \in NotaIds /\ Exists(Top.id)
  BY <1>1, <1>2, Present, Innermost, NotaInProgress DEF FrameType, ERC721Transfer, MaybeAccount
<1>4. owners' = [owners EXCEPT ![Top.id] = Top.to] /\ Top.from \in Accounts
  BY <1>2, <1>3 DEF ERC721Transfer, Exists, MaybeAccount
<1>5. \A i \in NotaIds : owners'[i] # Null <=> owners[i] # Null
  BY <1>3, <1>4, EVMAssumption DEF StorageOK, ERC721TypeOK, Exists
<1>6. ERC721TypeOK'
  <2>1. CountMoved(Top.from, Top.to) \in [Accounts -> Int]
    BY <1>3, <1>4 DEF CountMoved, StorageOK, ERC721TypeOK
  <2> QED BY <1>2, <1>3, <1>4, <2>1 DEF ERC721Transfer, StorageOK, ERC721TypeOK, MaybeAccount
<1>7. /\ notas' \in [NotaIds -> Nota \cup {EmptyNota}] /\ GovTypeOK' /\ AgreeIn(Storage')
      /\ notas'[Top.id].currency = notas[Top.id].currency
      /\ notas'[Top.id].hooks = notas[Top.id].hooks
  BY <1>1, <1>2, <1>5, TakeFeeType
<1>8. CASE op = "transferFrom"
  <2>1. LeaveGuarded
    BY <1>8 DEF TransferStore
  <2>2. StorageOK'
    BY <1>2, <1>3, <1>6, <1>7, <2>1 DEF StorageOK, ERC20TypeOK, erc20Vars, LeaveGuarded
  <2> QED BY <1>1, <1>7, <2>1, <2>2, LeaveGuardedSound
<1>9. CASE op = "safeTransferFrom"
  <2>1. Continue(f) /\ status' = status
    BY <1>9 DEF TransferStore
  <2>2. f \in FrameType
    BY <1>3, FrameMoves DEF Pcs
  <2>3. /\ f.op = op /\ f.pc = "receiver" /\ f.id = Top.id /\ f.saved = Top.saved
        /\ f.hooks = Top.hooks /\ f.currency = Top.currency /\ f.owner = Top.owner
        /\ f.caller = Top.caller
    BY <1>1, <1>3 DEF FrameType
  <2> HIDE DEF f
  <2>4. StorageOK'
    BY <1>2, <1>3, <1>6, <1>7, <2>1 DEF StorageOK, ERC20TypeOK, erc20Vars
  <2>5. Shape(f)
    BY <1>1, <1>3, <1>9, <2>3 DEF Shape
  <2>6. CurrentIn(Storage', f)
    BY <1>1, <1>3, <1>7, <1>9, <2>3, StorageFields, StorageFieldsNext DEF CurrentIn
  <2> QED BY <1>1, <1>7, <2>1, <2>2, <2>3, <2>4, <2>5, <2>6, ContinueSound
<1> QED BY <1>8, <1>9

\* The receiver has accepted.
LEMMA ReceiverAcceptsSound ==
    ASSUME StructureInv, ReceiverAccepts
    PROVE  StructureInv'
<1>1. /\ frames # <<>> /\ Top.op \in GuardedOps /\ LeaveGuarded
      /\ UNCHANGED <<erc20Vars, erc721Vars, govVars, notas, nextId>>
  BY DEF ReceiverAccepts, At, GuardedOps
<1>2. StorageOK' /\ AgreeIn(Storage')
  BY <1>1, Present, StorageFields, StorageFieldsNext DEF AgreeIn, StorageOK, ERC20TypeOK,
     ERC721TypeOK, GovTypeOK, erc20Vars, erc721Vars, govVars, LeaveGuarded
<1> QED BY <1>1, <1>2, LeaveGuardedSound

\* burn goes on, over what its hook left or over what it found.
LEMMA BurnAllowedSound ==
    ASSUME StructureInv, NEW ok \in BOOLEAN, BurnAllowed(ok)
    PROVE  StructureInv'
<1> DEFINE f == [Top EXCEPT !.pc = "burn"]
<1>1. /\ frames # <<>> /\ Top.op = "burn" /\ Top.pc = "hook" /\ Top.op \in GuardedOps
      /\ Continue(f) /\ status' = status
  BY DEF BurnAllowed, At, GuardedOps
<1>2. Top \in FrameType /\ Shape(Top) /\ CurrentIn(Storage, Top)
  BY <1>1, Innermost
<1>3. f \in FrameType
  BY <1>2, FrameMoves DEF Pcs
<1>4. /\ f.op = "burn" /\ f.pc = "burn" /\ f.id = Top.id /\ f.saved = Top.saved
      /\ f.hooks = Top.hooks /\ f.currency = Top.currency
      /\ f.escrowed = Top.escrowed /\ f.owner = Top.owner /\ f.caller = Top.caller
  BY <1>1, <1>2 DEF FrameType
<1> HIDE DEF f
<1>5. CurrentIn(Top.saved, f) /\ CurrentIn(Storage, f)
  BY <1>1, <1>2, <1>4 DEF Shape, CurrentIn
<1>6. Shape(f)
  BY <1>1, <1>2, <1>4, <1>5 DEF Shape
<1>7. CASE ok = TRUE
  <2>1. UNCHANGED <<erc20Vars, erc721Vars, govVars, notas, nextId>>
    BY <1>7 DEF BurnAllowed
  <2>2. StorageOK' /\ AgreeIn(Storage')
    BY <1>1, <2>1, Present, StorageFields, StorageFieldsNext DEF AgreeIn, StorageOK,
       ERC20TypeOK, ERC721TypeOK, GovTypeOK, erc20Vars, erc721Vars, govVars
  <2>3. CurrentIn(Storage', f)
    BY <1>5, <2>1, StorageFields, StorageFieldsNext DEF CurrentIn, erc721Vars
  <2> QED BY <1>1, <1>3, <1>4, <1>6, <2>2, <2>3, ContinueSound
<1>8. CASE ok = FALSE
  <2>1. RestoreBut(Top.saved)
    BY <1>8 DEF BurnAllowed
  <2>2. Top.saved \in StorageType /\ AgreeIn(Top.saved)
    BY <1>1, Innermost DEF Sound
  <2>3. StorageOK'
    BY <1>1, <2>1, <2>2, Present DEF RestoreBut, StorageType, StorageOK, ERC20TypeOK,
       ERC721TypeOK, GovTypeOK
  <2>4. AgreeIn(Storage') /\ CurrentIn(Storage', f)
    BY <1>5, <2>1, <2>2, StorageFieldsNext DEF RestoreBut, AgreeIn, CurrentIn
  <2> QED BY <1>1, <1>3, <1>4, <1>6, <2>3, <2>4, ContinueSound
<1> QED BY <1>7, <1>8

\* burn ends with neither terms nor owner left.
LEMMA BurnStoreSound ==
    ASSUME StructureInv, BurnStore
    PROVE  StructureInv'
<1>1. /\ frames # <<>> /\ Top.op = "burn" /\ Top.pc = "burn" /\ LeaveGuarded
      /\ Top.op \in GuardedOps /\ Top.op \in GuardedOps \ {"write"}
      /\ UNCHANGED <<erc20Vars, nextId>>
  BY DEF BurnStore, At, GuardedOps
<1>2. Top.id \in NotaIds /\ Top.escrowed \in Uint /\ Exists(Top.id) /\ StorageOK
  BY <1>1, Present, Innermost, NotaInProgress DEF FrameType
<1>3. owners' = [owners EXCEPT ![Top.id] = Null] /\ notas' = [notas EXCEPT ![Top.id] = EmptyNota]
  BY DEF BurnStore, ERC721Burn
<1>4. GovTypeOK'
  BY <1>1, <1>2, NotaInProgress, CreditHookType DEF BurnStore, StorageOK
<1>5. ERC721TypeOK'
  <2>1. owners[Top.id] \in Accounts
    BY <1>2 DEF StorageOK, ERC721TypeOK, Exists, MaybeAccount
  <2> QED BY <1>2, <2>1 DEF BurnStore, ERC721Burn, StorageOK, ERC721TypeOK, MaybeAccount
<1>6. StorageOK'
  BY <1>1, <1>2, <1>3, <1>4, <1>5 DEF StorageOK, ERC20TypeOK, erc20Vars, LeaveGuarded
<1>7. AgreeIn(Storage')
  BY <1>1, <1>2, <1>3, Present, StorageFields, StorageFieldsNext DEF AgreeIn, StorageOK,
     ERC721TypeOK
<1> QED BY <1>1, <1>6, <1>7, LeaveGuardedSound

\* A withdrawal is paid.
LEMMA WithdrawPaySound ==
    ASSUME StructureInv, NEW op \in {"hookWithdraw", "protocolWithdraw"}, WithdrawPay(op)
    PROVE  StructureInv'
<1>1. /\ frames # <<>> /\ Top.op \notin GuardedOps /\ Leave
      /\ UNCHANGED <<erc721Vars, govVars, notas, nextId, status>>
      /\ TokenTransfer(Top.currency, Registrar, Top.to, Top.amount)
  BY DEF WithdrawPay, At, GuardedOps
<1>2. Top.currency \in Tokens /\ Top.to \in MaybeAccount /\ Top.amount \in Uint
  BY <1>1, Innermost DEF FrameType
<1>3. ERC20TypeOK'
  BY <1>1, <1>2, Present, TransferType, EVMAssumption DEF StorageOK
<1>4. StorageOK' /\ UNCHANGED <<owners, notas, nextId, status>>
  BY <1>1, <1>3, Present DEF StorageOK, ERC721TypeOK, GovTypeOK, erc721Vars, govVars
<1> QED BY <1>1, <1>4, LeavePlainSound

-----------------------------------------------------------------------------
(* How a step moves the stack, whatever it does to the storage.             *)

\* Two stacks have the same first n functions.
SamePrefix(fs, gs, n) == \A k \in 1 .. n : fs[k] = gs[k]

\* The functions that move a nota or delete it.
MoveOps == {"burn", "transferFrom", "safeTransferFrom"}

\* The outside calls a function makes with the fee its hook has answered with.
Answered == {"pull", "instant", "store", "pay", "credit"}

\* f was called with arguments an account may give, and its hook has answered with a fee
\* it may ask for.
Asked(f) ==
    /\ f.op = "write" => f.hooks \in NotaHooks /\ f.owner \in Recipients
    /\ f.op \in {"write", "fund", "cash"} => f.amount \in Amounts
    /\ f.op \in {"write", "fund"} => f.instant \in Instants
    /\ f.op \in {"cash", "approve", "transferFrom", "safeTransferFrom"} =>
         f.to \in Recipients
    /\ f.pc \in Answered => f.fee \in HookFees

\* What a new function f starts from: its caller may do with the nota what it asks for,
\* and the accounts it names are arguments of a call or what the registrar stores.
Lawful(f) ==
    /\ Asked(f)
    /\ f.op \in MoveOps => f.owner = owners[f.id] /\ IsApprovedOrOwner(f.caller, f.id)
    /\ f.to \in Recipients \cup GovRecipients \cup {Null}
    /\ f.owner \in Recipients \cup {Null} \/ \E id \in NotaIds : f.owner = owners[id]

\* A function that has just called its hook over the present storage.
Asks(f) == f.pc = "hook" /\ f.saved = Storage /\ Lawful(f)

\* Every guarded function starts with such a frame.
LEMMA CallAsks ==
    ASSUME NEW caller, Call(caller)
    PROVE  \E f : EnterGuarded(f) /\ Asks(f) /\ f.caller = caller
<1> DEFINE Begins(f) == Asks(f) /\ f.caller = caller
<1>1. ASSUME NEW id \in NotaIds, NEW amount \in Amounts
      PROVE  /\ \A instant \in Instants :
                  Begins([Frame("fund", caller, id) EXCEPT !.amount = amount,
                                                           !.instant = instant])
             /\ \A to \in Recipients :
                  Begins([Frame("cash", caller, id) EXCEPT !.amount = amount, !.to = to])
  BY DEF Frame, Asks, Lawful, Asked, Answered, MoveOps
<1>2. ASSUME NEW id \in NotaIds
      PROVE  /\ Begins(Frame("update", caller, id))
             /\ \A to \in Recipients :
                  Begins([Frame("approve", caller, id) EXCEPT !.to = to])
  BY DEF Frame, Asks, Lawful, Asked, Answered, MoveOps
<1>3. ASSUME NEW id \in NotaIds, IsApprovedOrOwner(caller, id)
      PROVE  /\ Begins(Frame("burn", caller, id))
             /\ \A op \in {"transferFrom", "safeTransferFrom"}, to \in Recipients :
                  \A from :
                    Begins([Frame(op, caller, id) EXCEPT !.from = from, !.to = to])
  BY <1>3 DEF Frame, Asks, Lawful, Asked, Answered
<1>4. ASSUME NEW currency, NEW escrowed \in Amounts, NEW instant \in Instants,
             NEW owner \in Recipients, NEW hooks \in NotaHooks,
             Write(caller, currency, escrowed, instant, owner, hooks)
      PROVE  \E f : EnterGuarded(f) /\ Begins(f)
  <2> DEFINE f == [Frame("write", caller, nextId) EXCEPT !.currency = currency, !.hooks = hooks,
                     !.amount = escrowed, !.instant = instant, !.owner = owner]
  <2>1. EnterGuarded(f)
    BY <1>4 DEF Write
  <2>2. Begins(f)
    BY DEF Frame, Asks, Lawful, Asked, Answered, MoveOps
  <2> HIDE DEF f, Begins
  <2> QED BY <2>1, <2>2
<1> HIDE DEF Begins
<1>5. ASSUME NEW id \in NotaIds, NEW amount \in Amounts,
             \/ \E instant \in Instants : Fund(caller, id, amount, instant)
             \/ \E to \in Recipients : Cash(caller, id, amount, to)
      PROVE  \E f : EnterGuarded(f) /\ Begins(f)
  BY <1>1, <1>5, ZenonT(30) DEF Fund, Cash
<1>6. ASSUME NEW id \in NotaIds,
             Update(caller, id) \/ \E to \in Recipients : ApproveNota(caller, to, id)
      PROVE  \E f : EnterGuarded(f) /\ Begins(f)
  BY <1>2, <1>6, ZenonT(30) DEF Update, ApproveNota
<1>7. ASSUME NEW id \in NotaIds,
             \/ BurnNota(caller, id)
             \/ \E op \in {"transferFrom", "safeTransferFrom"},
                   from \in Recipients, to \in Recipients :
                     TransferFrom(op, caller, from, to, id)
      PROVE  \E f : EnterGuarded(f) /\ Begins(f)
  BY <1>3, <1>7, ZenonT(30) DEF BurnNota, TransferFrom
<1>8. \E f : EnterGuarded(f) /\ Begins(f)
  BY <1>4, <1>5, <1>6, <1>7, ZenonT(60) DEF Call
<1> QED BY <1>8 DEF Begins

\* f and g are the same call, maybe at different places and with different fees.
SameCall(f, g) ==
    /\ f.op = g.op /\ f.caller = g.caller /\ f.id = g.id
    /\ f.to = g.to /\ f.owner = g.owner /\ f.saved = g.saved
    /\ f.amount = g.amount /\ f.instant = g.instant /\ f.hooks = g.hooks

Starts(f) == f.saved = Storage /\ Lawful(f) /\ frames' = Append(frames, f)

GoesOn(f) ==
    /\ frames # <<>> /\ Top.pc # "receiver" /\ SameCall(f, Top)
    /\ f.pc \in Answered => (f.fee \in HookFees \/ (Top.pc \in Answered /\ f.fee = Top.fee))
    /\ frames' = [frames EXCEPT ![Len(frames)] = f]

Ends == frames # <<>> /\ frames' = SubSeq(frames, 1, Len(frames) - 1)

\* A function that goes on is the same call.
LEMMA SameCallGoesOn ==
    ASSUME StructureInv, frames # <<>>, Top.pc # "receiver"
    PROVE  /\ \A pc \in Pcs :
                 Continue([Top EXCEPT !.pc = pc]) /\ (pc \in Answered => Top.pc \in Answered) =>
                   GoesOn([Top EXCEPT !.pc = pc])
           /\ \A pc \in Pcs, fee \in HookFees :
                 Continue([Top EXCEPT !.pc = pc, !.fee = fee]) =>
                   GoesOn([Top EXCEPT !.pc = pc, !.fee = fee])
<1>1. Top \in FrameType
  BY Innermost
<1>2. \A pc \in Pcs : /\ SameCall([Top EXCEPT !.pc = pc], Top)
                      /\ [Top EXCEPT !.pc = pc].pc = pc
                      /\ [Top EXCEPT !.pc = pc].fee = Top.fee
  BY <1>1 DEF FrameType, SameCall
<1>3. \A pc \in Pcs, fee \in HookFees : /\ SameCall([Top EXCEPT !.pc = pc, !.fee = fee], Top)
                                        /\ [Top EXCEPT !.pc = pc, !.fee = fee].fee = fee
  BY <1>1 DEF FrameType, SameCall
<1>4. ASSUME NEW pc \in Pcs, Continue([Top EXCEPT !.pc = pc]),
             pc \in Answered => Top.pc \in Answered
      PROVE  GoesOn([Top EXCEPT !.pc = pc])
  <2> DEFINE f == [Top EXCEPT !.pc = pc]
  <2>1. SameCall(f, Top) /\ f.pc = pc /\ f.fee = Top.fee /\ Continue(f)
    BY <1>2, <1>4
  <2> HIDE DEF f
  <2>2. GoesOn(f)
    BY <1>4, <2>1 DEF GoesOn, Continue
  <2> QED BY <2>2 DEF f
<1>5. ASSUME NEW pc \in Pcs, NEW fee \in HookFees, Continue([Top EXCEPT !.pc = pc, !.fee = fee])
      PROVE  GoesOn([Top EXCEPT !.pc = pc, !.fee = fee])
  <2> DEFINE f == [Top EXCEPT !.pc = pc, !.fee = fee]
  <2>1. SameCall(f, Top) /\ f.fee \in HookFees /\ Continue(f)
    BY <1>3, <1>5
  <2> HIDE DEF f
  <2>2. GoesOn(f)
    BY <2>1 DEF GoesOn, Continue
  <2> QED BY <2>2 DEF f
<1> QED BY <1>4, <1>5

\* The innermost function goes on or ends.
LEMMA ProceedMoves ==
    ASSUME StructureInv, Proceed
    PROVE  (\E f : GoesOn(f)) \/ Ends
<1>1. ASSUME NEW fee, NEW op, AskForEscrow(op, fee) PROVE \E f : GoesOn(f)
  <2>1. /\ fee \in HookFees /\ frames # <<>> /\ Top.pc = "hook" /\ "pull" \in Pcs
        /\ Continue([Top EXCEPT !.pc = "pull", !.fee = fee])
    BY <1>1, FeesAreWords DEF AskForEscrow, Pcs
  <2> QED BY <2>1, SameCallGoesOn DEF Answered
<1>2. ASSUME NEW fee, CashDebit(fee) PROVE \E f : GoesOn(f)
  <2>1. /\ fee \in HookFees /\ frames # <<>> /\ Top.pc = "hook" /\ "pay" \in Pcs
        /\ Continue([Top EXCEPT !.pc = "pay", !.fee = fee])
    BY <1>2, FeesAreWords DEF CashDebit, Pcs
  <2> QED BY <2>1, SameCallGoesOn DEF Answered
<1>3. ASSUME NEW fee, ApproveStore(fee) \/ UpdateStore(fee) PROVE Ends
  BY <1>3 DEF ApproveStore, UpdateStore, HookAnswers, At, LeaveGuarded, Leave, Ends
<1>4. ASSUME NEW fee, NEW op, TransferStore(op, fee) PROVE (\E f : GoesOn(f)) \/ Ends
  <2>1. CASE op = "safeTransferFrom"
    <3>1. /\ frames # <<>> /\ Top.pc = "hook" /\ "receiver" \in Pcs
          /\ Continue([Top EXCEPT !.pc = "receiver"])
      BY <1>4, <2>1 DEF TransferStore, HookAnswers, At, Pcs
    <3> QED BY <3>1, SameCallGoesOn DEF Answered
  <2>2. CASE op # "safeTransferFrom"
    BY <1>4, <2>2 DEF TransferStore, HookAnswers, At, LeaveGuarded, Leave, Ends
  <2> QED BY <2>1, <2>2
<1>5. ASSUME NEW op, PullEscrow(op) PROVE \E f : GoesOn(f)
  <2>1. /\ frames # <<>> /\ Top.pc = "pull" /\ "instant" \in Pcs
        /\ Continue([Top EXCEPT !.pc = "instant"])
    BY <1>5 DEF PullEscrow, At, Pcs
  <2> QED BY <2>1, SameCallGoesOn DEF Answered
<1>6. ASSUME NEW op, PayInstant(op) PROVE \E f : GoesOn(f)
  <2>1. /\ frames # <<>> /\ Top.pc = "instant" /\ "store" \in Pcs
        /\ Continue([Top EXCEPT !.pc = "store"])
    BY <1>6 DEF PayInstant, At, Pcs
  <2> QED BY <2>1, SameCallGoesOn DEF Answered
<1>7. ASSUME CashPay PROVE \E f : GoesOn(f)
  <2>1. /\ frames # <<>> /\ Top.pc = "pay" /\ "credit" \in Pcs
        /\ Continue([Top EXCEPT !.pc = "credit"])
    BY <1>7 DEF CashPay, At, Pcs
  <2> QED BY <2>1, SameCallGoesOn DEF Answered
<1>8. ASSUME NEW ok, BurnAllowed(ok) PROVE \E f : GoesOn(f)
  <2>1. /\ frames # <<>> /\ Top.pc = "hook" /\ "burn" \in Pcs
        /\ Continue([Top EXCEPT !.pc = "burn"])
    BY <1>8 DEF BurnAllowed, At, Pcs
  <2> QED BY <2>1, SameCallGoesOn DEF Answered
<1>9. WriteStore \/ FundStore \/ CashCredit \/ ReceiverAccepts \/ BurnStore => Ends
  BY DEF WriteStore, FundStore, CashCredit, ReceiverAccepts, BurnStore, At, LeaveGuarded,
     Leave, Ends
<1>10. ASSUME NEW op, WithdrawPay(op) PROVE Ends
  BY <1>10 DEF WithdrawPay, At, Leave, Ends
<1> QED BY <1>1, <1>2, <1>3, <1>4, <1>5, <1>6, <1>7, <1>8, <1>9, <1>10 DEF Proceed

\* Without the guard a function starts, or nothing does.
LEMMA UnguardedMoves ==
    ASSUME Unguarded
    PROVE  (\E f : Starts(f)) \/ frames' = frames
<1>1. ASSUME NEW op \in {"hookWithdraw", "protocolWithdraw"}, NEW caller, NEW t, NEW amount,
             NEW to \in GovRecipients, AwaitPayment(op, caller, t, amount, to)
      PROVE  \E f : Starts(f)
  <2> DEFINE f == [op |-> op, pc |-> "withdraw", caller |-> caller, id |-> 0,
                   from |-> Null, to |-> to, amount |-> amount, instant |-> 0, fee |-> 0,
                   currency |-> t, hooks |-> Null, escrowed |-> 0, owner |-> Null,
                   saved |-> Storage]
  <2>1. Lawful(f) /\ f.saved = Storage
    BY DEF Lawful, Asked, Answered, MoveOps
  <2>2. frames' = Append(frames, f)
    BY <1>1 DEF AwaitPayment, Enter
  <2> HIDE DEF f
  <2> QED BY <2>1, <2>2 DEF Starts
<1> QED BY <1>1 DEF Unguarded, HookWithdrawCall, ProtocolWithdrawCall, AdministerCall,
        SetApprovalForAllCall, TokenCall, Run

\* Every step moves the stack in one of four ways.
LEMMA StackMoves ==
    ASSUME StructureInv, [Next]_vars
    PROVE  (\E f : Starts(f)) \/ frames' = frames \/ (\E f : GoesOn(f)) \/ Ends
<1>1. ASSUME NEW caller, Call(caller) PROVE \E f : Starts(f)
  BY <1>1, CallAsks DEF EnterGuarded, Enter, Asks, Starts
<1>2. Revert => Ends
  BY DEF Revert, Leave, Ends
<1>3. UNCHANGED vars => frames' = frames
  BY DEF vars, evmVars
<1> QED BY <1>1, <1>2, <1>3, ProceedMoves, UnguardedMoves DEF Next

-----------------------------------------------------------------------------
(* What a step does to the registry of owners.                              *)

\* The registry is what it was.
RegistryKept == UNCHANGED <<owners, balances, tokenApprovals>>

\* The registry is what the innermost function has found.
RegistryRestored ==
    /\ frames # <<>>
    /\ owners' = Top.saved.owners
    /\ balances' = Top.saved.balances
    /\ tokenApprovals' = Top.saved.tokenApprovals

\* One of the four steps that write it.
RegistryWritten ==
    \/ WriteStore \/ BurnStore
    \/ \E fee : ApproveStore(fee)
    \/ \E fee : \E op \in {"transferFrom", "safeTransferFrom"} : TransferStore(op, fee)

\* Only four steps do more to the registry than to bring an older one back.
LEMMA RegistrySteps ==
    ASSUME [Next]_vars
    PROVE  \/ RegistryKept
           \/ RegistryRestored /\ (Revert \/ \E ok : BurnAllowed(ok))
           \/ RegistryWritten
<1>1. ASSUME NEW caller, Call(caller) PROVE RegistryKept
  BY <1>1, CallAsks DEF EnterGuarded, erc721Vars, RegistryKept
<1>2. Unguarded => RegistryKept
  BY DEF Unguarded, HookWithdrawCall, ProtocolWithdrawCall, AwaitPayment, AdministerCall,
     SetApprovalForAllCall, SetApprovalForAll, TokenCall, erc721Vars, RegistryKept
<1>3. Revert => RegistryRestored
  BY DEF Revert, RestoreBut, RegistryRestored
<1>4. \A ok : BurnAllowed(ok) => RegistryKept \/ RegistryRestored
  BY DEF BurnAllowed, At, RestoreBut, erc721Vars, RegistryRestored, RegistryKept
<1>5. /\ \A fee : CashDebit(fee) \/ UpdateStore(fee) => RegistryKept
      /\ \A fee, op : AskForEscrow(op, fee) => RegistryKept
      /\ \A op : PullEscrow(op) \/ PayInstant(op) \/ WithdrawPay(op) => RegistryKept
      /\ FundStore \/ CashPay \/ CashCredit \/ ReceiverAccepts => RegistryKept
  BY DEF AskForEscrow, CashDebit, UpdateStore, PullEscrow, PayInstant, FundStore, CashPay,
     CashCredit, ReceiverAccepts, WithdrawPay, erc721Vars, RegistryKept
<1>6. UNCHANGED vars => RegistryKept
  BY DEF vars, erc721Vars, RegistryKept
<1>7. ASSUME Proceed
      PROVE  \/ RegistryKept
             \/ RegistryRestored /\ \E ok : BurnAllowed(ok)
             \/ RegistryWritten
  <2>1. ASSUME NEW fee \in HookFees,
               \/ \E op \in {"write", "fund"} : AskForEscrow(op, fee)
               \/ CashDebit(fee)
               \/ ApproveStore(fee)
               \/ UpdateStore(fee)
               \/ \E op \in {"transferFrom", "safeTransferFrom"} : TransferStore(op, fee)
        PROVE  RegistryKept \/ RegistryWritten
    BY <1>5, <2>1, Zenon DEF RegistryWritten
  <2> QED BY <1>4, <1>5, <1>7, <2>1, Zenon DEF Proceed, RegistryWritten
<1> QED BY <1>1, <1>2, <1>3, <1>6, <1>7 DEF Next

-----------------------------------------------------------------------------
(* The invariant, and what follows from it.                                 *)

\* Every step of the innermost function.
LEMMA ProceedSound ==
    ASSUME StructureInv, Proceed
    PROVE  StructureInv'
<1>1. ASSUME NEW fee \in HookFees, NEW op \in {"write", "fund"}, AskForEscrow(op, fee)
      PROVE  StructureInv'
  BY <1>1, AskForEscrowSound
<1>2. ASSUME NEW fee \in HookFees, CashDebit(fee) PROVE StructureInv'
  BY <1>2, CashDebitSound
<1>3. ASSUME NEW fee \in HookFees, ApproveStore(fee) \/ UpdateStore(fee)
      PROVE  StructureInv'
  BY <1>3, FeeOnlySound
<1>4. ASSUME NEW fee \in HookFees, NEW op \in {"transferFrom", "safeTransferFrom"},
             TransferStore(op, fee)
      PROVE  StructureInv'
  BY <1>4, TransferStoreSound
<1>5. ASSUME NEW op \in {"write", "fund"}, PullEscrow(op) \/ PayInstant(op)
      PROVE  StructureInv'
  BY <1>5, PaymentSound
<1>6. ASSUME NEW ok \in BOOLEAN, BurnAllowed(ok) PROVE StructureInv'
  BY <1>6, BurnAllowedSound
<1>7. ASSUME NEW op \in {"hookWithdraw", "protocolWithdraw"}, WithdrawPay(op)
      PROVE  StructureInv'
  BY <1>7, WithdrawPaySound
<1> QED BY <1>1, <1>2, <1>3, <1>4, <1>5, <1>6, <1>7, WriteStoreSound, FundStoreSound,
           CashPaySound, CashCreditSound, ReceiverAcceptsSound, BurnStoreSound DEF Proceed

\* Every step, and none, keeps the invariant.
LEMMA NextSound ==
    ASSUME StructureInv, [Next]_vars
    PROVE  StructureInv'
<1>1. CASE Next
  <2>1. ASSUME NEW caller \in Callers, Call(caller) PROVE StructureInv'
    BY <2>1, CallSound
  <2> QED BY <1>1, <2>1, ProceedSound, UnguardedSound, RevertSound DEF Next
<1>2. CASE UNCHANGED vars
  <2>1. Storage' = Storage /\ frames' = frames /\ gas' = gas
    BY <1>2 DEF vars, evmVars, erc20Vars, erc721Vars, govVars, Storage
  <2>2. Levels(Storage', frames')
    BY <2>1 DEF StructureInv
  <2> QED BY <2>1, <2>2 DEF StructureInv, TypeOK
<1> QED BY <1>1, <1>2

\* Whatever a step does, the levels below the uppermost one that is left are those that
\* were there.
LEMMA LowerLevels ==
    ASSUME StructureInv, [Next]_vars
    PROVE  /\ frames' \in Seq(FrameType) /\ Len(frames') \in Nat
           /\ \A k \in 0 .. Len(frames') - 1 :
                /\ k \in 0 .. Len(frames)
                /\ Level(Storage', frames', k) = Level(Storage, frames, k)
                /\ SamePrefix(frames, frames', k)
<1>1. /\ frames \in Seq(FrameType) /\ Len(frames) \in Nat
      /\ frames' \in Seq(FrameType) /\ Len(frames') \in Nat
  BY NextSound DEF StructureInv, TypeOK
<1>2. ASSUME NEW f, Starts(f), NEW k \in 0 .. Len(frames') - 1
      PROVE  /\ k \in 0 .. Len(frames)
             /\ Level(Storage', frames', k) = Level(Storage, frames, k)
             /\ SamePrefix(frames, frames', k)
  <2>1. /\ Len(frames') = Len(frames) + 1 /\ frames'[Len(frames) + 1] = f
        /\ \A j \in 1 .. Len(frames) : frames'[j] = frames[j]
    BY <1>1, <1>2 DEF Starts
  <2> QED BY <1>1, <1>2, <2>1 DEF Level, SamePrefix, Starts
<1>3. ASSUME frames' = frames, NEW k \in 0 .. Len(frames') - 1
      PROVE  /\ k \in 0 .. Len(frames)
             /\ Level(Storage', frames', k) = Level(Storage, frames, k)
             /\ SamePrefix(frames, frames', k)
  BY <1>1, <1>3 DEF Level, SamePrefix
<1>4. ASSUME NEW f, GoesOn(f), NEW k \in 0 .. Len(frames') - 1
      PROVE  /\ k \in 0 .. Len(frames)
             /\ Level(Storage', frames', k) = Level(Storage, frames, k)
             /\ SamePrefix(frames, frames', k)
  <2>1. /\ Len(frames) \in Nat \ {0} /\ Len(frames') = Len(frames)
        /\ frames'[Len(frames)] = f
        /\ \A j \in 1 .. Len(frames) - 1 : frames'[j] = frames[j]
    BY <1>1, <1>4 DEF GoesOn
  <2>2. f.saved = frames[Len(frames)].saved
    BY <1>4 DEF GoesOn, SameCall, Top
  <2> QED BY <1>1, <1>4, <2>1, <2>2 DEF Level, SamePrefix
<1>5. ASSUME Ends, NEW k \in 0 .. Len(frames') - 1
      PROVE  /\ k \in 0 .. Len(frames)
             /\ Level(Storage', frames', k) = Level(Storage, frames, k)
             /\ SamePrefix(frames, frames', k)
  <2>1. /\ Len(frames) \in Nat \ {0} /\ Len(frames') = Len(frames) - 1
        /\ \A j \in 1 .. Len(frames) - 1 : frames'[j] = frames[j]
    BY <1>1, <1>5, Shorter DEF Ends
  <2> QED BY <1>1, <1>5, <2>1 DEF Level, SamePrefix
<1> QED BY <1>1, <1>2, <1>3, <1>4, <1>5, StackMoves

\* The registrar, the functions in progress and every storage a revert may bring back
\* are sound at all times.
THEOREM Structure == Spec => []StructureInv
<1>1. Init => StructureInv
  BY InitSound
<1>2. StructureInv /\ [Next]_vars => StructureInv'
  BY NextSound
<1> QED BY <1>1, <1>2, PTL DEF Spec

\* Every variable keeps its type: in particular no escrow, revenue or balance ever
\* leaves the range of a word, whether its arithmetic is checked or not.
THEOREM TypeCorrect == Spec => []TypeOK
<1>1. StructureInv => TypeOK
  BY DEF StructureInv
<1> QED BY <1>1, Structure, PTL

\* At most one guarded function is in progress, and the guard is up exactly when one is.
THEOREM GuardExclusion == Spec => []GuardExclusive
<1>1. StructureInv => GuardExclusive
  BY Present DEF Sound, GuardExclusive
<1> QED BY <1>1, Structure, PTL

\* What a function read of its nota before it handed control to the hook, the currency
\* or the receiver still is what is stored when it goes on.
THEOREM CacheSafety == Spec => []CachedNotaCurrent
<1>1. StructureInv => CachedNotaCurrent
  <2>1. ASSUME StructureInv PROVE \A k \in 1 .. Len(frames) : CurrentIn(Storage, frames[k])
    BY <2>1, Present DEF Sound
  <2>2. ASSUME StructureInv PROVE DOMAIN frames = 1 .. Len(frames)
    BY <2>2, Present
  <2> QED BY <2>1, <2>2 DEF CachedNotaCurrent
<1> QED BY <1>1, Structure, PTL

\* The owners and the notas always agree on which ids exist.
THEOREM RegistryAgreement == Spec => []RegistriesAgree
<1>1. StructureInv => RegistriesAgree
  BY Present DEF RegistriesAgree
<1> QED BY <1>1, Structure, PTL
-----------------------------------------------------------------------------
(* The registry of owners at every level of the stack.                      *)

\* No approval stands against the owner it was given by.
ApprovalsIn(s) ==
    \A id \in NotaIds : s.tokenApprovals[id] # Null =>
        s.owners[id] # Null /\ s.tokenApprovals[id] # s.owners[id]

\* The ids that a owns in the registry o.
Owned(o, a) == {id \in NotaIds : o[id] = a}

CountsIn(s) == \A a \in Accounts : s.balances[a] = Cardinality(Owned(s.owners, a))

\* f is no function that moves a nota, or its caller may move the one it names, going
\* by the approvals of s and the operators there were when f was called.
EntitledIn(s, f) ==
    f.op \in MoveOps /\ f.pc # "receiver" =>
        \/ f.caller = f.owner
        \/ f.caller = s.tokenApprovals[f.id]
        \/ f.caller \in f.saved.operatorApprovals[f.owner]

\* burn may go on over the storage it has found, so its caller must be entitled there too.
EntitledAll(s, fs, n) ==
    \A k \in 1 .. n : EntitledIn(s, fs[k]) /\ EntitledIn(fs[k].saved, fs[k])

\* What holds of the registry of s under the first n functions of the stack fs.
OwnedWell(s, fs, n) == ApprovalsIn(s) /\ CountsIn(s) /\ EntitledAll(s, fs, n)

OwnershipInv ==
    /\ StructureInv
    /\ \A k \in 0 .. Len(frames) : OwnedWell(Level(Storage, frames, k), frames, k)

-----------------------------------------------------------------------------
(* Counting.                                                                *)

\* The notas an account owns are finitely many.
LEMMA OwnedFinite ==
    ASSUME NEW o, NEW a
    PROVE  IsFiniteSet(Owned(o, a)) /\ Cardinality(Owned(o, a)) \in Nat
<1>1. IsFiniteSet(NotaIds)
  <2>1. MaxNotas \in Int /\ 1 \in Int /\ NotaIds = 1 .. MaxNotas
    BY NotaRegistrarAssumption
  <2> QED BY <2>1, FS_Interval
<1>2. Owned(o, a) \subseteq NotaIds
  BY DEF Owned
<1>3. IsFiniteSet(Owned(o, a))
  BY <1>1, <1>2, FS_Subset
<1> QED BY <1>3, FS_CardinalityType

\* From the registry o to the registry p, id goes from c to d and nothing else moves.
Handed(o, p, id, c, d) ==
    /\ o[id] = c /\ p[id] = d
    /\ \A i \in NotaIds \ {id} : p[i] = o[i]

\* When one nota goes from the account c to another one, d, the first owns one less and
\* the second one more.
LEMMA OneChangesHands ==
    ASSUME NEW o, NEW p, NEW id \in NotaIds, NEW c, NEW d, c # d,
           Handed(o, p, id, c, d), NEW a
    PROVE  Cardinality(Owned(p, a)) = CASE a = c -> Cardinality(Owned(o, a)) - 1
                                        [] a = d -> Cardinality(Owned(o, a)) + 1
                                        [] OTHER -> Cardinality(Owned(o, a))
<1>1. CASE a = c
  <2>1. Owned(p, a) = Owned(o, a) \ {id} /\ id \in Owned(o, a)
    BY <1>1 DEF Owned, Handed
  <2>2. Cardinality(Owned(o, a) \ {id}) = Cardinality(Owned(o, a)) - 1
    BY <2>1, OwnedFinite, FS_RemoveElement
  <2> QED BY <1>1, <2>1, <2>2
<1>2. CASE a = d
  <2>1. Owned(p, a) = Owned(o, a) \cup {id} /\ id \notin Owned(o, a)
    BY <1>2 DEF Owned, Handed
  <2>2. Cardinality(Owned(o, a) \cup {id}) = Cardinality(Owned(o, a)) + 1
    BY <2>1, OwnedFinite, FS_AddElement
  <2> QED BY <1>2, <2>1, <2>2
<1>3. CASE a # c /\ a # d
  <2>1. Owned(p, a) = Owned(o, a)
    BY <1>3 DEF Owned, Handed
  <2> QED BY <1>3, <2>1
<1> QED BY <1>1, <1>2, <1>3

\* The counts of _mint, _burn and _transfer: -1 for who had the nota, +1 for who gets it,
\* and neither when it stays where it is.
LEMMA CountsFollow ==
    ASSUME NEW o, NEW p, NEW id \in NotaIds, NEW c, NEW d, Handed(o, p, id, c, d), NEW a
    PROVE  Cardinality(Owned(p, a)) = Cardinality(Owned(o, a))
             + (IF a = d THEN 1 ELSE 0) - (IF a = c THEN 1 ELSE 0)
<1>1. Cardinality(Owned(o, a)) \in Nat
  BY OwnedFinite
<1>2. CASE c = d
  <2>1. Owned(p, a) = Owned(o, a)
    BY <1>2 DEF Owned, Handed
  <2> QED BY <1>1, <1>2, <2>1
<1>3. CASE c # d
  <2>1. Cardinality(Owned(p, a)) = CASE a = c -> Cardinality(Owned(o, a)) - 1
                                     [] a = d -> Cardinality(Owned(o, a)) + 1
                                     [] OTHER -> Cardinality(Owned(o, a))
    BY <1>3, OneChangesHands
  <2> QED BY <1>1, <1>3, <2>1
<1> QED BY <1>2, <1>3

-----------------------------------------------------------------------------
(* The registry.                                                            *)

\* What the invariant says of the present storage and of the one the innermost function
\* has found.
LEMMA PresentOwners ==
    ASSUME OwnershipInv
    PROVE  /\ StructureInv /\ StorageOK /\ AgreeIn(Storage)
           /\ frames \in Seq(FrameType) /\ Len(frames) \in Nat
           /\ OwnedWell(Storage, frames, Len(frames))
           /\ frames # <<>> => /\ Len(frames) \in Nat \ {0}
                               /\ OwnedWell(Top.saved, frames, Len(frames) - 1)
<1>1. /\ StructureInv /\ StorageOK /\ AgreeIn(Storage)
      /\ frames \in Seq(FrameType) /\ Len(frames) \in Nat
  BY Present DEF OwnershipInv
<1>2. OwnedWell(Storage, frames, Len(frames))
  <2>1. Level(Storage, frames, Len(frames)) = Storage
    BY DEF Level
  <2> QED BY <1>1, <2>1 DEF OwnershipInv
<1>3. ASSUME frames # <<>>
      PROVE  Len(frames) \in Nat \ {0} /\ OwnedWell(Top.saved, frames, Len(frames) - 1)
  <2>1. Len(frames) \in Nat \ {0}
    BY <1>1, <1>3
  <2>2. /\ Level(Storage, frames, Len(frames) - 1) = Top.saved
        /\ Len(frames) - 1 \in 0 .. Len(frames)
    BY <2>1 DEF Level, Top
  <2> QED BY <2>1, <2>2 DEF OwnershipInv
<1> QED BY <1>1, <1>2, <1>3

\* Approvals and counts look at the registry only.
LEMMA RegistrySame ==
    ASSUME NEW s, NEW r, ApprovalsIn(s), CountsIn(s), r.owners = s.owners,
           r.balances = s.balances, r.tokenApprovals = s.tokenApprovals
    PROVE  ApprovalsIn(r) /\ CountsIn(r)
BY DEF ApprovalsIn, CountsIn

\* write mints the next id, which had no owner and no approval.
LEMMA MintOwned ==
    ASSUME OwnershipInv, WriteStore
    PROVE  ApprovalsIn(Storage') /\ CountsIn(Storage')
<1>1. /\ ApprovalsIn(Storage) /\ CountsIn(Storage) /\ ERC721TypeOK
      /\ frames # <<>> /\ Top.op = "write" /\ Top.owner # Null /\ owners[nextId] = Null
      /\ balances' = [balances EXCEPT ![Top.owner] = balances[Top.owner] + 1]
      /\ owners' = [owners EXCEPT ![nextId] = Top.owner] /\ UNCHANGED tokenApprovals
  BY PresentOwners DEF OwnedWell, StorageOK, WriteStore, At, ERC721Mint, Exists
<1>2. nextId \in NotaIds /\ Top.owner \in Accounts
  <2>1. Shape(Top) /\ CurrentIn(Storage, Top) /\ Top \in FrameType
    BY <1>1, PresentOwners, Innermost
  <2> QED BY <1>1, <2>1, StorageFields DEF Shape, CurrentIn, GuardedOps, FrameType, MaybeAccount
<1>3. owners'[nextId] = Top.owner /\ \A i \in NotaIds \ {nextId} : owners'[i] = owners[i]
  BY <1>1, <1>2 DEF ERC721TypeOK
<1>4. ApprovalsIn(Storage')
  <2>1. tokenApprovals[nextId] = Null
    BY <1>1, <1>2, StorageFields DEF ApprovalsIn
  <2> QED BY <1>1, <1>3, <2>1, StorageFields, StorageFieldsNext DEF ApprovalsIn
<1>5. ASSUME NEW a \in Accounts PROVE balances'[a] = Cardinality(Owned(owners', a))
  <2>1. balances[a] = Cardinality(Owned(owners, a)) /\ Cardinality(Owned(owners, a)) \in Nat
    BY <1>1, OwnedFinite, StorageFields DEF CountsIn
  <2>2. Cardinality(Owned(owners', a)) = Cardinality(Owned(owners, a))
          + (IF a = Top.owner THEN 1 ELSE 0) - (IF a = Null THEN 1 ELSE 0)
    <3>1. Handed(owners, owners', nextId, Null, Top.owner)
      BY <1>1, <1>3 DEF Handed
    <3> QED BY <1>2, <3>1, CountsFollow
  <2>3. a # Null /\ balances'[a] = balances[a] + (IF a = Top.owner THEN 1 ELSE 0)
    BY <1>1, <1>2, <2>1, EVMAssumption DEF ERC721TypeOK
  <2> QED BY <2>1, <2>2, <2>3
<1> QED BY <1>4, <1>5, StorageFieldsNext DEF CountsIn

\* burn takes the nota from its owner, and its approval with it.
LEMMA BurnOwned ==
    ASSUME OwnershipInv, BurnStore
    PROVE  ApprovalsIn(Storage') /\ CountsIn(Storage')
<1> DEFINE id == Top.id
           c == owners[Top.id]
<1>1. /\ ApprovalsIn(Storage) /\ CountsIn(Storage) /\ ERC721TypeOK
      /\ tokenApprovals' = [tokenApprovals EXCEPT ![id] = Null]
      /\ balances' = [balances EXCEPT ![c] = balances[c] - 1]
      /\ owners' = [owners EXCEPT ![id] = Null]
  BY PresentOwners DEF OwnedWell, StorageOK, BurnStore, ERC721Burn
<1>2. id \in NotaIds /\ c \in Accounts
  <2>1. /\ frames # <<>> /\ Top.op \in GuardedOps \ {"write"} /\ Top.pc # "receiver"
    BY DEF BurnStore, At, GuardedOps
  <2> QED BY <1>1, <2>1, NotaInProgress, PresentOwners DEF Exists, ERC721TypeOK, MaybeAccount
<1> HIDE DEF id
<1>3. /\ owners[id] = c /\ owners'[id] = Null /\ tokenApprovals'[id] = Null
      /\ \A i \in NotaIds \ {id} : /\ owners'[i] = owners[i]
                                 /\ tokenApprovals'[i] = tokenApprovals[i]
  BY <1>1, <1>2 DEF ERC721TypeOK, id
<1> HIDE DEF c
<1>4. ApprovalsIn(Storage')
  BY <1>1, <1>3, StorageFields, StorageFieldsNext DEF ApprovalsIn
<1>5. ASSUME NEW a \in Accounts PROVE balances'[a] = Cardinality(Owned(owners', a))
  <2>1. balances[a] = Cardinality(Owned(owners, a)) /\ Cardinality(Owned(owners, a)) \in Nat
    BY <1>1, OwnedFinite, StorageFields DEF CountsIn
  <2>2. Cardinality(Owned(owners', a)) = Cardinality(Owned(owners, a))
          + (IF a = Null THEN 1 ELSE 0) - (IF a = c THEN 1 ELSE 0)
    <3>1. Handed(owners, owners', id, c, Null)
      BY <1>3 DEF Handed
    <3> QED BY <1>2, <3>1, CountsFollow
  <2>3. a # Null /\ balances'[a] = balances[a] - (IF a = c THEN 1 ELSE 0)
    BY <1>1, <1>2, <2>1, EVMAssumption DEF ERC721TypeOK
  <2> QED BY <2>1, <2>2, <2>3
<1> QED BY <1>4, <1>5, StorageFieldsNext DEF CountsIn

\* A transfer counts both accounts, also when they are the same one.
LEMMA TransferOwned ==
    ASSUME OwnershipInv, NEW fee, NEW op \in {"transferFrom", "safeTransferFrom"},
           TransferStore(op, fee)
    PROVE  ApprovalsIn(Storage') /\ CountsIn(Storage')
<1> DEFINE id == Top.id
           c == Top.from
           d == Top.to
<1>1. /\ ApprovalsIn(Storage) /\ CountsIn(Storage) /\ ERC721TypeOK
      /\ owners[id] = c /\ d # Null /\ balances' = CountMoved(c, d)
      /\ tokenApprovals' = [tokenApprovals EXCEPT ![id] = Null]
      /\ owners' = [owners EXCEPT ![id] = d]
  BY PresentOwners DEF OwnedWell, StorageOK, TransferStore, ERC721Transfer
<1>2. id \in NotaIds /\ c \in Accounts /\ d \in Accounts
  <2>1. /\ frames # <<>> /\ Top.op \in GuardedOps \ {"write"} /\ Top.pc # "receiver"
    BY DEF TransferStore, HookAnswers, At, GuardedOps
  <2>2. id \in NotaIds /\ Exists(id) /\ Top \in FrameType
    BY <2>1, NotaInProgress, Innermost, PresentOwners
  <2> QED BY <1>1, <2>2 DEF Exists, ERC721TypeOK, MaybeAccount, FrameType
<1> HIDE DEF id, c, d
<1>3. /\ owners[id] = c /\ owners'[id] = d /\ tokenApprovals'[id] = Null
      /\ \A i \in NotaIds \ {id} : /\ owners'[i] = owners[i]
                                 /\ tokenApprovals'[i] = tokenApprovals[i]
  BY <1>1, <1>2 DEF ERC721TypeOK
<1>4. ApprovalsIn(Storage')
  BY <1>1, <1>3, StorageFields, StorageFieldsNext DEF ApprovalsIn
<1>5. ASSUME NEW a \in Accounts PROVE balances'[a] = Cardinality(Owned(owners', a))
  <2>1. balances[a] = Cardinality(Owned(owners, a)) /\ Cardinality(Owned(owners, a)) \in Nat
    BY <1>1, OwnedFinite, StorageFields DEF CountsIn
  <2>2. Cardinality(Owned(owners', a)) = Cardinality(Owned(owners, a))
          + (IF a = d THEN 1 ELSE 0) - (IF a = c THEN 1 ELSE 0)
    <3>1. Handed(owners, owners', id, c, d)
      BY <1>3 DEF Handed
    <3> QED BY <1>2, <3>1, CountsFollow
  <2>3. balances'[a] = balances[a] - (IF a = c THEN 1 ELSE 0) + (IF a = d THEN 1 ELSE 0)
    BY <1>1, <1>2, <2>1 DEF ERC721TypeOK, CountMoved
  <2> QED BY <2>1, <2>2, <2>3
<1> QED BY <1>4, <1>5, StorageFieldsNext DEF CountsIn

\* approve gives an existing nota an approval other than its owner.
LEMMA ApproveOwned ==
    ASSUME OwnershipInv, NEW fee, ApproveStore(fee)
    PROVE  ApprovalsIn(Storage') /\ CountsIn(Storage')
<1>1. /\ ApprovalsIn(Storage) /\ CountsIn(Storage) /\ ERC721TypeOK
      /\ Exists(Top.id) /\ Top.to # owners[Top.id] /\ UNCHANGED <<owners, balances>>
      /\ tokenApprovals' = [tokenApprovals EXCEPT ![Top.id] = Top.to]
  BY PresentOwners DEF OwnedWell, StorageOK, ApproveStore, ERC721Approve
<1>2. \A i \in NotaIds :
        tokenApprovals'[i] = IF i = Top.id THEN Top.to ELSE tokenApprovals[i]
  BY <1>1 DEF ERC721TypeOK
<1>3. ApprovalsIn(Storage')
  BY <1>1, <1>2, StorageFields, StorageFieldsNext DEF ApprovalsIn, Exists
<1>4. CountsIn(Storage')
  BY <1>1, StorageFields, StorageFieldsNext DEF CountsIn
<1> QED BY <1>3, <1>4

-----------------------------------------------------------------------------
(* Who may move a nota.                                                     *)

\* The approvals of a storage are all of it that counts here.
LEMMA EntitledSame ==
    ASSUME NEW s, NEW r, NEW f, EntitledIn(s, f), r.tokenApprovals = s.tokenApprovals
    PROVE  EntitledIn(r, f)
BY DEF EntitledIn

\* A function that goes on is as entitled as it was.
LEMMA EntitledCall ==
    ASSUME NEW s, NEW f, NEW g, SameCall(f, g), g.pc # "receiver",
           EntitledIn(s, g), EntitledIn(g.saved, g)
    PROVE  EntitledIn(s, f) /\ EntitledIn(f.saved, f)
BY DEF EntitledIn, SameCall

\* One that has just started is entitled by the check it starts with.
LEMMA EntitledStart ==
    ASSUME NEW f, f.saved = Storage, Lawful(f)
    PROVE  EntitledIn(Storage, f) /\ EntitledIn(f.saved, f)
BY StorageFields DEF EntitledIn, Lawful, IsApprovedOrOwner, IsApprovedForAll

\* A function that is not guarded moves no nota.
LEMMA EntitledUnguarded ==
    ASSUME NEW s, NEW f, f.op \notin GuardedOps
    PROVE  EntitledIn(s, f)
BY DEF EntitledIn, GuardedOps, MoveOps

\* The stack moves over a registry that stays.
LEMMA EntitledKept ==
    ASSUME OwnershipInv, [Next]_vars, RegistryKept
    PROVE  EntitledAll(Storage', frames', Len(frames'))
<1>1. /\ frames \in Seq(FrameType) /\ Len(frames) \in Nat
      /\ EntitledAll(Storage, frames, Len(frames))
  BY PresentOwners DEF OwnedWell
<1>2. Storage'.tokenApprovals = Storage.tokenApprovals
  BY StorageFields, StorageFieldsNext DEF RegistryKept
<1>3. ASSUME NEW k \in 1 .. Len(frames)
      PROVE  EntitledIn(Storage', frames[k]) /\ EntitledIn(frames[k].saved, frames[k])
  BY <1>1, <1>2, EntitledSame DEF EntitledAll
<1>4. ASSUME NEW f, Starts(f) PROVE EntitledAll(Storage', frames', Len(frames'))
  <2>1. /\ Len(frames') = Len(frames) + 1 /\ frames'[Len(frames) + 1] = f
        /\ \A k \in 1 .. Len(frames) : frames'[k] = frames[k]
    BY <1>1, <1>4 DEF Starts
  <2>2. EntitledIn(Storage', f) /\ EntitledIn(f.saved, f)
    BY <1>2, <1>4, EntitledStart, EntitledSame DEF Starts
  <2> QED BY <1>1, <1>3, <2>1, <2>2 DEF EntitledAll
<1>5. CASE frames' = frames
  BY <1>3, <1>5 DEF EntitledAll
<1>6. ASSUME NEW f, GoesOn(f) PROVE EntitledAll(Storage', frames', Len(frames'))
  <2>1. /\ Len(frames) \in Nat \ {0} /\ Len(frames') = Len(frames)
        /\ frames'[Len(frames)] = f
        /\ \A k \in 1 .. Len(frames) - 1 : frames'[k] = frames[k]
    BY <1>1, <1>6 DEF GoesOn
  <2>2. EntitledIn(Storage', f) /\ EntitledIn(f.saved, f)
    <3>1. EntitledIn(Storage', Top) /\ EntitledIn(Top.saved, Top)
      BY <1>3, <2>1 DEF Top
    <3> QED BY <1>6, <3>1, EntitledCall DEF GoesOn
  <2> QED BY <1>1, <1>3, <2>1, <2>2 DEF EntitledAll
<1>7. CASE Ends
  <2>1. /\ Len(frames) \in Nat \ {0} /\ Len(frames') = Len(frames) - 1
        /\ \A k \in 1 .. Len(frames) - 1 : frames'[k] = frames[k]
    BY <1>1, <1>7, Shorter DEF Ends
  <2> QED BY <1>3, <2>1 DEF EntitledAll
<1>8. StructureInv
  BY PresentOwners
<1> QED BY <1>4, <1>5, <1>6, <1>7, <1>8, StackMoves

\* The innermost function has failed, or burn goes on over what it has found.
LEMMA EntitledRestored ==
    ASSUME OwnershipInv, RegistryRestored, Revert \/ \E ok : BurnAllowed(ok)
    PROVE  EntitledAll(Storage', frames', Len(frames'))
<1>1. /\ frames \in Seq(FrameType) /\ Len(frames) \in Nat \ {0} /\ Top = frames[Len(frames)]
      /\ EntitledAll(Top.saved, frames, Len(frames) - 1)
      /\ EntitledAll(Storage, frames, Len(frames))
  BY PresentOwners DEF OwnedWell, RegistryRestored, Top
<1>2. Storage'.tokenApprovals = Top.saved.tokenApprovals
  BY StorageFieldsNext DEF RegistryRestored
<1>3. ASSUME NEW k \in 1 .. Len(frames) - 1
      PROVE  EntitledIn(Storage', frames[k]) /\ EntitledIn(frames[k].saved, frames[k])
  BY <1>1, <1>2, EntitledSame DEF EntitledAll
<1>4. CASE Revert
  <2>1. /\ Len(frames') = Len(frames) - 1
        /\ \A k \in 1 .. Len(frames) - 1 : frames'[k] = frames[k]
    BY <1>1, <1>4, Shorter DEF Revert, Leave
  <2> QED BY <1>3, <2>1 DEF EntitledAll
<1>5. ASSUME NEW ok, BurnAllowed(ok) PROVE EntitledAll(Storage', frames', Len(frames'))
  <2> DEFINE f == [Top EXCEPT !.pc = "burn"]
  <2>1. /\ frames' = [frames EXCEPT ![Len(frames)] = f] /\ Top.pc # "receiver"
    BY <1>5 DEF BurnAllowed, At, Continue
  <2>2. SameCall(f, Top)
    <3>1. Top \in FrameType
      BY <1>1
    <3> QED BY <3>1 DEF FrameType, SameCall
  <2>3. EntitledIn(Storage', Top) /\ EntitledIn(Top.saved, Top)
    <3>1. EntitledIn(Top.saved, Top)
      BY <1>1 DEF EntitledAll
    <3> QED BY <1>2, <3>1, EntitledSame
  <2> HIDE DEF f
  <2>4. EntitledIn(Storage', f) /\ EntitledIn(f.saved, f)
    BY <2>1, <2>2, <2>3, EntitledCall
  <2>5. /\ Len(frames') = Len(frames) /\ frames'[Len(frames)] = f
        /\ \A k \in 1 .. Len(frames) - 1 : frames'[k] = frames[k]
    BY <1>1, <2>1
  <2> QED BY <1>1, <1>3, <2>4, <2>5 DEF EntitledAll
<1> QED BY <1>4, <1>5

\* When the registry changes, the innermost function is guarded, so none of the others
\* is, and it ends or only waits for the receiver.
LEMMA EntitledChanged ==
    ASSUME OwnershipInv, RegistryWritten
    PROVE  EntitledAll(Storage', frames', Len(frames'))
<1>1. frames \in Seq(FrameType) /\ Len(frames) \in Nat /\ StructureInv
  BY PresentOwners
<1>2. /\ frames # <<>> /\ Top.op \in GuardedOps
      /\ \/ frames' = SubSeq(frames, 1, Len(frames) - 1)
         \/ frames' = [frames EXCEPT ![Len(frames)] = [Top EXCEPT !.pc = "receiver"]]
  BY DEF WriteStore, BurnStore, ApproveStore, TransferStore, HookAnswers, At, GuardedOps,
     LeaveGuarded, Leave, Continue, RegistryWritten
<1>3. /\ Len(frames) \in Nat \ {0} /\ Top \in FrameType
      /\ \A k \in 1 .. Len(frames) - 1 : frames[k].op \notin GuardedOps
  BY <1>1, <1>2, Innermost
<1>4. ASSUME NEW k \in 1 .. Len(frames) - 1
      PROVE  EntitledIn(Storage', frames[k]) /\ EntitledIn(frames[k].saved, frames[k])
  BY <1>3, EntitledUnguarded
<1>5. CASE frames' = SubSeq(frames, 1, Len(frames) - 1)
  <2>1. /\ Len(frames') = Len(frames) - 1
        /\ \A k \in 1 .. Len(frames) - 1 : frames'[k] = frames[k]
    BY <1>1, <1>3, <1>5, Shorter
  <2> QED BY <1>4, <2>1 DEF EntitledAll
<1>6. CASE frames' = [frames EXCEPT ![Len(frames)] = [Top EXCEPT !.pc = "receiver"]]
  <2>1. /\ Len(frames') = Len(frames) /\ frames'[Len(frames)].pc = "receiver"
        /\ \A k \in 1 .. Len(frames) - 1 : frames'[k] = frames[k]
    BY <1>1, <1>3, <1>6 DEF FrameType
  <2>2. /\ EntitledIn(Storage', frames'[Len(frames)])
        /\ EntitledIn(frames'[Len(frames)].saved, frames'[Len(frames)])
    BY <2>1 DEF EntitledIn
  <2> QED BY <1>1, <1>4, <2>1, <2>2 DEF EntitledAll
<1> QED BY <1>2, <1>5, <1>6

-----------------------------------------------------------------------------
(* The invariant of the registry, and what follows from it.                 *)

\* The present storage stays right.
LEMMA PresentOwned ==
    ASSUME OwnershipInv, [Next]_vars
    PROVE  OwnedWell(Storage', frames', Len(frames'))
<1>1. CASE RegistryKept
  <2>1. ApprovalsIn(Storage) /\ CountsIn(Storage)
    BY PresentOwners DEF OwnedWell
  <2>2. ApprovalsIn(Storage') /\ CountsIn(Storage')
    BY <1>1, <2>1, RegistrySame, StorageFields, StorageFieldsNext DEF RegistryKept
  <2> QED BY <1>1, <2>2, EntitledKept DEF OwnedWell
<1>2. CASE RegistryRestored /\ (Revert \/ \E ok : BurnAllowed(ok))
  <2>1. ApprovalsIn(Top.saved) /\ CountsIn(Top.saved)
    BY <1>2, PresentOwners DEF OwnedWell, RegistryRestored
  <2>2. ApprovalsIn(Storage') /\ CountsIn(Storage')
    BY <1>2, <2>1, RegistrySame, StorageFieldsNext DEF RegistryRestored
  <2> QED BY <1>2, <2>2, EntitledRestored DEF OwnedWell
<1>3. CASE RegistryWritten
  BY <1>3, MintOwned, BurnOwned, ApproveOwned, TransferOwned, EntitledChanged
  DEF OwnedWell, RegistryWritten
<1> QED BY <1>1, <1>2, <1>3, RegistrySteps

\* What holds of a registry under the first functions holds under the same ones of
\* another stack.
LEMMA OwnedPrefix ==
    ASSUME NEW s, NEW fs, NEW gs, NEW n, SamePrefix(fs, gs, n), OwnedWell(s, fs, n)
    PROVE  OwnedWell(s, gs, n)
BY DEF OwnedWell, EntitledAll, SamePrefix

\* Every step keeps the registries of all levels right.
LEMMA OwnershipKept ==
    ASSUME OwnershipInv, [Next]_vars
    PROVE  OwnershipInv'
<1>1. StructureInv /\ StructureInv'
  BY NextSound DEF OwnershipInv
<1>2. Len(frames') \in Nat
  BY <1>1, LowerLevels
<1>3. ASSUME NEW k \in 0 .. Len(frames')
      PROVE  OwnedWell(Level(Storage', frames', k), frames', k)
  <2>1. CASE k = Len(frames')
    <3>1. Level(Storage', frames', k) = Storage'
      BY <2>1 DEF Level
    <3> QED BY <2>1, <3>1, PresentOwned
  <2>2. CASE k # Len(frames')
    <3>1. /\ k \in 0 .. Len(frames)
          /\ Level(Storage', frames', k) = Level(Storage, frames, k)
          /\ SamePrefix(frames, frames', k)
      BY <1>1, <1>2, <2>2, LowerLevels
    <3> QED BY <3>1, OwnedPrefix DEF OwnershipInv
  <2> QED BY <2>1, <2>2
<1> QED BY <1>1, <1>3 DEF OwnershipInv

\* At first no one owns anything.
LEMMA OwnershipStarts ==
    ASSUME Init
    PROVE  OwnershipInv
<1>1. StructureInv /\ frames = <<>>
  BY InitSound DEF Init, EVMInit
<1>2. ApprovalsIn(Storage)
  BY StorageFields DEF Init, ERC721Init, ApprovalsIn
<1>3. CountsIn(Storage)
  <2>1. ASSUME NEW a \in Accounts PROVE Cardinality(Owned(owners, a)) = 0
    <3>1. Owned(owners, a) = {}
      BY EVMAssumption DEF Init, ERC721Init, Owned
    <3> QED BY <3>1, FS_EmptySet
  <2>2. \A a \in Accounts : balances[a] = 0
    BY DEF Init, ERC721Init
  <2>3. Storage.owners = owners /\ Storage.balances = balances
    BY StorageFields
  <2> QED BY <2>1, <2>2, <2>3 DEF CountsIn
<1>4. \A k \in 0 .. Len(frames) : k = 0 /\ Level(Storage, frames, k) = Storage
  BY <1>1 DEF Level
<1>5. EntitledAll(Storage, frames, 0)
  BY DEF EntitledAll
<1> QED BY <1>1, <1>2, <1>3, <1>4, <1>5 DEF OwnershipInv, OwnedWell

\* The registries of all levels are right at all times.
THEOREM Ownership == Spec => []OwnershipInv
<1>1. OwnershipInv /\ [Next]_vars => OwnershipInv'
  BY OwnershipKept
<1> QED BY <1>1, OwnershipStarts, PTL DEF Spec

\* A transfer and a burn take the approval with them, and an id that no one has had no
\* approval is waiting for.
LEMMA StepEndsApproval ==
    ASSUME OwnershipInv, [Next]_vars, NEW id \in NotaIds
    PROVE  ApprovalEnds(id)
<1> SUFFICES ASSUME owners'[id] # owners[id]
             PROVE  \/ tokenApprovals'[id] = Null
                    \/ /\ frames # <<>>
                       /\ owners'[id] = Top.saved.owners[id]
                       /\ tokenApprovals'[id] = Top.saved.tokenApprovals[id]
  BY DEF ApprovalEnds
<1>1. ERC721TypeOK
  BY PresentOwners DEF StorageOK
<1>2. ~RegistryKept
  BY DEF RegistryKept
<1>3. CASE RegistryRestored
  BY <1>3 DEF RegistryRestored
<1>4. CASE WriteStore
  <2>1. /\ owners[nextId] = Null /\ tokenApprovals' = tokenApprovals
        /\ \A i \in NotaIds \ {nextId} : owners'[i] = owners[i]
    BY <1>1, <1>4 DEF WriteStore, ERC721Mint, Exists, ERC721TypeOK
  <2>2. owners[id] = Null
    BY <2>1
  <2>3. tokenApprovals[id] # Null => owners[id] # Null
    BY PresentOwners, StorageFields DEF OwnedWell, ApprovalsIn
  <2> QED BY <2>1, <2>2, <2>3
<1>5. CASE BurnStore
  BY <1>1, <1>5 DEF BurnStore, ERC721Burn, ERC721TypeOK
<1>6. ASSUME NEW fee, ApproveStore(fee) PROVE FALSE
  BY <1>6 DEF ApproveStore, ERC721Approve
<1>7. ASSUME NEW fee, NEW op \in {"transferFrom", "safeTransferFrom"}, TransferStore(op, fee)
      PROVE  tokenApprovals'[id] = Null
  BY <1>1, <1>7 DEF TransferStore, ERC721Transfer, ERC721TypeOK
<1> QED BY <1>2, <1>3, <1>4, <1>5, <1>6, <1>7, RegistrySteps DEF RegistryWritten

\* Whoever was approved for a nota, and whatever runs in between, no approval is left when
\* the nota gets another owner; only a revert brings one back, with its owner.
THEOREM ApprovalsAreEnded == Spec => ApprovalsEnd
<1>1. OwnershipInv /\ [Next]_vars => [\A id \in NotaIds : ApprovalEnds(id)]_vars
  BY StepEndsApproval
<1> QED BY <1>1, Ownership, PTL DEF Spec, ApprovalsEnd

\* The balance of an account always is the number of notas it owns, also after a transfer
\* to the account that has the nota already.
THEOREM BalancesRight == Spec => []BalancesCount
<1>1. OwnershipInv => BalancesCount
  BY PresentOwners, StorageFields DEF OwnedWell, CountsIn, Owned, BalancesCount
<1> QED BY <1>1, Ownership, PTL
\* An existing nota leaves its owner only by a burn or a transfer, whose caller was
\* entitled to it, or because the innermost function fails.
LEMMA StepAuthorised ==
    ASSUME OwnershipInv, [Next]_vars, NEW id \in NotaIds
    PROVE  MoveAuthorised(id)
<1> SUFFICES ASSUME Exists(id), owners'[id] # owners[id]
             PROVE  /\ frames # <<>>
                    /\ \/ owners'[id] = Top.saved.owners[id]
                       \/ /\ Top.id = id
                          /\ \/ Top.caller = owners[id]
                             \/ Top.caller = tokenApprovals[id]
                             \/ Top.caller \in Top.saved.operatorApprovals[owners[id]]
  BY DEF MoveAuthorised
<1>1. ERC721TypeOK
  BY PresentOwners DEF StorageOK
<1>2. ~RegistryKept
  BY DEF RegistryKept
<1>3. CASE RegistryRestored
  BY <1>3 DEF RegistryRestored
<1>4. ASSUME frames # <<>>, Top.op \in MoveOps, Top.pc # "receiver", Top.id = id
      PROVE  \/ Top.caller = owners[id]
             \/ Top.caller = tokenApprovals[id]
             \/ Top.caller \in Top.saved.operatorApprovals[owners[id]]
  <2>1. EntitledIn(Storage, Top)
    <3>1. Len(frames) \in Nat \ {0} /\ EntitledAll(Storage, frames, Len(frames))
      BY <1>4, PresentOwners DEF OwnedWell
    <3> QED BY <3>1 DEF EntitledAll, Top
  <2>2. Top.owner = owners[id]
    <3>1. CurrentIn(Storage, Top)
      BY <1>4, Innermost DEF OwnershipInv
    <3> QED BY <1>4, <3>1, StorageFields DEF CurrentIn, MoveOps, GuardedOps
  <2> QED BY <1>4, <2>1, <2>2, StorageFields DEF EntitledIn
<1>5. CASE WriteStore
  <2>1. owners[nextId] = Null /\ \A i \in NotaIds \ {nextId} : owners'[i] = owners[i]
    BY <1>1, <1>5 DEF WriteStore, ERC721Mint, Exists, ERC721TypeOK
  <2> QED BY <2>1 DEF Exists
<1>6. CASE BurnStore
  <2>1. /\ frames # <<>> /\ Top.op \in MoveOps /\ Top.pc # "receiver"
        /\ \A i \in NotaIds \ {Top.id} : owners'[i] = owners[i]
    BY <1>1, <1>6 DEF BurnStore, At, ERC721Burn, ERC721TypeOK, MoveOps
  <2> QED BY <1>4, <2>1
<1>7. ASSUME NEW fee, ApproveStore(fee) PROVE FALSE
  BY <1>7 DEF ApproveStore, ERC721Approve
<1>8. ASSUME NEW fee, NEW op \in {"transferFrom", "safeTransferFrom"}, TransferStore(op, fee)
      PROVE  Top.id = id /\ frames # <<>> /\ Top.op \in MoveOps /\ Top.pc # "receiver"
  BY <1>1, <1>8 DEF TransferStore, HookAnswers, At, ERC721Transfer, ERC721TypeOK, MoveOps
<1> QED BY <1>2, <1>3, <1>4, <1>5, <1>6, <1>7, <1>8, RegistrySteps DEF RegistryWritten

\* No one moves or deletes a nota without being entitled to it when the call was made and
\* when the nota goes, whatever runs in between.
THEOREM MovesAuthorised == Spec => MovesAreAuthorised
<1>1. OwnershipInv /\ [Next]_vars => [\A id \in NotaIds : MoveAuthorised(id)]_vars
  BY StepAuthorised
<1> QED BY <1>1, Ownership, PTL DEF Spec, MovesAreAuthorised

-----------------------------------------------------------------------------
(* What a storage becomes.                                                  *)

\* The storage s has become the storage r: its ids have kept to their lives and its
\* hooks to their earnings.
Evolved(s, r) == LifeKept(s, r) /\ EarningsKept(s, r)

\* What holds of every storage that waits, and of the present one.
HistoryInv ==
    /\ StructureInv
    /\ \A k \in 1 .. Len(frames) : Evolved(frames[k].saved, Level(Storage, frames, k))

\* A storage is what it has become.
LEMMA EvolvedSame ==
    ASSUME NEW s \in StorageType, NEW r, r.owners = s.owners, r.notas = s.notas,
           r.nextId = s.nextId, r.hookRevenue = s.hookRevenue,
           r.hookTotalRevenue = s.hookTotalRevenue
    PROVE  Evolved(s, r)
<1>1. LifeKept(s, r)
  <2>1. s.nextId \in Int
    BY NotaRegistrarAssumption DEF StorageType
  <2> QED BY <2>1 DEF LifeKept
<1>2. EarningsKept(s, r)
  <2>1. \A h \in HookContracts, t \in Tokens :
          s.hookRevenue[h][t] + s.hookTotalRevenue[h][t] \in Nat
    BY EVMAssumption DEF StorageType, Books, Uint
  <2> QED BY <2>1 DEF EarningsKept
<1> QED BY <1>1, <1>2 DEF Evolved

\* What has become of it in two steps has become of it.  That an id which is burnt in
\* between stays burnt needs the ids to be handed out in order.
LEMMA EvolvedOn ==
    ASSUME NEW r \in StorageType, NEW s \in StorageType, NEW u \in StorageType, AgreeIn(r),
           Evolved(r, s), Evolved(s, u)
    PROVE  Evolved(r, u)
<1>1. LifeKept(r, u)
  <2>1. /\ r.nextId \in Int /\ s.nextId \in Int /\ u.nextId \in Int
        /\ r.nextId <= s.nextId /\ s.nextId <= u.nextId /\ \A id \in NotaIds : id \in Int
    BY NotaRegistrarAssumption DEF StorageType, Evolved, LifeKept
  <2>2. ASSUME NEW id \in NotaIds, id < r.nextId, r.owners[id] = Null
        PROVE  u.owners[id] = Null
    BY <2>1, <2>2 DEF Evolved, LifeKept
  <2>3. ASSUME NEW id \in NotaIds, r.owners[id] # Null, u.owners[id] # Null
        PROVE  /\ u.notas[id].currency = r.notas[id].currency
               /\ u.notas[id].hooks = r.notas[id].hooks
    <3>1. id < r.nextId
      BY <2>1, <2>3 DEF AgreeIn
    <3>2. s.owners[id] # Null
      BY <2>1, <2>3, <3>1 DEF Evolved, LifeKept
    <3> QED BY <2>3, <3>2 DEF Evolved, LifeKept
  <2> QED BY <2>1, <2>2, <2>3 DEF LifeKept
<1>2. EarningsKept(r, u)
  <2>1. ASSUME NEW h \in HookContracts, NEW t \in Tokens
        PROVE  u.hookRevenue[h][t] + u.hookTotalRevenue[h][t]
                 >= r.hookRevenue[h][t] + r.hookTotalRevenue[h][t]
    <3>1. /\ r.hookRevenue[h][t] + r.hookTotalRevenue[h][t] \in Int
          /\ s.hookRevenue[h][t] + s.hookTotalRevenue[h][t] \in Int
          /\ u.hookRevenue[h][t] + u.hookTotalRevenue[h][t] \in Int
      BY EVMAssumption DEF StorageType, Books, Uint
    <3>2. /\ u.hookRevenue[h][t] + u.hookTotalRevenue[h][t]
               >= s.hookRevenue[h][t] + s.hookTotalRevenue[h][t]
          /\ s.hookRevenue[h][t] + s.hookTotalRevenue[h][t]
               >= r.hookRevenue[h][t] + r.hookTotalRevenue[h][t]
      BY DEF Evolved, EarningsKept
    <3> QED BY <3>1, <3>2
  <2> QED BY <2>1 DEF EarningsKept
<1> QED BY <1>1, <1>2 DEF Evolved

\* The present storage keeps to the lives of its ids when no id's terms change and none
\* is written or deleted.
LEMMA LifeOfTerms ==
    ASSUME StructureInv, UNCHANGED nextId,
           \A id \in NotaIds :
             /\ owners'[id] # Null <=> owners[id] # Null
             /\ notas'[id].currency = notas[id].currency
             /\ notas'[id].hooks = notas[id].hooks
    PROVE  LifeKept(Storage, Storage')
<1>1. nextId \in Int
  BY Present, NotaRegistrarAssumption DEF StorageOK
<1> QED BY <1>1, StorageFields, StorageFieldsNext DEF LifeKept

\* A changed escrow changes no terms.
LEMMA LifeOfEscrow ==
    ASSUME StructureInv, frames # <<>>, Top.op \in GuardedOps \ {"write"},
           Top.pc # "receiver", NEW e \in Uint,
           notas' = [notas EXCEPT ![Top.id].escrowed = e], UNCHANGED nextId,
           \A i \in NotaIds : owners'[i] # Null <=> owners[i] # Null
    PROVE  LifeKept(Storage, Storage')
<1>1. Top.id \in NotaIds /\ Exists(Top.id) /\ StorageOK /\ AgreeIn(Storage)
  BY NotaInProgress, Present
<1>2. /\ notas'[Top.id].currency = notas[Top.id].currency
      /\ notas'[Top.id].hooks = notas[Top.id].hooks
  BY <1>1, EscrowChange
<1>3. \A id \in NotaIds \ {Top.id} : notas'[id] = notas[id]
  BY <1>1 DEF StorageOK
<1> QED BY <1>2, <1>3, LifeOfTerms

\* The books keep what they hold.
LEMMA EarningsStay ==
    ASSUME StructureInv, UNCHANGED <<hookRevenue, hookTotalRevenue>>
    PROVE  EarningsKept(Storage, Storage')
<1>1. \A h \in HookContracts, t \in Tokens : hookRevenue[h][t] + hookTotalRevenue[h][t] \in Nat
  BY Present, EVMAssumption DEF StorageOK, GovTypeOK, Books, Uint
<1> QED BY <1>1, StorageFields, StorageFieldsNext DEF EarningsKept

\* A credit adds to one of them.
LEMMA EarningsCredited ==
    ASSUME StructureInv, NEW f, NEW fee \in Nat, f.hooks \in HookContracts,
           f.currency \in Tokens, CreditHook(f, fee)
    PROVE  EarningsKept(Storage, Storage')
<1>1. hookRevenue \in Books /\ hookTotalRevenue \in Books
  BY Present DEF StorageOK, GovTypeOK
<1>2. ASSUME NEW h \in HookContracts, NEW t \in Tokens
      PROVE  hookRevenue'[h][t] + hookTotalRevenue'[h][t]
               >= hookRevenue[h][t] + hookTotalRevenue[h][t]
  <2>1. hookRevenue[h][t] \in Nat /\ hookTotalRevenue[h][t] \in Nat
    BY <1>1, EVMAssumption DEF Books, Uint
  <2>2. hookRevenue'[h][t] = IF h = f.hooks /\ t = f.currency THEN hookRevenue[h][t] + fee
                             ELSE hookRevenue[h][t]
    BY <1>1 DEF CreditHook, Credit, Books
  <2> QED BY <2>1, <2>2 DEF CreditHook
<1> QED BY <1>2, StorageFields, StorageFieldsNext DEF EarningsKept

\* A withdrawal counts what it takes.
LEMMA EarningsWithdrawn ==
    ASSUME StructureInv, NEW h \in HookContracts, NEW t \in Tokens, NEW amount \in Uint,
           HookWithdrawBooks(h, t, amount)
    PROVE  EarningsKept(Storage, Storage')
<1>1. hookRevenue \in Books /\ hookTotalRevenue \in Books /\ amount \in Nat
  BY Present, EVMAssumption DEF StorageOK, GovTypeOK, Uint
<1>2. ASSUME NEW g \in HookContracts, NEW u \in Tokens
      PROVE  hookRevenue'[g][u] + hookTotalRevenue'[g][u]
               >= hookRevenue[g][u] + hookTotalRevenue[g][u]
  <2>1. hookRevenue[g][u] \in Nat /\ hookTotalRevenue[g][u] \in Nat
    BY <1>1, EVMAssumption DEF Books, Uint
  <2>2. /\ hookRevenue'[g][u] = IF g = h /\ u = t THEN hookRevenue[g][u] - amount
                                ELSE hookRevenue[g][u]
        /\ hookTotalRevenue'[g][u] = IF g = h /\ u = t THEN hookTotalRevenue[g][u] + amount
                                     ELSE hookTotalRevenue[g][u]
    BY <1>1 DEF HookWithdrawBooks, Books
  <2> QED BY <1>1, <2>1, <2>2
<1> QED BY <1>2, StorageFields, StorageFieldsNext DEF EarningsKept
-----------------------------------------------------------------------------
(* What a step makes of the present storage.                                *)

\* Nothing that counts here changes.
QuietStep == UNCHANGED <<owners, notas, nextId, hookRevenue, hookTotalRevenue>>

\* So the storage has become what it was.
LEMMA QuietEvolves ==
    ASSUME StructureInv, QuietStep
    PROVE  Evolved(Storage, Storage')
<1>1. Storage \in StorageType
  BY Present, StorageTyped
<1> QED BY <1>1, EvolvedSame, StorageFields, StorageFieldsNext DEF QuietStep

\* Functions start, and run without the guard.
LEMMA OthersEvolve ==
    ASSUME StructureInv, (\E caller : Call(caller)) \/ Unguarded
    PROVE  Evolved(Storage, Storage')
<1>1. ASSUME NEW caller, Call(caller) PROVE QuietStep
  BY <1>1, CallAsks DEF EnterGuarded, erc721Vars, govVars, QuietStep
<1>2. ASSUME NEW h \in HookContracts, NEW t \in Tokens, NEW amount \in GovAmounts, NEW to,
             HookWithdrawCall(h, t, amount, to)
      PROVE  Evolved(Storage, Storage')
  <2>1. EarningsKept(Storage, Storage')
    BY <1>2, GovAssumption, EarningsWithdrawn DEF HookWithdrawCall
  <2>2. UNCHANGED <<owners, notas, nextId>>
    BY <1>2 DEF HookWithdrawCall, AwaitPayment, erc721Vars
  <2>3. LifeKept(Storage, Storage')
    BY <2>2, LifeOfTerms
  <2> QED BY <2>1, <2>3 DEF Evolved
<1>3. /\ \A caller, t, amount, to : ProtocolWithdrawCall(caller, t, amount, to) => QuietStep
      /\ \A caller : AdministerCall(caller) => QuietStep
      /\ \A caller, operator, approved :
           SetApprovalForAllCall(caller, operator, approved) => QuietStep
      /\ \A t, caller : TokenCall(t, caller) => QuietStep
  BY DEF ProtocolWithdrawCall, ProtocolWithdrawBooks, AwaitPayment, AdministerCall, Administer,
     SetProtocolFee, TransferOwnership, RenounceOwnership, SetApprovalForAllCall,
     SetApprovalForAll, TokenCall, erc721Vars, govVars, QuietStep
<1> QED BY <1>1, <1>2, <1>3, QuietEvolves DEF Unguarded

\* The fee of approve, update and the transfers.
LEMMA FeeEvolves ==
    ASSUME StructureInv, NEW fee, NEW op \in GuardedOps \ {"write"}, HookAnswers(op, fee),
           TakeFee(Top, fee), UNCHANGED nextId,
           \A i \in NotaIds : owners'[i] # Null <=> owners[i] # Null
    PROVE  Evolved(Storage, Storage')
<1>1. /\ fee \in Uint /\ fee \in Nat /\ frames # <<>> /\ Top.op = op /\ Top.pc # "receiver"
      /\ Top.op \in GuardedOps \ {"write"}
  BY FeesAreWords, EVMAssumption DEF Uint
<1>2. EarningsKept(Storage, Storage')
  BY <1>1, NotaInProgress, EarningsCredited DEF TakeFee
<1>3. notas[Top.id].escrowed - fee \in Uint
  BY <1>1, NotaInProgress, EVMAssumption DEF TakeFee, DebitNota, Nota, Uint
<1>4. notas' = [notas EXCEPT ![Top.id].escrowed = notas[Top.id].escrowed - fee]
  BY <1>1, NotaInProgress DEF TakeFee, DebitNota
<1>5. LifeKept(Storage, Storage')
  BY <1>1, <1>3, <1>4, LifeOfEscrow
<1> QED BY <1>2, <1>5 DEF Evolved

\* A transfer leaves the nota in existence.
LEMMA TransferEvolves ==
    ASSUME StructureInv, NEW fee, NEW op \in {"transferFrom", "safeTransferFrom"},
           TransferStore(op, fee)
    PROVE  Evolved(Storage, Storage')
<1>1. /\ HookAnswers(op, fee) /\ TakeFee(Top, fee) /\ UNCHANGED nextId
      /\ op \in GuardedOps \ {"write"}
      /\ owners[Top.id] # Null /\ Top.to # Null /\ owners' = [owners EXCEPT ![Top.id] = Top.to]
  BY DEF TransferStore, ERC721Transfer, Exists, GuardedOps
<1>2. \A i \in NotaIds : owners'[i] # Null <=> owners[i] # Null
  BY <1>1, Present DEF StorageOK, ERC721TypeOK
<1> QED BY <1>1, <1>2, FeeEvolves

\* cash takes what it pays out of the escrow.
LEMMA CashEvolves ==
    ASSUME StructureInv, NEW fee, CashDebit(fee)
    PROVE  Evolved(Storage, Storage')
<1>1. /\ frames # <<>> /\ Top.op = "cash" /\ Top.pc = "hook"
      /\ Top.op \in GuardedOps \ {"write"} /\ Top.op \in GuardedOps
      /\ UNCHANGED <<owners, nextId, hookRevenue, hookTotalRevenue>>
  BY FeesAreWords DEF CashDebit, GuardedOps, erc721Vars, govVars
<1>2. Top.amount \in Uint
  BY <1>1, Innermost DEF FrameType
<1>3. notas[Top.id].escrowed - Top.amount \in Uint
  BY <1>1, <1>2, NotaInProgress, EVMAssumption DEF CashDebit, DebitNota, Nota, Uint
<1>4. notas' = [notas EXCEPT ![Top.id].escrowed = notas[Top.id].escrowed - Top.amount]
  BY <1>1, NotaInProgress DEF CashDebit, DebitNota
<1>5. LifeKept(Storage, Storage')
  BY <1>1, <1>3, <1>4, LifeOfEscrow
<1>6. EarningsKept(Storage, Storage')
  BY <1>1, EarningsStay
<1> QED BY <1>5, <1>6 DEF Evolved

\* fund adds to it.
LEMMA FundEvolves ==
    ASSUME StructureInv, FundStore
    PROVE  Evolved(Storage, Storage')
<1>1. /\ frames # <<>> /\ Top.op = "fund" /\ Top.pc = "store"
      /\ Top.op \in GuardedOps \ {"write"} /\ Top.op \in GuardedOps
      /\ UNCHANGED <<owners, nextId>> /\ CreditHook(Top, Top.fee)
  BY DEF FundStore, At, GuardedOps, erc721Vars
<1>2. Top.amount \in Uint /\ Top.fee \in Uint /\ Top.fee \in Nat
  BY <1>1, Innermost, EVMAssumption DEF FrameType, Uint
<1>3. notas[Top.id].escrowed + Top.amount \in Uint
  BY <1>1, <1>2, NotaInProgress, EVMAssumption DEF FundStore, Nota, Uint
<1>4. notas' = [notas EXCEPT ![Top.id].escrowed = notas[Top.id].escrowed + Top.amount]
  BY <1>1, NotaInProgress DEF FundStore
<1>5. LifeKept(Storage, Storage')
  BY <1>1, <1>3, <1>4, LifeOfEscrow
<1>6. EarningsKept(Storage, Storage')
  BY <1>1, <1>2, NotaInProgress, EarningsCredited
<1> QED BY <1>5, <1>6 DEF Evolved

\* The end of cash credits the fee.
LEMMA CreditEvolves ==
    ASSUME StructureInv, CashCredit
    PROVE  Evolved(Storage, Storage')
<1>1. /\ frames # <<>> /\ Top.op = "cash" /\ Top.pc = "credit"
      /\ Top.op \in GuardedOps \ {"write"} /\ Top.op \in GuardedOps
      /\ UNCHANGED <<owners, notas, nextId>> /\ CreditHook(Top, Top.fee)
  BY DEF CashCredit, At, GuardedOps, erc721Vars
<1>2. Top.fee \in Nat
  BY <1>1, Innermost, EVMAssumption DEF FrameType, Uint
<1>3. LifeKept(Storage, Storage')
  BY <1>1, LifeOfTerms
<1>4. EarningsKept(Storage, Storage')
  BY <1>1, <1>2, NotaInProgress, EarningsCredited
<1> QED BY <1>3, <1>4 DEF Evolved

\* write fills the next id.
LEMMA WriteEvolves ==
    ASSUME StructureInv, WriteStore
    PROVE  Evolved(Storage, Storage')
<1>1. /\ frames # <<>> /\ Top.op = "write" /\ Top.op \in GuardedOps
      /\ owners[nextId] = Null /\ owners' = [owners EXCEPT ![nextId] = Top.owner]
      /\ nextId' = nextId + 1 /\ CreditHook(Top, Top.fee)
      /\ \E n : notas' = [notas EXCEPT ![nextId] = n]
  BY DEF WriteStore, At, ERC721Mint, Exists, GuardedOps
<1>2. /\ Top.hooks \in HookContracts /\ Top.currency \in Tokens /\ Top.fee \in Nat
  BY <1>1, Innermost, EVMAssumption DEF Shape, FrameType, Uint
<1>3. /\ nextId \in Int /\ \A id \in NotaIds : id \in Int
      /\ \A id \in NotaIds \ {nextId} : owners'[id] = owners[id] /\ notas'[id] = notas[id]
  BY <1>1, Present, NotaRegistrarAssumption DEF StorageOK, ERC721TypeOK
<1>4. LifeKept(Storage, Storage')
  BY <1>1, <1>3, StorageFields, StorageFieldsNext DEF LifeKept
<1>5. EarningsKept(Storage, Storage')
  BY <1>1, <1>2, EarningsCredited
<1> QED BY <1>4, <1>5 DEF Evolved

\* burn ends the life of one, and its escrow becomes revenue.
LEMMA BurnEvolves ==
    ASSUME StructureInv, BurnStore
    PROVE  Evolved(Storage, Storage')
<1>1. /\ frames # <<>> /\ Top.op = "burn" /\ Top.pc = "burn" /\ Top.op \in GuardedOps
      /\ owners' = [owners EXCEPT ![Top.id] = Null] /\ UNCHANGED nextId
      /\ notas' = [notas EXCEPT ![Top.id] = EmptyNota]
      /\ CreditHook(Top, Top.escrowed) /\ Top.op \in GuardedOps \ {"write"}
  BY DEF BurnStore, At, ERC721Burn, GuardedOps
<1>2. Top.escrowed \in Nat
  BY <1>1, Innermost, EVMAssumption DEF FrameType, Uint
<1>3. /\ nextId \in Int /\ Top.id \in NotaIds /\ owners'[Top.id] = Null
      /\ \A id \in NotaIds \ {Top.id} : owners'[id] = owners[id] /\ notas'[id] = notas[id]
  BY <1>1, Present, NotaInProgress, NotaRegistrarAssumption DEF StorageOK, ERC721TypeOK
<1>4. LifeKept(Storage, Storage')
  BY <1>1, <1>3, StorageFields, StorageFieldsNext DEF LifeKept
<1>5. EarningsKept(Storage, Storage')
  BY <1>1, <1>2, NotaInProgress, EarningsCredited
<1> QED BY <1>4, <1>5 DEF Evolved

\* The storage becomes the one that the innermost function has found: it has failed, or
\* it is burn, and its hook has.
Restored ==
    /\ frames # <<>> /\ RestoreBut(Top.saved)
    /\ Revert \/ \E ok \in BOOLEAN : BurnAllowed(ok)

\* Every step lets the present storage go on, or brings back the one that the innermost
\* function has found.
LEMMA StepEvolves ==
    ASSUME StructureInv, [Next]_vars
    PROVE  \/ Evolved(Storage, Storage')
           \/ Restored
<1>1. /\ \A fee, op : AskForEscrow(op, fee) => QuietStep
      /\ \A op : PullEscrow(op) \/ PayInstant(op) \/ WithdrawPay(op) => QuietStep
      /\ CashPay \/ ReceiverAccepts => QuietStep
  BY DEF AskForEscrow, PullEscrow, PayInstant, WithdrawPay, CashPay, ReceiverAccepts,
     erc721Vars, govVars, QuietStep
<1>2. ASSUME NEW ok \in BOOLEAN, BurnAllowed(ok)
      PROVE  QuietStep \/ Restored
  <2>1. CASE ok = TRUE
    BY <1>2, <2>1 DEF BurnAllowed, erc721Vars, govVars, QuietStep
  <2>2. CASE ok = FALSE
    BY <1>2, <2>2 DEF BurnAllowed, At, Restored
  <2> QED BY <2>1, <2>2
<1>3. ASSUME NEW fee, ApproveStore(fee) \/ UpdateStore(fee) PROVE Evolved(Storage, Storage')
  <2>1. /\ \E op \in GuardedOps \ {"write"} : HookAnswers(op, fee)
        /\ TakeFee(Top, fee) /\ UNCHANGED <<owners, nextId>>
    BY <1>3 DEF ApproveStore, UpdateStore, ERC721Approve, GuardedOps, erc721Vars
  <2> QED BY <2>1, FeeEvolves
<1>4. Revert => Restored
  BY DEF Revert, Restored
<1>5. UNCHANGED vars => QuietStep
  BY DEF vars, erc721Vars, govVars, QuietStep
<1>6. ASSUME Proceed
      PROVE  \/ Evolved(Storage, Storage')
             \/ Restored
  <2>1. \A fee : CashDebit(fee) => Evolved(Storage, Storage')
    BY CashEvolves
  <2>2. \A fee : \A op \in {"transferFrom", "safeTransferFrom"} :
          TransferStore(op, fee) => Evolved(Storage, Storage')
    BY TransferEvolves
  <2>3. WriteStore \/ FundStore \/ CashCredit \/ BurnStore => Evolved(Storage, Storage')
    BY WriteEvolves, FundEvolves, CreditEvolves, BurnEvolves
  <2>4. QuietStep => Evolved(Storage, Storage')
    BY QuietEvolves
  <2>5. /\ \A fee, op : AskForEscrow(op, fee) => Evolved(Storage, Storage')
        /\ \A op : PullEscrow(op) \/ PayInstant(op) \/ WithdrawPay(op)
                     => Evolved(Storage, Storage')
        /\ CashPay \/ ReceiverAccepts => Evolved(Storage, Storage')
        /\ \A ok \in BOOLEAN :
             BurnAllowed(ok) => \/ Evolved(Storage, Storage')
                                \/ Restored
    BY <1>1, <1>2, <2>4, Zenon
  <2>6. \A fee : ApproveStore(fee) \/ UpdateStore(fee) => Evolved(Storage, Storage')
    BY <1>3
  <2> QED BY <1>6, <2>1, <2>2, <2>3, <2>5, <2>6, Zenon DEF Proceed
<1> QED BY <1>4, <1>5, <1>6, OthersEvolve, QuietEvolves DEF Next

-----------------------------------------------------------------------------
(* The history, and what follows from it.                                   *)

\* What the invariant says of the present storage and of the one below.
LEMMA PresentHistory ==
    ASSUME HistoryInv, frames # <<>>
    PROVE  /\ Len(frames) \in Nat \ {0} /\ Top = frames[Len(frames)]
           /\ Storage \in StorageType /\ Top.saved \in StorageType /\ AgreeIn(Top.saved)
           /\ Evolved(Top.saved, Storage)
           /\ Len(frames) # 1 =>
                /\ frames[Len(frames) - 1].saved \in StorageType
                /\ AgreeIn(frames[Len(frames) - 1].saved)
                /\ Evolved(frames[Len(frames) - 1].saved, Top.saved)
<1>1. /\ StructureInv /\ Len(frames) \in Nat \ {0} /\ Top = frames[Len(frames)]
      /\ Storage \in StorageType /\ Top.saved \in StorageType /\ AgreeIn(Top.saved)
  BY Present, Innermost, StorageTyped DEF HistoryInv, Sound
<1>2. Evolved(Top.saved, Storage)
  <2>1. Level(Storage, frames, Len(frames)) = Storage
    BY DEF Level
  <2> QED BY <1>1, <2>1 DEF HistoryInv
<1>3. ASSUME Len(frames) # 1
      PROVE  /\ frames[Len(frames) - 1].saved \in StorageType
             /\ AgreeIn(frames[Len(frames) - 1].saved)
             /\ Evolved(frames[Len(frames) - 1].saved, Top.saved)
  <2>1. /\ Len(frames) - 1 \in 1 .. Len(frames) /\ Len(frames) - 2 \in 0 .. Len(frames)
        /\ Len(frames) - 2 + 1 = Len(frames) - 1 /\ Len(frames) - 1 + 1 = Len(frames)
        /\ Len(frames) - 1 # Len(frames) /\ Len(frames) - 2 # Len(frames)
    BY <1>1, <1>3
  <2>2. /\ Level(Storage, frames, Len(frames) - 1) = Top.saved
        /\ Level(Storage, frames, Len(frames) - 2) = frames[Len(frames) - 1].saved
    BY <1>1, <2>1 DEF Level
  <2>3. Sound(frames[Len(frames) - 1].saved, frames, Len(frames) - 2)
    BY <1>1, <2>1, <2>2 DEF StructureInv, Levels
  <2> QED BY <2>1, <2>2, <2>3 DEF HistoryInv, Sound
<1> QED BY <1>1, <1>2, <1>3

\* While a function is in progress, every step goes on from the storage it has found.
LEMMA SavedEvolves ==
    ASSUME HistoryInv, [Next]_vars, frames # <<>>
    PROVE  Evolved(Top.saved, Storage')
<1>1. StructureInv /\ Storage' \in StorageType
  BY NextSound DEF HistoryInv, StructureInv, TypeOK
<1>2. CASE Evolved(Storage, Storage')
  BY <1>1, <1>2, PresentHistory, EvolvedOn
<1>3. CASE Restored
  BY <1>3, PresentHistory, EvolvedSame, StorageFieldsNext DEF Restored, RestoreBut
<1> QED BY <1>1, <1>2, <1>3, StepEvolves
\* A step leaves everything below the storage it changes as it is, and that one goes on
\* from the storage below it.
LEMMA UpperEvolves ==
    ASSUME HistoryInv, [Next]_vars
    PROVE  IF frames' = <<>> THEN Evolved(Committed, Storage')
           ELSE Evolved(frames'[Len(frames')].saved, Storage')
<1>1. /\ StructureInv /\ frames \in Seq(FrameType) /\ Len(frames) \in Nat
      /\ Storage' \in StorageType
  BY NextSound, Present DEF HistoryInv, StructureInv, TypeOK
<1>2. ASSUME NEW f, Starts(f)
      PROVE  frames' # <<>> /\ Evolved(frames'[Len(frames')].saved, Storage')
  <2>1. frames' # <<>> /\ Len(frames') = Len(frames) + 1 /\ frames'[Len(frames')] = f
    BY <1>1, <1>2 DEF Starts
  <2>2. ASSUME Restored PROVE FALSE
    <3>1. Len(frames) \in Nat \ {0}
      BY <1>1, <2>2 DEF Restored
    <3>2. CASE Revert
      BY <1>1, <2>1, <3>1, <3>2, Shorter DEF Revert, Leave
    <3>3. CASE \E ok \in BOOLEAN : BurnAllowed(ok)
      BY <1>1, <2>1, <3>1, <3>3 DEF BurnAllowed, Continue
    <3> QED BY <2>2, <3>2, <3>3 DEF Restored
  <2> QED BY <1>1, <1>2, <2>1, <2>2, StepEvolves DEF Starts
<1>3. CASE frames = <<>> /\ frames' = frames
  <2>1. Evolved(Storage, Storage')
    BY <1>1, <1>3, StepEvolves DEF Restored
  <2> QED BY <1>3, <2>1 DEF Committed
<1>4. ASSUME frames # <<>>, frames' = frames \/ \E f : GoesOn(f)
      PROVE  frames' # <<>> /\ Evolved(frames'[Len(frames')].saved, Storage')
  <2>1. frames' # <<>> /\ frames'[Len(frames')].saved = Top.saved
    BY <1>1, <1>4 DEF GoesOn, SameCall, Top
  <2> QED BY <1>4, <2>1, SavedEvolves
<1>5. ASSUME Ends, Len(frames) = 1 PROVE frames' = <<>> /\ Evolved(Committed, Storage')
  <2>1. frames' = <<>> /\ Committed = Top.saved /\ frames # <<>>
    BY <1>1, <1>5 DEF Ends, Committed, Top
  <2> QED BY <2>1, SavedEvolves
<1>6. ASSUME Ends, Len(frames) # 1
      PROVE  frames' # <<>> /\ Evolved(frames'[Len(frames')].saved, Storage')
  <2>1. /\ Len(frames') = Len(frames) - 1 /\ frames # <<>> /\ Len(frames) \in Nat \ {0}
        /\ \A k \in 1 .. Len(frames) - 1 : frames'[k] = frames[k]
    BY <1>1, <1>6, Shorter DEF Ends
  <2>2. frames' # <<>> /\ frames'[Len(frames')] = frames[Len(frames) - 1]
    BY <1>6, <2>1
  <2> QED BY <1>1, <1>6, <2>1, <2>2, PresentHistory, SavedEvolves, EvolvedOn
<1>7. \/ \E f : Starts(f)
      \/ frames = <<>> /\ frames' = frames
      \/ frames # <<>> /\ (frames' = frames \/ \E f : GoesOn(f))
      \/ Ends
  BY <1>1, StackMoves DEF GoesOn
<1> QED BY <1>2, <1>3, <1>4, <1>5, <1>6, <1>7

\* Every step keeps the history.
LEMMA HistoryKept ==
    ASSUME HistoryInv, [Next]_vars
    PROVE  HistoryInv'
<1>1. StructureInv /\ StructureInv'
  BY NextSound DEF HistoryInv
<1>2. Len(frames') \in Nat
  BY <1>1, LowerLevels
<1>3. ASSUME NEW k \in 1 .. Len(frames')
      PROVE  Evolved(frames'[k].saved, Level(Storage', frames', k))
  <2>1. CASE k = Len(frames')
    <3>1. Level(Storage', frames', k) = Storage' /\ frames' # <<>>
      BY <1>2, <2>1 DEF Level
    <3> QED BY <2>1, <3>1, UpperEvolves
  <2>2. CASE k # Len(frames')
    <3>1. k \in 0 .. Len(frames') - 1 /\ k \in 1 .. k
      BY <1>2, <2>2
    <3>2. /\ k \in 1 .. Len(frames) /\ frames'[k] = frames[k]
          /\ Level(Storage', frames', k) = Level(Storage, frames, k)
      BY <1>1, <3>1, LowerLevels DEF SamePrefix
    <3> QED BY <3>2 DEF HistoryInv
  <2> QED BY <2>1, <2>2
<1> QED BY <1>1, <1>3 DEF HistoryInv

\* What the chain keeps if the transaction fails changes only when it ends.
LEMMA CommittedEvolves ==
    ASSUME HistoryInv, [Next]_vars
    PROVE  Evolved(Committed, Committed')
<1>1. StructureInv /\ Len(frames) \in Nat /\ Len(frames') \in Nat /\ Storage \in StorageType
  BY LowerLevels, Present, StorageTyped DEF HistoryInv
<1>2. CASE frames' = <<>>
  BY <1>2, UpperEvolves DEF Committed
<1>3. CASE frames' # <<>>
  <2>1. /\ Level(Storage', frames', 0) = Level(Storage, frames, 0)
        /\ Level(Storage, frames, 0) \in StorageType
    <3>1. 0 \in 0 .. Len(frames') - 1 /\ 0 \in 0 .. Len(frames)
      <4>1. frames' \in Seq(FrameType)
        BY <1>1, LowerLevels
      <4> QED BY <1>1, <1>3, <4>1
    <3> QED BY <1>1, <3>1, LowerLevels DEF StructureInv, Levels, Sound
  <2>2. Committed = Level(Storage, frames, 0)
    BY Present, <1>1 DEF Level, Committed
  <2>3. Committed' = Level(Storage', frames', 0)
    BY <1>1, <1>3, LowerLevels DEF Level, Committed
  <2> QED BY <2>1, <2>2, <2>3, EvolvedSame
<1> QED BY <1>2, <1>3

\* Every storage has evolved from the one below it at all times.
THEOREM History == Spec => []HistoryInv
<1>1. Init => HistoryInv
  BY InitSound DEF Init, EVMInit, HistoryInv
<1>2. HistoryInv /\ [Next]_vars => HistoryInv'
  BY HistoryKept
<1> QED BY <1>1, <1>2, PTL DEF Spec

\* No transaction brings a burnt id back to life, changes the currency or the hook of a
\* nota that exists, or hands an id out again.
THEOREM LifeOfNotas == Spec => NotaLife
<1>1. HistoryInv /\ [Next]_vars => [LifeKept(Committed, Committed')]_vars
  BY CommittedEvolves DEF Evolved
<1> QED BY <1>1, History, PTL DEF Spec, NotaLife

\* No transaction takes back what an earlier one has credited to a hook.
THEOREM EarningsOnlyGrow == Spec => EarningsGrow
<1>1. HistoryInv /\ [Next]_vars => [EarningsKept(Committed, Committed')]_vars
  BY CommittedEvolves DEF Evolved
<1> QED BY <1>1, History, PTL DEF Spec, EarningsGrow
=============================================================================
