-------------------------- MODULE RefinementProofs -------------------------
(***************************************************************************)
(* The registrar implements NotaLedger, for every number of accounts,      *)
(* notas, hooks, currencies and nested calls: each step of the code is one *)
(* step of the ledger seen through the mapping, or none.                   *)
(*                                                                         *)
(* The mapping adds to what is stored what the functions in progress have  *)
(* taken and not yet booked (Held, Pending), summed over the stack.  A     *)
(* step changes the sums by what its own function holds before and after,  *)
(* and the calls of the ledger in one of four ways; both are shown once    *)
(* for all actions.  What is left for an action is to compare the entries  *)
(* of the storage and of the ledger.                                       *)
(***************************************************************************)
EXTENDS SolvencyProofs, RegistrarRefinement

\* The ledger, and what the functions in progress hold of a nota and owe of a currency.
Ldg == LedgerOf(Storage, frames, Len(frames))

Hold(fs, id) == SumFunctionOnSet(HeldAt(fs, Len(fs), id), 1 .. Len(fs))

Pend(fs, t) == SumFunctionOnSet(PendingAt(fs, Len(fs), t), 1 .. Len(fs))

\* The ledger the innermost call began with.
Began == LedgerOf(Top.saved, frames, Len(frames) - 1)

\* A ledger, entry by entry.
Entries(ns, nx, os, rv, pr, rs, fe, ow) ==
    [notas |-> ns, nextId |-> nx, operators |-> os, revenue |-> rv, protocol |-> pr,
     reserve |-> rs, fee |-> fe, owner |-> ow]

\* The entries of the ledger that are sums.
NotasNow == [id \in NotaIds |->
    [owner |-> owners[id], approved |-> tokenApprovals[id], currency |-> notas[id].currency,
     hooks |-> notas[id].hooks, escrow |-> notas[id].escrowed + Hold(frames, id)]]

ReserveNow == [t \in Tokens |-> balanceOf[t][Registrar] - Pend(frames, t)]

-----------------------------------------------------------------------------
(* What the functions in progress hold.                                     *)

\* A function holds tokens, and owes or is owed a number of them.
LEMMA HeldIsNat ==
    ASSUME NEW f \in FrameType, NEW x
    PROVE  Held(f, x) \in Nat /\ Pending(f, x) \in Int
<1>1. f.amount \in Nat /\ f.fee \in Nat
  BY EVMAssumption DEF FrameType, Uint
<1> QED BY <1>1 DEF Held, Pending

\* The sums over the first n + 1 functions of a stack.
LEMMA HoldStep ==
    ASSUME NEW fs, NEW n \in Nat, \A k \in 1 .. n + 1 : fs[k] \in FrameType, NEW x
    PROVE  /\ SumFunctionOnSet(HeldAt(fs, n, x), 1 .. n) \in Int
           /\ SumFunctionOnSet(HeldAt(fs, n + 1, x), 1 .. n + 1)
                = SumFunctionOnSet(HeldAt(fs, n, x), 1 .. n) + Held(fs[n + 1], x)
           /\ SumFunctionOnSet(PendingAt(fs, n, x), 1 .. n) \in Int
           /\ SumFunctionOnSet(PendingAt(fs, n + 1, x), 1 .. n + 1)
                = SumFunctionOnSet(PendingAt(fs, n, x), 1 .. n) + Pending(fs[n + 1], x)
<1> DEFINE f == HeldAt(fs, n, x)
           g == HeldAt(fs, n + 1, x)
           p == PendingAt(fs, n, x)
           q == PendingAt(fs, n + 1, x)
<1>1. /\ \A k \in 1 .. n + 1 : g[k] \in Int
      /\ \A k \in 1 .. n : f[k] = g[k]
      /\ g[n + 1] = Held(fs[n + 1], x)
  BY HeldIsNat DEF HeldAt
<1>2. /\ \A k \in 1 .. n + 1 : q[k] \in Int
      /\ \A k \in 1 .. n : p[k] = q[k]
      /\ q[n + 1] = Pending(fs[n + 1], x)
  BY HeldIsNat DEF PendingAt
<1> HIDE DEF f, g, p, q
<1>3. /\ SumFunctionOnSet(f, 1 .. n) \in Int
      /\ SumFunctionOnSet(g, 1 .. n + 1) = SumFunctionOnSet(f, 1 .. n) + g[n + 1]
  BY <1>1, SumLast
<1>4. /\ SumFunctionOnSet(p, 1 .. n) \in Int
      /\ SumFunctionOnSet(q, 1 .. n + 1) = SumFunctionOnSet(p, 1 .. n) + q[n + 1]
  BY <1>2, SumLast
<1> QED BY <1>1, <1>2, <1>3, <1>4 DEF f, g, p, q

\* A ledger depends on the first n functions only.
LEMMA LedgerPrefix ==
    ASSUME NEW s, NEW fs, NEW gs, NEW n, SamePrefix(fs, gs, n)
    PROVE  LedgerOf(s, fs, n) = LedgerOf(s, gs, n)
<1>1. \A x : HeldAt(fs, n, x) = HeldAt(gs, n, x) /\ PendingAt(fs, n, x) = PendingAt(gs, n, x)
  BY DEF HeldAt, PendingAt, SamePrefix
<1> QED BY <1>1 DEF LedgerOf, NotaIn, ReserveIn

\* One more function on the stack adds what it holds.
LEMMA HoldLonger ==
    ASSUME NEW fs \in Seq(FrameType), NEW gs \in Seq(FrameType), NEW x,
           Len(gs) = Len(fs) + 1, SamePrefix(fs, gs, Len(fs))
    PROVE  /\ Hold(fs, x) \in Int /\ Pend(fs, x) \in Int
           /\ Hold(gs, x) = Hold(fs, x) + Held(gs[Len(gs)], x)
           /\ Pend(gs, x) = Pend(fs, x) + Pending(gs[Len(gs)], x)
<1>1. Len(fs) \in Nat /\ \A k \in 1 .. Len(fs) + 1 : gs[k] \in FrameType
  OBVIOUS
<1>2. /\ HeldAt(fs, Len(fs), x) = HeldAt(gs, Len(fs), x)
      /\ PendingAt(fs, Len(fs), x) = PendingAt(gs, Len(fs), x)
  BY DEF HeldAt, PendingAt, SamePrefix
<1> QED BY <1>1, <1>2, HoldStep DEF Hold, Pend

\* The stack without the innermost function.
Outer(fs) == SubSeq(fs, 1, Len(fs) - 1)

LEMMA OuterStack ==
    ASSUME NEW fs \in Seq(FrameType), fs # <<>>
    PROVE  /\ Len(fs) \in Nat \ {0} /\ fs[Len(fs)] \in FrameType
           /\ Outer(fs) \in Seq(FrameType) /\ Len(Outer(fs)) = Len(fs) - 1
           /\ SamePrefix(Outer(fs), fs, Len(Outer(fs)))
<1>1. Len(fs) \in Nat \ {0}
  OBVIOUS
<1> QED BY <1>1, Shorter DEF SamePrefix, Outer

\* The stack with f for its innermost function.
LEMMA ReplacedStack ==
    ASSUME NEW fs \in Seq(FrameType), fs # <<>>, NEW f \in FrameType
    PROVE  LET gs == [fs EXCEPT ![Len(fs)] = f]
           IN  /\ gs \in Seq(FrameType) /\ Len(gs) = Len(fs) /\ gs[Len(gs)] = f
               /\ SamePrefix(Outer(fs), gs, Len(Outer(fs)))
<1>1. \A k \in 1 .. Len(fs) - 1 : Outer(fs)[k] = fs[k]
  BY OuterStack DEF SamePrefix
<1> QED BY <1>1, OuterStack DEF SamePrefix

\* The stack with one more function.
LEMMA LongerStack ==
    ASSUME NEW fs \in Seq(FrameType), NEW f \in FrameType
    PROVE  LET gs == Append(fs, f)
           IN  /\ gs \in Seq(FrameType) /\ Len(gs) = Len(fs) + 1 /\ gs[Len(gs)] = f
               /\ SamePrefix(fs, gs, Len(fs))
BY DEF SamePrefix

\* What the functions hold after one of them has started, gone on or ended.
LEMMA HoldMoves ==
    ASSUME NEW fs \in Seq(FrameType), NEW x
    PROVE  /\ Hold(fs, x) \in Int /\ Pend(fs, x) \in Int
           /\ \A f \in FrameType :
                /\ Hold(Append(fs, f), x) = Hold(fs, x) + Held(f, x)
                /\ Pend(Append(fs, f), x) = Pend(fs, x) + Pending(f, x)
           /\ fs # <<>> =>
                /\ Hold(Outer(fs), x) \in Int /\ Pend(Outer(fs), x) \in Int
                /\ Hold(fs, x) = Hold(Outer(fs), x) + Held(fs[Len(fs)], x)
                /\ Pend(fs, x) = Pend(Outer(fs), x) + Pending(fs[Len(fs)], x)
                /\ \A f \in FrameType :
                     /\ Hold([fs EXCEPT ![Len(fs)] = f], x) = Hold(Outer(fs), x) + Held(f, x)
                     /\ Pend([fs EXCEPT ![Len(fs)] = f], x) = Pend(Outer(fs), x) + Pending(f, x)
<1>1. ASSUME fs # <<>>
      PROVE  /\ Hold(Outer(fs), x) \in Int /\ Pend(Outer(fs), x) \in Int
             /\ Hold(fs, x) = Hold(Outer(fs), x) + Held(fs[Len(fs)], x)
             /\ Pend(fs, x) = Pend(Outer(fs), x) + Pending(fs[Len(fs)], x)
  <2>1. Outer(fs) \in Seq(FrameType) /\ Len(fs) = Len(Outer(fs)) + 1
    BY <1>1, OuterStack
  <2>2. SamePrefix(Outer(fs), fs, Len(Outer(fs)))
    BY <1>1, OuterStack
  <2> QED BY <2>1, <2>2, HoldLonger
<1>2. Hold(fs, x) \in Int /\ Pend(fs, x) \in Int
  <2>1. CASE fs = <<>>
    <3>1. Len(fs) = 0 /\ IsFiniteSet(1 .. 0) /\ 1 .. 0 = {}
      BY <2>1, FS_EmptySet
    <3> QED BY <3>1, ZeroSum DEF Hold, Pend
  <2>2. CASE fs # <<>>
    BY <1>1, <2>2, OuterStack, HeldIsNat
  <2> QED BY <2>1, <2>2
<1>3. ASSUME NEW f \in FrameType
      PROVE  /\ Hold(Append(fs, f), x) = Hold(fs, x) + Held(f, x)
             /\ Pend(Append(fs, f), x) = Pend(fs, x) + Pending(f, x)
  <2> DEFINE gs == Append(fs, f)
  <2>1. /\ gs \in Seq(FrameType) /\ Len(gs) = Len(fs) + 1 /\ gs[Len(gs)] = f
        /\ SamePrefix(fs, gs, Len(fs))
    BY LongerStack
  <2> HIDE DEF gs
  <2>2. /\ Hold(gs, x) = Hold(fs, x) + Held(f, x)
        /\ Pend(gs, x) = Pend(fs, x) + Pending(f, x)
    BY <2>1, HoldLonger
  <2> QED BY <2>2 DEF gs
<1>4. ASSUME fs # <<>>, NEW f \in FrameType
      PROVE  /\ Hold([fs EXCEPT ![Len(fs)] = f], x) = Hold(Outer(fs), x) + Held(f, x)
             /\ Pend([fs EXCEPT ![Len(fs)] = f], x) = Pend(Outer(fs), x) + Pending(f, x)
  <2> DEFINE gs == [fs EXCEPT ![Len(fs)] = f]
             hs == Outer(fs)
  <2>1. /\ gs \in Seq(FrameType) /\ Len(gs) = Len(fs) /\ gs[Len(gs)] = f
        /\ SamePrefix(hs, gs, Len(hs))
    BY <1>4, ReplacedStack
  <2>2. hs \in Seq(FrameType) /\ Len(fs) = Len(hs) + 1
    BY <1>4, OuterStack
  <2> HIDE DEF gs, hs
  <2>3. /\ Hold(gs, x) = Hold(hs, x) + Held(f, x)
        /\ Pend(gs, x) = Pend(hs, x) + Pending(f, x)
    BY <2>1, <2>2, HoldLonger
  <2> QED BY <2>3 DEF gs, hs
<1> QED BY <1>1, <1>2, <1>3, <1>4

-----------------------------------------------------------------------------
(* What the calls of the ledger are.                                        *)

\* The calls are a list, one for each function of the stack.
LEMMA CallsList ==
    ASSUME NEW fs \in Seq(FrameType)
    PROVE  /\ \E S : CallsOf(fs) \in Seq(S)
           /\ Len(CallsOf(fs)) = Len(fs)
           /\ \A k \in 1 .. Len(fs) :
                CallsOf(fs)[k] = CallOf(fs[k], LedgerOf(fs[k].saved, fs, k - 1))
<1> DEFINE c(k) == CallOf(fs[k], LedgerOf(fs[k].saved, fs, k - 1))
           S == {c(k) : k \in 1 .. Len(fs)}
<1>1. Len(fs) \in Nat /\ CallsOf(fs) = [k \in 1 .. Len(fs) |-> c(k)]
  BY DEF CallsOf
<1>2. \A k \in 1 .. Len(fs) : c(k) \in S
  OBVIOUS
<1> HIDE DEF c, S
<1>3. CallsOf(fs) \in [1 .. Len(fs) -> S]
  BY <1>1, <1>2
<1>4. CallsOf(fs) \in Seq(S)
  BY <1>1, <1>3, SeqDef
<1>5. Len(CallsOf(fs)) = Len(fs)
  BY <1>1, <1>3, <1>4, LenProperties
<1>6. \A k \in 1 .. Len(fs) : CallsOf(fs)[k] = c(k)
  BY <1>1
<1> QED BY <1>4, <1>5, <1>6 DEF c

\* The same calls are those of stacks that agree as long as they go.
LEMMA CallsPrefix ==
    ASSUME NEW fs \in Seq(FrameType), NEW gs \in Seq(FrameType), NEW n \in Nat,
           n <= Len(fs), n <= Len(gs), SamePrefix(fs, gs, n)
    PROVE  /\ \A k \in 1 .. n : CallsOf(fs)[k] = CallsOf(gs)[k]
           /\ \A s : LedgerOf(s, fs, n) = LedgerOf(s, gs, n)
<1>1. ASSUME NEW k \in 1 .. n PROVE CallsOf(fs)[k] = CallsOf(gs)[k]
  <2>1. k \in 1 .. Len(fs) /\ k \in 1 .. Len(gs) /\ fs[k] = gs[k] /\ SamePrefix(fs, gs, k - 1)
    BY DEF SamePrefix
  <2>2. LedgerOf(fs[k].saved, fs, k - 1) = LedgerOf(fs[k].saved, gs, k - 1)
    BY <2>1, LedgerPrefix
  <2> QED BY <2>1, <2>2, CallsList
<1> QED BY <1>1, LedgerPrefix

\* A list with one more element, and one element less.
LEMMA ListAppend ==
    ASSUME NEW S, NEW a \in Seq(S), NEW T, NEW b \in Seq(T), NEW e,
           Len(b) = Len(a) + 1, \A k \in 1 .. Len(a) : b[k] = a[k], b[Len(b)] = e
    PROVE  b = Append(a, e)
<1>1. a \in Seq(S \cup T) /\ b \in Seq(S \cup T)
  BY SeqMonotonic
<1>2. e \in T
  BY ElementOfSeq
<1> DEFINE c == Append(a, e)
<1>3. /\ c \in Seq(S \cup T) /\ Len(c) = Len(b)
      /\ \A k \in 1 .. Len(b) : b[k] = c[k]
  BY <1>1, <1>2
<1> HIDE DEF c
<1>4. b = c
  BY <1>1, <1>3, SeqEqual
<1> QED BY <1>4 DEF c

LEMMA ListCut ==
    ASSUME NEW S, NEW a \in Seq(S), NEW T, NEW b \in Seq(T),
           Len(b) + 1 = Len(a), \A k \in 1 .. Len(b) : b[k] = a[k]
    PROVE  b = SubSeq(a, 1, Len(a) - 1)
<1>1. a \in Seq(S \cup T) /\ b \in Seq(S \cup T) /\ Len(b) \in Nat
  BY SeqMonotonic
<1> DEFINE c == SubSeq(a, 1, Len(a) - 1)
<1>2. \A k \in 1 .. Len(a) - 1 : a[k] \in S \cup T
  BY <1>1
<1>3. /\ c \in Seq(S \cup T) /\ Len(c) = Len(b)
      /\ \A k \in 1 .. Len(b) : b[k] = c[k]
  BY <1>1, <1>2, SubSeqProperties
<1> HIDE DEF c
<1>4. b = c
  BY <1>1, <1>3, SeqEqual
<1> QED BY <1>4 DEF c

\* The calls of one more function.
LEMMA CallsLonger ==
    ASSUME NEW fs \in Seq(FrameType), NEW gs \in Seq(FrameType),
           Len(gs) = Len(fs) + 1, SamePrefix(fs, gs, Len(fs))
    PROVE  LET g == gs[Len(gs)]
           IN  CallsOf(gs) = Append(CallsOf(fs), CallOf(g, LedgerOf(g.saved, fs, Len(fs))))
<1> DEFINE a == CallsOf(fs)
           b == CallsOf(gs)
           e == CallOf(gs[Len(gs)], LedgerOf(gs[Len(gs)].saved, fs, Len(fs)))
<1>1. /\ \E S : a \in Seq(S)
      /\ \E T : b \in Seq(T)
      /\ Len(b) = Len(a) + 1 /\ Len(a) = Len(fs)
  BY CallsList
<1>2. \A k \in 1 .. Len(fs) : b[k] = a[k]
  BY CallsPrefix
<1>3. b[Len(b)] = e
  <2>1. Len(gs) \in 1 .. Len(gs) /\ Len(gs) - 1 = Len(fs) /\ Len(fs) \in Nat
    OBVIOUS
  <2>2. b[Len(gs)] = CallOf(gs[Len(gs)], LedgerOf(gs[Len(gs)].saved, gs, Len(fs)))
    BY <2>1, CallsList
  <2> QED BY <1>1, <2>1, <2>2, LedgerPrefix
<1> HIDE DEF a, b, e
<1>4. b = Append(a, e)
  BY <1>1, <1>2, <1>3, ListAppend
<1> QED BY <1>4 DEF a, b, e

\* The calls of the stack without the innermost function.
LEMMA CallsShorter ==
    ASSUME NEW fs \in Seq(FrameType), fs # <<>>
    PROVE  LET f == fs[Len(fs)]
           IN  /\ CallsOf(Outer(fs)) = SubSeq(CallsOf(fs), 1, Len(CallsOf(fs)) - 1)
               /\ CallsOf(fs) # <<>>
               /\ CallsOf(fs)[Len(CallsOf(fs))]
                    = CallOf(f, LedgerOf(f.saved, fs, Len(fs) - 1))
               /\ CallsOf(fs)
                    = Append(CallsOf(Outer(fs)), CallOf(f, LedgerOf(f.saved, fs, Len(fs) - 1)))
<1> DEFINE a == CallsOf(fs)
           b == CallsOf(Outer(fs))
           f == fs[Len(fs)]
<1>1. /\ Outer(fs) \in Seq(FrameType) /\ Len(fs) = Len(Outer(fs)) + 1
      /\ SamePrefix(Outer(fs), fs, Len(Outer(fs))) /\ Len(fs) \in Nat \ {0}
      /\ Len(Outer(fs)) = Len(fs) - 1
  BY OuterStack
<1>2. \A s : LedgerOf(s, Outer(fs), Len(fs) - 1) = LedgerOf(s, fs, Len(fs) - 1)
  BY <1>1, LedgerPrefix
<1>3. a = Append(b, CallOf(f, LedgerOf(f.saved, fs, Len(fs) - 1)))
  BY <1>1, <1>2, CallsLonger
<1>4. /\ \E S : a \in Seq(S)
      /\ \E T : b \in Seq(T)
      /\ Len(b) + 1 = Len(a) /\ Len(a) = Len(fs)
  BY <1>1, CallsList
<1>5. \A k \in 1 .. Len(b) : b[k] = a[k]
  BY <1>1, <1>4, CallsPrefix
<1>6. a[Len(a)] = CallOf(f, LedgerOf(f.saved, fs, Len(fs) - 1))
  BY <1>1, <1>4, CallsList
<1> HIDE DEF a, b, f
<1>7. b = SubSeq(a, 1, Len(a) - 1)
  BY <1>4, <1>5, ListCut
<1>8. a # <<>>
  BY <1>1, <1>4
<1> QED BY <1>3, <1>6, <1>7, <1>8 DEF a, b, f

\* Whether the function has done what it was called for and only waits to return.
Done(f) == f.pc \in {"receiver", "withdraw"}

\* The innermost call of the ledger is the innermost function.
LEMMA CallNow ==
    ASSUME StructureInv, frames # <<>>
    PROVE  /\ CallsOf(frames) # <<>>
           /\ NotaLedger!Call = CallOf(Top, Began)
           /\ NotaLedger!Outer = CallsOf(Outer(frames))
BY Present, CallsShorter DEF Top, Began, NotaLedger!Call, NotaLedger!Outer

\* A call begins when a function starts, with the ledger as it is.
LEMMA CallStarts ==
    ASSUME StructureInv, NEW f \in FrameType, f.saved = Storage, frames' = Append(frames, f)
    PROVE  CallsOf(frames') = Append(CallsOf(frames), CallOf(f, Ldg))
<1> DEFINE gs == Append(frames, f)
<1>1. /\ frames \in Seq(FrameType) /\ gs \in Seq(FrameType) /\ Len(gs) = Len(frames) + 1
      /\ gs[Len(gs)] = f /\ SamePrefix(frames, gs, Len(frames))
  BY Present, LongerStack
<1> HIDE DEF gs
<1>2. CallsOf(gs) = Append(CallsOf(frames), CallOf(f, LedgerOf(f.saved, frames, Len(frames))))
  BY <1>1, CallsLonger
<1> QED BY <1>2 DEF gs, Ldg

\* It stays the same while the function goes on, until it is done.
LEMMA CallGoesOn ==
    ASSUME StructureInv, frames # <<>>, NEW f \in FrameType, SameCall(f, Top),
           frames' = [frames EXCEPT ![Len(frames)] = f]
    PROVE  /\ CallsOf(frames') = Append(NotaLedger!Outer, CallOf(f, Began))
           /\ (Done(f) <=> Done(Top)) => CallsOf(frames') = CallsOf(frames)
<1> DEFINE gs == [frames EXCEPT ![Len(frames)] = f]
           hs == Outer(frames)
<1>1. /\ frames \in Seq(FrameType) /\ gs \in Seq(FrameType) /\ Len(gs) = Len(frames)
      /\ gs[Len(gs)] = f /\ SamePrefix(hs, gs, Len(hs))
  BY Present, ReplacedStack
<1>2. /\ hs \in Seq(FrameType) /\ Len(frames) = Len(hs) + 1 /\ Len(hs) = Len(frames) - 1
      /\ SamePrefix(hs, frames, Len(hs))
  BY Present, OuterStack
<1>3. LedgerOf(f.saved, hs, Len(hs)) = Began
  BY <1>2, LedgerPrefix DEF Began, SameCall
<1> HIDE DEF gs, hs
<1>4. CallsOf(gs) = Append(CallsOf(hs), CallOf(f, Began))
  BY <1>1, <1>2, <1>3, CallsLonger
<1>5. CallsOf(frames') = Append(NotaLedger!Outer, CallOf(f, Began))
  BY <1>4, CallNow DEF gs, hs
<1>6. ASSUME Done(f) <=> Done(Top) PROVE CallOf(f, Began) = CallOf(Top, Began)
  BY <1>6 DEF CallOf, Done, SameCall
<1>7. CallsOf(frames) = Append(CallsOf(hs), CallOf(Top, Began))
  BY Present, CallsShorter DEF hs, Top, Began
<1> QED BY <1>5, <1>6, <1>7, <1>4 DEF gs

\* It is gone when the function ends.
LEMMA CallEnds ==
    ASSUME StructureInv, Ends
    PROVE  CallsOf(frames') = NotaLedger!Outer
BY CallNow DEF Ends, Outer

-----------------------------------------------------------------------------
(* The ledger, entry by entry.                                              *)

\* The ledger is what is stored, with what the functions in progress hold.
LEMMA LedgerNow ==
    /\ Ldg = Entries(NotasNow, nextId, operatorApprovals, hookRevenue, protocolRevenue,
                     ReserveNow, protocolFee, govOwner)
    /\ Ldg' = Entries(NotasNow', nextId', operatorApprovals', hookRevenue', protocolRevenue',
                      ReserveNow', protocolFee', govOwner')
BY StorageFields, StorageFieldsNext
   DEF Ldg, LedgerOf, NotaIn, ReserveIn, Entries, NotasNow, ReserveNow, Hold, Pend

\* The entries of a ledger.
LEMMA EntriesRead ==
    ASSUME NEW ns, NEW nx, NEW os, NEW rv, NEW pr, NEW rs, NEW fe, NEW ow,
           NEW l, l = Entries(ns, nx, os, rv, pr, rs, fe, ow)
    PROVE  /\ l.notas = ns /\ l.nextId = nx /\ l.operators = os /\ l.revenue = rv
           /\ l.protocol = pr /\ l.reserve = rs /\ l.fee = fe /\ l.owner = ow
BY DEF Entries

\* What a step of the ledger does to an entry.
Put(ns, id, n) == [ns EXCEPT ![id] = n]

Funded(ns, id, amount) == [ns EXCEPT ![id].escrow = @ + amount]

Spent(ns, id, amount) == [ns EXCEPT ![id].escrow = @ - amount]

Passed(ns, id, to) == [ns EXCEPT ![id].owner = to, ![id].approved = Null]

Given(rs, t, x, y) == [rs EXCEPT ![t] = @ + x + y]

Taken(rs, t, x) == [rs EXCEPT ![t] = @ - x]

\* What the ledger promises to do, entry by entry.
LEMMA LedgerWrite ==
    ASSUME NEW ns, NEW nx, NEW os, NEW rv, NEW pr, NEW rs, NEW fe, NEW ow,
           NEW l, l = Entries(ns, nx, os, rv, pr, rs, fe, ow),
           NEW n, NEW fee
    PROVE  NotaLedger!WriteNota(l, n, fee)
             = Entries(Put(ns, nx, n), nx + 1, os, Credit(rv, n.hooks, n.currency, fee), pr,
                       Given(rs, n.currency, n.escrow, fee), fe, ow)
<1> DEFINE a == Put(ns, nx, n)
           b == Credit(rv, n.hooks, n.currency, fee)
           c == Given(rs, n.currency, n.escrow, fee)
           l1 == [l EXCEPT !.notas = a]
           l2 == [l1 EXCEPT !.nextId = nx + 1]
           l3 == [l2 EXCEPT !.revenue = b]
<1>1. NotaLedger!WriteNota(l, n, fee) = [l3 EXCEPT !.reserve = c]
  <2>1. l.notas = ns /\ l.nextId = nx /\ l.revenue = rv /\ l.reserve = rs
    BY EntriesRead
  <2> QED BY ONLY <2>1 DEF NotaLedger!WriteNota, Put, Credit, Given
<1>2. l1 = Entries(a, nx, os, rv, pr, rs, fe, ow)
  BY DEF Entries
<1> HIDE DEF a, b, c, l1
<1>3. l2 = Entries(a, nx + 1, os, rv, pr, rs, fe, ow)
  BY <1>2 DEF Entries
<1> HIDE DEF l2
<1>4. l3 = Entries(a, nx + 1, os, b, pr, rs, fe, ow)
  BY ONLY <1>3 DEF Entries, l3
<1> HIDE DEF l3
<1>5. [l3 EXCEPT !.reserve = c] = Entries(a, nx + 1, os, b, pr, c, fe, ow)
  BY ONLY <1>4 DEF Entries
<1> QED BY <1>1, <1>5 DEF a, b, c

LEMMA LedgerFund ==
    ASSUME NEW ns, NEW nx, NEW os, NEW rv, NEW pr, NEW rs, NEW fe, NEW ow,
           NEW l, l = Entries(ns, nx, os, rv, pr, rs, fe, ow),
           NEW id, NEW amount, NEW fee
    PROVE  NotaLedger!FundNota(l, id, amount, fee)
             = Entries(Funded(ns, id, amount), nx, os,
                       Credit(rv, ns[id].hooks, ns[id].currency, fee), pr,
                       Given(rs, ns[id].currency, amount, fee), fe, ow)
<1> DEFINE a == Funded(ns, id, amount)
           b == Credit(rv, ns[id].hooks, ns[id].currency, fee)
           c == Given(rs, ns[id].currency, amount, fee)
           l1 == [l EXCEPT !.notas = a]
           l2 == [l1 EXCEPT !.revenue = b]
<1>1. NotaLedger!FundNota(l, id, amount, fee) = [l2 EXCEPT !.reserve = c]
  <2>1. l.notas = ns /\ l.revenue = rv /\ l.reserve = rs
    BY EntriesRead
  <2> QED BY ONLY <2>1 DEF NotaLedger!FundNota, Funded, Credit, Given
<1>2. l1 = Entries(a, nx, os, rv, pr, rs, fe, ow)
  BY DEF Entries
<1> HIDE DEF a, b, c, l1
<1>3. l2 = Entries(a, nx, os, b, pr, rs, fe, ow)
  BY <1>2 DEF Entries
<1> HIDE DEF l2
<1>4. [l2 EXCEPT !.reserve = c] = Entries(a, nx, os, b, pr, c, fe, ow)
  BY ONLY <1>3 DEF Entries
<1> QED BY <1>1, <1>4 DEF a, b, c

LEMMA LedgerCash ==
    ASSUME NEW ns, NEW nx, NEW os, NEW rv, NEW pr, NEW rs, NEW fe, NEW ow,
           NEW l, l = Entries(ns, nx, os, rv, pr, rs, fe, ow),
           NEW id, NEW amount, NEW fee, NEW to
    PROVE  NotaLedger!CashNota(l, id, amount, fee, to)
             = Entries(Spent(ns, id, amount), nx, os,
                       Credit(rv, ns[id].hooks, ns[id].currency, fee), pr,
                       Taken(rs, ns[id].currency, NotaLedger!Paid(to, amount - fee)), fe, ow)
<1> DEFINE a == Spent(ns, id, amount)
           b == Credit(rv, ns[id].hooks, ns[id].currency, fee)
           c == Taken(rs, ns[id].currency, NotaLedger!Paid(to, amount - fee))
           l1 == [l EXCEPT !.notas = a]
           l2 == [l1 EXCEPT !.revenue = b]
<1>1. NotaLedger!CashNota(l, id, amount, fee, to) = [l2 EXCEPT !.reserve = c]
  <2>1. l.notas = ns /\ l.revenue = rv /\ l.reserve = rs
    BY EntriesRead
  <2> QED BY ONLY <2>1 DEF NotaLedger!CashNota, Spent, Credit, Taken
<1>2. l1 = Entries(a, nx, os, rv, pr, rs, fe, ow)
  BY DEF Entries
<1> HIDE DEF a, b, c, l1
<1>3. l2 = Entries(a, nx, os, b, pr, rs, fe, ow)
  BY <1>2 DEF Entries
<1> HIDE DEF l2
<1>4. [l2 EXCEPT !.reserve = c] = Entries(a, nx, os, b, pr, c, fe, ow)
  BY ONLY <1>3 DEF Entries
<1> QED BY <1>1, <1>4 DEF a, b, c

LEMMA LedgerFee ==
    ASSUME NEW ns, NEW nx, NEW os, NEW rv, NEW pr, NEW rs, NEW fe, NEW ow,
           NEW l, l = Entries(ns, nx, os, rv, pr, rs, fe, ow),
           NEW id, NEW fee
    PROVE  NotaLedger!ChargeFee(l, id, fee)
             = Entries(Spent(ns, id, fee), nx, os,
                       Credit(rv, ns[id].hooks, ns[id].currency, fee), pr, rs, fe, ow)
<1> DEFINE a == Spent(ns, id, fee)
           b == Credit(rv, ns[id].hooks, ns[id].currency, fee)
           l1 == [l EXCEPT !.notas = a]
<1>1. NotaLedger!ChargeFee(l, id, fee) = [l1 EXCEPT !.revenue = b]
  <2>1. l.notas = ns /\ l.revenue = rv
    BY EntriesRead
  <2> QED BY ONLY <2>1 DEF NotaLedger!ChargeFee, Spent, Credit
<1>2. l1 = Entries(a, nx, os, rv, pr, rs, fe, ow)
  BY DEF Entries
<1> HIDE DEF a, b, l1
<1>3. [l1 EXCEPT !.revenue = b] = Entries(a, nx, os, b, pr, rs, fe, ow)
  BY <1>2 DEF Entries
<1> QED BY <1>1, <1>3 DEF a, b

\* What else the ledger does to its notas and its earnings.
Replaced(l, id, x) == [l EXCEPT !.notas[id] = x]

ApprovedNow(ns, id, to) == [ns EXCEPT ![id].approved = to]

Approves(l, id, to) == [l EXCEPT !.notas[id].approved = to]

Moves(l, id, to) == [l EXCEPT !.notas[id].owner = to, !.notas[id].approved = Null]

Withdrawn(l, a, b, c) == [l EXCEPT !.revenue = a, !.protocol = b, !.reserve = c]

PaidOut(l, b, c) == [l EXCEPT !.protocol = b, !.reserve = c]

\* The notas of a ledger changed once more.
LEMMA LedgerNotas ==
    ASSUME NEW ns, NEW nx, NEW os, NEW rv, NEW pr, NEW rs, NEW fe, NEW ow,
           NEW l, l = Entries(ns, nx, os, rv, pr, rs, fe, ow),
           NEW id, NEW x
    PROVE  /\ Replaced(l, id, x) = Entries(Put(ns, id, x), nx, os, rv, pr, rs, fe, ow)
           /\ Approves(l, id, x) = Entries(ApprovedNow(ns, id, x), nx, os, rv, pr, rs, fe, ow)
           /\ Moves(l, id, x) = Entries(Passed(ns, id, x), nx, os, rv, pr, rs, fe, ow)
<1>1. Replaced(l, id, x) = Entries(Put(ns, id, x), nx, os, rv, pr, rs, fe, ow)
  BY DEF Entries, Put, Replaced
<1>2. Approves(l, id, x) = Entries(ApprovedNow(ns, id, x), nx, os, rv, pr, rs, fe, ow)
  BY DEF Entries, Approves, ApprovedNow
<1> DEFINE a == [ns EXCEPT ![id].owner = x]
           l1 == [l EXCEPT !.notas[id].owner = x]
<1>3. Moves(l, id, x) = [l1 EXCEPT !.notas[id].approved = Null]
  BY DEF Moves
<1>4. l1 = Entries(a, nx, os, rv, pr, rs, fe, ow)
  BY DEF Entries
<1>5. [a EXCEPT ![id].approved = Null] = Passed(ns, id, x)
  BY DEF Passed
<1> HIDE DEF a, l1
<1>6. [l1 EXCEPT !.notas[id].approved = Null]
        = Entries([a EXCEPT ![id].approved = Null], nx, os, rv, pr, rs, fe, ow)
  BY <1>4 DEF Entries
<1> QED BY <1>1, <1>2, <1>3, <1>5, <1>6

\* The entries a withdrawal changes.
LEMMA LedgerWithdraw ==
    ASSUME NEW ns, NEW nx, NEW os, NEW rv, NEW pr, NEW rs, NEW fe, NEW ow,
           NEW l, l = Entries(ns, nx, os, rv, pr, rs, fe, ow),
           NEW a, NEW b, NEW c
    PROVE  /\ Withdrawn(l, a, b, c) = Entries(ns, nx, os, a, b, c, fe, ow)
           /\ PaidOut(l, b, c) = Entries(ns, nx, os, rv, b, c, fe, ow)
<1>1. ASSUME NEW x, NEW m, m = Entries(ns, nx, os, x, pr, rs, fe, ow)
      PROVE  PaidOut(m, b, c) = Entries(ns, nx, os, x, b, c, fe, ow)
  <2> DEFINE m1 == [m EXCEPT !.protocol = b]
  <2>1. PaidOut(m, b, c) = [m1 EXCEPT !.reserve = c]
    BY DEF PaidOut
  <2>2. m1 = Entries(ns, nx, os, x, b, rs, fe, ow)
    BY <1>1 DEF Entries
  <2> HIDE DEF m1
  <2>3. [m1 EXCEPT !.reserve = c] = Entries(ns, nx, os, x, b, c, fe, ow)
    BY <2>2 DEF Entries
  <2> QED BY <2>1, <2>3
<1> DEFINE l1 == [l EXCEPT !.revenue = a]
<1>2. l1 = Entries(ns, nx, os, a, pr, rs, fe, ow)
  BY DEF Entries
<1>3. Withdrawn(l, a, b, c) = PaidOut(l1, b, c)
  BY DEF Withdrawn, PaidOut
<1> HIDE DEF l1
<1> QED BY <1>1, <1>2, <1>3

-----------------------------------------------------------------------------
(* What a step of the registrar does to the sums and to the calls.          *)

\* What the innermost function holds, and what is held after it has gone on or ended.
\* While a guarded function runs, no other holds anything of a nota.
LEMMA InnermostHolds ==
    ASSUME StructureInv, frames # <<>>, NEW x
    PROVE  /\ Hold(Outer(frames), x) \in Int /\ Pend(Outer(frames), x) \in Int
           /\ Hold(frames, x) = Hold(Outer(frames), x) + Held(Top, x)
           /\ Pend(frames, x) = Pend(Outer(frames), x) + Pending(Top, x)
           /\ Top.op \in GuardedOps => Hold(Outer(frames), x) = 0
           /\ Ends => /\ Hold(frames', x) = Hold(Outer(frames), x)
                      /\ Pend(frames', x) = Pend(Outer(frames), x)
           /\ \A f \in FrameType :
                frames' = [frames EXCEPT ![Len(frames)] = f] =>
                  /\ Hold(frames', x) = Hold(Outer(frames), x) + Held(f, x)
                  /\ Pend(frames', x) = Pend(Outer(frames), x) + Pending(f, x)
<1>1. frames \in Seq(FrameType) /\ Top = frames[Len(frames)]
  BY Present DEF Top
<1>2. ASSUME Top.op \in GuardedOps PROVE Hold(Outer(frames), x) = 0
  <2>1. /\ Outer(frames) \in Seq(FrameType) /\ Len(Outer(frames)) = Len(frames) - 1
        /\ SamePrefix(Outer(frames), frames, Len(Outer(frames)))
    BY <1>1, OuterStack
  <2> DEFINE gs == Outer(frames)
             h == HeldAt(gs, Len(gs), x)
  <2>2. ASSUME NEW k \in 1 .. Len(gs) PROVE h[k] = 0
    <3>1. k \in 1 .. Len(frames) - 1 /\ k \in 1 .. Len(frames) /\ gs[k] = frames[k]
      BY <1>1, <2>1 DEF SamePrefix
    <3>2. frames[k].op \notin GuardedOps /\ Shape(frames[k])
      BY <1>2, <3>1, Innermost, Present DEF Sound
    <3>3. frames[k].pc = "withdraw"
      BY <3>2 DEF Shape
    <3> QED BY <3>1, <3>3 DEF HeldAt, Held
  <2> HIDE DEF h
  <2>3. IsFiniteSet(1 .. Len(gs))
    <3>1. Len(gs) \in Int /\ 1 \in Int
      BY <2>1
    <3> QED BY <3>1, FS_Interval
  <2>4. SumFunctionOnSet(h, 1 .. Len(gs)) = 0
    BY <2>2, <2>3, ZeroSum
  <2> QED BY <2>4 DEF Hold, h
<1>3. /\ Hold(Outer(frames), x) \in Int /\ Pend(Outer(frames), x) \in Int
      /\ Hold(frames, x) = Hold(Outer(frames), x) + Held(Top, x)
      /\ Pend(frames, x) = Pend(Outer(frames), x) + Pending(Top, x)
  BY <1>1, HoldMoves
<1>4. ASSUME NEW f \in FrameType, frames' = [frames EXCEPT ![Len(frames)] = f]
      PROVE  /\ Hold(frames', x) = Hold(Outer(frames), x) + Held(f, x)
             /\ Pend(frames', x) = Pend(Outer(frames), x) + Pending(f, x)
  BY <1>1, <1>4, HoldMoves
<1>5. Ends => frames' = Outer(frames)
  BY DEF Ends, Outer
<1> QED BY <1>2, <1>3, <1>4, <1>5

\* The entries of a ledger are numbers.
LEMMA EntriesAreInt ==
    ASSUME StructureInv
    PROVE  /\ \A id \in NotaIds : notas[id].escrowed \in Nat /\ Hold(frames, id) \in Int
           /\ \A t \in Tokens : balanceOf[t][Registrar] \in Nat /\ Pend(frames, t) \in Int
           /\ \A h \in HookContracts, t \in Tokens : hookRevenue[h][t] \in Nat
           /\ \A t \in Tokens : protocolRevenue[t] \in Nat
           /\ protocolFee \in Nat
<1>1. Uint \subseteq Nat /\ Registrar \in Accounts
  BY EVMAssumption DEF Uint
<1>2. frames \in Seq(FrameType) /\ StorageOK
  BY Present
<1>3. \A x : Hold(frames, x) \in Int /\ Pend(frames, x) \in Int
  BY <1>2, HoldMoves
<1>4. ASSUME NEW id \in NotaIds PROVE notas[id].escrowed \in Nat
  <2>1. notas[id] \in Nota \/ notas[id] = EmptyNota
    BY <1>2 DEF StorageOK
  <2>2. EmptyNota.escrowed = 0 /\ \A n \in Nota : n.escrowed \in Nat
    BY <1>1 DEF Nota, EmptyNota
  <2> QED BY ONLY <2>1, <2>2
<1>5. \A t \in Tokens : balanceOf[t][Registrar] \in Nat
  BY <1>1, <1>2 DEF StorageOK, ERC20TypeOK, Ledger
<1>6. /\ \A h \in HookContracts, t \in Tokens : hookRevenue[h][t] \in Nat
      /\ \A t \in Tokens : protocolRevenue[t] \in Nat
      /\ protocolFee \in Nat
  BY <1>1, <1>2 DEF StorageOK, GovTypeOK, Books
<1> QED BY <1>3, <1>4, <1>5, <1>6

\* The same after a step.
LEMMA EntriesAreIntNext ==
    ASSUME StructureInv'
    PROVE  /\ \A id \in NotaIds : notas'[id].escrowed \in Nat /\ Hold(frames', id) \in Int
           /\ \A t \in Tokens : balanceOf'[t][Registrar] \in Nat /\ Pend(frames', t) \in Int
<1>1. Uint \subseteq Nat /\ Registrar \in Accounts
  BY EVMAssumption DEF Uint
<1>2. frames' \in Seq(FrameType) /\ StorageOK'
  BY StorageTypedNext DEF StructureInv, TypeOK
<1>3. \A x : Hold(frames', x) \in Int /\ Pend(frames', x) \in Int
  BY <1>2, HoldMoves
<1>4. ASSUME NEW id \in NotaIds PROVE notas'[id].escrowed \in Nat
  <2>1. notas'[id] \in Nota \/ notas'[id] = EmptyNota
    BY <1>2 DEF StorageOK
  <2>2. EmptyNota.escrowed = 0 /\ \A n \in Nota : n.escrowed \in Nat
    BY <1>1 DEF Nota, EmptyNota
  <2> QED BY ONLY <2>1, <2>2
<1>5. \A t \in Tokens : balanceOf'[t][Registrar] \in Nat
  BY <1>1, <1>2 DEF StorageOK, ERC20TypeOK, Ledger
<1> QED BY <1>3, <1>4, <1>5

\* Entries that stay the same.
LEMMA NotasSame ==
    ASSUME UNCHANGED <<owners, tokenApprovals>>,
           \A id \in NotaIds :
             /\ notas'[id].currency = notas[id].currency /\ notas'[id].hooks = notas[id].hooks
             /\ notas'[id].escrowed + Hold(frames', id) = notas[id].escrowed + Hold(frames, id)
    PROVE  NotasNow' = NotasNow
BY DEF NotasNow

LEMMA ReserveSame ==
    ASSUME \A t \in Tokens : balanceOf'[t][Registrar] - Pend(frames', t)
                               = balanceOf[t][Registrar] - Pend(frames, t)
    PROVE  ReserveNow' = ReserveNow
BY DEF ReserveNow

\* The ledger is the same when its entries are.
LEMMA LedgerSame ==
    ASSUME NotasNow' = NotasNow, ReserveNow' = ReserveNow,
           UNCHANGED <<nextId, operatorApprovals, hookRevenue, protocolRevenue, protocolFee,
                       govOwner>>
    PROVE  Ldg' = Ldg
BY LedgerNow

\* Nothing has happened in the ledger.
LEMMA NothingHappens ==
    ASSUME Ldg' = Ldg, CallsOf(frames') = CallsOf(frames)
    PROVE  UNCHANGED NotaLedger!vars
BY DEF NotaLedger!vars, Ldg

\* Nothing happens when the innermost function goes on and what it holds makes up for
\* what it moves.
LEMMA GoesOnQuietly ==
    ASSUME StructureInv, StructureInv', frames # <<>>, NEW f \in FrameType, SameCall(f, Top),
           Continue(f), ~Done(f), ~Done(Top),
           UNCHANGED <<erc721Vars, hookRevenue, protocolRevenue, protocolFee, govOwner, nextId>>,
           \A id \in NotaIds :
             /\ notas'[id].currency = notas[id].currency /\ notas'[id].hooks = notas[id].hooks
             /\ notas'[id].escrowed + Held(f, id) = notas[id].escrowed + Held(Top, id),
           \A t \in Tokens : balanceOf'[t][Registrar] - Pending(f, t)
                               = balanceOf[t][Registrar] - Pending(Top, t)
    PROVE  UNCHANGED NotaLedger!vars
<1>1. frames' = [frames EXCEPT ![Len(frames)] = f]
  BY DEF Continue
<1>2. CallsOf(frames') = CallsOf(frames)
  BY <1>1, CallGoesOn
<1>3. \A x : /\ Hold(Outer(frames), x) \in Int /\ Pend(Outer(frames), x) \in Int
             /\ Hold(frames, x) = Hold(Outer(frames), x) + Held(Top, x)
             /\ Pend(frames, x) = Pend(Outer(frames), x) + Pending(Top, x)
             /\ Hold(frames', x) = Hold(Outer(frames), x) + Held(f, x)
             /\ Pend(frames', x) = Pend(Outer(frames), x) + Pending(f, x)
             /\ Held(Top, x) \in Nat /\ Held(f, x) \in Nat
             /\ Pending(Top, x) \in Int /\ Pending(f, x) \in Int
  BY <1>1, InnermostHolds, Innermost, HeldIsNat
<1>4. NotasNow' = NotasNow
  <2>1. ASSUME NEW id \in NotaIds
        PROVE  notas'[id].escrowed + Hold(frames', id) = notas[id].escrowed + Hold(frames, id)
    <3>1. notas[id].escrowed \in Nat /\ notas'[id].escrowed \in Nat
      BY EntriesAreInt, EntriesAreIntNext
    <3>2. notas'[id].escrowed + Held(f, id) = notas[id].escrowed + Held(Top, id)
      OBVIOUS
    <3> QED BY ONLY <1>3, <3>1, <3>2
  <2> QED BY <2>1, NotasSame DEF erc721Vars
<1>5. ReserveNow' = ReserveNow
  <2>1. ASSUME NEW t \in Tokens
        PROVE  balanceOf'[t][Registrar] - Pend(frames', t)
                 = balanceOf[t][Registrar] - Pend(frames, t)
    <3>1. balanceOf[t][Registrar] \in Nat /\ balanceOf'[t][Registrar] \in Nat
      BY EntriesAreInt, EntriesAreIntNext
    <3>2. balanceOf'[t][Registrar] - Pending(f, t) = balanceOf[t][Registrar] - Pending(Top, t)
      OBVIOUS
    <3> QED BY ONLY <1>3, <3>1, <3>2
  <2> QED BY <2>1, ReserveSame
<1> QED BY <1>2, <1>4, <1>5, LedgerSame, NothingHappens DEF erc721Vars

-----------------------------------------------------------------------------
(* The steps of the registrar that are none of the ledger.                  *)

\* A function that goes on is the same call.
LEMMA StillSameCall ==
    ASSUME NEW g \in FrameType, NEW pc \in Pcs
    PROVE  /\ LET f == [g EXCEPT !.pc = pc]
              IN  /\ f \in FrameType /\ SameCall(f, g)
                  /\ f.pc = pc /\ f.fee = g.fee /\ f.currency = g.currency
           /\ \A fee \in Uint : LET f == [g EXCEPT !.pc = pc, !.fee = fee]
                                IN  /\ f \in FrameType /\ SameCall(f, g)
                                    /\ f.pc = pc /\ f.fee = fee /\ f.currency = g.currency
<1>1. [g EXCEPT !.pc = pc] \in FrameType
  BY FrameMoves
<1>2. \A fee \in Uint : [g EXCEPT !.pc = pc, !.fee = fee] \in FrameType
  BY FrameGoesOn
<1> QED BY <1>1, <1>2 DEF FrameType, SameCall

\* write and fund ask for the escrow.
LEMMA AskForEscrowQuiet ==
    ASSUME StructureInv, StructureInv', NEW op, NEW fee, AskForEscrow(op, fee)
    PROVE  UNCHANGED NotaLedger!vars
<1> DEFINE f == [Top EXCEPT !.pc = "pull", !.fee = fee]
<1>1. fee \in Uint /\ frames # <<>> /\ Top.pc = "hook" /\ Continue(f)
      /\ UNCHANGED <<erc20Vars, erc721Vars, govVars, notas, nextId>>
  BY FeesAreWords DEF AskForEscrow
<1>2. f \in FrameType /\ SameCall(f, Top) /\ f.pc = "pull"
  <2>1. Top \in FrameType /\ "pull" \in Pcs
    BY <1>1, Innermost DEF Pcs
  <2> QED BY <1>1, <2>1, StillSameCall
<1> HIDE DEF f
<1>3. ~Done(f) /\ ~Done(Top) /\ \A x : /\ Held(f, x) = 0 /\ Held(Top, x) = 0
                                       /\ Pending(f, x) = 0 /\ Pending(Top, x) = 0
  BY <1>1, <1>2 DEF Done, Held, Pending
<1>4. UNCHANGED <<erc721Vars, hookRevenue, protocolRevenue, protocolFee, govOwner, nextId>>
      /\ UNCHANGED <<balanceOf, notas>>
  BY <1>1 DEF erc20Vars, govVars
<1>5. \A id \in NotaIds :
             /\ notas'[id].currency = notas[id].currency /\ notas'[id].hooks = notas[id].hooks
             /\ notas'[id].escrowed + Held(f, id) = notas[id].escrowed + Held(Top, id)
  BY <1>3, <1>4
<1>6. \A t \in Tokens : balanceOf'[t][Registrar] - Pending(f, t)
                          = balanceOf[t][Registrar] - Pending(Top, t)
  BY <1>3, <1>4
<1> QED BY <1>1, <1>2, <1>3, <1>4, <1>5, <1>6, GoesOnQuietly

\* The escrow and the fee have arrived and are not booked.
LEMMA PullEscrowQuiet ==
    ASSUME StructureInv, StructureInv', \A t \in Tokens : MoneyInv(t),
           NEW op \in {"write", "fund"}, PullEscrow(op)
    PROVE  UNCHANGED NotaLedger!vars
<1> DEFINE f == [Top EXCEPT !.pc = "instant"]
<1>1. frames # <<>> /\ Top.op = op /\ Top.pc = "pull" /\ Continue(f)
      /\ UNCHANGED <<erc721Vars, govVars, notas, nextId>>
      /\ CallerPays(Top, Registrar, Top.amount + Top.fee)
  BY DEF PullEscrow, At
<1>2. Top \in FrameType /\ Top.caller # Registrar /\ Top.amount + Top.fee \in Uint
  <2>1. Top \in FrameType /\ Shape(Top) /\ Top.op \in GuardedOps
    BY <1>1, Innermost DEF GuardedOps
  <2> QED BY <1>1, <2>1, EVMAssumption DEF Shape, FrameType, Uint
<1>3. f \in FrameType /\ SameCall(f, Top) /\ f.pc = "instant" /\ f.fee = Top.fee
      /\ f.currency = Top.currency
  <2>1. "instant" \in Pcs
    BY DEF Pcs
  <2> QED BY <1>2, <2>1, StillSameCall
<1> HIDE DEF f
<1>4. ~Done(f) /\ ~Done(Top) /\ \A x : Held(f, x) = 0 /\ Held(Top, x) = 0
  BY <1>1, <1>3 DEF Done, Held
<1>5. ASSUME NEW t \in Tokens
      PROVE  balanceOf'[t][Registrar] - Pending(f, t) = balanceOf[t][Registrar] - Pending(Top, t)
  <2> DEFINE paid == Top.amount + Top.fee
  <2>1. Pending(Top, t) = 0 /\ Pending(f, t) = (IF Top.currency = t THEN paid ELSE 0)
    BY <1>1, <1>3 DEF Pending, SameCall
  <2>2. /\ balanceOf[t][Registrar] \in Nat
        /\ balanceOf'[t][Registrar]
             = balanceOf[t][Registrar] + (IF Top.currency = t THEN paid ELSE 0)
    BY <1>1, <1>2, EVMAssumption, CallerPaysMoney DEF MaybeAccount
  <2>3. paid \in Nat
    BY <1>2, EVMAssumption DEF Uint
  <2> HIDE DEF paid
  <2> QED BY ONLY <2>1, <2>2, <2>3
<1>6. UNCHANGED <<erc721Vars, hookRevenue, protocolRevenue, protocolFee, govOwner, nextId>>
      /\ UNCHANGED notas
  BY <1>1 DEF govVars
<1>7. \A id \in NotaIds :
             /\ notas'[id].currency = notas[id].currency /\ notas'[id].hooks = notas[id].hooks
             /\ notas'[id].escrowed + Held(f, id) = notas[id].escrowed + Held(Top, id)
  BY <1>4, <1>6
<1> QED BY <1>1, <1>3, <1>4, <1>5, <1>6, <1>7, GoesOnQuietly

\* cash has taken the amount out of the escrow and has not paid it.
LEMMA CashDebitQuiet ==
    ASSUME StructureInv, StructureInv', NEW fee, CashDebit(fee)
    PROVE  UNCHANGED NotaLedger!vars
<1> DEFINE f == [Top EXCEPT !.pc = "pay", !.fee = fee]
<1>1. fee \in Uint /\ frames # <<>> /\ Top.op \in GuardedOps \ {"write"} /\ Top.pc = "hook"
      /\ Continue(f) /\ DebitNota(Top.id, Top.amount)
      /\ UNCHANGED <<erc20Vars, erc721Vars, govVars, nextId>>
  BY FeesAreWords DEF CashDebit, HookAnswers, GuardedOps
<1>2. Top \in FrameType /\ Top.amount \in Nat
  BY <1>1, Innermost, EVMAssumption DEF FrameType, Uint
<1>3. f \in FrameType /\ SameCall(f, Top) /\ f.pc = "pay"
  <2>1. Top \in FrameType /\ fee \in Uint /\ "pay" \in Pcs
    BY <1>1, <1>2 DEF Pcs
  <2> QED BY <2>1, StillSameCall
<1> HIDE DEF f
<1>4. /\ ~Done(f) /\ ~Done(Top)
      /\ \A x : /\ Held(f, x) = (IF Top.id = x THEN Top.amount ELSE 0) /\ Held(Top, x) = 0
                /\ Pending(f, x) = 0 /\ Pending(Top, x) = 0
  BY <1>1, <1>3 DEF Done, Held, Pending, SameCall
<1>5. /\ Top.id \in NotaIds /\ notas[Top.id] \in Nota /\ notas \in [NotaIds -> Nota \cup {EmptyNota}]
  BY <1>1, NotaInProgress, Present DEF StorageOK
<1>6. notas' = [notas EXCEPT ![Top.id].escrowed = notas[Top.id].escrowed - Top.amount]
  BY <1>1 DEF DebitNota
<1>7. ASSUME NEW id \in NotaIds
      PROVE  /\ notas'[id].currency = notas[id].currency /\ notas'[id].hooks = notas[id].hooks
             /\ notas'[id].escrowed + Held(f, id) = notas[id].escrowed + Held(Top, id)
  <2>1. CASE id = Top.id
    <3>1. notas[id].escrowed \in Nat
      BY <1>5, <2>1, EVMAssumption DEF Nota, Uint
    <3>2. notas'[id] = [notas[id] EXCEPT !.escrowed = notas[id].escrowed - Top.amount]
      BY <1>5, <1>6, <2>1
    <3>3. /\ notas'[id].currency = notas[id].currency /\ notas'[id].hooks = notas[id].hooks
          /\ notas'[id].escrowed = notas[id].escrowed - Top.amount
      BY <1>5, <2>1, <3>2 DEF Nota
    <3> QED BY <1>2, <1>4, <2>1, <3>1, <3>3
  <2>2. CASE id # Top.id
    <3>1. notas'[id] = notas[id]
      BY <1>5, <1>6, <2>2
    <3> QED BY <1>4, <2>2, <3>1
  <2> QED BY <2>1, <2>2
<1>8. UNCHANGED <<erc721Vars, hookRevenue, protocolRevenue, protocolFee, govOwner, nextId>>
      /\ UNCHANGED balanceOf
  BY <1>1 DEF govVars, erc20Vars
<1>9. \A t \in Tokens : balanceOf'[t][Registrar] - Pending(f, t)
                          = balanceOf[t][Registrar] - Pending(Top, t)
  BY <1>4, <1>8
<1> QED BY <1>1, <1>3, <1>4, <1>7, <1>8, <1>9, GoesOnQuietly

\* cash has paid the recipient and has not booked the fee.
LEMMA CashPayQuiet ==
    ASSUME StructureInv, StructureInv', \A t \in Tokens : MoneyInv(t), CashPay
    PROVE  UNCHANGED NotaLedger!vars
<1> DEFINE f == [Top EXCEPT !.pc = "credit"]
           paid == Top.amount - Top.fee
<1>1. frames # <<>> /\ Top.pc = "pay" /\ Continue(f)
      /\ UNCHANGED <<erc721Vars, govVars, notas, nextId>>
  BY DEF CashPay, At
<1>2. /\ Top \in FrameType /\ Top.amount \in Uint /\ Top.fee \in Uint /\ Top.fee <= Top.amount
      /\ Top.currency \in Tokens /\ Top.to \in MaybeAccount
  BY <1>1, Innermost DEF Shape, FrameType
<1>3. f \in FrameType /\ SameCall(f, Top) /\ f.pc = "credit" /\ f.fee = Top.fee
      /\ f.currency = Top.currency
  <2>1. "credit" \in Pcs
    BY DEF Pcs
  <2> QED BY <1>2, <2>1, StillSameCall
<1> HIDE DEF f
<1>4. paid \in Uint /\ Top.amount \in Nat /\ Top.fee \in Nat
  BY <1>2, EVMAssumption DEF Uint
<1>5. MoveTokens(Top.currency, Registrar, Top.to, paid) \/ (paid = 0 /\ UNCHANGED balanceOf)
  <2>1. CASE paid > 0
    BY <2>1 DEF CashPay, TokenTransfer
  <2>2. CASE ~(paid > 0)
    <3>1. paid = 0
      BY <1>4, <2>2, EVMAssumption DEF Uint
    <3> QED BY <2>2, <3>1 DEF CashPay, erc20Vars
  <2> QED BY <2>1, <2>2
<1>6. /\ ~Done(f) /\ ~Done(Top) /\ \A x : Held(f, x) = Held(Top, x)
      /\ \A t : Pending(Top, t) = 0
      /\ \A t : Pending(f, t) = (IF Top.currency = t /\ Top.to # Registrar THEN Top.fee - Top.amount
                                 ELSE 0)
  BY <1>1, <1>3 DEF Done, Held, Pending, SameCall
<1>7. ASSUME NEW t \in Tokens
      PROVE  balanceOf'[t][Registrar] - Pending(f, t) = balanceOf[t][Registrar] - Pending(Top, t)
  <2>0. MoneyInv(t)
    OBVIOUS
  <2> HIDE DEF paid
  <2>1. /\ balanceOf[t][Registrar] \in Nat /\ balanceOf'[t][Registrar] \in Nat
        /\ Top.to # Registrar =>
             balanceOf'[t][Registrar]
               = balanceOf[t][Registrar] - (IF Top.currency = t THEN paid ELSE 0)
        /\ Top.to = Registrar => balanceOf'[t][Registrar] = balanceOf[t][Registrar]
    BY <1>2, <1>4, <1>5, <2>0, RegistrarPaysMoney
  <2>2. /\ Pending(Top, t) = 0
        /\ Pending(f, t) = (IF Top.currency = t /\ Top.to # Registrar THEN Top.fee - Top.amount
                            ELSE 0)
    BY <1>6
  <2>3. paid = Top.amount - Top.fee
    BY DEF paid
  <2> QED BY ONLY <1>4, <2>1, <2>2, <2>3
<1>8. UNCHANGED <<erc721Vars, hookRevenue, protocolRevenue, protocolFee, govOwner, nextId>>
      /\ UNCHANGED notas
  BY <1>1 DEF govVars
<1>9. \A id \in NotaIds :
             /\ notas'[id].currency = notas[id].currency /\ notas'[id].hooks = notas[id].hooks
             /\ notas'[id].escrowed + Held(f, id) = notas[id].escrowed + Held(Top, id)
  BY <1>6, <1>8
<1> QED BY <1>1, <1>3, <1>6, <1>7, <1>8, <1>9, GoesOnQuietly

\* An account may pay the registrar at any time; nothing else a step changes by itself.
LEMMA Gift ==
    ASSUME StructureInv, StructureInv', CallsOf(frames') = CallsOf(frames),
           NEW u \in Tokens, NEW amount \in Gifts \cup Instants,
           NotasNow' = NotasNow,
           UNCHANGED <<nextId, operatorApprovals, hookRevenue, protocolRevenue, protocolFee,
                       govOwner>>,
           \A t \in Tokens : ReserveNow'[t] = ReserveNow[t] + (IF t = u THEN amount ELSE 0)
    PROVE  NotaLedger!Immediate
<1>1. ReserveNow' = [ReserveNow EXCEPT ![u] = @ + amount]
  <2> DEFINE r == ReserveNow
             p == ReserveNow'
  <2>1. \A t \in Tokens : r[t] \in Int
    BY EntriesAreInt DEF ReserveNow
  <2>2. r = [t \in Tokens |-> r[t]] /\ p = [t \in Tokens |-> p[t]]
    BY DEF ReserveNow
  <2>3. \A t \in Tokens : p[t] = r[t] + (IF t = u THEN amount ELSE 0)
    OBVIOUS
  <2> HIDE DEF r, p
  <2>4. p = [r EXCEPT ![u] = @ + amount]
    BY ONLY <2>1, <2>2, <2>3
  <2> QED BY <2>4 DEF r, p
<1> DEFINE l == Ldg
           ll == Ldg'
<1>2. l = Entries(NotasNow, nextId, operatorApprovals, hookRevenue, protocolRevenue,
                  ReserveNow, protocolFee, govOwner)
  BY LedgerNow
<1>3. ll = Entries(NotasNow, nextId, operatorApprovals, hookRevenue, protocolRevenue,
                   [ReserveNow EXCEPT ![u] = @ + amount], protocolFee, govOwner)
  BY <1>1, LedgerNow
<1>4. l = Ldg /\ ll = Ldg'
  OBVIOUS
<1> HIDE DEF l, ll
<1>5. ll = [l EXCEPT !.reserve[u] = @ + amount]
  BY ONLY <1>2, <1>3 DEF Entries
<1> QED BY <1>4, <1>5 DEF NotaLedger!Immediate, Ldg

\* The instant payment is paid to the owner of the nota, who may be the registrar.
LEMMA PayInstantStep ==
    ASSUME StructureInv, StructureInv', \A t \in Tokens : MoneyInv(t),
           NEW op \in {"write", "fund"}, PayInstant(op), Asked(Top)
    PROVE  NotaLedger!Immediate \/ UNCHANGED NotaLedger!vars
<1> DEFINE f == [Top EXCEPT !.pc = "store"]
<1>1. frames # <<>> /\ Top.op = op /\ Top.pc = "instant" /\ Continue(f)
      /\ UNCHANGED <<erc721Vars, govVars, notas, nextId>>
      /\ CallerPays(Top, Top.owner, Top.instant)
  BY DEF PayInstant, At
<1>2. /\ Top \in FrameType /\ Top.caller # Registrar /\ Top.instant \in Uint
      /\ Top.owner \in MaybeAccount /\ Top.currency \in Tokens /\ Top.instant \in Instants
      /\ Top.amount \in Nat /\ Top.fee \in Nat
  <2>1. Top \in FrameType /\ Shape(Top) /\ Top.op \in GuardedOps
    BY <1>1, Innermost DEF GuardedOps
  <2> QED BY <1>1, <2>1, EVMAssumption DEF Shape, FrameType, Asked, Uint
<1>3. f \in FrameType /\ SameCall(f, Top) /\ f.pc = "store" /\ f.fee = Top.fee
      /\ f.currency = Top.currency
  <2>1. "store" \in Pcs
    BY DEF Pcs
  <2> QED BY <1>2, <2>1, StillSameCall
<1> HIDE DEF f
<1>4. /\ ~Done(f) /\ ~Done(Top)
      /\ \A x : /\ Held(f, x) = 0 /\ Held(Top, x) = 0
                /\ Pending(f, x) = Pending(Top, x) /\ Pending(f, x) \in Int
  BY <1>1, <1>2, <1>3 DEF Done, Held, Pending, SameCall
<1>5. UNCHANGED <<erc721Vars, hookRevenue, protocolRevenue, protocolFee, govOwner, nextId>>
      /\ UNCHANGED notas
  BY <1>1 DEF govVars
<1>6. \A id \in NotaIds :
             /\ notas'[id].currency = notas[id].currency /\ notas'[id].hooks = notas[id].hooks
             /\ notas'[id].escrowed + Held(f, id) = notas[id].escrowed + Held(Top, id)
  BY <1>4, <1>5
<1>7. ASSUME NEW t \in Tokens
      PROVE  /\ balanceOf[t][Registrar] \in Nat /\ balanceOf'[t][Registrar] \in Nat
             /\ Top.owner # Registrar => balanceOf'[t][Registrar] = balanceOf[t][Registrar]
             /\ Top.owner = Registrar =>
                  balanceOf'[t][Registrar]
                    = balanceOf[t][Registrar] + (IF Top.currency = t THEN Top.instant ELSE 0)
  <2>1. MoneyInv(t)
    OBVIOUS
  <2> QED BY <1>1, <1>2, <2>1, CallerPaysMoney
<1>8. CASE Top.owner # Registrar
  <2>1. \A t \in Tokens : balanceOf'[t][Registrar] - Pending(f, t)
                            = balanceOf[t][Registrar] - Pending(Top, t)
    BY <1>4, <1>7, <1>8
  <2> QED BY <1>1, <1>3, <1>4, <1>5, <1>6, <2>1, GoesOnQuietly
<1>9. CASE Top.owner = Registrar
  <2>1. frames' = [frames EXCEPT ![Len(frames)] = f]
    BY <1>1 DEF Continue
  <2>2. CallsOf(frames') = CallsOf(frames)
    BY <1>1, <1>3, <1>4, <2>1, CallGoesOn
  <2>3. \A x : /\ Hold(frames', x) = Hold(frames, x) /\ Pend(frames', x) = Pend(frames, x)
               /\ Pend(frames, x) \in Int
    <3>1. ASSUME NEW x
          PROVE  /\ Hold(frames, x) = Hold(Outer(frames), x) + Held(Top, x)
                 /\ Pend(frames, x) = Pend(Outer(frames), x) + Pending(Top, x)
                 /\ Hold(frames', x) = Hold(Outer(frames), x) + Held(f, x)
                 /\ Pend(frames', x) = Pend(Outer(frames), x) + Pending(f, x)
                 /\ Pend(Outer(frames), x) \in Int
      BY <1>1, <1>3, <2>1, InnermostHolds
    <3> QED BY <1>4, <3>1
  <2>4. NotasNow' = NotasNow
    <3>1. \A id \in NotaIds :
             /\ notas'[id].currency = notas[id].currency /\ notas'[id].hooks = notas[id].hooks
             /\ notas'[id].escrowed + Hold(frames', id) = notas[id].escrowed + Hold(frames, id)
      BY <1>5, <2>3
    <3> QED BY <1>5, <3>1, NotasSame DEF erc721Vars
  <2>5. \A t \in Tokens : ReserveNow'[t]
                            = ReserveNow[t] + (IF t = Top.currency THEN Top.instant ELSE 0)
    <3>1. ASSUME NEW t \in Tokens
          PROVE  /\ ReserveNow'[t] = balanceOf'[t][Registrar] - Pend(frames', t)
                 /\ ReserveNow[t] = balanceOf[t][Registrar] - Pend(frames, t)
      BY DEF ReserveNow
    <3>2. Top.instant \in Nat
      BY <1>2, EVMAssumption DEF Uint
    <3> QED BY <1>7, <1>9, <2>3, <3>1, <3>2
  <2>6. NotaLedger!Immediate
    BY <1>2, <1>5, <2>2, <2>4, <2>5, Gift DEF erc721Vars
  <2> QED BY <2>6
<1> QED BY <1>8, <1>9

\* The stack stays, and so do the notas.
LEMMA StackStays ==
    ASSUME frames' = frames
    PROVE  /\ CallsOf(frames') = CallsOf(frames)
           /\ \A x : Hold(frames', x) = Hold(frames, x) /\ Pend(frames', x) = Pend(frames, x)
           /\ UNCHANGED <<owners, tokenApprovals, notas>> => NotasNow' = NotasNow
           /\ UNCHANGED balanceOf => ReserveNow' = ReserveNow
BY DEF NotasNow, ReserveNow

\* What accounts do in a currency without the registrar is nothing to the ledger, unless
\* they pay the registrar.
LEMMA TokenCallStep ==
    ASSUME StructureInv, StructureInv', \A t \in Tokens : MoneyInv(t),
           NEW u \in Tokens, NEW caller \in Callers, TokenCall(u, caller)
    PROVE  NotaLedger!Immediate \/ UNCHANGED NotaLedger!vars
<1>1. /\ frames' = frames /\ UNCHANGED <<erc721Vars, govVars, notas, nextId>>
      /\ caller \in Accounts /\ caller # Registrar
      /\ Recipients \subseteq MaybeAccount /\ Gifts \subseteq Uint
  BY NotaRegistrarAssumption DEF TokenCall, Run
<1>2. /\ CallsOf(frames') = CallsOf(frames) /\ NotasNow' = NotasNow
      /\ \A x : Pend(frames', x) = Pend(frames, x)
      /\ UNCHANGED balanceOf => ReserveNow' = ReserveNow
      /\ UNCHANGED <<nextId, operatorApprovals, hookRevenue, protocolRevenue, protocolFee,
                     govOwner>>
  BY <1>1, StackStays DEF erc721Vars, govVars
<1>3. ASSUME NEW amount \in Grants, TokenApprove(u, caller, amount)
      PROVE  UNCHANGED NotaLedger!vars
  BY <1>2, <1>3, LedgerSame, NothingHappens DEF TokenApprove
<1>4. ASSUME NEW amount \in Gifts, NEW to \in Recipients, TokenTransfer(u, caller, to, amount)
      PROVE  NotaLedger!Immediate \/ UNCHANGED NotaLedger!vars
  <2>1. ASSUME NEW t \in Tokens
        PROVE  /\ balanceOf'[t][Registrar] \in Nat /\ balanceOf[t][Registrar] \in Nat
               /\ t # u => balanceOf'[t][Registrar] = balanceOf[t][Registrar]
               /\ to # Registrar => balanceOf'[t][Registrar] = balanceOf[t][Registrar]
               /\ t = u /\ to = Registrar =>
                    balanceOf'[t][Registrar] = balanceOf[t][Registrar] + amount
               /\ Pend(frames, t) \in Int
    <3>1. MoneyInv(t)
      OBVIOUS
    <3>2. StorageOK /\ Conserved(Storage, t)
      BY <3>1, Present, Covered
    <3>3. MoveTokens(u, caller, to, amount)
      BY <1>4 DEF TokenTransfer
    <3> QED BY <1>1, <3>2, <3>3, MoveTokensMoney, EntriesAreInt
  <2>2. amount \in Nat
    BY <1>1, EVMAssumption DEF Uint
  <2>3. \A t \in Tokens : /\ ReserveNow'[t] = balanceOf'[t][Registrar] - Pend(frames, t)
                          /\ ReserveNow[t] = balanceOf[t][Registrar] - Pend(frames, t)
    BY <1>2 DEF ReserveNow
  <2>4. CASE to = Registrar
    <3>1. \A t \in Tokens : ReserveNow'[t] = ReserveNow[t] + (IF t = u THEN amount ELSE 0)
      BY <2>1, <2>2, <2>3, <2>4
    <3> QED BY <1>2, <3>1, Gift
  <2>5. CASE to # Registrar
    <3>1. ReserveNow' = ReserveNow
      BY <1>2, <2>1, <2>5, ReserveSame
    <3> QED BY <1>2, <3>1, LedgerSame, NothingHappens
  <2> QED BY <2>4, <2>5
<1> QED BY <1>3, <1>4 DEF TokenCall

-----------------------------------------------------------------------------
(* The functions that are not guarded.                                      *)

\* What the owner administers and whom an account makes its operator.
LEMMA AdministerStep ==
    ASSUME StructureInv, NEW caller \in GovOwners, AdministerCall(caller)
    PROVE  NotaLedger!Immediate
<1>1. /\ frames' = frames
      /\ UNCHANGED <<erc20Vars, erc721Vars, notas, nextId, hookRevenue, protocolRevenue>>
      /\ govOwner # Null
  BY GovAssumption, EVMAssumption DEF AdministerCall, Run, Administer, SetProtocolFee,
     TransferOwnership, RenounceOwnership
<1>2. /\ CallsOf(frames') = CallsOf(frames) /\ NotasNow' = NotasNow /\ ReserveNow' = ReserveNow
      /\ UNCHANGED <<nextId, operatorApprovals, hookRevenue, protocolRevenue>>
  BY <1>1, StackStays DEF erc721Vars, erc20Vars
<1>3. \/ \E fee \in ProtocolFees : fee <= MAX_PROTOCOL_FEE /\ protocolFee' = fee
                                   /\ govOwner' = govOwner
      \/ \E o \in GovOwners \cup {Null} : govOwner' = o /\ protocolFee' = protocolFee
  BY DEF AdministerCall, Administer, SetProtocolFee, TransferOwnership, RenounceOwnership
<1> DEFINE l == Ldg
           ll == Ldg'
<1>4. /\ l = Entries(NotasNow, nextId, operatorApprovals, hookRevenue, protocolRevenue,
                     ReserveNow, protocolFee, govOwner)
      /\ ll = Entries(NotasNow, nextId, operatorApprovals, hookRevenue, protocolRevenue,
                      ReserveNow, protocolFee', govOwner')
  BY <1>2, LedgerNow
<1>5. l = Ldg /\ ll = Ldg'
  OBVIOUS
<1> HIDE DEF l, ll
<1>6. l.owner = govOwner
  BY <1>4 DEF Entries
<1>7. ASSUME NEW fee, protocolFee' = fee, govOwner' = govOwner PROVE ll = [l EXCEPT !.fee = fee]
  BY ONLY <1>4, <1>7 DEF Entries
<1>8. ASSUME NEW o, govOwner' = o, protocolFee' = protocolFee PROVE ll = [l EXCEPT !.owner = o]
  BY ONLY <1>4, <1>8 DEF Entries
<1>9. /\ l.owner # Null
      /\ \/ \E fee \in ProtocolFees : fee <= MAX_PROTOCOL_FEE /\ ll = [l EXCEPT !.fee = fee]
         \/ \E o \in GovOwners \cup {Null} : ll = [l EXCEPT !.owner = o]
  BY <1>1, <1>3, <1>6, <1>7, <1>8
<1> QED BY <1>2, <1>5, <1>9 DEF NotaLedger!Immediate, Ldg

LEMMA SetApprovalForAllStep ==
    ASSUME StructureInv, NEW caller \in Callers, NEW operator \in Operators,
           NEW approved \in BOOLEAN, SetApprovalForAllCall(caller, operator, approved)
    PROVE  NotaLedger!Immediate
<1>1. /\ frames' = frames
      /\ UNCHANGED <<erc20Vars, govVars, notas, nextId, owners, tokenApprovals>>
      /\ operatorApprovals' =
           [operatorApprovals EXCEPT ![caller] = IF approved THEN @ \cup {operator}
                                                 ELSE @ \ {operator}]
  BY DEF SetApprovalForAllCall, SetApprovalForAll, Run
<1>2. /\ CallsOf(frames') = CallsOf(frames) /\ NotasNow' = NotasNow /\ ReserveNow' = ReserveNow
      /\ UNCHANGED <<nextId, hookRevenue, protocolRevenue, protocolFee, govOwner>>
  BY <1>1, StackStays DEF govVars, erc20Vars
<1> DEFINE l == Ldg
           ll == Ldg'
<1>3. /\ l = Entries(NotasNow, nextId, operatorApprovals, hookRevenue, protocolRevenue,
                     ReserveNow, protocolFee, govOwner)
      /\ ll = Entries(NotasNow, nextId, operatorApprovals', hookRevenue, protocolRevenue,
                      ReserveNow, protocolFee, govOwner)
  BY <1>2, LedgerNow
<1>4. l = Ldg /\ ll = Ldg'
  OBVIOUS
<1> HIDE DEF l, ll
<1>5. ASSUME approved PROVE ll = [l EXCEPT !.operators[caller] = @ \cup {operator}]
  <2>1. operatorApprovals' = [operatorApprovals EXCEPT ![caller] = @ \cup {operator}]
    BY <1>1, <1>5
  <2>2. ll = [l EXCEPT !.operators[caller] = @ \cup {operator}]
    BY ONLY <1>3, <2>1 DEF Entries
  <2> QED BY <2>2
<1>6. ASSUME ~approved PROVE ll = [l EXCEPT !.operators[caller] = @ \ {operator}]
  <2>1. operatorApprovals' = [operatorApprovals EXCEPT ![caller] = @ \ {operator}]
    BY <1>1, <1>6
  <2>2. ll = [l EXCEPT !.operators[caller] = @ \ {operator}]
    BY ONLY <1>3, <2>1 DEF Entries
  <2> QED BY <2>2
<1>7. \E a \in Callers, o \in Operators :
        \/ ll = [l EXCEPT !.operators[a] = @ \cup {o}]
        \/ ll = [l EXCEPT !.operators[a] = @ \ {o}]
  <2>1. approved \/ ~approved
    OBVIOUS
  <2> QED BY <1>5, <1>6, <2>1
<1> QED BY <1>2, <1>4, <1>7 DEF NotaLedger!Immediate, Ldg

\* A withdrawal begins, and the reserve no longer has what it will pay.
LEMMA AwaitStep ==
    ASSUME StructureInv, StructureInv', NEW op, NEW caller, NEW t, NEW amount, NEW to,
           AwaitPayment(op, caller, t, amount, to), amount \in Int
    PROVE  /\ CallsOf(frames') = Append(CallsOf(frames), [op |-> "done", caller |-> caller,
                                                          id |-> 0, before |-> Ldg])
           /\ NotasNow' = NotasNow
           /\ ReserveNow' = Taken(ReserveNow, t, NotaLedger!Paid(to, amount))
           /\ UNCHANGED <<nextId, operatorApprovals>>
<1> DEFINE f == [op |-> op, pc |-> "withdraw", caller |-> caller, id |-> 0,
                 from |-> Null, to |-> to, amount |-> amount, instant |-> 0, fee |-> 0,
                 currency |-> t, hooks |-> Null, escrowed |-> 0, owner |-> Null,
                 saved |-> Storage]
<1>1. /\ f.pc = "withdraw" /\ f.amount = amount /\ f.currency = t /\ f.saved = Storage
      /\ f.caller = caller /\ f.id = 0 /\ f.to = to
  OBVIOUS
<1>2. frames' = Append(frames, f) /\ UNCHANGED <<erc20Vars, erc721Vars, notas, nextId>>
  BY DEF AwaitPayment, Enter
<1> HIDE DEF f
<1>3. f \in FrameType /\ frames \in Seq(FrameType)
  <2>1. frames' \in Seq(FrameType)
    BY DEF StructureInv, TypeOK
  <2>2. Len(frames) \in Nat /\ frames \in Seq(FrameType)
    BY Present
  <2> QED BY <1>2, <2>1, <2>2
<1>4. CallOf(f, Ldg) = [op |-> "done", caller |-> caller, id |-> 0, before |-> Ldg]
  BY <1>1 DEF CallOf
<1>5. CallsOf(frames') = Append(CallsOf(frames), CallOf(f, Ldg))
  BY <1>1, <1>2, <1>3, CallStarts
<1>6. \A x : /\ Hold(frames', x) = Hold(frames, x) + Held(f, x)
             /\ Pend(frames', x) = Pend(frames, x) + Pending(f, x)
             /\ Hold(frames, x) \in Int /\ Pend(frames, x) \in Int
  BY <1>2, <1>3, HoldMoves
<1>7. \A x : /\ Held(f, x) = 0
             /\ Pending(f, x) = (IF x = t THEN NotaLedger!Paid(to, amount) ELSE 0)
  BY <1>1 DEF Held, Pending, NotaLedger!Paid
<1>8. NotasNow' = NotasNow
  <2>1. \A id \in NotaIds : notas'[id].escrowed + Hold(frames', id)
                              = notas[id].escrowed + Hold(frames, id)
    BY <1>2, <1>6, <1>7
  <2> QED BY <1>2, <2>1, NotasSame DEF erc721Vars
<1>9. ReserveNow' = Taken(ReserveNow, t, NotaLedger!Paid(to, amount))
  <2> DEFINE r == ReserveNow
             p == ReserveNow'
             paid == NotaLedger!Paid(to, amount)
  <2>1. ASSUME NEW x \in Tokens PROVE p[x] = (IF x = t THEN r[x] - paid ELSE r[x])
    <3>1. balanceOf'[x][Registrar] = balanceOf[x][Registrar] /\ balanceOf[x][Registrar] \in Nat
      BY <1>2, EntriesAreInt DEF erc20Vars
    <3>2. p[x] = balanceOf'[x][Registrar] - Pend(frames', x)
          /\ r[x] = balanceOf[x][Registrar] - Pend(frames, x)
      BY DEF ReserveNow
    <3>3. paid \in Int
      BY DEF NotaLedger!Paid
    <3> QED BY <1>6, <1>7, <3>1, <3>2, <3>3
  <2>2. r = [x \in Tokens |-> r[x]] /\ p = [x \in Tokens |-> p[x]]
    BY DEF ReserveNow
  <2> HIDE DEF r, p, paid
  <2>3. p = Taken(r, t, paid)
    BY ONLY <2>1, <2>2 DEF Taken
  <2> QED BY <2>3 DEF r, p, paid
<1> QED BY <1>2, <1>4, <1>5, <1>8, <1>9 DEF erc721Vars

\* hookWithdraw takes effect when it is called.
LEMMA HookWithdrawStep ==
    ASSUME StructureInv, StructureInv', NEW h \in HookContracts, NEW t \in Tokens,
           NEW amount \in GovAmounts, NEW to \in GovRecipients,
           HookWithdrawCall(h, t, amount, to)
    PROVE  NotaLedger!HookWithdraw
<1> DEFINE share == FeeOn(amount)
           a == [hookRevenue EXCEPT ![h][t] = @ - amount]
           b == [protocolRevenue EXCEPT ![t] = @ + share]
           c == Taken(ReserveNow, t, NotaLedger!Paid(to, amount - share))
           l == Ldg
           ll == Ldg'
<1>1. /\ amount <= hookRevenue[h][t] /\ hookRevenue' = a /\ protocolRevenue' = b
      /\ UNCHANGED <<protocolFee, govOwner>>
      /\ AwaitPayment("hookWithdraw", h, t, amount - share, to)
  <2>1. amount \in Nat /\ hookRevenue[h][t] \in Nat
    BY GovAssumption, EVMAssumption, EntriesAreInt DEF Uint
  <2> QED BY <2>1 DEF HookWithdrawCall, HookWithdrawBooks
<1>2. amount - share \in Int
  <2>1. amount \in Uint /\ protocolFee \in Uint
    BY GovAssumption, Present DEF StorageOK, GovTypeOK
  <2>2. FeeOn(amount) \in Nat /\ amount \in Nat
    BY <2>1, FeeIsNat, EVMAssumption DEF Uint
  <2> QED BY <2>2
<1>3. /\ CallsOf(frames') = Append(CallsOf(frames), [op |-> "done", caller |-> h,
                                                     id |-> 0, before |-> Ldg])
      /\ NotasNow' = NotasNow /\ ReserveNow' = c
      /\ UNCHANGED <<nextId, operatorApprovals>>
  BY <1>1, <1>2, AwaitStep
<1>4. /\ l = Entries(NotasNow, nextId, operatorApprovals, hookRevenue, protocolRevenue,
                     ReserveNow, protocolFee, govOwner)
      /\ ll = Entries(NotasNow, nextId, operatorApprovals, a, b, c, protocolFee, govOwner)
  BY <1>1, <1>3, LedgerNow
<1>5. l = Ldg /\ ll = Ldg'
  OBVIOUS
<1> HIDE DEF l, ll
<1>6. /\ l.revenue = hookRevenue /\ l.protocol = protocolRevenue /\ l.reserve = ReserveNow
      /\ l.fee = protocolFee
  BY <1>4, EntriesRead
<1>7. ll = [l EXCEPT !.revenue = a, !.protocol = b, !.reserve = c]
  <2> HIDE DEF a, b, c
  <2>1. Withdrawn(l, a, b, c)
          = Entries(NotasNow, nextId, operatorApprovals, a, b, c, protocolFee, govOwner)
    BY <1>4, LedgerWithdraw
  <2> QED BY <1>4, <2>1 DEF Withdrawn
<1>8. NotaLedger!ShareOf(l, amount) = share
  BY <1>6 DEF NotaLedger!ShareOf, FeeOn, BasisPoints
<1>9. ll = [l EXCEPT !.revenue[h][t] = @ - amount, !.protocol[t] = @ + share,
                     !.reserve[t] = @ - NotaLedger!Paid(to, amount - share)]
  BY ONLY <1>6, <1>7 DEF Taken
<1> HIDE DEF share
<1> QED BY <1>1, <1>3, <1>5, <1>6, <1>8, <1>9
   DEF NotaLedger!HookWithdraw, NotaLedger!Withdraw, Ldg

\* So does protocolWithdraw.
LEMMA ProtocolWithdrawStep ==
    ASSUME StructureInv, StructureInv', NEW caller \in GovOwners, NEW t \in Tokens,
           NEW amount \in ProtocolAmounts, NEW to \in GovRecipients,
           ProtocolWithdrawCall(caller, t, amount, to)
    PROVE  NotaLedger!ProtocolWithdraw
<1> DEFINE b == [protocolRevenue EXCEPT ![t] = @ - amount]
           c == Taken(ReserveNow, t, NotaLedger!Paid(to, amount))
           l == Ldg
           ll == Ldg'
<1>1. /\ amount <= protocolRevenue[t] /\ protocolRevenue' = b
      /\ UNCHANGED <<hookRevenue, protocolFee, govOwner>>
      /\ AwaitPayment("protocolWithdraw", caller, t, amount, to)
      /\ caller = govOwner /\ govOwner # Null
  BY GovAssumption, EVMAssumption DEF ProtocolWithdrawCall, ProtocolWithdrawBooks
<1>2. amount \in Int
  BY GovAssumption, EVMAssumption DEF Uint
<1>3. /\ CallsOf(frames') = Append(CallsOf(frames), [op |-> "done", caller |-> caller,
                                                     id |-> 0, before |-> Ldg])
      /\ NotasNow' = NotasNow /\ ReserveNow' = c
      /\ UNCHANGED <<nextId, operatorApprovals>>
  BY <1>1, <1>2, AwaitStep
<1>4. /\ l = Entries(NotasNow, nextId, operatorApprovals, hookRevenue, protocolRevenue,
                     ReserveNow, protocolFee, govOwner)
      /\ ll = Entries(NotasNow, nextId, operatorApprovals, hookRevenue, b, c, protocolFee,
                      govOwner)
  BY <1>1, <1>3, LedgerNow
<1>5. l = Ldg /\ ll = Ldg'
  OBVIOUS
<1> HIDE DEF l, ll
<1>6. l.protocol = protocolRevenue /\ l.reserve = ReserveNow /\ l.owner = govOwner
  BY <1>4, EntriesRead
<1>7. ll = [l EXCEPT !.protocol = b, !.reserve = c]
  <2> HIDE DEF b, c
  <2>1. PaidOut(l, b, c) = Entries(NotasNow, nextId, operatorApprovals, hookRevenue, b, c,
                                   protocolFee, govOwner)
    BY <1>4, LedgerWithdraw
  <2> QED BY <1>4, <2>1 DEF PaidOut
<1>8. ll = [l EXCEPT !.protocol[t] = @ - amount,
                     !.reserve[t] = @ - NotaLedger!Paid(to, amount)]
  BY ONLY <1>6, <1>7 DEF Taken
<1> QED BY <1>1, <1>3, <1>5, <1>6, <1>8
   DEF NotaLedger!ProtocolWithdraw, NotaLedger!Withdraw, Ldg

-----------------------------------------------------------------------------
(* The guarded functions: their calls.                                      *)

\* A function that has started is one that the invariant knows.
LEMMA NewFrame ==
    ASSUME StructureInv, StructureInv', NEW f, frames' = Append(frames, f)
    PROVE  f \in FrameType /\ Shape(f)
<1>1. /\ frames' \in Seq(FrameType) /\ Levels(Storage', frames')
      /\ frames \in Seq(FrameType) /\ Len(frames) \in Nat
  BY Present DEF StructureInv, TypeOK
<1>2. Len(frames') = Len(frames) + 1 /\ frames'[Len(frames) + 1] = f /\ f \in FrameType
  BY <1>1
<1>3. Level(Storage', frames', Len(frames')) = Storage' /\ Len(frames') \in 0 .. Len(frames')
  BY <1>1, <1>2 DEF Level
<1>4. Sound(Storage', frames', Len(frames'))
  BY <1>1, <1>3 DEF Levels
<1>5. Shape(frames'[Len(frames')])
  BY <1>1, <1>2, <1>4 DEF Sound
<1> QED BY <1>2, <1>5

\* A function of a nota that starts has done nothing yet.
LEMMA CallStep ==
    ASSUME StructureInv, StructureInv', NEW caller \in Callers, Call(caller)
    PROVE  NotaLedger!Start
<1>1. PICK f : EnterGuarded(f) /\ Asks(f) /\ f.caller = caller
  BY CallAsks
<1>2. /\ frames' = Append(frames, f) /\ f.saved = Storage /\ f.pc = "hook"
      /\ UNCHANGED <<erc20Vars, erc721Vars, govVars, notas, nextId>>
  BY <1>1 DEF EnterGuarded, Enter, Asks
<1>3. /\ f \in FrameType /\ f.op \in GuardedOps /\ f.id \in NotaIds
      /\ frames \in Seq(FrameType)
  <2>1. f \in FrameType /\ Shape(f)
    BY <1>2, NewFrame
  <2> QED BY <1>2, <2>1, Present DEF Shape
<1>4. CallsOf(frames') = Append(CallsOf(frames), CallOf(f, Ldg))
  BY <1>2, <1>3, CallStarts
<1>5. CallOf(f, Ldg) = [op |-> f.op, caller |-> caller, id |-> f.id, before |-> Ldg]
  BY <1>1, <1>2 DEF CallOf
<1>6. \A x : /\ Hold(frames', x) = Hold(frames, x) + Held(f, x)
             /\ Pend(frames', x) = Pend(frames, x) + Pending(f, x)
             /\ Hold(frames, x) \in Int /\ Pend(frames, x) \in Int
  BY <1>2, <1>3, HoldMoves
<1>7. \A x : Held(f, x) = 0 /\ Pending(f, x) = 0
  BY <1>2 DEF Held, Pending
<1>8. \A x : Hold(frames', x) = Hold(frames, x) /\ Pend(frames', x) = Pend(frames, x)
  BY <1>6, <1>7
<1>9. NotasNow' = NotasNow
  BY <1>2, <1>8, NotasSame DEF erc721Vars
<1>10. ReserveNow' = ReserveNow
  BY <1>2, <1>8, ReserveSame DEF erc20Vars
<1>11. Ldg' = Ldg
  BY <1>2, <1>9, <1>10, LedgerSame DEF erc721Vars, govVars
<1>12. f.op \in NotaLedger!Ops
  BY <1>3 DEF NotaLedger!Ops, GuardedOps
<1> QED BY <1>3, <1>4, <1>5, <1>11, <1>12 DEF NotaLedger!Start, Ldg

-----------------------------------------------------------------------------
(* The guarded functions: what they do.                                     *)

\* A function that ends takes what it holds with it.
LEMMA InnermostEnds ==
    ASSUME StructureInv, frames # <<>>, Leave
    PROVE  /\ Ends /\ CallsOf(frames') = NotaLedger!Outer
           /\ \A x : /\ Hold(frames', x) \in Int /\ Pend(frames', x) \in Int
                     /\ Hold(frames, x) = Hold(frames', x) + Held(Top, x)
                     /\ Pend(frames, x) = Pend(frames', x) + Pending(Top, x)
                     /\ Top.op \in GuardedOps => Hold(frames', x) = 0
<1>1. Ends
  BY DEF Leave, Ends
<1>2. CallsOf(frames') = NotaLedger!Outer
  BY <1>1, CallEnds
<1> QED BY <1>1, <1>2, InnermostHolds

\* The function the ledger has in progress.
LEMMA InnermostCall ==
    ASSUME StructureInv, frames # <<>>
    PROVE  /\ NotaLedger!Call.caller = Top.caller /\ NotaLedger!Call.id = Top.id
           /\ NotaLedger!Call.before = Began
           /\ ~Done(Top) => NotaLedger!Innermost(Top.op)
           /\ Done(Top) => NotaLedger!Innermost("done")
BY CallNow DEF CallOf, Done, NotaLedger!Innermost

\* What the ledger has of a nota.
LEMMA NotaRead ==
    ASSUME NEW id \in NotaIds
    PROVE  /\ Ldg.notas = NotasNow /\ Ldg.nextId = nextId /\ Ldg.operators = operatorApprovals
           /\ NotasNow[id].owner = owners[id] /\ NotasNow[id].approved = tokenApprovals[id]
           /\ NotasNow[id].currency = notas[id].currency /\ NotasNow[id].hooks = notas[id].hooks
           /\ NotasNow[id].escrow = notas[id].escrowed + Hold(frames, id)
           /\ NotaLedger!Exists(Ldg, id) <=> Exists(id)
<1>1. Ldg.notas = NotasNow /\ Ldg.nextId = nextId /\ Ldg.operators = operatorApprovals
  BY LedgerNow, EntriesRead
<1> HIDE DEF Ldg
<1> QED BY <1>1 DEF NotasNow, NotaLedger!Exists, Exists

\* The reserve after a function has ended with the books of it written.
LEMMA ReserveGiven ==
    ASSUME StructureInv, StructureInv', frames # <<>>, Leave, UNCHANGED balanceOf,
           Top.pc = "store"
    PROVE  ReserveNow' = Given(ReserveNow, Top.currency, Top.amount, Top.fee)
<1> DEFINE r == ReserveNow
           p == ReserveNow'
<1>1. Top.amount \in Nat /\ Top.fee \in Nat
  BY Innermost, EVMAssumption DEF FrameType, Uint
<1>2. ASSUME NEW t \in Tokens
      PROVE  p[t] = (IF t = Top.currency THEN r[t] + Top.amount + Top.fee ELSE r[t])
  <2>1. /\ Pend(frames, t) = Pend(frames', t) + Pending(Top, t) /\ Pend(frames', t) \in Int
        /\ balanceOf[t][Registrar] \in Nat
    BY InnermostEnds, EntriesAreInt
  <2>2. Pending(Top, t) = (IF t = Top.currency THEN Top.amount + Top.fee ELSE 0)
    BY DEF Pending
  <2>3. p[t] = balanceOf[t][Registrar] - Pend(frames', t)
        /\ r[t] = balanceOf[t][Registrar] - Pend(frames, t)
    BY DEF ReserveNow
  <2> HIDE DEF r, p
  <2> QED BY ONLY <1>1, <2>1, <2>2, <2>3
<1>3. r = [t \in Tokens |-> r[t]] /\ p = [t \in Tokens |-> p[t]]
  BY DEF ReserveNow
<1> HIDE DEF r, p
<1>4. p = Given(r, Top.currency, Top.amount, Top.fee)
  BY ONLY <1>2, <1>3 DEF Given
<1> QED BY <1>4 DEF r, p

\* write.
LEMMA WriteStep ==
    ASSUME OwnershipInv, StructureInv', WriteStore, Asked(Top)
    PROVE  NotaLedger!Write
<1> DEFINE n == [owner |-> Top.owner, approved |-> Null, currency |-> Top.currency,
                 hooks |-> Top.hooks, escrow |-> Top.amount]
           l == Ldg
           ll == Ldg'
<1>1. /\ frames # <<>> /\ Top.op = "write" /\ Top.pc = "store" /\ Leave
      /\ StructureInv /\ UNCHANGED <<balanceOf, operatorApprovals, tokenApprovals>>
      /\ owners[nextId] = Null /\ owners' = [owners EXCEPT ![nextId] = Top.owner]
      /\ Top.owner # Null
      /\ notas' = [notas EXCEPT ![nextId] = [escrowed |-> Top.amount, currency |-> Top.currency,
                                             hooks |-> Top.hooks]]
      /\ nextId' = nextId + 1
      /\ hookRevenue' = Credit(hookRevenue, Top.hooks, Top.currency, Top.fee)
      /\ UNCHANGED <<protocolRevenue, protocolFee, govOwner>>
  BY DEF WriteStore, At, LeaveGuarded, ERC721Mint, Exists, CreditHook, erc20Vars, OwnershipInv
<1>2. /\ Top \in FrameType /\ Top.id = nextId /\ nextId \in NotaIds /\ Top.op \in GuardedOps
      /\ Top.amount \in Nat
  BY <1>1, Innermost, StorageFields, EVMAssumption
     DEF Shape, CurrentIn, GuardedOps, FrameType, Uint
<1>3. /\ n \in [owner : Recipients \ {Null}, approved : {Null}, currency : Tokens,
                hooks : NotaHooks, escrow : Amounts]
      /\ Top.fee \in HookFees
  BY <1>1, <1>2 DEF Asked, Answered, FrameType
<1>4. tokenApprovals[nextId] = Null
  BY <1>1, <1>2, PresentOwners, StorageFields DEF OwnedWell, ApprovalsIn
<1>5. /\ CallsOf(frames') = NotaLedger!Outer
      /\ \A x : Hold(frames', x) = 0 /\ Hold(frames, x) = 0
  <2>1. \A x : Held(Top, x) = 0
    BY <1>1 DEF Held
  <2> QED BY <1>1, <1>2, <2>1, InnermostEnds
<1>6. NotasNow' = Put(NotasNow, nextId, n)
  <2> DEFINE p == NotasNow'
             q == NotasNow
  <2>1. /\ notas \in [NotaIds -> Nota \cup {EmptyNota}] /\ owners \in [NotaIds -> MaybeAccount]
    BY <1>1, Present DEF StorageOK, ERC721TypeOK
  <2>2. ASSUME NEW id \in NotaIds PROVE p[id] = (IF id = nextId THEN n ELSE q[id])
    <3>1. p[id] = [owner |-> owners'[id], approved |-> tokenApprovals[id],
                   currency |-> notas'[id].currency, hooks |-> notas'[id].hooks,
                   escrow |-> notas'[id].escrowed + 0]
      BY <1>1, <1>5 DEF NotasNow
    <3>2. CASE id = nextId
      <4>1. /\ owners'[id] = Top.owner /\ notas'[id].currency = Top.currency
            /\ notas'[id].hooks = Top.hooks /\ notas'[id].escrowed = Top.amount
        BY <1>1, <1>2, <2>1, <3>2
      <4>2. Top.amount + 0 = Top.amount
        BY <1>2
      <4> QED BY <1>4, <3>1, <3>2, <4>1, <4>2
    <3>3. CASE id # nextId
      <4>1. owners'[id] = owners[id] /\ notas'[id] = notas[id]
        BY <1>1, <1>2, <2>1, <3>3
      <4>2. q[id] = [owner |-> owners[id], approved |-> tokenApprovals[id],
                     currency |-> notas[id].currency, hooks |-> notas[id].hooks,
                     escrow |-> notas[id].escrowed + 0]
        BY <1>5 DEF NotasNow
      <4> QED BY <3>1, <3>3, <4>1, <4>2
    <3> QED BY <3>2, <3>3
  <2>3. q = [id \in NotaIds |-> q[id]] /\ p = [id \in NotaIds |-> p[id]]
    BY DEF NotasNow
  <2> HIDE DEF p, q, n
  <2>4. p = Put(q, nextId, n)
    BY ONLY <2>2, <2>3 DEF Put
  <2> QED BY <2>4 DEF p, q
<1>7. ReserveNow' = Given(ReserveNow, Top.currency, Top.amount, Top.fee)
  BY <1>1, ReserveGiven
<1>8. /\ l = Entries(NotasNow, nextId, operatorApprovals, hookRevenue, protocolRevenue,
                     ReserveNow, protocolFee, govOwner)
      /\ ll = Entries(NotasNow', nextId', operatorApprovals', hookRevenue', protocolRevenue',
                      ReserveNow', protocolFee', govOwner')
  BY LedgerNow
<1>9. n.hooks = Top.hooks /\ n.currency = Top.currency /\ n.escrow = Top.amount
  OBVIOUS
<1>10. l = Ldg /\ ll = Ldg'
  OBVIOUS
<1> HIDE DEF l, ll, n
<1>11. NotaLedger!WriteNota(l, n, Top.fee)
         = Entries(Put(NotasNow, nextId, n), nextId + 1, operatorApprovals,
                   Credit(hookRevenue, n.hooks, n.currency, Top.fee), protocolRevenue,
                   Given(ReserveNow, n.currency, n.escrow, Top.fee), protocolFee, govOwner)
  BY <1>8, LedgerWrite
<1>12. ll = NotaLedger!WriteNota(l, n, Top.fee)
  BY <1>1, <1>6, <1>7, <1>8, <1>9, <1>11
<1>13. NotaLedger!Innermost("write") /\ NotaLedger!Call.id = nextId
  BY <1>1, <1>2, InnermostCall DEF Done
<1>14. l.nextId = nextId /\ ~NotaLedger!Exists(l, nextId)
  BY <1>1, <1>2, <1>10, NotaRead DEF Exists
<1> QED BY <1>3, <1>5, <1>10, <1>12, <1>13, <1>14 DEF NotaLedger!Write, NotaLedger!Finish, Ldg

\* A nota, term by term.
Terms(o, a, c, h, e) ==
    [owner |-> o, approved |-> a, currency |-> c, hooks |-> h, escrow |-> e]

\* The changes of one nota, as its new terms.
LEMMA OnePut ==
    ASSUME NEW ns, NEW id, NEW o, NEW a, NEW c, NEW h, NEW e, ns[id] = Terms(o, a, c, h, e),
           NEW x
    PROVE  /\ Funded(ns, id, x) = Put(ns, id, Terms(o, a, c, h, e + x))
           /\ Spent(ns, id, x) = Put(ns, id, Terms(o, a, c, h, e - x))
           /\ ApprovedNow(ns, id, x) = Put(ns, id, Terms(o, x, c, h, e))
           /\ Passed(ns, id, x) = Put(ns, id, Terms(x, Null, c, h, e))
<1> DEFINE n == ns[id]
<1>1. /\ Funded(ns, id, x) = [ns EXCEPT ![id] = [n EXCEPT !.escrow = n.escrow + x]]
      /\ Spent(ns, id, x) = [ns EXCEPT ![id] = [n EXCEPT !.escrow = n.escrow - x]]
      /\ ApprovedNow(ns, id, x) = [ns EXCEPT ![id] = [n EXCEPT !.approved = x]]
  BY DEF Funded, Spent, ApprovedNow
<1>2. Passed(ns, id, x) = [ns EXCEPT ![id] = [[n EXCEPT !.owner = x] EXCEPT !.approved = Null]]
  <2>1. Passed(ns, id, x) = [[ns EXCEPT ![id].owner = x] EXCEPT ![id].approved = Null]
    BY DEF Passed
  <2> QED BY <2>1
<1>3. n = Terms(o, a, c, h, e)
  OBVIOUS
<1> HIDE DEF n
<1>4. n.escrow = e
  BY <1>3 DEF Terms
<1>5. /\ [n EXCEPT !.escrow = n.escrow + x] = Terms(o, a, c, h, e + x)
      /\ [n EXCEPT !.escrow = n.escrow - x] = Terms(o, a, c, h, e - x)
      /\ [n EXCEPT !.approved = x] = Terms(o, x, c, h, e)
  BY <1>3, <1>4 DEF Terms
<1> DEFINE m == [n EXCEPT !.owner = x]
<1>6. m = Terms(x, a, c, h, e)
  BY <1>3 DEF Terms
<1> HIDE DEF m
<1>7. [m EXCEPT !.approved = Null] = Terms(x, Null, c, h, e)
  BY <1>6 DEF Terms
<1> QED BY <1>1, <1>2, <1>5, <1>7 DEF Put, m

\* The last of two changes is the one that counts.
LEMMA TwoPuts ==
    ASSUME NEW S, NEW ns, ns = [i \in S |-> ns[i]], NEW id \in S, NEW n, NEW m
    PROVE  Put(ns, id, n)[id] = n /\ Put(Put(ns, id, n), id, m) = Put(ns, id, m)
BY DEF Put

\* The notas of the ledger when one of them has changed.
LEMMA OneNotaChanges ==
    ASSUME NEW id \in NotaIds,
           \A i \in NotaIds \ {id} :
             /\ owners'[i] = owners[i] /\ tokenApprovals'[i] = tokenApprovals[i]
             /\ notas'[i] = notas[i] /\ Hold(frames', i) = Hold(frames, i)
    PROVE  /\ NotasNow' = Put(NotasNow, id,
                            Terms(owners'[id], tokenApprovals'[id], notas'[id].currency,
                                  notas'[id].hooks, notas'[id].escrowed + Hold(frames', id)))
           /\ NotasNow[id] = Terms(owners[id], tokenApprovals[id], notas[id].currency,
                                   notas[id].hooks, notas[id].escrowed + Hold(frames, id))
           /\ NotasNow = [i \in NotaIds |-> NotasNow[i]]
<1> DEFINE p == NotasNow'
           q == NotasNow
           n == Terms(owners'[id], tokenApprovals'[id], notas'[id].currency,
                      notas'[id].hooks, notas'[id].escrowed + Hold(frames', id))
<1>1. ASSUME NEW i \in NotaIds PROVE p[i] = (IF i = id THEN n ELSE q[i])
  <2>1. p[i] = Terms(owners'[i], tokenApprovals'[i], notas'[i].currency,
                     notas'[i].hooks, notas'[i].escrowed + Hold(frames', i))
    BY DEF NotasNow, Terms
  <2>2. q[i] = Terms(owners[i], tokenApprovals[i], notas[i].currency,
                     notas[i].hooks, notas[i].escrowed + Hold(frames, i))
    BY DEF NotasNow, Terms
  <2> HIDE DEF p, q
  <2> QED BY <2>1, <2>2
<1>2. q = [i \in NotaIds |-> q[i]] /\ p = [i \in NotaIds |-> p[i]]
  BY DEF NotasNow
<1>3. q[id] = Terms(owners[id], tokenApprovals[id], notas[id].currency,
                    notas[id].hooks, notas[id].escrowed + Hold(frames, id))
  BY DEF NotasNow, Terms
<1> HIDE DEF p, q, n
<1>4. p = Put(q, id, n)
  BY ONLY <1>1, <1>2 DEF Put
<1> QED BY <1>2, <1>3, <1>4 DEF p, q, n

\* The escrow of the nota of the innermost function changes to e.
LEMMA EscrowNow ==
    ASSUME StructureInv, NEW id \in NotaIds, notas[id] \in Nota, NEW e,
           notas' = [notas EXCEPT ![id].escrowed = e]
    PROVE  /\ \A i \in NotaIds \ {id} : notas'[i] = notas[i]
           /\ notas'[id].escrowed = e /\ notas'[id].currency = notas[id].currency
           /\ notas'[id].hooks = notas[id].hooks /\ notas[id].escrowed \in Nat
<1>1. notas \in [NotaIds -> Nota \cup {EmptyNota}]
  BY Present DEF StorageOK
<1>2. /\ \A i \in NotaIds \ {id} : notas'[i] = notas[i]
      /\ notas'[id] = [notas[id] EXCEPT !.escrowed = e]
  BY <1>1
<1>3. notas[id].escrowed \in Nat
  BY EVMAssumption DEF Nota, Uint
<1> QED BY <1>2, <1>3 DEF Nota

\* fund.
LEMMA FundStep ==
    ASSUME StructureInv, StructureInv', FundStore, Asked(Top)
    PROVE  NotaLedger!Fund
<1> DEFINE l == Ldg
           ll == Ldg'
           id == Top.id
<1>1. /\ frames # <<>> /\ Top.op = "fund" /\ Top.pc = "store" /\ Leave
      /\ Top.op \in GuardedOps /\ Top.op \in GuardedOps \ {"write"}
      /\ UNCHANGED <<balanceOf, erc721Vars, nextId>>
      /\ hookRevenue' = Credit(hookRevenue, Top.hooks, Top.currency, Top.fee)
      /\ UNCHANGED <<protocolRevenue, protocolFee, govOwner>>
  BY DEF FundStore, At, LeaveGuarded, CreditHook, erc20Vars, GuardedOps
<1>2. /\ id \in NotaIds /\ Exists(id) /\ notas[id] \in Nota
      /\ notas[id].currency = Top.currency /\ notas[id].hooks = Top.hooks
  BY <1>1, NotaInProgress
<1>3. Top.amount \in Amounts /\ Top.fee \in HookFees /\ Top.amount \in Nat
  BY <1>1, Innermost, EVMAssumption DEF Asked, Answered, FrameType, Uint
<1>4. /\ CallsOf(frames') = NotaLedger!Outer
      /\ \A x : Hold(frames', x) = 0 /\ Hold(frames, x) = 0
  <2>1. \A x : Held(Top, x) = 0
    BY <1>1 DEF Held
  <2> QED BY <1>1, <2>1, InnermostEnds
<1>5. NotasNow' = Funded(NotasNow, id, Top.amount)
  <2>1. notas' = [notas EXCEPT ![id].escrowed = notas[id].escrowed + Top.amount]
    BY DEF FundStore
  <2>2. /\ \A i \in NotaIds \ {id} : notas'[i] = notas[i]
        /\ notas'[id].escrowed = notas[id].escrowed + Top.amount
        /\ notas'[id].currency = notas[id].currency
        /\ notas'[id].hooks = notas[id].hooks /\ notas[id].escrowed \in Nat
    BY <1>2, <2>1, EscrowNow
  <2>3. /\ NotasNow' = Put(NotasNow, id,
                         Terms(owners'[id], tokenApprovals'[id], notas'[id].currency,
                               notas'[id].hooks, notas'[id].escrowed + Hold(frames', id)))
        /\ NotasNow[id] = Terms(owners[id], tokenApprovals[id], notas[id].currency,
                                notas[id].hooks, notas[id].escrowed + Hold(frames, id))
    BY <1>1, <1>2, <1>4, <2>2, OneNotaChanges DEF erc721Vars
  <2>4. /\ owners' = owners /\ tokenApprovals' = tokenApprovals
        /\ notas'[id].escrowed + Hold(frames', id)
             = notas[id].escrowed + Hold(frames, id) + Top.amount
    BY <1>1, <1>3, <1>4, <2>2 DEF erc721Vars
  <2>5. Funded(NotasNow, id, Top.amount)
          = Put(NotasNow, id, Terms(owners[id], tokenApprovals[id], notas[id].currency,
                                    notas[id].hooks,
                                    notas[id].escrowed + Hold(frames, id) + Top.amount))
    BY <2>3, OnePut
  <2> QED BY <2>2, <2>3, <2>4, <2>5
<1>6. ReserveNow' = Given(ReserveNow, Top.currency, Top.amount, Top.fee)
  BY <1>1, ReserveGiven
<1>7. /\ l = Entries(NotasNow, nextId, operatorApprovals, hookRevenue, protocolRevenue,
                     ReserveNow, protocolFee, govOwner)
      /\ ll = Entries(NotasNow', nextId', operatorApprovals', hookRevenue', protocolRevenue',
                      ReserveNow', protocolFee', govOwner')
  BY LedgerNow
<1>8. l = Ldg /\ ll = Ldg'
  OBVIOUS
<1>9. NotaLedger!Exists(l, id) /\ NotasNow[id].hooks = Top.hooks
      /\ NotasNow[id].currency = Top.currency
  BY <1>2, NotaRead
<1> HIDE DEF l, ll
<1>10. NotaLedger!FundNota(l, id, Top.amount, Top.fee)
         = Entries(Funded(NotasNow, id, Top.amount), nextId, operatorApprovals,
                   Credit(hookRevenue, NotasNow[id].hooks, NotasNow[id].currency, Top.fee),
                   protocolRevenue,
                   Given(ReserveNow, NotasNow[id].currency, Top.amount, Top.fee),
                   protocolFee, govOwner)
  BY <1>7, LedgerFund
<1>11. ll = NotaLedger!FundNota(l, id, Top.amount, Top.fee)
  BY <1>1, <1>5, <1>6, <1>7, <1>9, <1>10 DEF erc721Vars
<1>12. NotaLedger!Innermost("fund") /\ NotaLedger!Call.id = id
  BY <1>1, InnermostCall DEF Done
<1> QED BY <1>3, <1>4, <1>8, <1>9, <1>11, <1>12 DEF NotaLedger!Fund, NotaLedger!Finish, Ldg

\* What a fee and a second change make of a nota.
LEMMA FeeThen ==
    ASSUME NEW S, NEW ns, ns = [i \in S |-> ns[i]], NEW id \in S,
           NEW o, NEW a, NEW c, NEW h, NEW e, ns[id] = Terms(o, a, c, h, e), NEW x, NEW y
    PROVE  /\ ApprovedNow(Spent(ns, id, x), id, y) = Put(ns, id, Terms(o, y, c, h, e - x))
           /\ Passed(Spent(ns, id, x), id, y) = Put(ns, id, Terms(y, Null, c, h, e - x))
           /\ Put(Spent(ns, id, x), id, y) = Put(ns, id, y)
<1> DEFINE k == e - x
           ms == Put(ns, id, Terms(o, a, c, h, k))
<1>1. Spent(ns, id, x) = ms
  BY OnePut
<1>2. ms[id] = Terms(o, a, c, h, k) /\ \A m : Put(ms, id, m) = Put(ns, id, m)
  BY TwoPuts
<1> HIDE DEF ms, k
<1>3. ApprovedNow(ms, id, y) = Put(ms, id, Terms(o, y, c, h, k))
  BY ONLY <1>2, OnePut
<1>4. Passed(ms, id, y) = Put(ms, id, Terms(y, Null, c, h, k))
  BY ONLY <1>2, OnePut
<1> QED BY <1>1, <1>2, <1>3, <1>4 DEF k

\* A guarded function that holds nothing and has all it needs ends, or asks the
\* receiver: nothing is held or owed for it.
LEMMA NothingHeld ==
    ASSUME StructureInv, frames # <<>>, Top.op \in GuardedOps, Top.pc \in {"hook", "burn"},
           Leave \/ Continue([Top EXCEPT !.pc = "receiver"])
    PROVE  \A x : /\ Hold(frames', x) = 0 /\ Hold(frames, x) = 0
                  /\ Pend(frames', x) = Pend(frames, x)
<1>1. ASSUME NEW x PROVE Held(Top, x) = 0 /\ Pending(Top, x) = 0
  BY DEF Held, Pending
<1>2. ASSUME NEW x
      PROVE  /\ Hold(Outer(frames), x) \in Int /\ Pend(Outer(frames), x) \in Int
             /\ Hold(frames, x) = Hold(Outer(frames), x) + Held(Top, x)
             /\ Pend(frames, x) = Pend(Outer(frames), x) + Pending(Top, x)
             /\ Hold(Outer(frames), x) = 0
  BY InnermostHolds
<1>3. CASE Leave
  <2>1. ASSUME NEW x PROVE Hold(frames', x) = 0 /\ Pend(frames, x) = Pend(frames', x) + Pending(Top, x)
                           /\ Pend(frames', x) \in Int
    BY <1>3, InnermostEnds
  <2> QED BY <1>1, <1>2, <2>1
<1>4. CASE Continue([Top EXCEPT !.pc = "receiver"])
  <2> DEFINE f == [Top EXCEPT !.pc = "receiver"]
  <2>1. f \in FrameType /\ f.pc = "receiver" /\ frames' = [frames EXCEPT ![Len(frames)] = f]
    <3>1. Top \in FrameType /\ "receiver" \in Pcs
      BY Innermost DEF Pcs
    <3> QED BY <1>4, <3>1, StillSameCall DEF Continue
  <2> HIDE DEF f
  <2>2. ASSUME NEW x PROVE Held(f, x) = 0 /\ Pending(f, x) = 0
    BY <2>1 DEF Held, Pending
  <2>3. ASSUME NEW x PROVE /\ Hold(frames', x) = Hold(Outer(frames), x) + Held(f, x)
                           /\ Pend(frames', x) = Pend(Outer(frames), x) + Pending(f, x)
    BY <2>1, InnermostHolds
  <2> QED BY <1>1, <1>2, <2>2, <2>3
<1> QED BY <1>3, <1>4

\* The fee of approve, update and the transfers, and what they then do to the nota.
LEMMA FeeLedger ==
    ASSUME StructureInv, StructureInv', NEW op \in GuardedOps \ {"write"}, NEW fee,
           HookAnswers(op, fee), TakeFee(Top, fee),
           UNCHANGED <<erc20Vars, nextId, operatorApprovals>>,
           \A i \in NotaIds \ {Top.id} :
             owners'[i] = owners[i] /\ tokenApprovals'[i] = tokenApprovals[i],
           Leave \/ Continue([Top EXCEPT !.pc = "receiver"])
    PROVE  LET id == Top.id
           IN  /\ id \in NotaIds /\ fee \in HookFees /\ fee <= NotasNow[id].escrow
               /\ NotaLedger!Exists(Ldg, id)
               /\ owners'[id] = owners[id] /\ tokenApprovals'[id] = tokenApprovals[id] =>
                    Ldg' = NotaLedger!ChargeFee(Ldg, id, fee)
               /\ owners'[id] = owners[id] =>
                    Ldg' = Approves(NotaLedger!ChargeFee(Ldg, id, fee), id, tokenApprovals'[id])
               /\ tokenApprovals'[id] = Null =>
                    Ldg' = Moves(NotaLedger!ChargeFee(Ldg, id, fee), id, owners'[id])
<1> DEFINE l == Ldg
           ll == Ldg'
           id == Top.id
<1>1. /\ frames # <<>> /\ Top.op \in GuardedOps \ {"write"} /\ Top.op \in GuardedOps
      /\ Top.pc = "hook" /\ Top.pc # "receiver" /\ fee \in HookFees /\ fee \in Nat
      /\ hookRevenue' = Credit(hookRevenue, Top.hooks, Top.currency, fee)
      /\ UNCHANGED <<balanceOf, protocolRevenue, protocolFee, govOwner>>
      /\ notas' = [notas EXCEPT ![id].escrowed = notas[id].escrowed - fee]
      /\ notas[id].escrowed >= fee
  BY FeesAreWords, EVMAssumption DEF TakeFee, DebitNota, CreditHook, erc20Vars, Uint
<1>2. /\ id \in NotaIds /\ Exists(id) /\ notas[id] \in Nota
      /\ notas[id].currency = Top.currency /\ notas[id].hooks = Top.hooks
  BY <1>1, NotaInProgress
<1>3. \A x : /\ Hold(frames', x) = 0 /\ Hold(frames, x) = 0
             /\ Pend(frames', x) = Pend(frames, x)
  BY <1>1, NothingHeld
<1>4. /\ \A i \in NotaIds \ {id} : notas'[i] = notas[i]
      /\ notas'[id].escrowed = notas[id].escrowed - fee
      /\ notas'[id].currency = notas[id].currency
      /\ notas'[id].hooks = notas[id].hooks /\ notas[id].escrowed \in Nat
  BY <1>1, <1>2, EscrowNow
<1> DEFINE c == notas[id].currency
           h == notas[id].hooks
           e == notas[id].escrowed
           T(o, a, x) == Terms(o, a, c, h, x)
<1>5. /\ NotasNow' = Put(NotasNow, id, T(owners'[id], tokenApprovals'[id], e - fee))
      /\ NotasNow[id] = T(owners[id], tokenApprovals[id], e)
      /\ NotasNow = [i \in NotaIds |-> NotasNow[i]]
  <2>1. /\ NotasNow' = Put(NotasNow, id,
                         Terms(owners'[id], tokenApprovals'[id], notas'[id].currency,
                               notas'[id].hooks, notas'[id].escrowed + Hold(frames', id)))
        /\ NotasNow[id] = Terms(owners[id], tokenApprovals[id], notas[id].currency,
                                notas[id].hooks, notas[id].escrowed + Hold(frames, id))
        /\ NotasNow = [i \in NotaIds |-> NotasNow[i]]
    BY <1>2, <1>3, <1>4, OneNotaChanges
  <2>2. /\ notas'[id].escrowed + Hold(frames', id) = e - fee
        /\ notas[id].escrowed + Hold(frames, id) = e
    BY <1>1, <1>3, <1>4
  <2> QED BY <1>4, <2>1, <2>2
<1>6. ReserveNow' = ReserveNow
  BY <1>1, <1>3, ReserveSame
<1>7. /\ l = Entries(NotasNow, nextId, operatorApprovals, hookRevenue, protocolRevenue,
                     ReserveNow, protocolFee, govOwner)
      /\ ll = Entries(NotasNow', nextId', operatorApprovals', hookRevenue', protocolRevenue',
                      ReserveNow', protocolFee', govOwner')
  BY LedgerNow
<1>8. l = Ldg /\ ll = Ldg'
  OBVIOUS
<1>9. NotaLedger!Exists(l, id) /\ NotasNow[id].hooks = Top.hooks
      /\ NotasNow[id].currency = Top.currency /\ NotasNow[id].escrow = e
  <2>1. NotasNow[id].escrow = e
    BY <1>5 DEF Terms
  <2> QED BY <1>2, <2>1, NotaRead
<1> HIDE DEF l, ll
<1>10. NotaLedger!ChargeFee(l, id, fee)
         = Entries(Spent(NotasNow, id, fee), nextId, operatorApprovals, hookRevenue',
                   protocolRevenue, ReserveNow, protocolFee, govOwner)
  BY <1>1, <1>7, <1>9, LedgerFee
<1>11. /\ Spent(NotasNow, id, fee) = Put(NotasNow, id, T(owners[id], tokenApprovals[id], e - fee))
       /\ \A y : /\ ApprovedNow(Spent(NotasNow, id, fee), id, y)
                      = Put(NotasNow, id, T(owners[id], y, e - fee))
                 /\ Passed(Spent(NotasNow, id, fee), id, y)
                      = Put(NotasNow, id, T(y, Null, e - fee))
  BY <1>2, <1>5, OnePut, FeeThen
<1>12. \A y : /\ Approves(NotaLedger!ChargeFee(l, id, fee), id, y)
                   = Entries(ApprovedNow(Spent(NotasNow, id, fee), id, y), nextId,
                             operatorApprovals, hookRevenue', protocolRevenue, ReserveNow,
                             protocolFee, govOwner)
              /\ Moves(NotaLedger!ChargeFee(l, id, fee), id, y)
                   = Entries(Passed(Spent(NotasNow, id, fee), id, y), nextId,
                             operatorApprovals, hookRevenue', protocolRevenue, ReserveNow,
                             protocolFee, govOwner)
  BY <1>10, LedgerNotas
<1> DEFINE Now(ns) == Entries(ns, nextId, operatorApprovals, hookRevenue', protocolRevenue,
                              ReserveNow, protocolFee, govOwner)
<1>13. ll = Now(NotasNow')
  BY <1>1, <1>6, <1>7
<1>14. ASSUME owners'[id] = owners[id] /\ tokenApprovals'[id] = tokenApprovals[id]
       PROVE  ll = NotaLedger!ChargeFee(l, id, fee)
  BY <1>5, <1>10, <1>11, <1>13, <1>14
<1>15. ASSUME owners'[id] = owners[id]
       PROVE  ll = Approves(NotaLedger!ChargeFee(l, id, fee), id, tokenApprovals'[id])
  BY <1>5, <1>11, <1>12, <1>13, <1>15
<1>16. ASSUME tokenApprovals'[id] = Null
       PROVE  ll = Moves(NotaLedger!ChargeFee(l, id, fee), id, owners'[id])
  BY <1>5, <1>11, <1>12, <1>13, <1>16
<1> QED BY <1>1, <1>2, <1>8, <1>9, <1>14, <1>15, <1>16

\* Who burns or moves a nota was entitled to it when it called.
LEMMA EntitledAtCall ==
    ASSUME OwnershipInv, frames # <<>>, Top.op \in MoveOps, Top.pc # "receiver",
           Top.owner = Top.saved.owners[Top.id]
    PROVE  NotaLedger!MayMove(NotaLedger!Call.before, NotaLedger!Call.caller, NotaLedger!Call.id)
<1> DEFINE id == Top.id
           b == Began
           s == Top.saved
<1>1. StructureInv /\ EntitledIn(s, Top)
  <2>1. Len(frames) \in 1 .. Len(frames)
    BY PresentOwners
  <2> QED BY <2>1, PresentOwners DEF OwnedWell, EntitledAll, Top
<1>2. id \in NotaIds /\ Top.owner # Null
  BY <1>1, Innermost DEF Shape, MoveOps, GuardedOps
<1>3. /\ b.notas[id].owner = s.owners[id] /\ b.notas[id].approved = s.tokenApprovals[id]
      /\ b.operators = s.operatorApprovals
  BY <1>2 DEF Began, LedgerOf, NotaIn
<1>4. /\ NotaLedger!Call.before = b /\ NotaLedger!Call.caller = Top.caller
      /\ NotaLedger!Call.id = id
  BY <1>1, InnermostCall
<1> HIDE DEF b, s, id
<1>5. s = Top.saved /\ id = Top.id
  BY DEF s, id
<1>6. \/ Top.caller = Top.owner \/ Top.caller = s.tokenApprovals[id]
      \/ Top.caller \in s.operatorApprovals[Top.owner]
  BY <1>1, <1>5 DEF EntitledIn
<1> QED BY <1>2, <1>3, <1>4, <1>5, <1>6 DEF NotaLedger!MayMove, NotaLedger!Exists

\* approve.
LEMMA ApproveStep ==
    ASSUME StructureInv, StructureInv', NEW fee, ApproveStore(fee), Asked(Top)
    PROVE  NotaLedger!Approve
<1> DEFINE id == Top.id
<1>1. /\ frames # <<>> /\ Top.op = "approve" /\ Top.pc = "hook" /\ Leave
      /\ Top.op \in GuardedOps /\ "approve" \in GuardedOps \ {"write"}
      /\ HookAnswers("approve", fee) /\ TakeFee(Top, fee)
      /\ UNCHANGED <<erc20Vars, nextId, operatorApprovals>> /\ owners' = owners
      /\ tokenApprovals' = [tokenApprovals EXCEPT ![id] = Top.to]
      /\ Top.to # owners[id]
      /\ Top.caller = owners[id] \/ Top.caller \in operatorApprovals[owners[id]]
  BY DEF ApproveStore, HookAnswers, At, LeaveGuarded, ERC721Approve, GuardedOps, IsApprovedForAll
<1>2. Top.to \in Recipients /\ id \in NotaIds
  BY <1>1, Innermost DEF Asked, Shape
<1>3. /\ \A i \in NotaIds \ {id} :
           owners'[i] = owners[i] /\ tokenApprovals'[i] = tokenApprovals[i]
      /\ tokenApprovals'[id] = Top.to
  BY <1>1, <1>2, Present DEF StorageOK, ERC721TypeOK
<1>4. /\ id \in NotaIds /\ fee \in HookFees /\ fee <= NotasNow[id].escrow
      /\ NotaLedger!Exists(Ldg, id)
      /\ Ldg' = Approves(NotaLedger!ChargeFee(Ldg, id, fee), id, tokenApprovals'[id])
  BY <1>1, <1>3, FeeLedger
<1>5. /\ Ldg.notas = NotasNow /\ NotasNow[id].owner = owners[id]
      /\ Ldg.operators = operatorApprovals
  BY <1>2, NotaRead
<1>6. /\ NotaLedger!Innermost("approve") /\ NotaLedger!Call.id = id
      /\ NotaLedger!Call.caller = Top.caller /\ CallsOf(frames') = NotaLedger!Outer
  BY <1>1, InnermostCall, InnermostEnds DEF Done
<1> DEFINE l == Ldg
           ll == Ldg'
           to == Top.to
<1>7. /\ l = LedgerOf(Storage, frames, Len(frames))
      /\ ll = LedgerOf(Storage, frames, Len(frames))'
  BY DEF Ldg
<1>8. /\ to # l.notas[id].owner
      /\ Top.caller = l.notas[id].owner \/ Top.caller \in l.operators[l.notas[id].owner]
      /\ fee <= l.notas[id].escrow /\ NotaLedger!Exists(l, id) /\ fee \in HookFees
      /\ to \in Recipients
      /\ ll = Approves(NotaLedger!ChargeFee(l, id, fee), id, to)
  BY <1>1, <1>2, <1>3, <1>4, <1>5
<1> HIDE DEF l, ll, id, to
<1>9. NotaLedger!Affordable(fee)
  BY <1>6, <1>7, <1>8 DEF NotaLedger!Affordable
<1> QED BY <1>6, <1>7, <1>8, <1>9 DEF NotaLedger!Approve, NotaLedger!Finish, Approves

\* update.
LEMMA UpdateStep ==
    ASSUME StructureInv, StructureInv', NEW fee, UpdateStore(fee)
    PROVE  NotaLedger!Update
<1> DEFINE id == Top.id
<1>1. /\ frames # <<>> /\ Top.op = "update" /\ Top.pc = "hook" /\ Leave
      /\ Top.op \in GuardedOps /\ "update" \in GuardedOps \ {"write"}
      /\ HookAnswers("update", fee) /\ TakeFee(Top, fee)
      /\ UNCHANGED <<erc20Vars, nextId, operatorApprovals, owners, tokenApprovals>>
  BY DEF UpdateStore, HookAnswers, At, LeaveGuarded, GuardedOps, erc721Vars
<1>2. /\ id \in NotaIds /\ fee \in HookFees /\ fee <= NotasNow[id].escrow
      /\ NotaLedger!Exists(Ldg, id) /\ Ldg' = NotaLedger!ChargeFee(Ldg, id, fee)
  BY <1>1, FeeLedger
<1>3. /\ NotaLedger!Innermost("update") /\ NotaLedger!Call.id = id
      /\ CallsOf(frames') = NotaLedger!Outer
  BY <1>1, InnermostCall, InnermostEnds DEF Done
<1> DEFINE l == Ldg
           ll == Ldg'
<1>4. /\ l = LedgerOf(Storage, frames, Len(frames))
      /\ ll = LedgerOf(Storage, frames, Len(frames))'
  BY DEF Ldg
<1>5. /\ fee <= l.notas[id].escrow /\ NotaLedger!Exists(l, id) /\ fee \in HookFees
      /\ ll = NotaLedger!ChargeFee(l, id, fee)
  BY <1>2, NotaRead
<1> HIDE DEF l, ll, id
<1>6. NotaLedger!Affordable(fee)
  BY <1>3, <1>4, <1>5 DEF NotaLedger!Affordable
<1> QED BY <1>3, <1>4, <1>5, <1>6 DEF NotaLedger!Update, NotaLedger!Finish

\* transferFrom and safeTransferFrom.
LEMMA TransferStep ==
    ASSUME OwnershipInv, StructureInv', NEW op \in {"transferFrom", "safeTransferFrom"}, NEW fee,
           TransferStore(op, fee), Asked(Top), Top.owner = Top.saved.owners[Top.id]
    PROVE  NotaLedger!Transfer \/ NotaLedger!SafeTransfer
<1> DEFINE id == Top.id
           f == [Top EXCEPT !.pc = "receiver"]
<1>1. /\ frames # <<>> /\ Top.op = op /\ Top.pc = "hook"
      /\ op \in GuardedOps \ {"write"} /\ op \in MoveOps
      /\ HookAnswers(op, fee) /\ TakeFee(Top, fee)
      /\ UNCHANGED <<erc20Vars, nextId, operatorApprovals>>
      /\ owners' = [owners EXCEPT ![id] = Top.to] /\ Top.to # Null
      /\ tokenApprovals' = [tokenApprovals EXCEPT ![id] = Null]
      /\ op = "safeTransferFrom" => Continue(f)
      /\ op # "safeTransferFrom" => Leave
  BY DEF TransferStore, HookAnswers, At, LeaveGuarded, ERC721Transfer, GuardedOps, MoveOps
<1>2. /\ StructureInv /\ id \in NotaIds /\ Top.to \in Recipients \ {Null} /\ Top \in FrameType
  BY <1>1, PresentOwners, Innermost DEF Asked, Shape
<1>3. /\ \A i \in NotaIds \ {id} :
           owners'[i] = owners[i] /\ tokenApprovals'[i] = tokenApprovals[i]
      /\ tokenApprovals'[id] = Null /\ owners'[id] = Top.to
  BY <1>1, <1>2, Present DEF StorageOK, ERC721TypeOK
<1>4. /\ fee \in HookFees /\ fee <= NotasNow[id].escrow /\ NotaLedger!Exists(Ldg, id)
      /\ Ldg' = Moves(NotaLedger!ChargeFee(Ldg, id, fee), id, owners'[id])
  BY <1>1, <1>2, <1>3, FeeLedger
<1>5. /\ NotaLedger!Innermost(op) /\ NotaLedger!Call.id = id
      /\ NotaLedger!MayMove(NotaLedger!Call.before, NotaLedger!Call.caller, NotaLedger!Call.id)
  BY <1>1, <1>2, InnermostCall, EntitledAtCall DEF Done
<1> DEFINE l == Ldg
           ll == Ldg'
           to == Top.to
<1>6. /\ l = LedgerOf(Storage, frames, Len(frames))
      /\ ll = LedgerOf(Storage, frames, Len(frames))'
  BY DEF Ldg
<1>7. /\ fee <= l.notas[id].escrow /\ NotaLedger!Exists(l, id) /\ fee \in HookFees
      /\ to \in Recipients \ {Null} /\ ll = Moves(NotaLedger!ChargeFee(l, id, fee), id, to)
  BY <1>2, <1>3, <1>4, NotaRead
<1>8. CASE op = "transferFrom"
  <2>1. Leave /\ NotaLedger!Innermost("transferFrom")
    BY <1>1, <1>5, <1>8
  <2>2. CallsOf(frames') = NotaLedger!Outer
    BY <1>1, <1>2, <2>1, InnermostEnds
  <2> HIDE DEF l, ll, id, to, f
  <2>3. NotaLedger!Affordable(fee)
    BY <1>5, <1>6, <1>7 DEF NotaLedger!Affordable
  <2>4. NotaLedger!Transferred(ll)
    <3>1. ll = NotaLedger!MoveNota(l, NotaLedger!Call.id, to, fee)
      BY <1>5, <1>7 DEF NotaLedger!MoveNota, Moves
    <3> QED BY <1>5, <1>6, <1>7, <2>3, <3>1 DEF NotaLedger!Transferred
  <2> QED BY <1>6, <2>1, <2>2, <2>4 DEF NotaLedger!Transfer
<1>9. CASE op = "safeTransferFrom"
  <2>1. Continue(f) /\ NotaLedger!Innermost("safeTransferFrom")
    BY <1>1, <1>5, <1>9
  <2>2. /\ f \in FrameType /\ SameCall(f, Top) /\ f.pc = "receiver"
        /\ frames' = [frames EXCEPT ![Len(frames)] = f]
    <3>1. "receiver" \in Pcs
      BY DEF Pcs
    <3> QED BY <1>2, <2>1, <3>1, StillSameCall DEF Continue
  <2>3. NotaLedger!Call = CallOf(Top, Began)
    BY <1>1, <1>2, CallNow
  <2> HIDE DEF l, ll, id, to, f
  <2>4. CallsOf(frames') = Append(NotaLedger!Outer, CallOf(f, Began))
    BY <1>1, <1>2, <2>2, CallGoesOn
  <2>5. CallOf(f, Began) = [NotaLedger!Call EXCEPT !.op = "done"]
    BY <2>2, <2>3 DEF CallOf, SameCall
  <2>6. NotaLedger!Affordable(fee)
    BY <1>5, <1>6, <1>7 DEF NotaLedger!Affordable
  <2>7. NotaLedger!Transferred(ll)
    <3>1. ll = NotaLedger!MoveNota(l, NotaLedger!Call.id, to, fee)
      BY <1>5, <1>7 DEF NotaLedger!MoveNota, Moves
    <3> QED BY <1>5, <1>6, <1>7, <2>6, <3>1 DEF NotaLedger!Transferred
  <2> QED BY <1>6, <2>1, <2>4, <2>5, <2>7 DEF NotaLedger!SafeTransfer
<1> QED BY <1>8, <1>9

\* What cash has paid leaves the reserve when cash ends.
LEMMA ReserveTaken ==
    ASSUME StructureInv, StructureInv', frames # <<>>, Leave, UNCHANGED balanceOf,
           Top.pc = "credit"
    PROVE  ReserveNow' = Taken(ReserveNow, Top.currency,
                               NotaLedger!Paid(Top.to, Top.amount - Top.fee))
<1> DEFINE r == ReserveNow
           p == ReserveNow'
           x == NotaLedger!Paid(Top.to, Top.amount - Top.fee)
<1>1. Top.amount \in Nat /\ Top.fee \in Nat
  BY Innermost, EVMAssumption DEF FrameType, Uint
<1>2. x = (IF Top.to = Registrar THEN 0 ELSE Top.amount - Top.fee)
  BY DEF NotaLedger!Paid
<1> HIDE DEF x
<1>3. ASSUME NEW t \in Tokens
      PROVE  p[t] = (IF t = Top.currency THEN r[t] - x ELSE r[t])
  <2>1. /\ Pend(frames, t) = Pend(frames', t) + Pending(Top, t) /\ Pend(frames', t) \in Int
        /\ balanceOf[t][Registrar] \in Nat
    BY InnermostEnds, EntriesAreInt
  <2>2. Pending(Top, t) = (IF t = Top.currency /\ Top.to # Registrar THEN Top.fee - Top.amount
                           ELSE 0)
    BY DEF Pending
  <2>3. p[t] = balanceOf[t][Registrar] - Pend(frames', t)
        /\ r[t] = balanceOf[t][Registrar] - Pend(frames, t)
    BY DEF ReserveNow
  <2> HIDE DEF r, p
  <2> QED BY ONLY <1>1, <1>2, <2>1, <2>2, <2>3
<1>4. r = [t \in Tokens |-> r[t]] /\ p = [t \in Tokens |-> p[t]]
  BY DEF ReserveNow
<1> HIDE DEF r, p
<1>5. p = Taken(r, Top.currency, x)
  BY ONLY <1>3, <1>4 DEF Taken
<1> QED BY <1>5 DEF r, p, x

\* cash.
LEMMA CashStep ==
    ASSUME StructureInv, StructureInv', CashCredit, Asked(Top)
    PROVE  NotaLedger!Cash
<1> DEFINE l == Ldg
           ll == Ldg'
           id == Top.id
           amount == Top.amount
           fee == Top.fee
           to == Top.to
<1>1. /\ frames # <<>> /\ Top.op = "cash" /\ Top.pc = "credit" /\ Leave
      /\ Top.op \in GuardedOps /\ Top.op \in GuardedOps \ {"write"}
      /\ UNCHANGED <<balanceOf, erc721Vars, notas, nextId>>
      /\ hookRevenue' = Credit(hookRevenue, Top.hooks, Top.currency, fee)
      /\ UNCHANGED <<protocolRevenue, protocolFee, govOwner>>
  BY DEF CashCredit, At, LeaveGuarded, CreditHook, erc20Vars, GuardedOps
<1>2. /\ id \in NotaIds /\ Exists(id) /\ notas[id] \in Nota
      /\ notas[id].currency = Top.currency /\ notas[id].hooks = Top.hooks
      /\ notas[id].escrowed \in Nat
  BY <1>1, NotaInProgress, EntriesAreInt
<1>3. /\ amount \in Amounts /\ fee \in HookFees /\ to \in Recipients
      /\ amount \in Nat /\ fee \in Nat /\ fee <= amount
  BY <1>1, Innermost, EVMAssumption DEF Asked, Answered, FrameType, Uint, Shape
<1>4. /\ CallsOf(frames') = NotaLedger!Outer
      /\ \A x : Hold(frames', x) = 0
      /\ \A x : Hold(frames, x) = IF x = id THEN amount ELSE 0
  <2>1. \A x : Held(Top, x) = IF x = id THEN amount ELSE 0
    BY <1>1 DEF Held
  <2>2. CallsOf(frames') = NotaLedger!Outer
        /\ \A x : Hold(frames', x) = 0 /\ Hold(frames, x) = Hold(frames', x) + Held(Top, x)
    BY <1>1, InnermostEnds
  <2> QED BY <1>3, <2>1, <2>2
<1> DEFINE T(e) == Terms(owners[id], tokenApprovals[id], notas[id].currency, notas[id].hooks, e)
           e == notas[id].escrowed
<1>5. /\ NotasNow' = Put(NotasNow, id, T(e)) /\ NotasNow[id] = T(e + amount)
  <2>1. /\ NotasNow' = Put(NotasNow, id,
                         Terms(owners'[id], tokenApprovals'[id], notas'[id].currency,
                               notas'[id].hooks, notas'[id].escrowed + Hold(frames', id)))
        /\ NotasNow[id] = Terms(owners[id], tokenApprovals[id], notas[id].currency,
                                notas[id].hooks, notas[id].escrowed + Hold(frames, id))
    BY <1>1, <1>2, <1>4, OneNotaChanges DEF erc721Vars
  <2>2. notas'[id].escrowed + Hold(frames', id) = e /\ Hold(frames, id) = amount
        /\ owners' = owners /\ tokenApprovals' = tokenApprovals /\ notas' = notas
    BY <1>1, <1>2, <1>4 DEF erc721Vars
  <2> QED BY <2>1, <2>2
<1>6. NotasNow' = Spent(NotasNow, id, amount)
  <2>1. Spent(NotasNow, id, amount) = Put(NotasNow, id, T((e + amount) - amount))
    BY <1>5, OnePut
  <2>2. (e + amount) - amount = e
    BY <1>2, <1>3
  <2> QED BY <1>5, <2>1, <2>2
<1>7. ReserveNow' = Taken(ReserveNow, Top.currency, NotaLedger!Paid(to, amount - fee))
  BY <1>1, ReserveTaken
<1>8. /\ l = Entries(NotasNow, nextId, operatorApprovals, hookRevenue, protocolRevenue,
                     ReserveNow, protocolFee, govOwner)
      /\ ll = Entries(NotasNow', nextId', operatorApprovals', hookRevenue', protocolRevenue',
                      ReserveNow', protocolFee', govOwner')
  BY LedgerNow
<1>9. /\ l = LedgerOf(Storage, frames, Len(frames))
      /\ ll = LedgerOf(Storage, frames, Len(frames))'
  BY DEF Ldg
<1>10. /\ NotaLedger!Exists(l, id) /\ NotasNow[id].hooks = Top.hooks
       /\ NotasNow[id].currency = Top.currency /\ l.notas[id].escrow = e + amount
  <2>1. NotasNow[id].escrow = e + amount
    BY <1>5 DEF Terms
  <2> QED BY <1>2, <2>1, NotaRead
<1>11. amount <= l.notas[id].escrow
  <2> HIDE DEF l, ll
  <2> QED BY <1>2, <1>3, <1>10
<1> HIDE DEF l, ll
<1>12. NotaLedger!CashNota(l, id, amount, fee, to)
         = Entries(Spent(NotasNow, id, amount), nextId, operatorApprovals,
                   Credit(hookRevenue, NotasNow[id].hooks, NotasNow[id].currency, fee),
                   protocolRevenue,
                   Taken(ReserveNow, NotasNow[id].currency, NotaLedger!Paid(to, amount - fee)),
                   protocolFee, govOwner)
  BY <1>8, LedgerCash
<1>13. ll = NotaLedger!CashNota(l, id, amount, fee, to)
  BY <1>1, <1>6, <1>7, <1>8, <1>10, <1>12 DEF erc721Vars
<1>14. NotaLedger!Innermost("cash") /\ NotaLedger!Call.id = id
  BY <1>1, InnermostCall DEF Done
<1> HIDE DEF id, amount, fee, to
<1> QED BY <1>3, <1>4, <1>9, <1>10, <1>11, <1>13, <1>14 DEF NotaLedger!Cash, NotaLedger!Finish

\* burn.
LEMMA BurnStep ==
    ASSUME OwnershipInv, StructureInv', BurnStore, Top.owner = Top.saved.owners[Top.id]
    PROVE  NotaLedger!Burn
<1> DEFINE l == Ldg
           ll == Ldg'
           id == Top.id
           e == notas[id].escrowed
<1>1. /\ frames # <<>> /\ Top.op = "burn" /\ Top.pc = "burn" /\ Leave
      /\ Top.op \in GuardedOps /\ Top.op \in GuardedOps \ {"write"} /\ Top.op \in MoveOps
      /\ UNCHANGED <<balanceOf, nextId, operatorApprovals>>
      /\ notas' = [notas EXCEPT ![id] = EmptyNota]
      /\ owners' = [owners EXCEPT ![id] = Null]
      /\ tokenApprovals' = [tokenApprovals EXCEPT ![id] = Null]
      /\ hookRevenue' = Credit(hookRevenue, Top.hooks, Top.currency, Top.escrowed)
      /\ UNCHANGED <<protocolRevenue, protocolFee, govOwner>>
  BY DEF BurnStore, At, LeaveGuarded, CreditHook, ERC721Burn, erc20Vars, GuardedOps, MoveOps
<1>2. /\ StructureInv /\ id \in NotaIds /\ Exists(id) /\ notas[id] \in Nota
      /\ notas[id].currency = Top.currency /\ notas[id].hooks = Top.hooks
      /\ e = Top.escrowed /\ e \in Nat
  <2>1. StructureInv
    BY PresentOwners
  <2>2. /\ id \in NotaIds /\ Exists(id) /\ notas[id] \in Nota
        /\ notas[id].currency = Top.currency /\ notas[id].hooks = Top.hooks /\ e \in Nat
    BY <1>1, <2>1, NotaInProgress, EntriesAreInt
  <2>3. CurrentIn(Storage, Top)
    BY <1>1, <2>1, Innermost
  <2> QED BY <1>1, <2>1, <2>2, <2>3, StorageFields DEF CurrentIn
<1>3. /\ CallsOf(frames') = NotaLedger!Outer
      /\ \A x : Hold(frames', x) = 0 /\ Hold(frames, x) = 0 /\ Pend(frames', x) = Pend(frames, x)
  BY <1>1, <1>2, NothingHeld, InnermostEnds
<1>4. /\ \A i \in NotaIds \ {id} :
           owners'[i] = owners[i] /\ tokenApprovals'[i] = tokenApprovals[i] /\ notas'[i] = notas[i]
      /\ owners'[id] = Null /\ tokenApprovals'[id] = Null /\ notas'[id] = EmptyNota
  BY <1>1, <1>2, Present DEF StorageOK, ERC721TypeOK
<1>5. /\ NotasNow' = Put(NotasNow, id, NotaLedger!Absent)
      /\ NotasNow[id] = Terms(owners[id], tokenApprovals[id], notas[id].currency,
                              notas[id].hooks, e)
      /\ NotasNow = [i \in NotaIds |-> NotasNow[i]]
  <2>1. /\ NotasNow' = Put(NotasNow, id,
                         Terms(owners'[id], tokenApprovals'[id], notas'[id].currency,
                               notas'[id].hooks, notas'[id].escrowed + Hold(frames', id)))
        /\ NotasNow[id] = Terms(owners[id], tokenApprovals[id], notas[id].currency,
                                notas[id].hooks, notas[id].escrowed + Hold(frames, id))
        /\ NotasNow = [i \in NotaIds |-> NotasNow[i]]
    BY <1>2, <1>3, <1>4, OneNotaChanges
  <2>2. notas'[id].escrowed + Hold(frames', id) = 0 /\ notas[id].escrowed + Hold(frames, id) = e
        /\ notas'[id].currency = Null /\ notas'[id].hooks = Null
    BY <1>2, <1>3, <1>4 DEF EmptyNota
  <2>3. NotaLedger!Absent = Terms(Null, Null, Null, Null, 0)
    BY DEF Terms, NotaLedger!Absent
  <2> QED BY <1>4, <2>1, <2>2, <2>3
<1>6. ReserveNow' = ReserveNow
  BY <1>1, <1>3, ReserveSame
<1>7. /\ l = Entries(NotasNow, nextId, operatorApprovals, hookRevenue, protocolRevenue,
                     ReserveNow, protocolFee, govOwner)
      /\ ll = Entries(NotasNow', nextId', operatorApprovals', hookRevenue', protocolRevenue',
                      ReserveNow', protocolFee', govOwner')
  BY LedgerNow
<1>8. /\ l = LedgerOf(Storage, frames, Len(frames))
      /\ ll = LedgerOf(Storage, frames, Len(frames))'
  BY DEF Ldg
<1>9. /\ NotaLedger!Exists(l, id) /\ NotasNow[id].hooks = Top.hooks
      /\ NotasNow[id].currency = Top.currency /\ l.notas[id].escrow = e
  <2>1. NotasNow[id].escrow = e
    BY <1>5 DEF Terms
  <2> QED BY <1>2, <2>1, NotaRead
<1> HIDE DEF l, ll
<1>10. NotaLedger!ChargeFee(l, id, e)
         = Entries(Spent(NotasNow, id, e), nextId, operatorApprovals, hookRevenue',
                   protocolRevenue, ReserveNow, protocolFee, govOwner)
  BY <1>1, <1>2, <1>7, <1>9, LedgerFee
<1>11. Replaced(NotaLedger!ChargeFee(l, id, e), id, NotaLedger!Absent)
         = Entries(Put(Spent(NotasNow, id, e), id, NotaLedger!Absent), nextId,
                   operatorApprovals, hookRevenue', protocolRevenue, ReserveNow, protocolFee,
                   govOwner)
  BY <1>10, LedgerNotas
<1>12. Put(Spent(NotasNow, id, e), id, NotaLedger!Absent) = NotasNow'
  BY <1>2, <1>5, FeeThen
<1>13. ll = Replaced(NotaLedger!ChargeFee(l, id, l.notas[id].escrow), id, NotaLedger!Absent)
  BY <1>1, <1>6, <1>7, <1>9, <1>11, <1>12
<1>14. ll = NotaLedger!BurnNota(l, id)
  BY <1>13 DEF Replaced, NotaLedger!BurnNota
<1>15. /\ NotaLedger!Innermost("burn") /\ NotaLedger!Call.id = id
       /\ NotaLedger!MayMove(NotaLedger!Call.before, NotaLedger!Call.caller, NotaLedger!Call.id)
  BY <1>1, <1>2, InnermostCall, EntitledAtCall DEF Done
<1> HIDE DEF id
<1> QED BY <1>3, <1>8, <1>9, <1>14, <1>15 DEF NotaLedger!Burn, NotaLedger!Finish

\* A function that has taken effect returns.
LEMMA AcceptStep ==
    ASSUME StructureInv, ReceiverAccepts
    PROVE  NotaLedger!Return
<1>1. /\ frames # <<>> /\ Top.pc = "receiver" /\ Leave
      /\ UNCHANGED <<erc20Vars, erc721Vars, govVars, notas, nextId>>
  BY DEF ReceiverAccepts, At, LeaveGuarded
<1>2. \A x : Held(Top, x) = 0 /\ Pending(Top, x) = 0
  BY <1>1 DEF Held, Pending
<1>3. /\ CallsOf(frames') = NotaLedger!Outer
      /\ \A x : Hold(frames', x) = Hold(frames, x) /\ Pend(frames', x) = Pend(frames, x)
  <2>1. /\ CallsOf(frames') = NotaLedger!Outer
        /\ \A x : /\ Hold(frames', x) \in Int /\ Pend(frames', x) \in Int
                  /\ Hold(frames, x) = Hold(frames', x) + Held(Top, x)
                  /\ Pend(frames, x) = Pend(frames', x) + Pending(Top, x)
    BY <1>1, InnermostEnds
  <2> QED BY <1>2, <2>1
<1>4. Ldg' = Ldg
  <2>1. NotasNow' = NotasNow /\ ReserveNow' = ReserveNow
    BY <1>1, <1>3, NotasSame, ReserveSame DEF erc20Vars, erc721Vars
  <2> QED BY <1>1, <2>1, LedgerSame DEF erc721Vars, govVars
<1>5. NotaLedger!Innermost("done")
  BY <1>1, InnermostCall DEF Done
<1> QED BY <1>3, <1>4, <1>5 DEF NotaLedger!Return, NotaLedger!Finish, Ldg

\* A withdrawal has been paid, and returns.
LEMMA WithdrawPayStep ==
    ASSUME StructureInv, \A t \in Tokens : MoneyInv(t), NEW op, WithdrawPay(op)
    PROVE  NotaLedger!Return
<1>1. /\ frames # <<>> /\ Top.pc = "withdraw" /\ Leave
      /\ MoveTokens(Top.currency, Registrar, Top.to, Top.amount)
      /\ UNCHANGED <<erc721Vars, govVars, notas, nextId>>
  BY DEF WithdrawPay, At, TokenTransfer
<1>2. /\ Top.amount \in Uint /\ Top.currency \in Tokens /\ Top.to \in MaybeAccount
      /\ Top.amount \in Nat
  BY <1>1, Innermost, EVMAssumption DEF FrameType, Uint
<1>3. /\ \A x : Held(Top, x) = 0
      /\ \A t : Pending(Top, t) = (IF t = Top.currency /\ Top.to # Registrar THEN Top.amount
                                   ELSE 0)
  BY <1>1 DEF Held, Pending
<1>4. /\ CallsOf(frames') = NotaLedger!Outer
      /\ \A x : /\ Hold(frames', x) \in Int /\ Pend(frames', x) \in Int
                /\ Hold(frames, x) = Hold(frames', x) + Held(Top, x)
                /\ Pend(frames, x) = Pend(frames', x) + Pending(Top, x)
  BY <1>1, InnermostEnds
<1>5. NotasNow' = NotasNow
  <2>1. \A x : Hold(frames', x) = Hold(frames, x)
    BY <1>3, <1>4
  <2> QED BY <1>1, <2>1, NotasSame DEF erc721Vars
<1>6. ASSUME NEW t \in Tokens
      PROVE  balanceOf'[t][Registrar] - Pend(frames', t) = balanceOf[t][Registrar] - Pend(frames, t)
  <2>0. MoneyInv(t)
    OBVIOUS
  <2>1. /\ balanceOf[t][Registrar] \in Nat /\ balanceOf'[t][Registrar] \in Nat
        /\ Top.to # Registrar =>
             balanceOf'[t][Registrar]
               = balanceOf[t][Registrar] - (IF Top.currency = t THEN Top.amount ELSE 0)
        /\ Top.to = Registrar => balanceOf'[t][Registrar] = balanceOf[t][Registrar]
    BY <1>1, <1>2, <2>0, RegistrarPaysMoney
  <2>2. Pending(Top, t) = (IF t = Top.currency /\ Top.to # Registrar THEN Top.amount ELSE 0)
    BY <1>3
  <2>3. Pend(frames, t) = Pend(frames', t) + Pending(Top, t) /\ Pend(frames', t) \in Int
    BY <1>4
  <2> QED BY ONLY <1>2, <2>1, <2>2, <2>3
<1>7. ReserveNow' = ReserveNow
  BY <1>6, ReserveSame
<1>8. Ldg' = Ldg
  BY <1>1, <1>5, <1>7, LedgerSame DEF erc721Vars, govVars
<1>9. NotaLedger!Innermost("done")
  BY <1>1, InnermostCall DEF Done
<1> QED BY <1>4, <1>8, <1>9 DEF NotaLedger!Return, NotaLedger!Finish, Ldg

\* What a storage is as a ledger does not depend on its guard.
LEMMA Undone ==
    ASSUME NEW s, RestoreBut(s)
    PROVE  \A fs, n : LedgerOf(Storage', fs, n) = LedgerOf(s, fs, n)
BY StorageFieldsNext DEF RestoreBut, LedgerOf, NotaIn, ReserveIn

\* A function that fails leaves the ledger it began with.
LEMMA FailStep ==
    ASSUME StructureInv, Revert
    PROVE  NotaLedger!Fail
<1>1. frames # <<>> /\ Leave /\ RestoreBut(Top.saved)
  BY DEF Revert
<1>2. Len(frames') = Len(frames) - 1 /\ SamePrefix(frames', frames, Len(frames'))
  BY <1>1, Present, OuterStack DEF Leave, Outer
<1>3. LedgerOf(Storage', frames', Len(frames')) = LedgerOf(Top.saved, frames', Len(frames'))
  BY <1>1, Undone
<1>4. LedgerOf(Top.saved, frames', Len(frames')) = Began
  BY <1>2, LedgerPrefix DEF Began
<1>5. /\ CallsOf(frames') = NotaLedger!Outer /\ CallsOf(frames) # <<>>
      /\ NotaLedger!Call.before = Began
  BY <1>1, InnermostEnds, InnermostCall, CallNow
<1> QED BY <1>3, <1>4, <1>5 DEF NotaLedger!Fail

\* The ledger knows of the functions in progress what they hold and what they owe.
LEMMA SumsMakeLedger ==
    ASSUME NEW s, NEW fs, NEW gs, NEW n, NEW m,
           \A x : /\ SumFunctionOnSet(HeldAt(fs, n, x), 1 .. n)
                       = SumFunctionOnSet(HeldAt(gs, m, x), 1 .. m)
                  /\ SumFunctionOnSet(PendingAt(fs, n, x), 1 .. n)
                       = SumFunctionOnSet(PendingAt(gs, m, x), 1 .. m)
    PROVE  LedgerOf(s, fs, n) = LedgerOf(s, gs, m)
BY DEF LedgerOf, NotaIn, ReserveIn

\* The hook of a burn has answered, or has failed and burn goes on all the same.
LEMMA BurnAllowedStep ==
    ASSUME StructureInv, StructureInv', NEW ok \in BOOLEAN, BurnAllowed(ok)
    PROVE  NotaLedger!HookFails \/ UNCHANGED NotaLedger!vars
<1> DEFINE f == [Top EXCEPT !.pc = "burn"]
           hs == Outer(frames)
<1>1. frames # <<>> /\ Top.op = "burn" /\ Top.pc = "hook" /\ Continue(f)
  BY DEF BurnAllowed, At
<1>2. f \in FrameType /\ SameCall(f, Top) /\ f.pc = "burn"
  <2>1. Top \in FrameType /\ "burn" \in Pcs
    BY <1>1, Innermost DEF Pcs
  <2> QED BY <2>1, StillSameCall
<1> HIDE DEF f
<1>3. ~Done(f) /\ ~Done(Top) /\ \A x : /\ Held(f, x) = 0 /\ Held(Top, x) = 0
                                       /\ Pending(f, x) = 0 /\ Pending(Top, x) = 0
  BY <1>1, <1>2 DEF Done, Held, Pending
<1>4. CASE ok = TRUE
  <2>1. UNCHANGED <<erc20Vars, erc721Vars, govVars, notas, nextId>>
    BY <1>4 DEF BurnAllowed
  <2>2. UNCHANGED <<erc721Vars, hookRevenue, protocolRevenue, protocolFee, govOwner, nextId>>
        /\ UNCHANGED <<balanceOf, notas>>
    BY <2>1 DEF erc20Vars, govVars
  <2>3. \A id \in NotaIds :
          /\ notas'[id].currency = notas[id].currency /\ notas'[id].hooks = notas[id].hooks
          /\ notas'[id].escrowed + Held(f, id) = notas[id].escrowed + Held(Top, id)
    BY <1>3, <2>2
  <2>4. \A t \in Tokens : balanceOf'[t][Registrar] - Pending(f, t)
                            = balanceOf[t][Registrar] - Pending(Top, t)
    BY <1>3, <2>2
  <2>5. UNCHANGED NotaLedger!vars
    BY <1>1, <1>2, <1>3, <2>2, <2>3, <2>4, GoesOnQuietly
  <2> QED BY <2>5
<1>5. CASE ok = FALSE
  <2>1. RestoreBut(Top.saved)
    BY <1>5 DEF BurnAllowed
  <2>2. /\ frames' = [frames EXCEPT ![Len(frames)] = f]
        /\ frames' \in Seq(FrameType) /\ frames \in Seq(FrameType)
    BY <1>1, <1>2, Present, ReplacedStack DEF Continue
  <2>3. /\ hs \in Seq(FrameType) /\ Len(hs) = Len(frames) - 1
        /\ SamePrefix(hs, frames, Len(hs))
    BY <1>1, Present, OuterStack
  <2>4. \A x : Hold(frames', x) = Hold(hs, x) /\ Pend(frames', x) = Pend(hs, x)
    <3>1. \A x : /\ Hold(hs, x) \in Int /\ Pend(hs, x) \in Int
                 /\ Hold(frames', x) = Hold(hs, x) + Held(f, x)
                 /\ Pend(frames', x) = Pend(hs, x) + Pending(f, x)
      BY <1>1, <1>2, <2>2, InnermostHolds
    <3> QED BY <1>3, <3>1
  <2> HIDE DEF hs
  <2>5. LedgerOf(Top.saved, frames', Len(frames')) = LedgerOf(Top.saved, hs, Len(hs))
    BY <2>4, SumsMakeLedger DEF Hold, Pend
  <2>6. LedgerOf(Top.saved, hs, Len(hs)) = Began
    BY <2>3, LedgerPrefix DEF Began
  <2>7. LedgerOf(Storage', frames', Len(frames')) = LedgerOf(Top.saved, frames', Len(frames'))
    BY <2>1, Undone
  <2>8. CallsOf(frames') = CallsOf(frames)
    BY <1>1, <1>2, <1>3, <2>2, CallGoesOn
  <2>9. NotaLedger!Innermost("burn") /\ NotaLedger!Call.before = Began
    BY <1>1, <1>3, InnermostCall
  <2>10. NotaLedger!HookFails
    BY <2>5, <2>6, <2>7, <2>8, <2>9 DEF NotaLedger!HookFails
  <2> QED BY <2>10
<1> QED BY <1>4, <1>5

-----------------------------------------------------------------------------
(* The arguments of the functions in progress.                              *)

\* f was called with arguments the registrar takes, and remembers whose its nota was.
Called(f) == Asked(f) /\ (f.op \in MoveOps => f.owner = f.saved.owners[f.id])

ArgumentsInv == \A k \in 1 .. Len(frames) : Called(frames[k])

\* A function keeps its arguments until it ends.
LEMMA ArgumentsKept ==
    ASSUME StructureInv, ArgumentsInv, [Next]_vars
    PROVE  ArgumentsInv'
<1>1. frames \in Seq(FrameType) /\ Len(frames) \in Nat
  BY Present
<1>2. CASE frames' = frames
  BY <1>2 DEF ArgumentsInv
<1>3. ASSUME NEW f, Starts(f) PROVE ArgumentsInv'
  <2>1. /\ Len(frames') = Len(frames) + 1 /\ frames'[Len(frames) + 1] = f
        /\ \A k \in 1 .. Len(frames) : frames'[k] = frames[k]
    BY <1>1, <1>3 DEF Starts
  <2>2. Called(f)
    BY <1>3, StorageFields DEF Starts, Lawful, Called
  <2>3. ASSUME NEW k \in 1 .. Len(frames') PROVE Called(frames'[k])
    <3>1. k \in 1 .. Len(frames) \/ k = Len(frames) + 1
      BY <1>1, <2>1
    <3> QED BY <2>1, <2>2, <3>1 DEF ArgumentsInv
  <2> QED BY <2>3 DEF ArgumentsInv
<1>4. ASSUME NEW f, GoesOn(f) PROVE ArgumentsInv'
  <2>1. /\ Len(frames) \in Nat \ {0} /\ Len(frames') = Len(frames)
        /\ frames'[Len(frames)] = f
        /\ \A k \in 1 .. Len(frames) - 1 : frames'[k] = frames[k]
    BY <1>1, <1>4 DEF GoesOn
  <2> DEFINE g == Top
  <2>2. /\ SameCall(f, g)
        /\ f.pc \in Answered => (f.fee \in HookFees \/ (g.pc \in Answered /\ f.fee = g.fee))
    BY <1>4 DEF GoesOn
  <2>3. Called(g)
    BY <2>1 DEF ArgumentsInv, Top
  <2> HIDE DEF g
  <2>4. f.pc \in Answered => f.fee \in HookFees
    BY <2>2, <2>3 DEF Called, Asked
  <2>5. Asked(f)
    BY <2>2, <2>3, <2>4, Zenon DEF Called, Asked, SameCall
  <2>6. Called(f)
    BY <2>2, <2>3, <2>5 DEF Called, SameCall
  <2> QED BY <2>1, <2>6 DEF ArgumentsInv
<1>5. CASE Ends
  <2>1. /\ Len(frames') = Len(frames) - 1
        /\ \A k \in 1 .. Len(frames) - 1 : frames'[k] = frames[k]
    BY <1>1, <1>5, Shorter DEF Ends
  <2> QED BY <1>1, <2>1 DEF ArgumentsInv
<1> QED BY StackMoves, <1>2, <1>3, <1>4, <1>5

-----------------------------------------------------------------------------
(* The steps of the registrar are steps of the ledger.                      *)

\* All that is needed of a state.
RefinementInv == OwnershipInv /\ ArgumentsInv /\ \A t \in Tokens : MoneyInv(t)

LEMMA InProgress ==
    ASSUME RefinementInv, frames # <<>>
    PROVE  /\ Asked(Top)
           /\ Top.op \in MoveOps => Top.owner = Top.saved.owners[Top.id]
<1>1. Len(frames) \in 1 .. Len(frames)
  BY PresentOwners DEF RefinementInv
<1> QED BY <1>1 DEF RefinementInv, ArgumentsInv, Called, Top

\* A function goes on.
LEMMA ProceedStep ==
    ASSUME RefinementInv, StructureInv', Proceed
    PROVE  [NotaLedger!Next]_(NotaLedger!vars)
<1> USE DEF NotaLedger!Next
<1>1. /\ OwnershipInv /\ StructureInv /\ \A t \in Tokens : MoneyInv(t)
  BY PresentOwners DEF RefinementInv
<1>2. frames # <<>> /\ Asked(Top)
  <2>1. frames # <<>>
    BY ZenonT(30) DEF Proceed, AskForEscrow, CashDebit, ApproveStore, UpdateStore,
       TransferStore, HookAnswers, PullEscrow, PayInstant, WriteStore, FundStore, CashPay,
       CashCredit, ReceiverAccepts, BurnAllowed, BurnStore, WithdrawPay, At
  <2> QED BY <2>1, InProgress
<1>3. ASSUME NEW fee \in HookFees, NEW op \in {"write", "fund"}, AskForEscrow(op, fee)
      PROVE  UNCHANGED NotaLedger!vars
  BY <1>1, <1>3, AskForEscrowQuiet
<1>4. ASSUME NEW fee \in HookFees, CashDebit(fee)
      PROVE  UNCHANGED NotaLedger!vars
  BY <1>1, <1>4, CashDebitQuiet
<1>5. ASSUME NEW fee \in HookFees, ApproveStore(fee)
      PROVE  NotaLedger!Approve
  BY <1>1, <1>2, <1>5, ApproveStep
<1>6. ASSUME NEW fee \in HookFees, UpdateStore(fee)
      PROVE  NotaLedger!Update
  BY <1>1, <1>6, UpdateStep
<1>7. ASSUME NEW fee \in HookFees, NEW op \in {"transferFrom", "safeTransferFrom"},
             TransferStore(op, fee)
      PROVE  NotaLedger!Transfer \/ NotaLedger!SafeTransfer
  <2>1. Top.op \in MoveOps
    BY <1>7 DEF TransferStore, HookAnswers, At, MoveOps
  <2> QED BY <1>1, <1>2, <1>7, <2>1, InProgress, TransferStep
<1>8. ASSUME NEW op \in {"write", "fund"}, PullEscrow(op)
      PROVE  UNCHANGED NotaLedger!vars
  BY <1>1, <1>8, PullEscrowQuiet
<1>9. ASSUME NEW op \in {"write", "fund"}, PayInstant(op)
      PROVE  NotaLedger!Immediate \/ UNCHANGED NotaLedger!vars
  BY <1>1, <1>2, <1>9, PayInstantStep
<1>10. CASE WriteStore
  <2>1. NotaLedger!Write
    BY <1>1, <1>2, <1>10, WriteStep
  <2> QED BY <2>1
<1>11. CASE FundStore
  <2>1. NotaLedger!Fund
    BY <1>1, <1>2, <1>11, FundStep
  <2> QED BY <2>1
<1>12. CASE CashPay
  BY <1>1, <1>12, CashPayQuiet
<1>13. CASE CashCredit
  <2>1. NotaLedger!Cash
    BY <1>1, <1>2, <1>13, CashStep
  <2> QED BY <2>1
<1>14. CASE ReceiverAccepts
  <2>1. NotaLedger!Return
    BY <1>1, <1>14, AcceptStep
  <2> QED BY <2>1
<1>15. ASSUME NEW ok \in BOOLEAN, BurnAllowed(ok)
       PROVE  NotaLedger!HookFails \/ UNCHANGED NotaLedger!vars
  BY <1>1, <1>15, BurnAllowedStep
<1>16. CASE BurnStore
  <2>1. Top.op \in MoveOps
    BY <1>16 DEF BurnStore, At, MoveOps
  <2>2. NotaLedger!Burn
    BY <1>1, <1>2, <1>16, <2>1, InProgress, BurnStep
  <2> QED BY <2>2
<1>17. ASSUME NEW op \in {"hookWithdraw", "protocolWithdraw"}, WithdrawPay(op)
       PROVE  NotaLedger!Return
  BY <1>1, <1>17, WithdrawPayStep
<1> QED BY <1>3, <1>4, <1>5, <1>6, <1>7, <1>8, <1>9, <1>10, <1>11, <1>12, <1>13, <1>14,
       <1>15, <1>16, <1>17, ZenonT(60) DEF Proceed

\* Something runs that is not guarded.
LEMMA UnguardedStep ==
    ASSUME RefinementInv, StructureInv', Unguarded
    PROVE  [NotaLedger!Next]_(NotaLedger!vars)
<1>1. StructureInv /\ \A t \in Tokens : MoneyInv(t)
  BY PresentOwners DEF RefinementInv
<1>2. ASSUME NEW t \in Tokens, NEW to \in GovRecipients, NEW h \in HookContracts,
             NEW amount \in GovAmounts, HookWithdrawCall(h, t, amount, to)
      PROVE  NotaLedger!HookWithdraw
  BY <1>1, <1>2, HookWithdrawStep
<1>3. ASSUME NEW t \in Tokens, NEW to \in GovRecipients, NEW caller \in GovOwners,
             NEW amount \in ProtocolAmounts, ProtocolWithdrawCall(caller, t, amount, to)
      PROVE  NotaLedger!ProtocolWithdraw
  BY <1>1, <1>3, ProtocolWithdrawStep
<1>4. ASSUME NEW caller \in GovOwners, AdministerCall(caller)
      PROVE  NotaLedger!Immediate
  BY <1>1, <1>4, AdministerStep
<1>5. ASSUME NEW caller \in Callers, NEW operator \in Operators, NEW approved \in BOOLEAN,
             SetApprovalForAllCall(caller, operator, approved)
      PROVE  NotaLedger!Immediate
  BY <1>1, <1>5, SetApprovalForAllStep
<1>6. ASSUME NEW t \in Tokens, NEW caller \in Callers, TokenCall(t, caller)
      PROVE  NotaLedger!Immediate \/ UNCHANGED NotaLedger!vars
  BY <1>1, <1>6, TokenCallStep
<1> QED BY <1>2, <1>3, <1>4, <1>5, <1>6, ZenonT(60) DEF Unguarded, NotaLedger!Next

\* The registrar takes a step.
LEMMA RefinementStep ==
    ASSUME RefinementInv, StructureInv', [Next]_vars
    PROVE  [NotaLedger!Next]_(NotaLedger!vars)
<1>1. StructureInv
  BY PresentOwners DEF RefinementInv
<1>2. ASSUME NEW caller \in Callers, Call(caller) PROVE NotaLedger!Start
  BY <1>1, <1>2, CallStep
<1>3. CASE Proceed
  BY <1>3, ProceedStep
<1>4. CASE Unguarded
  BY <1>4, UnguardedStep
<1>5. CASE Revert
  BY <1>1, <1>5, FailStep DEF NotaLedger!Next
<1>6. CASE UNCHANGED vars
  <2>1. UNCHANGED <<Storage, frames>>
    BY <1>6 DEF vars, Storage, evmVars, erc20Vars, erc721Vars, govVars
  <2> QED BY <2>1 DEF NotaLedger!vars
<1> QED BY <1>2, <1>3, <1>4, <1>5, <1>6 DEF Next, NotaLedger!Next

\* At first the ledger is empty and there is no call.
LEMMA RefinementInit ==
    ASSUME Init
    PROVE  NotaLedger!Init
<1>1. frames = <<>> /\ Len(frames) = 0
  BY DEF Init, EVMInit
<1>2. \A x : Hold(frames, x) = 0 /\ Pend(frames, x) = 0
  <2>1. 1 .. Len(frames) = {} /\ IsFiniteSet(1 .. Len(frames))
    BY <1>1, FS_EmptySet
  <2> QED BY <2>1, ZeroSum DEF Hold, Pend
<1>3. CallsOf(frames) = <<>>
  <2>1. Len(CallsOf(frames)) = 0 /\ \E S : CallsOf(frames) \in Seq(S)
    <3>1. frames \in Seq(FrameType)
      BY InitSound, Present
    <3> QED BY <1>1, <3>1, CallsList
  <2>2. PICK S : CallsOf(frames) \in Seq(S)
    BY <2>1
  <2> QED BY <2>1, <2>2, EmptySeq
<1>4. NotasNow = [id \in NotaIds |-> NotaLedger!Absent]
  BY <1>2 DEF NotasNow, Init, ERC721Init, EmptyNota, NotaLedger!Absent
<1>5. ReserveNow = [t \in Tokens |-> 0]
  <2>1. \A t \in Tokens : balanceOf[t][Registrar] - Pend(frames, t) = 0
    BY <1>2, NotaRegistrarAssumption DEF Init
  <2> QED BY <2>1 DEF ReserveNow
<1> DEFINE l == Ldg
<1>6. l = Entries(NotasNow, nextId, operatorApprovals, hookRevenue, protocolRevenue,
                  ReserveNow, protocolFee, govOwner)
  BY LedgerNow
<1>7. l = LedgerOf(Storage, frames, Len(frames))
  BY DEF Ldg
<1> HIDE DEF l
<1>8. /\ l.notas = NotasNow /\ l.nextId = nextId /\ l.operators = operatorApprovals
      /\ l.revenue = hookRevenue /\ l.protocol = protocolRevenue /\ l.reserve = ReserveNow
      /\ l.fee = protocolFee /\ l.owner = govOwner
  BY <1>6, EntriesRead
<1>9. /\ nextId = 1 /\ operatorApprovals = [a \in Accounts |-> {}]
      /\ hookRevenue = [h \in HookContracts |-> [t \in Tokens |-> 0]]
      /\ protocolRevenue = [t \in Tokens |-> 0] /\ protocolFee = 0 /\ govOwner \in GovOwners
  BY DEF Init, ERC721Init, GovStart
<1> QED BY <1>3, <1>4, <1>5, <1>7, <1>8, <1>9 DEF NotaLedger!Init

\* The registrar implements the ledger: whatever hooks, currencies and receivers do in the
\* middle of its functions, every function takes effect in one step or not at all, and only
\* what it is for, by a caller who may.
THEOREM Refinement == Spec => ImplementsLedger
<1>1. Init => ArgumentsInv
  <2>1. Init => Len(frames) = 0
    BY DEF Init, EVMInit
  <2> QED BY <2>1 DEF ArgumentsInv
<1>2. StructureInv /\ ArgumentsInv /\ [Next]_vars => ArgumentsInv'
  BY ArgumentsKept
<1>3. Spec => []ArgumentsInv
  BY <1>1, <1>2, Structure, PTL DEF Spec
<1> DEFINE MoneyInEach == \A t \in Tokens : MoneyInv(t)
<1>4. OwnershipInv /\ ArgumentsInv /\ MoneyInEach /\ StructureInv' /\ [Next]_vars
        => [NotaLedger!Next]_(NotaLedger!vars)
  BY RefinementStep DEF RefinementInv
<1>5. Init => NotaLedger!Init
  BY RefinementInit
<1>6. Spec => []MoneyInEach
  BY MoneyInvariant
<1> HIDE DEF MoneyInEach
<1> QED BY <1>3, <1>4, <1>5, <1>6, Ownership, Structure, PTL
       DEF Spec, ImplementsLedger, NotaLedger!Spec
=============================================================================
