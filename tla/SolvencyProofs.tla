--------------------------- MODULE SolvencyProofs ---------------------------
(***************************************************************************)
(* The registrar's money, proved for every number of accounts, notas,      *)
(* hooks, currencies and nested calls: tokens are conserved, the registrar *)
(* holds what it owes at every moment, and no credit of it can overflow.   *)
(*                                                                         *)
(* The books are sums: the escrow of all notas, the revenue of all hooks,  *)
(* and what the functions in progress are about to pay or to book.  A step *)
(* changes one entry of each, and the lemmas on sums turn that into a      *)
(* change of the total.  As in RegistrarProofs the invariant is about all  *)
(* levels of the stack, since a revert brings back both an older storage   *)
(* and older claims on it.                                                 *)
(***************************************************************************)
EXTENDS RegistrarProofs, SumTheorems, ElasticCurrencies

\* No one pays the registrar's own address.
Quiet == Registrar \notin Recipients \cup GovRecipients

\* x is enough for y, and no more than that when no one pays the registrar's own address.
Covers(x, y) == x >= y /\ (Quiet => x = y)

Conserved(s, t) ==
    SumFunctionOnSet(s.balanceOf[t], Accounts) = SumFunctionOnSet(Supply[t], Accounts)

\* What holds of the money of a storage s in currency t under the first n functions of fs.
Money(s, fs, n, t) ==
    Conserved(s, t) /\ Covers(s.balanceOf[t][Registrar], Liabilities(s, fs, n, t))

MoneyLevels(s, fs, t) == \A k \in 0 .. Len(fs) : Money(Level(s, fs, k), fs, k, t)

MoneyInv(t) == StructureInv /\ MoneyLevels(Storage, frames, t)

\* The two sums in Booked.
EscrowTotal(s, t) == SumFunctionOnSet(Escrow(s, t), NotaIds)

EarningsTotal(s, t) == SumFunctionOnSet(Earnings(s, t), HookContracts)

\* The claims of the first n functions of fs.
Claims(fs, n, t) == SumFunctionOnSet(Dues(fs, n, t), 1 .. n)

-----------------------------------------------------------------------------
(* The claims of the functions in progress.                                 *)

\* A function claims a natural number of tokens.
LEMMA DueIsNat ==
    ASSUME NEW f \in FrameType, NEW t
    PROVE  Due(f, t) \in Nat
<1>1. f.amount \in Nat /\ f.fee \in Nat
  BY EVMAssumption DEF FrameType, Uint
<1> QED BY <1>1 DEF Due

\* Claims of an empty stack, and of one more function.
LEMMA ClaimsStep ==
    ASSUME NEW fs, NEW n \in Nat, \A k \in 1 .. n + 1 : fs[k] \in FrameType, NEW t
    PROVE  /\ Claims(fs, n, t) \in Int
           /\ Claims(fs, n + 1, t) = Claims(fs, n, t) + Due(fs[n + 1], t)
<1> DEFINE f == Dues(fs, n, t)
           g == Dues(fs, n + 1, t)
<1>1. /\ \A k \in 1 .. n + 1 : g[k] \in Int
      /\ \A k \in 1 .. n : f[k] = g[k]
      /\ g[n + 1] = Due(fs[n + 1], t)
  BY DueIsNat DEF Dues
<1> HIDE DEF f, g
<1>2. /\ SumFunctionOnSet(f, 1 .. n) \in Int
      /\ SumFunctionOnSet(g, 1 .. n + 1) = SumFunctionOnSet(f, 1 .. n) + g[n + 1]
  BY <1>1, SumLast
<1> QED BY <1>1, <1>2 DEF Claims, f, g

\* Claims depend on the first n functions only.
LEMMA ClaimsSame ==
    ASSUME NEW fs, NEW gs, NEW n \in Nat, SamePrefix(fs, gs, n), NEW t
    PROVE  Claims(fs, n, t) = Claims(gs, n, t)
<1>1. Dues(fs, n, t) = Dues(gs, n, t)
  BY DEF Dues, SamePrefix
<1> QED BY <1>1 DEF Claims

\* So does what covers them.
LEMMA MoneyPrefix ==
    ASSUME NEW s, NEW fs, NEW gs, NEW n \in Nat, \A k \in 1 .. n : fs[k] = gs[k], NEW t,
           Money(s, fs, n, t)
    PROVE  Money(s, gs, n, t)
<1>1. Claims(fs, n, t) = Claims(gs, n, t)
  <2>1. SamePrefix(fs, gs, n)
    BY DEF SamePrefix
  <2> QED BY <2>1, ClaimsSame
<1> QED BY <1>1 DEF Money, Liabilities, Claims

-----------------------------------------------------------------------------
(* What is booked.                                                          *)

\* The index sets of the sums are finite.
LEMMA Finite == IsFiniteSet(Accounts) /\ IsFiniteSet(HookContracts) /\ IsFiniteSet(NotaIds)
<1>1. IsFiniteSet(Accounts) /\ HookContracts \subseteq Accounts
  BY NotaRegistrarAssumption, GovAssumption
<1>2. IsFiniteSet(NotaIds)
  <2>1. MaxNotas \in Int /\ 1 \in Int /\ NotaIds = 1 .. MaxNotas
    BY NotaRegistrarAssumption
  <2> QED BY <2>1, FS_Interval
<1> QED BY <1>1, <1>2, FS_Subset

\* Every escrow and every revenue of a typed storage is a word.
LEMMA BooksAreWords ==
    ASSUME NEW s \in StorageType, NEW t \in Tokens
    PROVE  /\ \A id \in NotaIds : Escrow(s, t)[id] \in Nat
           /\ \A h \in HookContracts : Earnings(s, t)[h] \in Nat
           /\ s.protocolRevenue[t] \in Nat
           /\ \A a \in Accounts : s.balanceOf[t][a] \in Nat
<1>1. Uint \subseteq Nat
  BY EVMAssumption DEF Uint
<1>2. \A id \in NotaIds : s.notas[id].escrowed \in Nat
  <2>1. \A id \in NotaIds : s.notas[id] \in Nota \/ s.notas[id] = EmptyNota
    BY DEF StorageType
  <2> QED BY <1>1, <2>1 DEF Nota, EmptyNota
<1>3. \A h \in HookContracts : s.hookRevenue[h][t] \in Nat
  BY <1>1 DEF StorageType, Books
<1>4. s.protocolRevenue[t] \in Nat
  BY <1>1 DEF StorageType
<1>5. \A a \in Accounts : s.balanceOf[t][a] \in Nat
  BY <1>1 DEF StorageType, Ledger
<1> QED BY <1>2, <1>3, <1>4, <1>5 DEF Escrow, Earnings

\* So are their totals.
LEMMA TotalsAreNat ==
    ASSUME NEW s \in StorageType, NEW t \in Tokens
    PROVE  EscrowTotal(s, t) \in Nat /\ EarningsTotal(s, t) \in Nat
BY BooksAreWords, Finite, SumBounds DEF EscrowTotal, EarningsTotal

\* So what is booked is a number, and at least any one escrow plus any one revenue.
LEMMA BookedBounds ==
    ASSUME NEW s \in StorageType, NEW t \in Tokens
    PROVE  /\ Booked(s, t) \in Nat
           /\ \A id \in NotaIds, h \in HookContracts :
                Escrow(s, t)[id] + Earnings(s, t)[h] <= Booked(s, t)
<1>1. /\ SumFunctionOnSet(Escrow(s, t), NotaIds) \in Nat
      /\ \A id \in NotaIds : Escrow(s, t)[id] <= SumFunctionOnSet(Escrow(s, t), NotaIds)
  BY BooksAreWords, Finite, SumBounds
<1>2. /\ SumFunctionOnSet(Earnings(s, t), HookContracts) \in Nat
      /\ \A h \in HookContracts :
           Earnings(s, t)[h] <= SumFunctionOnSet(Earnings(s, t), HookContracts)
  BY BooksAreWords, Finite, SumBounds
<1> QED BY <1>1, <1>2, BooksAreWords DEF Booked

\* The sum over the notas, when one entry changes.
LEMMA EscrowSum ==
    ASSUME NEW x \in NotaIds, NEW u, NEW v, \A y \in NotaIds : u[y] \in Int /\ v[y] \in Int,
           \A y \in NotaIds \ {x} : v[y] = u[y]
    PROVE  /\ SumFunctionOnSet(u, NotaIds) \in Int
           /\ SumFunctionOnSet(v, NotaIds) = SumFunctionOnSet(u, NotaIds) + v[x] - u[x]
<1>1. IsFiniteSet(NotaIds)
  BY Finite
<1> QED BY <1>1, SumUpdate

\* The sum over the hooks.
LEMMA EarningsSum ==
    ASSUME NEW x \in HookContracts, NEW u, NEW v,
           \A y \in HookContracts : u[y] \in Int /\ v[y] \in Int,
           \A y \in HookContracts \ {x} : v[y] = u[y]
    PROVE  /\ SumFunctionOnSet(u, HookContracts) \in Int
           /\ SumFunctionOnSet(v, HookContracts)
                = SumFunctionOnSet(u, HookContracts) + v[x] - u[x]
<1>1. IsFiniteSet(HookContracts)
  BY Finite
<1> QED BY <1>1, SumUpdate

\* The escrows stay when the notas do, and the revenues when theirs do.
LEMMA TotalsSame ==
    ASSUME NEW t \in Tokens
    PROVE  /\ UNCHANGED notas => EscrowTotal(Storage', t) = EscrowTotal(Storage, t)
           /\ UNCHANGED hookRevenue => EarningsTotal(Storage', t) = EarningsTotal(Storage, t)
<1>1. ASSUME UNCHANGED notas PROVE Escrow(Storage', t) = Escrow(Storage, t)
  BY <1>1, StorageFields, StorageFieldsNext DEF Escrow
<1>2. ASSUME UNCHANGED hookRevenue PROVE Earnings(Storage', t) = Earnings(Storage, t)
  BY <1>2, StorageFields, StorageFieldsNext DEF Earnings
<1> QED BY <1>1, <1>2 DEF EscrowTotal, EarningsTotal

\* One nota that changes changes the sum of the escrows by as much.
LEMMA EscrowStep ==
    ASSUME StorageOK, StorageOK', NEW id \in NotaIds, NEW t \in Tokens,
           \A i \in NotaIds \ {id} : notas'[i] = notas[i]
    PROVE  EscrowTotal(Storage', t)
             = EscrowTotal(Storage, t) + Escrow(Storage', t)[id] - Escrow(Storage, t)[id]
<1> DEFINE f == Escrow(Storage, t)
           g == Escrow(Storage', t)
<1>1. Storage \in StorageType /\ Storage' \in StorageType
  BY StorageTyped, StorageTypedNext
<1>2. \A i \in NotaIds : f[i] \in Int /\ g[i] \in Int
  BY <1>1, BooksAreWords
<1>3. \A i \in NotaIds \ {id} : g[i] = f[i]
  BY StorageFields, StorageFieldsNext DEF Escrow
<1> HIDE DEF f, g
<1>4. /\ SumFunctionOnSet(f, NotaIds) \in Int
      /\ SumFunctionOnSet(g, NotaIds) = SumFunctionOnSet(f, NotaIds) + g[id] - f[id]
  BY <1>2, <1>3, EscrowSum
<1> QED BY <1>4 DEF f, g, EscrowTotal

\* One hook's revenue that changes changes the sum of the revenues by as much.
LEMMA EarningsStep ==
    ASSUME StorageOK, StorageOK', NEW h \in HookContracts, NEW t \in Tokens,
           \A g \in HookContracts \ {h} : hookRevenue'[g][t] = hookRevenue[g][t]
    PROVE  EarningsTotal(Storage', t)
             = EarningsTotal(Storage, t) + hookRevenue'[h][t] - hookRevenue[h][t]
<1> DEFINE f == Earnings(Storage, t)
           g == Earnings(Storage', t)
<1>1. Storage \in StorageType /\ Storage' \in StorageType
  BY StorageTyped, StorageTypedNext
<1>2. \A i \in HookContracts : f[i] \in Int /\ g[i] \in Int
  BY <1>1, BooksAreWords
<1>3. \A i \in HookContracts : f[i] = hookRevenue[i][t] /\ g[i] = hookRevenue'[i][t]
  BY StorageFields, StorageFieldsNext DEF Earnings
<1>4. \A i \in HookContracts \ {h} : g[i] = f[i]
  BY <1>3
<1> HIDE DEF f, g
<1>5. /\ SumFunctionOnSet(f, HookContracts) \in Int
      /\ SumFunctionOnSet(g, HookContracts)
           = SumFunctionOnSet(f, HookContracts) + g[h] - f[h]
  BY <1>2, <1>4, EarningsSum
<1> QED BY <1>3, <1>5 DEF f, g, EarningsTotal

-----------------------------------------------------------------------------
(* What a payment does.                                                     *)

\* A number that fits in a word is not changed by the wrap.
LEMMA Fits ==
    ASSUME NEW n \in Uint
    PROVE  n % (MaxUint + 1) = n
BY EVMAssumption DEF Uint

\* A payment in a token whose supply fits in a word moves the amount and nothing else.
LEMMA MovedSum ==
    ASSUME NEW b \in [Accounts -> Uint], SumFunctionOnSet(b, Accounts) <= MaxUint,
           NEW from \in Accounts, NEW to \in Accounts, NEW amount \in Uint,
           b[from] >= amount, NEW m, m = Moved(b, from, to, amount)
    PROVE  /\ SumFunctionOnSet(m, Accounts) = SumFunctionOnSet(b, Accounts)
           /\ \A a \in Accounts \ {from, to} : m[a] = b[a]
           /\ from # to => m[from] = b[from] - amount /\ m[to] = b[to] + amount
           /\ from = to => m[from] = b[from]
<1> DEFINE d == [b EXCEPT ![from] = b[from] - amount]
<1>1. b[from] - amount \in Uint /\ amount \in Nat /\ Uint \subseteq Nat /\ Uint \subseteq Int
  BY EVMAssumption DEF Uint
<1>2. /\ d \in [Accounts -> Uint] /\ d[from] = b[from] - amount
      /\ \A a \in Accounts \ {from} : d[a] = b[a]
  BY <1>1
<1>3. m = [d EXCEPT ![to] = (d[to] + amount) % (MaxUint + 1)]
  BY DEF Moved
<1> HIDE DEF d
<1>4. /\ SumFunctionOnSet(b, Accounts) \in Int
      /\ SumFunctionOnSet(d, Accounts) = SumFunctionOnSet(b, Accounts) - amount
  <2>1. \A a \in Accounts : b[a] \in Int /\ d[a] \in Int
    BY <1>1, <1>2
  <2>2. /\ SumFunctionOnSet(b, Accounts) \in Int
        /\ SumFunctionOnSet(d, Accounts) = SumFunctionOnSet(b, Accounts) + d[from] - b[from]
    BY <1>2, <2>1, Finite, SumUpdate
  <2> QED BY <1>1, <1>2, <2>1, <2>2
<1>5. d[to] + amount \in Uint
  <2>1. \A a \in Accounts : d[a] \in Nat
    BY <1>1, <1>2
  <2>2. d[to] <= SumFunctionOnSet(d, Accounts)
    BY <2>1, Finite, SumBounds
  <2> QED BY <1>1, <1>4, <2>1, <2>2, EVMAssumption DEF Uint
<1>6. /\ m \in [Accounts -> Uint] /\ m[to] = d[to] + amount
      /\ \A a \in Accounts \ {to} : m[a] = d[a]
  BY <1>2, <1>3, <1>5, Fits
<1>7. SumFunctionOnSet(m, Accounts) = SumFunctionOnSet(b, Accounts)
  <2>1. \A a \in Accounts : d[a] \in Int /\ m[a] \in Int
    BY <1>1, <1>2, <1>6
  <2>2. /\ SumFunctionOnSet(d, Accounts) \in Int
        /\ SumFunctionOnSet(m, Accounts) = SumFunctionOnSet(d, Accounts) + m[to] - d[to]
    BY <1>6, <2>1, Finite, SumUpdate
  <2> QED BY <1>1, <1>4, <1>6, <2>1, <2>2
<1>8. \A a \in Accounts \ {from, to} : m[a] = b[a]
  BY <1>2, <1>6
<1>9. b[from] \in Nat /\ b[to] \in Nat
  BY <1>1
<1>10. from # to => m[from] = b[from] - amount /\ m[to] = b[to] + amount
  BY <1>2, <1>6
<1>11. from = to => m[from] = b[from]
  BY <1>1, <1>2, <1>6, <1>9
<1> QED BY <1>7, <1>8, <1>10, <1>11

\* A payment of u keeps the supply of every currency, the balances in the others, and
\* changes what the registrar holds of u by what it pays or gets.
LEMMA MoveTokensMoney ==
    ASSUME StorageOK, NEW t \in Tokens, Conserved(Storage, t), NEW u \in Tokens,
           NEW from \in Accounts, NEW to \in MaybeAccount, NEW amount \in Uint,
           MoveTokens(u, from, to, amount)
    PROVE  /\ Conserved(Storage', t)
           /\ balanceOf'[t][Registrar] \in Nat /\ balanceOf[t][Registrar] \in Nat
           /\ t # u => balanceOf'[t][Registrar] = balanceOf[t][Registrar]
           /\ from # Registrar => balanceOf'[t][Registrar] >= balanceOf[t][Registrar]
           /\ from # Registrar /\ to # Registrar =>
                balanceOf'[t][Registrar] = balanceOf[t][Registrar]
           /\ t = u /\ from = Registrar =>
                balanceOf'[t][Registrar] >= balanceOf[t][Registrar] - amount
           /\ t = u /\ from = Registrar /\ to # Registrar =>
                balanceOf'[t][Registrar] = balanceOf[t][Registrar] - amount
           /\ t = u /\ from # Registrar /\ to = Registrar =>
                balanceOf'[t][Registrar] = balanceOf[t][Registrar] + amount
           /\ from = to => balanceOf'[t][Registrar] = balanceOf[t][Registrar]
<1> DEFINE m == Moved(balanceOf[u], from, to, amount)
<1>1. /\ balanceOf \in Ledger /\ balanceOf[u] \in [Accounts -> Uint] /\ to \in Accounts
      /\ balanceOf[u][from] >= amount /\ Registrar \in Accounts
      /\ balanceOf[t][Registrar] \in Nat
  BY EVMAssumption DEF StorageOK, ERC20TypeOK, Ledger, MoveTokens, MaybeAccount, Uint
<1>2. balanceOf' = [balanceOf EXCEPT ![u] = m]
  BY DEF MoveTokens
<1>3. CASE t # u
  <2>1. balanceOf'[t] = balanceOf[t]
    BY <1>1, <1>2, <1>3 DEF Ledger
  <2>2. Conserved(Storage', t)
    BY <2>1, StorageFields, StorageFieldsNext DEF Conserved
  <2> QED BY <1>1, <1>3, <2>1, <2>2
<1>4. CASE t = u
  <2> DEFINE b == balanceOf[t]
  <2>1. SumFunctionOnSet(b, Accounts) <= MaxUint
    BY StorageFields, NotaRegistrarAssumption DEF Conserved
  <2>2. b \in [Accounts -> Uint] /\ b[from] >= amount /\ m = Moved(b, from, to, amount)
    BY <1>1, <1>4
  <2>3. m \in [Accounts -> Uint]
    BY <1>1, <2>2, MovedType
  <2>4. balanceOf'[t] = m
    BY <1>1, <1>2, <1>4 DEF Ledger
  <2>5. balanceOf[t] = b
    OBVIOUS
  <2> HIDE DEF b, m
  <2>6. /\ SumFunctionOnSet(m, Accounts) = SumFunctionOnSet(b, Accounts)
        /\ \A a \in Accounts \ {from, to} : m[a] = b[a]
        /\ from # to => m[from] = b[from] - amount /\ m[to] = b[to] + amount
        /\ from = to => m[from] = b[from] /\ m[to] = b[to]
    BY <1>1, <2>1, <2>2, MovedSum
  <2>7. Conserved(Storage', t)
    BY <2>4, <2>5, <2>6, StorageFields, StorageFieldsNext DEF Conserved
  <2>8. m[Registrar] \in Nat /\ b[Registrar] \in Nat /\ amount \in Nat
    BY <1>1, <2>2, <2>3, EVMAssumption DEF Uint
  <2>9. /\ from # Registrar => m[Registrar] >= b[Registrar]
        /\ from # Registrar /\ to # Registrar => m[Registrar] = b[Registrar]
        /\ from = Registrar => m[Registrar] >= b[Registrar] - amount
        /\ from = Registrar /\ to # Registrar => m[Registrar] = b[Registrar] - amount
        /\ from # Registrar /\ to = Registrar => m[Registrar] = b[Registrar] + amount
        /\ from = to => m[Registrar] = b[Registrar]
    BY <1>1, <2>6, <2>8
  <2> QED BY <1>4, <2>4, <2>5, <2>7, <2>8, <2>9
<1> QED BY <1>3, <1>4

-----------------------------------------------------------------------------
(* The ways a step changes the stack, and how the money follows.            *)

\* What the registrar holds of t beyond what it has booked.
Free(t) == balanceOf[t][Registrar] - Booked(Storage, t)

\* The same after a step.
FreeNext(t) == balanceOf'[t][Registrar] - Booked(Storage', t)

\* Both are numbers, and the present one covers the claims of the stack.
LEMMA Covered ==
    ASSUME NEW t \in Tokens, MoneyInv(t)
    PROVE  /\ Money(Storage, frames, Len(frames), t) /\ Conserved(Storage, t)
           /\ Free(t) \in Int /\ Claims(frames, Len(frames), t) \in Int
           /\ Covers(Free(t), Claims(frames, Len(frames), t))
<1>1. StructureInv /\ StorageOK /\ frames \in Seq(FrameType) /\ Len(frames) \in Nat
      /\ Storage \in StorageType
  BY Present, StorageTyped DEF MoneyInv
<1>2. Level(Storage, frames, Len(frames)) = Storage
  BY DEF Level
<1>3. Money(Storage, frames, Len(frames), t)
  BY <1>1, <1>2 DEF MoneyInv, MoneyLevels
<1>4. Booked(Storage, t) \in Nat /\ balanceOf[t][Registrar] \in Nat
  BY <1>1, BookedBounds, BooksAreWords, StorageFields, EVMAssumption
<1>5. Claims(frames, Len(frames), t) \in Int
  <2>1. \A k \in 1 .. Len(frames) : frames[k] \in FrameType
    BY <1>1
  <2>2. CASE Len(frames) = 0
    <3>1. Claims(frames, 0, t) \in Int
      BY SumBounds, FS_EmptySet, FS_Interval DEF Claims
    <3> QED BY <2>2, <3>1
  <2>3. CASE Len(frames) # 0
    <3> DEFINE n == Len(frames) - 1
    <3>1. n \in Nat /\ Len(frames) = n + 1
      BY <1>1, <2>3
    <3> HIDE DEF n
    <3>2. /\ Claims(frames, n, t) \in Int
          /\ Claims(frames, n + 1, t) = Claims(frames, n, t) + Due(frames[n + 1], t)
      BY <2>1, <3>1, ClaimsStep
    <3>3. Due(frames[n + 1], t) \in Nat
      BY <2>1, <3>1, DueIsNat
    <3> QED BY <3>1, <3>2, <3>3
  <2> QED BY <2>2, <2>3
<1>6. Covers(balanceOf[t][Registrar], Booked(Storage, t) + Claims(frames, Len(frames), t))
  BY <1>3, StorageFields DEF Money, Liabilities, Claims
<1>7. Free(t) \in Int /\ Covers(Free(t), Claims(frames, Len(frames), t))
  BY <1>4, <1>5, <1>6 DEF Free, Covers
<1> QED BY <1>3, <1>5, <1>7 DEF Money

\* A storage after a step is covered when its free tokens cover the claims on it.
LEMMA CoveredNext ==
    ASSUME StructureInv', NEW t \in Tokens, Conserved(Storage', t), NEW gs, NEW n \in Nat,
           Claims(gs, n, t) \in Int, Covers(FreeNext(t), Claims(gs, n, t))
    PROVE  Money(Storage', gs, n, t)
<1>1. Storage' \in StorageType
  BY DEF StructureInv, TypeOK
<1>2. Booked(Storage', t) \in Nat /\ balanceOf'[t][Registrar] \in Nat
  BY <1>1, BookedBounds, BooksAreWords, StorageFieldsNext, EVMAssumption
<1>3. Covers(balanceOf'[t][Registrar], Booked(Storage', t) + Claims(gs, n, t))
  BY <1>2 DEF FreeNext, Covers
<1> QED BY <1>3, StorageFieldsNext DEF Money, Liabilities, Claims

\* What covers one claim covers another when it grows as much as the claim, or more where
\* that may be.
LEMMA CoversMore ==
    ASSUME NEW x \in Int, NEW y \in Int, NEW c \in Int, NEW d \in Int,
           Covers(x, c), Covers(y, x + d)
    PROVE  Covers(y, c + d)
BY DEF Covers

\* Claims on the stack below its innermost function.
LEMMA ClaimsBelow ==
    ASSUME StructureInv, frames # <<>>, NEW t
    PROVE  /\ Claims(frames, Len(frames) - 1, t) \in Int /\ Due(Top, t) \in Nat
           /\ Claims(frames, Len(frames), t) = Claims(frames, Len(frames) - 1, t) + Due(Top, t)
<1> DEFINE n == Len(frames) - 1
<1>1. /\ frames \in Seq(FrameType) /\ n \in Nat /\ Len(frames) = n + 1
      /\ Top = frames[n + 1] /\ Top \in FrameType
  BY Present, Innermost
<1>2. \A k \in 1 .. n + 1 : frames[k] \in FrameType
  BY <1>1
<1> HIDE DEF n
<1>3. /\ Claims(frames, n, t) \in Int
      /\ Claims(frames, n + 1, t) = Claims(frames, n, t) + Due(frames[n + 1], t)
  BY <1>1, <1>2, ClaimsStep
<1> QED BY <1>1, <1>3, DueIsNat DEF n

\* A function starts: what is free must cover its claim besides the others.
LEMMA EnterMoney ==
    ASSUME NEW t \in Tokens, MoneyInv(t), StructureInv', NEW f \in FrameType,
           f.saved = Storage, frames' = Append(frames, f), Conserved(Storage', t),
           FreeNext(t) \in Int, Covers(FreeNext(t), Free(t) + Due(f, t))
    PROVE  MoneyInv(t)'
<1>1. /\ frames \in Seq(FrameType) /\ Len(frames) \in Nat
      /\ Len(frames') = Len(frames) + 1
      /\ \A k \in 1 .. Len(frames) : frames'[k] = frames[k]
      /\ frames'[Len(frames) + 1] = f
  BY Present DEF MoneyInv
<1>2. ASSUME NEW k \in 0 .. Len(frames)
      PROVE  Money(Level(Storage', frames', k), frames', k, t)
  <2>1. Level(Storage', frames', k) = Level(Storage, frames, k)
    BY <1>1 DEF Level
  <2>2. k \in Nat /\ \A j \in 1 .. k : frames[j] = frames'[j]
    BY <1>1
  <2> QED BY <2>1, <2>2, MoneyPrefix DEF MoneyInv, MoneyLevels
<1>3. Money(Storage', frames', Len(frames) + 1, t)
  <2>1. \A k \in 1 .. Len(frames) + 1 : frames'[k] \in FrameType
    BY <1>1
  <2>2. /\ Claims(frames', Len(frames), t) \in Int
        /\ Claims(frames', Len(frames) + 1, t)
             = Claims(frames', Len(frames), t) + Due(frames'[Len(frames) + 1], t)
    BY <1>1, <2>1, ClaimsStep
  <2>3. Claims(frames', Len(frames), t) = Claims(frames, Len(frames), t)
    <3>1. Len(frames) \in Nat /\ SamePrefix(frames', frames, Len(frames))
      BY <1>1 DEF SamePrefix
    <3> QED BY <3>1, ClaimsSame
  <2>4. Free(t) \in Int /\ Covers(Free(t), Claims(frames, Len(frames), t))
    BY Covered
  <2>5. Due(f, t) \in Int
    BY DueIsNat
  <2>6. /\ Claims(frames', Len(frames) + 1, t) \in Int
        /\ Covers(FreeNext(t), Claims(frames', Len(frames) + 1, t))
    <3> DEFINE c == Claims(frames, Len(frames), t)
    <3>1. c \in Int /\ Claims(frames', Len(frames) + 1, t) = c + Due(f, t)
      BY <1>1, <2>2, <2>3
    <3>2. Covers(Free(t), c) /\ Free(t) \in Int
      BY <2>4
    <3> HIDE DEF c
    <3>3. Covers(FreeNext(t), c + Due(f, t))
      BY <2>5, <3>1, <3>2, CoversMore
    <3> QED BY <2>5, <3>1, <3>3
  <2>7. Len(frames) + 1 \in Nat
    BY <1>1
  <2> QED BY <2>6, <2>7, CoveredNext
<1>4. Level(Storage', frames', Len(frames) + 1) = Storage'
  BY <1>1 DEF Level
<1>5. ASSUME NEW k \in 0 .. Len(frames')
      PROVE  Money(Level(Storage', frames', k), frames', k, t)
  <2>1. k \in 0 .. Len(frames) \/ k = Len(frames) + 1
    BY <1>1
  <2> QED BY <1>2, <1>3, <1>4, <2>1
<1> QED BY <1>5 DEF MoneyInv, MoneyLevels

\* Nothing starts or ends.
LEMMA RunMoney ==
    ASSUME NEW t \in Tokens, MoneyInv(t), StructureInv', frames' = frames,
           Conserved(Storage', t), FreeNext(t) \in Int, Covers(FreeNext(t), Free(t))
    PROVE  MoneyInv(t)'
<1>1. Money(Storage', frames, Len(frames), t)
  <2>1. /\ Free(t) \in Int /\ Claims(frames, Len(frames), t) \in Int
        /\ Covers(Free(t), Claims(frames, Len(frames), t))
    BY Covered
  <2>2. Covers(FreeNext(t), Claims(frames, Len(frames), t))
    BY <2>1 DEF Covers
  <2>3. Len(frames) \in Nat
    BY Present DEF MoneyInv
  <2> QED BY <2>1, <2>2, <2>3, CoveredNext
<1>2. ASSUME NEW k \in 0 .. Len(frames) PROVE Money(Level(Storage', frames, k), frames, k, t)
  <2>1. CASE k = Len(frames)
    BY <1>1, <2>1 DEF Level
  <2>2. CASE k # Len(frames)
    <3>1. Level(Storage', frames, k) = Level(Storage, frames, k)
      BY <2>2 DEF Level
    <3> QED BY <3>1 DEF MoneyInv, MoneyLevels
  <2> QED BY <2>1, <2>2
<1>3. MoneyLevels(Storage', frames, t)
  BY <1>2 DEF MoneyLevels
<1> QED BY <1>3 DEF MoneyInv

\* The innermost function goes on over a storage that covers all claims.
LEMMA ContinueLevelsMoney ==
    ASSUME NEW t \in Tokens, MoneyInv(t), StructureInv', frames # <<>>, NEW f \in FrameType,
           f.saved = Top.saved, Continue(f), Money(Storage', frames', Len(frames), t)
    PROVE  MoneyInv(t)'
<1>1. /\ frames \in Seq(FrameType) /\ Len(frames) \in Nat \ {0}
      /\ Top = frames[Len(frames)]
  BY Present, Innermost DEF MoneyInv
<1>2. /\ Len(frames') = Len(frames)
      /\ \A k \in 1 .. Len(frames) - 1 : frames'[k] = frames[k]
      /\ frames'[Len(frames)] = f
  BY <1>1 DEF Continue
<1>3. ASSUME NEW k \in 0 .. Len(frames) - 1
      PROVE  Money(Level(Storage', frames', k), frames', k, t)
  <2>1. Level(Storage', frames', k) = Level(Storage, frames, k)
    BY <1>1, <1>2 DEF Level
  <2>2. k \in Nat /\ \A j \in 1 .. k : frames[j] = frames'[j]
    BY <1>1, <1>2
  <2>3. Money(Level(Storage, frames, k), frames, k, t)
    BY <1>1 DEF MoneyInv, MoneyLevels
  <2> QED BY <2>1, <2>2, <2>3, MoneyPrefix
<1>4. Level(Storage', frames', Len(frames)) = Storage'
  BY <1>2 DEF Level
<1>5. ASSUME NEW k \in 0 .. Len(frames')
      PROVE  Money(Level(Storage', frames', k), frames', k, t)
  <2>1. k \in 0 .. Len(frames) - 1 \/ k = Len(frames)
    BY <1>1, <1>2
  <2> QED BY <1>3, <1>4, <2>1
<1> QED BY <1>5 DEF MoneyInv, MoneyLevels

\* It goes on with another claim.
LEMMA ContinueMoney ==
    ASSUME NEW t \in Tokens, MoneyInv(t), StructureInv', frames # <<>>, NEW f \in FrameType,
           f.saved = Top.saved, Continue(f), Conserved(Storage', t), FreeNext(t) \in Int,
           Covers(FreeNext(t), Free(t) + Due(f, t) - Due(Top, t))
    PROVE  MoneyInv(t)'
<1> DEFINE n == Len(frames) - 1
<1>1. frames \in Seq(FrameType) /\ n \in Nat /\ Len(frames) = n + 1
  BY Present, Innermost DEF MoneyInv
<1>2. /\ \A k \in 1 .. n : frames'[k] = frames[k]
      /\ \A k \in 1 .. n + 1 : frames'[k] \in FrameType
      /\ frames'[n + 1] = f
  <2>1. /\ \A k \in 1 .. Len(frames) - 1 : frames'[k] = frames[k]
        /\ frames'[Len(frames)] = f
    <3>1. frames \in Seq(FrameType) /\ Len(frames) \in Nat \ {0}
      BY Present, Innermost DEF MoneyInv
    <3> HIDE DEF n
    <3> QED BY <3>1 DEF Continue
  <2>2. \A k \in 1 .. Len(frames) : frames[k] \in FrameType
    BY <1>1
  <2> HIDE DEF n
  <2> QED BY <1>1, <2>1, <2>2
<1> HIDE DEF n
<1>3. /\ Claims(frames', n, t) \in Int
      /\ Claims(frames', n + 1, t) = Claims(frames', n, t) + Due(f, t)
  BY <1>1, <1>2, ClaimsStep
<1>4. Claims(frames', n, t) = Claims(frames, n, t)
  <2>1. n \in Nat /\ SamePrefix(frames', frames, n)
    BY <1>1, <1>2 DEF SamePrefix
  <2> QED BY <2>1, ClaimsSame
<1>5. /\ Claims(frames, n, t) \in Int /\ Due(Top, t) \in Nat
      /\ Claims(frames, n + 1, t) = Claims(frames, n, t) + Due(Top, t)
  <2>1. n = Len(frames) - 1
    BY DEF n
  <2> QED BY <1>1, <2>1, ClaimsBelow DEF MoneyInv
<1>6. /\ Free(t) \in Int /\ Claims(frames, n + 1, t) \in Int
      /\ Covers(Free(t), Claims(frames, n + 1, t))
  BY <1>1, Covered
<1>7. Claims(frames', n + 1, t) \in Int /\ Covers(FreeNext(t), Claims(frames', n + 1, t))
  <2>1. Due(f, t) \in Nat
    BY DueIsNat
  <2> DEFINE d == Due(f, t) - Due(Top, t)
  <2>2. d \in Int /\ Covers(FreeNext(t), Free(t) + d)
    <3>1. Free(t) + Due(f, t) - Due(Top, t) = Free(t) + d
      BY <1>5, <1>6, <2>1
    <3> QED BY <1>5, <2>1, <3>1
  <2>3. Claims(frames', n + 1, t) = Claims(frames, n + 1, t) + d
    BY <1>3, <1>4, <1>5, <2>1
  <2> HIDE DEF d
  <2> QED BY <1>6, <2>2, <2>3, CoversMore
<1>8. Money(Storage', frames', Len(frames), t)
  BY <1>1, <1>7, CoveredNext
<1> QED BY <1>8, ContinueLevelsMoney

\* The innermost function ends over a storage that covers the claims of the others.
LEMMA LeaveLevelsMoney ==
    ASSUME NEW t \in Tokens, MoneyInv(t), StructureInv', frames # <<>>, Leave,
           Money(Storage', frames, Len(frames) - 1, t)
    PROVE  MoneyInv(t)'
<1>1. frames \in Seq(FrameType) /\ Len(frames) \in Nat \ {0}
  BY Present, Innermost DEF MoneyInv
<1>2. /\ Len(frames') = Len(frames) - 1
      /\ \A k \in 1 .. Len(frames) - 1 : frames'[k] = frames[k]
  BY <1>1, Shorter DEF Leave
<1>3. ASSUME NEW k \in 0 .. Len(frames')
      PROVE  Money(Level(Storage', frames', k), frames', k, t)
  <2>1. k \in Nat /\ \A j \in 1 .. k : frames[j] = frames'[j]
    BY <1>1, <1>2
  <2>2. Money(Level(Storage', frames', k), frames, k, t)
    <3>1. CASE k = Len(frames) - 1
      BY <1>2, <3>1 DEF Level
    <3>2. CASE k # Len(frames) - 1
      <4>1. Level(Storage', frames', k) = Level(Storage, frames, k)
        BY <1>1, <1>2, <3>2 DEF Level
      <4>2. k \in 0 .. Len(frames)
        BY <1>1, <1>2
      <4> QED BY <4>1, <4>2 DEF MoneyInv, MoneyLevels
    <3> QED BY <3>1, <3>2
  <2> QED BY <2>1, <2>2, MoneyPrefix
<1> QED BY <1>3 DEF MoneyInv, MoneyLevels

\* It ends with its claim met.
LEMMA LeaveMoney ==
    ASSUME NEW t \in Tokens, MoneyInv(t), StructureInv', frames # <<>>, Leave,
           Conserved(Storage', t), FreeNext(t) \in Int,
           Covers(FreeNext(t), Free(t) - Due(Top, t))
    PROVE  MoneyInv(t)'
<1>1. /\ Claims(frames, Len(frames) - 1, t) \in Int /\ Due(Top, t) \in Nat
      /\ Claims(frames, Len(frames), t) = Claims(frames, Len(frames) - 1, t) + Due(Top, t)
  BY ClaimsBelow DEF MoneyInv
<1>2. Free(t) \in Int /\ Covers(Free(t), Claims(frames, Len(frames), t))
  BY Covered
<1>3. Covers(FreeNext(t), Claims(frames, Len(frames) - 1, t))
  BY <1>1, <1>2 DEF Covers
<1>4. Len(frames) - 1 \in Nat
  BY Innermost DEF MoneyInv
<1>5. Money(Storage', frames, Len(frames) - 1, t)
  BY <1>1, <1>3, <1>4, CoveredNext
<1> QED BY <1>5, LeaveLevelsMoney

\* It reverts.
LEMMA RevertMoney ==
    ASSUME NEW t \in Tokens, MoneyInv(t), StructureInv', Revert
    PROVE  MoneyInv(t)'
<1>1. frames # <<>> /\ Leave /\ StructureInv
  BY DEF Revert, MoneyInv
<1>2. Top.saved \in StorageType /\ Len(frames) \in Nat \ {0}
  BY <1>1, Innermost DEF FrameType
<1>3. Storage' = Top.saved
  BY <1>2 DEF Storage, StorageType, Revert, RestoreBut
<1>4. Level(Storage, frames, Len(frames) - 1) = Top.saved
  BY <1>2 DEF Level, Top
<1>5. Money(Storage', frames, Len(frames) - 1, t)
  <2>1. Len(frames) - 1 \in 0 .. Len(frames)
    BY <1>2
  <2> QED BY <1>3, <1>4, <2>1 DEF MoneyInv, MoneyLevels
<1> QED BY <1>1, <1>5, LeaveLevelsMoney

-----------------------------------------------------------------------------
(* What each step does to the tokens that are free.                         *)

\* The free tokens change with the balance, the escrows and the revenues.
LEMMA FreeParts ==
    ASSUME StructureInv, StructureInv', NEW t \in Tokens
    PROVE  /\ FreeNext(t) \in Int /\ Free(t) \in Int
           /\ EscrowTotal(Storage, t) \in Nat /\ EscrowTotal(Storage', t) \in Nat
           /\ EarningsTotal(Storage, t) \in Nat /\ EarningsTotal(Storage', t) \in Nat
           /\ protocolRevenue[t] \in Nat /\ protocolRevenue'[t] \in Nat
           /\ balanceOf[t][Registrar] \in Nat /\ balanceOf'[t][Registrar] \in Nat
           /\ Free(t) = balanceOf[t][Registrar]
                          - EscrowTotal(Storage, t) - EarningsTotal(Storage, t)
                          - protocolRevenue[t]
           /\ FreeNext(t) = balanceOf'[t][Registrar]
                          - EscrowTotal(Storage', t) - EarningsTotal(Storage', t)
                          - protocolRevenue'[t]
<1>1. Storage \in StorageType /\ Storage' \in StorageType /\ Registrar \in Accounts
  BY EVMAssumption DEF StructureInv, TypeOK
<1>2. /\ EscrowTotal(Storage, t) \in Nat /\ EscrowTotal(Storage', t) \in Nat
      /\ EarningsTotal(Storage, t) \in Nat /\ EarningsTotal(Storage', t) \in Nat
  BY <1>1, TotalsAreNat
<1>3. /\ protocolRevenue[t] \in Nat /\ protocolRevenue'[t] \in Nat
      /\ balanceOf[t][Registrar] \in Nat /\ balanceOf'[t][Registrar] \in Nat
  BY <1>1, BooksAreWords, StorageFields, StorageFieldsNext
<1>4. /\ Booked(Storage, t) = EscrowTotal(Storage, t) + EarningsTotal(Storage, t)
                                + protocolRevenue[t]
      /\ Booked(Storage', t) = EscrowTotal(Storage', t) + EarningsTotal(Storage', t)
                                + protocolRevenue'[t]
  BY StorageFields, StorageFieldsNext DEF Booked, EscrowTotal, EarningsTotal
<1> QED BY <1>2, <1>3, <1>4 DEF Free, FreeNext

\* The change of what is free, from the changes of what it is made of.
LEMMA FreeChange ==
    ASSUME StructureInv, StructureInv', NEW t \in Tokens
    PROVE  /\ FreeNext(t) \in Int /\ Free(t) \in Int
           /\ balanceOf'[t][Registrar] - balanceOf[t][Registrar] \in Int
           /\ EscrowTotal(Storage', t) - EscrowTotal(Storage, t) \in Int
           /\ EarningsTotal(Storage', t) - EarningsTotal(Storage, t) \in Int
           /\ protocolRevenue'[t] - protocolRevenue[t] \in Int
           /\ FreeNext(t) = Free(t) + (balanceOf'[t][Registrar] - balanceOf[t][Registrar])
                - ((EscrowTotal(Storage', t) - EscrowTotal(Storage, t))
                    + (EarningsTotal(Storage', t) - EarningsTotal(Storage, t)))
                - (protocolRevenue'[t] - protocolRevenue[t])
BY FreeParts

\* A step that only books: what is free falls by what the books grow.
LEMMA Booking ==
    ASSUME StructureInv, StructureInv', NEW t \in Tokens, NEW de \in Int, NEW dr \in Int,
           EscrowTotal(Storage', t) = EscrowTotal(Storage, t) + de,
           EarningsTotal(Storage', t) = EarningsTotal(Storage, t) + dr,
           UNCHANGED <<balanceOf, protocolRevenue>>
    PROVE  FreeNext(t) \in Int /\ Free(t) \in Int /\ FreeNext(t) = Free(t) - (de + dr)
<1>1. /\ EscrowTotal(Storage, t) \in Nat /\ EarningsTotal(Storage, t) \in Nat
      /\ protocolRevenue[t] \in Nat /\ balanceOf[t][Registrar] \in Nat
  BY FreeParts
<1>2. /\ balanceOf'[t][Registrar] - balanceOf[t][Registrar] = 0
      /\ protocolRevenue'[t] - protocolRevenue[t] = 0
      /\ EscrowTotal(Storage', t) - EscrowTotal(Storage, t) = de
      /\ EarningsTotal(Storage', t) - EarningsTotal(Storage, t) = dr
  <2>1. balanceOf'[t][Registrar] = balanceOf[t][Registrar]
        /\ protocolRevenue'[t] = protocolRevenue[t]
    OBVIOUS
  <2> QED BY <1>1, <2>1
<1>3. FreeNext(t) \in Int /\ Free(t) \in Int /\ FreeNext(t) = Free(t) + 0 - (de + dr) - 0
  BY <1>2, FreeChange
<1> QED BY <1>3

\* Steps that leave the books alone.
LEMMA BooksSame ==
    ASSUME StructureInv, StructureInv', UNCHANGED <<notas, govVars>>, NEW t \in Tokens
    PROVE  /\ FreeNext(t) \in Int /\ Free(t) \in Int
           /\ balanceOf[t][Registrar] \in Nat /\ balanceOf'[t][Registrar] \in Nat
           /\ FreeNext(t) = Free(t) + balanceOf'[t][Registrar] - balanceOf[t][Registrar]
BY FreeParts, TotalsSame DEF govVars

\* A credited fee adds to the revenues in its currency.
LEMMA CreditMoney ==
    ASSUME StorageOK, StorageOK', NEW f, f.hooks \in HookContracts, f.currency \in Tokens,
           NEW fee \in Uint, CreditHook(f, fee), NEW t \in Tokens
    PROVE  /\ EarningsTotal(Storage', t)
                = EarningsTotal(Storage, t) + (IF f.currency = t THEN fee ELSE 0)
           /\ protocolRevenue' = protocolRevenue
<1>1. hookRevenue' = [hookRevenue EXCEPT ![f.hooks][f.currency] =
                        hookRevenue[f.hooks][f.currency] + fee]
  BY DEF CreditHook, Credit
<1>2. hookRevenue \in Books
  BY DEF StorageOK, GovTypeOK
<1>3. /\ \A g \in HookContracts \ {f.hooks} : hookRevenue'[g][t] = hookRevenue[g][t]
      /\ hookRevenue'[f.hooks][t]
           = hookRevenue[f.hooks][t] + (IF f.currency = t THEN fee ELSE 0)
      /\ hookRevenue[f.hooks][t] \in Nat
  BY <1>1, <1>2, EVMAssumption DEF Books, Uint
<1>4. EarningsTotal(Storage, t) \in Nat /\ fee \in Nat
  BY StorageTyped, TotalsAreNat, EVMAssumption DEF Uint
<1>5. EarningsTotal(Storage', t)
        = EarningsTotal(Storage, t) + hookRevenue'[f.hooks][t] - hookRevenue[f.hooks][t]
  BY <1>3, EarningsStep
<1> QED BY <1>3, <1>4, <1>5 DEF CreditHook

\* A changed escrow changes the escrows in its currency.
LEMMA EscrowMoney ==
    ASSUME StorageOK, StorageOK', NEW id \in NotaIds, notas[id] \in Nota, NEW e \in Uint,
           notas' = [notas EXCEPT ![id].escrowed = e], NEW t \in Tokens
    PROVE  EscrowTotal(Storage', t) = EscrowTotal(Storage, t)
             + (IF notas[id].currency = t THEN e - notas[id].escrowed ELSE 0)
<1>1. notas \in [NotaIds -> Nota \cup {EmptyNota}]
  BY DEF StorageOK
<1>2. /\ \A i \in NotaIds \ {id} : notas'[i] = notas[i]
      /\ notas'[id] = [notas[id] EXCEPT !.escrowed = e]
  BY <1>1
<1>3. notas'[id].escrowed = e /\ notas'[id].currency = notas[id].currency
  BY <1>2 DEF Nota
<1>4. e \in Nat /\ notas[id].escrowed \in Nat
  BY EVMAssumption DEF Nota, Uint
<1>5. EscrowTotal(Storage, t) \in Nat
  BY StorageTyped, TotalsAreNat
<1>6. EscrowTotal(Storage', t)
        = EscrowTotal(Storage, t) + Escrow(Storage', t)[id] - Escrow(Storage, t)[id]
  BY <1>2, EscrowStep
<1> QED BY <1>3, <1>4, <1>5, <1>6, StorageFields, StorageFieldsNext DEF Escrow

\* The fee taken from an escrow changes hands inside the books.
LEMMA TakeFeeMoney ==
    ASSUME StructureInv, StructureInv', frames # <<>>, Top.op \in GuardedOps \ {"write"},
           Top.pc # "receiver", NEW fee \in Uint, TakeFee(Top, fee),
           UNCHANGED balanceOf, NEW t \in Tokens
    PROVE  FreeNext(t) \in Int /\ FreeNext(t) = Free(t)
<1>1. /\ Top.id \in NotaIds /\ notas[Top.id] \in Nota
      /\ notas[Top.id].currency = Top.currency
      /\ Top.currency \in Tokens /\ Top.hooks \in HookContracts
  BY NotaInProgress
<1>2. StorageOK /\ StorageOK'
  BY StorageTyped, StorageTypedNext DEF StructureInv, TypeOK
<1> DEFINE e == notas[Top.id].escrowed - fee
<1>3. e \in Uint /\ fee \in Nat /\ notas[Top.id].escrowed \in Nat
  BY <1>1, EVMAssumption DEF TakeFee, DebitNota, Nota, Uint
<1>4. notas' = [notas EXCEPT ![Top.id].escrowed = e]
  BY <1>1 DEF TakeFee, DebitNota
<1>5. EscrowTotal(Storage', t) = EscrowTotal(Storage, t)
        + (IF Top.currency = t THEN e - notas[Top.id].escrowed ELSE 0)
  BY <1>1, <1>2, <1>3, <1>4, EscrowMoney
<1> DEFINE dr == IF Top.currency = t THEN fee ELSE 0
           de == -dr
<1>6. /\ EarningsTotal(Storage', t) = EarningsTotal(Storage, t) + dr
      /\ protocolRevenue' = protocolRevenue
  BY <1>1, <1>2, CreditMoney DEF TakeFee
<1>7. de = (IF Top.currency = t THEN e - notas[Top.id].escrowed ELSE 0)
  <2>1. e - notas[Top.id].escrowed = -fee
    BY <1>3
  <2> HIDE DEF e
  <2> QED BY <2>1
<1>8. EscrowTotal(Storage', t) = EscrowTotal(Storage, t) + de
  BY <1>5, <1>7
<1>9. dr \in Int /\ de \in Int /\ de + dr = 0
  BY <1>3
<1> HIDE DEF dr, de, e
<1>10. FreeNext(t) \in Int /\ Free(t) \in Int /\ FreeNext(t) = Free(t) - (de + dr)
  BY <1>6, <1>8, <1>9, Booking
<1> QED BY <1>9, <1>10

-----------------------------------------------------------------------------
(* Who is paid.                                                             *)

\* When no one pays the registrar's own address, it owns no nota of the storage s and
\* none of the first n functions of fs names it.
PayeesIn(s, fs, n) ==
    Quiet => /\ \A id \in NotaIds : s.owners[id] # Registrar
             /\ \A k \in 1 .. n : fs[k].to # Registrar /\ fs[k].owner # Registrar

PayeesInv ==
    /\ StructureInv
    /\ \A k \in 0 .. Len(frames) : PayeesIn(Level(Storage, frames, k), frames, k)

\* What this says of the present storage, of the stack, and of the storage found by the
\* innermost function.
LEMMA PayeesNow ==
    ASSUME PayeesInv
    PROVE  Quiet => /\ \A id \in NotaIds : owners[id] # Registrar
                    /\ \A k \in 1 .. Len(frames) :
                         frames[k].to # Registrar /\ frames[k].owner # Registrar
                    /\ frames # <<>> => /\ Top.to # Registrar /\ Top.owner # Registrar
                                        /\ \A id \in NotaIds : Top.saved.owners[id] # Registrar
<1>1. Len(frames) \in Nat
  BY Present DEF PayeesInv
<1>2. PayeesIn(Storage, frames, Len(frames))
  <2>1. Level(Storage, frames, Len(frames)) = Storage
    BY DEF Level
  <2> QED BY <1>1, <2>1 DEF PayeesInv
<1>3. ASSUME frames # <<>>
      PROVE  /\ Len(frames) \in Nat \ {0} /\ Top = frames[Len(frames)]
             /\ PayeesIn(Top.saved, frames, Len(frames) - 1)
  <2>1. Len(frames) \in Nat \ {0} /\ Top = frames[Len(frames)]
    BY <1>3, Innermost DEF PayeesInv
  <2>2. /\ Level(Storage, frames, Len(frames) - 1) = Top.saved
        /\ Len(frames) - 1 \in 0 .. Len(frames)
    BY <2>1 DEF Level
  <2> QED BY <2>1, <2>2 DEF PayeesInv
<1>4. ASSUME Quiet
      PROVE  /\ \A id \in NotaIds : owners[id] # Registrar
             /\ \A k \in 1 .. Len(frames) :
                  frames[k].to # Registrar /\ frames[k].owner # Registrar
  BY <1>2, <1>4, StorageFields DEF PayeesIn
<1>5. ASSUME Quiet, frames # <<>>
      PROVE  /\ Top.to # Registrar /\ Top.owner # Registrar
             /\ \A id \in NotaIds : Top.saved.owners[id] # Registrar
  BY <1>3, <1>4, <1>5 DEF PayeesIn
<1> QED BY <1>4, <1>5

\* No step makes the registrar the owner of a nota.
LEMMA OwnersNext ==
    ASSUME PayeesInv, Quiet, [Next]_vars, NEW id \in NotaIds
    PROVE  owners'[id] # Registrar
<1>1. /\ StructureInv /\ owners \in [NotaIds -> MaybeAccount] /\ Registrar # Null
      /\ owners[id] # Registrar
  BY Present, PayeesNow, EVMAssumption DEF PayeesInv, StorageOK, ERC721TypeOK
<1>2. CASE RegistryKept
  BY <1>1, <1>2 DEF RegistryKept
<1>3. CASE RegistryRestored
  BY <1>3, PayeesNow DEF RegistryRestored
<1>4. CASE WriteStore
  BY <1>1, <1>4, PayeesNow DEF WriteStore, At, ERC721Mint
<1>5. CASE BurnStore
  BY <1>1, <1>5 DEF BurnStore, ERC721Burn
<1>6. ASSUME NEW fee, ApproveStore(fee) PROVE owners'[id] # Registrar
  BY <1>1, <1>6 DEF ApproveStore, ERC721Approve
<1>7. ASSUME NEW fee, NEW op, TransferStore(op, fee) PROVE owners'[id] # Registrar
  <2>1. Top.to # Registrar /\ ERC721Transfer(Top.from, Top.to, Top.id)
    BY <1>7, PayeesNow DEF TransferStore, HookAnswers, At
  <2> QED BY <1>1, <2>1 DEF ERC721Transfer
<1> QED BY <1>2, <1>3, <1>4, <1>5, <1>6, <1>7, RegistrySteps DEF RegistryWritten

\* Nor does one start that names the registrar, when no account does.
LEMMA FramesNext ==
    ASSUME PayeesInv, Quiet, [Next]_vars, NEW k \in 1 .. Len(frames')
    PROVE  frames'[k].to # Registrar /\ frames'[k].owner # Registrar
<1> DEFINE Unnamed(f) == f.to # Registrar /\ f.owner # Registrar
<1>1. /\ StructureInv /\ frames \in Seq(FrameType) /\ Len(frames) \in Nat
      /\ \A j \in 1 .. Len(frames) : Unnamed(frames[j])
      /\ frames # <<>> => Unnamed(Top) /\ Len(frames) \in Nat \ {0}
      /\ \A id \in NotaIds : owners[id] # Registrar
  BY Present, PayeesNow, Innermost DEF PayeesInv
<1>2. ASSUME NEW f, Starts(f) PROVE Unnamed(frames'[k])
  <2>1. Unnamed(f)
    BY <1>1, <1>2, EVMAssumption DEF Starts, Lawful, Quiet
  <2>2. frames' = Append(frames, f)
    BY <1>2 DEF Starts
  <2>3. k = Len(frames) + 1 \/ k \in 1 .. Len(frames)
    BY <1>1, <2>2
  <2>4. frames'[Len(frames) + 1] = f /\ \A j \in 1 .. Len(frames) : frames'[j] = frames[j]
    BY <1>1, <2>2
  <2> HIDE DEF Unnamed
  <2> QED BY <1>1, <2>1, <2>3, <2>4
<1>3. CASE frames' = frames
  BY <1>1, <1>3
<1>4. ASSUME NEW f, GoesOn(f) PROVE Unnamed(frames'[k])
  <2>1. Unnamed(f) /\ frames # <<>>
    BY <1>1, <1>4 DEF GoesOn, SameCall
  <2>2. /\ k \in 1 .. Len(frames)
        /\ frames'[k] = IF k = Len(frames) THEN f ELSE frames[k]
    BY <1>1, <1>4, <2>1 DEF GoesOn
  <2> HIDE DEF Unnamed
  <2> QED BY <1>1, <2>1, <2>2
<1>5. CASE Ends
  <2>1. k \in 1 .. Len(frames) - 1 /\ frames'[k] = frames[k] /\ Len(frames) \in Nat \ {0}
    BY <1>1, <1>5, Shorter DEF Ends
  <2>2. Unnamed(frames[k])
    BY <1>1, <2>1
  <2> QED BY <2>1, <2>2
<1> QED BY <1>1, <1>2, <1>3, <1>4, <1>5, StackMoves

\* Every step keeps this.
LEMMA PayeesKept ==
    ASSUME PayeesInv, [Next]_vars
    PROVE  PayeesInv'
<1>1. /\ StructureInv' /\ Len(frames') \in Nat
      /\ \A k \in 0 .. Len(frames') - 1 :
           /\ k \in 0 .. Len(frames)
           /\ Level(Storage', frames', k) = Level(Storage, frames, k)
           /\ SamePrefix(frames, frames', k)
  BY NextSound, LowerLevels DEF PayeesInv
<1>2. ASSUME NEW k \in 0 .. Len(frames') - 1
      PROVE  PayeesIn(Level(Storage', frames', k), frames', k)
  <2>1. /\ PayeesIn(Level(Storage, frames, k), frames, k)
        /\ \A j \in 1 .. k : frames[j] = frames'[j]
    BY <1>1 DEF PayeesInv, SamePrefix
  <2> QED BY <1>1, <2>1 DEF PayeesIn
<1>3. PayeesIn(Storage', frames', Len(frames'))
  BY OwnersNext, FramesNext, StorageFieldsNext DEF PayeesIn
<1>4. Level(Storage', frames', Len(frames')) = Storage'
  BY DEF Level
<1>5. ASSUME NEW k \in 0 .. Len(frames')
      PROVE  PayeesIn(Level(Storage', frames', k), frames', k)
  <2>1. k \in 0 .. Len(frames') - 1 \/ k = Len(frames')
    BY <1>1
  <2> QED BY <1>2, <1>3, <1>4, <2>1
<1> QED BY <1>1, <1>5 DEF PayeesInv

\* At first no nota has an owner and nothing is called.
LEMMA InitPayees == Init => PayeesInv
<1> SUFFICES ASSUME Init PROVE PayeesInv
  OBVIOUS
<1>1. StructureInv /\ frames = <<>> /\ \A id \in NotaIds : owners[id] = Null
  BY InitSound DEF Init, EVMInit, ERC721Init
<1>2. \A k \in 0 .. Len(frames) : k = 0 /\ Level(Storage, frames, k) = Storage
  BY <1>1 DEF Level
<1>3. PayeesIn(Storage, frames, 0)
  BY <1>1, StorageFields, EVMAssumption DEF PayeesIn
<1> QED BY <1>1, <1>2, <1>3 DEF PayeesInv

\* When no one pays the registrar's own address, it never owns a nota and no function is
\* ever asked to pay it: what it holds grows by escrows and fees only.
THEOREM PayeesInvariant == Spec => []PayeesInv
<1>1. PayeesInv /\ [Next]_vars => PayeesInv'
  BY PayeesKept
<1> QED BY <1>1, InitPayees, PTL DEF Spec

-----------------------------------------------------------------------------
(* The beginning, the calls, and what runs without the guard.               *)

\* At first nothing is held and nothing is owed.
LEMMA InitMoney ==
    ASSUME Init, NEW t \in Tokens
    PROVE  MoneyInv(t)
<1>1. frames = <<>> /\ balanceOf = Supply /\ StructureInv
  BY InitSound DEF Init, EVMInit
<1>2. Conserved(Storage, t)
  BY <1>1, StorageFields DEF Conserved
<1>3. balanceOf[t][Registrar] = 0 /\ Liabilities(Storage, frames, 0, t) = 0
  <2>1. \A id \in NotaIds : Escrow(Storage, t)[id] = 0
    BY StorageFields DEF Init, EmptyNota, Escrow
  <2>2. \A h \in HookContracts : Earnings(Storage, t)[h] = 0
    BY StorageFields DEF Init, GovStart, Earnings
  <2>3. SumFunctionOnSet(Dues(frames, 0, t), 1 .. 0) = 0
    BY FS_EmptySet, FS_Interval, ZeroSum
  <2>4. protocolRevenue[t] = 0 /\ balanceOf[t][Registrar] = 0
    BY <1>1, NotaRegistrarAssumption DEF Init, GovStart
  <2>5. /\ SumFunctionOnSet(Escrow(Storage, t), NotaIds) = 0
        /\ SumFunctionOnSet(Earnings(Storage, t), HookContracts) = 0
    BY <2>1, <2>2, Finite, ZeroSum
  <2> QED BY <2>3, <2>4, <2>5, StorageFields DEF Liabilities, Booked
<1>4. Money(Storage, frames, 0, t)
  BY <1>2, <1>3, StorageFields DEF Money, Covers
<1>5. Len(frames) = 0 /\ \A k \in 0 .. Len(frames) : k = 0
  BY <1>1
<1>6. MoneyLevels(Storage, frames, t)
  BY <1>4, <1>5 DEF MoneyLevels, Level
<1> QED BY <1>1, <1>6 DEF MoneyInv

\* Tokens are conserved when no balance changes.
LEMMA ConservedSame ==
    ASSUME NEW t \in Tokens, MoneyInv(t), balanceOf'[t] = balanceOf[t]
    PROVE  Conserved(Storage', t)
BY Covered, StorageFields, StorageFieldsNext DEF Conserved

\* A function that has just called its hook has no claim.
LEMMA CallMoney ==
    ASSUME NEW t \in Tokens, MoneyInv(t), StructureInv', NEW caller, Call(caller)
    PROVE  MoneyInv(t)'
<1>1. PICK f : EnterGuarded(f) /\ Asks(f)
  BY CallAsks
<1>2. frames' = Append(frames, f) /\ UNCHANGED <<erc20Vars, govVars, notas>>
  BY <1>1 DEF EnterGuarded, Enter
<1>3. UNCHANGED <<balanceOf, govVars, notas>>
  BY <1>2 DEF erc20Vars
<1>4. f \in FrameType
  <2>1. frames' \in Seq(FrameType)
    BY DEF StructureInv, TypeOK
  <2>2. Len(frames) \in Nat /\ frames \in Seq(FrameType)
    BY Present DEF MoneyInv
  <2> QED BY <1>2, <2>1, <2>2
<1>5. Due(f, t) = 0
  BY <1>1 DEF Asks, Due
<1>6. FreeNext(t) \in Int /\ Covers(FreeNext(t), Free(t) + Due(f, t))
  <2>1. balanceOf'[t][Registrar] = balanceOf[t][Registrar]
    BY <1>3
  <2> QED BY <1>3, <1>5, <2>1, BooksSame DEF MoneyInv, Covers
<1>7. Conserved(Storage', t) /\ f.saved = Storage
  BY <1>1, <1>3, ConservedSame DEF Asks
<1> QED BY <1>2, <1>4, <1>6, <1>7, EnterMoney

\* A withdrawal has taken from the books what it now claims.
LEMMA AwaitMoney ==
    ASSUME NEW t \in Tokens, MoneyInv(t), StructureInv', NEW op, NEW caller, NEW u \in Tokens,
           NEW amount, NEW to, AwaitPayment(op, caller, u, amount, to), amount \in Int,
           FreeNext(t) \in Int,
           FreeNext(t) = Free(t) + (IF u = t THEN amount ELSE 0)
    PROVE  MoneyInv(t)'
<1> DEFINE f == [op |-> op, pc |-> "withdraw", caller |-> caller, id |-> 0,
                 from |-> Null, to |-> to, amount |-> amount, instant |-> 0, fee |-> 0,
                 currency |-> u, hooks |-> Null, escrowed |-> 0, owner |-> Null,
                 saved |-> Storage]
<1>1. f.pc = "withdraw" /\ f.amount = amount /\ f.currency = u /\ f.saved = Storage
  OBVIOUS
<1>2. frames' = Append(frames, f) /\ UNCHANGED erc20Vars
  BY DEF AwaitPayment, Enter
<1> HIDE DEF f
<1>3. f \in FrameType
  <2>1. frames' \in Seq(FrameType)
    BY DEF StructureInv, TypeOK
  <2>2. Len(frames) \in Nat /\ frames \in Seq(FrameType)
    BY Present DEF MoneyInv
  <2> QED BY <1>2, <2>1, <2>2
<1>4. Due(f, t) = IF u = t THEN amount ELSE 0
  BY <1>1 DEF Due
<1>5. Conserved(Storage', t)
  BY <1>2, ConservedSame DEF erc20Vars
<1>6. Covers(FreeNext(t), Free(t) + Due(f, t))
  BY <1>4 DEF Covers
<1> QED BY <1>1, <1>2, <1>3, <1>5, <1>6, EnterMoney

\* hookWithdraw: the amount leaves the hook's revenue, the share goes to the protocol.
LEMMA HookWithdrawMoney ==
    ASSUME NEW t \in Tokens, MoneyInv(t), StructureInv', NEW h \in HookContracts,
           NEW u \in Tokens, NEW amount \in Uint, NEW to, HookWithdrawCall(h, u, amount, to)
    PROVE  MoneyInv(t)'
<1> DEFINE share == FeeOn(amount)
<1>1. StorageOK /\ StorageOK' /\ StructureInv /\ amount \in Nat
  BY StorageTyped, StorageTypedNext, EVMAssumption DEF MoneyInv, StructureInv, TypeOK, Uint
<1>2. share \in Nat
  BY <1>1, FeeIsNat DEF StorageOK, GovTypeOK
<1>3. /\ hookRevenue' = [hookRevenue EXCEPT ![h][u] = hookRevenue[h][u] - amount]
      /\ protocolRevenue' = [protocolRevenue EXCEPT ![u] = protocolRevenue[u] + share]
      /\ AwaitPayment("hookWithdraw", h, u, amount - share, to)
  BY DEF HookWithdrawCall, HookWithdrawBooks
<1> HIDE DEF share
<1>4. UNCHANGED <<erc20Vars, notas>>
  BY <1>3 DEF AwaitPayment
<1> DEFINE a == IF u = t THEN amount ELSE 0
           b == IF u = t THEN share ELSE 0
<1>5. /\ hookRevenue[h][t] \in Nat /\ protocolRevenue[t] \in Nat
      /\ hookRevenue'[h][t] = hookRevenue[h][t] - a
      /\ \A g \in HookContracts \ {h} : hookRevenue'[g][t] = hookRevenue[g][t]
      /\ protocolRevenue'[t] = protocolRevenue[t] + b
  BY <1>1, <1>2, <1>3, EVMAssumption DEF StorageOK, GovTypeOK, Books, Uint
<1>6. a \in Int /\ b \in Int
  BY <1>1, <1>2
<1>7. (IF u = t THEN amount - share ELSE 0) = a - b
  BY <1>1, <1>2
<1> HIDE DEF a, b
<1>8. EarningsTotal(Storage', t)
        = EarningsTotal(Storage, t) + hookRevenue'[h][t] - hookRevenue[h][t]
  BY <1>1, <1>5, EarningsStep
<1>9. /\ EarningsTotal(Storage', t) - EarningsTotal(Storage, t) = -a
      /\ EscrowTotal(Storage', t) - EscrowTotal(Storage, t) = 0
      /\ balanceOf'[t][Registrar] - balanceOf[t][Registrar] = 0
      /\ protocolRevenue'[t] - protocolRevenue[t] = b
  <2>1. /\ EarningsTotal(Storage, t) \in Nat /\ EscrowTotal(Storage, t) \in Nat
        /\ balanceOf[t][Registrar] \in Nat
    BY <1>1, FreeParts
  <2>2. /\ EscrowTotal(Storage', t) = EscrowTotal(Storage, t)
        /\ balanceOf'[t][Registrar] = balanceOf[t][Registrar]
    BY <1>4, TotalsSame DEF erc20Vars
  <2> QED BY <1>5, <1>6, <1>8, <2>1, <2>2
<1>10. FreeNext(t) \in Int /\ Free(t) \in Int /\ FreeNext(t) = Free(t) + 0 - (0 + (-a)) - b
  BY <1>1, <1>9, FreeChange
<1>11. FreeNext(t) = Free(t) + (IF u = t THEN amount - share ELSE 0)
  BY <1>6, <1>7, <1>10
<1>12. amount - share \in Int
  BY <1>1, <1>2
<1> QED BY <1>3, <1>10, <1>11, <1>12, AwaitMoney

\* protocolWithdraw: the amount leaves the protocol's revenue.
LEMMA ProtocolWithdrawMoney ==
    ASSUME NEW t \in Tokens, MoneyInv(t), StructureInv', NEW caller, NEW u \in Tokens,
           NEW amount \in Uint, NEW to, ProtocolWithdrawCall(caller, u, amount, to)
    PROVE  MoneyInv(t)'
<1>1. StorageOK /\ StructureInv /\ amount \in Nat
  BY StorageTyped, EVMAssumption DEF MoneyInv, StructureInv, TypeOK, Uint
<1>2. /\ protocolRevenue' = [protocolRevenue EXCEPT ![u] = protocolRevenue[u] - amount]
      /\ AwaitPayment("protocolWithdraw", caller, u, amount, to)
      /\ UNCHANGED hookRevenue
  BY DEF ProtocolWithdrawCall, ProtocolWithdrawBooks
<1>3. UNCHANGED <<balanceOf, notas>>
  BY <1>2 DEF AwaitPayment, erc20Vars
<1> DEFINE a == IF u = t THEN amount ELSE 0
<1>4. protocolRevenue[t] \in Nat /\ protocolRevenue'[t] = protocolRevenue[t] - a /\ a \in Int
  BY <1>1, <1>2, EVMAssumption DEF StorageOK, GovTypeOK, Uint
<1> HIDE DEF a
<1>5. /\ EarningsTotal(Storage', t) - EarningsTotal(Storage, t) = 0
      /\ EscrowTotal(Storage', t) - EscrowTotal(Storage, t) = 0
      /\ balanceOf'[t][Registrar] - balanceOf[t][Registrar] = 0
      /\ protocolRevenue'[t] - protocolRevenue[t] = -a
  <2>1. /\ EarningsTotal(Storage, t) \in Nat /\ EscrowTotal(Storage, t) \in Nat
        /\ balanceOf[t][Registrar] \in Nat
    BY <1>1, FreeParts
  <2>2. /\ EscrowTotal(Storage', t) = EscrowTotal(Storage, t)
        /\ EarningsTotal(Storage', t) = EarningsTotal(Storage, t)
        /\ balanceOf'[t][Registrar] = balanceOf[t][Registrar]
    BY <1>2, <1>3, TotalsSame
  <2> QED BY <1>4, <2>1, <2>2
<1>6. FreeNext(t) \in Int /\ Free(t) \in Int /\ FreeNext(t) = Free(t) + 0 - (0 + 0) - (-a)
  BY <1>1, <1>5, FreeChange
<1>7. FreeNext(t) = Free(t) + a
  BY <1>4, <1>6
<1>8. FreeNext(t) = Free(t) + (IF u = t THEN amount ELSE 0)
  BY <1>7 DEF a
<1> QED BY <1>1, <1>2, <1>6, <1>8, AwaitMoney

\* A step that leaves the stack, the balances in a currency, the notas and the revenues
\* alone.
LEMMA NothingPaid ==
    ASSUME NEW t \in Tokens, MoneyInv(t), StructureInv', frames' = frames,
           balanceOf'[t] = balanceOf[t], UNCHANGED <<notas, hookRevenue, protocolRevenue>>
    PROVE  MoneyInv(t)'
<1>1. FreeNext(t) \in Int /\ Covers(FreeNext(t), Free(t))
  <2>1. /\ EarningsTotal(Storage', t) = EarningsTotal(Storage, t)
        /\ EscrowTotal(Storage', t) = EscrowTotal(Storage, t)
        /\ balanceOf'[t][Registrar] = balanceOf[t][Registrar]
        /\ protocolRevenue'[t] = protocolRevenue[t]
    BY TotalsSame
  <2> QED BY <2>1, FreeParts DEF MoneyInv, Covers
<1> QED BY <1>1, ConservedSame, RunMoney

\* What the owner administers and what an owner approves moves no money; in a currency
\* an account can only pay the registrar, never take from it.
LEMMA RunsMoney ==
    ASSUME NEW t \in Tokens, MoneyInv(t), StructureInv'
    PROVE  /\ \A caller \in GovOwners : AdministerCall(caller) => MoneyInv(t)'
           /\ \A caller \in Callers, operator \in Operators, approved \in BOOLEAN :
                SetApprovalForAllCall(caller, operator, approved) => MoneyInv(t)'
           /\ \A u \in Tokens, caller \in Callers : TokenCall(u, caller) => MoneyInv(t)'
<1>1. ASSUME NEW caller \in GovOwners, AdministerCall(caller) PROVE MoneyInv(t)'
  BY <1>1, NothingPaid DEF AdministerCall, Run, erc20Vars, Administer, SetProtocolFee,
     TransferOwnership, RenounceOwnership
<1>2. ASSUME NEW caller \in Callers, NEW operator \in Operators, NEW approved \in BOOLEAN,
             SetApprovalForAllCall(caller, operator, approved)
      PROVE  MoneyInv(t)'
  BY <1>2, NothingPaid DEF SetApprovalForAllCall, Run, erc20Vars, govVars
<1>3. ASSUME NEW u \in Tokens, NEW caller \in Callers, TokenCall(u, caller)
      PROVE  MoneyInv(t)'
  <2>1. /\ frames' = frames /\ UNCHANGED <<govVars, notas>>
        /\ caller \in Accounts /\ caller # Registrar
        /\ Recipients \subseteq MaybeAccount /\ Gifts \subseteq Uint
    BY <1>3, NotaRegistrarAssumption DEF TokenCall, Run
  <2>2. ASSUME NEW amount \in Grants, TokenApprove(u, caller, amount) PROVE MoneyInv(t)'
    BY <2>1, <2>2, NothingPaid DEF TokenApprove, govVars
  <2>3. ASSUME NEW amount \in Gifts, NEW to \in Recipients,
               TokenTransfer(u, caller, to, amount)
        PROVE  MoneyInv(t)'
    <3>1. StorageOK /\ Conserved(Storage, t) /\ StructureInv
      BY Present, Covered DEF MoneyInv
    <3>2. /\ Conserved(Storage', t)
          /\ balanceOf'[t][Registrar] >= balanceOf[t][Registrar]
          /\ to # Registrar => balanceOf'[t][Registrar] = balanceOf[t][Registrar]
      BY <2>1, <2>3, <3>1, MoveTokensMoney DEF TokenTransfer
    <3>3. /\ FreeNext(t) \in Int /\ Free(t) \in Int
          /\ balanceOf[t][Registrar] \in Nat /\ balanceOf'[t][Registrar] \in Nat
          /\ FreeNext(t) = Free(t) + balanceOf'[t][Registrar] - balanceOf[t][Registrar]
      BY <2>1, <3>1, BooksSame
    <3>4. Quiet => to # Registrar
      BY DEF Quiet
    <3>5. FreeNext(t) \in Int /\ Covers(FreeNext(t), Free(t))
      BY <3>2, <3>3, <3>4 DEF Covers
    <3> QED BY <2>1, <3>2, <3>5, RunMoney
  <2> QED BY <1>3, <2>2, <2>3 DEF TokenCall
<1> QED BY <1>1, <1>2, <1>3

\* Every step without the guard.
LEMMA UnguardedMoney ==
    ASSUME NEW t \in Tokens, MoneyInv(t), StructureInv', Unguarded
    PROVE  MoneyInv(t)'
<1>1. GovAmounts \subseteq Uint /\ ProtocolAmounts \subseteq Uint
  BY GovAssumption
<1> QED BY <1>1, HookWithdrawMoney, ProtocolWithdrawMoney, RunsMoney DEF Unguarded

-----------------------------------------------------------------------------
(* The steps in which the registrar or its caller pays.                     *)

\* A step that moves a function on keeps what it carries.
LEMMA MovedFrame ==
    ASSUME NEW g \in FrameType, NEW pc \in Pcs
    PROVE  LET f == [g EXCEPT !.pc = pc]
           IN  /\ f \in FrameType /\ f.pc = pc /\ f.fee = g.fee /\ f.amount = g.amount
               /\ f.currency = g.currency /\ f.saved = g.saved
<1>1. [g EXCEPT !.pc = pc] \in FrameType
  BY FrameMoves
<1> QED BY <1>1 DEF FrameType

\* What the caller pays never lowers what the registrar holds, and raises it only when it
\* is paid to the registrar, by as much.
LEMMA CallerPaysMoney ==
    ASSUME NEW t \in Tokens, MoneyInv(t), NEW f \in FrameType, f.caller # Registrar,
           NEW to \in MaybeAccount, NEW amount \in Uint, CallerPays(f, to, amount)
    PROVE  /\ Conserved(Storage', t)
           /\ balanceOf[t][Registrar] \in Nat /\ balanceOf'[t][Registrar] \in Nat
           /\ balanceOf'[t][Registrar] >= balanceOf[t][Registrar]
           /\ to # Registrar => balanceOf'[t][Registrar] = balanceOf[t][Registrar]
           /\ to = Registrar =>
                balanceOf'[t][Registrar]
                  = balanceOf[t][Registrar] + (IF f.currency = t THEN amount ELSE 0)
<1>1. /\ StorageOK /\ Conserved(Storage, t) /\ f.currency \in Tokens /\ f.caller \in Accounts
      /\ amount \in Nat
  BY Present, Covered, EVMAssumption DEF MoneyInv, FrameType, Uint
<1>2. balanceOf[t][Registrar] \in Nat
  BY <1>1, BooksAreWords, StorageTyped, StorageFields, EVMAssumption
<1>3. CASE amount > 0
  <2>1. MoveTokens(f.currency, f.caller, to, amount)
    BY <1>3 DEF CallerPays, TokenTransferFrom
  <2>2. CASE f.currency = t
    BY <1>1, <1>2, <2>1, <2>2, MoveTokensMoney
  <2>3. CASE f.currency # t
    BY <1>1, <1>2, <2>1, <2>3, MoveTokensMoney
  <2> QED BY <2>2, <2>3
<1>4. CASE ~(amount > 0)
  <2>1. balanceOf' = balanceOf /\ amount = 0
    BY <1>1, <1>4 DEF CallerPays, erc20Vars
  <2> QED BY <1>2, <2>1, ConservedSame
<1> QED BY <1>3, <1>4

\* What the registrar pays lowers what it holds by no more than that, and by as much when
\* it does not pay itself.
LEMMA RegistrarPaysMoney ==
    ASSUME NEW t \in Tokens, MoneyInv(t), NEW u \in Tokens, NEW to \in MaybeAccount,
           NEW amount \in Uint,
           MoveTokens(u, Registrar, to, amount) \/ (amount = 0 /\ UNCHANGED balanceOf)
    PROVE  /\ Conserved(Storage', t)
           /\ balanceOf[t][Registrar] \in Nat /\ balanceOf'[t][Registrar] \in Nat
           /\ balanceOf'[t][Registrar]
                >= balanceOf[t][Registrar] - (IF u = t THEN amount ELSE 0)
           /\ to # Registrar =>
                balanceOf'[t][Registrar]
                  = balanceOf[t][Registrar] - (IF u = t THEN amount ELSE 0)
           /\ to = Registrar => balanceOf'[t][Registrar] = balanceOf[t][Registrar]
<1>1. StorageOK /\ Conserved(Storage, t) /\ amount \in Nat /\ Registrar \in Accounts
  BY Present, Covered, EVMAssumption DEF MoneyInv, Uint
<1>2. balanceOf[t][Registrar] \in Nat
  BY <1>1, BooksAreWords, StorageTyped, StorageFields
<1>3. CASE MoveTokens(u, Registrar, to, amount)
  <2>1. CASE u = t
    BY <1>1, <1>2, <1>3, <2>1, MoveTokensMoney
  <2>2. CASE u # t
    BY <1>1, <1>2, <1>3, <2>2, MoveTokensMoney
  <2> QED BY <2>1, <2>2
<1>4. CASE amount = 0 /\ UNCHANGED balanceOf
  <2>1. balanceOf'[t][Registrar] = balanceOf[t][Registrar]
    BY <1>4
  <2> QED BY <1>2, <1>4, <2>1, ConservedSame
<1> QED BY <1>3, <1>4

\* write and fund wait for the currency: nothing is claimed yet.
LEMMA AskForEscrowMoney ==
    ASSUME NEW t \in Tokens, MoneyInv(t), StructureInv', NEW op, NEW fee, AskForEscrow(op, fee)
    PROVE  MoneyInv(t)'
<1> DEFINE f == [Top EXCEPT !.pc = "pull", !.fee = fee]
<1>1. fee \in Uint /\ frames # <<>> /\ Top.pc = "hook" /\ Continue(f)
      /\ UNCHANGED <<erc20Vars, govVars, notas>>
  BY FeesAreWords DEF AskForEscrow
<1>2. f \in FrameType /\ f.pc = "pull" /\ f.saved = Top.saved
  <2>1. Top \in FrameType /\ "pull" \in Pcs
    BY <1>1, Innermost DEF MoneyInv, Pcs
  <2> QED BY <1>1, <2>1, FrameGoesOn DEF FrameType
<1> HIDE DEF f
<1>3. Due(f, t) = 0 /\ Due(Top, t) = 0
  BY <1>1, <1>2 DEF Due
<1>4. FreeNext(t) \in Int /\ Covers(FreeNext(t), Free(t) + Due(f, t) - Due(Top, t))
  <2>1. balanceOf'[t][Registrar] = balanceOf[t][Registrar]
    BY <1>1 DEF erc20Vars
  <2> QED BY <1>1, <1>3, <2>1, BooksSame DEF MoneyInv, Covers
<1>5. Conserved(Storage', t)
  BY <1>1, ConservedSame DEF erc20Vars
<1> QED BY <1>1, <1>2, <1>4, <1>5, ContinueMoney

\* The escrow and the fee arrive, and are claimed until they are booked.
LEMMA PullEscrowMoney ==
    ASSUME NEW t \in Tokens, MoneyInv(t), StructureInv',
           NEW op \in {"write", "fund"}, PullEscrow(op)
    PROVE  MoneyInv(t)'
<1> DEFINE f == [Top EXCEPT !.pc = "instant"]
<1>1. frames # <<>> /\ Top.op = op /\ Top.pc = "pull" /\ Continue(f)
      /\ UNCHANGED <<govVars, notas>> /\ CallerPays(Top, Registrar, Top.amount + Top.fee)
  BY DEF PullEscrow, At
<1>2. Top \in FrameType /\ Top.caller # Registrar /\ Top.amount + Top.fee \in Uint
  <2>1. Top \in FrameType /\ Shape(Top) /\ Top.op \in GuardedOps
    BY <1>1, Innermost DEF MoneyInv, GuardedOps
  <2> QED BY <1>1, <2>1, EVMAssumption DEF Shape, FrameType, Uint
<1>3. /\ f \in FrameType /\ f.pc = "instant" /\ f.saved = Top.saved
      /\ f.amount = Top.amount /\ f.fee = Top.fee /\ f.currency = Top.currency
  <2>1. "instant" \in Pcs
    BY DEF Pcs
  <2> QED BY <1>2, <2>1, MovedFrame
<1> HIDE DEF f
<1>4. /\ Due(f, t) = (IF Top.currency = t THEN Top.amount + Top.fee ELSE 0)
      /\ Due(Top, t) = 0
  BY <1>1, <1>3 DEF Due
<1>5. Registrar \in MaybeAccount
  BY EVMAssumption DEF MaybeAccount
<1>6. /\ FreeNext(t) \in Int /\ Covers(FreeNext(t), Free(t) + Due(f, t) - Due(Top, t))
      /\ Conserved(Storage', t)
  <2>1. /\ Conserved(Storage', t)
        /\ balanceOf'[t][Registrar] = balanceOf[t][Registrar] + Due(f, t)
    BY <1>1, <1>2, <1>4, <1>5, CallerPaysMoney
  <2>2. Due(f, t) \in Nat
    BY <1>3, DueIsNat
  <2>3. /\ FreeNext(t) \in Int /\ Free(t) \in Int
        /\ balanceOf[t][Registrar] \in Nat
        /\ FreeNext(t) = Free(t) + balanceOf'[t][Registrar] - balanceOf[t][Registrar]
    BY <1>1, BooksSame DEF MoneyInv
  <2> QED BY <1>4, <2>1, <2>2, <2>3 DEF Covers
<1> QED BY <1>1, <1>3, <1>6, ContinueMoney

\* The instant payment goes from the caller to the owner: the claim stays.
LEMMA PayInstantMoney ==
    ASSUME NEW t \in Tokens, MoneyInv(t), PayeesInv, StructureInv',
           NEW op \in {"write", "fund"}, PayInstant(op)
    PROVE  MoneyInv(t)'
<1> DEFINE f == [Top EXCEPT !.pc = "store"]
<1>1. frames # <<>> /\ Top.op = op /\ Top.pc = "instant" /\ Continue(f)
      /\ UNCHANGED <<govVars, notas>> /\ CallerPays(Top, Top.owner, Top.instant)
  BY DEF PayInstant, At
<1>2. /\ Top \in FrameType /\ Top.caller # Registrar /\ Top.instant \in Uint
      /\ Top.owner \in MaybeAccount
  <2>1. Top \in FrameType /\ Shape(Top) /\ Top.op \in GuardedOps
    BY <1>1, Innermost DEF MoneyInv, GuardedOps
  <2> QED BY <2>1 DEF Shape, FrameType
<1>3. /\ f \in FrameType /\ f.pc = "store" /\ f.saved = Top.saved
      /\ f.amount = Top.amount /\ f.fee = Top.fee /\ f.currency = Top.currency
  <2>1. "store" \in Pcs
    BY DEF Pcs
  <2> QED BY <1>2, <2>1, MovedFrame
<1> HIDE DEF f
<1>4. Due(f, t) = Due(Top, t) /\ Due(f, t) \in Nat
  BY <1>1, <1>3, DueIsNat DEF Due
<1>5. /\ FreeNext(t) \in Int /\ Covers(FreeNext(t), Free(t) + Due(f, t) - Due(Top, t))
      /\ Conserved(Storage', t)
  <2>1. /\ Conserved(Storage', t)
        /\ balanceOf'[t][Registrar] \in Nat
        /\ balanceOf'[t][Registrar] >= balanceOf[t][Registrar]
        /\ Quiet => balanceOf'[t][Registrar] = balanceOf[t][Registrar]
    BY <1>1, <1>2, CallerPaysMoney, PayeesNow
  <2>2. /\ FreeNext(t) \in Int /\ Free(t) \in Int
        /\ balanceOf[t][Registrar] \in Nat
        /\ FreeNext(t) = Free(t) + balanceOf'[t][Registrar] - balanceOf[t][Registrar]
    BY <1>1, BooksSame DEF MoneyInv
  <2> QED BY <1>4, <2>1, <2>2 DEF Covers
<1> QED BY <1>1, <1>3, <1>5, ContinueMoney

-----------------------------------------------------------------------------
(* The steps that book, pay out or give back.                               *)

\* write books the escrow and the fee it has pulled.
LEMMA WriteStoreMoney ==
    ASSUME NEW t \in Tokens, MoneyInv(t), StructureInv', WriteStore
    PROVE  MoneyInv(t)'
<1>1. frames # <<>> /\ Top.op = "write" /\ Top.pc = "store" /\ Leave
      /\ UNCHANGED balanceOf /\ CreditHook(Top, Top.fee)
      /\ StructureInv /\ StorageOK /\ StorageOK' /\ AgreeIn(Storage)
  BY Present, StorageTypedNext DEF WriteStore, At, LeaveGuarded, erc20Vars, MoneyInv,
     StructureInv, TypeOK
<1>2. /\ Top \in FrameType /\ Top.hooks \in HookContracts /\ nextId \in NotaIds
      /\ owners[nextId] = Null
      /\ Top.currency \in Tokens /\ Top.amount \in Nat /\ Top.fee \in Uint /\ Top.fee \in Nat
  BY <1>1, Innermost, StorageFields, EVMAssumption DEF Shape, CurrentIn, GuardedOps,
     FrameType, Uint
<1>3. /\ notas[nextId].escrowed = 0
      /\ notas'[nextId].escrowed = Top.amount /\ notas'[nextId].currency = Top.currency
      /\ \A i \in NotaIds \ {nextId} : notas'[i] = notas[i]
  <2>1. notas[nextId] = EmptyNota
    BY <1>1, <1>2, StorageFields DEF AgreeIn
  <2>2. notas \in [NotaIds -> Nota \cup {EmptyNota}]
    BY <1>1 DEF StorageOK
  <2> QED BY <1>2, <2>1, <2>2 DEF WriteStore, EmptyNota
<1>4. FreeNext(t) \in Int /\ Covers(FreeNext(t), Free(t) - Due(Top, t))
  <2> DEFINE de == IF Top.currency = t THEN Top.amount ELSE 0
             dr == IF Top.currency = t THEN Top.fee ELSE 0
  <2>1. Due(Top, t) = de + dr /\ de \in Int /\ dr \in Int
    BY <1>1, <1>2 DEF Due
  <2>2. Escrow(Storage', t)[nextId] = de /\ Escrow(Storage, t)[nextId] = 0
    BY <1>2, <1>3, StorageFields, StorageFieldsNext DEF Escrow
  <2>3. /\ EarningsTotal(Storage', t) = EarningsTotal(Storage, t) + dr
        /\ protocolRevenue' = protocolRevenue
    BY <1>1, <1>2, CreditMoney
  <2> HIDE DEF de, dr
  <2>4. EscrowTotal(Storage', t) = EscrowTotal(Storage, t) + de
    <3>1. EscrowTotal(Storage', t)
            = EscrowTotal(Storage, t) + Escrow(Storage', t)[nextId] - Escrow(Storage, t)[nextId]
      BY <1>1, <1>2, <1>3, EscrowStep
    <3>2. EscrowTotal(Storage, t) \in Nat
      BY <1>1, FreeParts
    <3> QED BY <2>1, <2>2, <3>1, <3>2
  <2>5. FreeNext(t) \in Int /\ Free(t) \in Int /\ FreeNext(t) = Free(t) - (de + dr)
    BY <1>1, <2>1, <2>3, <2>4, Booking
  <2> QED BY <2>1, <2>5 DEF Covers
<1> QED BY <1>1, <1>4, ConservedSame, LeaveMoney

\* fund does so too.
LEMMA FundStoreMoney ==
    ASSUME NEW t \in Tokens, MoneyInv(t), StructureInv', FundStore
    PROVE  MoneyInv(t)'
<1>1. frames # <<>> /\ Top.op \in GuardedOps \ {"write"} /\ Top.pc = "store" /\ Leave
      /\ UNCHANGED balanceOf /\ CreditHook(Top, Top.fee)
      /\ StructureInv /\ StorageOK /\ StorageOK'
  BY Present, StorageTypedNext DEF FundStore, At, LeaveGuarded, erc20Vars, MoneyInv,
     StructureInv, TypeOK, GuardedOps
<1>2. /\ Top \in FrameType /\ Top.amount \in Nat /\ Top.fee \in Uint /\ Top.fee \in Nat
  BY <1>1, Innermost, EVMAssumption DEF FrameType, Uint
<1>3. /\ Top.id \in NotaIds /\ notas[Top.id] \in Nota /\ notas[Top.id].currency = Top.currency
      /\ Top.currency \in Tokens /\ Top.hooks \in HookContracts
  BY <1>1, NotaInProgress
<1> DEFINE e == notas[Top.id].escrowed + Top.amount
<1>4. e \in Uint /\ e - notas[Top.id].escrowed = Top.amount
  BY <1>2, <1>3, EVMAssumption DEF FundStore, Nota, Uint
<1>5. notas' = [notas EXCEPT ![Top.id].escrowed = e]
  BY DEF FundStore
<1> HIDE DEF e
<1>6. FreeNext(t) \in Int /\ Covers(FreeNext(t), Free(t) - Due(Top, t))
  <2> DEFINE de == IF Top.currency = t THEN Top.amount ELSE 0
             dr == IF Top.currency = t THEN Top.fee ELSE 0
  <2>1. Due(Top, t) = de + dr /\ de \in Int /\ dr \in Int
    BY <1>1, <1>2 DEF Due
  <2>2. /\ EarningsTotal(Storage', t) = EarningsTotal(Storage, t) + dr
        /\ protocolRevenue' = protocolRevenue
    BY <1>1, <1>2, <1>3, CreditMoney
  <2>3. EscrowTotal(Storage', t) = EscrowTotal(Storage, t)
          + (IF notas[Top.id].currency = t THEN e - notas[Top.id].escrowed ELSE 0)
    BY <1>1, <1>3, <1>4, <1>5, EscrowMoney
  <2>4. EscrowTotal(Storage', t) = EscrowTotal(Storage, t) + de
    BY <1>3, <1>4, <2>3
  <2> HIDE DEF de, dr
  <2>5. FreeNext(t) \in Int /\ Free(t) \in Int /\ FreeNext(t) = Free(t) - (de + dr)
    BY <1>1, <2>1, <2>2, <2>4, Booking
  <2> QED BY <2>1, <2>5 DEF Covers
<1> QED BY <1>1, <1>6, ConservedSame, LeaveMoney

\* cash takes the amount out of the escrow and claims it.
LEMMA CashDebitMoney ==
    ASSUME NEW t \in Tokens, MoneyInv(t), StructureInv', NEW fee, CashDebit(fee)
    PROVE  MoneyInv(t)'
<1> DEFINE f == [Top EXCEPT !.pc = "pay", !.fee = fee]
<1>1. fee \in Uint /\ frames # <<>> /\ Top.op \in GuardedOps \ {"write"} /\ Top.pc = "hook"
      /\ Continue(f) /\ UNCHANGED <<balanceOf, govVars>> /\ DebitNota(Top.id, Top.amount)
      /\ StructureInv /\ StorageOK /\ StorageOK'
  BY FeesAreWords, Present, StorageTypedNext DEF CashDebit, HookAnswers, erc20Vars, MoneyInv,
     StructureInv, TypeOK, GuardedOps
<1>2. Top \in FrameType /\ Top.amount \in Nat
  BY <1>1, Innermost, EVMAssumption DEF FrameType, Uint
<1>3. /\ f \in FrameType /\ f.pc = "pay" /\ f.saved = Top.saved
      /\ f.amount = Top.amount /\ f.currency = Top.currency
  <2>1. "pay" \in Pcs
    BY DEF Pcs
  <2> QED BY <1>1, <1>2, <2>1, FrameGoesOn DEF FrameType
<1> HIDE DEF f
<1>4. /\ Top.id \in NotaIds /\ notas[Top.id] \in Nota /\ notas[Top.id].currency = Top.currency
  BY <1>1, NotaInProgress
<1> DEFINE e == notas[Top.id].escrowed - Top.amount
<1>5. e \in Uint /\ e - notas[Top.id].escrowed = -Top.amount
  BY <1>1, <1>2, <1>4, EVMAssumption DEF DebitNota, Nota, Uint
<1>6. notas' = [notas EXCEPT ![Top.id].escrowed = e]
  BY <1>1 DEF DebitNota
<1> HIDE DEF e
<1>7. FreeNext(t) \in Int /\ Covers(FreeNext(t), Free(t) + Due(f, t) - Due(Top, t))
  <2> DEFINE de == IF Top.currency = t THEN -Top.amount ELSE 0
  <2>1. Due(f, t) = -de /\ Due(Top, t) = 0 /\ de \in Int
    BY <1>1, <1>2, <1>3 DEF Due
  <2>2. /\ EarningsTotal(Storage', t) = EarningsTotal(Storage, t) + 0
        /\ protocolRevenue' = protocolRevenue
    BY <1>1, TotalsSame, FreeParts DEF govVars
  <2>3. EscrowTotal(Storage', t) = EscrowTotal(Storage, t)
          + (IF notas[Top.id].currency = t THEN e - notas[Top.id].escrowed ELSE 0)
    BY <1>1, <1>4, <1>5, <1>6, EscrowMoney
  <2>4. EscrowTotal(Storage', t) = EscrowTotal(Storage, t) + de
    BY <1>4, <1>5, <2>3
  <2> HIDE DEF de
  <2>5. FreeNext(t) \in Int /\ Free(t) \in Int /\ FreeNext(t) = Free(t) - (de + 0)
    BY <1>1, <2>1, <2>2, <2>4, Booking
  <2> QED BY <2>1, <2>5 DEF Covers
<1> QED BY <1>1, <1>3, <1>7, ConservedSame, ContinueMoney

\* The registrar pays the amount less the fee, and claims the fee.
LEMMA CashPayMoney ==
    ASSUME NEW t \in Tokens, MoneyInv(t), PayeesInv, StructureInv', CashPay
    PROVE  MoneyInv(t)'
<1> DEFINE f == [Top EXCEPT !.pc = "credit"]
           paid == Top.amount - Top.fee
<1>1. frames # <<>> /\ Top.pc = "pay" /\ Continue(f) /\ UNCHANGED <<govVars, notas>>
  BY DEF CashPay, At
<1>2. /\ Top \in FrameType /\ Top.amount \in Uint /\ Top.fee \in Uint /\ Top.fee <= Top.amount
      /\ Top.currency \in Tokens /\ Top.to \in MaybeAccount
  BY <1>1, Innermost DEF MoneyInv, Shape, FrameType
<1>3. /\ f \in FrameType /\ f.pc = "credit" /\ f.saved = Top.saved
      /\ f.fee = Top.fee /\ f.currency = Top.currency
  <2>1. "credit" \in Pcs
    BY DEF Pcs
  <2> QED BY <1>2, <2>1, MovedFrame
<1> HIDE DEF f
<1>4. paid \in Uint /\ Top.amount \in Nat /\ Top.fee \in Nat
  BY <1>2, EVMAssumption DEF Uint
<1>5. MoveTokens(Top.currency, Registrar, Top.to, paid) \/ (paid = 0 /\ UNCHANGED balanceOf)
  <2>1. CASE paid > 0
    BY <2>1 DEF CashPay, TokenTransfer
  <2>2. CASE ~(paid > 0)
    <3>1. paid = 0
      BY <1>4, <2>2, EVMAssumption DEF Uint
    <3> QED BY <2>2, <3>1 DEF CashPay, erc20Vars
  <2> QED BY <2>1, <2>2
<1>6. Due(Top, t) - Due(f, t) = (IF Top.currency = t THEN paid ELSE 0)
  BY <1>1, <1>3, <1>4 DEF Due
<1> HIDE DEF paid
<1>7. /\ FreeNext(t) \in Int /\ Covers(FreeNext(t), Free(t) + Due(f, t) - Due(Top, t))
      /\ Conserved(Storage', t)
  <2>1. /\ Conserved(Storage', t)
        /\ balanceOf'[t][Registrar] \in Nat
        /\ balanceOf'[t][Registrar]
             >= balanceOf[t][Registrar] - (IF Top.currency = t THEN paid ELSE 0)
        /\ Quiet => balanceOf'[t][Registrar]
                      = balanceOf[t][Registrar] - (IF Top.currency = t THEN paid ELSE 0)
    BY <1>1, <1>2, <1>4, <1>5, RegistrarPaysMoney, PayeesNow
  <2>2. /\ FreeNext(t) \in Int /\ Free(t) \in Int
        /\ balanceOf[t][Registrar] \in Nat
        /\ FreeNext(t) = Free(t) + balanceOf'[t][Registrar] - balanceOf[t][Registrar]
    BY <1>1, BooksSame DEF MoneyInv
  <2>3. Due(Top, t) \in Nat /\ Due(f, t) \in Nat
    BY <1>2, <1>3, DueIsNat
  <2> QED BY <1>6, <2>1, <2>2, <2>3 DEF Covers
<1> QED BY <1>1, <1>3, <1>7, ContinueMoney

\* The fee of cash is booked.
LEMMA CashCreditMoney ==
    ASSUME NEW t \in Tokens, MoneyInv(t), StructureInv', CashCredit
    PROVE  MoneyInv(t)'
<1>1. frames # <<>> /\ Top.op \in GuardedOps \ {"write"} /\ Top.pc = "credit" /\ Leave
      /\ UNCHANGED <<balanceOf, notas>> /\ CreditHook(Top, Top.fee)
      /\ StructureInv /\ StorageOK /\ StorageOK'
  BY Present, StorageTypedNext DEF CashCredit, At, LeaveGuarded, erc20Vars, MoneyInv,
     StructureInv, TypeOK, GuardedOps
<1>2. /\ Top \in FrameType /\ Top.fee \in Uint /\ Top.fee \in Nat
      /\ Top.currency \in Tokens /\ Top.hooks \in HookContracts
  BY <1>1, Innermost, NotaInProgress, EVMAssumption DEF FrameType, Uint
<1>3. FreeNext(t) \in Int /\ Covers(FreeNext(t), Free(t) - Due(Top, t))
  <2> DEFINE dr == IF Top.currency = t THEN Top.fee ELSE 0
  <2>1. Due(Top, t) = dr /\ dr \in Int
    BY <1>1, <1>2 DEF Due
  <2>2. /\ EarningsTotal(Storage', t) = EarningsTotal(Storage, t) + dr
        /\ protocolRevenue' = protocolRevenue
    BY <1>1, <1>2, CreditMoney
  <2> HIDE DEF dr
  <2>3. EscrowTotal(Storage', t) = EscrowTotal(Storage, t) + 0
    BY <1>1, TotalsSame, FreeParts
  <2>4. FreeNext(t) \in Int /\ Free(t) \in Int /\ FreeNext(t) = Free(t) - (0 + dr)
    BY <1>1, <2>1, <2>2, <2>3, Booking
  <2> QED BY <2>1, <2>4 DEF Covers
<1> QED BY <1>1, <1>3, ConservedSame, LeaveMoney

\* approve, update and the transfers move the fee inside the books.
LEMMA FeeOnlyMoney ==
    ASSUME NEW t \in Tokens, MoneyInv(t), StructureInv', NEW fee,
           ApproveStore(fee) \/ UpdateStore(fee)
    PROVE  MoneyInv(t)'
<1>1. /\ fee \in Uint /\ frames # <<>> /\ Top.op \in GuardedOps \ {"write"} /\ Top.pc = "hook"
      /\ TakeFee(Top, fee) /\ Leave /\ UNCHANGED balanceOf /\ StructureInv
  BY FeesAreWords DEF ApproveStore, UpdateStore, GuardedOps, LeaveGuarded, erc20Vars, MoneyInv
<1>2. FreeNext(t) \in Int /\ Covers(FreeNext(t), Free(t) - Due(Top, t))
  <2>1. FreeNext(t) \in Int /\ FreeNext(t) = Free(t)
    BY <1>1, TakeFeeMoney
  <2>2. Due(Top, t) = 0
    BY <1>1 DEF Due
  <2> QED BY <2>1, <2>2 DEF Covers
<1> QED BY <1>1, <1>2, ConservedSame, LeaveMoney

\* A safe transfer goes on to the receiver without a claim.
LEMMA TransferStoreMoney ==
    ASSUME NEW t \in Tokens, MoneyInv(t), StructureInv', NEW fee,
           NEW op \in {"transferFrom", "safeTransferFrom"}, TransferStore(op, fee)
    PROVE  MoneyInv(t)'
<1> DEFINE f == [Top EXCEPT !.pc = "receiver"]
<1>1. /\ fee \in Uint /\ frames # <<>> /\ Top.op \in GuardedOps \ {"write"} /\ Top.pc = "hook"
      /\ TakeFee(Top, fee) /\ UNCHANGED balanceOf /\ StructureInv
      /\ Continue(f) \/ Leave
  BY FeesAreWords DEF TransferStore, GuardedOps, LeaveGuarded, erc20Vars, MoneyInv
<1>2. f \in FrameType /\ f.pc = "receiver" /\ f.saved = Top.saved
  <2>1. Top \in FrameType /\ "receiver" \in Pcs
    BY <1>1, Innermost DEF Pcs
  <2> QED BY <2>1, MovedFrame
<1> HIDE DEF f
<1>3. /\ FreeNext(t) \in Int /\ Covers(FreeNext(t), Free(t) - Due(Top, t))
      /\ Covers(FreeNext(t), Free(t) + Due(f, t) - Due(Top, t))
  <2>1. FreeNext(t) \in Int /\ FreeNext(t) = Free(t)
    BY <1>1, TakeFeeMoney
  <2>2. Due(Top, t) = 0 /\ Due(f, t) = 0
    BY <1>1, <1>2 DEF Due
  <2> QED BY <2>1, <2>2 DEF Covers
<1>4. Conserved(Storage', t)
  BY <1>1, ConservedSame
<1>5. CASE Continue(f)
  BY <1>1, <1>2, <1>3, <1>4, <1>5, ContinueMoney
<1>6. CASE Leave
  BY <1>1, <1>3, <1>4, <1>6, LeaveMoney
<1> QED BY <1>1, <1>5, <1>6

\* The receiver accepts.
LEMMA ReceiverAcceptsMoney ==
    ASSUME NEW t \in Tokens, MoneyInv(t), StructureInv', ReceiverAccepts
    PROVE  MoneyInv(t)'
<1>1. /\ frames # <<>> /\ Top.pc = "receiver" /\ Leave
      /\ UNCHANGED <<balanceOf, govVars, notas>>
  BY DEF ReceiverAccepts, At, LeaveGuarded, erc20Vars
<1>2. FreeNext(t) \in Int /\ Covers(FreeNext(t), Free(t) - Due(Top, t))
  <2>1. balanceOf'[t][Registrar] = balanceOf[t][Registrar]
    BY <1>1
  <2>2. FreeNext(t) \in Int /\ Free(t) \in Int /\ FreeNext(t) = Free(t)
    BY <1>1, <2>1, BooksSame DEF MoneyInv
  <2>3. Due(Top, t) = 0
    BY <1>1 DEF Due
  <2> QED BY <2>2, <2>3 DEF Covers
<1> QED BY <1>1, <1>2, ConservedSame, LeaveMoney

\* Money looks at the balances and the books only.
LEMMA MoneySame ==
    ASSUME NEW s, NEW r, NEW fs, NEW n, NEW t, Money(s, fs, n, t), r.balanceOf = s.balanceOf,
           r.notas = s.notas, r.hookRevenue = s.hookRevenue,
           r.protocolRevenue = s.protocolRevenue
    PROVE  Money(r, fs, n, t)
<1>1. Escrow(r, t) = Escrow(s, t) /\ Earnings(r, t) = Earnings(s, t)
  BY DEF Escrow, Earnings
<1>2. Booked(r, t) = Booked(s, t)
  BY <1>1 DEF Booked
<1> QED BY <1>2 DEF Money, Conserved, Liabilities

\* burn goes on, over the storage it has found when the hook has reverted.
LEMMA BurnAllowedMoney ==
    ASSUME NEW t \in Tokens, MoneyInv(t), StructureInv', NEW ok, BurnAllowed(ok)
    PROVE  MoneyInv(t)'
<1> DEFINE f == [Top EXCEPT !.pc = "burn"]
           n == Len(frames) - 1
<1>1. frames # <<>> /\ Top.pc = "hook" /\ Continue(f) /\ StructureInv
  BY DEF BurnAllowed, At, MoneyInv
<1>2. Top \in FrameType /\ f \in FrameType /\ f.pc = "burn" /\ f.saved = Top.saved
  <2>1. Top \in FrameType /\ "burn" \in Pcs
    BY <1>1, Innermost DEF Pcs
  <2> QED BY <2>1, MovedFrame
<1>3. /\ frames \in Seq(FrameType) /\ n \in Nat /\ Len(frames) = n + 1
      /\ n \in 0 .. Len(frames)
  BY <1>1, Present, Innermost
<1> HIDE DEF f
<1>4. Due(Top, t) = 0 /\ Due(f, t) = 0
  BY <1>1, <1>2 DEF Due
<1>5. CASE ok
  <2>1. UNCHANGED <<balanceOf, govVars, notas>>
    BY <1>5 DEF BurnAllowed, erc20Vars
  <2>2. FreeNext(t) \in Int /\ Covers(FreeNext(t), Free(t) + Due(f, t) - Due(Top, t))
    <3>1. balanceOf'[t][Registrar] = balanceOf[t][Registrar]
      BY <2>1
    <3>2. FreeNext(t) \in Int /\ Free(t) \in Int /\ FreeNext(t) = Free(t)
      BY <1>1, <2>1, <3>1, BooksSame
    <3> QED BY <1>4, <3>2 DEF Covers
  <2> QED BY <1>1, <1>2, <2>1, <2>2, ConservedSame, ContinueMoney
<1>6. CASE ~ok
  <2>1. RestoreBut(Top.saved)
    BY <1>6 DEF BurnAllowed
  <2>2. Level(Storage, frames, n) = Top.saved
    <3> HIDE DEF n
    <3>1. n # Len(frames) /\ Top = frames[n + 1]
      BY <1>1, <1>3, Innermost
    <3> QED BY <3>1 DEF Level
  <2>3. Money(Top.saved, frames, n, t)
    BY <1>3, <2>2 DEF MoneyInv, MoneyLevels
  <2>4. Money(Storage', frames, n, t)
    BY <2>1, <2>3, MoneySame, StorageFieldsNext DEF RestoreBut
  <2>5. /\ \A k \in 1 .. n : frames[k] = frames'[k]
        /\ \A k \in 1 .. n + 1 : frames'[k] \in FrameType
        /\ frames'[n + 1] = f
    <3>1. /\ \A k \in 1 .. Len(frames) - 1 : frames'[k] = frames[k]
          /\ frames'[Len(frames)] = f
      <4> HIDE DEF n
      <4> QED BY <1>1, <1>3 DEF Continue
    <3>2. \A k \in 1 .. Len(frames) : frames[k] \in FrameType
      BY <1>3
    <3>3. \A k \in 1 .. n : frames[k] = frames'[k]
      BY <3>1
    <3> HIDE DEF n
    <3> QED BY <1>2, <1>3, <3>1, <3>2, <3>3
  <2>6. Money(Storage', frames', n, t)
    BY <1>3, <2>4, <2>5, MoneyPrefix
  <2> HIDE DEF n
  <2>7. Claims(frames', n + 1, t) = Claims(frames', n, t)
    <3>1. /\ Claims(frames', n, t) \in Int
          /\ Claims(frames', n + 1, t) = Claims(frames', n, t) + Due(f, t)
      BY <1>3, <2>5, ClaimsStep
    <3> QED BY <1>4, <3>1
  <2>8. Money(Storage', frames', Len(frames), t)
    BY <1>3, <2>6, <2>7 DEF Money, Liabilities, Claims
  <2> QED BY <1>1, <1>2, <2>8, ContinueLevelsMoney
<1> QED BY <1>5, <1>6

\* burn turns the escrow, as it has read it, into the hook's revenue.
LEMMA BurnStoreMoney ==
    ASSUME NEW t \in Tokens, MoneyInv(t), StructureInv', BurnStore
    PROVE  MoneyInv(t)'
<1>1. /\ frames # <<>> /\ Top.op = "burn" /\ Top.op \in GuardedOps \ {"write"}
      /\ Top.pc = "burn" /\ Leave /\ UNCHANGED balanceOf /\ CreditHook(Top, Top.escrowed)
      /\ notas' = [notas EXCEPT ![Top.id] = EmptyNota]
      /\ StructureInv /\ StorageOK /\ StorageOK'
  BY Present, StorageTypedNext DEF BurnStore, At, LeaveGuarded, erc20Vars, MoneyInv,
     StructureInv, TypeOK, GuardedOps
<1>2. Top \in FrameType /\ Top.escrowed \in Uint /\ Top.escrowed \in Nat
  BY <1>1, Innermost, EVMAssumption DEF FrameType, Uint
<1>3. /\ Top.id \in NotaIds /\ notas[Top.id] \in Nota /\ notas[Top.id].currency = Top.currency
      /\ Top.currency \in Tokens /\ Top.hooks \in HookContracts
      /\ notas[Top.id].escrowed = Top.escrowed
  BY <1>1, NotaInProgress, Innermost, StorageFields DEF CurrentIn
<1>4. /\ notas'[Top.id].escrowed = 0
      /\ \A i \in NotaIds \ {Top.id} : notas'[i] = notas[i]
  BY <1>1, <1>3 DEF StorageOK, EmptyNota
<1>5. FreeNext(t) \in Int /\ Covers(FreeNext(t), Free(t) - Due(Top, t))
  <2> DEFINE dr == IF Top.currency = t THEN Top.escrowed ELSE 0
             de == -dr
  <2>1. Due(Top, t) = 0 /\ de \in Int /\ dr \in Int /\ de + dr = 0 /\ 0 - dr = de
    BY <1>1, <1>2 DEF Due
  <2>2. Escrow(Storage', t)[Top.id] = 0 /\ Escrow(Storage, t)[Top.id] = dr
    BY <1>3, <1>4, StorageFields, StorageFieldsNext DEF Escrow
  <2>3. /\ EarningsTotal(Storage', t) = EarningsTotal(Storage, t) + dr
        /\ protocolRevenue' = protocolRevenue
    BY <1>1, <1>2, <1>3, CreditMoney
  <2> HIDE DEF de, dr
  <2>4. EscrowTotal(Storage', t) = EscrowTotal(Storage, t) + de
    <3>1. EscrowTotal(Storage', t)
            = EscrowTotal(Storage, t) + Escrow(Storage', t)[Top.id] - Escrow(Storage, t)[Top.id]
      BY <1>1, <1>3, <1>4, EscrowStep
    <3>2. EscrowTotal(Storage, t) \in Nat
      BY <1>1, FreeParts
    <3> QED BY <2>1, <2>2, <3>1, <3>2
  <2>5. FreeNext(t) \in Int /\ Free(t) \in Int /\ FreeNext(t) = Free(t) - (de + dr)
    BY <1>1, <2>1, <2>3, <2>4, Booking
  <2> QED BY <2>1, <2>5 DEF Covers
<1> QED BY <1>1, <1>5, ConservedSame, LeaveMoney

\* A withdrawal is paid.
LEMMA WithdrawPayMoney ==
    ASSUME NEW t \in Tokens, MoneyInv(t), PayeesInv, StructureInv', NEW op, WithdrawPay(op)
    PROVE  MoneyInv(t)'
<1>1. /\ frames # <<>> /\ Top.pc = "withdraw" /\ Leave /\ UNCHANGED <<govVars, notas>>
      /\ MoveTokens(Top.currency, Registrar, Top.to, Top.amount)
  BY DEF WithdrawPay, At, TokenTransfer
<1>2. /\ Top \in FrameType /\ Top.amount \in Uint
      /\ Top.currency \in Tokens /\ Top.to \in MaybeAccount
  BY <1>1, Innermost DEF MoneyInv, FrameType
<1>3. /\ FreeNext(t) \in Int /\ Covers(FreeNext(t), Free(t) - Due(Top, t))
      /\ Conserved(Storage', t)
  <2>1. /\ Conserved(Storage', t)
        /\ balanceOf'[t][Registrar] \in Nat
        /\ balanceOf'[t][Registrar]
             >= balanceOf[t][Registrar] - (IF Top.currency = t THEN Top.amount ELSE 0)
        /\ Quiet => balanceOf'[t][Registrar]
                      = balanceOf[t][Registrar] - (IF Top.currency = t THEN Top.amount ELSE 0)
    BY <1>1, <1>2, RegistrarPaysMoney, PayeesNow
  <2>2. Due(Top, t) = (IF Top.currency = t THEN Top.amount ELSE 0) /\ Due(Top, t) \in Nat
    BY <1>1, <1>2, DueIsNat DEF Due
  <2>3. /\ FreeNext(t) \in Int /\ Free(t) \in Int
        /\ balanceOf[t][Registrar] \in Nat
        /\ FreeNext(t) = Free(t) + balanceOf'[t][Registrar] - balanceOf[t][Registrar]
    BY <1>1, BooksSame DEF MoneyInv
  <2> QED BY <2>1, <2>2, <2>3 DEF Covers
<1> QED BY <1>1, <1>3, LeaveMoney

-----------------------------------------------------------------------------
(* The theorems.                                                            *)

\* Every step of the innermost function.
LEMMA ProceedMoney ==
    ASSUME NEW t \in Tokens, MoneyInv(t), PayeesInv, StructureInv', Proceed
    PROVE  MoneyInv(t)'
<1>1. ASSUME NEW fee \in HookFees, NEW op \in {"write", "fund"}, AskForEscrow(op, fee)
      PROVE  MoneyInv(t)'
  BY <1>1, AskForEscrowMoney
<1>2. ASSUME NEW fee \in HookFees, CashDebit(fee) PROVE MoneyInv(t)'
  BY <1>2, CashDebitMoney
<1>3. ASSUME NEW fee \in HookFees, ApproveStore(fee) \/ UpdateStore(fee)
      PROVE  MoneyInv(t)'
  BY <1>3, FeeOnlyMoney
<1>4. ASSUME NEW fee \in HookFees, NEW op \in {"transferFrom", "safeTransferFrom"},
             TransferStore(op, fee)
      PROVE  MoneyInv(t)'
  BY <1>4, TransferStoreMoney
<1>5. ASSUME NEW op \in {"write", "fund"}, PullEscrow(op) \/ PayInstant(op)
      PROVE  MoneyInv(t)'
  BY <1>5, PullEscrowMoney, PayInstantMoney
<1>6. ASSUME NEW ok \in BOOLEAN, BurnAllowed(ok) PROVE MoneyInv(t)'
  BY <1>6, BurnAllowedMoney
<1>7. ASSUME NEW op \in {"hookWithdraw", "protocolWithdraw"}, WithdrawPay(op)
      PROVE  MoneyInv(t)'
  BY <1>7, WithdrawPayMoney
<1> QED BY <1>1, <1>2, <1>3, <1>4, <1>5, <1>6, <1>7, WriteStoreMoney, FundStoreMoney,
    CashPayMoney, CashCreditMoney, ReceiverAcceptsMoney, BurnStoreMoney DEF Proceed

\* Every step.
LEMMA NextMoney ==
    ASSUME NEW t \in Tokens, MoneyInv(t), PayeesInv, [Next]_vars
    PROVE  MoneyInv(t)'
<1>1. StructureInv'
  BY NextSound DEF MoneyInv
<1>2. CASE Next
  <2>1. ASSUME NEW caller \in Callers, Call(caller) PROVE MoneyInv(t)'
    BY <1>1, <2>1, CallMoney
  <2> QED BY <1>1, <1>2, <2>1, ProceedMoney, UnguardedMoney, RevertMoney DEF Next
<1>3. CASE UNCHANGED vars
  <2>1. frames' = frames /\ UNCHANGED <<balanceOf, notas, hookRevenue, protocolRevenue>>
    BY <1>3 DEF vars, evmVars, erc20Vars, govVars
  <2> QED BY <1>1, <2>1, NothingPaid
<1> QED BY <1>2, <1>3

\* The inductive invariant: at every level of the stack, in every currency, tokens are
\* conserved and the registrar holds what it owes, exactly that when no one pays it.
THEOREM MoneyInvariant == Spec => [](\A t \in Tokens : MoneyInv(t))
<1> DEFINE Inv == \A t \in Tokens : MoneyInv(t)
<1>1. Init => Inv
  BY InitMoney
<1>2. Inv /\ PayeesInv /\ [Next]_vars => Inv'
  <2>1. ASSUME Inv, PayeesInv, [Next]_vars, NEW t \in Tokens PROVE MoneyInv(t)'
    BY <2>1, NextMoney
  <2> QED BY <2>1
<1> HIDE DEF Inv
<1>3. Spec => []Inv
  BY <1>1, <1>2, PayeesInvariant, PTL DEF Spec
<1> QED BY <1>3 DEF Inv

\* In every currency the registrar holds at least the escrow of every nota, the revenue
\* of every hook and of the protocol, and what the functions in progress are about to
\* pay or to book, whatever the hooks and the receivers do while it waits.
THEOREM Solvency == Spec => []Solvent
<1>1. (\A t \in Tokens : MoneyInv(t)) => Solvent
  BY Covered, StorageFields DEF Money, Covers, Solvent, SolventIn
<1> QED BY <1>1, MoneyInvariant, PTL

\* When no one pays the registrar's own address, it holds exactly that: every token in it
\* is in a nota's escrow or in someone's revenue, or about to be, and none is stranded.
THEOREM NothingLeft ==
    ASSUME Registrar \notin Recipients \cup GovRecipients
    PROVE  Spec => []NothingStranded
<1>1. Quiet
  BY DEF Quiet
<1>2. (\A t \in Tokens : MoneyInv(t)) => NothingStranded
  BY <1>1, Covered, StorageFields DEF Money, Covers, NothingStranded
<1> QED BY <1>2, MoneyInvariant, PTL

\* The payments of the registrar and of the accounts neither make nor lose tokens.
THEOREM SupplyConservation == Spec => []SupplyConserved
<1>1. (\A t \in Tokens : MoneyInv(t)) => SupplyConserved
  BY Covered DEF Conserved, ConservedIn, SupplyConserved
<1> QED BY <1>1, MoneyInvariant, PTL

\* Moving what a nota holds into its hook's revenue can never overflow: the two together
\* are no more than the registrar holds.
THEOREM NoOverflow == Spec => []UncheckedCreditSafe
<1>1. ASSUME StructureInv, \A t \in Tokens : MoneyInv(t), NEW id \in NotaIds, Exists(id)
      PROVE  notas[id].escrowed + hookRevenue[notas[id].hooks][notas[id].currency] <= MaxUint
  <2> DEFINE t == notas[id].currency
             h == notas[id].hooks
  <2>1. /\ StructureInv /\ StorageOK /\ AgreeIn(Storage) /\ Storage \in StorageType
        /\ frames \in Seq(FrameType) /\ Len(frames) \in Nat
    BY <1>1, Present, StorageTyped
  <2>2. t \in Tokens /\ h \in HookContracts
    BY <1>1, <2>1, NotaExists DEF Nota
  <2>3. /\ Escrow(Storage, t)[id] = notas[id].escrowed
        /\ Earnings(Storage, t)[h] = hookRevenue[h][t]
    BY <1>1, <2>2, StorageFields DEF Escrow, Earnings
  <2>4. balanceOf[t][Registrar] \in Uint
    BY <2>1, <2>2, EVMAssumption DEF StorageOK, ERC20TypeOK, Ledger
  <2> HIDE DEF t, h
  <2>5. /\ Booked(Storage, t) \in Nat
        /\ Escrow(Storage, t)[id] + Earnings(Storage, t)[h] <= Booked(Storage, t)
        /\ Escrow(Storage, t)[id] \in Nat /\ Earnings(Storage, t)[h] \in Nat
    BY <2>1, <2>2, BookedBounds, BooksAreWords
  <2>6. Claims(frames, Len(frames), t) \in Nat
    <3>1. IsFiniteSet(1 .. Len(frames))
      BY <2>1, FS_Interval
    <3>2. \A k \in 1 .. Len(frames) : Dues(frames, Len(frames), t)[k] \in Nat
      BY <2>1, DueIsNat DEF Dues
    <3> QED BY <3>1, <3>2, SumBounds DEF Claims
  <2>7. Free(t) \in Int /\ Free(t) >= Claims(frames, Len(frames), t)
    BY <1>1, <2>2, Covered DEF Covers
  <2>8. /\ balanceOf[t][Registrar] \in Nat /\ MaxUint \in Nat
        /\ balanceOf[t][Registrar] <= MaxUint
    BY <2>4, EVMAssumption DEF Uint
  <2>9. Booked(Storage, t) <= MaxUint
    BY <2>5, <2>6, <2>7, <2>8 DEF Free
  <2>10. Escrow(Storage, t)[id] + Earnings(Storage, t)[h] <= MaxUint
    BY <2>5, <2>8, <2>9
  <2> QED BY <2>3, <2>10 DEF t, h
<1>2. StructureInv /\ (\A t \in Tokens : MoneyInv(t)) => UncheckedCreditSafe
  BY <1>1 DEF UncheckedCreditSafe
<1> QED BY <1>2, Structure, MoneyInvariant, PTL
-----------------------------------------------------------------------------
(* Currencies that are not plain tokens.                                     *)

\* What still holds of the others.
ElasticInv ==
    /\ PayeesInv
    /\ \A t \in Tokens \ elastic : MoneyInv(t)

\* A currency that shrinks its balances moves nothing in the others.
LEMMA ShrinkKept ==
    ASSUME ElasticInv, NEW u \in elastic \cap Tokens, NEW loss \in Losses, Shrink(u, loss),
           UNCHANGED elastic
    PROVE  ElasticInv'
<1>1. /\ frames' = frames /\ UNCHANGED <<evmVars, owners, notas, nextId, status>>
      /\ UNCHANGED <<allowance, erc721Vars, govVars, hookRevenue, protocolRevenue>>
      /\ balanceOf' = [balanceOf EXCEPT ![u][Registrar] = balanceOf[u][Registrar] - loss]
      /\ loss <= balanceOf[u][Registrar]
  BY DEF Shrink, evmVars, erc721Vars, govVars
<1>2. /\ StructureInv /\ StorageOK
      /\ \A k \in 0 .. Len(frames) : PayeesIn(Level(Storage, frames, k), frames, k)
  BY Present DEF ElasticInv, PayeesInv
<1>3. StorageOK'
  <2>1. balanceOf \in Ledger /\ balanceOf[u][Registrar] \in Uint /\ loss \in Uint
    BY <1>2, LossesAssumption, EVMAssumption DEF StorageOK, ERC20TypeOK, Ledger
  <2>2. balanceOf[u][Registrar] - loss \in Uint
    BY <1>1, <2>1, EVMAssumption DEF Uint
  <2>3. balanceOf' \in Ledger
    BY <1>1, <2>1, <2>2 DEF Ledger
  <2> QED BY <1>1, <1>2, <2>3 DEF StorageOK, ERC20TypeOK, ERC721TypeOK, GovTypeOK,
         erc721Vars, govVars
<1>4. StructureInv'
  BY <1>1, <1>2, <1>3, RunSound
<1>5. PayeesInv'
  <2>1. Storage'.owners = Storage.owners
    BY <1>1, StorageFields, StorageFieldsNext
  <2>2. ASSUME NEW k \in 0 .. Len(frames)
        PROVE  PayeesIn(Level(Storage', frames, k), frames, k)
    <3>1. Level(Storage', frames, k).owners = Level(Storage, frames, k).owners
      BY <2>1 DEF Level
    <3> QED BY <1>2, <3>1 DEF PayeesIn
  <2> QED BY <1>1, <1>4, <2>2 DEF PayeesInv
<1>6. ASSUME NEW t \in Tokens \ elastic PROVE MoneyInv(t)'
  <2>1. balanceOf'[t] = balanceOf[t]
    BY <1>1, <1>2 DEF StorageOK, ERC20TypeOK, Ledger
  <2> QED BY <1>1, <1>4, <1>6, <2>1, NothingPaid DEF ElasticInv
<1> QED BY <1>5, <1>6 DEF ElasticInv

\* Whatever an elastic currency loses, in every plain one the registrar holds what it owes,
\* in whatever order notas of both are written, funded, cashed and withdrawn.
THEOREM OthersKeepTheirs == ElasticSpec => []OthersSolvent
<1> DEFINE Inv == ElasticInv /\ elastic \subseteq Tokens
<1>1. ElasticInit => Inv
  BY InitMoney, InitPayees DEF ElasticInit, ElasticInv
<1>2. Inv /\ [ElasticNext]_elasticVars => Inv'
  <2> SUFFICES ASSUME ElasticInv, elastic \subseteq Tokens, [ElasticNext]_elasticVars
               PROVE  ElasticInv' /\ elastic' \subseteq Tokens
    OBVIOUS
  <2>1. UNCHANGED elastic
    BY DEF ElasticNext, elasticVars
  <2>2. CASE [Next]_vars
    BY <2>1, <2>2, PayeesKept, NextMoney DEF ElasticInv
  <2>3. ASSUME NEW t \in elastic, NEW loss \in Losses, Shrink(t, loss) PROVE ElasticInv'
    BY <2>1, <2>3, ShrinkKept
  <2> QED BY <2>1, <2>2, <2>3 DEF ElasticNext, elasticVars
<1>3. Inv => OthersSolvent
  BY Covered, StorageFields DEF ElasticInv, Money, Covers, OthersSolvent
<1> QED BY <1>1, <1>2, <1>3, PTL DEF ElasticSpec
=============================================================================
