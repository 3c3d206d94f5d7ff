---------------------------- MODULE BooksProofs ----------------------------
(***************************************************************************)
(* The revenue books, proved for every set of hooks, tokens and accounts,  *)
(* every amount and every width of a word: the rounding of the protocol's  *)
(* share loses nothing and never takes more than the cap, however the fee  *)
(* is changed between withdrawals.                                         *)
(***************************************************************************)
EXTENDS RevenueBooks, SumTheorems

BooksTypeOK == GovTypeOK /\ ERC20TypeOK

\* The supply of every token fits in a word: no unchecked credit wraps.
SupplyFits ==
    \A t \in Tokens : SumFunctionOnSet(balanceOf[t], Accounts) <= MaxUint

\* The cap on the share taken so far is inductive with the cap on the fee of the
\* next withdrawal.
FeeCapped == protocolFee <= MAX_PROTOCOL_FEE

BooksInv ==
    /\ BooksTypeOK
    /\ SupplyFits
    /\ FeeCapped
    /\ BooksBalance
    /\ ProtocolShareCapped

\* What the hooks can withdraw of t, and what they have.
Owed(books, t) == SumFunctionOnSet([h \in HookContracts |-> books[h][t]], HookContracts)

-----------------------------------------------------------------------------
\* Words are numbers.
LEMMA Words == Uint \subseteq Nat /\ Uint \subseteq Int /\ MaxUint \in Nat
BY EVMAssumption DEF Uint

\* The hooks are finitely many, and are accounts.
LEMMA HooksFinite == IsFiniteSet(HookContracts) /\ IsFiniteSet(Accounts)
<1>1. IsFiniteSet(Accounts) /\ HookContracts \subseteq Accounts
  BY RevenueBooksAssumption, GovAssumption
<1> QED BY <1>1, FS_Subset

\* A sum over the hooks, or over the accounts, when one entry changes.
LEMMA ChangeOne ==
    ASSUME NEW S \in {HookContracts, Accounts}, NEW x \in S, NEW u, NEW v,
           \A y \in S : u[y] \in Int /\ v[y] \in Int, \A y \in S \ {x} : v[y] = u[y]
    PROVE  /\ SumFunctionOnSet(u, S) \in Int
           /\ SumFunctionOnSet(v, S) = SumFunctionOnSet(u, S) + v[x] - u[x]
<1>1. IsFiniteSet(S)
  BY HooksFinite
<1> QED BY <1>1, SumUpdate

\* The share of a withdrawal is a number, at most ten per cent of the amount when the
\* fee is capped.
LEMMA ShareOfOne ==
    ASSUME NEW amount \in Nat, protocolFee \in Nat, FeeCapped
    PROVE  /\ FeeOn(amount) \in Nat
           /\ FeeOn(amount) * BasisPoints <= amount * MAX_PROTOCOL_FEE
<1> DEFINE n == amount * protocolFee
<1>1. n \in Nat
  OBVIOUS
<1>2. n <= amount * 1000
  <2>1. protocolFee <= 1000
    BY DEF FeeCapped, MAX_PROTOCOL_FEE
  <2>2. PICK d \in Nat : protocolFee + d = 1000
    <3>1. 1000 - protocolFee \in Nat /\ protocolFee + (1000 - protocolFee) = 1000
      BY <2>1
    <3> QED BY <3>1
  <2>3. amount * d \in Nat /\ amount * (protocolFee + d) = amount * protocolFee + amount * d
    BY <2>2
  <2> QED BY <2>2, <2>3
<1> HIDE DEF n
<1>3. n \div 10000 \in Nat /\ (n \div 10000) * 10000 <= n
  BY <1>1
<1>4. FeeOn(amount) = n \div 10000
  BY DEF FeeOn, BasisPoints, n
<1> QED BY <1>1, <1>2, <1>3, <1>4 DEF BasisPoints, MAX_PROTOCOL_FEE

\* Two books differ at most in what hook h has of token t.
SameBut(new, old, h, t) ==
    \A g \in HookContracts, u \in Tokens : g # h \/ u # t => new[g][u] = old[g][u]

\* One entry of a book that changes changes the sum of its token by as much, and the
\* sums of the other tokens not at all.
LEMMA OwedStep ==
    ASSUME NEW old \in Books, NEW new \in Books, NEW h \in HookContracts, NEW t \in Tokens,
           SameBut(new, old, h, t)
    PROVE  /\ \A u \in Tokens : Owed(old, u) \in Int
           /\ Owed(new, t) = Owed(old, t) + new[h][t] - old[h][t]
           /\ \A u \in Tokens \ {t} : Owed(new, u) = Owed(old, u)
<1>2. \A g \in HookContracts, u \in Tokens : g # h \/ u # t => new[g][u] = old[g][u]
  BY DEF SameBut
<1>3. \A g \in HookContracts, u \in Tokens : old[g][u] \in Int /\ new[g][u] \in Int
  <2>1. \A g \in HookContracts, u \in Tokens : old[g][u] \in Uint /\ new[g][u] \in Uint
    BY DEF Books
  <2> QED BY <2>1, Words
<1>4. ASSUME NEW u \in Tokens
      PROVE  /\ Owed(old, u) \in Int
             /\ Owed(new, u) = Owed(old, u) + new[h][u] - old[h][u]
  <2> DEFINE f == [g \in HookContracts |-> old[g][u]]
             k == [g \in HookContracts |-> new[g][u]]
  <2>1. /\ \A y \in HookContracts : f[y] \in Int /\ k[y] \in Int
        /\ \A y \in HookContracts \ {h} : k[y] = f[y]
        /\ k[h] = new[h][u] /\ f[h] = old[h][u]
    BY <1>2, <1>3
  <2> HIDE DEF f, k
  <2>2. /\ SumFunctionOnSet(f, HookContracts) \in Int
        /\ SumFunctionOnSet(k, HookContracts) = SumFunctionOnSet(f, HookContracts) + k[h] - f[h]
    BY <2>1, ChangeOne
  <2>3. Owed(old, u) = SumFunctionOnSet(f, HookContracts)
        /\ Owed(new, u) = SumFunctionOnSet(k, HookContracts)
    BY DEF f, k, Owed
  <2> QED BY <2>1, <2>2, <2>3
<1>5. ASSUME NEW u \in Tokens \ {t} PROVE Owed(new, u) = Owed(old, u)
  <2>1. new[h][u] = old[h][u] /\ old[h][u] \in Int
    BY <1>2, <1>3
  <2>2. /\ Owed(old, u) \in Int
        /\ Owed(new, u) = Owed(old, u) + new[h][u] - old[h][u]
    BY <1>4
  <2> QED BY <2>1, <2>2
<1> QED BY <1>4, <1>5

\* The same as an addition to the entry.
LEMMA OwedPlus ==
    ASSUME NEW old \in Books, NEW new \in Books, NEW h \in HookContracts, NEW t \in Tokens,
           NEW d \in Int, SameBut(new, old, h, t), new[h][t] = old[h][t] + d
    PROVE  /\ \A u \in Tokens : Owed(old, u) \in Int
           /\ Owed(new, t) = Owed(old, t) + d
           /\ \A u \in Tokens \ {t} : Owed(new, u) = Owed(old, u)
<1>1. /\ \A u \in Tokens : Owed(old, u) \in Int
      /\ Owed(new, t) = Owed(old, t) + new[h][t] - old[h][t]
      /\ \A u \in Tokens \ {t} : Owed(new, u) = Owed(old, u)
  BY OwedStep
<1>2. old[h][t] \in Int
  <2>1. old[h][t] \in Uint
    BY DEF Books
  <2> QED BY <2>1, Words
<1>3. Owed(old, t) \in Int
  BY <1>1
<1>4. Owed(new, t) = Owed(old, t) + d
  BY <1>1, <1>2, <1>3
<1> QED BY <1>1, <1>4

\* A payment between two accounts moves the amount and keeps the supply.
LEMMA PaymentSum ==
    ASSUME NEW b \in [Accounts -> Uint], SumFunctionOnSet(b, Accounts) <= MaxUint,
           NEW from \in Accounts, NEW to \in Accounts \ {from}, NEW amount \in Nat,
           b[from] >= amount, NEW m, m = Moved(b, from, to, amount)
    PROVE  /\ m \in [Accounts -> Uint]
           /\ SumFunctionOnSet(m, Accounts) = SumFunctionOnSet(b, Accounts)
           /\ m[from] = b[from] - amount
           /\ m[to] = b[to] + amount
<1> DEFINE d == [b EXCEPT ![from] = b[from] - amount]
<1>1. /\ b[from] - amount \in Uint
      /\ \A a \in Accounts : b[a] \in Nat
  BY Words DEF Uint
<1>2. /\ d \in [Accounts -> Uint] /\ d[from] = b[from] - amount
      /\ \A a \in Accounts \ {from} : d[a] = b[a]
      /\ \A a \in Accounts : d[a] \in Nat
  BY <1>1, Words
<1>3. m = [d EXCEPT ![to] = (d[to] + amount) % (MaxUint + 1)]
  BY DEF Moved
<1> HIDE DEF d
<1>4. /\ SumFunctionOnSet(b, Accounts) \in Int
      /\ SumFunctionOnSet(d, Accounts) = SumFunctionOnSet(b, Accounts) - amount
  <2>1. \A a \in Accounts : b[a] \in Int /\ d[a] \in Int
    BY <1>2, Words
  <2>2. /\ SumFunctionOnSet(b, Accounts) \in Int
        /\ SumFunctionOnSet(d, Accounts) = SumFunctionOnSet(b, Accounts) + d[from] - b[from]
    BY <1>2, <2>1, ChangeOne
  <2> QED BY <1>2, <2>1, <2>2
<1>5. d[to] + amount \in Uint /\ (d[to] + amount) % (MaxUint + 1) = d[to] + amount
  <2>1. d[to] <= SumFunctionOnSet(d, Accounts)
    BY <1>2, HooksFinite, SumBounds
  <2>2. d[to] + amount \in Nat /\ d[to] + amount <= MaxUint
    BY <1>2, <1>4, <2>1, Words
  <2> QED BY <2>2, Words DEF Uint
<1>6. /\ m \in [Accounts -> Uint] /\ m[to] = d[to] + amount
      /\ \A a \in Accounts \ {to} : m[a] = d[a]
  BY <1>2, <1>3, <1>5
<1>7. SumFunctionOnSet(m, Accounts) = SumFunctionOnSet(b, Accounts)
  <2>1. \A a \in Accounts : d[a] \in Int /\ m[a] \in Int
    BY <1>2, <1>6, Words
  <2>2. /\ SumFunctionOnSet(d, Accounts) \in Int
        /\ SumFunctionOnSet(m, Accounts) = SumFunctionOnSet(d, Accounts) + m[to] - d[to]
    BY <1>6, <2>1, ChangeOne
  <2> QED BY <1>4, <1>6, <2>1, <2>2
<1> QED BY <1>2, <1>6, <1>7

\* The same of the ledger of all tokens.
LEMMA PaymentStep ==
    ASSUME BooksTypeOK, SupplyFits, NEW t \in Tokens, NEW from \in Accounts,
           NEW to \in Accounts \ {from}, NEW amount \in Nat,
           MoveTokens(t, from, to, amount)
    PROVE  /\ balanceOf' \in Ledger
           /\ SupplyFits'
           /\ \A u \in Tokens \ {t} : balanceOf'[u] = balanceOf[u]
           /\ balanceOf'[t][from] = balanceOf[t][from] - amount
           /\ balanceOf'[t][to] = balanceOf[t][to] + amount
<1> DEFINE b == balanceOf[t]
           m == Moved(b, from, to, amount)
<1>1. /\ balanceOf \in Ledger /\ b \in [Accounts -> Uint]
      /\ SumFunctionOnSet(b, Accounts) <= MaxUint
      /\ b[from] >= amount
      /\ balanceOf' = [balanceOf EXCEPT ![t] = m]
  BY DEF BooksTypeOK, ERC20TypeOK, Ledger, SupplyFits, MoveTokens
<1> HIDE DEF b
<1>2. /\ m \in [Accounts -> Uint]
      /\ SumFunctionOnSet(m, Accounts) = SumFunctionOnSet(b, Accounts)
      /\ m[from] = b[from] - amount /\ m[to] = b[to] + amount
  BY <1>1, PaymentSum
<1> HIDE DEF m
<1>3. /\ balanceOf' \in Ledger /\ balanceOf'[t] = m
      /\ \A u \in Tokens \ {t} : balanceOf'[u] = balanceOf[u]
  BY <1>1, <1>2 DEF Ledger
<1>4. SupplyFits'
  <2> SUFFICES ASSUME NEW u \in Tokens
               PROVE  SumFunctionOnSet(balanceOf'[u], Accounts) <= MaxUint
    BY DEF SupplyFits
  <2>1. CASE u = t
    BY <1>1, <1>2, <1>3, <2>1
  <2>2. CASE u # t
    BY <1>3, <2>2 DEF SupplyFits
  <2> QED BY <2>1, <2>2
<1> QED BY <1>2, <1>3, <1>4 DEF b

-----------------------------------------------------------------------------
(* The invariant.                                                           *)

\* The two sums of RevenueBooks are sums of books.
LEMMA Sums ==
    /\ BooksBalance <=> \A t \in Tokens :
          balanceOf[t][Registrar] = protocolRevenue[t] + Owed(hookRevenue, t)
    /\ ProtocolShareCapped <=> \A t \in Tokens :
          protocolTotalRevenue[t] * BasisPoints
            <= Owed(hookTotalRevenue, t) * MAX_PROTOCOL_FEE
BY DEF BooksBalance, ProtocolShareCapped, Withdrawn, Owed

LEMMA SumsNext ==
    /\ BooksBalance' <=> \A t \in Tokens :
          balanceOf'[t][Registrar] = protocolRevenue'[t] + Owed(hookRevenue', t)
    /\ ProtocolShareCapped' <=> \A t \in Tokens :
          protocolTotalRevenue'[t] * BasisPoints
            <= Owed(hookTotalRevenue', t) * MAX_PROTOCOL_FEE
BY DEF BooksBalance, ProtocolShareCapped, Withdrawn, Owed

\* Both sides of the cap on the share grow together.
LEMMA CapGrows ==
    ASSUME NEW taken \in Nat, NEW drawn \in Int, NEW share \in Nat, NEW amount \in Nat,
           taken * BasisPoints <= drawn * MAX_PROTOCOL_FEE,
           share * BasisPoints <= amount * MAX_PROTOCOL_FEE
    PROVE  (taken + share) * BasisPoints <= (drawn + amount) * MAX_PROTOCOL_FEE
BY DEF BasisPoints, MAX_PROTOCOL_FEE

\* The books start empty, and the registrar with nothing.
LEMMA BooksStart == BooksInit => BooksInv
<1> SUFFICES ASSUME BooksInit PROVE BooksInv
  OBVIOUS
<1> USE DEF BooksInit, GovStart
<1>1. BooksTypeOK
  <2>1. 0 \in Uint /\ MaxUint \in Uint
    BY EVMAssumption DEF Uint
  <2>2. govOwner \in MaybeAccount
    BY GovAssumption DEF MaybeAccount
  <2> QED BY <2>1, <2>2, RevenueBooksAssumption
          DEF BooksTypeOK, GovTypeOK, ERC20TypeOK, Books, Ledger
<1>2. SupplyFits
  BY RevenueBooksAssumption DEF SupplyFits
<1>3. FeeCapped
  BY DEF FeeCapped, MAX_PROTOCOL_FEE
<1>4. \A t \in Tokens : Owed(hookRevenue, t) = 0 /\ Owed(hookTotalRevenue, t) = 0
  <2> SUFFICES ASSUME NEW t \in Tokens
               PROVE  Owed(hookRevenue, t) = 0 /\ Owed(hookTotalRevenue, t) = 0
    OBVIOUS
  <2> DEFINE f == [h \in HookContracts |-> 0]
  <2>1. \A x \in HookContracts : f[x] = 0
    OBVIOUS
  <2>2. /\ Owed(hookRevenue, t) = SumFunctionOnSet(f, HookContracts)
        /\ Owed(hookTotalRevenue, t) = SumFunctionOnSet(f, HookContracts)
    BY DEF Owed
  <2>3. IsFiniteSet(HookContracts)
    BY HooksFinite
  <2> HIDE DEF f
  <2>4. SumFunctionOnSet(f, HookContracts) = 0
    BY <2>1, <2>3, ZeroSum
  <2> QED BY <2>2, <2>4
<1>5. BooksBalance
  BY <1>4, Sums, RevenueBooksAssumption
<1>6. ProtocolShareCapped
  BY <1>4, Sums DEF BasisPoints, MAX_PROTOCOL_FEE
<1> QED BY <1>1, <1>2, <1>3, <1>5, <1>6 DEF BooksInv

\* A withdrawal by a hook splits what leaves its revenue between the payment and the
\* protocol, and raises what the hooks have drawn by the whole of it.
LEMMA HookWithdrawKeeps ==
    ASSUME BooksInv, NEW h \in HookContracts, NEW t \in Tokens, NEW amount \in GovAmounts,
           NEW to \in GovRecipients, HookWithdraw(h, t, amount, to)
    PROVE  BooksInv'
<1> DEFINE share == FeeOn(amount)
<1>1. /\ BooksTypeOK /\ GovTypeOK /\ ERC20TypeOK /\ SupplyFits /\ FeeCapped
      /\ BooksBalance /\ ProtocolShareCapped
  BY DEF BooksInv, BooksTypeOK
<1>2. amount \in Uint /\ amount \in Nat /\ amount \in Int /\ to \in Accounts \ {Registrar}
      /\ Registrar \in Accounts /\ MaxTotal \in Uint
  BY GovAssumption, RevenueBooksAssumption, EVMAssumption, Words
<1>3. share \in Nat /\ share * BasisPoints <= amount * MAX_PROTOCOL_FEE
  <2>1. protocolFee \in Nat
    BY <1>1, Words DEF GovTypeOK
  <2> QED BY <1>1, <1>2, <2>1, ShareOfOne
<1> HIDE DEF share
<1>4. /\ hookRevenue[h][t] >= amount
      /\ protocolTotalRevenue[t] + share <= MaxTotal
      /\ hookTotalRevenue[h][t] + amount <= MaxTotal
      /\ protocolRevenue[t] + share <= MaxUint
      /\ share <= amount
      /\ hookRevenue' = [hookRevenue EXCEPT ![h][t] = hookRevenue[h][t] - amount]
      /\ protocolRevenue' = [protocolRevenue EXCEPT ![t] = protocolRevenue[t] + share]
      /\ protocolTotalRevenue' =
            [protocolTotalRevenue EXCEPT ![t] = protocolTotalRevenue[t] + share]
      /\ hookTotalRevenue' =
            [hookTotalRevenue EXCEPT ![h][t] = hookTotalRevenue[h][t] + amount]
      /\ protocolFee' = protocolFee /\ govOwner' = govOwner /\ allowance' = allowance
      /\ MoveTokens(t, Registrar, to, amount - share)
  BY DEF HookWithdraw, HookWithdrawBooks, TokenTransfer, share
<1>5. /\ hookRevenue \in Books /\ hookTotalRevenue \in Books
      /\ hookRevenue[h][t] \in Uint /\ hookTotalRevenue[h][t] \in Uint
      /\ \A u \in Tokens : protocolRevenue[u] \in Uint /\ protocolTotalRevenue[u] \in Uint
      /\ \A u \in Tokens : balanceOf[u][Registrar] \in Uint
  BY <1>1, <1>2 DEF GovTypeOK, ERC20TypeOK, Books, Ledger
<1>6. /\ hookRevenue[h][t] - amount \in Uint
      /\ hookTotalRevenue[h][t] + amount \in Uint
      /\ protocolRevenue[t] + share \in Uint
      /\ protocolTotalRevenue[t] + share \in Uint
      /\ amount - share \in Nat
  BY <1>2, <1>3, <1>4, <1>5, Words DEF Uint
<1>7. /\ hookRevenue' \in Books
      /\ \A u \in Tokens : Owed(hookRevenue, u) \in Int
      /\ Owed(hookRevenue', t) = Owed(hookRevenue, t) - amount
      /\ \A u \in Tokens \ {t} : Owed(hookRevenue', u) = Owed(hookRevenue, u)
  <2>1. -amount \in Int /\ hookRevenue[h][t] \in Int
    <3>1. hookRevenue[h][t] \in Int
      BY <1>5, Words
    <3>2. amount \in Int
      BY <1>2
    <3>3. -amount \in Int
      BY ONLY <3>2
    <3> QED BY <3>1, <3>3
  <2>2. /\ hookRevenue' \in Books /\ SameBut(hookRevenue', hookRevenue, h, t)
        /\ hookRevenue'[h][t] = hookRevenue[h][t] - amount
    BY <1>4, <1>5, <1>6 DEF Books, SameBut
  <2>3. hookRevenue'[h][t] = hookRevenue[h][t] + (-amount)
    BY <1>2, <2>1, <2>2
  <2>4. /\ hookRevenue \in Books /\ h \in HookContracts /\ t \in Tokens
    BY <1>5
  <2>5. /\ \A u \in Tokens : Owed(hookRevenue, u) \in Int
        /\ Owed(hookRevenue', t) = Owed(hookRevenue, t) + (-amount)
        /\ \A u \in Tokens \ {t} : Owed(hookRevenue', u) = Owed(hookRevenue, u)
    BY ONLY <2>1, <2>2, <2>3, <2>4, OwedPlus
  <2>6. Owed(hookRevenue, t) \in Int
    BY <2>5
  <2> QED BY <1>2, <2>2, <2>5, <2>6
<1>8. /\ hookTotalRevenue' \in Books
      /\ \A u \in Tokens : Owed(hookTotalRevenue, u) \in Int
      /\ Owed(hookTotalRevenue', t) = Owed(hookTotalRevenue, t) + amount
      /\ \A u \in Tokens \ {t} : Owed(hookTotalRevenue', u) = Owed(hookTotalRevenue, u)
  <2>1. amount \in Int /\ hookTotalRevenue[h][t] \in Int
    BY <1>2, <1>5, Words
  <2>2. /\ hookTotalRevenue' \in Books /\ SameBut(hookTotalRevenue', hookTotalRevenue, h, t)
        /\ hookTotalRevenue'[h][t] = hookTotalRevenue[h][t] + amount
    BY <1>4, <1>5, <1>6 DEF Books, SameBut
  <2>3. /\ hookTotalRevenue \in Books /\ h \in HookContracts /\ t \in Tokens
    BY <1>5
  <2>4. /\ \A u \in Tokens : Owed(hookTotalRevenue, u) \in Int
        /\ Owed(hookTotalRevenue', t) = Owed(hookTotalRevenue, t) + amount
        /\ \A u \in Tokens \ {t} : Owed(hookTotalRevenue', u) = Owed(hookTotalRevenue, u)
    BY ONLY <2>1, <2>2, <2>3, OwedPlus
  <2> QED BY <2>2, <2>4
<1>9. /\ balanceOf' \in Ledger /\ SupplyFits'
      /\ \A u \in Tokens \ {t} : balanceOf'[u] = balanceOf[u]
      /\ balanceOf'[t][Registrar] = balanceOf[t][Registrar] - (amount - share)
  BY <1>1, <1>2, <1>4, <1>6, PaymentStep
<1>10. BooksTypeOK'
  BY <1>1, <1>4, <1>6, <1>7, <1>8, <1>9 DEF BooksTypeOK, GovTypeOK, ERC20TypeOK
<1>11. FeeCapped'
  BY <1>1, <1>4 DEF FeeCapped
<1>12. /\ protocolRevenue'[t] = protocolRevenue[t] + share
       /\ protocolTotalRevenue'[t] = protocolTotalRevenue[t] + share
       /\ \A u \in Tokens \ {t} : /\ protocolRevenue'[u] = protocolRevenue[u]
                                  /\ protocolTotalRevenue'[u] = protocolTotalRevenue[u]
  BY <1>1, <1>4 DEF GovTypeOK
<1>13. BooksBalance'
  <2> SUFFICES ASSUME NEW u \in Tokens
               PROVE  balanceOf'[u][Registrar] = protocolRevenue'[u] + Owed(hookRevenue', u)
    BY SumsNext
  <2>1. balanceOf[u][Registrar] = protocolRevenue[u] + Owed(hookRevenue, u)
    BY <1>1, Sums
  <2>2. protocolRevenue[u] \in Int /\ Owed(hookRevenue, u) \in Int
    BY <1>5, <1>7, Words
  <2>3. CASE u = t
    BY <1>2, <1>3, <1>7, <1>9, <1>12, <2>1, <2>2, <2>3
  <2>4. CASE u # t
    BY <1>7, <1>9, <1>12, <2>1, <2>4
  <2> QED BY <2>3, <2>4
<1>14. ProtocolShareCapped'
  <2> SUFFICES ASSUME NEW u \in Tokens
               PROVE  protocolTotalRevenue'[u] * BasisPoints
                        <= Owed(hookTotalRevenue', u) * MAX_PROTOCOL_FEE
    BY SumsNext
  <2>1. protocolTotalRevenue[u] * BasisPoints
          <= Owed(hookTotalRevenue, u) * MAX_PROTOCOL_FEE
    BY <1>1, Sums
  <2>2. CASE u = t
    <3>1. protocolTotalRevenue[t] \in Nat /\ Owed(hookTotalRevenue, t) \in Int
      BY <1>5, <1>8, Words
    <3>2. (protocolTotalRevenue[t] + share) * BasisPoints
            <= (Owed(hookTotalRevenue, t) + amount) * MAX_PROTOCOL_FEE
      BY <1>2, <1>3, <2>1, <2>2, <3>1, CapGrows
    <3> QED BY <1>8, <1>12, <2>2, <3>2
  <2>3. CASE u # t
    BY <1>8, <1>12, <2>1, <2>3
  <2> QED BY <2>2, <2>3
<1> QED BY <1>9, <1>10, <1>11, <1>13, <1>14 DEF BooksInv

\* A fee arrives with its tokens.
LEMMA AccrueKeeps ==
    ASSUME BooksInv, NEW h \in HookContracts, NEW t \in Tokens, NEW amount \in GovAmounts,
           NEW payer \in GovRecipients, Accrue(h, t, payer, amount)
    PROVE  BooksInv'
<1>1. /\ BooksTypeOK /\ GovTypeOK /\ ERC20TypeOK /\ SupplyFits /\ FeeCapped
      /\ BooksBalance /\ ProtocolShareCapped
  BY DEF BooksInv, BooksTypeOK
<1>2. amount \in Uint /\ amount \in Nat /\ amount \in Int /\ payer \in Accounts /\ payer # Registrar
      /\ Registrar \in Accounts \ {payer}
  BY GovAssumption, RevenueBooksAssumption, EVMAssumption, Words
<1>3. /\ hookRevenue[h][t] + amount <= MaxUint
      /\ hookRevenue' = [hookRevenue EXCEPT ![h][t] = hookRevenue[h][t] + amount]
      /\ hookTotalRevenue' = hookTotalRevenue /\ protocolRevenue' = protocolRevenue
      /\ protocolTotalRevenue' = protocolTotalRevenue
      /\ protocolFee' = protocolFee /\ govOwner' = govOwner
      /\ SpendAllowance(t, payer, amount)
      /\ MoveTokens(t, payer, Registrar, amount)
  BY DEF Accrue, CreditFits, Credit, TokenTransferFrom
<1>4. /\ hookRevenue \in Books /\ hookRevenue[h][t] \in Uint
      /\ \A u \in Tokens : protocolRevenue[u] \in Uint /\ balanceOf[u][Registrar] \in Uint
  BY <1>1, <1>2 DEF GovTypeOK, ERC20TypeOK, Books, Ledger
<1>5. hookRevenue[h][t] + amount \in Uint
  BY <1>2, <1>3, <1>4, Words DEF Uint
<1>6. /\ hookRevenue' \in Books
      /\ \A u \in Tokens : Owed(hookRevenue, u) \in Int
      /\ Owed(hookRevenue', t) = Owed(hookRevenue, t) + amount
      /\ \A u \in Tokens \ {t} : Owed(hookRevenue', u) = Owed(hookRevenue, u)
  <2>1. amount \in Int /\ hookRevenue[h][t] \in Int
    BY <1>2, <1>4, Words
  <2>2. /\ hookRevenue' \in Books /\ SameBut(hookRevenue', hookRevenue, h, t)
        /\ hookRevenue'[h][t] = hookRevenue[h][t] + amount
    BY <1>3, <1>4, <1>5 DEF Books, SameBut
  <2>3. /\ hookRevenue \in Books /\ h \in HookContracts /\ t \in Tokens
    BY <1>4
  <2>4. /\ \A u \in Tokens : Owed(hookRevenue, u) \in Int
        /\ Owed(hookRevenue', t) = Owed(hookRevenue, t) + amount
        /\ \A u \in Tokens \ {t} : Owed(hookRevenue', u) = Owed(hookRevenue, u)
    BY ONLY <2>1, <2>2, <2>3, OwedPlus
  <2> QED BY <2>2, <2>4
<1>7. /\ balanceOf' \in Ledger /\ SupplyFits'
      /\ \A u \in Tokens \ {t} : balanceOf'[u] = balanceOf[u]
      /\ balanceOf'[t][Registrar] = balanceOf[t][Registrar] + amount
  BY <1>1, <1>2, <1>3, PaymentStep
<1>8. allowance' \in Ledger
  <2>1. allowance \in Ledger /\ allowance[t][payer] \in Uint
    BY <1>1, <1>2 DEF ERC20TypeOK, Ledger
  <2>2. allowance[t][payer] >= amount => allowance[t][payer] - amount \in Uint
    BY <1>2, <2>1, Words DEF Uint
  <2> QED BY <1>3, <2>1, <2>2 DEF SpendAllowance, Ledger
<1>9. BooksTypeOK'
  BY <1>1, <1>3, <1>6, <1>7, <1>8 DEF BooksTypeOK, GovTypeOK, ERC20TypeOK
<1>10. FeeCapped'
  BY <1>1, <1>3 DEF FeeCapped
<1>11. BooksBalance'
  <2> SUFFICES ASSUME NEW u \in Tokens
               PROVE  balanceOf'[u][Registrar] = protocolRevenue'[u] + Owed(hookRevenue', u)
    BY SumsNext
  <2>1. balanceOf[u][Registrar] = protocolRevenue[u] + Owed(hookRevenue, u)
    BY <1>1, Sums
  <2>2. protocolRevenue[u] \in Int /\ Owed(hookRevenue, u) \in Int
    BY <1>4, <1>6, Words
  <2>3. CASE u = t
    BY <1>2, <1>3, <1>6, <1>7, <2>1, <2>2, <2>3
  <2>4. CASE u # t
    BY <1>3, <1>6, <1>7, <2>1, <2>4
  <2> QED BY <2>3, <2>4
<1>12. ProtocolShareCapped'
  BY <1>1, <1>3, Sums, SumsNext
<1> QED BY <1>7, <1>9, <1>10, <1>11, <1>12 DEF BooksInv

\* The owner takes what the protocol has.
LEMMA ProtocolWithdrawKeeps ==
    ASSUME BooksInv, NEW caller \in GovOwners, NEW t \in Tokens,
           NEW amount \in ProtocolAmounts, NEW to \in GovRecipients,
           ProtocolWithdraw(caller, t, amount, to)
    PROVE  BooksInv'
<1>1. /\ BooksTypeOK /\ GovTypeOK /\ ERC20TypeOK /\ SupplyFits /\ FeeCapped
      /\ BooksBalance /\ ProtocolShareCapped
  BY DEF BooksInv, BooksTypeOK
<1>2. amount \in Uint /\ amount \in Nat /\ amount \in Int /\ to \in Accounts \ {Registrar}
      /\ Registrar \in Accounts
  BY GovAssumption, RevenueBooksAssumption, EVMAssumption, Words
<1>3. /\ amount <= protocolRevenue[t]
      /\ protocolRevenue' = [protocolRevenue EXCEPT ![t] = protocolRevenue[t] - amount]
      /\ hookRevenue' = hookRevenue /\ hookTotalRevenue' = hookTotalRevenue
      /\ protocolTotalRevenue' = protocolTotalRevenue
      /\ protocolFee' = protocolFee /\ govOwner' = govOwner /\ allowance' = allowance
      /\ MoveTokens(t, Registrar, to, amount)
  BY DEF ProtocolWithdraw, ProtocolWithdrawBooks, TokenTransfer
<1>4. \A u \in Tokens : protocolRevenue[u] \in Uint /\ balanceOf[u][Registrar] \in Uint
  BY <1>1, <1>2 DEF GovTypeOK, ERC20TypeOK, Ledger
<1>5. protocolRevenue[t] - amount \in Uint
  BY <1>2, <1>3, <1>4, Words DEF Uint
<1>6. /\ balanceOf' \in Ledger /\ SupplyFits'
      /\ \A u \in Tokens \ {t} : balanceOf'[u] = balanceOf[u]
      /\ balanceOf'[t][Registrar] = balanceOf[t][Registrar] - amount
  BY <1>1, <1>2, <1>3, PaymentStep
<1>7. /\ protocolRevenue'[t] = protocolRevenue[t] - amount
      /\ \A u \in Tokens \ {t} : protocolRevenue'[u] = protocolRevenue[u]
      /\ protocolRevenue' \in [Tokens -> Uint]
  BY <1>1, <1>3, <1>5 DEF GovTypeOK
<1>8. BooksTypeOK'
  BY <1>1, <1>3, <1>6, <1>7 DEF BooksTypeOK, GovTypeOK, ERC20TypeOK
<1>9. FeeCapped'
  BY <1>1, <1>3 DEF FeeCapped
<1>10. BooksBalance'
  <2> SUFFICES ASSUME NEW u \in Tokens
               PROVE  balanceOf'[u][Registrar] = protocolRevenue'[u] + Owed(hookRevenue', u)
    BY SumsNext
  <2>1. balanceOf[u][Registrar] = protocolRevenue[u] + Owed(hookRevenue, u)
    BY <1>1, Sums
  <2>2. CASE u = t
    <3>1. Owed(hookRevenue, t) \in Int
      <4>1. hookRevenue \in Books
        BY <1>1 DEF GovTypeOK
      <4>2. \A x \in HookContracts : [h \in HookContracts |-> hookRevenue[h][t]][x] \in Nat
        BY <4>1, Words DEF Books
      <4> QED BY <4>2, HooksFinite, SumBounds DEF Owed
    <3>2. protocolRevenue[t] \in Int
      BY <1>4, Words
    <3>3. balanceOf'[t][Registrar] = (protocolRevenue[t] - amount) + Owed(hookRevenue, t)
      BY <1>2, <1>6, <2>1, <2>2, <3>1, <3>2
    <3> QED BY <1>3, <1>7, <2>2, <3>3
  <2>3. CASE u # t
    BY <1>3, <1>6, <1>7, <2>1, <2>3
  <2> QED BY <2>2, <2>3
<1>11. ProtocolShareCapped'
  BY <1>1, <1>3, Sums, SumsNext
<1> QED BY <1>6, <1>8, <1>9, <1>10, <1>11 DEF BooksInv

\* The owner sets the fee, below the cap, or hands ownership over or away.
LEMMA AdministerKeeps ==
    ASSUME BooksInv, NEW caller \in GovOwners, Administer(caller), UNCHANGED erc20Vars
    PROVE  BooksInv'
<1>1. /\ UNCHANGED <<hookRevenue, hookTotalRevenue, protocolRevenue, protocolTotalRevenue,
                     balanceOf, allowance>>
  BY DEF Administer, SetProtocolFee, TransferOwnership, RenounceOwnership, erc20Vars
<1>2. protocolFee' \in Uint /\ FeeCapped'
  BY GovAssumption DEF BooksInv, BooksTypeOK, GovTypeOK, FeeCapped, Administer,
     SetProtocolFee, TransferOwnership, RenounceOwnership
<1>3. govOwner' \in MaybeAccount
  BY GovAssumption DEF BooksInv, BooksTypeOK, GovTypeOK, MaybeAccount, Administer,
     SetProtocolFee, TransferOwnership, RenounceOwnership
<1>4. BooksTypeOK'
  BY <1>1, <1>2, <1>3 DEF BooksInv, BooksTypeOK, GovTypeOK, ERC20TypeOK
<1>5. SupplyFits'
  BY <1>1 DEF BooksInv, SupplyFits
<1>6. BooksBalance' /\ ProtocolShareCapped'
  BY <1>1, Sums, SumsNext DEF BooksInv
<1> QED BY <1>2, <1>4, <1>5, <1>6 DEF BooksInv

\* Every step keeps the books.
LEMMA BooksStep == BooksInv /\ [BooksNext]_bookVars => BooksInv'
<1> SUFFICES ASSUME BooksInv, [BooksNext]_bookVars PROVE BooksInv'
  OBVIOUS
<1>1. ASSUME NEW h \in HookContracts, NEW t \in Tokens, NEW amount \in GovAmounts,
             NEW to \in GovRecipients, HookWithdraw(h, t, amount, to)
      PROVE  BooksInv'
  BY <1>1, HookWithdrawKeeps
<1>2. ASSUME NEW h \in HookContracts, NEW t \in Tokens, NEW amount \in GovAmounts,
             NEW payer \in GovRecipients, Accrue(h, t, payer, amount)
      PROVE  BooksInv'
  BY <1>2, AccrueKeeps
<1>3. ASSUME NEW caller \in GovOwners, Administer(caller), UNCHANGED <<erc20Vars, evmVars>>
      PROVE  BooksInv'
  BY <1>3, AdministerKeeps
<1>4. ASSUME NEW caller \in GovOwners, NEW t \in Tokens, NEW amount \in ProtocolAmounts,
             NEW to \in GovRecipients, ProtocolWithdraw(caller, t, amount, to)
      PROVE  BooksInv'
  BY <1>4, ProtocolWithdrawKeeps
<1>5. CASE UNCHANGED bookVars
  <2>1. UNCHANGED <<hookRevenue, hookTotalRevenue, protocolRevenue, protocolTotalRevenue,
                    protocolFee, govOwner, balanceOf, allowance>>
    BY <1>5 DEF bookVars, govVars, erc20Vars
  <2>2. BooksTypeOK' /\ SupplyFits' /\ FeeCapped'
    BY <2>1 DEF BooksInv, BooksTypeOK, GovTypeOK, ERC20TypeOK, SupplyFits, FeeCapped
  <2>3. BooksBalance' /\ ProtocolShareCapped'
    BY <2>1, Sums, SumsNext DEF BooksInv
  <2> QED BY <2>2, <2>3 DEF BooksInv
<1> QED BY <1>1, <1>2, <1>3, <1>4, <1>5 DEF BooksNext

-----------------------------------------------------------------------------
\* The inductive invariant: types, a supply that fits in a word, a fee at or below the
\* cap, and the two properties of the books.
THEOREM BooksInvariant == BooksSpec => []BooksInv
BY BooksStart, BooksStep, PTL DEF BooksSpec

\* What the hooks and the protocol can withdraw is at every moment what the registrar
\* holds, for every amount, fee and rounding.
THEOREM BooksBalanced == BooksSpec => []BooksBalance
<1>1. BooksInv => BooksBalance
  BY DEF BooksInv
<1> QED BY <1>1, BooksInvariant, PTL

\* Over its whole life the protocol never takes more than the cap of what the hooks
\* have withdrawn, whatever fees have been set in between.
THEOREM ShareCapped == BooksSpec => []ProtocolShareCapped
<1>1. BooksInv => ProtocolShareCapped
  BY DEF BooksInv
<1> QED BY <1>1, BooksInvariant, PTL

\* Once ownership has been renounced it stays so, the fee stays as it is, and what the
\* protocol has earned only grows.
THEOREM RenouncingIsFinal == BooksSpec => RenouncedForGood
<1> DEFINE Final == govOwner = Null =>
             /\ UNCHANGED <<govOwner, protocolFee>>
             /\ \A t \in Tokens : protocolRevenue'[t] >= protocolRevenue[t]
<1>1. ASSUME BooksInv, [BooksNext]_bookVars PROVE [Final]_bookVars
  <2> SUFFICES ASSUME BooksNext, govOwner = Null
               PROVE  /\ govOwner' = govOwner /\ protocolFee' = protocolFee
                      /\ \A t \in Tokens : protocolRevenue'[t] >= protocolRevenue[t]
    BY <1>1
  <2>1. /\ \A u \in Tokens : protocolRevenue[u] \in Int
        /\ protocolRevenue \in [Tokens -> Uint] /\ protocolFee \in Nat /\ FeeCapped
    BY <1>1, Words DEF BooksInv, BooksTypeOK, GovTypeOK
  <2>2. Null \notin GovOwners
    BY EVMAssumption, GovAssumption
  <2>3. ASSUME NEW h \in HookContracts, NEW t \in Tokens, NEW amount \in GovAmounts,
               NEW to \in GovRecipients, HookWithdraw(h, t, amount, to)
        PROVE  /\ govOwner' = govOwner /\ protocolFee' = protocolFee
               /\ \A u \in Tokens : protocolRevenue'[u] >= protocolRevenue[u]
    <3>1. amount \in Nat
      BY GovAssumption, Words
    <3>2. FeeOn(amount) \in Nat
      BY <2>1, <3>1, ShareOfOne
    <3>3. /\ govOwner' = govOwner /\ protocolFee' = protocolFee
          /\ protocolRevenue' =
                [protocolRevenue EXCEPT ![t] = protocolRevenue[t] + FeeOn(amount)]
      BY <2>3 DEF HookWithdraw, HookWithdrawBooks
    <3> HIDE DEF FeeOn
    <3> QED BY <2>1, <3>2, <3>3
  <2>4. ASSUME NEW h \in HookContracts, NEW t \in Tokens, NEW amount \in GovAmounts,
               NEW payer \in GovRecipients, Accrue(h, t, payer, amount)
        PROVE  /\ govOwner' = govOwner /\ protocolFee' = protocolFee
               /\ \A u \in Tokens : protocolRevenue'[u] >= protocolRevenue[u]
    <3>1. /\ govOwner' = govOwner /\ protocolFee' = protocolFee
          /\ protocolRevenue' = protocolRevenue
      BY <2>4 DEF Accrue
    <3> QED BY <2>1, <3>1
  <2>5. ASSUME NEW caller \in GovOwners PROVE caller # govOwner
    BY <2>2
  <2>6. ASSUME NEW caller \in GovOwners PROVE ~Administer(caller)
    BY <2>5 DEF Administer, SetProtocolFee, TransferOwnership, RenounceOwnership
  <2>7. ASSUME NEW caller \in GovOwners, NEW t \in Tokens, NEW amount \in ProtocolAmounts,
               NEW to \in GovRecipients
        PROVE  ~ProtocolWithdraw(caller, t, amount, to)
    BY <2>5 DEF ProtocolWithdraw, ProtocolWithdrawBooks
  <2> QED BY <2>3, <2>4, <2>6, <2>7 DEF BooksNext
<1>2. BooksInv /\ [BooksNext]_bookVars => [Final]_bookVars
  BY <1>1
<1> QED BY <1>2, BooksInvariant, PTL DEF BooksSpec, RenouncedForGood
=============================================================================
