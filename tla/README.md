# A formal model of the Denota protocol

TLA+ modules, TLC runs and TLAPS proofs about three things in this repository.

1. The contracts under `src/src/`: the registrar of notas, its revenue books, the way
   it reads the answers of hooks, the OpenZeppelin code it inherits, and the factory it
   is deployed with. This is the protocol itself, and the heart of the project.
2. The libraries that the vendored OpenZeppelin package generates from JavaScript
   templates (`src/lib/openzeppelin-contracts/scripts/generate/templates/`).
3. The scripts that maintain that package (`src/lib/openzeppelin-contracts/scripts/`).

The registrar uses neither 2 nor 3. They are in the tree, they are most of its JavaScript, and they have
algorithms and races worth stating.

`PROJECT.json` maps every definition to the lines it stands for and lists the runs, the
mutants, the hazards and the theorems. Definitions whose comment begins with "Bug:" are
the mutated forms; no specification uses them.

    cd tla
    tlc -workers 4 -config funds.cfg MCRegistrar.tla     # one run
    tlapm SolvencyProofs.tla                             # one module of proofs

## 1. The system

A *nota* is an ERC-721 token that holds an escrow of some ERC-20 currency and is
bound to a *hook*, a contract its writer chose. Every function that changes a
nota first asks the hook, which may refuse, and may ask for a fee.

| component | source | state | operations |
|---|---|---|---|
| `NotaRegistrar` | `src/NotaRegistrar.sol` | `_notas` (escrow, currency, hook of each id), `nextId` | `write`, `fund`, `cash`, `approve`, `burn`, `update`, `transferFrom`, `safeTransferFrom`, all `nonReentrant`; `tokenURI` (view) |
| `RegistrarGov` | `src/RegistrarGov.sol`, `Ownable` | `_hookRevenue`, `_hookTotalRevenue`, `_protocolRevenue`, `_protocolTotalRevenue`, `_protocolFee`, `_owner` | `hookWithdraw` (the hook itself), `protocolWithdraw`, `setProtocolFee`, `setContractURI` and ownership (the owner); none is guarded |
| `Hooks` library | `src/libraries/Hooks.sol` | none | `callHook`, `beforeBurn`: accept or reject a hook's answer, and read the fee |
| ownership registry | OpenZeppelin `ERC721` | `_owners`, `_balances`, `_tokenApprovals`, `_operatorApprovals` | `_mint`, `_burn`, `_transfer`, `approve`, `setApprovalForAll` (not guarded) |
| guard | OpenZeppelin `ReentrancyGuard` | `_status` | the modifier `nonReentrant` |
| currencies | OpenZeppelin `ERC20` behind `SafeERC20` | `_balances`, `_allowances` | `transfer`, `transferFrom`, `approve` |
| `ImmutableCreate2Factory` | `src/ImmutableCreate2Factory.sol` | `_deployed` | `safeCreate2`; `findCreate2Address`, `hasBeenDeployed` (views) |
| deployment script | `src/script/` | none | one call of `safeCreate2` |
| `CustomRevert`, `ERC4906` | `src/libraries/`, `src/` | none | encoding of errors; two events |

In `src/lib/openzeppelin-contracts/scripts/`:

| component | source | state | operations |
|---|---|---|---|
| sets and maps | `generate/templates/EnumerableSet.js`, `EnumerableMap.js`, `conversion.js`, their mocks | an array of the values, the place of each value in it; for a map the value of each key | `add`, `remove`, `set`; `contains`, `length`, `at`, `values`, `get`, `tryGet` |
| histories | `generate/templates/Checkpoints.js`, its mock | an array of checkpoints | `push` in three forms; `upperLookup`, `lowerLookup`, `getAtBlock`, `getAtProbablyRecentBlock`, `latest` |
| casts | `generate/templates/SafeCast.js`, its mock | none | checked casts between the widths and signs |
| import migration | `migrate-imports.js` | the files of a project | `main`, `updateFile`, `updateImportPaths` |
| inheritance check | `checks/inheritance-ordering.js` | a graph for each build artifact, the exit code | one pass over the artifacts |
| docs branch | `update-docs-branch.js`, `.github/workflows/docs.yml` | a branch of the shared repository, and of each clone | check, fetch, commit, push |
| release | `release/*.sh`, `release/*.js` | package versions, changelog, comments, commits, tags | bump, update, synchronize, commit, tag |

**Interaction.** A call of a function of a nota runs: checks, the hook, zero to
two token transfers, the rest of its writes, for a safe transfer the receiver.
Each of these outside contracts has control in the middle of the function, and can call
any function again. The guard turns the functions of a nota away; the
withdrawals, the owner's functions, `setApprovalForAll`, and everything that
happens in a currency, go through. A withdrawal is itself cut by its
payment, and a function of a nota can run inside it.

**What is hard.** There are no threads: what makes the system concurrent is
that control leaves it in the middle of an update, and comes back through another
function. So the questions are what is stale after such a call (every function
works with a copy of the nota read before the hook), what is only half booked during
it (tokens arrive before they are booked; `cash` books the fee after the
payment), and what a failure undoes (a revert undoes everything of the call that
reverts and nothing else; `beforeBurn` goes on after one). Then
there are the two registries that must agree (`_owners` and `_notas`), the
mixture of checked and unchecked arithmetic, and the rounding of the protocol's share.

The factory has the same difficulty: the constructor of the contract that it creates has control before
the factory has recorded it. In the generated libraries the difficulty is redundancy and boundaries: an
array and an index that must agree when a removal moves an element, a value 0 that also means "nothing",
search loops that must stay in their array and end. The scripts are interrupted, run again over their own
results, run by several clones at once, and fail between two of their writes.

**What makes each part correct.** The registrar can pay what it has booked, in
every currency and at any time, and nothing it holds is out of reach. A nota
is changed only by those entitled to, an approval for it ends when it changes hands, it keeps its currency and hook for
life, and its id is never used again. The guard excludes, and is always
released. The books neither create nor lose money, and the protocol's share
stays under its cap over the whole history. Above all, a call of the registrar is one step or
none in the eyes of everyone else. The factory never creates a contract where one has been. A set
lists its members, a map is a dictionary, a history answers for the past with what was the case then, a
cast keeps the number. A migration does nothing but move paths and knows when it is
done; a conflict of two bases is reported; documentation is not replaced by that of an older minor, as far as
the order of strings is that of numbers; a tag tells the truth.

## 2. The model

| module | models |
|---|---|
| `EVM` | addresses, words, the stack of calls in progress, gas |
| `ERC20` | balances and allowances of the currencies |
| `ERC721` | the ownership registry |
| `Hooks` | which answers of a hook are accepted, and with which fees |
| `RegistrarGov` | the books and the owner, as operators (the contract is abstract) |
| `NotaRegistrar` | the registrar: composes the five above, adds `_notas`, `nextId` and the guard; the specification `Spec` |
| `RegistrarProperties` | the type invariant, safety and action properties of the registrar |
| `RevenueBooks` | the books on their own, closed with payments: `BooksSpec` |
| `NotaLedger` | what the registrar promises: an abstract specification with one step for each call |
| `RegistrarRefinement` | the mapping from the registrar to the ledger |
| `ElasticCurrencies` | the registrar with currencies that shrink its balance |
| `Create2Factory` | `safeCreate2`, with constructors that call back, fail and destroy contracts |
| `EnumerableSet`, `EnumerableSetMock` | the set as operators, and a contract that has one |
| `EnumerableMap`, `Dictionary` | the map, and what it promises |
| `SafeCast`, `Casts` | the casts as operators, and a number that goes through chains of them |
| `Checkpoints` | the array of checkpoints and its lookups, as operators |
| `History`, `Trace` | contracts that record by block number, and by keys of their own |
| `BinaryLookup` | the two search loops, one turn at a time |
| `MigrateImports` | the import migration, read by read and write by write |
| `InheritanceOrdering` | the inheritance check, over several artifacts |
| `UpdateDocs` | the docs branch and the clones that publish to it |
| `Release` | a release branch from version to version |
| `MCRegistrar`, `MCCurrencies`, `MCRefinement`, `MCBooks`, `MCFactory` | instances for TLC |
| `MCLibraries`, `MCScripts` | the generated libraries, and the scripts, as one instance each |
| `RegistrarProofs` | the registrar's structure, the ownership of notas, and what one transaction after another may do to them |
| `SolvencyProofs` | the money: solvency, nothing stranded, conservation, no overflow; elastic currencies |
| `RefinementProofs` | the registrar implements the ledger |
| `BooksProofs` | the revenue books: balance, the cap on the protocol's share, the end of ownership |
| `SumTheorems` | facts about finite sums |
| `Create2Proofs` | the factory |
| `LibraryProofs` | the set, the map, the casts, the search loops, the histories and the traces |
| `ScriptProofs` | the migration, the inheritance check, the docs branch, the releases |

**Frames.** The state of a transaction is `frames`, the stack of functions of the registrar
that have handed control to someone else, the innermost last. A frame holds the
function's name, `pc` (the outside call in progress), its arguments, the copies it
has read of the nota, and `saved`, the storage it started from. A function is
the action that starts it (`Write`, `Fund`, ...: the code up to the hook) and one action
for each stretch of code between two outside calls:

| function | actions in order |
|---|---|
| `write` | `Write`, `AskForEscrow`, `PullEscrow`, `PayInstant`, `WriteStore` |
| `fund` | `Fund`, `AskForEscrow`, `PullEscrow`, `PayInstant`, `FundStore` |
| `cash` | `Cash`, `CashDebit`, `CashPay`, `CashCredit` |
| `approve`, `update` | `ApproveNota`, `ApproveStore`; `Update`, `UpdateStore` |
| `transferFrom` | `TransferFrom`, `TransferStore` |
| `safeTransferFrom` | `TransferFrom`, `TransferStore`, `ReceiverAccepts` |
| `burn` | `BurnNota`, `BurnAllowed`, `BurnStore` |
| `hookWithdraw`, `protocolWithdraw` | `HookWithdrawCall` / `ProtocolWithdrawCall`, `WithdrawPay` |

Between two actions the outside contract has control, and any call can be
made that the code lets through: `Call` (stopped by the guard where there is
one), `Unguarded`, by any account, since any account may be a contract that takes part. A token gives
away control before it moves its tokens and after (`pull` and `instant`, `instant` and
`store`, `pay` and `credit`), which covers tokens that call back at either end. A
payment of 0 is not made in the code; its step stays in the model as one that changes nothing,
with a window that no one can use for anything the window before it did not allow.

**Reverts.** A check that fails is a guard that is not enabled. `Revert` ends
the innermost function at any point and restores the storage it started from,
the guard included; its caller, if there is one on the stack, goes on. This is
what a failed check does, a call that reverts, or gas that runs out. Outside code that
reverts and is caught by other outside code leaves what would be there
without it, so it adds no state. Only `burn` looks past a failure: `BurnAllowed(FALSE)`
undoes what happened in the hook and goes on.

**Hooks.** An answer is what the library looks at: success, length, selector, the word of the
fee. `callHook` accepts 36 bytes and loads the fee from an offset that needs 64; for
36 to 63 bytes the fee is whatever follows in memory, so any of `HookFees`.

**Words.** `Uint` is `0 .. MaxUint`. Checked arithmetic is a guard, the one unchecked credit of
`ERC20._transfer` is taken modulo `MaxUint + 1`, and ERC721's unchecked counts
are integers that `BalancesCount` pins to the number of notas.
The lifetime totals have a bound of their own, `MaxTotal`, because they
only ever grow; in the contract it is the width of a word as well.

**Left out of these functions:** events, `hookData`, `tokenURI` and the getters
(no effect), `setContractURI` (a string nothing reads), ether.

### The abstract ledger

`NotaLedger` says what the registrar promises to those who call it: a ledger (notas, earnings, operators,
and for every currency the reserve that backs them), and calls that nest. A call changes the ledger in one
step or not at all, and a call that fails brings back the ledger it began with. Hooks, windows, copies,
guard and the order of writes do not appear in it.

`RegistrarRefinement` maps the registrar to it. A function takes effect at its last step before it returns,
except a withdrawal, which takes effect when its books change, and a safe transfer, which does before the
receiver is asked. What is half done is mapped away: tokens taken and not yet booked, or struck and
not yet paid, are no part of the reserve (`Pending`); what `cash` has taken out of the escrow
counts as escrow until it ends (`Held`). The storage that each function has saved is mapped in the
same way, over the functions below it. That the mapping exists says more than any invariant here: no
step of the registrar has an effect of its own that a caller could see between start and end of a function.

### Currencies that are not plain tokens

`ElasticCurrencies` adds one action to the registrar: while outside code has control, a currency takes from the
registrar's balance. This stands for a fee on transfers and for balances that shrink. Solvency in such a currency is lost, as the
registrar books what it asked for (`NotaRegistrar.sol:221`). What remains is that the loss stays in that
currency. Which currencies are elastic is chosen at the start, none included.

### The factory

`Create2Factory` cuts `safeCreate2` where the constructor has control. Until it returns (`Created`), or fails
(`Fail`), it can call the factory for any address, and any contract may destroy itself; what is destroyed
inside a transaction is gone at its end. An address is the salt and the init code it is computed from, as the hash
has no collisions. The record and the chain differ in both directions on the way: a contract is being
created and not recorded, or recorded and gone.

### The generated libraries

The templates are JavaScript that yields Solidity; the modules model the Solidity that they yield, and `map`
names the lines of the template.

- `EnumerableSet`: places count from 1, 0 is absence, removal moves the last value. Words have a span
  (`WordSpan` for 2^256) and addresses a smaller one, and the conversions cut.
- `EnumerableMap` adds the mapping of values, with its one subtlety: `tryGet` and `get` take a value that is not
  0 as proof that the key is there. `Dictionary` is what the map promises, answers included.
- `Checkpoints` has `_insert`, the two searches as recursive functions, and the lookups, the square
  root of `getAtProbablyRecentBlock` by its seven steps of Newton's method among them. `History` and `Trace` push and look up;
  `BinaryLookup` takes the loops apart, so that it can be said what they read and that they end.
- `SafeCast`: a cast of the language cuts, and a checked one refuses. `Casts` sends a number through any chain.

`MCLibraries` is one instance for all of them: a contract uses one library, chosen at the start, and
the variables of the others do not change. So the states of the parts add up and do not multiply.

### The scripts

- `MigrateImports`: a file is the sequence of paths that it mentions. A run is `Start`, for each file `Read`,
  one `Replace` for each entry of the table, and `Keep`, or `Open`, any number of `Fill` and `Write`, since `writeFile` empties the
  file before it fills it, which it does in parts; then `Report`. `Crash` interrupts it anywhere, `Restore` brings a file back from version
  control, and the next run starts over whatever is there.
- `InheritanceOrdering`: the contracts of an artifact are visited one by one, their chains make the edges, and
  the pairs with edges both ways are the conflicts. The next artifact starts with a new graph.
- `UpdateDocs`: clones, each at its own point of the script, and a shared branch. A workflow has a
  fresh clone, a maintainer one with a docs branch left from before. A push is rejected when the shared branch is no
  prefix of what is pushed.
- `Release`: `npm version` bumps, runs the three scripts, commits and tags, with a failure between any two. A
  candidate of release n has the number n and its own count; `semver.coerce` makes it not older than the release.

`MCScripts` is one instance for the four, as above.

## 3. The runs

Sizes are distinct states, all found within the run.

| run | module | asks | instance | states |
|---|---|---|---|---|
| `funds` | `MCRegistrar` | `TypeOK`, `GuardExclusive`, `CachedNotaCurrent`, `Solvent`, `NothingStranded`, `SupplyConserved`, `NotaLife`, `EarningsGrow` | 1 caller, 1 hook, 1 currency, 2 notas, one nested call | 566,926 |
| `ownership` | `MCRegistrar` | `RegistriesAgree`, `BalancesCount`, `MovesAreAuthorised`, `ApprovalsEnd` | 3 symmetric callers, 1 nota, all approvals and operators, no money | 253,320 |
| `currencies` | `MCCurrencies` | `OthersSolvent` | 2 currencies of which one at most is elastic, 2 hooks, 2 notas, no nesting | 1,097,641 |
| `width` | `MCRegistrar` | `UncheckedCreditSafe` | a word as wide as the supply, gifts, payments to the registrar | 868,335 |
| `progress` | `MCRegistrar` | `GuardReleased` | 1 nota, fair transactions | 7,502 |
| `books` | `MCBooks` | `BooksBalance`, `ProtocolShareCapped`, `RenouncedForGood` | 2 hooks, amounts 9 and 10, fees 0, 999, 1000, 2000 | 148,932 |
| `ledger` | `MCRefinement` | `ImplementsLedger` | 2 symmetric callers, 1 hook that also owns the registrar, 1 nota, one nested call | 126,456 |
| `factory` | `MCFactory` | `NeverTwice`, `RecordComplete` | 2 users, salts that name one of them or nobody, 2 init codes, calls 3 deep | 249,128 |
| `libraries` | `MCLibraries` | `ListsMembers`, `OneMoves`, `PlacesAgree`, `ListedIsFound`, `ImplementsDictionary`, `NumberKept`, `PastIsKept`, `RecentAgrees`, `LookupsRight`, `AccessInArray`, `Found`, `Ends` | see below | 161,833 |
| `scripts` | `MCScripts` | `OnlyPathsMove`, `DamageBounded`, `NothingLeft`, `UpdatesCount`, `PairsReported`, `NeverOlderMinor`, `TagsTrue` | see below | 572,851 |
| `approve_doc` | `MCRegistrar` | violates `ApprovedMayApprove` | 3 callers, 1 nota | |
| `burn_doc` | `MCRegistrar` | violates `RevertStopsBurn` | 1 caller, 1 nota, one nested call | |

**Bounds, and why they are enough to see something.**

*The registrar.* `MaxDepth` and `MaxGas` bound the functions in progress and the calls inside one transaction. The guard allows
one function of a nota at a time, so with depth 2 every pair (a function, a withdrawal inside it) and
(a withdrawal, a function inside it) occurs at every window; a third level repeats a pair
of the first two. Two notas are the least with which an escrow can be paid out of another one, and an id be
used twice. `ProtocolAmounts`, what the owner withdraws, is
empty in the runs that ask nothing of money, and 1 in the others. `Amounts`, `HookFees` and `GovAmounts` are equal or
double so that fees below, at and above the amount and the escrow occur. `books` uses 9 and 10
with fees 999 and 1000, where the share rounds to 0 and to 1, and 2000, which the cap refuses.
`MaxTotal` lets each hook withdraw once or twice. `ownership` has three accounts because an
approval can only be misused by a third one.
`width` sets `MaxUint` to the supply, where an addition could just overflow. `currencies` loses 10, a whole escrow, at a time.

*The factory.* Three levels let a constructor destroy what another one has created inside it, and
fail above both. Two init codes and three kinds of salts give calls for the same and for other addresses.

*The libraries.* Words of 6 values, addresses of 4: a set of up to 6 words, a map from 4 addresses, so that a removal from the middle, from the end
and of the only element occur, with a value 0 and the largest word among the values. Casts of 7 bits to 1, 2, 4 and
6. Blocks 0 to 8 with keys of 3 bits, so that block 8 does not fit any more and the recent lookup, which splits from 6 checkpoints
on, splits at 6, 7 and 8; values of 2 bits. Five pushes with keys that have gaps. The loops on every array of up to 6 keys out of 6, for every
key from below the first to above the last, from every split.

*The scripts.* Two files with up to two mentions of paths of which two move to the same new one, and one interruption: a path
mentioned twice takes two runs, and a file with two mentions may be left with one. Three contracts and two heirs, in two artifacts; a conflict can be of neighbours or of the ends of a chain. A
workflow and a maintainer at once, minors 9, 10 and 11, so that minors with as many digits and with more are compared, three commits, so that
what was published before the last commit matters too; the theorem is for any number of clones. Two more releases with a candidate each, two
contracts, two changes.

**Symmetry.** `ownership` and `ledger` reduce by the symmetry of their callers (none of them owns the registrar),
`currencies` by that of currencies and hooks, `factory` by that of users and init codes, `scripts` by
that of bases, heirs, workflows and maintainers. None of them checks a liveness property.

**Deadlock.** `CHECK_DEADLOCK FALSE` where the system may really stop. `books`: the totals are at
their bound and ownership is renounced. `ledger`: the only id is burnt, ownership is renounced and nothing is left to withdraw.
`factory`: every address has been used. `libraries`: a cast has no number that fits, a search has ended, a history is full.
`scripts`: the last artifact is checked, or the last release tagged.

**Fairness.** `progress` uses `FairSpec`: a transaction that has started makes its next step, as
the machine executes it to its end without waiting for anyone. Nothing
makes a transaction start. Fairness is of `Next` as a whole, as gas bounds a
transaction but nothing chooses between its continuations. `libraries` assumes the same of a search:
a loop that has another turn takes it, which is how a call is executed.

**Where code and documentation disagree.** Two runs show it.
`approve_doc`: the interface says the account approved for a nota may call `approve`; the
function runs the hook and then fails in `ERC721.approve`.
`burn_doc`: a hook whose call reverts, but with bytes that start with the selector, does not stop `burn`.

The models of the other parts met these, which no run here states, since each property is worded for what the code does keep:

- `findCreate2Address` answers the null address for an address where a contract *was*; its comment says it does when one *is* there
  (`ImmutableCreate2Factory.sol:99`). `RecordComplete` states the direction that holds.
- `migrate-imports.js:146` replaces the first mention of each path, and leaves a second one for the next run. `NothingLeft` and
  `UpdatesCount` say that the number of runs is finite and the end is told.
- `inheritance-ordering.js:31` looks for pairs in conflict and leaves longer circles as "needs proof": three
  heirs that order three contracts in a circle pass the check. `PairsReported` speaks of pairs.
- `update-docs-branch.js:42` compares minors as strings, so 10 comes before 9; and it does not compare patches, so of two
  workflows for two patches of one minor the one that pushes last stays. Once 9 is published, the script refuses to document 10 and
  says that a newer version is published; where 10 is published first, it lets 9 replace it. `NeverOlderMinor` is stated for minors of
  any digits and says what the comparison keeps: among minors of as many digits none is replaced by an older one, and among all of
  them none by one that a dictionary has before it.

## 4. The proofs

Every safety property and action property that a passing run checks, and both refinements, are theorems. TLAPS proves, for
every number of accounts, notas, hooks and currencies, every word size, and every depth of nesting:

| theorem | statement |
|---|---|
| `Structure` (`RegistrarProofs`) | `Spec => []StructureInv` |
| `TypeCorrect` | `Spec => []TypeOK` |
| `GuardExclusion` | `Spec => []GuardExclusive` |
| `CacheSafety` | `Spec => []CachedNotaCurrent` |
| `RegistryAgreement` | `Spec => []RegistriesAgree` |
| `Ownership` | `Spec => []OwnershipInv` |
| `ApprovalsAreEnded`, `BalancesRight` | `Spec => ApprovalsEnd`, `Spec => []BalancesCount` |
| `MovesAuthorised` | `Spec => MovesAreAuthorised` |
| `History` | `Spec => []HistoryInv` |
| `LifeOfNotas`, `EarningsOnlyGrow` | `Spec => NotaLife`, `Spec => EarningsGrow` |
| `MoneyInvariant` (`SolvencyProofs`) | `Spec => [](\A t \in Tokens : MoneyInv(t))` |
| `Solvency` | `Spec => []Solvent` |
| `NothingLeft` | `Spec => []NothingStranded`, assuming `Registrar \notin Recipients \cup GovRecipients` |
| `SupplyConservation` | `Spec => []SupplyConserved` |
| `NoOverflow` | `Spec => []UncheckedCreditSafe` |
| `PayeesInvariant` | `Spec => []PayeesInv` |
| `OthersKeepTheirs` | `ElasticSpec => []OthersSolvent` |
| `Refinement` (`RefinementProofs`) | `Spec => ImplementsLedger` (a refinement) |
| `BooksBalanced`, `ShareCapped`, `RenouncingIsFinal` (`BooksProofs`) | `BooksSpec => []BooksBalance`, `BooksSpec => []ProtocolShareCapped`, `BooksSpec => RenouncedForGood` |
| `SumUpdate`, `SumBounds` (`SumTheorems`) | finite sums under a change of one entry, and their entries |

and for every number of users, codes, files, contracts, clones and releases, width of a word, table of paths, and length of a
history:

| theorem | statement |
|---|---|
| `Immutability`, `RecordKept` (`Create2Proofs`) | `Spec => []NeverTwice`, `Spec => []RecordComplete` |
| `PlacesStayRight` (`LibraryProofs`) | `Spec => []PlacesAgree` |
| `MapIsListed`, `MapIsDictionary` | `Spec => []ListedIsFound`, `Spec => ImplementsDictionary` (a refinement) |
| `SetIsListed`, `OneValueMoves` | `Spec => []ListsMembers`, `Spec => OneMoves`, of `EnumerableSetMock` |
| `CastsKeepNumbers` | `Spec => []NumberKept`, of `Casts` |
| `LookupInBounds`, `LookupRight` | `LookupSpec => []AccessInArray`, `LookupSpec => []Found` |
| `AnswersAreKept`, `RecentIsRight` | `Spec => []PastIsKept`, `Spec => []RecentAgrees`, of `History` |
| `LookupsFindLast` | `Spec => []LookupsRight`, of `Trace` |
| `MigrationMovesPaths`, `MigrationKnowsItsEnd` (`ScriptProofs`) | `Spec => []OnlyPathsMove`, `Spec => []NothingLeft` |
| `UpdatesAreBounded`, `DamageIsBounded` | `Spec => []UpdatesCount`, `Spec => []DamageBounded` |
| `ConflictsAreReported` | `Spec => []PairsReported`, of `InheritanceOrdering` |
| `DocsNeverOlder` | `Spec => NeverOlderMinor`, of `UpdateDocs` |
| `TagsAreTrue` | `Spec => []TagsTrue`, of `Release` |

**Assumptions.** The named assumptions of the modules: the registrar is an account and `Null` is not, parameters
are of the right kind (words, accounts, hooks that are not the registrar itself), ids are `1 .. MaxNotas`, there are finitely many accounts,
no one calls the registrar as the registrar, it holds nothing at first, and the supply of a currency fits in a word.
`RevenueBooks` assumes besides that fees come from, and withdrawals go to, accounts other than the registrar: what a
withdrawal pays to the registrar itself stays there and is booked nowhere, so that the balance would be an inequality (`Solvent`).
`NothingLeft` has the hypothesis that no one pays the registrar's own address, for the same reason; the run that checks it has
such an instance.
Of the others: addresses are no wider than words and what is stored is a value of its type; a width is at least one bit; pushed
values and keys are unsigned; the keys of a history that is searched increase, which is what `_insert` makes and `AnswersAreKept`
shows again; there are finitely many files, and no path of the table moves twice, which can be read off the table of
the script; releases are counted by naturals, and minors are written with digits. TLC evaluates all of them in the runs.

**The argument.** `GuardExclusive` and the others are not inductive, because `Revert` and `BurnAllowed(FALSE)`
bring back a storage from the stack. `Sound(s, fs, n)` is what holds of a storage `s` under the first `n`
functions of the stack `fs`: types, agreement of the registries, exclusion, and for every function its shape
and the currency of its copies. `Levels` asks for it at every level: the present storage under the
whole stack, and the storage function `k + 1` has saved under the first `k`. A step changes the upper level,
adds a level, or removes one; `EnterLevels`, `ContinueLevels` and `LeaveLevels` settle the rest of the stack once for
all actions, and five lemmas (`EnterGuardedSound` to `LeaveSound`) reduce each action to what it does to the storage.
The copies of a waiting function stay current since at most one function is guarded, and what runs beside it
writes neither `_notas` nor `_owners` nor `nextId`. `burn` needs one fact more, that its copies are also those of the storage it has saved.

**The owners.** `OwnershipInv` puts on the same levels what holds of a registry (`OwnedWell`): approvals are of notas that
exist and name no owner (`ApprovalsIn`), counts count (`CountsIn`), and a function in progress that moves a nota has a caller who is
entitled to it both in the storage at hand and in the one it started from (`EntitledAll`). The last part is what makes `MovesAreAuthorised`
true at the end of a function, after a hook has done anything it may: owners and approvals cannot change
while it waits, since whoever would change them needs the guard. Operators can, without it, so these are the ones there were at the call. `ERC721._update` is treated once for minting, transfer and burning. `ApprovalsEnd` is then a
matter of one step (`StepEndsApproval`): each function that gives a nota to someone else clears its approval with it, and a revert
brings back owner and approval of one and the same moment.

**The history.** `NotaLife` and `EarningsGrow` compare committed storages, and what a commit is compared with may be the lowest saved
storage of a deep stack. `HistoryInv` says that each saved storage has `Evolved` into the one above it: the life of each id and the earnings of each
hook are kept. `Evolved` composes, so that a revert only shortens the chain, and each action adds one link.

**The money.** `Solvent` is not inductive for the same reason and for another one: the registrar holds tokens it has not
booked yet (`instant`, `store`), or has struck from the books and not paid yet (`pay`, `withdraw`). `Due` is
that claim of a function, `Claims` the sum over the stack, `Free` what the registrar holds beyond its books, and `MoneyLevels`
says at every level of the stack that `Free` covers `Claims`. A step changes one escrow, one revenue and
one balance; `EscrowStep`, `EarningsStep` and `MovedSum` turn each into a change of a sum, and four lemmas (`EnterMoney`,
`RunMoney`, `ContinueMoney`, `LeaveMoney`) ask of an action only that `Free` falls by no more than the claim does. The invariant is of one
currency at a time (`MoneyInv(t)`), which is what the elastic ones need: a currency that shrinks changes nothing in another, so
`ElasticInv`, the invariant of those that are plain, survives. `Covers` is an inequality in general and an equality when no one
pays the registrar (`Quiet`); then `PayeesInv` adds that the registrar owns no nota and no waiting function names it, so that every
payment leaves it, and `NothingStranded` comes out of the same steps as `Solvent`.
The copies matter here: a fee is booked in the currency the function has read, and comes out of the escrow that is
stored, which is the same currency by `StructureInv`. `burn` credits the escrow it has read, which by the same invariant is what is stored.
That the registrar never is the caller, and so never pulls an escrow from itself, is part of `Shape`: without it the tokens of one
nota would pay for another. Overflow then follows: an escrow plus a revenue is at most the
books, the books at most a balance, and a balance is a word.

**The refinement.** `Refinement` is proved step by step from the invariants above, and `ArgumentsInv`, that the functions in progress
have arguments the ledger takes. The ledger under a stack is read entry by entry: what is `Held` and what is `Pending` are sums over the stack,
and a step that pushes, changes or pops the upper function changes them by that function's part (`Hold`, `Pend`). The stack of calls of the
ledger moves with that of the registrar in four ways: a call begins, goes on, returns, or fails. A step with an outside call ahead of it
is quiet: it leaves the mapped ledger alone because what it moves in storage, `Held` and `Pending` cancel. A step that
takes effect is the ledger's operation with the function's arguments; its guard, for a transfer or a burn, is that the caller might move the nota in
the ledger its call began with, which is `EntitledIn` of the owners' invariant for the saved storage (`EntitledAtCall`). A failure brings back the mapped storage that was saved, which by the
levels is what the ledger's call began with.

**The books.** `BooksInv` adds to the two properties the types, that the supply of a token fits in a word (so that the unchecked
credit of a payment does not wrap), and `FeeCapped`: the share taken so far stays under the cap because the fee of the next
withdrawal does. `ShareOfOne` bounds one rounded share, `OwedPlus` turns the change of an entry into a change of the sum.

**The factory.** `Fail` brings back what its call has found, so `FactoryInv` asks the same of the present and of every saved level: each
contract is recorded or among the constructors running below, and the past is recorded.

**The set and the map.** `MapInv` is `Agree(keys)` with types, and that a key that is not there has the value 0. The second part is what makes `get`
right, and what a removal that forgot the value would break. A step of the map is then `Put` or `Delete` on the
dictionary that `contains` and `get` show. What is listed follows from `Agree`: places and keys are each other's inverses, so the
list has every member once. `OneMoves` is about a step: only the last value can change its place, whichever is removed.

**The casts.** The provers know nothing of powers; what is needed of 2^n is that it is a number, grows and doubles. `PowerIsNumber` and
the lemmas after it take 2^n as the number of subsets of n things and use facts of finite sets instead. A checked cast that passes then has cut nothing.

**The loops.** The invariant `Bracketed` says that what is below `low` comes before the place looked for, and what
is from `high` on does not. The start from a split has it because the keys increase.

**The lookups.** The lookups in `Checkpoints` are recursive functions on ranges of places. That such a function exists at all is shown from the
ranges getting shorter, by an induction over finite sets that takes no operator as its parameter (`SearchExists`, `SearchEnds`), and that
it finds the place by the same argument (`LoopFinds`). `Places` are those that a lookup may answer with and `OnePlace` that there is one. `HistoryInv` (of
`LibraryProofs`) then says of every past block that its place has the value the block ended with; a push in the
present block touches only the last place. For the recent lookup, the square root by seven steps of Newton's method stays between 1 and the
length whatever the length is (`QuotientFacts`), which is all that the split needs: exactness is not needed. `TraceInv` says that
under each key the trace has the last push.

**The migration.** `MoveInv` carries `OnlyPathsMove` through the copy a run works on (`SourceMoves`). `NothingLeft` needs that while a run
has updated nothing, each entry it applied had nothing to move (`AppliedInVain`), and that a source that went back to what
it was is impossible, since no path moves twice (`SourceAdvances`). `CountInv` weighs the project by its old paths: every update has removed one, the
one in progress included. `DamageInv` counts the
files that have lost their end (`Cut`) against the interruptions: while a file is being written, there are no more of them than interruptions in the
project as it will be (`Written`), and that file is the only one more.

**The other scripts.** `GraphInv`: the graph has an edge for exactly those two contracts that a chain read so far has in that
order; a conflict is an edge both ways. `DocsInv`: the minors of every branch rise in the order of a dictionary, in every clone, and what a clone is about to add may follow
what it has; a push that is no fast-forward is rejected, so what is published has risen as well. What is not less than the last of a
branch follows all of it because the order is transitive (`NotLessInTurn`, `InTurnTransitive`), and for minors of as many digits it is the order of
their numbers (`InTurnIsNumeric`), by an induction over the digits. `ReleaseInv`: the working tree is
right as far as the scripts have run (`Prepared`), a comment names the tree's own version or that of an older tag since which the
file has not changed, no tag is newer than the tree, and the oldest tag exists; a run that fails after the commit leaves
a tree without a tag, which the next release starts from.

**Only model-checked:** `GuardReleased` and `Ends`, which are liveness under fairness and out of the prover's reach; the two violations.
The theorems are about the specifications of the components; the runs `libraries` and `scripts` put several into one instance in which
one is chosen, and in each behaviour of that instance the others stand still.

## 5. Not modelled

- The deployment script: one call of the factory with init code that lacks the constructor's argument, and a check of the answer against
  the address 0. It fails on every path, so there is nothing to explore.
- Ether sent with the payable functions: nothing reads or moves it.
- `CustomRevert`, `ERC4906`, `tokenURI`, `setContractURI`: no state that anything reads.
- In `Release`: pushing, publishing to the registry, and branching off. In `SafeCast`: the version comments.
- The runner of the templates (`generate/run.js`, `format-lines.js`, `helpers.js`): writes text.
- `compareGasReports.js`, `gen-nav.js`, `remove-ignored-artifacts.js`: each reads files once and prints or deletes.
- `hardhat.config.js` and its plugins: options.
- The vendored Solidity the registrar does not use, `ds-test`, `forge-std`: third-party.

## 6. What is left

1. *(done)* The registrar, the books, the structural invariant, the money; the ledger it implements; elastic currencies; the factory; the
   libraries; the scripts.
2. *(done)* Proofs of every safety and action property, and of both refinements.
3. Theorems with no property of a run behind them yet: that a committed state of the ledger itself is backed (`NotaLedger` on its own), and
   that a push of `Checkpoints` keeps every lookup of a smaller key.
