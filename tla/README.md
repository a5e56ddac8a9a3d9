# Bancor on EOS: a TLA+ verification of the contracts

This directory models the contracts under `src/contracts/eos` in TLA+, checks
small instances with TLC and proves the most important properties with TLAPS: of
the token, of the pricing formulas, of the converters' books and the value of their
pools, of BancorX, of memos, and of conversions over any number of hops.

- [The system](#the-system)
- [Modules](#modules)
- [Runs](#runs)
- [Proofs](#proofs)
- [What the models leave out](#what-the-models-leave-out)
- [Where the code departs from its documentation and tests](#where-the-code-departs-from-its-documentation-and-tests)
- [Plan](#plan)

## The system

EOSIO contracts run one transaction at a time. A transaction is a tree of
actions: a handler runs, then the inline actions it sent, each depth first, and
a token transfer notifies its receiver, whose handler may send more. A failed
`check` anywhere rolls the whole transaction back. There are no threads; what
makes the system hard is

- that **every order of transactions** by anybody is possible, and each contract
  must hold its books together under all of them;
- that inline actions **run after the handler** that sent them, so that a handler
  reads supplies and balances which its own actions have not changed yet;
- **truncation**: prices are computed in doubles and cut to whole units;
- in BancorX, **reports that come late, twice, or disagree**, reporters and limits
  that change between the reports of one transaction, and a clock.

### Components

| Component | State | Operations | Must guarantee |
| --- | --- | --- | --- |
| **Token** (`Token/`) | `stat` (issuer, supply, max_supply), `accounts` (balances) | create, issue, retire, transfer, transferbyid, open, close | supply = sum of balances, within the maximum; debits only by the owner |
| **BancorConverter** (`BancorConverter/`) | `settings`, `converters` (owner, fee, features, reserves and weights), `account` (deposits) | setsettings, create, activate, delconverter, updateowner, updatefee, setreserve, delreserve, withdraw, fund; on a transfer: deposit, liquidate, convert | what the account holds covers all that is booked; the value behind a smart token never falls; authority over fee, deposits, reserves |
| **BancorX** (`BancorX/`) | `settings` with two meters, `transfers` waiting for reports, `amounts`, `reporters` | init, update, enablerpt, enablext, addreporter, rmreporter, reporttx, clearamount; on a transfer: xtransfer | tokens are issued only on a quorum of equal reports; both limits hold in every interval; transfers arrive |
| **BancorNetwork** (`BancorNetwork/`) | `settings` | setmaxfee, setnettoken; on a transfer: next hop or payout with affiliate fee | a conversion over several hops ends at the receiver with at least the minimum return, or does not happen |
| **Common** (`Common/common.hpp`) | - | split, parse_memo, build_memo, calculate_fee, stof, stoui | what is built is parsed back |
| **XTransferRerouter** | one flag | enablerrt, reroutetx (an event) | only the original sender reroutes |
| **legacy BancorConverter** (`legacy/`) | one converter per account: `settings`, `reserves` (weights only; what the account holds is the reserve) | init, update, setreserve, delreserve; on a transfer: convert, or nothing with the memo "setup" | the value behind a smart token never falls; switches hold |
| events, `migrate.cpp`, system contracts, tests, scripts | | | see below |

### How they interact

- A user sends tokens to BancorNetwork with a path in the memo. The network
  transfers them to the first converter of the path, whose `on_transfer`
  computes the return, retires, issues or only books, and transfers the result
  to the network, whose `on_transfer` pays the affiliate, if the tokens are called
  BNT, and sends the rest on: to the next converter, or to the receiver if it is
  no less than the minimum return. The network keeps no row of a conversion: the
  whole state of it is in the memo, which every contract on the way takes apart
  (`parse_memo`) and builds anew (`build_memo`).
- BancorConverter is the issuer of the smart tokens, which live in one Token
  contract (`multi_token`), and reads their supply in that contract's table. A
  smart token may be the reserve of another converter. All converters share the
  balance of the contract's account.
- BancorX is the issuer of its token. Reports issue and transfer, tokens sent
  to it are retired. `transferbyid` of Token reads the table `amounts` of
  BancorX, transfers, and sends `clearamount` back.

`PROJECT.json` lists the places where this is hard to test (`hazards`), each with
the properties that would notice, or the reason why none does.

## Modules

| Module | Models | Used by |
| --- | --- | --- |
| `TokenLedger` | the tables of Token, and for each action `CanOp` (its checks) and `AfterOp` (the tables it leaves), as operators | `Token`, `BancorConverter`, `BancorX` |
| `Token` | the contract on its own: one step per action, with its `require_auth` | `MCToken`, proofs |
| `Coins` | the abstract specification: coins that are minted, moved and burnt under a cap, without counters and rows | `Token!Money` |
| `Powers` | powers and products, with definitions a proof can unfold | `BancorFormula` |
| `BancorFormula` | the pricing formulas | `FormulaCheck`, `BancorConverter`, `LegacyConverter` |
| `FormulaCheck` | a walk through all small inputs of the formulas | |
| `BancorConverter` | the converter contract with the ledgers of the smart tokens and of the reserves | `MCConverter` |
| `BancorX` | the cross-chain contract with the ledger of its token and the clock | `MCBancorX` |
| `Memo` | `split`, `build_memo` and `parse_memo` on texts made of words | `Chain` |
| `Chain` | what the contracts of a conversion share: accounts, symbol codes, the inline actions they send | `BancorNetwork`, `LegacyConverter` |
| `LegacyConverter` | the legacy converter: its actions, and its reaction to a transfer as conditions and a list of inline actions | `Conversions` |
| `BancorNetwork` | the network contract, in the same form | `Conversions` |
| `Conversions` | the composition: transactions as stacks of pending inline actions over the network, the converters and the token ledger | `MCConversions` |
| `Exchange` | the abstract specification of a conversion: an order is placed, then settled in one step or refused | `Conversions!Promise` |
| `SumLemmas`, `TokenLedgerProofs`, `TokenProofs`, `FormulaProofs`, `FormulaCheckProofs`, `ConverterProofs`, `ConversionsProofs`, `BancorXProofs` | lemmas and theorems, see [Proofs](#proofs) | |

**A step is a transaction** in `Token`, `BancorConverter` and `BancorX`. Since a transaction is atomic, the handler and its
inline actions are one step: the operators of `TokenLedger` are chained in the
order in which the actions execute. `ConvertToReserve`, for instance, is "receive
from the network, retire, pay": `SendToNetwork(AfterRetire(Received(...)))`. The
checks of all of them are conjuncts of the guard. A conversion is one hop: its
last inline action is the transfer to the network, so what the network does next
may as well be a step of its own, in the state the hop leaves. In `liquidate` the
payments precede the retirement; with receivers that have no code of their own
the whole is one step as well.

**A step is an inline action** in `Conversions`, where the order of inline actions
is the subject. `Begin` is the transfer a trader signs. `Execute` executes the head of
`pending` (`transfer`, `issue` or `retire` of a token contract), lets the receiver of a
transfer react, and puts what it sends in front of what is still pending, which is
the depth-first order of the chain. If the action or the reaction fails, `Abort` puts
the ledger back to `start`, the ledger when the transaction began. Converters and
network are described by `ConverterAccepts`, `ConverterSends`, `NetworkAccepts` and
`NetworkSends`: their handlers write no table, so that the conditions and the list of
actions are all there is. `Administer` are the actions of the administrators of
converters and network, transactions of their own. `order` is the trader's transfer
with the terms of it, `tips` what was paid to affiliates, both for the properties.

`Promise` is the refinement: `held` is what everybody but the converters holds at
the *start* of the transaction, so that all intermediate steps stutter; the step that
empties `pending` is `Settle` or, after `Abort`, `Refuse`. `Terms` reads what the trader
may expect from his transfer.

**Memos.** A text is a sequence of texts separated by ";", each a sequence of words
separated by ",". Which field a word is depends on how many there are, as in
`parse_memo`. The path is one word, the sequence of its elements.

**State.** `ledger` is a record of functions by symbol: `issuer`, `max_supply`,
`supply` (the table `stat`), `rows` and `balance` (the table `accounts`). In
`BancorConverter` a symbol is a token, that is a contract and a symbol;
`CodeOf` maps it to the symbol code, the key the contract uses for reserves and
deposits. `reserve_weights[c][t] = 0` stands for "no such reserve",
`converters[c].owner = NoAccount` for "no row". `signer` is who authorised the
last transaction. In `BancorX`, `issued`, `votes` and `charged` record history for
the properties, no action reads them.

**Formulas.** Each result is described in exact arithmetic: the largest whole `n`
that does not exceed the real value (the smallest that is not below it, for
`ceil`). Raising both sides to the weights removes the fractional powers: that
`n <= R((1 + T/C)^(w/P) - 1)` becomes `(R + n)^P * C^w <= R^P * (C + T)^w`. (The
modules write `Power(x, n)`, a recursive function, since the `^` of the standard modules has
no definition the prover could use.) What
is lost is the rounding of doubles: inside `pow`, in the products and quotients (`quick_convert`
and the fee among them), in `asset_to_double` and `double_to_asset`, and before `ceil`, so that
a result next to a whole number may be a unit off in the code. What is kept is the direction of
every truncation, the fee and its order, and the guards; also that `to_fixed` aborts when the
fee does not fit an `int` (`PurchaseFee`, `SaleFee`, `CrossFee`: the same formulas with
what is kept and what is taken off exchanged). Divisions by zero, which
give infinities that no asset can hold, become results that the guard of the
token action refuses.

**Mutants.** Operators marked `Mutant` stand next to the operator they replace
in the `mutants` of `PROJECT.json`: each states a plausible bug, and for each
property of a passing run there is one that breaks it. No action uses them.

## Runs

| Run | Instance | What it shows |
| --- | --- | --- |
| `token` (`MCToken.cfg`) | 3 accounts, 2 symbols, `max_amount` 2, amounts -1..3 | the invariants below, and that Token implements `Coins` |
| `formula` (`FormulaCheck.cfg`) | balances, supply and amounts 1..4, weights 50% and 100%, fees 0, 50%, 100% | closed forms; going round or splitting does not pay |
| `converter_pool` | one converter, two reserves with weights of 1/3 or 2/3, fee 0 or 50%, amounts up to 4 | `PoolValueNeverFalls`, `ActivationIsStable` |
| `converter_shared` | two converters in one account, one's smart token a reserve of the other | `Solvent`, `BooksFollowCoins`, `PoolValueNeverFalls` |
| `converter_users` | an owner, another provider who is also the staking contract, a system account; settings and ownership change; one reserve of weight 100%, so that `fund` at a positive cost is affordable | `FeeAuthority`, `DepositorControls`, `BooksFollowCoins` |
| `bancorx_safety` | 2 reporters, 2 transactions, one of them reported with 2 contents, `min_reporters` and limits of 1 and 2, 2 instants | `RateLimited`, `LimitsMeterSupply`, `IssueIsVouched`, `AmountsArePaid` |
| `network` (`Network.cfg`) | two legacy converters with a token in common, one of them with virtual supply and unequal weights, a third account that is not initialised; paths of 0 to 2 hops, odd paths, affiliates, minimums; `MaxTurns` 2 transactions of traders and administrators | `KeepsPromise`, `NetworkKeepsNothing`, `TermsSurvive`, `AffiliatePaidOnce`, `PoolValueNeverFalls`, `SwitchesHold` |
| `bancorx_liveness` | 3 reporters of which 2 are needed, 2 transactions, honest reports | `TransfersArrive` |
| `deleted_reserve`, `fee_owner`, `one_code`, `bancorx_twice` | | a statement of the documentation or of a test that TLC refutes, see below |

What the properties say:

- `SupplyIsBacked`, `AmountsInRange`, `BalancesInRows` (Token): the supply counter
  equals the sum of the balances; no counter leaves its range, although `issue`
  looks at the headroom only and `retire` not at the supply at all; coins lie only
  in rows that exist. `DebitIsAuthorised`, `IssuerControlsSupply`: who may cause
  what. `ImplementsMoney`: the refinement of `Coins`.
- `Solvent`: for every token, the account's balance is at least what all converters
  have booked as reserves and deposits. `BooksFollowCoins`: the difference never
  changes, except that tokens sent by system accounts, which `on_transfer`
  ignores, and the contents of deleted reserves add to it.
- `PoolValueNeverFalls`: the weighted product of the reserves per power of the
  supply never falls, in any conversion, funding or liquidation. It is the
  reason that providers do not lose to rounding. It is compared before and after
  each step without division.
- `ActivationIsStable`: deposits can be made and withdrawn only while the
  converter is active, so it matters that trades do not turn it off. The property names the two
  ways in which the code does: the owner adds a reserve, or the last smart token goes.
- `FeeAuthority`: the fee changes under the signature of the owner or, while the converter is
  staked, of the staking contract alone, and that contract stays. This is what the code does; the
  documentation gives the fee to the owner always, which `fee_owner` refutes.
- `DepositorControls`: a deposit shrinks only under its holder's signature, into the holder's
  wallet or into the reserves.
- `RateLimited`: for every interval of time, what was charged to a limit is at most
  a maximum the administrator chose plus what grows back in the interval.
  `LimitsMeterSupply`: the supply is exactly the first supply, plus all that was
  charged to the issue limit, less what still waits for reports, less all that
  was charged to the destroy limit. Together they bound what may be issued.
- `IssueIsVouched`: when the supply grows, `min_reporters` different reporters have
  reported equal contents since the last payment of that transaction, and the
  quantity reported arrives at the target reported.
- `AmountsArePaid`: an entry of `amounts` appears with tokens of its size, is not
  overwritten, and is used up by one `transferbyid` or cleared by the contracts.
- `TransfersArrive`: see Fairness.
- `KeepsPromise`: every transaction a trader begins is a step of `Exchange`: either
  nobody but the converters has more or less than before, or the trader has paid what
  he sent, the receiver has at least the minimum of the last token of the path, the
  affiliate its fee, and nobody else, the network included, has gained or lost.
  Two exceptions the code makes are in `Terms`: an account on the path that is no
  converter just gets the tokens, and the minimum is the number `stof` reads.
- `NetworkKeepsNothing`: after a transaction the network holds what it held, unless a
  system account sent it tokens, which it ignores.
- `TermsSurvive`: in the middle of a conversion the memo still says what the trader
  asked for: minimum, receiver, rest of the path, trader, and the affiliate until paid.
- `AffiliatePaidOnce`: once in a path, however often it passes through BNT, in the
  network's token, and less than the maximum share.
- `PoolValueNeverFalls` (network): as above for the legacy converters, over whole
  transactions of several hops; only the converter's own account may take from it.
- `SwitchesHold`: a disabled converter and a token whose sale is disabled pay nothing
  out, also as an intermediate hop.

**Bounds.** Amounts up to 4 are enough for every truncation to go both ways (a
return of exactly, just above and just below a whole number), for a balance to run
empty and for `max_amount` to be hit: the constants `MaxAmount` and
`DEFAULT_MAX_SUPPLY` are as small as the amounts. `PPM_RESOLUTION` is 2 or 3, so
that weights of a third, a half, two thirds and all occur and the powers stay small;
`MAX_FEE` is 2, so a fee is nothing or half. `Payee`, `NewOwner`, `Weight`, `Fee`,
`Quantity`, `Params`, `Switch`, `Removable` bound the arguments of transactions, and
`MaxTime` the clock, `MaxTurns` the number of transactions of `Conversions`; nothing else
is bounded. `Word`, the modulus of the unsigned
arithmetic, is 16: more than twice the largest amount as on chain. Nothing wraps around in
the runs; that the limits hold when the sum of `BancorX.cpp:126` does is shown by the theorems, which
are for every `Word` and every increment. Two
instants are enough for a limit to be used up, to grow back and to be changed in
between. In `Network.cfg` two transactions are enough for an administrator's change
between two conversions, or for one conversion to find the pool another has left;
within one transaction nothing is bounded. `MaxAmount` is 8 and a converter starts
with 2 to 8 of a token, so that returns of 0 (refused), 1 and more occur at both hops;
`stof` maps the word for 3 units to 2, as the float it goes through does for decimals;
`MaxFixed`, the largest number `to_fixed` can cast to an int, is 7, below `MaxAmount`; in
`converter_pool` it is 1, so that some conversions fail for their fee.
Symmetry is used only where accounts, reporters or tokens are
interchangeable, and not for liveness.

**Deadlock** is checked for Token. The other machines may stop: the bounded clock
runs out, all tokens may lie where the arguments allowed no longer move them.

**Fairness.** The contracts schedule nothing; whether a transaction is sent is
up to the programs around them. `LiveSpec` assumes of them: the administrator
initialises the contract, turns reporting on and names the reporters; every
reporter's program retries its report of each transaction until the contract
accepts it, and then reports it no more (`ReportOnce`). Weak fairness is enough for
each of these, since none is switched off again in `LiveSpec`. Under it
every transaction is paid, although the third reporter is too late, opens a new
row for a transaction already paid and charges the limit a second time. The limit
in this run (4) leaves room for these second charges; with a limit that is just
enough for the transactions themselves and a clock that stands still, they do use up
what the others need. Nothing is claimed for transactions whose last report
fails (see the hazards at `BancorX.cpp:194` and `:203`).

## Proofs

The proofs are for every value of the constants that satisfies the assumptions
named in the modules: any finite set of accounts, any symbols, any `max_amount` and any
quantities (`TokenLedger`, `Token`); for BancorConverter also any finite sets of smart
tokens and of tokens reserves are made of, any settings, weights, fees and resolutions
of the formulas; for BancorX also any finite sets of
reporters and transactions, any reports, any limits that are `uint64_t` of any width
`Word` above twice `max_amount`, and a clock of any length; for the conversions any paths,
texts, accounts, converters with any reserves and settings, ledgers, arguments of
administrators and numbers of transactions. Nothing else is assumed, but for the conditions
two groups of theorems name, `CodesDiffer` (BancorConverter) and `OneNetwork` (Conversions),
and that an asset can hold `Bound * Bound` (FormulaCheck).

- `SumLemmas`: sums over finite sets, as the community modules define them (a fold by
  `CHOOSE`): the sum of integers is an integer; changing one element changes the sum
  by the difference; sums over subsets, and without one element; sums of natural
  numbers bound each of their terms.
- `FormulaProofs`: powers and products of whole numbers (their recursions have a solution;
  order, products, sums, roots), and for each formula the inequality it promises.
- `TokenLedgerProofs`: one lemma per operation of the ledger: it keeps `LedgerOK`
  (`Ledger`, `Backed`, `Bounded`, `InRows`), and what it changes.
- The other modules hold the theorems.

| Module | Theorem | Property |
| --- | --- | --- |
| `TokenProofs` | `TokenTypeCorrect` | `TypeOK` |
| | `TokenSupplyIsBacked` | `SupplyIsBacked` |
| | `TokenAmountsInRange` | `AmountsInRange` |
| | `TokenBalancesInRows` | `BalancesInRows` |
| | `TokenDebitIsAuthorised` | `DebitIsAuthorised` |
| | `TokenIssuerControlsSupply` | `IssuerControlsSupply` |
| | `TokenImplementsMoney` | `ImplementsMoney` |
| `FormulaCheckProofs` | `FormulaRoundTripsDoNotPay` | `RoundTripsDoNotPay` |
| | `FormulaSplittingDoesNotPay` | `SplittingDoesNotPay` |
| | `FormulaClosedForms` | `ClosedForms` |
| `ConversionsProofs` | `MemoSurvives` | `parse_memo` inverts `build_memo` |
| | `TypeCorrect` | `TypeOK` |
| | `TermsAlwaysSurvive` | `TermsSurvive` |
| | `AffiliatePaidAtMostOnce` | `AffiliatePaidOnce` |
| | `NothingStays` | `NetworkKeepsNothing` |
| | `SwitchesAlwaysHold` | `SwitchesHold` |
| | `ConversionsImplementExchange` | `KeepsPromise` |
| `ConverterProofs` | `ConverterFeeAuthority` | `FeeAuthority` |
| | `ConverterTypeCorrect` | `TypeOK` |
| | `ConverterSolvent` | `Solvent` |
| | `ConverterBooksFollowCoins` | `BooksFollowCoins` |
| | `ConverterDepositorControls` | `DepositorControls` |
| | `ConverterPoolValueNeverFalls` | `PoolValueNeverFalls` |
| | `ConverterActivationIsStable` | `ActivationIsStable` |
| `BancorXProofs` | `BancorXTypeCorrect` | `TypeOK` |
| | `BancorXIssueIsVouched` | `IssueIsVouched` |
| | `BancorXAmountsArePaid` | `AmountsArePaid` |
| | `BancorXLimitsMeterSupply` | `LimitsMeterSupply` |
| | `BancorXRateLimited` | `RateLimited` |

**Token.** The inductive invariant is `TypeOK` with `LedgerOK(ledger)`. None of its parts is
inductive alone: that `retire` keeps the supply non-negative follows from the supply
being the sum of the balances (`Backed`) and the issuer's balance being at most that
sum, for which no balance may be negative (`Bounded`); that `close` keeps `Backed` needs
coins to lie in rows. For the refinement, each action maps to one step of `Coins` or
to none (`Open`, `Close`); `Issue` maps to `Mint` only because the headroom counted
from `supply` is the headroom of what is held, which is `Backed` again.

**Memos.** A memo whose fields are not empty where that would change their number is
parsed back as it was built, by cases over the number of its parts. The two exceptions
are in the theorem: an empty text for the receiver comes back as "convert", and the share
of an affiliate who is not named does not come back at all.

**Conversions.** No property of the middle of a transaction is inductive alone, since what an
action does depends on what the actions before it have put into its memo and on what they
have left to the actions behind it. The invariant `IInv` therefore describes the whole
stack. Between transactions it is empty. Within one (`Underway`), with `r` the transfer
it began with, it is in one of five stages:

| Stage | Pending | What the step does |
| --- | --- | --- |
| `Requested` | `r` | the trader's transfer arrives |
| `Delivering` | a transfer of the network | it reaches the next converter, or the receiver |
| `Tipping` | the affiliate's fee, then such a transfer | the affiliate is paid |
| `Balancing` | an issue or a retirement of a converter, then its reply | the supply follows |
| `Returning` | a converter's reply | the network takes the memo apart and builds the next one |

Each stage says, of a swap, how far it has come, by an even `i`, the words of the path
behind it: the memo under way `Carries` what the memo of `r` asked for less the first `i`
words and less an affiliate already paid; the token is the one word `i` names (`Comes`);
all accounts passed were converters; and `Holds`: compared with `start`, everybody
but the converters has what he had, except the trader, who lacks what he sent, the
affiliate, who has what `tips` records, and the network, which has exactly what it is about to
send. `Guarded` says that a converter that may not sell a token has at least what it had,
counting what it has yet to retire, and `Tips` that what was paid was due.
One lemma per kind of step (`AfterRequest`, `AfterDelivery`, `AfterReply` and so on) shows
that the step leads to the next stage or to the end (`Keeps`); `MemoSurvives` carries the
terms through each hop. That the network never has anything but the tokens under way needs
the check that a converter replies to the network named in its settings, and, for an account on the path that is
no converter, that nothing comes back from it. That the affiliate is paid once needs that the
memo behind the fee is built without him.

`TermsSurvive` and `AffiliatePaidOnce` follow from the invariant, the other properties from
the invariant and the last step of a transaction.
`ConversionsImplementExchange` is stated under `OneNetwork`: every converter has been, and
will be, set up with the account of this network. (A converter set up with another account
converts for that account directly, and what it replies is no part of anybody's terms.)
Then a transaction succeeds from the stages `Requested` or `Delivering` only, and `Holds`
turns into the balances that `Settle` of `Exchange` allows (`ExecuteSettles`). The other
theorems need no such condition.

What is assumed of the constants is what the code checks or the chain provides: settings and
ratios within the bounds `init` and `setreserve` check, a consistent ledger to begin with
(`InitialAssumption`), finitely many symbols, and `WellFormed` texts: a path is a list, and
the share of an affiliate is a number.

**Converter fees.** `FeeAuthority` is inductive only with "a converter has the feature stake
only when a staking contract is set": `activate` looks for the contract, and `setsettings`
never takes it away.

**Converter books.** The invariant `CInv` joins the types of the tables, `LedgerOK` for the
ledger, that only a reserve has a balance, that a converter is no reserve of its own and has one
reserve per symbol code, and that the contract is the issuer of every smart token that
exists. Each handler is followed through its inline actions by lemmas on what the
account holds afterwards (`TransferOwn`, `IssueOwn`, `RetireOwn`, `PaymentsFacts`), and by
`BookedChange`, which turns the change of one row into the change of the sums over all
converters and depositors. Nothing is used of the formulas but that the cost of funding
is not negative: whatever they return, what is booked is what is moved. That
the smart token is no reserve of its own converter matters in a liquidation, where the tokens received
are retired; the issuer matters since `retire` takes from the issuer's balance.
`Solvent`, `BooksFollowCoins` and `DepositorControls` are stated under `CodesDiffer`: no
two tokens have the same symbol code. Without it they are false, as deposits are booked by
code (the run `one_code`); the type theorem needs no such condition.

**Formulas.** Every result is the largest (for the cost of funding, the smallest) number that
fits an inequality between powers, so that each of the three theorems about inputs is a
matter of what fits. Going round, the inequality of the way back ends where the one of the way
there began, and the powers cancel. Splitting, the inequalities of the two parts multiply to the one of
the whole, since the fee taken from the first part leaves the supply no larger than it would be without it
(`PartsOfPurchase`); that the sum is also a number an asset can hold needs that a weight of at
most 100% never issues more than in proportion. The closed forms are equivalences:
equal exponents come off both sides, and what remains is the definition of the quotient. The
invariant is only that the inputs are in range.

**Value of a pool.** `PurchaseValue`, `SaleValue`, `CrossValue`, `FundValue` and `LiquidateValue`
turn the inequality of each formula into one between what the supply and the balances were
and what they become; a fee only strengthens it (`DearerPurchase`, `CheaperSale`). Three lemmas
carry this to the product over all reserves: a purchase or a sale changes one
factor, a conversion two, and `fund` and `liquidate` change all. In the last case each reserve
promises an inequality with the *sum* of the weights as exponent; `WeightedProduct` raises
each to its own weight, multiplies, and takes the root. An action that concerns another converter, or a
deposit, leaves the product alone; with an empty reserve the product is zero before, and
deposits into an inactive converter only raise it. The same inequalities show that a formula
never pays out the whole of a reserve while supply remains, hence
`ActivationIsStable`. Neither theorem needs `CodesDiffer`, or that the sum of the weights is
100%.

**BancorX.** The invariant `XInv` joins `TypeOK`, `LedgerOK` for the token's ledger,
`HistoryOK` and `Vouched`: every reporter named in a waiting row has, in the current
round of that transaction, cast a vote for exactly the report in the row. From it
`IssueIsVouched` follows, since a payment needs `min_reporters` names, though some of
the reporters may have been removed since. That the meters stay `uint64_t` needs the
comparison before each subtraction and the cap on what regrows, since the sum
may wrap around. `LimitsMeterSupply` is inductive by the lemmas on sums: a first report adds the
same amount to the charges and to the waiting rows, a payment moves it from the
waiting rows to the supply. For `RateLimited`, `RateInv` adds to each meter that
nothing has been charged at later times than `prev_time` (`QuietSince`), that what is
in force was chosen by the administrator (`CurrentIsChosen`), and, the key,
that for every start of an interval the charges up to the last one *plus what that one
left of the limit* are covered by some chosen maximum and what some chosen increment
gives back until then (`Covered`). A charge then moves an amount from what is left to what
was charged; the maximum and the increment of the bound may come from different
updates, because the code applies new limits to time that has already passed.

**Only model-checked**: `PoolValueNeverFalls` of the legacy converters (`Conversions`), over
whole transactions; liveness, since the prover does not treat `ENABLED`.

## What the models leave out

- **XTransferRerouter**: a flag, and an action that emits an event. It changes no table
  and keeps no record of transfers, so that there is no history to check.
- **Compositions**: `Conversions` runs the network with legacy converters. The
  conversions of the new BancorConverter are one hop in its module, where the network
  is an account that sends tokens.
- **Receivers with code.** A receiver of tokens may itself be a contract and act in
  the middle of a transaction. Outside `Conversions`, and there apart from network
  and converters, receivers are accounts without code.
- **Doubles.** See Formulas above; nor are the sums of weights in doubles, which are
  exact for the values they take.
- **Symbols and precision.** A symbol of the model includes the precision; all
  reserves have the same one.
- **Legacy converter**: `require_balance`, a column no code reads.
- **Memos**: the digits of numbers. `stof`, which reads the minimum, is a constant
  function; the share of an affiliate stands in a memo for the number `stoui` makes of
  its word. A memo with too few or too many words is refused; of one that is parsed,
  `WellFormed` says what is taken for granted.
- **Inputs**: `setreserve` for the converter's own smart token (a reserve with the symbol of the
  smart token from another contract is in the model; `convert` recognises the smart token by its
  symbol alone, so that conversions of such a namesake fail, see `Distinct`, as long as its contract lets
  only the issuer retire); two smart tokens of one code, which share a row; memos that are not well
  formed (`parse_memo` of BancorX reads past the end of a vector then); settings with
  another `multi_token` (it can be set once).
- **The key of the converter's account** signs `setsettings` only.
- RAM payers, memo lengths, events (`log.cpp`, `events.hpp`), `migrate.cpp` (included
  nowhere), the system contracts (binaries: accounts, atomic transactions and a clock
  that does not go back are assumed), tests and scripts.
- The tokens of reserves exist and have been handed out at the beginning, with a row
  for everybody.

## Where the code departs from its documentation and tests

Each is a run that TLC ends with a counterexample.

1. `deleted_reserve`: `delreserve` "deletes an empty reserve" (BancorConverter.hpp:261) and,
   by the comment at BancorConverter.hpp:232, can "only be called by the converter owner". It
   requires no authority (reserves.cpp:27), and checks that the converter is inactive, that is,
   that some reserve is empty (reserves.cpp:28), not that the one it deletes is. The property
   refuted is weaker than either sentence: that somebody else deletes empty reserves only.
2. `fee_owner`: the same comment, and BancorConverter.contracts.md:37, have `updatefee`
   "only be called by the converter owner". While a converter is staked, the staking contract
   must sign instead, and the owner is refused (settings.cpp:48).
3. `one_code`: deposits are booked by symbol code (modify_balance.cpp:3). After a reserve
   has been replaced by one with the same code from another contract, old deposits are
   paid in the new token, and the balance of the account no longer covers the reserves,
   which bancorConverter.test.js:189 expects it to equal.
4. `bancorx_twice`: "should throw when the same reporter reports a transaction twice"
   (bancor-x.test.js:154) holds until the transaction is paid; then the row that
   remembers the reporters is erased (BancorX.cpp:198).

Noticed, without a run:

- BancorNetwork.hpp:98 promises that a "conversion will fail if the amount returned is
  lower \"minreturn\"". `verify_min_return` reads the minimum with `stof`, in floats, and
  truncates (BancorNetwork.cpp:127): "1.0000" becomes 9999 units, so that one unit less
  than the minimum is accepted, with 8 decimals more; text that is no number means zero.
- When the affiliate's fee is deducted after the last hop, the receiver gets the memo of
  the conversion instead of his own (BancorNetwork.cpp:80-81). A fee truncated to nothing
  leaves the affiliate in the memo for the next hop.
- An account on the path that is no converter receives the tokens; no minimum applies,
  since the tokens never come back.
- Legacy BancorConverter.hpp:80 has `smart_enabled` say whether the smart token can be
  converted; the code asks only when it is bought (BancorConverter.cpp:143).
  "setup" is accepted from anybody and from any token contract (legacy
  BancorConverter.cpp:301).
- `to_fixed` casts to `int` (common.hpp:90): a legacy converter cannot return 2^31 units or
  more, and neither converter can convert where the fee is that much, although the new one only
  reports it in an event (convert.cpp:90).
- `convert` does not ask whether the converter is active: into an empty reserve, with equal
  weights, any amount buys the whole of the other one (utils.cpp:68). What is paid is booked, and
  the weighted product is zero before and after, so that no property here fails.
- `reroutetx` requires no authority, where XTransferRerouter.hpp:51 has only the original
  sender reroute.
- `fund` and `liquidate` accept any total weight up to 200%, where BancorConverter.hpp:281
  says "exactly 100%".
- A fee may exceed a `max_fee` lowered later (settings.cpp:53); deposits are out of reach
  while an active converter has become inactive (modify_balance.cpp:43);
  `delconverter` requires no authority (converters.cpp:72).
- Issues at one instant may exceed `max_issue_limit`, since the limit is charged by first
  reports, perhaps much earlier (BancorX.cpp:154).

## Plan

Done: Token, the formulas, BancorConverter, BancorX, memos, the network composed with
legacy converters; proofs about Token, the formulas, the fees, books and pools of
BancorConverter, BancorX, memos, and conversions over several hops with their refinement of
`Exchange`.

Left, in this order:

1. The proof of `PoolValueNeverFalls` in `Conversions`: the stages of `IInv` get one more part, the
   value of every converter with what is pending for it applied.
2. The new BancorConverter in `Conversions`, with paths that mix both kinds, and
   reactions in the middle of a liquidation: a receiver that trades while notified.
