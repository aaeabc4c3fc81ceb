# Formal model of the testnet test suite

TLA+ specifications of the parts of this repository that decide whether money
moves once, twice or not at all, and whether a price a consumer reads is the
price it claims to be.  The modules are translated from the Rust source; TLC
checks them on small instances, and TLAPS proves, for all values of the
constants, every safety property that a passing run checks.  `PROJECT.json` is
the index: components, runs, one mutant per property, the source lines of each
definition, findings, hazards and theorems.

Paths below are relative to `src/`.

## 1. The system

### Parts, state and operations

| Part | Source | State it keeps | Operations |
|---|---|---|---|
| `ChainClient::submit` | `crates/mtm-chain/src/lib.rs` | the signed bytes, the send attempt, the deadline | blockhash, sign, simulate, send with transport retries, poll status and block height |
| `ChainClient::send_instructions` | `crates/mtm-chain/src/tx.rs` | attempt, signature of the attempt | per attempt: blockhash, sign, `send_and_confirm` |
| CLMM client, swaps | `crates/raydium-clmm-client/src/lib.rs`, `quote.rs` | per call: pool and tick arrays as read, the quote | `swap_exact_in`, `swap_exact_out` |
| CLMM client, positions | `crates/raydium-clmm-client/src/lib.rs` | per call: position and pool as read, limits | `open`, `increase`, `decrease`, `collect`, `close` |
| CLMM client, configs and pools | same | per call: what was read | `ensure_amm_config`, `create_pool`, `create_pool_flow` |
| user-flow command | `services/raydium-clmm-orchestrator/src/main.rs`, `crates/raydium-clmm-orchestrator/src/lib.rs` | funded users, recovery key files | fund all users; per user: flow, reclaim, remove key; rollback |
| admin and create-pools commands | same | the outcomes so far | one config; one pool per unordered pair of mints; stop at the first error |
| token bootstrap script | `bootstrap/tokens/deploy.ts` | none | per token: read the mainnet mint, dry run or create, hand over |
| oracle configuration | `services/oracle/src/{config,lib}.rs`, `pricing/spec.rs`, `pricing/mod.rs` (`from_config`), `state.rs` (`new`) | maps from ids to symbols, feeds to instruments, mints to symbols | `partition_underlyings`, `from_config`, the tables of each task |
| oracle feed tasks | `services/oracle/src/{feed_task,coingecko,binance}.rs` | latest book per symbol, connection | poll and send; read, coalesce, flush, reconnect |
| oracle pricing engine | `services/oracle/src/pricing/` | latest observation, basket factors, lag buffers, due times | `on_underlying`, `on_tick`, `run` |
| oracle state and API | `services/oracle/src/{state,api}.rs` | price map, broadcast channel | `update`, `get`, `all`, `subscribe`, `/v1/ws` |
| mtm-math `Price` | `crates/mtm-math/src/lib.rs` | none | scale, basis points, conversions, text |
| keys, pusher, Hermes clients, oracle-client, mtm-common, mtm-telemetry, ops | see `PROJECT.json` | none, or files | see section 6 |

### How they interact

The orchestrator's command awaits CLMM client calls one after the other; every
call reads accounts over RPC, computes an instruction from what it read, and
awaits `ChainClient::submit`.  Between any two awaits other users of the chain
trade, and a transaction whose answer was lost may land.  The only durable
state of user-flow is a key file per ephemeral user; admin, create-pools and
the token script keep none, so that whoever repeats them has to go by what is on
the chain.  They meet user-flow at the address of a pool, which each derives
from two mints.

In the oracle, feed tasks push ticks into one bounded `mpsc` channel; the
engine task selects between that channel and its timer and awaits
`AppState::update` for every point; `update` stores the point under a write
lock and then broadcasts it; HTTP handlers read the map, websocket handlers the
broadcast.

### What is hard in it, and what correct means

* **Sending** (lost answers, retries, forks, expiry, stalls).  A call executes
  its instructions at most once; what it answers is true and stays true; it
  returns.
* **User flow** (crash at any await, ambiguous answers, late transactions,
  partial failure).  What a user holds is always within reach of a key on disk;
  success means that no SOL, pool token or position is left with a user.
* **Quotes and limits** (torn reads, rounding, transfer fees, tick-array
  limits).  Quotes are exact for what was read, orders derived from undisturbed
  reads execute, and an order that executes after a disturbance honours the
  slippage.
* **Provisioning** (stops, repeated runs, two operators, mints in any order).
  An answer is true of the cluster for good, create-pools makes the pools that
  user-flow will look for, and a stopped run can be completed.
* **Configuration** (shared ids, symbols named twice, mints named twice).  No
  instrument is served with the price of another market.
* **Feeds** (backpressure, coalescing, reconnects).  Nothing goes backwards,
  nothing accepted is lost, the engine's timer does not depend on the feeds.
* **Pricing** (which leg triggers, missing legs, bursts, pauses).  A derived
  price is never stale and never looks fresher than its oldest stamped leg.
* **Serving** (handshake, subscription and snapshot against store and
  broadcast; lagging consumers).  Wait for the stream to begin, then read the
  snapshot, and nothing is missed; a handshake alone is no subscription yet.
* **Fixed point** (ties, negative values, widths).  What is rounded is nearest,
  what is printed is parsed back, what overflows is refused.

The line where each of these bites is listed under `hazards`.

## 2. Modules

```
Cluster <── ChainClient <──┬── Submission ──INSTANCE──> TxPromise   (refinement)
                           └── SendInstructions
                   both <── ChainClient_proofs

OracleConfig <── Pipeline
               PriceState        both <── Oracle_proofs
               PricingEngine          <── PricingEngine_proofs

TokenAmounts <──┬── SwapQuote         <── SwapQuote_proofs
                └── Position          <── Position_proofs

TokenAmounts, PriceMath <── Arithmetic_proofs

UserFlow <── UserFlow_proofs
Provisioning <── Provisioning_proofs
```

An arrow points from a module to those that EXTEND it.  Arithmetic_proofs holds
the lemmas on rounding, fees, sums over sets and positions of a list; the proofs
about the oracle, the engine, swaps and positions extend it.

Each specification `X` that is run has an `MCX` module and one cfg per run.  Mutants (the
definitions commented "Mutant:") stand directly before the definition they
replace and are used by nothing else.

* **Cluster** is the chain and its RPC node, external to the repository: block
  height, transactions a node holds (`pool`), and per transaction the
  commitment it reached.  A transaction is identified by the blockhash it
  carries: the same instructions signed again with the same blockhash are the
  same bytes, with another one a second transaction.  A `processed` fork may be
  abandoned and the transaction may land again, with another result.
* **TxPromise** is what callers of `submit` rely on: at most one lasting
  effect, `ok` only after it, `never` only if it never comes, `unknown`
  otherwise.
* **ChainClient** is what the two senders share: the await a call is suspended
  in, the blockhash it signed with, its attempts and its result, and the
  configured commitment.
* **Submission** is `submit`, one action per await: `GetBlockhash` (with the
  signing, which has no await), `Simulate`, `SendAccepted`, `SendMismatched`,
  `SendTransportError`, `SendRefused`, `GetStatus`, `GetBlockHeight`, and
  `DeadlineElapses` for the clock.  The sleeps between polls are no steps.  A
  node may lag, so a status may be unknown and a height too low.
* **SendInstructions** is the retry loop of `tx.rs`; the RPC library's
  `send_and_confirm_transaction` is external.
* **UserFlow** is `execute_user_flows` with `run_user_flow`,
  `reclaim_user_funds` and `return_token_balance`.  `phase` is the loop,
  `task` the awaits left for the current user, `awaiting` the transaction in
  `submit`.  `StepFails` is every error raised before anything was sent,
  `ReplyError` every error after.  `Land` may follow either the reply or a
  kill.  Amounts are units of rent and of tokens: the state tells apart what is
  open, what is empty and what the user still owns.  A key file is removed only
  after flow, recovery and removal succeeded; main.rs:376 names
  `recovery_path`, which is bound in the first loop only (main.rs:292); the
  model takes it for the file of the user whose loop body ends.
* **SwapQuote** is `swap` with the walk of `quote_swap` over tick arrays, the
  transfer fees and the threshold.  The pool and the arrays are read in two
  steps, the balance in a third; `Trade`, `Provide` and `Transfer` are what
  others may do in between.  `ComputeSwap` stands for the interface library's
  arithmetic on one interval of constant liquidity, and `Exchange` for the
  program: it sums over the positions themselves and knows neither arrays nor
  net liquidities, so agreement of the two is a statement about the walk.
  `TicksMet` and `ArraysNeeded` are the ticks and arrays the curve itself meets.
  On torn reads the walk may cross a tick that takes away more liquidity than
  there is: `add_delta` refuses (`Advance`), and so does the quote.
* **Position** is the life of one position through all five calls, with
  `LoadPosition`, `LoadPool`, `LoadBalances`, `LoadArrays`, `Simulate` and
  `Submitted` as awaits.  An ambiguous answer leaves the transaction in `late`;
  for `open_position` the caller also loses the NFT mint.
* **TokenAmounts** is the rounding shared by both: `apply_slippage`,
  `transfer_fee` and `inverse_transfer_fee`.
* **Provisioning** is the token script, `admin`, `create-pools` and the
  library's `create_pool_flow`.  A command line (`Command`) becomes a list of
  jobs (`Jobs`).  The mints kept by `unique_mints` are a set, as in the code
  (a BTreeSet), and `InOrder` is the order in which iterating that set makes
  `unordered_pairs` list the pairs.  Each job goes through `Check`,
  `Read`, `Send` and `Confirm`, one action per await; the first error ends the
  run (`Fail`).  `Stop` is an error of the RPC, an ambiguous answer or a kill
  at any await: the run forgets its outcomes, and its transaction stays in
  flight without anyone waiting for it.  The cluster executes a transaction
  only if its account does not exist (`Executable`).  Prices are fractions, so
  the inversion for the order of the mints and the powers of their decimals
  are exact.
* **OracleConfig** is what `run` makes of a configuration: which provider reads
  what (`ProviderFeeds`), for which symbols an id is read (`Recipients`: Pyth and
  Binance use a map in which the last entry of an id wins, CoinGecko's loop
  serves every entry), which instruments a symbol re-evaluates (`ByFeed`, `Timed`), under
  which instrument a mint is found (`SymbolForMint`, the last one wins), and
  when the configuration is refused (`Accepted`).
* **Pipeline** is `oracle::run` from a configuration to the API's answers: the
  polling tasks (Hermes and CoinGecko run the same loop, each with its own
  table), the Binance task, the channel, and the engine's select loop.  An
  observation is named by its source and a number, so that "older" and "of
  another market" can be told.  The engine publishes a tick for every
  instrument of its symbol; how a price is computed is PricingEngine's part.
* **PricingEngine** is the engine's `on_underlying` and `on_tick`: the base of
  each instrument, and the chain of transforms its value goes through
  (`Transformed`, one `Turn` each), of which a lag keeps samples and any may
  refuse a value.  An underlying has one leg and a cross two, as
  `from_config` builds them.
  Values are fractions, so no rounding hides a wrong leg or factor.  `first`, `samples`
  and `lastTick` are history variables.
* **PriceMath** is mtm-math's `Price` as operators.  What depends on a power of
  ten takes the power as an argument (`Rounded(m, factor)`), so that theorems
  hold for every factor; the widths of i128 and of Decimal are constants.
  `checked_scale` refuses a factor that does not fit even where the result
  would be zero, and so does the model.
* **PriceState** is `AppState` with the websocket handler.  `log` is everything
  ever broadcast; a receiver sees the newest `Backlog` points of it.  Connecting
  is two steps, as in the code: `Upgrade` is `ws_handler`, which answers the
  handshake (api.rs:66-68), and `Subscribe` the start of `stream_prices`, in the
  task spawned for the socket (api.rs:70-71).  A consumer may read the snapshot
  before, between and after them, and again; it may leave at any time.  `joined`
  and `lagged` are history variables, and so are the fields `at` and `heard` of
  a snapshot.

## 3. Runs

Passing runs finish with every action and disjunct taken.

| Run | Distinct states | What it shows |
|---|---|---|
| `submission` | 3 820 | at most one execution, final pre-send errors, final Ok, return under every cluster behaviour, refinement of TxPromise |
| `send_instructions` | 4 863 | executions never outnumber attempts; Ok is true; the call returns if blocks are made |
| `user_flow` | 2 561 | funds keep their key, success leaves no SOL, pool token or position, flows do not overlap, rollback visits everyone |
| `price_state` | 11 750 | stream not ahead of store, a snapshot read after the stream began is complete and an earlier one lacks only what was broadcast before `subscribe()`, streams go forward, the newest point arrives |
| `pipeline` | 13 109 | from nine configurations: answers come from configured sources, served observations go forward, no tick is lost, the coalesced book arrives |
| `pricing_engine` | 368 194 | the derivation, lag, basket and timer properties; as assumptions, the laws of PriceMath |
| `provisioning` | 91 690 | answers are true for good, user flows find the pools, repeated commands complete a stopped run |
| `swap_quote` | 690 836 | the walk is exact and refuses only what does not fit, undisturbed orders execute, disturbed ones honour the slippage |
| `position` | 322 719 | undisturbed calls execute, deposits stay within the request, a drained position can be closed |
| `submission_error`, `pipeline_synthetic`, `swap_balance` | - | the findings of section 5 |

`provisioning` checks deadlock; the other passing runs turn it off: each of
these programs ends (`pc = "done"`, `exit`, a reply) or reaches a bound.

### Bounds, and why they are enough

* `submission`: three attempts are the code's default; a lifetime of two
  blocks and heights to 4 allow signing at several heights, landing in the last
  valid block, and expiry before and after the last retry.  Commitment is
  `confirmed`, the client's default.
* `send_instructions`: two attempts and room for both blockhashes to expire
  (`RoomToExpire`).
* `user_flow`: three users, the first in a pool with a reward mint.  The three
  give the first, a middle and the last position of both loops; `UserLamports`
  is one unit more than the accounts a flow opens.
* `pipeline`: capacity 1 instead of 1024, so that the tasks meet a full
  channel; two streamed symbols, so that a flush is interrupted half way; two
  observations, so that one can overtake another.  Of the nine configurations
  five are accepted (three providers at once, one id for two symbols, one
  symbol at two providers and one mint of two instruments, one symbol from two
  streams, no feed at all) and four are refused, one per rule.
* `provisioning`: two operators, of whom one holds the admin key; three mints
  with different decimals, given out of order and one of them twice, so that
  the order of a pair matters and a list of pairs has a middle; one mint with
  an extension the program takes only once it is listed; one fault, which may
  be a stop or an expired transaction at any await of either run.
* `price_state`: capacity 2 and four points, so that a receiver is lapped and
  still finds two points, and a snapshot, a broadcast, a subscription and a
  second snapshot fit in one behaviour.  One consumer: consumers share nothing
  that they write, and the proof is for any number.
* `pricing_engine`: a lag of two ticks, three observations and a clock to 4:
  the lag can be passed twice, a leg can move after the basket was rebased, two
  samples can ripen between two evaluations, a peg falls due a second time.
  PriceMath is evaluated for mantissas from -130 to 130 and exponents from -3 to
  3, with `MaxMantissa` 10000 and `MaxDecimal` 2000, so that factors, products
  and results overflow each on its own: `DisplayThenParse`, `ScalingComposes`,
  `DecimalRoundTrip`, `FloatsAndDecimals`, and the crate's own test cases.
  A price of 0 turns the lagged value negative, which the transform behind the
  lag refuses, and a cross into one that cannot be inverted.
  One feed always stamps its prices, one may leave the stamp out, so that
  `older` meets two stamps, one and none.
* `swap_quote`: 3 arrays of at most 4 fetched (6 of 24 in the code), four turns
  (64 in the code) and two ticks per array, so that each of the three limits
  bites and a quote may still cross two gaps; three positions that nest and
  leave a gap, in all 8 combinations and from every price; an amount that ends
  within the first ticks and one that reaches the last; a wallet that covers
  everything and one that covers little; one disturbance, which may fall between
  any two awaits.  No usable tick touches the end ticks.
* `position`: prices below, at the lower tick of, inside and above the range;
  ranges that are aligned, must be aligned, and are empty; a mint with a fee
  and one without; four calls, as many as open, deposit, drain and close; one
  price move.

### Fairness, and what justifies it

* `submission`: weak fairness of the call, since `RpcClient` gives every
  request a timeout and every await ends; and of `DeadlineElapses`, since time
  passes.  Nothing is assumed of the cluster, which may stop making blocks.
* `send_instructions`: also weak fairness of block production.  The library's
  polling has no deadline; without blocks the call would not return.
* `pipeline`: timers fire (`Flush`, `OnTick`); `select!` picks at random among
  ready branches, so a ready receive is not starved (`Receive`,
  `EngineStops`); strong fairness of `Send`, because tokio's channel semaphore
  is FIFO.  Market, polls and connections need not succeed.
* `provisioning`: a run that nothing stops goes on (`Step`), a transaction in
  flight is decided, the program is deployed some day, and operators run the
  command lines of `Repeated` again and again.  These are the config, the
  token script for both tokens and for the second alone, `create_pool_flow`
  for one pair and create-pools for two mints.  Strong fairness, since another
  command of the same operator may be running.  The full create-pools is not
  among them: it fails for ever once a pool exists, and `RepairCompletes`
  is the statement that the narrower commands make up for that.
* `price_state`: the engine's `update` goes on; the task spawned for an open
  socket is run (`Subscribe`), and its consumer reads (`ReadStream`).  No
  consumer needs to leave or to read the snapshot.

The other modules state safety only and have no fairness.

### Assumptions a reader should know

* UserFlow and Position await `submit` with the promise of TxPromise, which
  holds for a firm commitment (`confirmed`, `finalized`).  With `processed` an
  Ok may be taken back by a fork, in the model and in the code.
* UserFlow reads its own confirmed effects: no RPC node lags behind a
  confirmation it reported.
* PricingEngine's clock is monotone (`now_us` is the system clock).  The
  exponent of a beta and the weights of a basket are whole numbers, so that
  fractions stay exact; every basket is rebased; a value always fits the
  exponent it is published with.
* Pipeline takes the point served for an instrument to be the tick itself: what
  a basket or a cross makes of several feeds is in PricingEngine.
* Provisioning computes prices with fractions; the square root and the rounding
  of `rust_decimal` are left out.  A token's metadata and authorities, which no
  command reads back, are not part of its content.  What `--initial-price`
  calls A and B are the two mints after sorting.
* PriceMath's `FromDecimal` rounds once; that `Decimal` may drop digits of a
  fraction first is left out.
* SwapQuote reads the whole bitmap with the pool (the bitmap extension account
  is read along with it); the epoch and with it the transfer fees are constant;
  transfer fees have no maximum; limit orders and dynamic-fee pools are left
  out.
* SwapQuote's usable ticks stay clear of `MIN_TICK` and `MAX_TICK`
  (`SwapAssumption`).  That holds for every spacing that does not divide 443636,
  the default one included.  In a pool of spacing 1, 2 or 4 positions may reach
  the ends, where `quote_swap` answers Ok with part of the amount left over
  (`quote.rs:55-60`); nothing is claimed of such pools.
* Position keeps the fees and the rewards a position is owed in one flag,
  `owed`: `close_position` asks for both to be zero, and the program collects
  both with one instruction.
* `NeverFresherThanALeg` speaks of the legs that carry a time: `older` passes
  over one without (`pricing/mod.rs:545`), so the halt of an unstamped feed does
  not show in the age of a derived price.  `TimedKeepsItsPace` bounds the
  distance of two points from below; that a late timer makes a peg miss a turn
  is allowed.
* `UnmovedSucceeds` leaves out exact-in swaps into a mint with a transfer fee:
  the client takes the minimum from the amount sent, and whether the program
  compares the amount sent or received is not in this repository.

## 4. Proofs

A module of proofs shows, for all values of the constants that satisfy the
assumptions named in the modules it is about, what their runs show on a small
instance.  None of the properties is inductive.  For each specification it
defines an inductive invariant (`IndInv`; `SendIndInv` and `StateIndInv` where a
module has two), shows that `Init` implies it and every action preserves it (one
lemma per action or kind of step, joined in one for `Next`), and reads the
properties off it.

### Submission (ChainClient_proofs)

| Theorem | Statement |
|---|---|
| `TypeCorrect` | `Spec => []TypeOK` |
| `Invariance` | `Spec => []IndInv` |
| `AtMostOnce` | `Spec => []ExecutedAtMostOnce` |
| `PreSendFinal` | `Spec => []PreSendErrorsAreFinal` |
| `OkFinal` | `Firm` implies `Spec => []OkIsFinal` |
| `Refinement` | `Firm` implies `Spec => ImplementsPromise` |

* `SentOnlySigned`: the only transaction a node can hold is the one signed.
  This is what retrying the same bytes buys, and what a refreshed blockhash
  would break.
* `LandedWasSent`: what has any status came out of the pool.  With the first it
  gives at-most-once.
* `NothingSentYet`: up to the simulation, and after an error raised by then,
  the pool is empty.  With the second it gives the finality of those errors.
* `ReturnedWithResult`: a result is there exactly when the call has returned;
  needed so that a step of the call starts from a pending answer.
* `FirmOk`: an Ok is for a transaction that no fork takes back, if the
  commitment is firm.  Without that hypothesis the statement is false, because
  `Abandon` undoes `processed`.

The lemmas `CallStep`, `CallResult` and `ClusterStep` say once what all awaits
and all cluster steps have in common.  For the refinement, a step of the call
is an `Answer` or a stutter (`CallAnswers`), and a step of the cluster is
`TakeEffect` or a stutter (`ClusterTakesEffect`).  `TakeEffect` is the step that
makes an execution final, so it needs `AtMostOnce`, and that no error raised
before sending was given.

### SendInstructions (ChainClient_proofs)

`OneExecutionPerAttempt` for every number of attempts and every blockhash
lifetime, and `OkIsExecuted` for a firm commitment.  `SentOncePerAttempt`
counts: the transactions sent are no more than the attempts that came to a
send, because each attempt signs once.  `LandedWasSent` bounds the executions
by them; `PendingUntilDone` says that nothing is returned before the call ends.

### UserFlow

All five properties of the run, for any number of users and any set of them in
pools with rewards.

* `Keys` says, loop by loop, which users have a key file, and that a user
  without one owns nothing and has nothing in flight.  That is
  `FundsKeepTheirKey` and what makes it inductive: a key is removed by the last
  step of the reclaim, so one must know that nothing can land afterwards.
* `Quiet`: while no step has failed, the only transaction in flight is the
  awaited one.  Every failed step lets go of its transaction, so the invariant
  has to tell the two apart; this is also what `FlowsDoNotOverlap` needs.
* `Closes` and `Empties`: what the finished steps of the flow and of the reclaim
  have closed and emptied, as long as `Quiet` holds.  They make
  `SuccessMeansRecovered` and the removal of the key safe; the balance the sweep
  read is still the balance when it executes.
* `Loops` and `Waiting` tie the program counter, the list of steps left and the
  awaited transaction together.

### PriceState (Oracle_proofs)

Four of the run's properties, for any capacity of the broadcast, any number of
points, instruments and consumers.

* `Ordered` and `Counted`: the broadcast carries points in the order they were
  made, and one that is still being written is not in it.  This is what the
  single writer buys.
* `Held`: nothing stored or seen is newer than the newest point made, and a
  point is stored before it is broadcast; `StreamNotAheadOfStore` rests on it.
* `Reading`: a receiver stands within the broadcast or at its end, and what it
  has still to read is not older than what it holds, however far it skipped;
  `StreamGoesForward` follows.
* `Joining`: who has had a point from its stream has a receiver, and that is not
  before the place it started at.  This is how a consumer can know that it is
  subscribed; the answer to the handshake does not tell it.
* `Captured` and `Delivered`: a snapshot holds everything that had been broadcast
  when it was read, because each point is stored first; what was broadcast since
  the receiver exists is delivered, unless it lagged.
* `OnlyTheGapIsMissed` joins the two: a point that lies neither before the
  snapshot nor behind the start of the receiver was broadcast in between, and
  the gap is empty if the stream had begun before the snapshot was read.
  `SnapshotThenStreamIsComplete` says both.

### Pipeline (Oracle_proofs)

For any set of configurations, any sources and any capacity:
`AnswersAreConfigured` and `ServedGoesForward` (for `Spec`; fairness is not
needed).

* `InOrder` is the heart: of two observations of one source for one symbol, the
  one that is further on its way (served, then in the channel, then in a task's
  hands, then in the book) is never the newer one, and the channel is ordered
  in itself.  A task that polled again, or flushed again, while it still sends
  would break it; that `await` on a full channel holds the whole loop keeps it.
* `Bounded`: nothing on its way is newer than its source, nor, while the
  connection is open, than what was read of the stream.  A reconnection starts
  at the stream's present end, which is why the next book cannot be older.
* `InPlace`: an observation belongs to a symbol that an underlying entry names
  at its source (`RecipientsAreNamed`), a task holds only its own provider's,
  and an instrument is served for one feed only, since accepted names are unique
  (`FeedsAreDisjoint`).

`MaxOfPositions` replaces what induction would give: that a nonempty set of
positions has a last one follows from the well-foundedness of the naturals.

### PricingEngine

Every property of the run, for any instruments, legs, weights, transforms, lags
and intervals, and any order of observations, timer ticks and pauses.

* `NoStaleDerivation` is inductive given `Types`: an observation re-evaluates
  every instrument that has its feed among its legs, and the value of any other
  does not depend on that feed (`Immediate`, `ValueNow`).
* `Rebased` ties a basket's factor to its first point: no point, no factor;
  afterwards the factor is the sum of that point and is what every later one is
  divided by.  `BasketKeepsItsBase` follows from it, and does not hold without
  the part about the factor, since a second rebase would be allowed.
* `Paced`: a timed instrument is not due before its interval is over, which
  makes `TimedKeepsItsPace` an action property of `OnTick`.
* `LagsKept` is the invariant behind `LagIsExact`, which speaks of the samples
  that were ever taken (a history variable) and not of the buffer.  It says that
  the samples are in order of time (`Ordered`), and that the buffer of the first
  lag of an instrument holds exactly the samples too young to be served at the
  last evaluation, in order (`Buffered`): neither a burst nor a pause makes the
  code pop one too many.  `Serves` then ties the served point to the newest
  sample that has been popped.  The lemmas on lists (`Longer`, `Dropped`,
  `CutAt`) say what pushing at one end and popping at the other do to "the
  samples from here on".
* `NeverFresherThanALeg` follows from `NoStaleDerivation` and from the oldest
  time of the legs being among their times.

### Position

All three properties of the run, for any prices, ranges, amounts, slippage,
spacing and transfer fees.  They rest on the theorems about **TokenAmounts**.

* `Limited`: the limit of every deposit on its way, including those given up for
  lost, is a function of the arguments of its own call.  `DepositWithinRequest`
  follows although neither the price nor the balances the quote was made from
  need be true any more when the deposit lands.
* `Quoted`: until something moves, an order's limits cover what the instruction
  takes from, and demand no more than what it gives in, the state that was read.
  The steps in between (price, balances, arrays) are separate awaits, so the
  invariant speaks of the bundle that was read, and `UnmovedExecutes` of the
  case that it is still the state of the pool.
* `Draining`: without a deposit of unknown fate nothing raises the liquidity
  after it was read, so withdrawing all that was read leaves nothing;
  `DrainedIsClosable` is false without that hypothesis, and the property has it.
* `Named` and `Types` say which request an order in flight belongs to.

### Provisioning

The three safety properties, for any operators, mints, decimals, command lines
and any number of stops.

* `Answered` and `Pending`: a job decides on what it reads and acts later, when
  others may have acted too.  What saves it is that the accounts are created
  once and then never written (`Grown`): everything a decision was taken on, the
  decimals of the mints above all, is still so when the transaction lands
  (`FitsStays`), and every answer stays true (`AnsweredStays`).  That an account
  was made by the operator who is told so needs `FlightOK`: a run in `confirm`
  waits for exactly the transaction it put in flight, and those of stopped runs
  are marked as nobody's.
* `PoolQuotes` is the arithmetic: inverting the price exactly when the addresses
  are in reverse, with the decimals of the two mints each on its side, gives a
  pool whose price is the one asked for.
* `Lists`: for every two different mints of the list there is a job, which with
  one answer per job at the end gives `FlowFindsPools`.  It rests on
  `InOrderIsComplete`: any finite set of pairs has the increasing order in which
  the loops of `unordered_pairs` list it, and the list leaves out none.  It is
  proved without induction: a smallest set of pairs with no such order would
  have one after all, its least pair followed by the order of the rest.
* `Progress` and `RunTypes` say where a run stands among its jobs.

### SwapQuote

All three properties of the run, for any positions, prices, spacing, amounts,
transfer fees, slippage and limits.

The heart is `WalkIsExact`, a theorem about `quote_swap` alone: on one pool and
its own arrays the walk answers exactly when the pool can fill the swap, the
arrays it needs can be fetched and the turns suffice; and what it answers is the
amount that the positions exchange, with just the arrays the program looks for.
The walk sees one array, one bitmap and the net liquidity of the next tick,
while the curve (`Exchange`) sums over the positions at every point.  The
argument, from the bottom:

* `FillPath`, `FillPrefixes`, `FillInParts`: a swap over a list of segments can
  be cut anywhere, the second part going on with what the first left over.  The
  left fold of `Fill` is unrolled by a history function, along whose positions
  facts are carried by the well-foundedness of the naturals (`AlongPositions`).
* `LiquidityIsSum`, `LiquidityOfBoth`: `Liquidity` is a sum over positions, so
  it splits over disjoint sets (`Sums`, in Arithmetic_proofs).  `DepthOfTick` and
  `SameLiquidity` then give that the depth between two initialized ticks is
  constant and equal to the liquidity at the tick the walk is in;
  `LiquidityStep` and `LiquidityCrossed` that crossing a tick with `LiquidityAfter` keeps that so:
  up it adds what opens and removes what closes there, down the reverse.
* `OnCurve` is the invariant of a turn: the walk stands on the curve at some
  distance `n`, has used and calculated what the curve exchanges over `n` points,
  has something left, and carries the liquidity of the tick it is in.  `Passed`
  and `Left` split the ticks ahead of the pool by that tick.  `Live` adds where
  the walk is among the arrays (`InHand`): no tick left lies before the array in
  hand, nothing beyond it has been passed, and the arrays used are the first one
  and those of the ticks passed.  And it counts one tick passed per turn, which
  turns the limit on turns into a limit on ticks.
* `StepOnCurve` is the step to one tick and `TurnOnCurve` the turn of the loop
  with its three ways to find it: ahead in the array in hand, from the start of
  the array the walk starts in, or in the next array of the bitmap across a gap
  (`NearestInArray`).  `LiveTurn` and `OtherTurns` show that every turn goes from
  `Live` to `Live`, to `Filled` (done, as the curve says) or to `GivenUp` (and
  then the curve cannot fill the swap, or it needs more arrays than are
  fetched), and that the last two stay.

The state invariant `IndInv` is small: types, and `OrderHolds`: until the call
returns, its order is the slippage and the transfer fee on what was quoted, and
if the reads agree then the quote is the curve's.  `QuoteIsExact` and
`UnmovedSucceeds` follow with `WalkIsExact`, `ExecutedWithinSlippage` without
it, since it holds on torn reads too.  `GrossGrows` (more net is strictly more
gross) is what makes a maximum with the fee on it comparable.

Trying to prove it corrected the model twice.  On torn reads the walk can be
asked to take away more liquidity than there is; the model went on with a
negative number, the code returns an error (`quote.rs:163`).  And `QuoteIsExact`
claimed a quote for every swap that fits the transaction, which is false for one
that meets as many ticks as the loop has turns; the property now says so, and
the bounds of the run let that case happen.

### Arithmetic

Arithmetic_proofs has no state.

* **PriceMath**: truncation loses less than one unit, toward zero; scaling up and
  back returns the price; scaling down fits, and in two steps gives what it gives
  in one; `from_decimal` is nearest, ties to even, and differs from
  `from_f64_lossy` on ties only; the digits `Display` writes parse back to the same mantissa; basis points
  are monotone.  Powers of ten appear as an arbitrary positive factor.
* **TokenAmounts**: the maximum with slippage is the least that covers it, the
  minimum the greatest within it, the fee is between nothing and the amount, and
  `inverse_transfer_fee` is the least that lets the net amount arrive.
* Lemmas for the other modules: the greatest and least of a finite set
  (`Extremes`, `MaxOfPositions`), sums over finite sets, and `AlongPositions`,
  which carries a fact from one position of a list to the next.

### Only model-checked

Liveness is out of the prover's reach: `CallReturns`, `SendingReturns`,
`TicksAreServed`, `LatestBookIsServed`, `NewestPointArrives` and
`RepairCompletes` are checked by TLC only.  Of the laws of PriceMath that
`MCPricingEngine` assumes, the theorems cover what rounding and scaling do for
every factor; that the powers of ten and the widths are put together right
(`DecimalRoundTrip`, and where a conversion is refused) is evaluated on the
ranges of section 3.

## 5. Findings

* **A definite error for a transaction that executes** (`submission_error`).
  The first send is lost after it reached the node, the retry of the same bytes
  is refused with an error that is no transport error, and `submit` answers
  `Submission` without a signature, `crates/mtm-chain/src/lib.rs:188`.  The
  transaction executes.  The enum has `AmbiguousConfirmation` for this case.
* **Synthetics stop without a feed** (`pipeline_synthetic`).  If no underlying
  is configured the channel is closed at once, and the engine's loop ends with
  it; `docs/instrument-pricing.md:19` gives synthetic bases a timer of their
  own.
* **A payer who can pay is refused** (`swap_balance`).  `swap` compares the
  input balance with the larger of two amounts of which one counts output
  tokens, `crates/raydium-clmm-client/src/lib.rs:706`.

Three more things the models show are kept as known limits among the hazards.

A consumer that reads `/v1/prices` right after the handshake of `/v1/ws` can
miss a point: `ws_handler` answers before the spawned task calls `subscribe()`
(`services/oracle/src/api.rs:67` and `:71`), and what is stored and broadcast in
between is in neither.  Until the next point of that symbol the consumer holds
an old price.  No text promises otherwise, so it is no finding;
`SnapshotThenStreamIsComplete` bounds the loss to that window and states what
is safe: read the snapshot, again if need be, after the first point of the
stream.

In a pool that pays a reward in a third mint the flow opens a token account
that `reclaim_user_funds` does not close.  `create_pool` sets up no reward, and
the comment about stranded lamports (`main.rs:497`) is about the two accounts
closed there; so `FundsKeepTheirKey` speaks of SOL, the pool's tokens and the
position.

`ExecutionErrorIsFinal` in Submission is false: an execution error is reported
from a status of any commitment.  No text claims otherwise, and TxPromise
treats `Execution` as unknown.

## 6. Not modelled, and why

* **Oracle pusher**: a stub that logs and returns.
* **Hermes clients, oracle-client**: stateless requests and decoding; their
  failures are inputs of Pipeline.
* **Configuration files**: reading, parsing, defaults and environment
  overrides; OracleConfig starts from the parsed value.
* **Random numbers and confidence values of the engine**: the noise transform
  multiplies by a random factor, a gbm walks at random, and a confidence is
  carried along with a value and decides nothing.
* **Pool arithmetic** (`compute_swap`, square roots, the program itself) is not
  in this repository; SwapQuote and Position take it as external.
* **keys, mtm-common, mtm-telemetry, ops**: reading a key, names, a clock,
  logging, deployment; no state to get wrong.

## 7. Plan

Built so far, in the order of what depends on it: Cluster, TxPromise,
Submission; SendInstructions; UserFlow; PriceState; OracleConfig and Pipeline;
PriceMath and PricingEngine; TokenAmounts, SwapQuote and Position;
Provisioning; and the proofs of section 4, which state all the safety
properties of the passing runs.

Next: *OracleService*, Pipeline, PricingEngine and PriceState composed,
so that backpressure of `update` reaches the feed tasks and several instruments
of one tick are stored one after the other.
