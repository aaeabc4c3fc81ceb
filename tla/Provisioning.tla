---------------------------- MODULE Provisioning ----------------------------
(***************************************************************************)
(* The commands that prepare a cluster for the user flows: the token       *)
(* bootstrap script, `admin` (the AMM config), `create-pools` (one pool    *)
(* per unordered pair of mints) and the library's create_pool_flow for one *)
(* pair.  Operators run them concurrently and again after a stop.          *)
(*                                                                         *)
(* A run is a list of jobs, each read - decide - simulate and send -       *)
(* confirm, with an await between any two; the first error ends the run.   *)
(* A sent transaction is in flight until it lands or expires, and outlives *)
(* a run that stopped waiting for it.                                      *)
(***************************************************************************)
EXTENDS Integers, Sequences, FiniteSetsExt, SequencesExt

CONSTANTS
    Operators,       \* who runs commands; each has a key of its own
    AdminKey,        \* the operator whose key the program was built with
    Mints,           \* the mints, numbered in the order of their addresses
    MainnetDecimals, \* of the mints that have a token config entry
    Existing,        \* the mints made by other means, with their contents
    Commands,        \* Commands[op]: the command lines op may run
    Repeated,        \* Repeated[op]: those op runs again and again
    MaxTickSpacing,  \* states::MAX_TICK_SPACING
    RateDenominator, \* states::FEE_RATE_DENOMINATOR_VALUE
    MaxFaults        \* bound on errors, kills and expired transactions

\* Programs a mint belongs to; "token2022" has an extension outside the list
\* validate_supported_mint allows.
TokenPrograms == {"token", "token2022allowed", "token2022"}

\* A price is a fraction <<num, den>>.
Price == Nat \X (Nat \ {0})

\* The parsed arguments of the commands, and a call of create_pool_flow.
Command ==
    [kind : {"tokens"}, mints : Seq(Mints), apply : BOOLEAN]
      \cup [kind : {"admin"},
            settings : [spacing : Nat, trade : Nat, protocol : Nat, fund : Nat]]
      \cup [kind : {"pools"}, mints : Seq(Mints), price : Price]
      \cup [kind : {"flow"}, pair : Mints \X Mints, price : Price]

ASSUME ProvisioningAssumption ==
    /\ AdminKey \in Operators
    /\ Mints \subseteq Nat
    /\ DOMAIN MainnetDecimals \subseteq Mints
    /\ \A m \in DOMAIN MainnetDecimals : MainnetDecimals[m] \in Nat
    /\ DOMAIN Existing \subseteq Mints
    /\ \A m \in DOMAIN Existing :
          /\ Existing[m].kind = "mint"
          /\ Existing[m].program \in TokenPrograms /\ Existing[m].decimals \in Nat
    /\ \A op \in Operators : Commands[op] \subseteq Command
    /\ MaxFaults \in Nat

VARIABLES
    chain,   \* the accounts: address -> content
    flight,  \* sent transactions not decided yet
    run,     \* run[op]: the latest run of an operator
    faults   \* faults so far

vars == <<chain, flight, run, faults>>

-----------------------------------------------------------------------------
(***************************************************************************)
(* Accounts.  A pool stores the raw price, raw token 1 per raw token 0.    *)
(***************************************************************************)
Program == <<"program">>
Config == <<"config">>
Mint(m) == <<"mint", m>>
Support(m) == <<"support", m>>

\* Mutant: the mints are taken in the order they were given.
PoolAddressAsGiven(a, b) == <<"pool", a, b>>

\* derive_pool_address.
PoolAddress(a, b) ==
    IF a < b THEN <<"pool", a, b>> ELSE <<"pool", b, a>>

Addresses ==
    {Program, Config} \cup {Mint(m) : m \in Mints}
        \cup {Support(m) : m \in Mints}
        \cup {PoolAddress(p[1], p[2]) : p \in {q \in Mints \X Mints : q[1] < q[2]}}

Absent == [kind |-> "absent"]
Exists(a) == chain[a] # Absent

\* validate_supported_mint.
Supported(m) == chain[Mint(m)].program # "token2022" \/ Exists(Support(m))

-----------------------------------------------------------------------------
(***************************************************************************)
(* From a command line to its jobs.                                        *)
(***************************************************************************)
\* Mutant: a single pair is not enough.
UniqueMintsMoreThanTwo(flags) ==
    IF Cardinality(ToSet(flags)) <= 2 THEN {} ELSE ToSet(flags)

\* unique_mints; {} where it refuses the list.
UniqueMints(flags) ==
    IF Cardinality(ToSet(flags)) < 2 THEN {} ELSE ToSet(flags)

\* unordered_pairs, and the order its loops over a BTreeSet give them.
UnorderedPairs(mints) == {p \in mints \X mints : p[1] < p[2]}
Before(p, q) == p[1] < q[1] \/ (p[1] = q[1] /\ p[2] < q[2])
InOrder(S) ==
    CHOOSE s \in SetToSeqs(S) : \A i, j \in DOMAIN s : i < j => Before(s[i], s[j])

\* The loops of deploy.ts main, create_all_pools and run_admin, and a call of
\* create_pool_flow.
Jobs(cmd) ==
    CASE cmd.kind = "tokens" ->
             [i \in DOMAIN cmd.mints |->
                 [kind |-> "token", mint |-> cmd.mints[i], apply |-> cmd.apply]]
      [] cmd.kind = "admin" ->
             <<[kind |-> "config", settings |-> cmd.settings]>>
      [] cmd.kind = "pools" ->
             LET pairs == InOrder(UnorderedPairs(UniqueMints(cmd.mints))) IN
             [i \in DOMAIN pairs |->
                 [kind |-> "pool", pair |-> pairs[i], price |-> cmd.price]]
      [] cmd.kind = "flow" ->
             <<[kind |-> "pool", pair |-> cmd.pair, price |-> cmd.price]>>

JobKinds == {"token", "config", "pool"}

\* The account a job is to create.
Target(job) ==
    CASE job.kind = "token"  -> Mint(job.mint)
      [] job.kind = "config" -> Config
      [] job.kind = "pool"   -> PoolAddress(job.pair[1], job.pair[2])

-----------------------------------------------------------------------------
(***************************************************************************)
(* What a job finds, and the account it would create.                      *)
(***************************************************************************)
\* validate_amm_config_params.
ValidSettings(s) ==
    /\ s.spacing \in 1 .. MaxTickSpacing
    /\ s.trade < RateDenominator
    /\ s.protocol + s.fund <= RateDenominator

\* CreateAmmConfig: the program makes the signer owner and fund owner.
NewConfig(op, s) ==
    [kind |-> "config", by |-> op, settings |-> s, owner |-> op,
     fundOwner |-> op]

\* The comparison of ensure_amm_config with an existing config.
SameConfig(op, s) ==
    LET config == chain[Config] IN
    /\ config.settings = s
    /\ config.owner = op
    /\ config.fundOwner = op

\* The transaction of deployToken.
NewMint(op, m) ==
    [kind |-> "mint", by |-> op, program |-> "token",
     decimals |-> MainnetDecimals[m]]

\* create_pool: the price of mint 1 in mint 0.
Normalized(pair, price) ==
    IF pair[1] < pair[2] THEN price ELSE <<price[2], price[1]>>

\* Mutant: the decimals of the two mints change places.
RawPriceSwapped(price, decimals0, decimals1) ==
    <<price[1] * 10 ^ decimals0, price[2] * 10 ^ decimals1>>

\* price_to_sqrt_x64, before the square root.
RawPrice(price, decimals0, decimals1) ==
    <<price[1] * 10 ^ decimals1, price[2] * 10 ^ decimals0>>

Mint0(pair) == IF pair[1] < pair[2] THEN pair[1] ELSE pair[2]
Mint1(pair) == IF pair[1] < pair[2] THEN pair[2] ELSE pair[1]

NewPool(op, job) ==
    [kind |-> "pool", by |-> op,
     price |-> RawPrice(Normalized(job.pair, job.price),
                        chain[Mint(Mint0(job.pair))].decimals,
                        chain[Mint(Mint1(job.pair))].decimals)]

\* Reads that end in an error: getMint and the metadata of the mainnet mint,
\* the testnet mint; the program and the config; create_pool's accounts.
ReadFails(op, job) ==
    CASE job.kind = "token" ->
             job.mint \notin DOMAIN MainnetDecimals \/ Exists(Mint(job.mint))
      [] job.kind = "config" ->
             \/ ~ValidSettings(job.settings)
             \/ ~Exists(Program)
             \/ Exists(Config) /\ ~SameConfig(op, job.settings)
      [] job.kind = "pool" ->
             \/ ~Exists(Config)
             \/ \E i \in 1 .. 2 : ~Exists(Mint(job.pair[i]))
             \/ Exists(Target(job))
             \/ \E i \in 1 .. 2 : ~Supported(job.pair[i])

\* Reads after which there is nothing to send: a dry run, and a config that
\* is there already.
NothingToSend(job) ==
    \/ job.kind = "token" /\ ~job.apply
    \/ job.kind = "config" /\ Exists(Config)

Content(op, job) ==
    CASE job.kind = "token"  -> NewMint(op, job.mint)
      [] job.kind = "config" -> NewConfig(op, job.settings)
      [] job.kind = "pool"   -> NewPool(op, job)

\* Whether the programs on the cluster execute a transaction now.
Executable(tx) ==
    /\ ~Exists(tx.to)
    /\ tx.content.kind # "mint" => Exists(Program)
    /\ tx.content.kind = "config" => tx.content.by = AdminKey

-----------------------------------------------------------------------------
(***************************************************************************)
(* The run of an operator.  "told" holds the answers of its finished jobs. *)
(***************************************************************************)
NoTx == [to |-> Program, content |-> Absent]

Idle ==
    [pc |-> "idle", flags |-> <<>>, jobs |-> <<>>, at |-> 1, tx |-> NoTx,
     told |-> <<>>]

Running == {"check", "read", "send", "confirm", "landed", "refused"}

CurrentJob(op) == run[op].jobs[run[op].at]

\* create_pool_flow validates its prerequisites before it calls create_pool.
FirstPc(job) == IF job.kind = "pool" THEN "check" ELSE "read"

\* The first error ends the run; the outcomes so far are dropped.
Fail(op) == run' = [run EXCEPT ![op] = [Idle EXCEPT !.pc = "failed"]]

\* The job is done; the next one, or the end of the run.
Finish(op, answer) ==
    LET r == run[op]
        more == r.at < Len(r.jobs)
    IN  run' = [run EXCEPT ![op] =
            [r EXCEPT !.told = Append(r.told, answer),
                      !.tx = NoTx,
                      !.at = IF more THEN r.at + 1 ELSE r.at,
                      !.pc = IF more THEN FirstPc(r.jobs[r.at + 1])
                                     ELSE "ok"]]

\* The in-flight record of the transaction op waits for.
Awaited(op) ==
    [op |-> op, to |-> run[op].tx.to, content |-> run[op].tx.content,
     awaited |-> TRUE]

\* What is in flight once op no longer waits.
Orphaned(op) ==
    IF Awaited(op) \in flight
    THEN (flight \ {Awaited(op)}) \cup {[Awaited(op) EXCEPT !.awaited = FALSE]}
    ELSE flight

Init ==
    /\ chain = [a \in Addresses |->
           IF a[1] = "mint" /\ a[2] \in DOMAIN Existing
           THEN Existing[a[2]] ELSE Absent]
    /\ flight = {}
    /\ run = [op \in Operators |-> Idle]
    /\ faults = 0

\* A command line: parsed, its keys read, its mints made unique.
Start(op, cmd) ==
    /\ run[op].pc \notin Running
    /\ LET jobs == Jobs(cmd) IN
       run' = [run EXCEPT ![op] =
           [Idle EXCEPT !.pc = IF jobs = <<>> THEN "failed"
                               ELSE FirstPc(jobs[1]),
                        !.flags = IF cmd.kind = "pools" THEN cmd.mints
                                  ELSE <<>>,
                        !.jobs = jobs]]
    /\ UNCHANGED <<chain, flight, faults>>

\* validate_pool_creation_params, then validate_prerequisites.
Check(op) ==
    /\ run[op].pc = "check"
    /\ LET job == CurrentJob(op) IN
       IF /\ job.pair[1] # job.pair[2]
          /\ job.price[1] > 0
          /\ Exists(Program)
          /\ Exists(Config)
       THEN run' = [run EXCEPT ![op].pc = "read"]
       ELSE Fail(op)
    /\ UNCHANGED <<chain, flight, faults>>

\* The reads of deployToken, ensure_amm_config and create_pool, and the
\* decision taken on them.
Read(op) ==
    /\ run[op].pc = "read"
    /\ LET job == CurrentJob(op) IN
       CASE ReadFails(op, job) -> Fail(op)
         [] ~ReadFails(op, job) /\ NothingToSend(job) ->
                Finish(op, IF job.kind = "token" THEN "dry run" ELSE "same")
         [] OTHER ->
                run' = [run EXCEPT
                    ![op].pc = "send",
                    ![op].tx = [to |-> Target(job), content |-> Content(op, job)]]
    /\ UNCHANGED <<chain, flight, faults>>

\* Simulated on the present state of the cluster, and sent if it succeeds.
Send(op) ==
    /\ run[op].pc = "send"
    /\ IF Executable(run[op].tx)
       THEN /\ flight' = flight \cup {Awaited(op)}
            /\ run' = [run EXCEPT ![op].pc = "confirm"]
       ELSE /\ Fail(op)
            /\ UNCHANGED flight
    /\ UNCHANGED <<chain, faults>>

\* The answer to the submission, once the transaction has been decided.
Confirm(op) ==
    /\ \/ run[op].pc = "landed" /\ Finish(op, "created")
       \/ run[op].pc = "refused" /\ Fail(op)
    /\ UNCHANGED <<chain, flight, faults>>

\* Mutant: a stopped run still counts as waiting for its transaction.
StopWaiting(op) ==
    /\ run[op].pc \in Running
    /\ faults < MaxFaults
    /\ faults' = faults + 1
    /\ Fail(op)
    /\ UNCHANGED <<chain, flight>>

\* An RPC error, an ambiguous confirmation or a kill, at any await.
Stop(op) ==
    /\ run[op].pc \in Running
    /\ faults < MaxFaults
    /\ faults' = faults + 1
    /\ Fail(op)
    /\ flight' = Orphaned(op)
    /\ UNCHANGED chain

\* The run that waits for tx learns what became of it.
Decide(tx, pc) ==
    IF tx.awaited THEN run' = [run EXCEPT ![tx.op].pc = pc] ELSE UNCHANGED run

\* The cluster executes a transaction, or finds that it cannot.
Land(tx) ==
    /\ flight' = flight \ {tx}
    /\ IF Executable(tx)
       THEN /\ chain' = [chain EXCEPT ![tx.to] = tx.content]
            /\ Decide(tx, "landed")
       ELSE /\ Decide(tx, "refused")
            /\ UNCHANGED chain
    /\ UNCHANGED faults

\* Its blockhash expires first; a fault for a run that waits for it.
Expire(tx) ==
    /\ tx.awaited => faults < MaxFaults
    /\ faults' = IF tx.awaited THEN faults + 1 ELSE faults
    /\ flight' = flight \ {tx}
    /\ Decide(tx, "refused")
    /\ UNCHANGED chain

\* The program is deployed, and its admin lists a mint, by other means.
Deploy ==
    /\ ~Exists(Program)
    /\ chain' = [chain EXCEPT ![Program] = [kind |-> "program"]]
    /\ UNCHANGED <<flight, run, faults>>

ListMint(m) ==
    /\ Exists(Program)
    /\ Exists(Mint(m))
    /\ ~Supported(m)
    /\ chain' = [chain EXCEPT ![Support(m)] = [kind |-> "support"]]
    /\ UNCHANGED <<flight, run, faults>>

Step(op) == Check(op) \/ Read(op) \/ Send(op) \/ Confirm(op)

Next ==
    \/ \E op \in Operators :
           \/ \E cmd \in Commands[op] : Start(op, cmd)
           \/ Step(op)
           \/ Stop(op)
    \/ \E tx \in flight : Land(tx) \/ Expire(tx)
    \/ Deploy
    \/ \E m \in DOMAIN Existing : ListMint(m)

(***************************************************************************)
(* A run goes on while nothing stops it, a sent transaction is decided,    *)
(* the program is deployed some day, and operators run the command lines   *)
(* of Repeated again and again.                                            *)
(***************************************************************************)
Spec ==
    /\ Init
    /\ [][Next]_vars
    /\ WF_vars(\E tx \in flight : Land(tx))
    /\ WF_vars(Deploy)
    /\ \A op \in Operators :
           /\ WF_vars(Step(op))
           /\ \A cmd \in Repeated[op] : SF_vars(Start(op, cmd))

-----------------------------------------------------------------------------
Answers == {"created", "same", "dry run"}

\* Types, and that a run waits for exactly the transaction it has in flight.
TypeOK ==
    /\ DOMAIN chain = Addresses
    /\ \A m \in Mints : Exists(Mint(m)) =>
           /\ chain[Mint(m)].program \in TokenPrograms
           /\ chain[Mint(m)].decimals \in Nat
    /\ \A tx \in flight : tx.awaited <=> run[tx.op].pc = "confirm" /\ tx = Awaited(tx.op)
    /\ \A op \in Operators :
           /\ run[op].pc \in Running \cup {"idle", "ok", "failed"}
           /\ run[op].pc = "confirm" => Awaited(op) \in flight
           /\ \A i \in DOMAIN run[op].jobs : run[op].jobs[i].kind \in JobKinds
           /\ run[op].told \in Seq(Answers)
           /\ run[op].pc \in Running => Len(run[op].told) = run[op].at - 1
    /\ faults \in 0 .. MaxFaults

\* The price of mint B in mint A that a pool quotes, against <<num, den>>.
Quotes(pool, job) ==
    LET dA == chain[Mint(job.pair[1])].decimals
        dB == chain[Mint(job.pair[2])].decimals
        \* raw B per raw A
        raw == IF job.pair[1] < job.pair[2] THEN pool.price
               ELSE <<pool.price[2], pool.price[1]>>
    IN  raw[1] * 10 ^ dA * job.price[2] = raw[2] * 10 ^ dB * job.price[1]

(***************************************************************************)
(* An answer is true of the cluster for good.  Whoever was told "created"  *)
(* made the account, however many operators raced for it; a config         *)
(* answered for, new or found, has every setting asked for and the caller  *)
(* as its owner; a token has the decimals of its mainnet mint; and a pool  *)
(* opens at the price asked for, mint B per mint A, whichever of the two   *)
(* addresses is the smaller (ensure_amm_config, create_pool, deployToken). *)
(***************************************************************************)
AnswersHold ==
    \A op \in Operators : \A i \in DOMAIN run[op].told :
        LET job == run[op].jobs[i]
            account == chain[Target(job)]
        IN  run[op].told[i] # "dry run" =>
            /\ account # Absent
            /\ run[op].told[i] = "created" => account.by = op
            /\ job.kind = "token" =>
                   account.decimals = MainnetDecimals[job.mint]
            /\ job.kind = "config" =>
                   /\ account.settings = job.settings
                   /\ account.owner = op /\ account.fundOwner = op
            /\ job.kind = "pool" => Quotes(account, job)

(***************************************************************************)
(* After a create-pools that succeeded, the address that user-flow or the  *)
(* library derives for any two of the listed mints, in either order, is a  *)
(* pool (unique_mints, unordered_pairs, derive_pool_address).              *)
(***************************************************************************)
FlowFindsPools ==
    \A op \in Operators : run[op].pc = "ok" =>
        \A i, j \in DOMAIN run[op].flags :
            LET a == run[op].flags[i]
                b == run[op].flags[j]
            IN  a # b => PoolAddress(a, b) \in Addresses /\ Exists(PoolAddress(a, b))

\* Both mints of a pair exist and the program takes them.
Ready(a, b) ==
    \A m \in {a, b} : Exists(Mint(m)) /\ Supported(m)

(***************************************************************************)
(* No stop leaves a cluster that the commands cannot finish: although      *)
(* create-pools and the token script fail on the first account that        *)
(* exists, and a run that was stopped reports nothing of what it made,     *)
(* operators who repeat their commands get every token and every pool      *)
(* (create_all_pools, deploy.ts main).                                     *)
(***************************************************************************)
RepairCompletes ==
    <>[](/\ \A m \in DOMAIN MainnetDecimals : Exists(Mint(m))
         /\ \A a, b \in Mints :
                a < b /\ Ready(a, b) => Exists(PoolAddress(a, b)))
=============================================================================
