# OpenTrust Verify: specifications and proofs

TLA+ modules of OpenTrust Verify: how a claim becomes a signed verdict and the verdict
reaches the receivers of webhooks, how the keys that sign it are kept, how accounts,
sessions and workspaces are kept over Postgres and in memory, how processes start,
what the projects of an organization are shown of it, and what the wallet, the console
and the public pages of the web application keep and show while answers come in any
order. TLC checks them on small instances; TLAPS proves the most important invariants
for every value of the constants.

## 1. The system

| Part | State | Operations | Interacts by |
|---|---|---|---|
| Verify handler (`services/api/src/app.ts`) | none of its own | `POST /v1/verify/incoming`, `POST /v1/verdicts/verify`, reads | calls adapter, engine, store, dispatcher; one event loop |
| EVM adapter (`packages/chain-adapters/src/evm.ts`, `mock.ts`) | none; the chain is outside | `normalizeEvidence`: five to seven RPC calls | RPC to a node whose chain moves between them |
| Bitcoin, Solana and Tron adapters, registry | none | `normalizeEvidence`, `getFinalityState`, `createAdapter` | HTTP to nodes one of which may lag |
| Verification engine (`packages/verification-engine`, `verdict-schema`) | status and evidence of one request | `verifyIncomingTransfer`, `finalize` | awaits the adapter once, then runs to the end |
| Wallet balance (`app.ts`, `packages/wallet-core`) | none | `GET /v1/wallet/balance`, `reconcileBalanceReads` | one or two nodes |
| Webhook dispatch (`lib/webhooks.ts`, `lib/queue.ts`) | `webhook_deliveries`, Redis list and sorted set | `dispatchWebhooks`, `enqueueWebhook`; without Redis three attempts inline | runs inside the verify request |
| Webhook workers (`worker.ts`, embedded loop of `app.ts`) | the job in hand | `popWebhookJob`, `processWebhookJob`, `delayWebhookJob` | any number of processes over one Redis and one Postgres |
| Signing keys (`lib/keys.ts`, `packages/crypto-signatures`) | Map in memory, one file per key | boot, `rotate`, `revoke`, `getActive` | files written one by one, lost on a crash |
| Boot (`lib/migrate.ts`, `store-factory.ts`, `kms.ts`, `aws-kms.ts`) | `schema_migrations`, data key file, key file | `migrate`, demo seed, `initKms`, first key | every process runs it, at once with the others |
| Accounts and sessions (`lib/pg-store.ts`, routes `/v1/auth/*`) | users, organizations, projects, memberships, sessions | register, login, OIDC callback, me, logout | statements of concurrent requests over a pool of connections |
| The same in memory (`lib/store.ts`) | Maps of one process | the same | awaited hashing |
| Workspaces (`lib/pg-store.ts`, `runtime-settings.ts`) | roles, API keys, organizations, public url | `setMemberRole`, `/v1/admin/*` | statements outside a transaction; a url in the memory of each process |
| Records of projects (both stores, `/v1/verdicts`, `/v1/api-keys`, `/v1/webhooks`, `/v1/usage`, `/v1/billing`) | verdicts, keys, webhooks and usage events of each project | store, list, meter | statements of overlapping requests, or Maps |
| Payment rules (`packages/wallet-core`) | none | `evaluatePayment`, scenarios | pure |
| Browser wallet (`apps/web`: `WalletShell`, `wallet-vault`, `wallet-connect`) | session, phrase, provider, holdings, send panel | unlock, pair, refresh, check, send | awaits a wallet, a phone, the API |
| Console and admin pages (`auth.tsx`, `Dashboard.tsx`, `Admin.tsx`, `workspace-admin.ts`) | token, localStorage, what is shown | me, login, logout, reads, saved lists | HTTP; tabs share localStorage |
| Single sign-on of a browser (`Auth.tsx`, `/v1/auth/oidc/*`) | one cookie `otv_oidc` for all tabs | link, login, callback | redirects through the provider |
| Linked wallet of open-trust (`LinkWallet.tsx`, `walletProvider.ts`, `api/admin/wallets.ts`) | active provider and address, linked addresses | connect, switch, unlink | awaits a wallet, then its server; events of wallets |
| Public pages (`Verifier.tsx`, `ClaimFields.tsx`, `VerificationLab.tsx`) | verdict shown, form, simulation | look up, check, claim, run | HTTP, a timer |

What is hard in it:

* **Interleaving**: dispatch loop, workers and receivers act between each other's
  awaits; requests interleave between their statements; processes boot together.
* **Failure**: a worker dies with a job that is in no queue; a statement fails after
  another has taken effect, or the answer to COMMIT is lost; a process dies inside a
  file write or between a migration and its record.
* **Stale reads**: an adapter reads transaction, receipt, logs, head and balances
  one by one while the chain grows and forks; a role counted before it is written;
  a list read before an await and saved after it.
* **Order of answers**: nothing a page asks for is cancelled, and what answers last
  is what is shown.
* **Limits**: the backoff table and its attempt numbers; a pool of which a request
  takes a second connection while it holds one.

`PROJECT.json` lists each of these at its line, with the property that would catch
it going wrong.

What makes each part correct: a delivery row is settled once and for a reason, its
job is neither lost nor copied, and usage is what receivers took; a SPENDABLE
verdict is true of the chain and stays true, and no verdict raises a false alarm;
the status follows from the evidence; what is stored is what was signed; a
signature stays verifiable, a revoked key silent and a rotation in force; lists
and meters agree with what callers were told; an
address has one account and an account its workspace; a session that has ended is
not served; a workspace keeps an owner; no process serves without its schema; and
what a page puts side by side belongs together.

## 2. Modules

| Module | Models | Checked in |
|---|---|---|
| `DeliveryContract` | what a row of `webhook_deliveries` promises (abstract) | `delivery_one_worker` |
| `WebhookDelivery` | dispatch, Redis, workers, receivers | `delivery_*` |
| `InlineDelivery` | the same dispatch without Redis | `accounts` |
| `IncomingVerification` | EVM and mock adapter, engine and handler of one request over a moving chain | `verification*` |
| `ForeignChains` | the reads of the Bitcoin, Solana and Tron adapters | `verification` |
| `BalanceReads` | the balance of an account from one or two nodes | `verification` |
| `ProjectRecords` | what projects store and are shown: verdicts, keys, webhooks, meters | `verification` |
| `SigningKeys` | key store, its directory, boot | `keys_*` |
| `AccountRegistry` | what the API promises of accounts (abstract) | `accounts` |
| `SignIn` | accounts and sessions over Postgres | `accounts` |
| `MemoryAccounts` | accounts in memory | `accounts` |
| `Boot` | APIs and workers starting together | `accounts` |
| `Workspace` | roles, keys, settings, organizations | `clients`, `last_owner` |
| `PaymentRules` | `evaluatePayment`; pure | `clients`, through `VerificationLab` |
| `WalletLink`, `WalletBalances`, `WalletSend` | the wallet page: sessions, holdings, send panel | `clients` |
| `BrowserSession`, `DashboardReads`, `AdminLists` | the console: token, reads, saved lists | `clients` |
| `VerdictPage`, `ClaimForm`, `VerificationLab` | the public pages | `clients` |
| `SingleSignOn` | sign-ins of one browser through a provider, by one cookie | `clients` |
| `LinkedSigner` | the wallet an administrator of open-trust links | `clients` |
| `Verification`, `Accounts`, `Clients` | components that share no variable, put together: their types, and what is stated of several | `verification`, `accounts`, `clients` |
| `WebhookDeliveryMC`, `IncomingVerificationMC`, `VerificationMC`, `SigningKeysMC`, `AccountsMC`, `WorkspaceMC`, `ClientsMC` | instances | |
| `WebhookDeliveryProofs`, `IncomingVerificationProofs`, `SigningKeysProofs`, `BootProofs`, `WorkspaceProofs`, `AccountProofs`, `ForeignChainsProofs`, `ClientProofs` | theorems | TLAPS |

`Verification`, `Accounts` and `Clients` put components that share no variable
together, and state what the types of all of them are; `VerificationMC`, `AccountsMC`
and `ClientsMC` make one instance of each: an initial state starts one of them and
gives the others their `...Idle` or `...Over` state, in which they have nothing left
to do. Nothing is claimed about an interplay of these components; it is one TLC run
over their disjoint union.

A definition whose comment begins "A bug to try" is a variant of the definition
below it. Nothing uses it; put in place of that definition it makes a property fail,
as `mutants` in `PROJECT.json` records.

### WebhookDelivery, DeliveryContract, InlineDelivery

An action is the stretch of a handler between two awaits that touch shared
state. `dpc`, `todo` and `cursor` are the `for` loop of `dispatchWebhooks`, one
per verdict; `status` and `attempts` are the row; `queue`, `delayed` and `due`
are the two Redis keys, where `due` is what `zrangebyscore` would return now;
`pc`, `batch` and `job` are one worker. A job is the row it belongs to and its
attempt number, since everything else in it is copied unchanged. Hooks are
visited in any order: `listWebhooks` states none. `Interrupt` is both a rejected
call, which the loop catches, and a worker that dies: in either case it is back at
the top of its loop and what it held is gone. `NotConfirmed` covers the answer that
comes too late. `ConnectionBlocked` is Redis serving one connection's commands in
order: while the embedded worker waits in BLPOP, the API's RPUSH waits too.

`DeliveryContract` has one status and one number per row: created once, retried
with one more attempt each time, delivered after at most `MaxAttempts` attempts or
failed after exactly that many, and not left open for ever. `WebhookDelivery`
implements it with one worker and no faults (`ImplementsContract`);
`delivery_terminal_status` shows that with two workers it does not.

`InlineDelivery` is the branch of `dispatchWebhooks` without Redis: one request
inserts a row, posts at once and twice more, updates and bills, and goes on to the
next hook. `StoreRejects` ends the dispatch in the middle; `Restart` ends every one.

### IncomingVerification, ForeignChains, BalanceReads

`IncomingVerification` has one action per RPC read (`ReadTransaction`,
`ReadReceipt`, `ReadEvents`, `ReadHead`, `ReadBefore`, `ReadAfter`), one per stage
of the engine, one per await of the handler. The stages run without an await, so the
chain does not move during them (`Watched`), nor for a mock adapter, which reads none.
What a call has read dies with it (`Forget`). The chain is a sequence of blocks, each
with the recipient's balance after it in the asset the adapter asks for; balances
change freely, which covers spending, other payments, and tokens whose logs do
not match what they do. A transfer has the id of the item it moves, if its token has
ids. A claimed id selects the transfer (`OfClaimedId`), and a claimed amount is met by
the transfer's amount or its id (`AmountOk`), as in the engine; the adapter reads the
balances of the id of its own first match (`AskedId`). The two choices differ when the
claim names another id than that first match has: `Overlooked`, which
`SpendableIsSettled` and `NoFalseAlarm` except by name. `DescribeAsset` may or may not
find that the claim's label fits. `content` is the claimed transaction. `live` is false for the
mock adapter. A verdict's signature is the body it was computed over, so that a
changed body is one that no longer verifies.

`ForeignChains` has one action per request of the other three adapters. `head`,
`minedAt` and `holding` are the chain; a fork replaces its last block; a node may lack
the last block (`ReadFinality`). What they do not read is a balance at a block:
Bitcoin's balance before is computed from the balance now, and for Solana and Tron the
balance after is the transfer's own amount, so that their balance check cannot fail.
`ForeignEvidenceStands` says what final evidence then is worth: its depth
(`FinalIsBuried`), and that for a success the balance differs from the amount only
after spending or a fork (`ShortfallNeedsSpending`), which is a statement about
Bitcoin alone. `FirstMatch` is what `find` returns, the least index that matches;
`Only` keeps the transfers of one kind in order, as the two loops of Solana's
`getTransferEvents` do.

`BalanceReads` asks the nodes one after the other while the account moves (`held`
is its history); a liar answers what it likes, and a node that does not answer is
left out of `Reconciled`, which sees only the answers in `Good`.

### ProjectRecords

A request is named, and so is the row it stores. A verdict is dated when the engine is
done (`checkedAt`) and stored later (`storedAt`); requests overlap, so the two orders
differ. Over Postgres `saveVerdict` is a transaction of statements one of which may fail
(`StatementLost`), over Maps one step. `FirstOfList` is the list as each store orders it,
by the check or by saving, cut at `ListLimit`. `Counted` is the meter: in memory one
counter for all projects, in Postgres the events of a project, and a bill that of any
one project of the organization. `AnswersAgree` relates each answer to what callers were
told before it: `ListIsComplete` (only a verdict is missing, of a full list),
`MeterIsExact`, `AnsweredIsFound`.

### SigningKeys

`disk` is the directory, `keys`, `order` and `activeKid` the Map and field of the
running process. Each of `put`, `rotate` and `revoke` changes the Map at once and
leaves in `todo` the files it will write; each file is written in two halves
(`Truncate`, `Fill`), because `writeFileSync` opens with truncation, and the
process may end between any two. A torn file keeps the API from starting.

### SignIn, AccountRegistry, MemoryAccounts

In `SignIn` an action is a statement of `PostgresStore` and the code up to the next
one; `pc[r]` names the statement request `r` sends next. `held` are the requests
that keep a connection of the pool (a transaction does from BEGIN to release);
`staged` are the rows of an open transaction, `accounts` and `rows` the committed
ones. `Contended` is the unique index of `users.email`: an INSERT waits for the
other transaction with that address. A statement may fail, COMMIT may succeed
unheard. A session's token is the request that made it; `late` are requests that
arrived after their session had ended.

`AccountRegistry` is the promise: one account per address, told to the request that
made it. `ImplementsRegistry` (`INSTANCE AccountRegistry WITH`) maps `creator` and
the answers of `SignIn` onto it. `MemoryAccounts` does not implement it: between the
test for the address and the insertion lies the hashing of the password.
`DuplicateNeedsOverlap` states the exact condition.

### Boot

`at[p]` is the place of process `p` in `createStore`, `migrate` and, for an API,
`createKeyStore`; `schema` are the files whose statements have run, `recorded` those
in `schema_migrations`; `dekFile` and `keyFile` are the two files in the key
directory, the second by the data key that wraps it. Each is written in two halves
(`WriteDataKey` and `FillDataKey`, `PutKey` and `FillKey`); what a kill leaves between
them is `Torn`, and fails every later start of an API. `Kill` ends a process anywhere;
the supervisor starts it again. `EveryProcessServes` says that workers come to serve
always, and APIs too, unless two raced for the data key, a kill tore a file, or the
bound on data keys is reached.

### Workspace

Two requests of any kind, statement by statement. `setMemberRole` reads actor,
target and number of owners, and writes, with no transaction around them; `overtaken`
and `applied` are history: whose reads another request's write has overtaken, and
whose write took effect. `publicUrl` is one variable per API process.

### PaymentRules, VerificationLab

`Decision` and `StepState` are the functions of `evaluatePayment`; the lab runs the
four scenarios through them (or asks the API), and uncovers the steps by a timer.

### WalletLink, WalletBalances, WalletSend

`WalletLink`: each attempt to open a session is a `job` whose stages are its awaits;
`session` belongs to the mounted page, `unlocked` and `provider` to their modules,
which outlive it; a phone that leaves a link no account ends the session as its disconnect
does (`PhoneDisconnects`). `WalletBalances`: refreshes and payment checks in flight, each of
which writes what it read when it answers. `WalletSend`: a click is a job too, and
`chain[s]` what became of its transaction (`Ends`): success, reverted, or replaced by
another of the same nonce, which the wallet's owner may send to hurry or to cancel it and
which succeeds or reverts. The receipt of the replacement is reported beside the hash of
the transaction it replaced; `OneSendPerReview` therefore says that "included" means that
the nonce was spent with success, by the transaction shown or by its replacement. A panel
can be closed and opened again while an older click is under way.

### BrowserSession, DashboardReads, AdminLists

`BrowserSession` has the token twice, in localStorage and in the page, and the
requests that change both. `DashboardReads` has the pages that read the API: those
that drop the answers of an effect that was cleaned up, and those that do not. A read
asks for all or for what the search field says by then, and the answer to a search may
leave out what was just created. Creations may overlap: no button waits for another.
`AdminLists` has the lists kept in localStorage under a scope: a page saves its own
copy, changed, under the scope of the moment. Role changes may overlap as well, and
each answer saves the seats of its own click (`clashed` records it). The bounds of
these modules and of the wallet's and the form's allow at least the read, list,
refresh or request that a page makes when it is mounted (`ReadsAssumption` and its
like): with none of them the page the initial state describes does not exist.

### VerdictPage, ClaimForm

`VerdictPage` shows a verdict at once and the check of its signature later; `ClaimForm`
has the chain, network and contract of a claim, and the asset lists under way.
`Promised` is what the lab announces of each scenario under its button (`BLURB`).

### SingleSignOn, LinkedSigner

`SingleSignOn` follows each sign-in from the link of the page to the answer of the
callback. `jar` is the one cookie `otv_oidc`: every login answer overwrites it and every
completed callback clears it, whosever it is. `displaced` are the sign-ins whose cookie
was taken while their person was at the provider, `denied` those that a provider, a
failed call or a reload spoiled, `late` those older than ten minutes. `SignOnStands` is
`RefusedForCause`, `SomeoneGetsIn` (tabs spoil each other's cookie, not everybody's) and
`OfferedIsConfigured`.

`LinkedSigner` has the connections of the panel, each of which awaits the wallet, then
the server, and only then signs with its provider and listens to it; the restoring
connection of the page that opens is one of them. Listening never ends, so an event of a
former provider still changes what signs. `SignerStands` is `PanelShowsSigner`,
`SignerIsSelected` and `SignerIsLinked`, each with the one crossing in which it fails
(`overwritten`, `missed`, `unsaved`).

## 3. Runs

| Run | Question | Answer |
|---|---|---|
| `delivery_one_worker` | four kinds of hook, one embedded worker, no faults: is every job accounted for and does the row follow the contract, to its end? | yes |
| `delivery_many_workers` | two workers, one fault anywhere: what still holds? | delivered means accepted, no retry is skipped, billing is bounded, work drains |
| `delivery_terminal_status` | are terminal statuses terminal with two workers? | no |
| `delivery_crash` | does a "retrying" row always have a job? | no, after one crash |
| `verification` | every kind of transaction and claim on chains that move between reads, a balance that moves between nodes, and projects whose requests overlap | SPENDABLE is settled, no false alarm, status is explained; the other adapters' finality and balance checks are worth what is stated; lists and meters agree with what was told |
| `verification_signature` | does every stored verdict verify? | not those of mock adapters |
| `verification_amount` | is the amount shown the amount that arrived? | not when the payment is not the first transfer |
| `keys_rotation` | names, calls, restarts, a crash, a file placed by hand | signatures stay verifiable, revoked keys silent, rotations in force |
| `keys_restart` | does a restart with a new `OTV_KID` rotate? | no, both keys stay active |
| `accounts` | requests over a pool, the memory store, processes that start together, delivery without Redis | an account comes whole and once, ended sessions are not served, every request is answered unless the pool starves, every process comes to serve unless an API meets a race for the data key or a file torn by a kill |
| `clients` | two requests of members; each page of the web application with answers in any order; two sign-ins by one cookie; a linked wallet | what is shown, kept and signed belongs together, except in the overlaps each property names |
| `last_owner` | does a workspace keep an owner? | no: two requests that overlap demote an owner each, of the two there are |

The six violations quote the document they disagree with under "findings" in
`PROJECT.json`.

Many properties of `accounts`, `verification` and `clients` have the form "P unless
O", where O is recorded by a history variable (`raced`, `crossed`, `checksMet`,
`twice`, `lostLate`, `mixedUp`, `clashed`, `unsure`, `stale`, `startedOver`, `forked`,
`spent`, `overtaken`, `late`, `displaced`, `denied`, `missed`, `unsaved`,
`overwritten`), or by the state itself (`Overlooked`, `Overtaken`, `TornByKill`). The
code does let P fail: O is the exact overlap in which it does, and the property says
that nothing else does it.

`AllTypesOK`, `AccountsTypeOK` and `ClientsTypeOK` are conjunctions of the type
invariants of the components in a run, `ConsoleIsCurrent`, `PublicPagesAgree`,
`SessionsHold`, `ForeignEvidenceStands` and `AnswersAgree` of properties that belong
together; each conjunct is a named definition in its component's module.

### Bounds, and why they are enough

* `MaxAttempts = 3` (8 in the code): there is a first, a middle and a last
  attempt, and the retry limit is reached. The theorems hold for every value.
* Two workers and one hook are what the double promotion needs; four kinds of
  hook and one verdict exercise every branch of the dispatch loop. Verdicts share
  nothing but the queue. `InlineDelivery` has four hooks as well, two of them open,
  and one cut.
* `MaxFaults = 1`: one failed call or crash anywhere.
* `Required = 2`, `MaxReorg = 1`, `MaxGrowth = 1`, `MaxHeight = 4`: a block can be
  reorganised before it is read, between reads, and is deep enough to be final or
  not. `SettlementAssumption` (`MaxReorg + MaxGrowth <= Required`) says what the
  confirmations are for: a block that can still be replaced when the adapter
  starts cannot become final before it is done. Without it SPENDABLE would not
  be sound, and no code checks it: it is a demand on the registry's numbers.
* Balances 0 and 1 and amounts 0 to 2 distinguish a gain that equals the transfer
  from one that does not. `AllContents` has a batch that begins with
  somebody else's payment, coin beside somebody else's token, a reverted payment, and
  two items of one collection. `AllClaims` asks for the coin by its symbol and amount,
  an item by its id in place of the amount, an id that none has, and the item that is
  not the first: each fits one of the transactions and fails on others, by asset,
  recipient, amount or id. On a token without ids a claim for an id asks for
  nothing and stands for the plain claim.
* `ForeignChains`: `Needed = 2`, `MaxHead = 4`, `MaxHolding = 3`, payments with
  change before them, a token, and both. `BalanceReads`: two amounts and two moves,
  so that both nodes may answer of different blocks. `ProjectRecords`: three requests,
  so that two store and the third reads between their steps; two projects, a list of
  one, which two verdicts overfill, and one failing statement.
* Key names in directory order, fresh pairs, one crash inside a call and one file
  placed by hand: a rotation to a name before, between or after the others, back to
  an old name, and each order of revoke, rotate and restart.
* `SignIn`: three requests for one address, a pool of two, one failing statement:
  two transactions fill the pool while a third waits, and starve each other.
  `MemoryAccounts`: three visitors, two addresses. `Boot`: two APIs, a worker, two
  migrations, one kill, four data keys.
* `Workspace`: two requests, three users, two organizations, one failure. Two
  requests are what it takes to overtake a read; the theorems hold for any number.
* Pages: two or three requests under way (a lookup, a refresh, a read, a list), two
  tabs, scopes, networks, panels, connections and page mounts; each of these properties
  relates two answers, and a third request covers one that comes between. `AdminLists`
  has two visits and three saves, `DashboardReads` two creations.
* `SingleSignOn`: two sign-ins, two troubles: one spoils the other's cookie while a call
  fails or a page is reloaded. `LinkedSigner`: the restoring connection and two clicks,
  one Unlink, two addresses, one event or failed call.
* `Alike` in `ClientsMC` is a symmetry of permutations of several components at once:
  a pair of `WalletLink` changes places together with pairs of the others. It is sound
  because at any moment all components but one are in an idle state, which no
  permutation changes, and the pairs are interchangeable within their component.

The projects' requests of `verification` are named in the order they are made
(`InOrder`), as nothing tells them apart. `verification` has about 1.1 million distinct
states and `clients` about 0.4 million.

`CHECK_DEADLOCK FALSE` stands where the system may stop: in `verification*.cfg`,
where a request ends with its reply and the chain at its bound; in `keys_*.cfg`,
where a torn file stops the API for good; in `accounts`, `clients` and `last_owner`,
where requests end and none follow.

### Fairness

`WebhookDelivery`: worker and dispatch loops are weakly fair: they are `while` loops
of processes that run. The clock is fair: a delayed job falls due. `Push` is
strongly fair, because Redis serves a command that waits behind BLPOP before the
next BLPOP of that connection, and BLPOP ends within two seconds. Faults and
receivers are not fair: a receiver may refuse for ever.

`SignIn`: each request's next statement is strongly fair: the event loop runs, and
Postgres and the pool serve whoever waits, though others may come between. Requests
need not arrive and statements need not fail. `EveryRequestAnswered` still excepts
`Starved`, since no fairness frees a pool all of whose connections wait for another.

`Boot`: each process's next step is weakly fair: the supervisor restarts what has
ended. Kills are bounded and not fair.

The other modules have safety properties only.

## 4. Proofs

Each proof names an inductive invariant, shows that Init implies it, that every
action keeps it, and that it implies the property.

`WebhookDeliveryProofs` (from the assumptions of `WebhookDelivery`):

* `TypeCorrect`: `TypeOK`, with `Phases` (which variables a worker or a dispatch uses
  in which phase) as the strengthening. It is what keeps a job's attempt number inside
  the backoff table: `Delay` would leave it but for the test in `PostNotConfirmed`,
  and `Phases` carries that test to `Delay`.
* `DeliveredIsSound`, `NoRetryIsSkipped`: from `History`. A job with attempt n is
  backed by POSTs 0 to n-1, wherever a copy of it is, and a worker past its POST is
  backed by that one as well. Jobs come from jobs (`JobsComeFromJobs`), so it does not
  matter how many copies there are.
* `BillingIsBounded`: the number of workers that have an accepted POST and have not
  billed it, plus the bills, never exceeds the accepted POSTs.
* `JobsAreConserved`, `BooksClose` (assuming `Undisturbed`: one worker, no faults; a
  second worker may copy a job while it promotes it, and a crash may lose one): from
  `CustodyInv`, which names the one place of a row's job (list, sorted set, dispatch,
  or the worker's hands) and what the books owe while it is there.
* `RowsFollowContract`: under `Undisturbed` every step is one of `DeliveryContract` or
  changes no row. This is the safety part of `ImplementsContract`.
* `SettledStaysSettled` and `RetriesAreDurable` state what `delivery_terminal_status`
  and `delivery_crash` see violated, under `Undisturbed`: the first because the
  contract never leaves a terminal status, the second from `CustodyInv`. A second
  worker alone can lose a job, without any fault: its late ZREM, after both promoted
  the same job, takes the copy that was put back for the retry.
* `DispatchCoversHooks`: `RowsExist` (whatever will write a row has one to write) and
  `FilterInv` (hooks still to visit have no trace, visited ones the trace their filter
  gives), with any number of workers and faults.
* `InlineRowsAreSettled` (from `TargetsAssumption`): `PlaceInv` ties the row a request
  is at to the attempts it has made, `RowInv` says what lies before and behind it, and
  `BillInv` counts: bills and the rows about to be billed never exceed the delivered
  rows, nor fall below those that nobody works at and nothing cut short.

`IncomingVerificationProofs` (from `BoundAssumption`, `SettlementAssumption`,
`InputAssumption`, `BalanceAssumption`):

* `SpendableSettles`: `IInv` says that while the adapter reads, the block it was told
  of holds the transaction or is so shallow that it cannot be final before the head is
  read (`Shallow`); once it is final, no reorganisation reaches it, so balances read
  later are of the same chain; and each status has established what its check was for.
  What is bought with it is stated of the holding read, id included: it is the moved
  one unless `Overlooked`, and a named amount is the amount, or the id, of the
  transfer.
* `AlarmIsTrue`: without a reorganisation the balances read are those of the block and
  its predecessor (`AlarmOK`), whether or not it is final, in the holding the adapter
  asked for.
* `StatusIsExplained`, `TableCoversPipeline`: `EvidenceOK` gives for each status the
  exact evidence behind it; no two closed statuses share one, and every move is in the
  table of `verdict-schema`.
* `LiveVerdictIsSigned`: only the mark of a mock adapter changes a signed body.
* `AmountIsOfFirst`, `MarkIsAllThatIsAdded`: `VerdictOK` says that from `finalize` on
  nothing a verdict was made of changes, and that its body and the signed one differ
  by the mark of a mock adapter only. They state the exact extent of what
  `verification_amount` and `verification_signature` find: another amount than what
  arrived is shown only if the matched transfer is not the transaction's first and the
  caller named no amount, or named what matched as its token id; and a stored verdict
  that does not verify still has the status, amount and balance delta that were
  signed.
* `VerificationTyped` (`AllTypesOK`): `IInv` has the types of the EVM reads and of the
  verdict, `ForeignTyped` those of the other adapters and of the balance handler,
  `ProjectInv` those of the records of projects.

`SigningKeysProofs` (from the assumption that names are finitely many naturals):
`KeyInv` says that calls write only keys of the Map, that a pair has one name, that
what a call need not write any more is written, that a revoked pair is active
nowhere, that a pair that signed stays under its name in the directory, and that
without a crash or a foreign file one key is active. From it `SignedVerdictsVerify`,
`RevokedIsRetired` and `RotationIsKept`.

`BootProofs`: `FilesInv` (files in order, each recorded after it ran) gives
`ServiceHasSchema`; `KeysInv` (until two APIs race, who is to write the data key found none
and fills the torn file alone, whoever goes on holds the one on disk, and the key file is
torn or wrapped by it) gives `DataKeyIsKept`.

`WorkspaceProofs`: `UnseatedInv` (who was told of the loss owns nothing, and no later
request of theirs passes its first statement) gives `LostOwnershipIsFelt`;
`OverlapInv` (a request nobody has overtaken is about to leave an owner) gives
`LastOwnerFallsToARace`, for any number of users and requests.

`AccountProofs`, over Postgres: `SignInInv` keeps an address to at most one open
transaction (`TransactionInv`: the unique index holds the second one up), ties each
committed account to its whole workspace (`AccountInv`), and says that a closed
session does not come back and a request too late for it does not get past getSession
(`EndedInv`). From it `AccountsComeWhole`, `EndedSessionsStayEnded` and
`PostgresImplementsRegistry`: a commit is the registry's Open, an answer its Confirm
or Refuse, and every other step leaves the registry alone. Over memory: `SeenInv` (a
registration under way was right about the accounts it has seen) gives
`DuplicateTakesOverlap`, and `SessionInv` (a password is verified only of an address
that has an account, and who has a session has finished) gives
`SessionsNameTheirAddress`: what `authenticateUser` and `findOrCreateOidcUser` find is
the first account of the address, and stays it, because accounts are only ever added
at the end. So the second of two accounts that share an address is not lost data but
data nobody reaches: only the registration that made it has a session for it.
`AccountsTyped` adds the types of all four modules; for the inline delivery it needs
`AttemptsInv`, that a request at work on a row is at one of its three attempts.

`ForeignChainsProofs`: `DepthInv` (nothing is settled before the depth is read, and
depth only grows without a fork) gives `SettledIsBuried`, for any depth.
`ShortfallIsExplained` is for any list of payments. What `EventsOf` makes of it is a
function defined by recursion on the index, so its lemmas are an induction on naturals,
done by least counterexample (`Least`, `Climb`): that `Only` keeps the payment's transfers
of a kind (`OnlyKeeps`), and that the amount the adapter names is one of those the
balance grew by (`CreditCoversAmount`). `ShortfallInv` then says that a payment that was
mined is in the recipient's balance until a fork or spending disturbs it. `EvidenceStands`
puts both together. `AnswersHold`, for the records of projects, rests on `ProjectInv`: a
verdict is counted exactly when it is stored, and no two are dated or stored at the same
moment (`Dated`), so that a verdict left out of a list leaves it full
(`LeftOutOfFullList`, by the cardinality of what is listed before it).
`VerifiedWasHeld` rests on `AnswersHeld`: an answer of a node that does not lie is a
balance held since the question, and stays one while the account moves; answers that
agree include such a one.

`ClientProofs`: `VerifiedIsEarned` and `HeldBackIsExplained` are about
`evaluatePayment` on all facts; `OneReviewOneSend` rests on `SendInv` (the first click
of a panel is its only one until a second is noted; "included" is of a nonce spent by
the transaction shown or its replacement); `BrowserSession`'s property is inductive as
it stands, with the types (`ReloadFindsSession`); `BalancesBelong` rests on
`RefreshInv` (the newest refresh reads what is on screen) and `CheckInv` (checks that
never met are at most one). `PhraseFollowsSession` and `TicketsGuardProvider` rest on
`LinkInv`: of the attempts of one page at most one holds the ticket that counts
(`TicketInv`), a pairing that connects has its own provider, and a linked session
listens to the provider that signs for it (`SessionInv`). `Fresh` is not needed: the
theorems hold whichever attempt begins.

`ConsoleStaysCurrent` is two theorems. `LastReadIsShown` rests on `ReadsInv`: reads
are numbered as they are asked for, and where a page cancels all but the last are
cancelled (`LastRead`), and the last is awaited, answered or refused, unless an
earlier answer came over it (`LastAccounted`); pages that cancel create nothing, and
nothing is told of before it is made (`MadeInOrder`); the last read was asked for
after what has been told of, and is this connection's unless it follows a creation of
a former one (`LastIsCurrent`). Creations may overlap, and a search may leave out what
was created: the property says nothing of what a search lists. `SavedListsAreKept`
rests on `ListsInv`: an answer shows itself only on the page that asked
(`AskersShown`), and as long as nothing has clashed storage, the copy of an open page
and the seats a request carries are what was saved, no list is open twice, and one
role is asked for at a time in a scope (`Settled`).

`PagesAgree` is three.
`CheckIsOfVerdict` rests on `PageInv`: the button waits for the one request of the
form, and as long as lookups have not overlapped there is one at most, whose check is
of the verdict shown. `ContractIsOfPlace` is inductive with the types (`FormInv`):
every way a contract gets under another place leaves its mark in `stale`.
`LabIsHonest` rests on `LabInv`: until a run is started over, what is shown and what
is asked for are of the scenario that was chosen, and a lab that says it is running
has a timer or a request to wait for.

`SessionsStand` is three. `ReloadFindsSession`
is above. `SignOnHolds` rests on `SignOnInv` (who is back brings their own cookie
unless another took it, and a code is exchanged twice only by a callback sent twice)
and, for `SomeoneGetsIn`, on `FavouredInv`: as long as nobody is late or denied, one
of those who left for the provider has the cookie, came back with it, or is in.
`SignerHolds` rests on `SignerInv`: what a connection picked is what its wallet has
selected until an event goes by unheard, and is linked once the server has it
(`JoinInv`).

`ClientsTyped` puts the types of the twelve modules together.

Two conventions keep these proofs sound. A sequence is never indexed, in a step for the
SMT solver, beside a function whose domain starts at 0: such steps name what they need of
one of the two and hide the other. And choices between overlapping conditions are
written `IF ... THEN ... ELSE`: of a `CASE` two of whose arms apply TLA+ only says that
it is one of them.

Only model-checked, because out of the prover's reach: liveness (`WorkDrains`,
`EveryRequestAnswered`, `EveryProcessServes`, and the fair part of
`ImplementsContract`, whose safety part is `RowsFollowContract`). Every invariant of a
passing run is a theorem, and so is the action property `AnswersAgree`. The six
statements that the code violates are not, of course; next to each stands a theorem
with the condition under which it holds (`RetriesAreDurable`, `SettledStaysSettled`,
`LiveVerdictIsSigned` and `MarkIsAllThatIsAdded`, `AmountIsOfFirst`, `RotationIsKept`,
`LastOwnerFallsToARace`).

## 5. Plan

Done: the server's state, the records of projects, the adapters, boot, and the stateful
pages of the web application, with the theorems above. What is left, in this order:

1. For several workers, what still bounds the copies of a job and its losses.
2. Decimal amounts of `wallet-core` against a reference definition.
3. Webhooks that other requests create or remove while a dispatch runs.
4. Two requests of one user at once in `SignIn` and `Workspace` together: an
   account that appears while its role changes.

## 6. Not modelled

* Typed clients (`packages/api-client`, `sdk-core`, `sdk-react`, `sdk-flutter`): one
  fetch for each route, no state.
* Of the open-trust demonstration site, all but the linked wallet: its verifier and
  live engine show data generated at random. Static pages are layout.
* Metrics, logging and the OpenAPI document: nothing that is modelled reads them.
* The check of an OIDC or Web3Auth token against its issuer, KMS encryption, password
  hashing, canonical JSON, HMAC and Ed25519 are taken to do what they are for.
* Symbols and decimals of an asset are reduced to whether the claim's label fits; ABI
  decoding, addresses and Solana instructions to the transfers they yield.
* Of `signing_keys`, which boot writes, nothing is read.
