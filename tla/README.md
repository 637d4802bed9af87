# A verification of distributed-ecommerce in TLA+

The repository is a small shop: a gateway in front of four Go services (users,
orders and two replicas of products), each a process of its own that Docker
Compose restarts when it ends. The gateway proxies requests, spreads product
writes over both replicas, reads from one of them round-robin and watches all
four services with a heartbeat. This directory models what is hard about it,
checks the models with TLC on small instances, and proves what matters most for
all instances with TLAPS.

## The system

| Component | State | Operations | Talks to | Hard because |
|---|---|---|---|---|
| Replica manager, `internal/gateway/replica.go` | a round-robin counter; per write a channel of outcomes | `HandleWrite`, `callReplicaForWrite`, `HandleRead`, `forwardSingleRequest` | both product services over HTTPS; the heartbeat's `IsAvailable` | one goroutine per replica and write; no order between writes, no rollback, no retry; time-outs after which the replica still acts |
| Heartbeat, `internal/gateway/heartbeat.go` | per service: failure count, availability; event ring | `Run`, `tickOnce`, the probes, `recordProbeOutcome`, `MarkSyntheticOutage`, `Snapshot` | `GET /health` of every service | parallel probes, outcomes recorded after the service has changed again |
| Event ring, `events.go` | 50 slots, write index, total | `Push`, `Snapshot` | heartbeat, dashboard | wrap-around |
| Proxy and dashboard endpoints, `proxy.go`, `dashboard.go`, `server.go` | none | `HandlerFor`, status, toggle proxy | users, orders, kill switches | availability checked before the call |
| Product store, `internal/products/store.go` | map and `highestID` under one mutex; `products.json` and its `.tmp` | `OpenStore`, `SeedDefaultsIfEmpty`, `Create`, `DecrementStock`, `ListAll` | the file system | crash between two steps, rollback on disk errors |
| Product handlers and routes, `handlers.go`, `server.go`, `cmd/products/main.go` | none | list, get, create, decrement, health, start-up | kill switch, authentication, store | order of the checks; start-up after a crash |
| Kill switch and TLS server, `internal/killswitch`, `internal/tlsserver` | one atomic flag; a pending shutdown | toggle, middleware, graceful shutdown | Compose | a shutdown 500 ms after the toggle, draining, restart |
| Orders, `internal/orders` | SQLite table | place, list | authentication | second half of a purchase, not idempotent |
| Users, `internal/users` | SQLite table with unique e-mail | register, login, get, default accounts | authentication | racing registrations, crash during seeding |
| Authentication, `internal/authentication` | none | sign and verify tokens, role check | | expiry between two checks |
| Pages, `internal/gateway/web` | what the browser shows | `buyProduct`, toggle button, polling | gateway | decisions on a stale status; a purchase is two requests |

What makes each correct:

* *Replica manager*: what is acknowledged is at both replicas and visible to
  every later read; a replica's stock accounts for the sales; only overlap or a
  partial failure may make replicas differ; every request is answered.
* *Store*: the file can always be decoded; a write is atomic and, once
  answered with 2xx, durable; nobody sees a change that may be rolled back; the
  lock is always released.
* *Heartbeat and ring*: a service is marked down by failures in a row only; its
  status follows its health; the log agrees with the status; the ring shows the
  end of the log.
* *Life cycle*: no toggle is lost; every outage that a button starts ends, and the
  gateway notices.
* *Users*: one account per address; the default accounts whenever the service
  serves; who is told 201 can log in; a row and its id stay its owner's.
* *Purchases and orders*: no order without a unit sold at both replicas; what the
  page confirms is ordered, once, and listed. Orders should belong to who pressed
  the button and be shown to nobody else, which the page does not achieve (below).
* *Gateway as a whole*: one replica that stays up is enough to read, once the
  availability has caught up with the health.

## The modules

`Catalogue` holds the pure part: what one product service answers to a write and
what that does to its catalogue, as operators. The two modules that follow
share it.

`ProductReplicas` is the gateway's replica manager with the services behind it.

| Code | Model |
|---|---|
| `HandleWrite` up to the goroutines | `AcceptWrite`, `RefuseBody` |
| `callReplicaForWrite`: availability check, build error | `SkipReplica`; otherwise `SendCall` |
| ... `Do` and `ReadAll` return / fail | `ReceiveAnswer` / `CallFails` |
| `outcomeChannel`, `collectedOutcomes` | `outcome`, `collected`, `first` (`collectedOutcomes[0]`) |
| `anyOutcomeFailed` and the response | `AnyOutcomeFailed`, `ReplyTo`, `Reply` |
| handlers of `internal/products`, at each replica | `ServeWrite`, `RefuseWrite` |
| `HandleRead`: counter, loop, 503 | `StartRead`, `SkipCandidate`, `TakeCandidate`, `NoCandidateLeft` |
| `forwardSingleRequest` | `ServeRead`, `ReadFails` |
| `isReplicaAvailable` | `available`, which `AvailabilityChanges` flips at will (in `Gateway` the heartbeat decides) |
| a new gateway process | `GatewayRestarts` |

A call that ends without a response leaves the request either lost or still on
its way (`CallFails` keeps `"sent"`), so the replica may carry a write out after
the client was told 500, and after the gateway has restarted. A cancelled client
context has the same effect as a time-out and is the same action. `applied`,
`overlapped` and two fields of a read's record are histories, read by properties
only. Answers a service may give for reasons outside the request (kill switch
503, expired token 401, failed persist 500) are one refusal, 503, because
`HandleWrite` does not tell them apart. A body that is too large (413) counts as
one that cannot be read (400). `GET /products/{id}` reads an element of what
the listing reads and has no action of its own. POST is the only write method the
services route; they answer others 405, again a refusal. The round-robin
counter is kept modulo the number of replicas, which is all the code uses of it.
Go's transport does not send a POST twice, so a call reaches a replica at most once.

`ReplicatedCatalogue` is what remains of all this for whoever calls the gateway:
a write reaches each replica at most once, replica by replica and possibly after
its client has had an answer; success is told only when every replica has carried
it out; failure promises nothing, not even that the write will not happen later.
`ProductReplicas` implements it (`ImplementsReplicatedCatalogue`): a write's
verdict is its reply (`VerdictOn`), the replicas it may still reach are those whose
goroutine has not decided or whose call is on its way (`MayReach`), and those that
accepted it are in `applied` (`AppliedAt`). Reads and the heartbeat are stuttering
steps.

`ProductStore` is one product service in detail. `lock` and `stage` are the
holder of `store.mutex` and how far its `persistLocked` is; one is taken exactly
while the other runs (`TypeOK`). `loadFromDisk` would take an empty `products.json`
for an empty catalogue, but the file is only ever replaced by a written one, so
that this branch has no state here. `TruncateTemporary`,
`FillTemporary` and `RenameTemporary` are the two steps of `os.WriteFile` and
`os.Rename`; `PersistFails` is an error of any of them with the rollback of
`Create` or `DecrementStock`; `CreateFile`, `LoadFile`, `CreateSeed` and
`StartServing` are `OpenStore`, `SeedDefaultsIfEmpty` and `main`; `Crash` may
come anywhere. A write that waits for the lock has not done anything yet and
stays `"new"`. Crashes are of the process: the loss of power, against which the
missing `fsync` would not help, is not modelled.

`DurableCatalogue` is the abstract service: every write changes the catalogue in
one step or not at all, answers 2xx exactly then, and survives crashes.
`ProductStore` implements it with the file's contents as the catalogue
(`ImplementsDurableCatalogue`: the rename is the step that counts). It is this
atomic service that `ProductReplicas` places behind the gateway.

`EventRing` holds the ring's operators; `Heartbeat` extends it with the
registry. `ProbeEnds` is `performSingleProbe`, `RecordSuccess` and
`RecordFailure` are `recordProbeOutcome`, and between the two the health of the
service may change. `running` is `loopContext`; a round may still begin after
its cancellation, because `select` chooses freely among what is ready, and its
probes then fail. `SyntheticOutage` is `MarkSyntheticOutage`, used by tests.

`Lifecycle` is a service between the press of a button and its next process, and
instantiates `Heartbeat` with the health that process and switch make
(`Healthy`) in place of the free variable, so what the heartbeat sees is what the
kill switch does. `Press` and `CallFails` are the toggle proxy of the gateway,
`Load` and `CompareAndSwap` the loop of `Toggle`, `Finish` the rest of
`ToggleHandler`, `CallbackFires` the callback of `cmd/*/main.go` after its 500 ms,
`Exit` the return of `ListenAndServe` (all handlers done, or `shutdownGracePeriod`
over, which cuts off those that are not), `Restart` Compose. Start-up proper,
which `ProductStore` and `Users` detail, belongs to `"exited"`. `Fetch` and
`Render` are a dashboard's poll and `renderStatus`: `fetched` holds the answers
that are on their way, which may be rendered in any order, and `shown` what the
buttons are labelled with. `toggleService` sends the same toggle whatever its
button says, so a press does not depend on `shown`; that a press on an old
"Revive" kills a service which Compose has restarted is therefore a legal
behaviour, and what is checked is that it ends and that the page catches up.

`Gateway` composes the reads of `ProductReplicas` with `Heartbeat`, both
instantiated: the registry's `available` is the one variable they share, as
`NewServer` passes the registry to the replica manager. A read that is sent to a
replica succeeds only if the replica is healthy by then (`ServeRead`,
`ReadFails`), requests keep coming (`NextRequest`), and a restart renews both
parts. `reliable` and `shaken` are histories of a read: which replicas have been
up and known to be up since it began, and whether anything has happened that
could have deceived it.

`Users` is the users service over its table. `accounts` is the table, a row's
position its id; a row is inserted by one statement that the unique index
enables (`Insert`), and is durable then. `EnsureUser` is one turn of
`EnsureDefaultAccountsExist`, which looks before it inserts; it runs before
anything is served, so that nothing races with it. A registration is
`BeginRegistration` (decoding, validation, bcrypt), `CreateUser` or
`CreateUserFails`, `ConfirmRegistration` (201, or 500 if `LastInsertId` fails, or a
client that is gone); a login is `BeginLogin`, then
`SignToken` or `RefuseLogin`; `AskForProfile` is `GET /users/{userId}` with the
token the login was given. An e-mail is an address with a spelling, because
`normaliseEmail` and `COLLATE NOCASE` are about the difference; SQLite folds the
case of ASCII letters only, `strings.ToLower` of all, and addresses outside ASCII
are not told apart here. The e-mails of the default accounts come from the
environment as they are and are not normalised (the instance spells one in mixed
case); they are the same at every start.

`Checkout` is the storefront's purchase across services. It extends
`ReplicatedCatalogue`, of which each sale is a write (`SaleStep`), and uses the
operators of `Orders` for the other half. `Press`, `SaleConfirmed`,
`OrderConfirmed` and the two `...Fails` are `buyProduct` at its two `await`s;
`PlaceOrder` and `RefuseOrder` are the proxy and `writePlaceOrderHandler`;
`LogIn`, `LogOut` and `Reload` change the session that a later call reads. A sale
or an order that the page has given up on may still take place. `RefreshOrders`,
`ListOrders` and `ShowOrders` are `refreshOrders`: a call, its answer by the orders
service (or none), and the answer on the page. `lists` holds the answers on their
way, which may be shown in any order and under any session, and `shown` what "Meus
pedidos" holds, which only an answer or `Reload` changes. So the page may show an
old list after a new one; `ListsShowConfirmedOrders` is about each answer, and
`MyOrdersAreMine`, which fails, about what is on the page.
`orders` holds rows in the order of their ids; an order is durable with its
`INSERT`. Neither restarts of the orders service nor its kill switch add anything
to a lost call and a refusal, which `RefuseOrder` and `OrderFails` are.

`MCProductReplicas`, `MCProductStore`, `MCUsers` and `MCCheckout` give the
instances for TLC. The modules named `..._proofs` hold the proofs.

## What is checked

| Run | Instance | Shows |
|---|---|---|
| `replicas_writes` | 2 replicas, 2 writes out of creation, sale of the last unit, sale of a product just created | `AcknowledgedCreationsAreEverywhere`, `StockAccountsForSales`, `SerialWritesKeepReplicasIdentical`, `ImplementsReplicatedCatalogue` |
| `replicas_reads` | 1 write of every kind the handlers accept or refuse, 1 read | `ReadsShowAcknowledgedWrites`, `RequestsAreAnswered` |
| `store` | 3 writes, 1 reader, 2 seeds | `FileIsNeverTorn`, `UnlockedMemoryIsOnDisk`, `ImplementsDurableCatalogue`, `LockIsReleased` |
| `heartbeat` | 2 services, threshold 2, ring of 2, 4 disturbances | `RingShowsRecentEvents`, `LogMatchesStatus`, `DownOnlyAfterFailuresInARow`, `StatusFollowsHealth` |
| `lifecycle` | 1 service, 3 presses of its button, 1 lost probe or crash, 1 dashboard | `NoToggleIsLost`, `KilledServicesAreDoomed`, `KilledServicesComeBack`, `ShopRecovers` |
| `gateway` | 2 replicas, 1 client that reads again and again, 2 changes of health or lost calls | `OneReplicaIsEnough`, `ReadsSettle` |
| `users` | 2 registrations, 1 login, 2 default accounts, 2 crashes; one mailbox in two spellings and with two passwords, and an administrator's | `OneAccountPerAddress`, `ServesWithDefaultAccounts`, `RegisteredCanLogIn`, `ProfileIsTheOwners`, `AccountsAreKept`, `ServesAgain` |
| `checkout` | 2 purchases of one product with 2 units, 2 users on one page | `OrdersAreBackedBySales`, `ConfirmedPurchasesAreOrdered`, `ListsShowConfirmedOrders` |

Each passing run but `replicas_reads` also checks its module's `TypeOK`.

Some of what the runs show is less than a reader of the documents may expect.
A write that was acknowledged is seen by every later read; one that is under way
or has failed may be seen by one read and missed by the next, since reads take
turns. `README_execucao.md:236` says that reads go on ("as leituras continuam")
when a replica is killed: until the heartbeat has seen two failures, every other
read is answered 502, because `HandleRead` does not try the other replica
(`OneReplicaIsEnough` excepts just that, `ReadsSettle` says that it ends). And
since `HandleRead` looks at one replica after the other, it may answer 503 when
they take turns in being down, although there was no moment without an available
one; `OneReplicaIsEnough` therefore asks for one replica that was up throughout.
A purchase whose order fails has lost its unit: `OrdersAreBackedBySales` is an
inequality for that reason.

Bounds. The code fixes two replicas. Two writes (registrations, purchases) are what a race needs, and the
last unit of a product is where a race shows. One seed stands for any product that was there before; two seeds
put a crash between them. A ring of two wraps after two events; four
disturbances bring a service down, up and down again. `MaxFailures` caps a
counter that only the comparison with the threshold reads. `MaxDisturbances`
also makes the surroundings settle, without which `StatusFollowsHealth` would
promise nothing. One purchase is enough for
the counterexample of the page. Services do not share state in `Lifecycle`,
so one is enough; its answers on their way to the dashboard are kept as a set, so
that equal ones count once; three presses are a toggle, its undoing and one that races with
either. `replicas_reads` needs one write only, since a read that misses an
acknowledged write misses a single one, and the theorem covers the rest; two
crashes interrupt the seeding of `Users` before and after its first account;
`Registrations`, `Logins` and `MaxCrashes` bound what its clients and its host do.
In `Gateway` two disturbances let one replica die and a call get lost, or both die,
or one die and recover, at every moment of a read. Where writes are interchangeable they are a symmetry set; runs with
liveness use none. `CHECK_DEADLOCK FALSE` is set where all clients may have
finished; the heartbeat runs for ever and is checked for deadlock.

Fairness. In `ProductReplicas`: the goroutines of `HandleWrite` run and the
client's time-out (`NewServer` sets 10 seconds unless another is configured)
ends every call; nothing is assumed of replicas. In `ProductStore`: a goroutine
goes on, a system call returns, Compose (`restart: unless-stopped`) starts the
process again; failures and clients are not fair. In `Heartbeat`: the ticker
ticks, `healthProbeTimeout` ends every probe. In
`Lifecycle`: handlers run, the grace periods pass, Compose restarts whatever
exits, and the dashboard polls (`setInterval`) and renders what it gets; nobody
need press a button. `Gateway` joins the heartbeat's fairness with that of
`HandleRead`'s goroutines, whose calls the client's time-out ends. In `Users`:
Compose starts the process again and `main` runs on. `Checkout` has none:
its calls may always fail, so that all a purchase needs to end is that a connection
is given up at last, and nothing of the code is in that.

## Where code and documents disagree

Four runs end in a counterexample that TLC finds.

* `finding_any_answer`: two concurrent creations are accepted by both replicas
  under different identifiers, so the responses differ, while
  `replica.go:118` says that any of them will do. From then on an identifier
  names different products at the two replicas, and a sale is booked on both.
* `finding_partial_seed`: a crash between two seeds leaves a catalogue that is
  never completed (`store.go:181`), although `README_execucao.md:129` promises
  five products.
* `finding_revive`: a service that is killed and revived within 500 ms stops all
  the same, because the callback does not look at the switch again
  (`cmd/products/main.go:49`, and alike in orders and users), although
  `killswitch.go:56` keeps the toggle reachable so that one can always go back.
* `finding_my_orders`: the page reads the token again for each call. A user who
  presses the button and logs out before the sale is answered leaves the order to
  whoever logs in by then (`index.html:517`), and it appears in that user's "Meus
  pedidos", although `README_execucao.md:143` says that this shows the history of
  the user who is logged in, and `orders/handlers.go:14` that nobody can create an
  order in the name of another one. Keeping the token of the press would not be
  enough: the list is not emptied at logout, and an answer is rendered whoever it
  was for (`index.html:533`). The new session's own call usually corrects that, but
  when it fails, or the old answer comes last, the page stays on the orders of
  another account.

One more needs no model: `HandleWrite` answers 500 whenever an outcome is not 2xx
(`replica.go:246`), so a creation that both replicas refuse with 403 ends in 500,
where `README_execucao.md:205` announces 403 and `httpjson.go:19` says that the
gateway passes errors on unchanged.

## What is proved

`Catalogue_proofs` holds the lemmas about what a write does to a catalogue, which
the proofs of `ProductReplicas` and of `Checkout` share.

`ProductReplicas_proofs` proves, for any number of replicas, any finite set of
writes, any reads, requests and initial catalogue (the four named `ASSUME`s of
`ProductReplicas`):

* `TypeCorrect`: `Spec => []TypeOK`, stock never negative included;
* `AcknowledgedCreations`: `Spec => []AcknowledgedCreationsAreEverywhere`;
* `StockAccounts`: `Spec => []StockAccountsForSales`;
* `ReadsShowAcknowledged`: `Spec => []ReadsShowAcknowledgedWrites`;
* `SerialWritesAgree`: `Spec => []SerialWritesKeepReplicasIdentical`;
* `ReplicatedWrite`: `Spec => ImplementsReplicatedCatalogue`.

None of the middle four is inductive. The invariant `IInv` adds the chain along
which a success travels: a 2xx on its way from a replica, or delivered to
`HandleWrite`, comes from a replica that has applied the write
(`OutcomesAreTrue`); hence so does an acknowledgement, from every replica
(`AcknowledgedIsApplied`); and each catalogue is exactly its history, a created
product listed once, each unit missing from a stock one sale applied
(`CataloguesAreRecorded`). The last part needs the cardinality lemmas on sales
and the lemmas on `Create` and `DecrementStock`; it also needs that a call is
handled at most once, which the states of `call` give. For reads, `RInv` says
that what a read has seen acknowledged when it began is acknowledged, and that
what it was answered shows it: acknowledgements are never withdrawn
(`AcknowledgedGrows`), and what a replica holds shows them all
(`ReplicaShowsAcknowledged`).

For `SerialWritesAgree` the property says nothing while one write is on its way
from replica to replica, so it cannot be carried from step to step alone.
`SerialInv` fills the gap: as long as no two writes have overlapped, at most one
write is active (`OneAtATime`), and either some replica has missed a write for
good, or any two replicas hold one catalogue but for the write that is under way,
of which one of them may be ahead (`InStep`). Nothing about the order of writes is
needed, because two catalogues that are equal before a write are equal after it.

For the refinement, each action of `ProductReplicas` is shown to be one action of the abstract write or
a stuttering step (`AcceptBegins`, `RefusalFails`, `ReplyDecides`, `ServeApplies`,
`CallsMiss`, `QuietCalls`, `RestartAborts`, `Stutters`). That an acknowledgement is
legal rests on `OutcomesAreTrue`; that a reply leaves no goroutine which has not
made its call rests on one more invariant (`CollectedInv`).

`Checkout_proofs` proves, for any replicas, accounts, catalogue and any finite set
of presses of the button (the four named `ASSUME`s of `Checkout`):

* `CheckoutTypeCorrect`: `Spec => []TypeOK`;
* `OrdersBacked`: `Spec => []OrdersAreBackedBySales`;
* `ConfirmedAreOrdered`: `Spec => []ConfirmedPurchasesAreOrdered`;
* `ListsShowConfirmed`: `Spec => []ListsShowConfirmedOrders`.

The invariant has one half per service. `SaleInv` and `StockInv`: each replica
carries a sale out at most once, and its stock is what the sales have left.
`CallInv` and `RowInv`: an order call is made only after its sale was
acknowledged, and each row of the orders table is of one such call. The two meet
in `OrdersHaveSales`, where the rows of a product map injectively to the sales of
it at any replica. `ListInv` says that what was confirmed when a list was asked
for is in the table, where it stays (`OrdersStay`), so that the answer may be made
at any later moment. That a sale is what `ReplicatedCatalogue` says is the
refinement theorem above.

`Users_proofs` proves, for any registrations, logins, crashes, forms and default
accounts (the three named `ASSUME`s of `Users`):

* `UsersTypeCorrect`: `Spec => []TypeOK`;
* `AddressesDiffer`: `Spec => []OneAccountPerAddress`, from the type and the index;
* `DefaultsAreServed`: `Spec => []ServesWithDefaultAccounts`;
* `RowsAreKept`: `Spec => AccountsAreKept`;
* `RegisteredLogIn`: `Spec => []RegisteredCanLogIn`;
* `ProfilesAreTheOwners`: `Spec => []ProfileIsTheOwners`.

`ServesWithDefaultAccounts` is not inductive, and is not even true of every table:
an account that is found under a default's address is the default account only
because nobody else can have registered it. The invariant `SeedInv` says
that until the default accounts are complete, the process has never served and the
table holds nothing else, and that those `EnsureUser` has passed are there. For `RegisteredLogIn` a
registration that is confirmed has a row with its address and password, which
rows being kept preserves; a 401 then contradicts `OneAccountPerAddress`.
`ProfileIsTheOwners` speaks of the answer to `GET /users/{userId}` only, long after
the token was signed: `TokenInv` adds that the row a token names exists and has the
address that was logged in with, which holds across restarts because rows are kept.

`Lifecycle_proofs` proves, for any services and any finite set of presses:

* `TogglesCount`: `Spec => []NoToggleIsLost`;
* `KilledAreDoomed`: `Spec => []KilledServicesAreDoomed`;
* `LifecycleTypeCorrect`: `Spec => []TypeOK`.

The first two and the types they need (`SwitchTypeOK`) are inductive together: a toggle
succeeds only on the value it has loaded, and between a toggle and the
callback it starts stands the handler, `"toggled"`, which only the end of the
process can stop. The heartbeat's steps leave services and clicks alone
(`OnlyOwnSteps`) and drop out, and so do the dashboard's.

`TypeOK` bounds `shutdowns` and `toggles` by the number of clicks, which does not
follow from itself: `ClicksCount` says that a service has at most as many shutdowns
waiting as clicks on it are over, and at most as many toggles as clicks on it have
toggled. The end of a process sets the one to zero and only adds to the other
side. The heartbeat's types come from `Heartbeat_proofs`, of which `Watched` is an
instance.

`ProductStore_proofs` proves, for any writes,
readers, requests and default catalogue (the two named `ASSUME`s of `ProductStore`):

* `StoreTypeCorrect`: `Spec => []TypeOK`;
* `FileIsWhole`: `Spec => []FileIsNeverTorn`;
* `UnlockedIsOnDisk`: `Spec => []UnlockedMemoryIsOnDisk`;
* `DurableStore`: `Spec => ImplementsDurableCatalogue`.

The invariant has four parts beside the types. `FilesInv`: the file is absent or
whole, and a temporary file that is about to be renamed is the map. `LockInv`: who
holds the lock, and that only its holder is in the middle of anything. `StartInv`:
what start-up has created is a beginning of the default catalogue, the file at most
one product behind the map. `ServingInv`: while a write is busy, the file is the
catalogue it has found and the map what it makes of that, so that undoing it
restores what the file holds (`UndoRestores`). In the refinement the rename is the
step that counts (`RenameServes`, `RenameSeeds`), a crash loses the calls under way
and nothing else (`CrashLoses`), a listing reads what is on disk (`ListReads`), and
everything else stutters; `CallOf` and `AnswerTo` are the mapping of a call.

`Heartbeat_proofs` proves, for any services, threshold, capacity of the ring and
number of disturbances (the named `ASSUME`s of `EventRing` and `Heartbeat`):

* `HeartbeatTypeCorrect`: `Spec => []TypeOK`;
* `RingShowsLatest`: `Spec => []RingShowsRecentEvents`;
* `LogIsTrue`: `Spec => []LogMatchesStatus`;
* `DownAfterFailures`: `Spec => DownOnlyAfterFailuresInARow`.

`RingHolds` relates the ring to the whole log, `Snapshot` or not: the event that is
k events old lies in slot `nextWriteIndex - 1 - k`, modulo the capacity, as long as
k is below it; one `Push` moves each event one further and overwrites the oldest
(`PushKeepsLatest`). `LogMatchesStatus` is inductive by itself once `UpAfter` says
what the first n events of the log make of a service. `CountedFailures` ties
`consecutiveFailures` to the outcomes it has counted: they are the last ones, and
all failures.

`Gateway_proofs` proves, for any number of replicas and reads and all constants of
the heartbeat (the two named `ASSUME`s of `Gateway`):

* `GatewayTypeCorrect`: `Spec => []TypeOK`;
* `OneIsEnough`: `Spec => []OneReplicaIsEnough`.

What concerns one component alone is taken from its own proofs, instantiated
(`Watched`, `Served`): a step of the composition is a step of `Heartbeat`, or one of
`ProductReplicas`, or leaves it alone. `ReadIsWatched` is the invariant of one read:
the candidates the loop has passed by were not reliable; a read under way is
shaken as soon as an available replica is ill; hence one that finds its replica ill,
or no candidate at all, has its excuse. The last case needs that the loop's `%`
comes past every replica (`EveryReplicaIsACandidate`).

What the proofs have changed in the models. `GetByID` in `Users` was a `CASE` with
overlapping guards, which is no sequence of tests: TLC takes the first that is true,
the logic any; the attempt to prove `ProfileIsTheOwners` failed on it, and the
guards are disjoint now. `LogMatchesStatus` and the rows `ListByUserID` returns are
stated without a recursive selection from a sequence (`UpAfter`; the ids of the
rows, in whose order the query returns them). The constants of `Gateway` and
`Lifecycle` have got the assumptions that the modules they instantiate make of theirs.

Every safety property of a passing run, type correctness, action properties and
refinements included, is thus a theorem. Model-checked only is liveness under
fairness, which is out of the prover's reach: `RequestsAreAnswered`,
`LockIsReleased`, `StatusFollowsHealth`, `KilledServicesComeBack`, `ShopRecovers`,
`ServesAgain` and `ReadsSettle`.

## Plan

Done, in this order: `Catalogue` and `ProductReplicas` with proofs;
`DurableCatalogue` and `ProductStore`; `EventRing` and `Heartbeat`; `Lifecycle`
with the dashboard; `ReplicatedCatalogue`, `Orders` and `Checkout`
with proofs; `Users` with proofs; `Gateway`; the refinement of `ReplicatedCatalogue`;
the proofs of `ProductStore` with its refinement, of `Heartbeat` and of `Gateway`.

Theorems to come: that `Lifecycle` and `Gateway`, which use `Heartbeat` as it is,
keep its promises about the ring and the log in their own surroundings; safety
halves of the liveness properties, such as that a held lock always leaves its holder
a step to take.

## Not modelled

Hashing and signing, SQL, JSON and HTML, TLS handshakes, header copying, build and
certificates: libraries or presentation, without state of the program's own.
`estoque.html` posts creations that `ProductReplicas` has anyway. `CountUsers` and
`UpsertFromReplication` have no caller. Loss of power, as opposed to the end of a
process, is left out throughout. Tokens expire after a time the models do not
measure: expiry is one of the refusals that may come at any moment.
