# booking-engine: a TLA+ model

The repository is a small Revel (Go) web service that sells cinema seats. Seats
live in a Postgres table and are cached in Redis; blocking a seat happens in
Redis only, confirming it writes the table and then Redis. Everything under
`src/src/booking-engine` is the program; the rest of the tree is vendored. Of the
vendored code the connection pool (vitess `ResourcePool`) carries state the
program's correctness hangs on, so it is modelled too, as are the corners of redigo,
gorp and pq where their behaviour under failures or races decides what the program
does.

## 1. Inventory

| Part | State | Operations | Hard behaviour |
|---|---|---|---|
| Connection pool, `vitess/go/pools/resource_pool.go` | a buffered channel of wrappers, a capacity, an idle timeout | `Get`, `TryGet`, `Put`, `SetCapacity`, `Close`, `SetIdleTimeout` | receives and sends interleave with resizing; the factory fails half-way; `Put` panics on a full channel |
| Seat operations, `helpers/redis_helper.go` | pooled connections, one unpooled global connection `c`, the seat keys in Redis | `BlockSeat`, `ConfirmSeat`, `LoadSeatsIntoRedis`, `LoadSessionIntoRedis`, `GetConnection`, `ReturnConnection` | WATCH/MULTI/EXEC interleaved between requests, reused connections, I/O errors between two commands |
| Seat model, `models/seat.go` | rows of `seats` | `Block`, `Confirm`, `LoadIntoRedis`, `LoadSetsIntoRedis` | select-then-update without a transaction; a stale snapshot written over newer statuses; a goroutine feeding a channel |
| Availability, `models/session.go` | key list `session-<id>` in Redis | `Availability` | two reads that are not atomic and race with `LoadSets`; a list stored in Go's `[a b]` format and parsed back |
| Seeding, `controllers/seed_controller.go` | rows of four tables | `Seed` | goroutines still inserting after the answer, over one shared `DbMap`; failed inserts that go on with id 0; inserts sent twice |
| Database helper, `helpers/db_helper.go` | globals `dbcon`, `err` | `GetDbMap` | unsynchronised lazy initialisation |
| Controllers, routes, filters | none | map HTTP to the models; `PanicFilter` turns a panic into a 500 | a panic leaves pool and Redis as they are; one in a goroutine of the program's own ends the process |
| redigo, Redis, Postgres, gorp, revel | external or vendored | | |

How they interact: a controller calls a model, the model calls the helpers in the
same goroutine; `BlockSeat`, `ConfirmSeat`, `LoadSessionIntoRedis` and
`Availability` share the pool; all of them and `LoadSeatsIntoRedis` share the seat
keys in Redis; `LoadSets` writes the seat lists that `Availability` reads; `Confirm`,
`Load`, `LoadSets` and `Seed` share the tables and the handle `GetDbMap` opens. `LoadSets`
and `Seed` start goroutines of their own. There is no lock anywhere:
the pool's channel and Redis' transactions are the only synchronisation.

What makes each part correct: the pool never hands a resource to two goroutines
and never loses or invents a slot; a seat goes from free to blocked to confirmed
by single requests, and the answer a client gets agrees with it; the cache agrees
with the table up to the holds; loads terminate; a seat list names seats that exist and
is read back as it was written; a seed inserts every seat once. The hazards, each at its line,
are in `PROJECT.json`.

## 2. Modules

| Module | Models |
|---|---|
| `ResourcePool` | the pool: one action per channel operation and per outcome of the factory; `PoolTypeOK`, `Exclusive` |
| `PoolContract` | goroutines that use the pool as its comments prescribe; conservation of slots, panics, closing, liveness |
| `SeatCache` | abstract: the status of each seat, with atomic Block, Confirm and Load |
| `RedisHelper` | `redis_helper.go` on top of `ResourcePool`: requests, connections, the Redis server, failures |
| `Booking` | `seat.go`, the seat controller, `DumpSeats` and the loading half of `redis_helper.go`, over the table and `SeatCache` |
| `Sessions` | the seat lists: `LoadSets` with its goroutine and channel, `LoadSessionIntoRedis` and `Availability`, over `ResourcePool` |
| `Database` | `db_helper.go`: the handle and its limits |
| `Seed` | the seed controller and its goroutines over `Database`, gorp's `Insert` and pq |
| `MCPool`, `MCRedis`, `MCBooking`, `MCSessions`, `MCSeed` | instances for TLC (symmetry and two small databases; the bounds are in the `.cfg` files) |
| `ResourcePoolProofs`, `PoolContractProofs`, `RedisHelperProofs`, `RedisConnectionProofs`, `BookingProofs`, `SeatListProofs`, `SessionsProofs`, `SeedProofs` | lemmas and theorems |

### ResourcePool

`resources` is the channel, a sequence of wrappers; a wrapper is an open resource,
`NoRes` (Go's nil) or `BadRes` (what the factory returned beside an error).
`call[p]` says where goroutine `p` is inside a pool call and `held[p]` what it took
out of the channel. `get` is split where other goroutines can come in between: the
receive (`Receive`, `TryGet`, `ReceiveClosed`), the expiry (`Expire`), the factory
(`FactoryOk`, `FactoryFail`), the send after a failure (`SendBack`). `SetCapacity`
is the compare-and-swap (one step: the loop takes effect at the successful swap),
then one `Shrink` or `Grow` per turn of its loop, then `ResizeDone`, which closes
the channel if the capacity is 0. A `Put` that finds the channel full and any send
to a closed channel panic (`PutPanic`, `SendBackPanic`, `GrowPanic`). Time is abstracted: while the
idle timeout is positive a received resource may or may not have expired. The wait
statistics are write-only and left out.

### RedisHelper

A client `p` is the goroutine of an HTTP request; `pc[p]` is the next Redis command,
`op[p]` block or confirm, `key[p]` the seat, `res[p]` the result on its way to the
controller. Every `c.Do` is one step. `alive`, `watched`, `dirty`, `multi` and
`queued` are what redigo and the server keep per connection. The actions, in the
order of the code: `Request` (enters `GetConnection`), `TakeWrapper` and `Unwrap`
(`pool.Get`, with `Dial` for the factory), `Exists`, `Watch`, `Get`, `Multi`, `Set`,
`Exec` (`ExecCommit`, `ExecAbort`, `ExecBroken`, `ExecReplyLost`),
`ReturnConnection` (the deferred `pool.Put`). `ConfirmSeat` is the same without
`EXISTS` and from blocked to confirmed. `LoadSeatsIntoRedis` is a plain SET over the
global connection, whose states are `loadConn`; loads do not race here, that is in `Booking`.

Failures: `Break` ends a pooled connection at any time, after which redigo fails
every command on it; an EXEC may take effect and its reply be lost; a dial may fail,
and then the factory returns `ResourceConn{nil}`, which is not nil, so the pool keeps
it once it has been `Put` (`NilConn`: the first command on it panics; `CloseNilConn`:
so does closing it when it expires, inside `get`, with the wrapper already taken).
`Recover` is revel's `PanicFilter`.

The Redis server is external. Assumed of it: commands are atomic; a write to a key
marks the connections that watch it; EXEC on a marked connection does nothing and
answers nil; EXEC and the end of a connection drop watches and queue. Error replies
of a healthy server (out of memory, wrong type) are not modelled.

`committed` and `winner` are history variables: whether the request's EXEC wrote,
and whose block of a seat stands.

### Booking

`Booking` sits on top of `SeatCache`: since `RedisHelper` implements it, a `BlockSeat`
or `ConfirmSeat` is here one step of `SeatCache`, or no step, with any of the answers
`RedisHelper` can give (ok for a refused EXEC, ko for a lost reply, a panic of the
pool). `db` is the table (`none`: no such row), `cache` the statuses in Redis. There
are two kinds of keys, as in the code: `CacheKey` with a dash, which loads write and
clients name, and `ConfirmKey` without, which `Confirm` passes to `ConfirmSeat`.

A request is `Block`, `Respond`, or `StartConfirm`, `Select`, `Update`,
`ConfirmCache`, `Respond`; the select, the update and the Redis call are three steps,
and a statement may fail with or without its effect. `ConfirmMayFail` is FALSE only in
`okcache`, so that the run cannot blame a failure. A loader takes a snapshot
(`GetAllSeats`) and then, row by row, goes through `LoadSeatsIntoRedis`: the test of
the global `c` (`NextSeat`), the dial and its two assignments (`AssignConn`,
`AssignError`), the test of `conerror` (`TestError`), the SET (`LoadSeat`). None of
this is locked. Loaders that overlap race on `c` and inside redigo. A read of a torn
or nil `c` panics (`LoadPanic`). Two commands written at once into redigo's buffer and
its scratch space for lengths mix byte by byte: what reaches the server may be a SET of
any key, whether its seat has a row or not, to any value, a status or not (`"garbled"`),
or nothing (`LoadTorn`). Since a wrong length swallows a part of the next command and
replies go to the wrong reader, the connection stays out of step from then on (`"torn"`,
`OutOfStep`), also for a load that has it to itself; a load whose reply was taken by the
other hangs until the connection breaks (`LoadHung`). `DumpSeats` inserts a free
seat at any time, as the goroutines of `Seed` do. The table may hold any rows at the
start. `raced` (a SET came out of such a race), `sold` and `late` are history variables.
A race is not modelled beyond the keys of `Seats`: a SET of some other key changes nothing
the model looks at.

### Sessions

A `LoadSets` request `l` is two goroutines. The handler, `pc[l]`, takes the sessions from
the table (`LoadSets`), receives from the channel (`RangeNext`), leaves the loop when it is
closed and empty (`RangeEnd`) and answers ok (`AnswerLoad`). `populateFromDbToRedis`,
`load[l].at`, goes session by session through `GetAllSeatKeys` (the query), `pool.Get`,
the SET (`LoadSession`), the deferred `pool.Put` (`PutSession`) and the send (`Send`, which
blocks on a full channel), and ends with `CloseChen`. An `Availability` request `q` is
`Availability` (enters `pool.Get`), `GetSeatKeys` (GET), `GetSeats` (MGET and the report),
`ReturnConnection`.

The list is text, and the conversion is modelled: redigo writes a `[]string` as `fmt.Fprint`
does (`Format`), `getSeats` trims the brackets and splits (`Parse`), and `ScanSlice` leaves
an empty string in the place of every nil (`Value`). Strings are sequences of tokens, with
session ids, seat names, the dash, the blank (`Blank`) and the brackets as tokens; no id and no
name is a blank, since ids are decimal numbers and names a letter with a number. The status of a
seat is abstracted to the seat it belongs to, since nothing here depends on which one it is.

Failures: a query fails and gives no rows; a connection breaks before or after a SET; dials
fail. A panic in a reader is recovered (`Recover`). A panic in `populateFromDbToRedis` (a
nil connection used or closed, a surplus `Put`) is outside `PanicFilter` and ends the
process: `Restart` clears everything in memory and makes a new pool, while table and Redis
stay. `stored` (the names behind the text of each list), `before` and `spoilt` are history
variables.

### Database and Seed

`Database` is `GetDbMap`: the test of `dbcon` (`GetDbMap`), the assignment of a new handle
(`Open`), the two limits, each set on whatever `dbcon` is by then (`SetLimit`), and the
`DbMap` made of whatever it is by then (`NewDbMap`). A handle is named after the caller
that opened it. `sql.Open` connects to nothing and does not fail here.

`Seed` runs the three nested loops (`NextTheatre`, `NextScreen`, `NextShow`, `LoopEnds`),
each insert one step; `Go` starts `DumpSeats`, goroutine `<<r, k>>` for the k-th go
statement of request `r`, which inserts `SEATS` seats and outlives the answer. An insert
does its work and sets the object's id; or fails, with the id left 0 and the loops going on
(`Insert`, `InsertSeatFails`); or does its work, loses the reply and is sent again, because
pq answers `driver.ErrBadConn`, for which database/sql retries (`InsertLost`,
`InsertSeatLost`). The goroutines of a Seed share a `DbMap`, in which gorp keeps the insert
statement of `seats` after the first use, without a lock: `CopyPlan`, `AssignPlan`, and
`CopyTornPlan` for a copy taken in the middle of an assignment. Such a copy may be complete,
be refused by the server, or panic and end the process. It may also have the arguments and no
statement yet; then its holder builds the statement, appends the arguments once more and
assigns that plan (`AssignDoubled`), with which every insert of this Seed is refused
(`CopyDoubled`) unless a builder that was still busy assigns the right one afterwards. The
tables are taken to be there after `CreateTablesIfNotExists`.

## 3. Runs

| Run | Instance | Shows |
|---|---|---|
| `pool_contract` | 3 clients, 1 resizer, capacity 1 of 2, failing factory | types, `Exclusive`, `SlotsConserved`, `NoPanic`, `ClosedMeansReturned`; liveness: `GetReturns`, `ResizeReturns` |
| `pool_racing` | 2 clients, 3 resizers | `SlotsConserved` while resizes overlap (deadlock is off: a panicked goroutine stops) |
| `seats` | 2 requests, 2 seats, 2 connections that may break | the helper implements `SeatCache`; `WatchGuards`, `TransactionsIsolated`, `KoMeansNoWrite`, `ConnectionsReturned` |
| `dialfail` | 2 requests, capacity 1 of 2, failing dials, breaking connections | `SeatCache`, `Exclusive`, `ConnectionLimit` in spite of nil connections and panics; liveness: `EveryRequestAnswered`, as long as no dial fails (deadlock is off: after failed dials lost or surplus slots may block everybody) |
| `nilreply` (violation) | 2 requests | `OkMeansCommitted`: a refused EXEC is reported as ok |
| `brokenput` (violation) | 1 request | `NoClosedPut`: a closed connection is put back |
| `booking` | 1 seat, 1 request, 2 loaders | types, `CacheFollowsTable`, `OkMeansConfirmed`, `LateConfirmRefused`; liveness: `LoadsFinish` |
| `okcache` (violation) | 1 seat, 1 request, 1 loader, a `ConfirmSeat` that cannot fail | `OkReachesCache`: a confirmed seat stays blocked in the cache |
| `do_alone` (violation) | 1 seat, 2 loaders | `DoAlone`: two goroutines in `Do` on one connection |
| `lists` | 1 session of 2 seats, 1 loader, 1 reader, capacity 2 of 3, all failures | `ListedSeatsExist`, `OkMeansListed`, `OnlySpoiltLoadShrinks`, `ReportsTheList` (deadlock is off, as in `dialfail`) |
| `loads` | 2 sessions, 2 loaders, channels of 1, capacity 1 of 2, failing dials | types, `EverySessionReported`, `OkMeansListed`, `OnlySpoiltLoadShrinks`; liveness: `LoadSetsEnds` |
| `seed` | 1 seeder, 1 other request, 2 shows of 2 seats, 1 fault | types, `QuietMeansLimited`, `OneRowPerSeat`, `ParentsExist`; liveness: `SeedingCompletes` (deadlock is off: the seed is over) |

Why the bounds are enough. Interference between requests is pairwise: one request
changes the seat or leaves something on a connection, the other meets it. Two
requests, with as many connections as slots, give reuse of a connection by the same
and by another request, waiting for a connection, and a write between any two
commands of the other. Two seats are needed for a watch left over from one to spoil
the other. A capacity one below the channel's size is the program's own
configuration (20 and 21) scaled down: it tolerates one extra `Put` and panics at the
second. There are as many connection identities as a run can have open at once, so
that the factory is never held up by the model; an identity may be reused once its
connection is gone. In `Booking` one seat is enough for a snapshot to grow old, and its two keys for a
raced SET to hit one that nobody loads; two loaders race. One request confirms again and
again; that Confirms of any number of requests overlap is covered by the theorems
`OkIsConfirmed` and `LateIsRefused`. In
`Sessions` two seats give lists of length 0, 1 and 2 in either order, with either, both or
none of the statuses cached; two sessions exceed a channel of one, as 24000 exceed 1000. In
`Seed` two shows are two goroutines that race on the plan and, after a failed session
insert, tell the seats of session 0 from the others; `MaxFaults` bounds how many inserts
fail or are repeated, since every one of them adds rows. Nothing else is bounded: requests,
loads and other failures may repeat for ever.

Fairness. In `PoolContract` and `RedisHelper` a goroutine inside a call keeps running
(weak fairness) and one blocked on the channel is not overtaken for ever (strong
fairness: Go's channels queue their waiters in order). For `dialfail` this includes
that Redis answers every command or the connection breaks; redigo is dialled without
timeouts, so a server that accepts and stays silent would block a request for ever.
`booking` assumes the same of loaders; `LoadsFinish` exempts a load that waits for a reply
which another one has read. `Sessions` assumes the same of both goroutines of a
`LoadSets` and `Seed` of the loops and the `DumpSeats` goroutines; that inserts are not
repeated for ever is the bound `MaxFaults`, and database/sql's own limit on retries.
`EveryRequestAnswered` has a premise, that no dial fails (`DialsSucceed`): after failed dials
slots are lost for good and the pool's send-back may block, and no fairness leads out. The
run has the failures, the premise picks the behaviours. `LoadSetsEnds` needs none: in
`LoadSets` a nil connection ends the process. Nothing makes requests, loads, resizes or
failures happen.

## 4. Proofs

Every safety property that a run checks, invariant or action property, is also a theorem, for
all values of the constants. The constants are subject to the named assumptions of the modules:
`PoolAssumption` (the parameter check of `NewResourcePool`, and nil being no resource),
`HelperAssumption`, `BookingAssumption`, `SessionsAssumption`, `DatabaseAssumption`,
`SeedAssumption`. Nothing is assumed of the number of goroutines: where a count is involved, that
the counted set is finite is part of the invariant. Three theorems have a hypothesis of their own:
`PutNeverPanics` and `CloseWaits` (one resizer), `ConnectionsComeBack` (dialling works);
each is there because the property is false without it.

* `ResourcePoolProofs` reduces every step of the pool to one of six movements (take
  the head, drop the head, append, let go, open, nothing), each of which preserves
  `Safe`: the channel and the hands are well typed and every open resource is in one
  place. `GetStepSafe`, `PutStepSafe` and `ResizeStepSafe` state it for the actions,
  whatever protocol drives them.
* `PoolContractProofs`. `PoolTyped` and `PoolSafety` (`Exclusive`) under the contract.
  `SlotsAreConserved`, for any number of overlapping resizes, rests on `SlotInv`: the
  outstanding wrappers and the turns the loops still owe are finite sets (`Counted`), a turn is
  owed only inside a loop (`TodoInLoop`), and a resizer keeps no wrapper
  (`AdminsHoldNothing`). A step then moves one element between the sets that are counted. With
  one resizer (`OneResizer`) `LoneInv` adds that the slots there were before the loop fit into
  the channel and that the channel stays open while a loop runs (`LoopBounded`); with
  `SlotsConserved` a `Put` finds room and `Close` has everything back: `PutNeverPanics`,
  `CloseWaits`. Two overlapping resizers can make `Put` panic: the second grows the pool again
  before the first has drained what it has to.
* `RedisHelperProofs`. `HelperTyped`, `ConnectionsExclusive`, `NoInheritedTransaction`
  (`TransactionsIsolated`) and `HelperSafety` (`WatchGuards`) follow from one inductive
  invariant `Inv`. It adds that a request past its first
  command holds a connection (`InRequest`), that it watches its seat when it reads it
  (`Watching`), and that its connection's queue holds its own SET and nothing else
  (`QueuedByRequest`). `QueuedByRequest` needs `TransactionsIsolated`, which needs
  `Exclusive`: without the pool's guarantee two requests could share a transaction.
  `WatchGuards` is the heart: a write to the seat between GET and EXEC marks the
  connection in the same step.
* `RedisHelperProofs!ImplementsSeatCache`: `Spec => Cache!Spec` with the store as the
  statuses. An EXEC that the server runs is `Block` or `Confirm`; by `WatchGuards` the
  seat still has the status the request saw.
* `RedisConnectionProofs`. Every step takes a wrapper, gives one back, panics in a `Put` or
  leaves the count alone (`PoolMoves`). `ConnectionsLimited` follows with `FailedGet`: a request
  whose `Get` failed has `ResourceConn{nil}`, so its surplus `Put` adds no wrapper that may get
  a connection. `ConnectionsComeBack` is an equation and needs the hypothesis that dials
  succeed; then there is no nil connection anywhere (`NoNilConn`), the equation itself shows
  that a `Put` has room, and no wrapper is lost in a panic. `KoIsHonest` rests on `KoInv`: a
  request that has written sends no further command, and a connection whose EXEC lost its
  reply stays broken while the request has it, because a connection is dialled again only
  when nobody holds it (`Exclusive`).
* `BookingProofs`. The inductive invariant `Inv` says what holds of a request at each place
  (`RequestOK`: past the update its row is confirmed; a late one never gets to the
  update), that every row of a snapshot exists and, if it says confirmed, is
  (`LoadOK`), and that sold seats are confirmed (`SoldOK`). It is inductive because a row
  only grows, so that facts about rows survive the steps of everybody else. From it follow, with
  any number of racing loads, `BookingTyped`, `OkIsConfirmed` (`OkMeansConfirmed`),
  `LateIsRefused` (`LateConfirmRefused`) and `CacheNeverAhead` (`CacheFollowsTable`, which
  itself ends with the first raced SET: from then on any key may hold any value).
* `SeatListProofs!RoundTrip`: for a list of any length, `Parse` of `Format` gives the keys in
  their order, and one empty key for the empty list. `Format` and `Split` are recursive
  functions; that their recursions have solutions is proved (`PrimRec`), and the inductions over
  the length go through the least counterexample in a set of numbers (`LeastNat`, `UpTo`),
  since the library's induction theorems cannot be instantiated. The middle is `Listed`: the
  text of i keys has 4i - 1 tokens, token by token what was written; splitting consumes it four
  at a time.
* `SessionsProofs`. The inductive invariant `SessionsInv` (`SessionsSafety`) has a part per
  piece of state. `StoredOK`: the text under a list is that of the names stored, which have
  rows. `LoadAt`: got, the channel and the ids left are together the snapshot; the goroutine
  closes the channel only with nothing left. `LoadNames` and `Listing`: while a LoadSets is
  unspoilt it is the only one, what it has sent is listed with the seats of its start, and the
  names it is about to SET cover the list they replace; without that last clause nothing would
  relate the query to the SET several steps later. `ReadOK`: between GET and MGET a reader has
  the text of the names it wants, or "" and then a dead connection, which nobody can dial again
  (`Exclusive`). From it follow `SessionsTyped`, `SnapshotDelivered` (`EverySessionReported`),
  `ListedExist` (`ListedSeatsExist`), `OkListed` (`OkMeansListed`), and the action properties
  `CleanLoadsGrow` (`OnlySpoiltLoadShrinks`) and `TheListIsReported` (`ReportsTheList`); the
  last uses `RoundTrip`.
* `SeedProofs`, for any number of concurrent
  Seeds, any loop bounds and any `MaxFaults`. `HandleLimited` (`QuietMeansLimited`) rests on
  `DbInv`: the current handle has its limits, or the caller that opened it is still setting
  them; the others can only add. `SeedTyped`, `SeedSafety` (`OneRowPerSeat`) and `NoOrphans`
  (`ParentsExist`) rest on four facts about who holds which id: the ids of a Seed and of its
  goroutines refer to rows or are the 0 of a failure (`IdRefers`, `DumpRefers`), two goroutines
  never share a session other than 0 (`Apart`), and the rows of a goroutine's session are behind
  it or were inserted twice (`Behind`). Every step of `DumpSeats` is reduced to one shape
  (`DumpMove`), every step of the loops to another (`LoopStep`). `OneRowPerSeat` alone is
  not inductive: nothing in it keeps a second goroutine off the session.

Only model-checked: the liveness properties `GetReturns`, `ResizeReturns`,
`EveryRequestAnswered`, `LoadsFinish`, `LoadSetsEnds` and `SeedingCompletes` (fairness and
ENABLED are out of the prover's reach), and the four violations.

## 5. Findings

1. `redis_helper.go:123`: EXEC refused by a concurrent write counts as success; two
   clients can both be told that they hold the seat (`nilreply`).
2. `redis_helper.go:105`: closed connections go back into the pool (`brokenput`).
3. `redis_helper.go:74`: concurrent loads call `Do` on one connection, which redigo
   forbids (`do_alone`).
4. `seat.go:40`: `Confirm` passes `ConfirmSeat` a key without the dash that every other place
   uses, so that a confirmed seat stays blocked in the cache until the next load (`okcache`;
   with the dash the run passes).

Behaviour worth knowing that the models show and no run refutes:

* Two overlapping Confirms of one seat may both be answered ok (`LateConfirmRefused` is about
  later ones only), and a load frees seats that were blocked since its snapshot.
* After two loads have been in `Do` at once the cache may say anything (`raced`), also about
  seats without a row.
* A request that returns after WATCH without UNWATCH (`redis_helper.go:130`) leaves the
  watch to the next user of the connection, whose EXEC may be refused for another seat's
  sake and, by 1, be reported as ok.
* `redis_helper.go:43`: after a failed dial the deferred `Put` returns a wrapper the pool has
  already put back. The second one too many panics in `Put`, or the pool's own send after
  the next failed dial blocks until another request takes a wrapper out; the nil connections
  left in the pool panic when they are used or expire, and each one that expires takes its slot
  along. Hence the premise of `EveryRequestAnswered`.
* In `LoadSets` the same panics end the whole process (`Restart`).
* `resource_pool.go:170`: `Close` racing with a shrinking `SetCapacity` may finish with
  resources outstanding; `ClosedMeansReturned` holds for a single resizer. The engine never
  resizes.
* A failing query makes `LoadSets` write an empty list over a complete one, and answer ok;
  two overlapping `LoadSets` may leave the older list (`OnlySpoiltLoadShrinks` names both).
* `Availability` reports one seat without a name for a session without seats or list, and
  statuses newer than the list (`ReportsTheList`).
* A seat whose insert lost its reply has two rows (`OneRowPerSeat`); `Confirm` reads it with
  gorp's `SelectOne`, which refuses more than one row, so such a seat cannot be sold.
* After a failed insert the children are attached to parent 0 (`ParentsExist`).
* The first inserts of a Seed's goroutines race on gorp's plan and can end the process, or
  leave a plan with doubled arguments that makes all its later inserts fail.

## 6. Not modelled

* A malformed `seatInfo`, which panics before it changes anything, and a missing
  configuration entry, which ends the process at the first use.
* Routing, rendering, headers and the static pages: no state.
* The wire protocols of Redis and Postgres, the connection pool of database/sql (its limits
  are set in `Database`, its waiting is not modelled) and gorp's reflection: the program sees
  them only through the outcomes the models enumerate.
* Everything else that is vendored: revel, goose, fsnotify, the rest of vitess and go.net.
  It is more than nine tenths of the tree, and the engine calls little of it.

## 7. Plan

Done, in the order of importance: the pool, the seat cache and its implementation over
the pool, the life of a seat across cache and table, the seat lists, the seed and the
database handle, and the theorems above. Every part of the engine that keeps state is
modelled, and every safety property is proved. Left: action properties worth stating beside
the invariants (what a `Put` or a restart may never do), and proofs of the non-temporal
part of the liveness arguments, for instance that a LoadSets whose channel is full has a
handler that can receive.
