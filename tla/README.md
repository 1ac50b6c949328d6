# TLA+ models of the TSS wallet backend

The backend is one Go process. It runs threshold ECDSA key generation and signing
with all parties inside the server, builds Ethereum transactions from the
signatures, and, as its newer half, relays encrypted messages between devices that
run the protocol themselves. This directory models the parts whose state is changed
by several goroutines or requests at a time, checks them with TLC, and proves the
main safety properties of every one of them with TLAPS.

## The system

| Part | Code | State | Operations | Model |
|---|---|---|---|---|
| Relay sessions | `relay/handler.go`, `relay/redis.go`, `relay/types.go` | Redis keys `relay:device:*`, `relay:session:*` | register, create, join, PATCH, delete, expiry | `RelaySession` over `SessionRecord`; `SessionStore` is its abstract specification |
| Relay messages | the same | `relay:message:*`, `relay:device:msgs:*` with TTLs | send, poll, acknowledge, expiry | `RelayMessages`; `Mailbox` is its abstract specification |
| WebSocket hub | `relay/websocket.go` | the table of clients, per connection two pumps, a channel, subscriptions; the online keys | connect, authenticate, subscribe, answer, (un)register, send, forward, write, close | `WSHub` |
| Key generation | `keygen.go`, `keygen_service.go` | sessions, local parties, shares | create, start, route, finish, watch | `KeyGen` over `TssLib` |
| Signing | `signing.go`, `signing_service.go` | sessions, local parties, the PartyIDs shared with the key generation | the same, many sessions at a time | `Signing` over `TssLib` |
| tss-lib parties | external | rounds and messages of a party | Start, Update | `TssLib`, from how the services use it |
| Ethereum transactions | `ethereum.go`, `ethereum_service.go` | a map of unsigned transactions, signing ids | build, sign, quick send | `Ethereum` over `EthUnits`; `Payments` is its abstract specification |
| Rate limiter | `middleware/ratelimit.go` | token buckets per address | admit, clean up, first use | `RateLimiter` |
| API keys, audit, database | `middleware/auth.go`, `middleware/audit.go`, `database/` | SQL tables | | none: `main.go` installs none of it |
| Configuration and startup | `main.go`, `config/` | | | none: runs once |
| First version | `archive/` | | | none: outside the build |

The parts meet in few places. The relay's endpoints share Redis keys and nothing else;
sending a message reads a session (is the sender a party) and then only touches
message keys. The hub gets messages from HTTP requests by a call (`SendToDevice`) and
from Redis by subscription, and its acknowledgement is the call the HTTP endpoint
makes. Signing reads the shares of a completed key generation, and writes into its
PartyIDs. Ethereum calls signing with ids derived from nonces, and learns from it only
whether an id is taken and how its session ended. The rate limiter stands in front of
requests and shares nothing with them; `main.go` does not install it.

### What is hard in it

* **Read, edit, write back.** Join and PATCH read a session from Redis, edit the
  copy and SET it, with other requests in between.
* **Several Redis commands for one operation.** A message is a SET, an RPUSH, an EXPIRE
  and a PUBLISH, each of which can fail or find a key expired.
* **Goroutines that outlive what they work for.** The forwarding goroutine of a
  connection has no end, and routers of protocol sessions go on after the answer.
* **Sends outside the lock.** The hub closes channels others still hold.
* **A protocol driven by polling.** Parties start concurrently, messages overtake a
  Start, an Update that fails loses its message, a timer ends it all.
* **PartyIDs by pointer.** Concurrent signings re-index the same objects.
* **Everything keyed by nonce.** Transactions to be signed, and signing ids, are known by
  their nonce alone, whatever wallet and network they are for, and the network may name any
  nonce as the pending one.
* **A hash built twice.** sign-tx builds the transaction again, with the nonce of the
  moment, to hash it, and applies the signature to the stored one.
* **An answer that is lost.** A send that failed may have reached the network, an ignored
  error means that a key was not written or deleted.
* **An unlocked map and an unlocked global.** The transaction map is written by
  concurrent requests; the global limiter is made by whoever finds none, and asked by
  whoever has loaded it, replaced or not.
* **Money in floating point.** Ether is a binary fraction, cut off after a product.

`PROJECT.json` lists these hazards at their lines with the properties about them.

## Modules

### SessionRecord, RelaySession, SessionStore

`SessionRecord` is the session as stored (parties, joined, status, round) and the edits
the handlers make: `NewSession`, `MayJoin` (both checks of a join), `WithJoined`
(append, then compare the *counts*) and `WithPatch`. A PATCH stores any status it is sent
(handler.go:346-347), so the statuses are the two the relay sets and whatever `PatchStatus`
has; the names of types.go:19-25 bind nobody.

`RelaySession` has one action per Redis command of a request. A request goes through
`pc`: `get`, then `devices` (create: all parties registered), or `ttl` and `set` (the two
commands of `UpdateSession`). `copy` is its local copy. `Abandon` is a Redis error, or
the server's stop: requests go, Redis stays. `DeviceExpires` and `SessionExpires` are
TTLs; `persistent` holds keys that were SET with a zero TTL and so have none.

`SessionStore` is what the endpoints promise: each request acts in one step on the
session as it is. The code keeps this only for sessions nobody holds an *outdated* copy
of; the specification says so with its variable `exposed`, mapped to `Exposed`, and lets
an exposed session be overwritten with any well-formed session.

### RelayMessages, Mailbox

One action per Redis command of send and acknowledge: `SetMessage`, `PushId`,
`ExpireQueue`, `Publish`; `AckGet`, `AckTTL`, `AckSet`, `AckRemove`. Time is in ticks and
`Tick` removes what ends. `Fetched` is a poll as a function of the state. Commands whose
errors the code ignores can fail silently; `dropped` records for which device, so that
properties can exclude them. `Left` is a TTL as the code gets it: rounded by Redis, and zero
when the command fails. A tick may fall between any two commands. When a queue ends after
the RPUSH of a message and before its EXPIRE (redis.go:235-238), the id goes with it and the
message is stored but never polled: `cut` has those messages, and `PendingIsQueued` and
`Mailbox` (`lost`) except them and no others. A message id is the
pair of the send and the recipient, since a send generates one id and the id is stored per
recipient.

`Mailbox` is what devices may rely on: a message is put into its recipient's mailbox once,
unless it is lost on the way (`Put`), waits there until it is acknowledged or its end comes, and what somebody was told is
acknowledged does not wait again. `pending` is mapped to the stored, undelivered messages in
their queue (`Pending`), `open` to those whose push can still come. A message counts from
the moment `StoreMessage` is through with it; the SET of the acknowledgement is what takes it out, not
the LREM. The code promises nothing of a mailbox one of whose commands failed unseen (`spoiled`,
mapped to the devices in `dropped`), nor of a message for a recipient named twice, which is
never `Clean` and so never pending.

### WSHub

Connections are used once. `rp` is the place of a read pump, `hub` that of the hub
goroutine between its critical sections, `wp` the write pump, `buf`/`closed` the send
channel, `forwarding` the goroutines of `subscribeToDeviceMessages`. A full channel drops
(`Offered`), except that answers of the read pump block (`Reply`). A panic outside an HTTP
request sets `crashed`, and nothing happens after it.

The SET and the DEL of the online key may fail, and nobody looks (websocket.go:88, :328). A
connection may authenticate again as another device (:319), and what it has under the first
name stays. `stray` has the online keys left by either; `NoGhostOnline` is about the others, as
`TableIsOpen` is about the entries under a connection's own device (`Own`).

### TssLib, KeyGen, Signing

`TssLib` is a local party: it keeps messages by round, kind and sender slot, goes on
when it has those of its round, and sends what `Emits` says of the next. `KeyGen` and
`Signing` have the goroutines of the services: `StartParty` in any order, the router one
message at a time (`RouteMessage`, `Finish`, `RouterEnds`), and the monitor loop, which
returns on the first of `StartFailed`, `Timeout` and `AllDone` while the others go on.
An Update that fails loses its message.

When a party ends, the router makes two stores without a lock that the monitor loop reads
across: `KeyGen` stores the share and then Done (`Save`, `Mark`, keygen_service.go:292-293),
`Signing` stores Done and then the signature (`Finish`, `StoreSignature`,
signing_service.go:314-342). `CompletedHasShares` and `CompletedIsSigned` say that no session
completes in between. The stores are taken in program order. That is what the compiler emits
and amd64 shows other cores; the Go memory model promises nothing for a data race, and on
arm64, which the Dockerfile (GOOS=linux only) does not rule out, another core may see them in
the other order, for which `FinishBackwards` is the mutant.

`Signing` adds what sessions share: `index`, the Index field of each PartyID.
`SortPartyIDs` in one request changes by which number another session's library stores
messages and its router finds the addressee. A session that had an index changed under it
is `disturbed`; the model then lets any of its Updates fail and claims nothing but that the
answer is honest. What the Updates of such a session do with each other's slots is
approximated: a slot is that of the index at the time of the Update.

The library panics in the goroutine of a Start that finds a signer twice or its own index
beyond the number of signers, and nothing recovers there, so the process ends (`StartPanics`,
`Panic`, `down`). It may also panic in an Update of a disturbed session. The run's signer lists
have two members, so only the duplicate occurs there; the theorems are for lists of any
length. Races inside a single Start are not split.

`MessagesReachRecipients` is what deliverSigningMessage's comment says of it, and what
overlapping sessions break: the router looks the recipient up by an index that another request
has changed, and in the run gives a message back to its sender.

Shares and PartyIDs are matched by place: a signer's share is used under
the PartyID that has the signer's place in the *sorted* list (signing_service.go:125, :171).
In another order than the key generation's the two differ (`Mixed`); such a session fails in
its second round, since proofs made for one party do not hold for another.

### EthUnits, Payments, Ethereum

`EthUnits` is the conversion of an amount: the nearest float to the decimal, times the Wei
of an Ether, rounded, cut off. `Digits` and `Precision` scale it down. Powers are a recursive
function (`Power`), because the prover does not look into `^`; `Ethereum` keeps the conversions of the
run's amounts in a table (`Wei`). With the code's 18 digits
and 256 bits, 2.1 ETH becomes 2099999999999999999 Wei. An amount comes in `valueWei`, and is taken
as it is, or in `valueEth`, and is converted, cut off towards zero. Both may be negative, which
nothing refuses before the transaction is encoded (`Verifies`). "Inf", which the float parser
takes, too, is left out.

`Ethereum` has an action between any two calls of a request that take time: `BuildTransaction`
and `StoreTransaction`; `SignTransaction`, `Rehash`, `CreateSigning`, `SigningEnds`; `QuickSend`,
`CreateSigning`, `SigningEnds`, `QuickBroadcast`. `store` is the map under nonces, `signing` the
state of each id at the signing service, `hash` what a request has had signed and by which
wallet; `ApplySignature` recovers the sender and refuses another (`Verifies`). `MapRace` is the
runtime that notices the unlocked map and ends the process. A transaction is an account, a
nonce and an amount: receivers, data and gas prices are set once when it is built and only
carried along.

The network is not part of the state. `/ethereum/broadcast` hands on any raw transaction
(ethereum_service.go:350-384), the documented steps (ethereum.go:26-30) sign through
`/signing/start` under ids of its own (signing.go:78), and nodes replace and drop transactions.
So at each call any nonce may be the pending one (`Pending`), and nothing is said of what the
network has, only of what `sign-tx` answers (`signed`) and quick-send hands over (`sent`).

The comment at ethereum.go:139 calls `txId` a "Unique ID for this unsigned tx"; it is the nonce,
so it is unique neither across accounts nor across rebuilds. `SignedAsAsked` is what remains
true: whatever is signed was asked for by somebody and is signed by its own wallet.

`Payments` promises of `sign-tx` and quick-send that what is signed was built, under an id that
serves once, and that what quick-send hands over was signed, and goes there once.

### RateLimiter

Buckets count in units of a token times the ticks in a second. `Allow` refills and takes a
token, at the rate of the request's API key if it has one (`RateLimitMiddleware`), or of the
limiter (`StrictRateLimitMiddleware`, also for the key generation and signing limiters).
`Cleanup` drops idle buckets. `FindNoLimiter` and `InitRateLimiter` are the two halves of the
unlocked first use; a limiter that takes another's place forgets its buckets, which
`replaced` counts. A request loads the pointer (`LoadLimiter`, ratelimit.go:135) some time before it
has the limiter's lock, so it may ask a limiter that has been replaced; `late` counts the requests
that hold one when it is replaced, each of which may be let in beside the new one. `admitted` counts since every tick, so that the bound is about any
interval. The headers (`string(rune(n))`, a formatting slip) are left out. The comment of
the key generation limiter (ratelimit.go:181) speaks of one request a minute; its limiter is
made with one a second and a burst of two (ratelimit.go:182), which is the strict limiter of the
model with other numbers: it lets in sixty a minute and not one. That the comment is wrong is seen
without a run.

### TssFacts and the modules of proofs

`TssFacts` has what a run of the library's protocol keeps, whoever routes its messages:
lemmas on lists, on what a party sends and holds (`SentNames`, `StartedParty`, `UpdatedParty`), and
on all parties together (`Protocol` and `NobodyWaits`). `KeyGen_proofs` and `Signing_proofs` cite
it. `RelaySession_proofs`, `RelayMessages_proofs`, `WSHub_proofs`, `KeyGen_proofs`, `Signing_proofs`,
`Ethereum_proofs` and `RateLimiter_proofs` have the theorems of the module each is named after.

## Runs

| Run | Instance | Shows |
|---|---|---|
| `session` | 1 session, 2 devices, 2 requests at a time, party lists with and without a duplicate | PATCHes with a status of their own; types; copies stay valid (`InFlightOK`); nobody joins twice or uninvited (`JoinedOnce`); status and count go together (`StartedWhenAllJoined`); `ImplementsStore` |
| `session_lost_join` | the same | **violated** `JoinsAreKept`: two joins at a time, both answered with success, one lost |
| `messages` | 2 sends (a list of two, a single device, or a broadcast), 1 acknowledgement at a time, TTL 2, clock to 2, one failing command | a pending message is in its queue (`PendingIsQueued`) unless that ended before its EXPIRE, an acknowledged one is out for good (`AckedNotQueued`), sends that follow each other stay in order (`FifoPerQueue`); `ImplementsMailbox` |
| `messages_poll` | the same, pages of one | **violated** `PollFindsPending`: ids of expired messages hide those behind them |
| `hub` | 2 connections of one device, channels of one message | types; the table has open channels only (`TableIsOpen`); no online key but a stray one outlives its connections (`NoGhostOnline`); who goes is unregistered (`GoneIsUnregistered`) |
| `hub_crash` | 1 connection | **violated** `NeverCrashes`: the forwarding goroutine sends on a closed channel |
| `hub_reconnect` | 2 connections | **violated** `StaysRegistered`: the old connection's unregistration removes the new one |
| `keygen` | 3 parties, 2 failing Updates, a list with a duplicate | success means a share for everyone (`CompletedHasShares`); never stuck unless something fails (`NeverStalls`); an answer is final (`Answered`); there is one (`Executes`) |
| `signing` | 2 sessions, 3 parties, 4 signer lists | success means all signed under their own PartyIDs (`CompletedIsSigned`); an undisturbed session in keygen order is never stuck (`NeverStalls`); an answer is final |
| `signing_overlap` | 2 sessions, lists in keygen order | **violated** `MessagesReachRecipients`: a request re-indexes a running session's party, and the message for it goes to its sender |
| `ethereum` | 2 wallets on 2 networks, 2 requests at a time, 2 nonces, an amount in Ether, the same in Wei and a negative one, 2 transactions, 2 signing sessions | types; what is signed was asked for and is its own wallet's (`SignedAsAsked`), once for a nonce and route (`SignedOncePerNonce`), with its amount (`AmountKept`); `ImplementsPayments` |
| `limiter` | a global and a strict limiter, 2 requests that make and hold the global one, 1 address, 2 rates, clock to 3 | types; nobody is let in for more than a burst and its time's worth (`RateBound`); who waits a second is let in (`RetryAdmitted`) |

Each violated property quotes a comment or document of the repository; `findings` in
`PROJECT.json` has the quotations.

### Bounds, and why they are enough

* Two requests, sends, connections or signings at a time: every race above is between
  two. One session id: nothing relates two sessions of the relay. `RelaySession`'s
  invariants are proved for any numbers.
* `PatchStatus` is one status the relay does not know. With an empty one beside it, which leaves
  the status, there are four times the states and nothing new.
* `MaxRound = 1` distinguishes a PATCH with a round from one without.
* `TTL = MaxNow = 2`: a queue and a message can end, and a later one outlive them.
* `Cap = 1`: a channel is empty or full. A larger one only delays the full case.
* `MaxDropped` and `MaxLost` bound silent failures: one or two are enough for a stall; in
  `messages` they are on the keys of one device (`Flaky`), the one that both sends may go to;
  failures in a signing that is disturbed or mixed up are not bounded.
* `From` and `By`: the sends and the acknowledgement of `messages` have their device, of the two there are;
  one send goes to both devices, the other to the one that acknowledges. Either may be a broadcast.
* The two signing sessions are alike, so they are a symmetry set in `signing`.
* Signing's seven broadcast rounds are one, keygen's rounds are as in the library.
* `Ethereum`: two accounts of different networks meet under one nonce. Of the amounts, with two
  digits and nine bits, one in Ether loses a Wei, one in Wei is the same and does not, one is
  negative; `AmountKept` tries every amount in Ether up to 2^8. Two nonces let a hash be built for
  another nonce than the transaction's, two requests race for one id.
* `RateLimiter`: `Second = 2`, `Idle = 2` and a clock to 3 let a bucket empty, refill, idle and be
  dropped; two requests are enough for one that holds the limiter the other replaces. One address, as the
  buckets of addresses are independent. A dropped bucket comes back full; `Worth` is what that
  is worth in the long run, a burst in an idle time, if that is more than the rate. It is on the
  strict limiter of the run, as it is not with the defaults (20 tokens, 10 a second, 10 minutes).
  Rates and bursts that are not positive are excluded (`LimiterAssumption`), though
  config.go:78-79 takes any number from the environment: with a burst of zero the first request is let in and
  leaves a debt.

### Fairness

`WSHub`: goroutines of the server are scheduled (weak fairness), and the hub's select
takes each waiting client in the end (strong: Go queues senders of a channel and picks
among ready channels at random). Peers, HTTP requests and Redis owe nothing.
`KeyGen`: each party's goroutines, the router and the monitor loop, whose timer ends.
`GoneIsUnregistered` excepts a read pump that waits to answer into a full channel whose
write pump is gone: that wait never ends in the code (`Hangs`). The other specifications
assume no fairness and are checked for safety: `Ethereum` owes clients and the network
nothing, `RelayMessages` and `RateLimiter` answer within a request.

`CHECK_DEADLOCK FALSE` stands where everything can be over: clock at its bound,
connections used up, sessions answered, nonces and signing ids taken. `RelaySession` and
`RateLimiter` never stop, and there it is on.

## Proofs

`RelaySession_proofs` holds for any sets of devices, sessions and requests, under
the named assumptions of `SessionRecord` and `RelaySession` (party lists are sequences of
at least two devices, `NoSession` is no session; statuses may be anything).

1. `Invariance`: `Inv == TypeOK /\ InFlightOK /\ JoinedOnce` is inductive. `JoinedOnce` alone
   is not: a write-back keeps it only because what the request holds in `copy` passed
   both join checks, which is `InFlightOK`; and it must speak of every copy as well as of
   the store. `TypeCorrect` and `AlwaysJoinedOnce` follow.
2. `AlwaysStartedWhenAllJoined`: `StatusInv` adds `StartedWhenAllJoined`. The step that needs
   an argument is a join: `WithJoined` compares for equality, so the count must not
   have been there before. `NoLongerThan` is a pigeonhole lemma (an injective list over
   the members of another is no longer), `RoomToJoin` its use: a party that has not
   joined leaves room.
3. `SessionsImplementStore`: initial states map to initial states, and each step to one
   of `SessionStore` or a stutter. A write-back maps to `Join` or `Patch` if the request's copy
   is current, and to `Overwrite` if the request is outdated, since then its session is
   exposed.

`KeyGen_proofs` holds for any parties, party lists, rounds and numbers of failures, under the
assumptions of `KeyGen` and `TssLib`.

4. `SuccessMeansShares`: `CompletedHasShares` needs that who is done is among the parties and has
   its share stored (`Inv`). The loop compares the number of parties done with the length of the list;
   `NamesOfList` bounds the number of names by that length, so equality leaves
   nobody out and leaves no room for a name given twice (`AllDoneIsAll`).
5. `AnswersAreFinal`: `Inv` has that the loop runs only in a session in progress, and only the loop
   writes a status after that.
6. `TypeCorrectness`: `Shape` says it in the sets of `TssFacts`, with what holds of a session
   that has not begun.
7. `NobodyStalls`: `Runs` is that while nothing fails and no name is given twice, the parties by
   their places are in a `Protocol`: whatever a party has sent by its round, every other one has, or
   it is still in the sender's outbox (`NothingLost`); nobody has a message of a round its sender
   has not reached; who is past a round had all its messages; a result stays until it is taken; and
   the one party that may have all messages of its round without going on is the last one
   started, which heard the others before its Start (`OnlyTheLast`). `NobodyWaits` is the argument: with all
   outboxes empty, a party in the earliest round anybody is in has all messages of that round, so it is
   that last one; the others are past the round, and what they sent since is there too, against
   `OnlyTheLast`. So nobody is in a round any more.

`Signing_proofs` holds for any keys, signer lists, rounds, failures and numbers of sessions
at a time, however they disturb each other. `KeygenAssumption` has that the key
generation's parties are a list without duplicates.

8. `SuccessMeansSigned`: the loop compares a count with the length of the list, as in 4. That
   nobody signs under another's PartyID needs more: `Inv` holds every party of a mixed-up
   session in its second round (`Held`), because no message of that round is taken
   (`NotBeyondTwo`), so nobody of it is ever done. It uses that every round of the library
   sends something (`EmitsAssumption`). And the signature is there once the router is past the
   first party to finish, so when all are Done.
9. `AnswersAreFinal` as in 5.
10. `TypeCorrectness`: `Shape`, and that the sorted list of a session has its signers (`Sortable`).
11. `NobodyStalls`: `Runs` is `Protocol` for every session that is undisturbed and in keygen
    order, together with its signers' indices being their places (`Orderly`). A request that
    changes an index of such a session disturbs it, so the others keep theirs.

`RelayMessages_proofs` holds for any devices, sends, acknowledgements, TTLs and failures.

12. `TypeCorrectness` needs that what is stored has not ended (`PlacesOK`), or an acknowledgement
   could write back a negative TTL.
13. `AlwaysInOrder`: `QueueOK` adds that an id is in a queue only once it is pushed, and that whoever
   was answered before another arrived stays answered; so a push comes after what was
   before it, and `ShrunkIsOrdered` is that a queue that loses ids keeps the order of the rest.
14. `AckedIsGone`: `OnceOK` adds that what is acknowledged, or about to be, was pushed, and that an id
    is queued once. Then removing it leaves none, and no push brings it back
    (`NotPushedAgain`), since StoreMessage publishes an id only after it is in the queue.
15. `PendingStaysQueued`: `PendingOK` adds that a message lives for a TTL at most, that
    from the EXPIRE on its queue outlives it unless it was cut off before, and that whoever is about to remove an id
    has marked its message.
16. `MessagesImplementMailbox`, from the invariants of 12 to 15: each Redis command
    is a step of `Mailbox` or a stutter. The last `Publish` of a recipient is `Put` (14 and 15 give
    that it is queued and neither acknowledged nor ended), `AckSet` is `Acknowledge`, `AckRemove` is
    `Confirm`, a command that fails unseen `Fail`; a message is cut off in a `Tick`, before its `Put`. It needs that a pending message is gone from
    the mailbox at its own end and not at its queue's (15).

`WSHub_proofs` holds for any connections, devices and channel sizes, whatever devices each
connection authenticates as, and whichever SETs and DELs of online keys fail.

17. `TypeCorrectness`, with what the hub and read pumps have in hand between two steps
    (`PumpsOK`).
18. `TableStaysOpen` and `NoGhosts`: the run has one device, so it is here that a connection
    takes another name. `TableIsOpen` and `NoGhostOnline` are inductive with it because they except
    just what the old name leaves behind (`Own`, `stray`).

`Ethereum_proofs` holds for any accounts, amounts, nonces and requests at a time.

19. `SignsAsAsked` and `SignsOncePerNonce`: `Inv` has that the map keeps a transaction under its
    own nonce, that a running session belongs to one request, and that a session that has
    signed is over. A second transaction of the same nonce has the same id, which is taken.
20. `Refinement`: each step is one of `Payments` or a stutter. It adds that the transaction a
    quick-send is about to hand over is signed and not yet sent (`SentOK`).
21. `TypeCorrectness`: every hash is of one of the nonces the network may answer.
22. `ConversionKeeps`: for any digits and precision, amounts up to half of what a mantissa holds
    (2^255 Wei in the code) are converted exactly or to one Wei less. There are two roundings, each off by half a
    unit at most (`NearestIsNear`), the unit of the first is within a Wei's share of the amount
    (`RoundedTwice`), and the product reaches the next Wei only where nothing was rounded
    (`NearestIsExact`). `KeepsAmounts`, for sets of amounts of that size, adds that each hash is
    made of the amount the transaction was built with, that an amount in Wei is not touched, and that
    nothing negative is signed.

`RateLimiter_proofs` holds for any positive rates and bursts, any clock and any number of requests.

23. `Bounded`: `RateBound` is not inductive, as it says nothing of what a bucket still holds.
    `StrictBound` and `GlobalBound` are: what was let in, plus what could be now (`Credit`), is within the
    bound; an admission moves one token from the credit to the count, a tick adds at most what the
    bound grows by, and a bucket that is dropped has been worth a burst since it was last asked
    (`Worth`). On the global route the credit is that of the limiter in place (`Place`), and each
    request that holds another counts for one more (`Late`): asking it, it moves from there to the count.
24. `RetriesAreAdmitted`: a second refills at least one token, and no bucket owes any.

Only model-checked: what is temporal under fairness (`GoneIsUnregistered`, `Executes`), which is
beyond the prover.

## Not modelled

Encryption, message and signature contents; proofs and culprits inside tss-lib; HTTP
parsing and formatting; CORS; the computation of pre-parameters (a pause, though one
under the service's lock); the key-value effects of `relay:session:msgs:*`, a list that is
written and never read; restarts of the server other than the loss of its requests
(key generation and signing keep everything in memory and lose it, Redis keeps the rest).

The API keys, audit log and database (`middleware/auth.go`, `middleware/audit.go`, `database/`) are
not reached from `main.go`: no route installs them, so there is no behaviour of the
program to check; each is SQL statements behind single calls. `config/` and `main.go` run once.
`archive/` is an earlier copy of key generation and signing that is not built. In
`ethereum_service.go`, balances, gas prices, nonces and receipts are read and passed on, and the
cache of clients is a map under one lock.

## What is left

1. An abstract specification of the hub and of a protocol session, as there is for the relay
   and for Ethereum.
