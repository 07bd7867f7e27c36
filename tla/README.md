# Verification of soulseek-rs

TLA+ modules for the concurrent core of `soulseek-rs-lib` and its daemon, TLC
configurations that model-check them on small instances, and TLAPS proofs of
what matters most for every instance. Paths below are relative to `src/`;
unqualified ones to `src/soulseek-rs-lib/src/`.

1. [The system](#the-system)
2. [What is modelled](#what-is-modelled)
3. [Runs](#runs)
4. [Fairness](#fairness)
5. [Proofs](#proofs)
6. [Where code and comments disagree](#where-code-and-comments-disagree)
7. [What is left out](#what-is-left-out)
8. [Plan](#plan)

## The system

`Client` owns one `Arc<RwLock<ClientContext>>`, and everything meets there:

- the **operations loop** (`client/operations/mod.rs`), one thread that takes a
  `ClientOperation` at a time from an unbounded channel and, once a second,
  sweeps what has expired;
- one **server actor** and one **peer actor** per peer (`actor/`), each a thread
  with a mailbox and a 100 ms tick that reads its socket, answers, and posts
  operations to the loop;
- the **listener** (`peer/listen.rs`), a thread that accepts and one more per
  connection;
- **transfer threads**, one per file being received or sent;
- **callers** of the API: command line, terminal UI, or the daemon's connections.

| Part | State | Operations | Hard because |
|---|---|---|---|
| Upload queue (`client/upload_queue.rs`, `client/uploads.rs`, `operations/transfers.rs`) | `upload_queue`, `uploads` (offers), `active_uploads`, `pending_serves`, `peer_addresses`, slot count, donors | queue, rank, pump, offer, answer, resolve, stream, sweep, release, cancel | two kinds of thread pump; a slot passes through three tables; answers, addresses and disconnections come in any order |
| Downloads (`download_store.rs`, `client/downloads.rs`, `peer/download_peer.rs`) | the store (a `Vec` looked up by token and by file), `.part` files, status channels | download, pause, resume, cancel, remove, retoken, claim, stream, promote, fail | rows are found by a token the peer chooses; a claim may come from three directions; failures are told and recorded in two lock sections; the disk changes outside the lock |
| Peer registry and actors (`actor/peer_registry.rs`, `actor/peer_actor.rs`, `client/connection.rs`, `operations/peers.rs`) | name -> (id, handle), capacity, each actor's connection, retirement and report | register, evict, replace, retire, remove-if, dial, broker, expire | a replaced actor lives on for a grace period, and its last report arrives late |
| Distributed tree (`client/distributed.rs`, `client/children.rs`, `operations/tree.rs`) | parent, candidates and their links, our branch, pending announcement, children | consider, level, root, search, close, reset, adopt, relay, announce | links outlive their candidate; announcements are throttled and so late |
| Listener (`peer/listen.rs`, `utils/semaphore.rs`) | handshake permits, deadlines | accept, handshake, pierce, hand over | permits must come back on every path |
| Speed limit (`utils/rate_limit.rs`) | bucket, refill time | take, give back | shared by all transfer threads |
| Server session (`actor/server_actor*`, `client/connection.rs`, `client/cancel.rs`) | connection, login, keepalive, loss | connect, log in, lose, log in again | loss races login |
| Search (`client/search.rs`, `operations/search.rs`) | searches and their results, replies waiting for a connection | search, accept, expire | caps and a time to live |
| Rooms and social (`client/rooms.rs`, `client/social.rs`, `client/context.rs`) | maps folded from server events | one per event | sequential |
| Daemon (`soulseek-rs/src/daemon/`) | subscribers' bounded queues, counted connections, rooms to rejoin, saved session | accept, authenticate, subscribe, publish, close, reconnect, rejoin, save, restore | the drainer may not block; three threads per connection are joined; clients come and go |
| Remote client (`soulseek-rs/src/remote/`) | pending calls, the mirror of downloads, the closed flag | call, settle, route, fail all, abandon | calls race the reader's end |

How they interact. A peer's actor posts what its peer says to the loop and takes
what we say from its mailbox; the loop changes the context and posts back. An
upload needs the registry (to reach the peer's actor), the server (for the
address) and a thread of its own. A download's row is created by a caller,
renamed by the loop when the peer offers the file, claimed by whichever
connection carries the bytes, written by that thread, and may be paused,
cancelled or removed by a caller throughout. The registry asks the context which
peers are in use before it evicts one. What makes each part correct:

- **upload queue**: slots are neither overspent nor leaked, donors first and then
  first come, a job's bytes go to its own peer, everybody is served in the end;
- **downloads**: one writer, one verdict, no corrupt file, no row left behind;
- **registry**: at most one registered actor per name, a late report touches only
  the actor it speaks of, eviction spares whoever is in use;
- **tree**: one parent, who is a live link; what the server was told last is where
  we sit, in the end;
- **hub**: everybody connected gets every event in order, or is disconnected, and
  every connection gives its slot back;
- **remote client**: every call ends by an answer or by the connection's end, and
  whoever started a download hears how it went;
- **session**: accepted means accepted on this connection, a loss is seen and
  repaired, a displacement is respected, rooms come back.

## What is modelled

### `UploadQueue` (checked through `MCUploadQueue`, proved in `UploadQueueProofs`)

One action is one section under the context lock.

| Code | Model |
|---|---|
| `ClientContext.upload_queue`, a `Vec` of jobs with `seq` | `queue`, a set: no two jobs share a `seq` |
| `rank`, `serve_order`, `next_to_serve` | `Before`, `Place`, `Best` |
| `uploads_in_flight`, `has_free_upload_slot` | `InProgress`, `InFlight` |
| `pump_uploads` and the posting of its offers | `PumpUploads`, by the loop (`LoopPumps`) or by a thread that ended (`ThreadPumps`) |
| a pump that a handler makes after releasing the lock | `owed`: the loop takes nothing else until it has pumped |
| `UploadJob.offered: Option<Instant>` | `offered`; `SweepStaleOffers(c)` finds stale all offers minted up to token `c`, which is what any passage of time can make stale |
| `StartUpload`, `GetPeerAddressResponse`, `PeerDisconnected` | `StartUploadGone/Known/Unknown`, `AddressKnown/Unknown`, `PeerClosed/PeerFailed` |
| `PeerActor`: mailbox, `serving_tokens`, its end | `mailbox`, `serving`, `ServeUpload`, `TransferResponse`, `ActorStarts`, `ActorEnds` |
| `spawn_serve` and its thread | `SpawnServe`, `ServeEnds(t, status)`, then `ThreadPumps(t)` |

Points where the model takes a shortcut, and why it may:

- `AddressKnown` is one step though the code takes the lock once to cache the
  address and take the list and once per waiting token. Only an ending thread or
  a caller can come between; a pump adds offers, and moving a token from
  `uploads` to `active` changes no count, so every order gives the same state.
- `StartUploadUnknown` is one step for the same reason: only the loop reads
  `pending_serves`.
- `QueueUpload` is taken from a connected peer without passing through
  `channel`: requests come before the report of the connection's end either way.
- A peer has at most one actor. Replacement and retirement belong to the registry.
- Upload tokens are naturals from 0; the code counts from 2^31 and would wrap
  after as many uploads.
- `upload_events` and `last_upload_speed` only report and are left out, and so is
  the file's size and path.

### `SlotService`, implemented by `UploadQueue` (`UploadRefinement`)

`SlotService` is the queue without its machinery: clients ask and are numbered,
`Grant` gives every free slot to those whose turn it is, a holder returns its
slot once, a client that is gone waits for nothing, and the number of slots and
the standing of those who wait may change. `UploadRefinement` maps the tables to
it. A holder is an offer, an accepted offer that waits for an address, or a
stream, and is known by its token; so `StartUpload*`, `AddressKnown` and
everything an actor does are stutters, `LoopPumps` and `ThreadPumps` are `Grant`
(or stutters when nothing is free), `SweepStaleOffers` and `ServeEnds` are
`Return`, `PeerFailed` is `Withdraw`. `ImplementsSlotService` thus says of all
paths at once that a slot is granted in order, never to more than there is room
for, kept by the same peer for the same file from the offer to the end of the
stream, and not taken up again after it was returned.

### `Downloads` (proved in `DownloadsProofs`)

One action is one section under the lock, or one effect on the disk.

| Code | Model |
|---|---|
| `DownloadStore.downloads: Vec<Download>` | `rows`, a set whose members carry their position; `First` is the `find` of the code |
| the sender each caller holds the other end of | `id` of the row, `told[id]`: the verdicts sent on it |
| `add`, `update_status`, `remove` | `Added`, `Updated`, set difference by token |
| `process_failed_uploads` | `CollectFailed` under the read lock, `FailCollected` under the write lock, and nothing else of the loop between them |
| `download_with_metadata` that cannot ask the peer | `DownloadDeclined`, then `FailDeclined` |
| `cancel_download` | `CancelByFile` under the lock, `CancelUnlinks` after it |
| `claim_for_peer` by the loop, the listener or a dialled file connection | `Claim(u, t)`; `u` is who the connection is with |
| `PartFile` | `part[f]` is the inode behind the name, `content[inode]` its chunks; an open file keeps its inode after an unlink |
| `start_transfer`, `read_download_stream`, `finish_transfer` | the thread's `at`: claimed, opening, looking, reading, finishing, discarding, failing |

Bytes are chunks labelled with the peer and offset they came from, so that a
missing, doubled or misplaced one shows in the result. A file opened to append
writes at its end, any other at the thread's own offset. Waiting while paused is
the absence of a step. `TimedOut` is a status no code sets. Progress, queue
positions and the answers sent to peers hold no state the properties speak of.

What peers and callers do is chosen by two constants. `Calls` are the calls of
the API; `"twice"` lets a caller ask for a file while an earlier download of it
is unfinished. `Mishaps` are a peer's refusals (`process_failed_uploads`), peers
there is no way to ask (`"unreachable"`: a download declined on the spot), second
offers of a file in transfer, and repeated offers with the same token. Each run
says which it allows; the ones it does not are the subject of another run or of section 6.

### `PeerNetwork` (in run `network`)

One action is one message handled by the loop or an actor, or one section under
the registry's lock.

| Code | Model |
|---|---|
| `PeerRegistry.peers`, `NEXT_PEER_ID`, `max_peers` | `registry`, `minted`, `capacity` |
| `register_peer_protected`: evict, insert, retire who is replaced | `Refuses`, `Registers` |
| `remove_peer_if(id)` and `handle.stop()` | `RemovePeerIf` |
| `PeerActor`: state, mailbox, `queued_messages`, `retiring`, the terminal operation it posts once | a record of `actors`: `conn`, `inbox`, `backlog`, `retiring`, `reported` |
| `disconnect`, `disconnect_with_error` | `Closed` with `CleanReport` or `ErrorReport` |
| `on_connection_established`, the mailbox in each state, the self-stop of a retired actor | `Establish`, `ReadStop/Connecting/Connected/Disconnected`, `SelfStop` |
| listener thread after the handshake: register, then nudge the loop | `InboundDial`, `PierceFirewall`, `InboundRegister`, `InboundNudge` |
| the loop's handlers and sweep | `HandleConnectToPeer`, `HandlePeerAddress`, `HandlePeerConnected`, `HandlePeerDisconnected`, `HandleConnectFailed`, `HandleCantConnect`, `SweepExpiredConnect` |
| `pending_connect_tokens`, addresses asked for, held search replies | `pendingConnect`, `resolving`, `held` |
| callers and the API | `Download`, `AnswerSearch`, `SetMaxPeers`, `StopAll` |

A peer has at most one download here, in as far as the connection matters to it:
`Queued`, `Requested` (its QueueUpload has gone out) or `Failed`. Deadlines pass
whenever they like. An actor blocked in a dial is one whose mailbox is not read.
What uploads do with a lost connection is in `UploadQueue`.

### `DistributedTree` (in run `network`)

| Code | Model |
|---|---|
| `Leaf`: parent, candidates and their links, our branch, the pending move | `parent`, `links`, `branch`, `movePending`, `justMoved` |
| a candidate's thread and its cancel flag | `threads`, `LinkSends`, `LinkBreaks`, `LinkCancelled` |
| `consider`, `branch_level`, `branch_root`, `search_from`, `link_closed`, `reset` | `Consider`, `ParentBranchLevel`, `ParentBranchRoot`, `ParentSearch`, `ParentClosed`, `ResetDistributed` |
| `moved_with_parent`, `due_announcement` and the sweep | `Claim`, `SweepTellsMove`, `MoveIntervalPasses` |
| `Children`: adopt, relay, announce, who drops off when a write fails | `kids`, `ChildConnected`, `ChildDies`, `Relays`, `Announces` |
| `announce_child_capacity` | `TellsRoom` |
| what the server and the children heard last | `told`, `kids[k].heard` |

The arithmetic of the child limit is abstracted to the number it comes to, and
the budget of relayed searches is left out. A branch is a root and a level.

### `EventHub` (in run `daemon`, proved in `DaemonProofs`)

| Code | Model |
|---|---|
| `Hub.subscribers` and their bounded channels | `subscribers`, `queue` |
| the connection's bounded channel to its writer, the socket's buffer | `outbox`, `buffered` |
| `spawn_connection`, the cap, `authenticate`, `serve_connection`, its end | `Accept`, `Refuse`, `Authenticate`, `Subscribe`, `Serve`, `HangsUp`, `Close`; the thread's place is `phase` |
| the pump thread, the writer thread | `Pump`, `Write`, `WriterDone` |
| `Hub::publish` | `Publish` |
| the client, which may stop reading, half close or vanish | `ClientReads`, `ClientAsks`, `ClientCloses` |

An event is its number, every answer is one mark. A send to a full channel is the
absence of a step.

`EventFeed` is the hub without buffers and threads, as one client sees it: it may
join once or be turned away, whoever follows is handed each event or is cut off,
and reads what it was handed one event at a time. The mapping takes `subscribers`
for the followers, and for what was handed to a client the newest event in its
stream (`LastOf`); so `Publish` is `Emit`, `Subscribe` is `Join`, reading an event
is `Read`, and everything the pump and the writer do is a stutter.

### `RemoteSession` (in run `network`, proved in `RemoteSessionProofs`)

| Code | Model |
|---|---|
| `call`: flag, `Pending` entry, write, wait, time out | `CheckClosed`, `Register`, `WriteRequest`, `ReturnAnswer`, `ReturnTimeout` |
| `start_download`: expect with the mirror, call, forget on error | `ExpectDownload`, ..., `ForgetDownload` |
| the reader thread and its end: flag, calls, downloads | `ReadReply`, `ReaderEnds`, `FailAll`, `AbandonDownloads` |
| the daemon: hands over, answers, reports | `DaemonStarts`, `DaemonAnswers`, `DaemonReports` |
| the connection breaks, losing what was on its way | `Disconnect` |

Each thread makes one call, to start a download: every other call does a part of
that. `Mirror::rebuild` at the start of a connection and progress events carry no
state the properties speak of.

### `ServerSession` (in run `daemon`, proved in `DaemonProofs`)

| Code | Model |
|---|---|
| the server actor's connection, mailbox, `queued_messages`, dispatcher channel | `conn`, `inbox`, `queued`, `dispatched`; `batch` is what it has taken and handles one by one |
| socket and server | `wire`, `ServerReads`, `Relogged`, `ConnectionBreaks` |
| `handle_login`, other messages, `check_connection_status`, `process_read` | `HandleLogin`, `HandleRequest`, `Established`/`NotEstablished`, `ProcessRead`/`ReadFails`, `HandleBatch` |
| `disconnect`, `disconnect_with_error`, `SessionWatch` | `Disconnects`, `Drops`, `loss` |
| `handle_login_status` | `LoginAccepted` |
| the caller that polls for the verdict | `waiter`, `WaiterSees`, `WaiterTimesOut` |
| the daemon's reconnect loop and its rooms | `Decide`, `Relogin`, `LoginReturns`, `Rejoin`, `BackoffPasses`; `listed`, `snapshot`, `RoomCall`, `RoomListed` |

A behaviour starts logged in, as the daemon does before it serves anybody. One
room stands for all. A rejected login, a failed dial, a broken connection, a
displacement, a verdict that is too slow and an address the operations loop asks
for are faults, of which a run allows a number.

### Side by side: `MCNetwork`, `MCDaemon`

`NetworkProofs` proves of `MCNetwork`, and `DaemonProofs` of `MCDaemon`, that a
behaviour of the whole is one of each part, so that the parts' theorems hold of
the compositions. Both hold several parts that share no variable. A behaviour is of one part, which
`part` names from the start, and the others rest in their initial state: so a run
explores the sum of the parts' state spaces and not their product, and nothing is
lost, since no action of one reads a variable of another. The peers and the tree
share the loop's thread in the code; each has a channel of its own here, which
allows every order the shared one does among the operations of one part.

## Runs

| Run | Instance | What it shows |
|---|---|---|
| `uploads` | 2 peers, 2 requests, 2 slots, nobody or everybody a donor, streams that fail or are cancelled, 2 operations in the channel | `NeverOversubscribed`, `OneLedger`, `RightPeer`, `AcceptedIsRouted`, `ImplementsSlotService`, `TypeOK` with slots raised and lowered, threads pumping beside the loop, actors coming and going with mail on its way |
| `upload_order` | 3 requests for at most 2 slots, which are only lowered; at first nobody, then either peer is a donor | `NoIdleSlot`, `NoDonorOvertaken`, `FirstComeFirstServed` while donor lists change under those who wait |
| `upload_liveness` | 1 slot, 2 requests | `OffersSettle`, `NobodyWaitsForever` |
| `upload_slots_raised` | as `upload_order`, slots also raised | `NoIdleSlot` is violated |
| `upload_peer_departed` | 1 slot, 1 request | `DepartedFreesSlots` is violated |
| `downloads` | 2 downloads of one file, 2 threads, one token shared by both offers, all calls, refusals, unreachable peers and second offers | `ClaimOnce`, `VerdictStays`, `CancelHolds`, `TypeOK` |
| `download_resume` | 3 downloads of one file of 3 chunks, 3 threads, 2 tokens, pausing | `WholeFile`, `NoOrphan`, `TransfersSettle` |
| `download_repeated_token` | 1 download | `NothingVanishes` is violated |
| `download_refused_late` | 1 download, 1 thread, refusals only | `NoTransferAfterFailure` is violated |
| `download_overlap` | 2 downloads, cancelling | `OneWriter` is violated |
| `network` | see below | peers: `NoZombie`, `NoOrphanThread`, `NothingStranded`, `SuccessorStays`; tree: `LinksHaveThreads`, `PlaceIsTold`, `RoomIsTold`; remote client: `CallsAreTold`, `CallerHears`, `NothingLeftBehind`; `NetworkTypeOK` |
| `daemon` | 2 clients, every buffer of 1, a cap of 1 connection, 2 events; 3 faults and 1 room call | hub: `SlotsCounted`, `NoBlindClient`, `NoGaps`, `ImplementsEventFeed`, `SlotComesBack`; session: `VerdictIsTheServers`, `RoomsRejoined`, `LossIsSeen`, `DisplacedStays`, `LossIsRepaired`; `DaemonTypeOK` |

Why the bounds are enough to be interesting. Two peers and two slots make every
pair of tables hold something at once and let two threads end while the loop has
a pump outstanding; three requests are more than the slots and let a donor
overtake and one of each standing be left waiting. The channel bound only delays
actors: with two places an acceptance and the end of its connection are both
under way. Two downloads of one file with two threads are the least that can
claim twice, share a token and share a partial; three attempts at three chunks allow two cuts at different
offsets before the file is whole. The runs of uploads are symmetric in the peers
except the ones that check liveness. Deadlock is checked for uploads, which can
always go on; a bounded number of downloads does come to an end, so those runs
set `CHECK_DEADLOCK FALSE`.

`download_resume` excludes second offers, cancelling and removal. Each of them
breaks one of its properties, for the reasons given in section 6, and the run
would then say nothing of resuming.

`network` explores three scenes of peers, each with two users, two actors and one
operation in the channel when another arrives: a download while its peer and
another dial in and `max_peers` was set to 0 (which is 1); a search to answer at
a registry of one; a download while another dials in, the capacity moves between
1 and 2 and the client is stopped. Two actors are the least that can replace,
evict or refuse each other, and the report of one may then wait while the other
takes its name. The tree has two candidates, a link for each, one child, limits
of 1 and 2 and claimed levels of -2 and 0. Candidates are told apart by link, so
a third would repeat what two show; a level above 0 differs from 0 only in whose
root it is, which the branch root sets anyway. The remote client has two threads
and two titles, which they may share.

`daemon` has two clients at a cap of one, so that one is refused while the other
is served or leaving; buffers of one fill with the first thing left unread, and
the second event then finds a full queue. Three faults let a session be lost,
fail to come back once and be lost or displaced again. Both runs set
`CHECK_DEADLOCK FALSE`: connections, events and faults are bounded and run out.

How a stream ends makes no difference to the queue beyond its label, so the runs
that are about order and liveness let every stream complete, and `uploads` lets
it fail or, when asked to, be cancelled.

## Fairness

`UploadQueue.Fairness` assumes what the threads' own structure gives:

- the loop pumps when it owes a pump (weak), and takes its channel in order
  (strong: a sweep may come between), because `recv_timeout` returns the head
  whenever there is one;
- the sweep runs every second whatever the traffic (strong, per offer:
  `operations/mod.rs` tests the clock on every turn of the loop);
- the server answers a `GetPeerAddress` (strong), with a port or with 0;
- an actor's mailbox is drained (weak), or the message is lost with its actor;
- a stream ends (weak): `serve_file` sets deadlines on its socket, and its thread
  then pumps (weak).

No peer is assumed to answer, connect or leave. `NobodyWaitsForever` holds under
the further assumption `Resolvable`, that an address somebody waits for becomes
known in the end; without it the slot of section 6 is lost.

`Downloads.Fairness` has each thread run (weak) and, among what a read may
return, not "nothing yet" for ever (strong): after `STALL_DEADLINE` a read that
brings nothing is an error. Callers, the loop and peers are assumed to do
nothing, and a download left paused is not promised a verdict.

`HubFairness` has each of a connection's three threads go on while it can (weak):
the pump, the writer, and the one that reads requests. A thread blocked on a full
channel or socket is not enabled. The client need not read, ask or close.

`SessionFairness` has the actor loop and the reconnect loop go on (weak), the
server read what it is sent (weak) and the polling caller see a verdict or time
out (weak). `ReadFails` is strong: the actor reads its socket on every tick, and a
message from elsewhere can only delay the tick. A verdict that can no longer come
is given up without it counting as a fault, since the caller's deadline is its own.

## Proofs

Every invariant that a passing run checks is a theorem, and so is every action
property and both refinements. Each theorem holds for all values of the constants
that satisfy the named assumption of its module, and under no other hypothesis
than the table gives.

### Uploads

For any sets of peers and files, any number of slots and requests and any channel.

| Module | Theorem | States |
|---|---|---|
| `UploadQueueProofs` | `TypeCorrect` | `Spec => []TypeOK` |
| | `SlotsBounded` | `Spec => []SlotBound` |
| | `LedgersDisjoint` | `Spec => []OneLedger` |
| | `PumpsRespectSlots` | `Spec => NeverOversubscribed` |
| | `DonorsFirst` | `Spec => NoDonorOvertaken` |
| | `ArrivalOrder` | `Spec => FirstComeFirstServed` |
| | `SlotsAreUsed` | `SpecLowering => []NoIdleSlot` |
| | `TokensKeepTheirPeer` | `Spec => []RightPeer` |
| | `AcceptedAreRouted` | `Spec => []AcceptedIsRouted` |
| `UploadRefinementProofs` | `Refinement` | `Spec => ImplementsSlotService` |

`SlotBound` (no more in flight than the most slots there may be) is not checked by
a run of its own, because `NeverOversubscribed`, which one checks, implies it. The
inductive invariant `IInv` is `TypeOK`, `OneLedger` and `SlotBound` joined to
two facts about the queue: arrival numbers are distinct (`DistinctSeq`) and none
is above the counter (`SeqBound`), which a new request needs to be distinct in
its turn. Each part is there for another. `SlotBound` is not preserved by a pump
unless the tokens it mints are new, which `TypeOK` gives: the keys of `uploads`
and `active` are below `nextToken` (so both tables are finite, and their
cardinalities can be added). With distinct arrival numbers `Place` tells the
served jobs apart, `Best(queue, n)` has at most `n` members and `TokenOf` is
injective on it, so a pump adds no more offers than slots are free. `OneLedger`
is needed for `SpawnServe`: a token leaves one table as it enters the other, so
`InFlight` does not grow. The ranking lemmas come first, then what a pump, a
`SpawnServe` and a release do to the tables, then one lemma per part of the
invariant with a step per action. `PumpsRespectSlots` follows from the same
lemmas (`Growth`): whatever does not pump does not raise `InFlight`.

Order needs one thing more, `Graded`: a waiting job carries the standing its peer
has by the latest list. Only a pump makes an offer (`OnlyPumpsOffer`), and it
takes a job together with all that come before it (`ServedFromHead`).

Routing needs `NoneAhead`: no message, actor or waiting list holds a token that
is still to be minted. A pump's new offers are then met by no old message, and
the rest of `RouteInv` is `RightPeer` and `AcceptedIsRouted` themselves.

The refinement rests on two one-for-one maps: waiting jobs to waiters (jobs are
told apart by `seq`), which makes a waiter's `Turn` its `Place` less one; and
tokens in flight to holders (by `OneLedger`), which makes the service's `Free`
what a pump has to give. A pump is then a `Grant` in which each takes the ticket
of its turn (`PumpHolders`), and every other step is looked at once.

`SlotsAreUsed` is of `SpecLowering`, in which slots are only lowered: where they
are raised the invariant is false, as the run `upload_slots_raised` shows. From
`IInv` it is inductive as it stands. A step that leaves `owed` and `ended` as
they are adds nobody to the queue and takes nothing out of flight, and a pump
either empties the queue or fills the slots (`Best` has `n` members when the
queue has as many).

### Downloads

For any peers, files, callers' calls, mishaps, tokens, threads and sizes.

| Module | Theorem | States | Where |
|---|---|---|---|
| `DownloadsProofs` | `DownloadsTyped` | `Spec => []TypeOK` | always |
| | `OneThread` | `Spec => []ClaimOnce` | always |
| | `VerdictsStay` | `Spec => VerdictStays` | always |
| | `CancelsHold` | `Spec => CancelHolds` | `NoRepeat`: no token is offered twice |
| | `NothingIsOrphaned` | `Spec => []NoOrphan` | `NoSecondOffer`: no file is offered again while in transfer |
| | `FilesAreWhole` | `Spec => []WholeFile` | `Unmixed`: one peer, callers that only pause, no mishap but second offers |

The three hypotheses speak of the constants `Users`, `Calls` and `Mishaps`, each
is met by the run that checks the property, and none can be dropped: a peer that
offers twice with one token makes two rows answer to it (section 6, 3), a second
offer moves a row to a token its thread does not look under (end of section 6),
and a cancel lets two threads write one partial (section 6, 5). Two peers that
send different bytes under one name, or a refused or declined download that frees
its file for a second one while a thread still writes, mix a file as well.

`IInv` says of the store that rows have a place and a caller of their own
(`Store`), of the threads that none is without an open file when it needs one
(`Running`, `Disk`), that a download some thread has claimed never goes back to
the queue (`Claimed`), and that who was told of a cancel has a cancelled row or
none (`Heard`). `ClaimOnce` is part of `Claimed`: a claim takes a queued row, and
nothing makes a row queued again that was not. Lemmas about the lookups come
first (what the first row under a token is, what a retoken or a removal leaves),
then one lemma per kind of step on the store, and the actions are cases of these.
For `CancelHolds`, `TokensTell` adds that a token tells which download it is, so
that a thread that finds a row finds its own. For `NoOrphan`, `Attended` adds that
what is live under a token is the first row to have it. For `WholeFile`, `Sole`
adds that one download of a file is unfinished at a time, that each thread's row
is live (`Owned`), and that every partial is a prefix of what its peer sends,
as long as its thread counts it to be (`Partials`).

### Connections, tree and daemon

| Module | Theorem | States |
|---|---|---|
| `PeerNetworkProofs` | `NoNameIsLost` | `PeerSpec => []NoZombie` |
| | `NoThreadIsLeft` | `PeerSpec => []NoOrphanThread` |
| | `SuccessorsStay` | `PeerSpec => SuccessorStays` |
| | `NobodyIsStranded` | `PeerSpec => []NothingStranded` |
| | `ConnectionsTyped` | `PeerSpec => []PeerTypeOK` |
| `DistributedTreeProofs` | `LinksAndThreads` | `TreeSpec => []LinksHaveThreads` |
| | `PlacesAreTold` | `TreeSpec => []PlaceIsTold` |
| | `RoomsAreTold` | `TreeSpec => []RoomIsTold` |
| | `TreeTyped` | `TreeSpec => []TreeTypeOK` |
| `RemoteSessionProofs` | `EveryCallIsTold` | `RemoteSpec => []CallsAreTold` |
| | `NothingIsLeft` | `RemoteSpec => []NothingLeftBehind` |
| | `StartedIsHeard` | `RemoteSpec => []CallerHears` |
| | `RemoteTyped` | `RemoteSpec => []RemoteTypeOK` |
| `NetworkProofs` | `NetworkTyped` | `MCNetwork!Spec => []NetworkTypeOK` |
| `DaemonProofs` | `SlotsAreCounted` | `HubSpec => []SlotsCounted` |
| | `NobodyIsBlind` | `HubSpec => []NoBlindClient` |
| | `StreamsAreWhole` | `HubSpec => []NoGaps` |
| | `HubIsAFeed` | `HubSpec => ImplementsEventFeed` |
| | `VerdictsAreTheServers` | `SessionSpec => []VerdictIsTheServers` |
| | `LossesAreSeen` | `SessionSpec => []LossIsSeen` |
| | `TheDisplacedStay` | `SessionSpec => DisplacedStays` |
| | `RoomsAreRejoined` | `SessionSpec => []RoomsRejoined` |
| | `DaemonTyped` | `MCDaemon!FairSpec => []DaemonTypeOK` |

Where a property names an exception (`muted`, `late`, `leftover`, `torn`,
`overtaken`, `slipped`, `hungUp`), so does its theorem: the exceptions are the
disagreements of section 6, and the proof shows that there is no other.

- *Hub.* A step counts one connection in, one out, or none (`Counting`); the set of
  counted connections is finite because it grows by one at a time, so `Clients`
  may be infinite. `NoBlindClient` needs to know that a writer ends only when its
  socket is shut, its client gone or its connection leaving (`WriterInv`).
- *Event stream.* `FlowInv` says that the events in the three buffers of a client
  (socket, writer's channel, subscriber's queue), in this order, ascend and are
  exactly those after the last it got, up to one that is the last published as
  long as it is subscribed. The events of a buffer are a set with an order
  (`EventsOf`, `Ascending`, `Before`), with lemmas for what `Append`, `Tail` and
  `\o` do to it, and a step moves one event from the head of one buffer to the
  end of the next. The refinement of `EventFeed` follows: a step that leaves the
  events on their way as they are leaves `LastOf` alone (`LastStays`), a published
  event is the newest of those it reaches, and what is read is the next.
- *Session, verdicts.* An accepted verdict is found only where it was put: `VerdictInv`
  says of each place a verdict may lie (the wire, the batch, what is queued or
  dispatched) that the connection it came by is the one we have, or that the
  verdict is a leftover.
- *Session, losses.* `LossInv` (a connection that is over has recorded why) is
  preserved by all but the end of an accepted login, which is `muted`. `RetryInv`
  adds that a repeated login is on its way only while the session counts as lost,
  that a caller polls only while the loop is calling, and that a displaced session
  has no connection: so no login of the loop's can be under way when the
  displacement is recorded, but one it had given up (`late`).
- *Session, rooms.* `RoomInv` follows the wish for the room from the daemon's list
  to the server. `Lines` says where messages can lie at all; `Told` that the last
  word in mailbox, batch and socket is the one wanted, or there is none and the
  server has us where we want to be; `CopyInv` that the copy is the list until it
  is rejoined; `AboutToRejoin` and `Rejoined` carry this from the accepted login
  to the rejoining.
- *Remote client.* `PendingInv` says where a call stands between its
  registration and its answer and `ReaderInv` that a live connection has a
  reader, without which the break of the connection would tell nobody.
  `NothingLeftBehind` adds `LeftInv`: after the end only a call that will still
  forget it has a title registered. `CallerHears` is carried through the call by
  `HearInv`.
- *Tree.* Link numbers are used once (`NumbersOnce`); with that a `Closed` on its
  way can speak of one entry only, and the three parts of `LinksHaveThreads`
  (`EntriesLive`, `ThreadsKnown`, `ParentAlone`) are inductive together. What
  the server believes is a stance of branch, parent and room (`StanceInv`). It needs one thing more than the two
  properties: a move that waits to be told was made under a parent that is still
  there, unless the parent was lost meanwhile (`MoveHasParent`), because the sweep
  says "has a parent" without looking. Steps are grouped by what they tell: nothing
  (`StanceKept`), the room, or the place (`Announcing`).
- *Peers.* `PeerInv` joins the types (`Tables`, `World`), `Fresh` (an id is handed
  out once), `ReportInv` (each report on its way is the only one of its actor,
  names the right user, and a registered actor that is over has one) and
  `OrphanInv`. All steps are first looked at for what they do to the two tables:
  actors are added and stay what they have become (`Kept`), and names go from an
  actor that is told to end to one that is new (`Handed`). `NoOrphanThread`
  follows from that alone. For the reports a step is quiet, or one actor speaks
  for the first time, or the loop hears a report and removes who made it.
  `NothingStranded` needs to know where a request is at each moment: `WayInv` says
  that a queued download whose peer has the name is tended (its actor is still
  dialling, has the request in its mailbox or will be given it by an operation on
  its way, or has ended with an error that is on its way to fail it) and that one
  whose peer has no name is sought (an address is asked for, a token waits for a
  connection, an actor is about to register). `Standing` keeps the holder of a
  name from being told to end behind our back, and `TokenInv` keeps a token with
  the user it was minted for. Each step either takes one of these to the next or
  is the peer's hanging up.
- *Side by side.* A step of `MCNetwork` is a step of one part and a stutter of the
  others (`StepOfEach`), so its specification implies theirs; `NetworkTypeOK` is
  the three type theorems together. `DaemonTyped` is obtained likewise.

### Model-checked only

- What is live: `OffersSettle` and `NobodyWaitsForever`, `TransfersSettle`,
  `SlotComesBack`, `LossIsRepaired`. Liveness under fairness needs `ENABLED`,
  which is out of the proof system's reach.
- The runs that expect a violation: TLC's counterexample is the result.
- What a recursive definition computes for every input would need induction with
  an operator for its hypothesis, which no installed prover can instantiate. The
  ranking of uploads and the lookups of downloads are written without recursion,
  and no module declares a `RECURSIVE` operator.

## Where code and comments disagree

1. **A raised slot count waits for somebody else to pump** (`upload_slots_raised`).
   `Client::set_upload_slots` only stores the count, though `pump_upload_queue` is
   said to be "called whenever the queue or the slot count could have changed".
2. **A departed peer can hold a slot for good** (`upload_peer_departed`). An
   accepted offer whose address is answered with port 0 has no timeout any more,
   and a clean close releases nothing; the comment in `operations/peers.rs`
   relies on an erroring transfer, but none was started.
3. **A repeated TransferRequest deletes its download** (`download_repeated_token`).
   `UpdateDownloadTokens` adds under the new token and removes by the old one;
   when they are equal both go, and the caller is told nothing.
4. **Told failed, then transferred** (`download_refused_late`). The peer offers
   the file, then takes it back or drops its control connection;
   `process_failed_uploads` tells the caller under the read lock, the file
   connection of the offer claims the row, and the thread runs for a caller who
   was told it failed. The loop's next step, under the write lock, removes the row
   whatever it is by then. The run allows no other mishap, so this is the only
   way to the violation. `download_with_metadata` has the same gap between its
   telling and its `update_download_with_status` (`DownloadDeclined`,
   `FailDeclined`); there the row is marked failed and stays.
5. **Cancel and download again overlap on one partial** (`download_overlap`). The
   claim is per row, the `.part` per file name, and the unlink comes after the
   lock was released. With two chunks the file promoted in the end is corrupt.

More were met that have no run of their own. Where one is an exception to a
property that holds otherwise, a history variable marks it and the property names
it, so that the exception is exactly as wide as stated.

| Mark | What happens | Property |
|---|---|---|
| `muted` | the writes that follow an accepted login fail and record the loss, then the watch is cleared (`actor/server_actor/handlers.rs:391`): the session is over and nothing says so, against `client/mod.rs:720-723` | `LossIsSeen` |
| `late` (session) | a login given up after its timeout is accepted later: the session lives, the rooms are not rejoined until the next loss, and a displacement recorded meanwhile is cleared | `RoomsRejoined`, `DisplacedStays` |
| `leftover` | a connection dropped in the middle of a batch leaves the rest, verdicts included, in `queued_messages` for the next one | `VerdictIsTheServers` |
| `torn` | the list of rooms is copied, then rejoined, while clients join and leave | `RoomsRejoined` |
| `overtaken` | the sweep tells the server of a waiting move as "has a parent" after the parent was lost (`distributed.rs:274`, `operations/mod.rs:44-54`) | `PlaceIsTold` |
| `slipped` | a child found dead in a relayed search or a broadcast stance makes room nobody announces | `RoomIsTold` |
| `hungUp` | a QueueUpload is lost in the mailbox of an actor whose peer closed cleanly; the row stays `Queued` | `NothingStranded` |
| `late` (remote) | a call that saw the flag unset registers after `fail_all` and, if its write still succeeds, waits out `CALL_TIMEOUT` (`remote/mod.rs:176`) | `CallsAreTold` |

Others are not in any property's way: a second offer of a file in transfer moves
its row to a token its thread does not look under, which leaves it `InProgress`
for ever; a cancel that falls between a thread's first look and its opening of
the `.part` leaves the partial behind if sending the offset then fails
(`start_transfer`), though the user manual says that cancelling deletes it; an
actor asked for by the server and refused by a full registry is not answered
with a CantConnect; at the cap a connection that is just being refused still
counts, so another may be refused with it; two calls of one remote client for one
title share its registration, and the later is told; and a brokered connect that
expires also fails the queued downloads of a user who has connected meanwhile.

## What is left out

- Wire formats, compression, hashing, share scanning, persistence formats, port
  mapping, command line and terminal UI: data or plain I/O without the
  interleavings this project is after. They are most of the lines of the
  repository.
- Rooms, social state and the collection of search results fold one event at a
  time under one lock.
- The download speed limit is one number under one lock, and what is claimed of
  it is about elapsed time, which the models do not measure.
- Handshake permits and deadlines of the listener: a guard value returns the
  permit on every path by construction.
- Cancellation of a server session (`client/cancel.rs`), and what the daemon
  resends after a login besides rooms (interests, statistics).
- The budget of relayed searches and the arithmetic of the child limit.
- Lock poisoning and failing to spawn a thread, except where a thread that never
  started is one of an action's outcomes (`LinkBreaks`); every section under a
  lock is taken to succeed.

## Plan

1. `UploadQueue` together with `PeerNetwork`: the errored end of an actor that was
   replaced releases its successor's uploads (`operations/peers.rs:62`), and
   finished transfers protect their peers from eviction (`client/context.rs:739`).
   The slots' properties should survive replacement; which do not is a finding.
2. `Downloads` with several peers: `WholeFile` when no two of them send one file
   name, which replaces the hypothesis of one peer by one about names.
3. An abstract session (logged in, lost, displaced, in the rooms wanted) of which
   `ServerSession` is an implementation.
4. `RemoteSession` joined to `Downloads`, so that a verdict the daemon reports is
   one the store has come to.
5. The listener's permits and the rate limit, if a property is found that is not
   about elapsed time.
