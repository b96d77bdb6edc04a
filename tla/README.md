# Weightless in TLA+

Weightless is a BitTorrent tracker with a registry and a usage economy
(`cmd/tracker`, `internal/tracker`) and a downloading client (`cmd/wl`,
`internal/client`). This directory models the parts of both that keep state and
run concurrently, checks them with TLC on small instances and proves nearly all
of their safety properties with TLAPS for every instance.

Run a model with `tlc -config Swarm_start.cfg MCSwarm`, a proof with
`tlapm UsageSyncProofs.tla`. `PROJECT.json` lists runs, mutants, findings,
hazards, theorems, and the source lines each definition stands for.

## Inventory

| Component | State | Operations | What makes it correct |
|---|---|---|---|
| Usage sync (`state.go`, `cmd/tracker/main.go`) | deltas per user in RAM, `usage_backlog` table, a batch per flush | TrackUsage, FlushUsers, backupUsageToDB, DrainBacklog, ticker, shutdown | each credited byte is delivered once; nothing is subtracted that was not sent; the process ends |
| Swarm state (`state.go`) | peers in RAM, `peers` table | UpdatePeer, RemovePeer, FlushToDB, PruneMemory, LoadFromDB | a crash loses only what came after the last good flush; stale peers go |
| Announce (`announce.go`) | a handler per request | blocklist, registry, credit, update, completion, answer | a blocked hash is refused; credit is what was transferred |
| Registry, writes (`registry.go`) | `registry`, `blocklist` | POST, DELETE | a takedown closes both hashes of a hybrid |
| Registry, reads (`registry.go`) | none; pages of a search over changing rows | HandleSearch, lookups by hash | pages neither repeat nor miss rows |
| Scrape (`scrape.go`) | a handler per request | registry, blocklist, counts | a blocked hash is not answered for |
| Rate limiter (`ratelimit.go`) | a bucket per IP | Allow, LimitMiddleware | burst and rate hold; the map stays bounded |
| Swarm download (`swarm.go`) | piece queue, results, peer pool, piece states, three atomics | workers, collection loop, supervisor | no piece is lost or fetched twice; Start returns, if peers let it, with the right answer, leaving nothing behind |
| Peer connection (`peer.go`, `downloader.go`) | choke state, piece buffer, addresses heard, two byte streams | handshakes, downloadPiece, peer exchange | no deadlock with the peer, no byte at a wrong place, no address lost |
| Metadata exchange (`metadata.go`) | the dictionary so far | FetchMetadata over one connection | what is accepted is what the hash names; a correct peer is not refused |
| Bencode (`validate.go`, `findBencodeEnd`) | none | Validate, findBencodeEnd | accepts the grammar within its limits, no more and no less (key order aside) |
| Torrents (`internal/torrent`) | the hashers, the dictionary | Create, CreateStream, Parse | a hash for every piece, and the right one; layers that verify |
| Storage (`storage.go`) | files | Preallocate, WritePiece | every byte of a piece lands at its place |
| `wl get` (`cmd/wl/main.go`, `downloader.go`) | its two sessions with the tracker, the dictionary in hand | registry, peers, announces, download | it leaves the swarm; completions are earned; what it saves is what the magnet names |
| Passkeys, recognition of parameters, index, health, metrics | none | | not modelled, see below |

The components meet in a few places. An announce handler reads and writes the
swarm state and credits the user (TrackUsage). The ticker goroutine runs
FlushToDB, FlushUsers and DrainBacklog in this order; the signal goroutine runs
the same three after it joined the ticker. A takedown works on the same tables
and maps as announces and flushes, without a transaction. In the client, `wl get`
announces, starts a swarm, whose workers each drive one peer connection and whose
collection loop writes to the storage. A connection also serves the metadata
exchange, and what a torrent's creation hashed is what storage writes again after
parsing: `Torrent` closes that circle. Every handler of the tracker runs behind
the rate limiter.

Hard behaviours: HTTP calls and SQL statements outside the lock, with state read
before and used after; lost answers and failed statements between two effects;
crashes between them; the supervisor that decides from counters; sends on an
unbuffered channel that nobody may be receiving from; choke and unchoke at
moments the request loop does not expect; raw bytes that follow a bencoded header
without a separator; v1 pieces that run across files while reads return any number
of bytes; pages of a table that changes between the requests. `PROJECT.json` lists each hazard at its
line with the properties that watch it.

## Modules

| Module | Stands for | Notes |
|---|---|---|
| `UsageSync` | usage sync and shutdown | every lock section, SQL statement and Hub call is a step of the ticker or the final flush |
| `UsageLedger` | what usage sync promises | credit, deliver; owed grows only with what is earned |
| `MCUsageSync`, `UsageSyncProofs` | instance, proofs | |
| `Tracker`, `MCTracker`, `TrackerProofs` | announces, scrapes, registry POST and DELETE, flush, prune, restart | every SQL statement and lock section is a step |
| `SeederCredit`, `MCSeederCredit`, `SeederCreditProofs` | the counter of one peer, and the credit made from it | finer than `Tracker` in GetPeer, TrackUsage, UpdatePeer |
| `Swarm`, `MCSwarm`, `SwarmProofs` | workers, collection loop, supervisor | one step per channel operation, lock section or atomic |
| `Fetch` | what `Swarm.Start` promises | `Safe` is the promise without the return, `Ends` the return unless peers are at work for ever |
| `PeerWire` | one connection: handshakes, pieces, peer exchange | refines, informally, the dial and download steps of `Swarm` |
| `Bencode` | Validate and findBencodeEnd as operators over bytes | with the grammar of bencode as the reference |
| `Metadata` | FetchMetadata on a connection of `PeerWire` | extends `PeerWire`; how a header is written and read is a parameter |
| `MetadataHeader`, `MCPeerWire` | that header, byte by byte | extends `Metadata` and `Bencode` |
| `PeerWireProofs` | proofs about `PeerWire` and `Metadata` | |
| `Storage` | WritePiece over any layout | one step per file of the walk |
| `Torrent`, `MCTorrent` | creating, parsing, and then downloading into `Storage` | extends `Storage`; one step per Read and per part hashed |
| `StorageProofs` | proofs about `Storage` and `Torrent` | |
| `Get`, `GetProofs` | `wl get` and the tracker's view of it | one connection and the swarm are one step each that succeeds or fails |
| `RateLimiter` | Allow | |
| `Front`, `MCFront`, `FrontProofs` | LimitMiddleware in front of HandleSearch and of what changes the registry | extends `RateLimiter`; the proofs are about both |

State keeps the names of the code where it can; the comment at each VARIABLE says
which Go value or table it is. Variables marked *observed* do not exist in the
code: they record history that a property needs (`earned`, `lost`, `unacked`,
`removed`, `dropped`, `reloaded`, `snapAgo`, `savedAgo`, `late` of a request, `total`,
`spent`, `born`, `heard`, `first`, `changes`, `late` of `Get`, and `lost` of `Front`). Operators
with a comment that begins *Mutant* are plausible bugs; each property is shown to
fail under one of them.

Abstractions worth knowing:

* `UsageSync`: a delta is a record of two naturals. A 200 means that the Hub has
  counted the payload, a *replyLost* that it has and the tracker does not know.
  A failing SELECT of the drain is a fault; errors of `rows.Scan`, which skip one
  row until the next tick, are left out.
* `Tracker`: a peer is its id and age; address, Left and counters are left out.
  Time is counted in units that divide the expiry and the prune period, and a
  prune that is due is not delayed by a whole unit. Each DELETE of `Del` has a
  handler of its own and they overlap freely; a POST falls between the two queries
  of a DELETE only where `PostBetween` is TRUE. The transaction of FlushToDB
  inserts row by row; while it is open, other statements that write wait or fail.
* `Swarm`: a dial and a piece succeed or fail at any time. `PromptWorkers` says
  that a worker is not held up between `<-peerChan` and `inFlight.Add(1)` over
  two polls, 250 ms apart.
* `PeerWire`: whether the peer serves correct blocks (`honest`) is chosen in the
  initial state, so one run covers both kinds. A unit of data stands for its place in the torrent, so that equal
  data means equal hash.
* `Metadata`: payloads are sequences of bytes, and the hash of bytes is the bytes.
  `Header` and `ReadHeader`, the writing and reading of a header, are parameters of
  which it assumes only that a header is read as it was written and ends within its
  payload (`HeaderAssumption`). A peer off the protocol may answer with any two
  strings of `OddHalves`, one after the other.
* `MetadataHeader` gives the two with the operators of `Bencode`; the keys `msg_type`
  and `piece` are one-letter strings, and `total_size`, which the code ignores, is
  left out.
* `Bencode`: lengths of strings stay far below the width of an int, so the
  overflow test of findBencodeEnd never fires; the one of Validate is modelled.
* `Torrent`: a hash is a record of what was hashed. The names of files, paths and
  optional fields are left out, so a layout is a sequence of lengths; lengths are
  natural numbers. A dictionary that has both a length and a file list, or negative
  lengths, is not generated.
* `Get`: the tracker's handling of one announce is one step; a hash is the
  dictionary it names, so that a hybrid magnet can name two.
* `Front`: the filters of a query are one Boolean per row, which a POST may change.
  The client of a search asks for the rows after those it has until it gets none.
* `RateLimiter`: tokens are integral units; the code's floating point is not
  modelled.

## Runs

| Run | Checks | Shows |
|---|---|---|
| `UsageSync_faults` | TypeOK, PayloadCovered, RowsInFlight, NoEmptyEntry, Conservation | with every Hub outcome, failing SQL, timeouts of the shutdown and crashes, each byte is owed, counted or accounted as lost or counted twice, and no step takes away what is not there |
| `UsageSync_once` | ExactlyOnce, ShutdownCompletes, AllDelivered | without lost answers the pass implements `UsageLedger`, an exit loses nothing, the shutdown ends and the backlog drains |
| `UsageSync_unreachable` | ExitLosesNothing | **violated**: an unreachable Hub at shutdown |
| `Tracker_safe` | TakedownComplete | three DELETEs of a hybrid that overlap, by either hash, with a failing statement and a restart |
| `Tracker_dieout` | BlockedRejected, FreshPeers, CrashLosesRecent, BlockedDiesOut | announces, scrapes, a takedown, flush and prune with a failing statement and a restart: late requests are refused, peers expire, a flush that fails half way costs nothing, and a blocked swarm dies out |
| `SeederCredit_serial` | TypeOK, CreditWithinTransfer | a client that waits is not credited too much by one process |
| `SeederCredit_concurrent` | NoOverCredit | **violated**: two announces at the same time |
| `Swarm_start` | InFlightExact, OneToken, NoLeak, ExhaustedSound, ImplementsFetch | the bookkeeping of pieces and connections; the two polls suffice while only tracker addresses are used; `Start` implements `Fetch`: it returns once cancelled, and otherwise unless a peer keeps a worker at a piece for ever |
| `PeerWire_connection` | TypeOK, ChokeTracked, NoStall, HonestPeerVerifies, PexKept, PieceEnds; InfoExact, OneRequest, PayloadsRecognised | a connection for pieces or for the info dictionary, to any peer, with failures, and to a correct but noisy one; Validate and findBencodeEnd against the grammar on every payload that arrives |
| `Torrent_roundtrip` | BytesInPlace, PiecesHashed, LayersVerify, EveryPieceHashed | files, directories and streams to a torrent, and any torrent to files, for all small layouts, with I/O errors; the v2 hashes by the padding of the code, and by that of BEP 52 where nothing is padded |
| `Get_command` | LeavesSwarm, SavedIsNamed, CompletionEarned, GetEnds | Ctrl-C anywhere, any magnet and registry entry, announces on time, lost, late or refused, a tracker or a swarm that never answers |
| `Front_search` | WithinBudget, PagesExact, NoRowMissed | refill and the bounded map; paging through a registry that changes |

`Tracker`, `Swarm`, `Get`, `Storage` and `RateLimiter` also define a TypeOK that no
run checks: it is proved, and the base of the other proofs about them.

The two violated runs are findings of `PROJECT.json`, which quotes the line of
the repository that each property is taken from.

### Where the properties stop, and why

Modelling met further places where the code does less than a doc or comment says.
They bound the properties above; some are deliberate trade-offs.

* Takedown (`registry.go:186-224`): the registry row goes first. A DELETE that
  fails afterwards and is sent again finds no row, blocks only the hash it names
  and reports success. `TakedownComplete` therefore excepts the hashes that were
  on the list of a DELETE when it failed (`dropped`).
  `docs/API_SPEC.md:222` says both hashes are removed and blocked.
* Two DELETEs of one hybrid that overlap: the second may find the row gone, block
  only the hash it names and answer "deleted" while the other hash is still on the
  list of the first. `TakedownComplete` says that it is on that list, not that it is
  blocked when the second has answered.
* A POST between the lookup and the deletion of a DELETE can add a v1 hash that
  the DELETE removes without blocking it; hence `PostBetween` is FALSE in
  `Tracker_safe`.
* A failing blocklist query lets an announce in (`announce.go:73`), so
  `BlockedRejected` speaks of the time before the first fault and
  `BlockedDiesOut` of all of it.
* `LoadFromDB` takes rows of any age and the prune timer starts again, so
  `FreshPeers` excepts the time from a restart to the first prune; a tracker that
  restarts more often than every 30 minutes never prunes.
  The diagram `docs/IN_MEMORY_FLUSH.mmd:15,28` gives a pruner of 2 and 45 minutes;
  the code prunes every 30 minutes what is older than 60 (`main.go:42`,
  `state.go:423`).
* The comment at `swarm.go:305` says an attempt is counted from the moment the
  address is taken; there is a gap between lines 304 and 308. With peer exchange
  the two polls can fall into the gaps of two workers, so `ExhaustedSound` speaks
  of downloads with the tracker's addresses only.
* A crash after a tick has delivered the credit, before the counter is in the
  table, credits the same bytes again (`main.go:48-50`); `CreditWithinTransfer`
  is therefore per process.
* Ctrl-C during a started announce (`downloader.go:77-80`) ends the command
  without `stopped`, although the tracker may have listed the peer; `LeavesSwarm`
  covers the sessions the command knows it joined. `docs/CLI_SPEC.md:119` says
  `stopped` is announced on Ctrl-C.
* The metadata session announces Left = 0 (`cmd/wl/main.go:479`) and is counted
  as a seeder; `CompletionEarned` speaks of the download session.
* A full bucket map is thrown away (`ratelimit.go:42-44`), so `WithinBudget`
  bounds what an IP spends with one bucket, not over all time.
* Announces of one session travel on different connections: a `completed` that
  outlasts its grace period can be applied after `stopped`. `LeavesSwarm` says a
  session stays listed only if an announce of its own was given up or its
  `stopped` was refused. The tracker may refuse any announce, `stopped` too: the
  blocklist and the registry are asked before the peer is removed
  (`announce.go:71-89`), and the rate limiter before everything
  (`ratelimit.go:79-84`); the client takes the refusal for an answer.
* `downloadPiece` (`downloader.go:163-229`) has no bound of its own, and each
  message renews the read deadline (`peer.go:299`): a peer that chokes us, or does
  not answer, and keeps sending holds its worker, is counted as a connection and
  keeps `Start` and `wl get` from ending until the user cancels. `PieceEnds`,
  `ImplementsFetch` and `GetEnds` say under which conditions they end.
* The started announce has no timeout (`tracker.go:64`, `cmd/wl/main.go:486`);
  `GetEnds` excepts a tracker that never answers, until Ctrl-C.
* From peers only the v1 hash is verified (`metadata.go:104`), from the registry
  both (`parse.go:193`): with a magnet whose two hashes name different
  dictionaries, `SavedIsNamed` holds for the v1 hash.
* A v2-only magnet whose hybrid torrent is in the registry is saved and prepared,
  and announces an empty `info_hash`, which the tracker refuses. The comment at
  `cmd/wl/main.go:433` calls a magnet without a v1 hash "fine".
* Addresses heard by ut_pex during a metadata exchange are buffered "so discovered
  peers aren't lost" (`metadata.go:115`) and go when the connection is closed
  (`cmd/wl/main.go:536`); `PexKept` is about connections for pieces.
* A stream that breaks off is taken for one that ended (`torrent.go:448`): the
  dictionary has the announced length and the hashes of what came. `PiecesHashed`
  and `LayersVerify` are about streams that deliver what was announced.
* Missing leaves of a v2 tree are the SHA-256 of 32 zero bytes (`torrent.go:513`).
  BEP 52, which `torrent.go:57` and `docs/CLI_SPEC.md:70` name, sets them to the zero
  bytes themselves. For a file whose number of blocks is not a power of two a client
  that follows BEP 52 gets another root, and another hash for a padded piece.
  `LayersVerify` promises it nothing there: it says that the layers verify with the
  code's padding for all files, and with that of BEP 52 (`missingLeaf`) for files
  without padding. The golden vectors of `torrent_test.go:79` pin the padded roots;
  removing `isPowerOfTwo` from `LayersVerify` makes TLC show the difference.
* A torrent that lists no files skips the comparison of hashes with the layout
  (`parse.go:153`) and passes the guard of DownloadMVP with hashes and no bytes:
  `EveryPieceHashed` excepts it, and no piece of it is modelled.
* Without a v1 file list the files of a BEP 52 tree come in the order of a Go map
  (`parse.go:247`), not in the order of the torrent. `Torrent` takes any order, and
  its properties are about the layout that was chosen.
* Pages sorted by completions or seeders shift when counts change, and all pages
  shift when a row is taken down or edited out of the filter. `X-Total-Count` and
  the page are two queries (`registry.go:339,354`).

### Bounds, and why they suffice

* `UsageSync`: two users, so that a batch can hold one and miss the other; four
  credits, two faults and one restart, so that a credit falls before, during and
  after a POST and a second process meets the backlog of the first;
  `DrainLimit` 2 or 1, so that the limit is reached.
* `Tracker`: `Tracker_safe` has one torrent with both hashes and three DELETEs, so
  that one can find the row, one come too late and one fail, and no announces, which
  touch neither registry nor blocklist. `Tracker_dieout` has one hash, one announce
  handler, a takedown and the ticker. More handlers only add interleavings of
  announces with each other, which share no state but the map entry. `Expiry` and
  `PruneEvery` are 0 and 1 unit; one fault and one restart.
* `SeederCredit`: two handlers, a few bytes, one crash. The serial case is proved
  without bounds.
* `Swarm`: two workers and three pieces over a pool of two, with two addresses
  from the tracker and two from peer exchange, so that the pool and the queue
  fill and run empty and the two polls meet different workers.
* `PeerWire`: two pieces, the last one short, blocks that do not divide a piece,
  two extra messages (`MaxNoise`), two addresses for peer exchange.
* `Metadata`: dictionaries of two and three bytes in pieces of two, so that the
  last is full or short; their bytes look like bencode. Three skipped messages
  reach `MetaSkipLimit`. The odd payloads are all of up to four tokens of bencode,
  whole and broken ones, under limits (depth 1, one element, two keys, one byte)
  that they reach and pass; the reference knows integers up to 11.
* `Torrent` and `Storage`: up to three files of 0 to 3 bytes and single files up to
  9 bytes, in blocks of 2, with piece lengths 1 to 5 of which 2 and 4 are legal for
  creation: pieces across files, empty files, a short last piece, trees with
  padding and layers above the leaves. Reads return 1 to 3 bytes. All that
  this run checks is also proved without bounds.
* `Get`: two addresses, so that one peer can fail before another serves.
* `Front`: three IPs over a map of two, two or three rows (`SmallStarts`), pages of one and two, a scan
  limit of two, one change: before the first page, between two, or after the last
  that had rows. One unit of time, so that a bucket is used up, refused and
  refilled. Budget and pages are proved without bounds.

Where deadlock is not checked the system may stop: a process that exited, a
connection that closed, all pieces written, or the bound of a clock or counter
reached.

### Fairness

* `UsageSync_once`: goroutines that can run do run, HTTP calls return (they have
  timeouts), and a Hub that is asked again and again accepts in the end (strong
  fairness of PostOK). The last is an assumption on the Hub; without it delivery
  cannot be expected.
* `Tracker_dieout`: handlers and the ticker run; strong fairness of flush and
  prune, as the ticker's `select` chooses among ready timers at random; a
  crashed tracker is started again.
* `Swarm_start`: workers, collection loop and supervisor run, and a dial, all of
  whose parts have deadlines, ends. That a download ends is assumed only once ctx is
  cancelled, which pulls the read deadline forward. `Fetch` promises the return under
  the condition that from some time on no peer is at work (`busy`).
* `PeerWire_connection`: the worker runs, and a read ends when its deadline passes
  with nothing sent. Nothing is assumed of the peer, which may also send keep-alives
  for ever; what `PieceEnds` needs of it is in the property: it serves, or it falls
  silent. No fairness is assumed of the peer in the metadata exchange either, whose
  OneRequest is an invariant.
* `Get_command`: the command runs; registry, peers and disk answer or fail in time, a
  completed or stopped announce ends with its grace period, and a cancelled ctx ends
  the swarm and a started announce. Nothing is assumed of the tracker.

## Proofs

Each theorem holds for every value of the constants that satisfies the named
ASSUMEs, which TLC evaluates in every run; what a theorem assumes beyond them is in
its statement and below. A theorem `Spec => []P` rests on an inductive invariant:
it holds initially, each action keeps it (one lemma or step per action), and it
implies P.

**Usage sync** (`UsageSyncProofs`). `IInv` is TypeOK, PayloadCovered, RowsInFlight
and NoEmptyEntry, none of which is inductive alone, with *Exclusion* (at most one
of the two goroutines is inside a pass: the final flush starts after the ticker is
gone) and *NoRecords* (outside a drain no rows are held). PayloadCovered needs
Exclusion, since a second flusher would subtract from under the first; type
correctness needs PayloadCovered, since otherwise Subtract may go below zero;
NoEmptyEntry needs that credited deltas are not zero (the announce handler credits
only when one of the two is positive).

`Conservation` is a balance per user of seven amounts. Each action makes one of
seven moves that keep a balance (`BalanceMoves`): a credit adds to what was earned
and to RAM, a backup to the table and to what is still to be subtracted, and so on.
What an INSERT adds to the sum over the table and a DELETE takes from it is shown
by changing one summand (`SumsChange`). All faults, crashes and restarts are
included.

`ExactlyOnce`, the refinement of `UsageLedger`, and `ExitLosesNothing` are proved
for *Dependable* instances: HUB_URL set, a Hub that answers with 200 or an error, no
failing statement, a server that closes in time, no kill; restarts are included.
These are the conditions of `UsageSync_once`, and `UsageSync_unreachable` shows that
the exit needs them. `OnceInv` says that the final pass, with the server closed,
subtracts all of RAM, that the payload of a drain is the sum of the rows it read,
and that what the Hub has counted and the table still holds is the rows to delete.
With it and Conservation, what the ledger calls owed is what was earned less what
was paid; an announce is then a credit, the only step that changes what was earned
and so the only one that may add to what is owed; a successful POST is a delivery of
no more than is owed, and any other step invisible.

**Seeder credit** (`SeederCreditProofs`). TypeOK and, for a client that waits for
its answers (ASSUME Serial), CreditWithinTransfer. The invariant says more: at any
moment what was credited, plus what the session's counter has grown beyond the
remembered one, is within what was transferred, with a case for each place the
remembered counter may be in: in RAM, or read by the one handler under way.

**Tracker** (`TrackerProofs`). FreshPeers: the age of a peer and the time to the next
prune add up to at most Expiry + PruneEvery (*Aged*). CrashLosesRecent: a peer that has
not announced since a flush took its snapshot is in the snapshot with the same time
(*Snapped*); the rows inserted and those still to insert are the whole
snapshot (*Written*), so that a commit carries all of it, and a flush that fails leaves the table
of the one before. BlockedRejected: while no statement has failed a late request gets no
further than its query of the blocklist (*LateBlocked*). TakedownComplete, with failing
statements, restarts and any number of DELETEs that overlap: a DELETE that is about to
delete a row has both its hashes on its list (*Taken*), and a hash
leaves a list only by being blocked or with a failure. It assumes that no POST falls
between the two queries of a DELETE (`~PostBetween`) and `OwnHashes` (no two entries share
a hash), without which the list that a DELETE made at first need not cover what it
removes.

**Swarm** (`SwarmProofs`). InFlightExact, NoLeak, OneToken and the safety of
`ImplementsFetch` (`Fetch!Safe`). `IInv` says where a piece is (*InOnePlace*,
*NoneLost*), which state goes with each place (*StateFits*), that the atomics are
cardinalities (*Counted*) and in which order the goroutines end (*Ending*).
ExhaustedSound assumes at least two confirming polls, a pool that takes all
addresses of the tracker, and `PromptWorkers`; *Watched* says that from the first poll
that finds nothing, every worker that took an address before was seen.

**Peer connection** (`PeerWireProofs`). TypeOK, ChokeTracked, NoStall,
HonestPeerVerifies and PexKept, for any sizes and any peer, of `PeerWire` alone and
of `Metadata`, in which a connection is for either use. `IInv` relates the two
streams to the state of their readers: the last choke or unchoke under way is what
the peer does (*ChokeKnown*); a choked worker has asked for nothing and reads an
unchoke before the next block (*WaitsChoked*); the next block is requested or on its
way, or a choke is (*Owed*); what an honest peer sent answers a request and what is
buffered is a prefix of the piece (*Exact*).

InfoExact and OneRequest, of a connection for the dictionary: until the fetch begins,
and on a connection for pieces always, `IInv` holds (*Before*); from then on exactly
one answer is due, being one request at the peer, half an odd answer, or one message
in the pipe (*Fetching*), and what is collected consists of full pieces, which from
an honest peer are those of the dictionary. Of the codec the proofs use only
`HeaderAssumption`, which TLC evaluates on the bytes of `MetadataHeader`.

**wl get** (`GetProofs`). LeavesSwarm, SavedIsNamed and CompletionEarned: the way of the
dictionary (*InHand*), of the completion (*Earned*), and, for each of the two
sessions, which announces may still be under way at each place of the command
(*MetaOrder*, *DownloadOrder*). The tracker may refuse each of them.

**Rate limiter and search** (`FrontProofs`). WithinBudget: what was spent with a bucket
and what is left in it is covered by the burst and the refill until it was last
seen (*Accounted*). PagesExact and NoRowMissed, for any registry that `Starts` admits
(rows of any number, creation times, counts, with distinct hashes): the pages so
far are a prefix of the result (*Paged*), and a row that the client is waiting for has
a rank beyond what it has got, since newer rows only push it back (*Kept*).

**Torrents and storage** (`StorageProofs`). The arithmetic of WritePiece: the part
written is exactly the overlap of piece and file, and each byte goes to its own
place. From it BytesInPlace, for any layout, piece length and order of pieces, and
also after creating and parsing (`DownloadInPlace`): the walk has written what lies
before the file it is at (*Progress*), so that its offset into the piece equals the
piece when it ends. EveryPieceHashed: the number of hashes is compared with a total of
the lengths that does not depend on the order of the files (*Counted*, `SameTotal`).
PiecesHashed: between two reads the hashes so far are those of the complete pieces,
and hasher and buffer hold the bytes since (*HInv*). `BlockAssumption` says that
the block is a power of two, as it is in the code; with the check of Create a piece is
then 2^l blocks, and `PieceLevel` is l (`PieceLevelIs`).

LayersVerify: the files hashed so far have layers that verify (*Hashed*, by their order).
Behind it is a fact about trees: where the leaves of a small tree are an aligned part of a
level of a large one, so are all its levels (`Subtree`). It is used three times: a piece
is an aligned part of the leaves, so that its root is a hash of the piece layer
(`LayerHash`); behind the last piece the part is padding only (`LayerPad`); and the padded
layer is the lowest level of the rest of the tree, whose height is that over the number
of pieces (`HeightOfPieces`). With a power of two of blocks there is no padding, and any
other padding gives the same tree (`PadUnused`), that of BEP 52 included.

Start offsets, powers of two, the levels of a tree, hash state and sums over the table are
recursive functions. What they
compute is shown without induction theorems, by a least counterexample: a set of
natural numbers that is not empty has a least element (`LeastElement`, from the
well-foundedness of <).

Only model-checked:

* all liveness: ShutdownCompletes, AllDelivered, BlockedDiesOut, PieceEnds, GetEnds
  and the return (`Ends`) of ImplementsFetch;
* PayloadsRecognised: `Bencode` is written with recursive operators, which the
  prover does not handle.

## Not modelled

* GET of a registry entry, its metadata and its torrent file, index, health,
  metrics: single queries and formatting. `Get` models what a client makes of the
  torrent it is served.
* Passkeys: a stateless HMAC comparison, whose outcome is the user of an announce.
* Recognition of announce parameters, URL encoding, compact peer lists, magnet
  links as text: stateless functions on bytes. Their outcome appears as accepted or
  rejected.
* The order and limit of the peers in an answer (GetPeers, PackPeers): read-only.
* Names, paths and their containment, in torrents and in storage: a matter of
  strings and of the file system.
* Writing the `.torrent` file and the registration in `wl create`: one write and one
  POST whose failure is a warning. Files that change while they are hashed: they are
  measured and read several times (`cmd/wl/main.go:237`, `torrent.go:303,331`) and
  the code promises nothing about them.
* int64 overflow of accumulated usage: bytes are counted in Nat, and
  `CreditWithinTransfer` bounds them by what the client transferred.
* Bitfield: not used by the downloader.

## Plan

1. Compose: `SeederCredit` over `UsageSync`, so that the credit of several users
   reaches a failing Hub; `PeerWire` as an implementation of the dial and download
   steps of `Swarm`.
2. Larger instances of `Front` (several changes) and `Metadata` (deeper nesting).
