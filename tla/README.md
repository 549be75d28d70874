# masala in TLA+

masala is a name service without servers: every node keeps the addresses of some
other nodes in a Kademlia-like table, announces the address of its own host to
the nodes it knows, and finds the address of a host by asking node after node.
This directory holds TLA+ modules for the parts of it that change state, TLC
configurations that check them on small instances, and proofs checked by TLAPS.

Run `tlc -config <run>.cfg <module>.tla` and `tlapm <module>.tla` here.
`PROJECT.json` lists the runs, the source lines behind every definition, the
hazards and the theorems.

## 1. The system

| component | state | operations | works with |
|---|---|---|---|
| list (`list.c`) | cells with `next`, `prev`; `start`, `stop`, `counter` | put, ins, del, loops | under every table |
| hash (`hash.c`) | buckets of pairs: a pointer to a key, an item | put, get, del | under every table but the buckets |
| buckets (`bucket.c`) | ordered list of buckets, each a list of nodes | find best/any match, put, del, split | neighborhood |
| neighborhood (`neighborhood.c`) | per node: address, `pinged`, `time_ping`, `time_find` | put, ponged, ping, find, expire, split, lookup, announce | buckets, send_p2p |
| database (`database.c`) | host id -> address, deadline | put, update, address, send, expire | p2p, front ends |
| session keys (`cache.c`) | key -> kind, deadline | put, validate, del, expire | send_p2p, p2p |
| lookups (`lookup.c`) | lookup id -> callback, context, nodes asked, deadline | put, resolve, success, del, expire | front ends, neighborhood, p2p |
| announcements (`announce.c`) | lookup id -> nodes asked, deadline | put, resolve, del, expire | neighborhood, p2p |
| protocol (`p2p.c`, `send_p2p.c`) | clock, timers, mutex | four requests, five replies, cron | everything above |
| worker threads (`udp.c`, `thrd.c`, `main.c`) | socket, epoll, threads, `status` | read, handle, cron, rearm, stop | p2p |
| front ends (`masala-dns/web/nss/cmd`) | contexts of requests, sockets | lookup, reply, console commands | database, lookups |
| bencode (`ben.c`) | trees | validate, decode, encode | p2p |
| configuration, utilities | - | run once, or pure | - |

**How they interact.** A worker thread takes a datagram from the socket;
`p2p_parse` reads the clock and validates it, `p2p_decode` remembers its sender
(`nbhd_put`, outside the mutex) and calls the handler of its kind under the mutex.
Handlers change the tables and send packets. After every datagram, and every two
seconds without one, `p2p_cron` runs under the mutex: it expires objects of all
tables, splits, pings, looks for neighbours and announces, each off its own timer
of about two or five minutes. Front-end threads take the mutex to read the
database and to start a lookup; the lookup calls them back from a handler or from
cron. A reply is accepted if its session key is in the cache; the nodes a reply
lists are remembered, greeted, and asked by the lookup or announcement it is for.

**What is hard.** Replies come late, repeatedly and in any order; the objects of
a table sit in a list, in a hash whose keys are pointers into them, and in memory
of their own, and expiry loops delete from the list they walk; bucket splits move nodes between lists that
everything else searches; the context of a request passes from a
front end to a callback that frees it; front ends use the database without the
mutex; deadlines are computed
from a clock that only packets and cron refresh; several threads wait for one
edge-triggered socket and not everything is under the mutex. `hazards` in
`PROJECT.json` names each of them with its line and the properties for it.

## 2. The modules

Read them in this order.

| module | stands for | notes |
|---|---|---|
| `Tables` | a table, seen from outside | `With`, `Without`, and `InStep`, the agreement of list, hash and objects |
| `Sweeps` | the two kinds of expiry loops | one follows the items to the end, one counts up to a counter that it lowers itself (`CountedSweep`) |
| `ListSeq` | a list, as a sequence | the abstract specification |
| `List` | `list.c`, cell by cell | an interleaving of put, ins, del and the steps of a loop; refines `ListSeq` |
| `HashTable` | `hash.c`, pair by pair, and a table: list, hash and objects | extends `List` |
| `Bucket` | `bucket.c` | operators on a bucket list `[seq, stop]`; no variables |
| `Neighborhood` | `neighborhood.c` over `Bucket` | packets, cron, deadlines of one node |
| `Database` | `database.c` | with `Sweeps` for the loop of `db_expire` |
| `FrontEnds` | the threads of `masala-dns/web/nss/cmd`, `main` | composed with `Database` and with the workers that change it |
| `Clock` | `time_now`, cron, the timer of the expiry | extended by the next four |
| `Cache` | `cache.c` | |
| `Announce` | `announce.c`, with the keys of its requests and the entries they leave at other nodes | |
| `Resolver` | what a front end is promised | each request is answered once: abstract |
| `Lookup` | `lookup.c` and the entry points of the front ends | refines `Resolver` |
| `P2p` | `p2p.c`, `send_p2p.c`, the network | several nodes; composes the tables in abstract form |
| `Udp` | `udp.c`, the mutex, the shutdown | threads |
| `Bencode` | `ben.c` | the two walks of `ben_enc` over a value, `ben_validate` byte by byte, `ben_dec` value by value |
| `Dns` | the query and the response of `masala-dns.c` | reads byte by byte |
| `CacheProofs` (with `Announce`, `Clock`), `LookupProofs` (with `Clock`), `P2pProofs` (and `Udp`), `SweepsProofs`, `HashTableProofs` (and `List`), `NeighborhoodProofs` (and `Bucket`), `FrontEndsProofs` (and `Database`, `Dns`), `BencodeProofs` | theorems | section 5 |
| `MC...` | instances for TLC | |

Definitions keep the names of the functions they stand for. One action is one
call (or one section under the mutex), with everything it changes. A definition
marked `Faulty` is a mistake somebody could have made in the definition below it;
nothing uses it but the check that each property notices one of them.

**Correspondence.**

* `List`: a cell is a record of `val`, `next`, `prev`; `start`, `stop`, `counter`
  are variables; a loop is `sweep`, with the item it is at and, in loops that count,
  `j`. `list_ins` leaves `stop` alone when it appends to two items or more, as the code
  does (`list.c:117-123`); `behind` remembers that it has, and `Misled` says that `stop` is
  not the last item. One call is left out: `list_put` into a list that is `Misled`, and
  with it the `list_ins` into a single item, which is a `list_put`. masala does not make
  it: of all lists only the list of buckets gets a `list_ins` (`bucket.c:240`), and that
  one gets its only `list_put` while it is empty (`bucket.c:61`). What `stop` means to the
  searches for a bucket is in `Bucket`.
* `HashTable`: `object` is the memory of the objects, with the id in each; a pair is
  `[key, value]`, where `key` names the object whose id it points at, so that every
  search reads the objects (`m[p.key]`). `PutObject` and `DelObject` are the ends of
  `lkp_put` and `lkp_del` and their like in `cache.c`, `database.c` and `announce.c`:
  list, hash and object are changed by one call each, and `Findable` says that the
  three stay in step. The other modules take this for granted (`InStep` where they
  keep the three apart).
* `Neighborhood`: `nbhd` is the bucket list, `mode = "split"` is the inside of the
  loop of `nbhd_split`, `mode = "segfault"` the dereference of `NULL` in
  `bckt_find_any_match`. `time_ping` and `time_find` are set 4 to 6 minutes ahead
  at random; `Elapse` lets each of them pass at any moment. `nbhd_pinged` and
  `bckt_del` find their node again by best match; that is the node itself as long
  as `NodesInPlace` holds.
* `Database`, `Cache`, `Lookup`: `list`, `hash` and the objects are three variables,
  since the code changes them by three calls.
* `FrontEnds`: `pc` is each thread's place, between two of which it holds or has given
  back the mutex. `at[f].held` stands for the pointer that `db_address` has returned: the
  addresses its object has had since, none once it has been freed. `own` is `task` of
  `dns_loop` or `clientfd` of `web_loop`, `open` what is allocated or open, `waiting` the
  contexts of lookups under way; a lookup is no more than that here. `walk` is
  `cmd_print_database` item by item. A thread that would use freed tables or a freed
  item is `"lost"`. `steady` and `late` are history.
* `Announce`: a request is `<<lkp_id, node>>` while its session key is in the cache;
  `db` is the one entry in question at each other node. `sent`, `again`, `missed` are
  history, and `idle` says that cron had nobody to announce to when it was time.
* `Clock`: `clock` is the time of the system, `time_now` what was last read of it.
* `P2p`: a packet is a record in the set `net`; session ids are named after the
  request they are drawn for; an address stands for its node. `pinged` counts the pings
  that await an answer, as the field of `NODE` does; whom it counts none for is `Good` and
  named in replies. `nbhd_expire` deletes nodes with `PingLimit` of them, one of them or
  more at a time: which ones a pass reaches is in `Neighborhood`. A node that was deleted and
  is met again is greeted anew, under other session keys: the fifth part of a key is
  how often it had been deleted, or cron's round. `gone`, `requests` and the `trail` and
  `holders` of a lookup are history variables. Loss is not a step of its own: a packet
  need not be delivered. `ids` and `due` are bounds, named below.
* `Bencode`: recursion is a stack of calls, one step is what one call does with one item.
  `doing` is the stack of `ben_enc_size`, then of `ben_enc_rec`, which go through a `value`
  in the same way; `alloc` is what the first has counted and `sent` what the second has
  written. `calls` is the stack of `ben_validate` and `raw` what it has read: the bytes that
  `ben_enc` wrote, or, when `value` is none, a byte that is chosen when it is read, so that
  all packets are covered and none is enumerated behind the byte that breaks it. `open` are
  the values that `ben_dec` has under construction, `p` is how far it is; it is `"lost"`
  where the code would leave the packet, loop, or end the program. Values are `<<type,
  contents>>`. `marks` and `heads` are history: what `ben_enc_size` had done at each of its
  steps, and where `ben_validate` has begun to read something.
* `Dns`: `consumed` is how far `buffer` has moved, `left` is `size`, `domain` what is in
  `qName_buffer` up to `i`. As in `Bencode`, a byte is chosen when it is read.
* `Udp`: `pc` is the place of a thread; a place of `Locked` is in the section if the
  thread holds `mutex`, else in front of it. epoll and the socket are modelled from
  how the code uses them (`armed`, `event`, `socket`).

## 3. What the runs check

| run | instance | result |
|---|---|---|
| `list` | 4 cells, 4 objects with 4 ids, three of them in one bucket of the hash | cells stay linked both ways, and `stop` is the last one until a `list_ins` behind it (`WellLinked`); a loop deletes exactly what `Sweeps` says (`SweepResult`); in a table each object is found by its id and nothing else is (`Findable`); the whole implements `ListSeq`, for the calls masala makes |
| `neighborhood` | ids of 4 bits, 2 own ids in each half, 3 neighbours, buckets of 1, bad after 2 pings | no node is misplaced, doubled or lost; for own ids in the lower half the buckets are a Kademlia table and splits are bounded |
| `neighborhood_split` | own ids in the upper half | **violated**: the own bucket is split for ever |
| `neighborhood_empty` | own ids in the lower half | **violated**: an empty bucket makes a search dereference `NULL` |
| `database` | one front end at a time with 2 contexts; 2 hosts, 2 addresses, 3 seconds | the latest announcement is answered with and live ones are there (`AnswersLatest`); a client is told one whole address while the host stays (`LiveAnswersAreWhole`); a context has one owner and is freed in the end; one request is taken up after a shutdown; `print_database` shows everything once |
| `database_expiry` | 3 hosts, 2 addresses, 4 seconds | **violated**: one pass does not delete all old entries |
| `cache` | 2 keys used twice; or a node that announces to two others; 16 seconds | a request has one reply; a reply in time is accepted; keys do not linger; a node is sent an announcement once, one goes around at a time, and entries outlast one that is lost |
| `lookup` | 2 requests, 2 lookups, 9 seconds | callbacks once, nodes asked once, neither early nor late beyond the stated bounds; implements `Resolver` |
| `p2p_prompt` | without loss: a third node and a pair, or a chain of 3 nodes | a bootstrap ping is enough to join, if no other ping or find of cron's is due (`JoinCompletes`); a lookup finds a host that is within its reach, while cron pings the neighbours on the way; the reach is what those pings leave of it (`FoundIfReachable`) |
| `p2p_lossy` | 2 and 3 nodes, loss and repetition, nodes that delete each other | no request twice; a node that is good for another knows it or has deleted it as bad (`GoodIsMutual`); answers are true |
| `udp` | 3 threads, 3 datagrams | one thread reads at a time; no datagram is left; cron goes on; the shutdown ends |
| `bencode` | packets of up to 9 bytes, and the codes of values that are nested twice; or DNS queries of up to 2 questions, names of up to 5 characters | what `ben_enc_rec` writes is what `ben_enc_size` has counted (`WritesWithinBuffer`); a list or dictionary that `ben_validate` accepts is read by `ben_dec` to the same byte; what `ben_enc` writes is accepted and read as the same value; a query is read within its bounds, and its response repeats the question |

**The disagreements found.**

1. *Endless splits* (`neighborhood_split`). `list_ins` does not move `list->stop` when
   it links an item behind the last one (`list.c:121`; `list_put` does). For an own
   id in the upper half the second split is such a case. `bckt_find_best_match` then
   returns a bucket in the middle for the largest ids, `bckt_compute_id` does not see
   the bucket behind it and computes the same id again; the new bucket never takes a
   node from the full one and `nbhd_split` never leaves its loop, under the mutex. It
   takes more than 8 nodes that share the upper half with the own id.
2. *Empty bucket* (`neighborhood_empty`). `list_prev` always returns `NULL`
   (`list.c:176`), so that `bckt_find_any_match` dereferences it when the bucket that
   suits an id is empty and there is more than one. An expiry or a split that leaves a
   bucket empty, and a packet or a search for an id of it, are enough.
3. *Partial expiry* (`database_expiry`). `db_expire`, and `nbhd_expire` likewise, compare
   their counter with `list->counter`, which the deletions lower.

The comment "Expire after at least 5 seconds" (`lookup.c:93`) does not hold to the
letter either: a front end starts its lookup by the clock that the last packet or
cron has read. `NoEarlyTimeout` is the bound that does hold.

Other things the models show that contradict no text of the repository:

* Replies name no node with a ping unanswered (`send_p2p.c:389`), and cron's ping counts as
  one at once: a lookup that comes by before the pong may miss a host that is there.
  `FoundIfReachable` promises the host along nodes that have been good since the lookup
  began, without a ping of cron's since.
* When pongs are lost a node deletes another that still counts it as good
  (`neighborhood.c:313`): `GoodIsMutual` holds but for nodes deleted like this.
* `nss_lookup` starts a lookup without a callback (`masala-nss.c:72`): the answer is
  thrown away, and a host that has not announced itself to this node is never found
  through NSS. `search` of the console does the same (`AskSilently`).
* `dns_decode_query` does not take type and class off `size` (`masala-dns.c:330`): with
  `k` questions passed over, a name may be read up to `4 * k` bytes behind the datagram,
  within the buffer (`QueryIsRead` states this bound). The response states the query's
  number of questions and has one attached; a label with a dot in it, or the root, comes
  back as another name. `ResponseEchoes` is for one question and a name of a host.
* `cache_del` reads `item_sk->val` of a `NULL` pointer in an initialiser (`cache.c:98`);
  the value is not used, the optimisation of the `Makefile` removes the read, and
  `Cache` has none.
* After a shutdown `main` frees the tables while a detached front end may still use them
  for the request it has in hand (`LastRequest` says that there is no more than one).

### Bounds

* Identifiers of 4 bits allow three splits of an own bucket in the lower half, so that
  there are 4 buckets at most; for a fourth split two ids would have to hold two nodes
  besides the own one. Buckets of one node stand for eight, since the code compares only
  whether there are more.
  `PingLimit = 2` for 4: a node that is new, has missed a ping, and is bad.
  `MaxBuckets = 8` lies above the bound of 5 that `LowerSplitsAreBounded` states.
* Three hosts let a pass of `db_expire` meet a fresh entry, delete one or two old ones
  and miss one; two let it delete one and miss one. Four cells let `list_del` meet the
  first, the last, an inner one and a single one; three ids in a bucket let `hash_del`
  drop the first, an inner and the last pair.
* `FrontEnds`: one front end runs at a time (`MCBuilds`), as they share nothing but the
  tables; the proofs are for all of them together. With two contexts one lookup may end
  while the next request is in hand. `Life = 1` and three seconds let entries be
  renewed, move, and become stale while a pointer is held.
* Times: the life of a key and of a lookup is 3 for 60 and 5 seconds, the interval of
  expiry passes 1 to 2 for 60 to 179 seconds, the delay of cron 1 (`cache`) or 2 for 2; the proofs
  hold for all values. `MaxClock` lies behind the latest time at which a key or lookup
  of an early time may be there, `LastAsk` leaves lookups the time to end. Announcements
  last 1 for 10 seconds and come every 3 to 4 for 240 to 359, an entry lasts 11 for 900,
  the least that `AnnounceAssumption` admits (with 10, `StaysKnown` is violated); 16
  seconds hold four announcements.
* `P2p`: `ids` are the lookup ids that are still to be drawn (two searches or
  announcements at most), `due` the pings and finds of cron still to be sent, `Again` the
  kinds of packets that may be repeated (all replies). `PingLimit = 2` for 4: a node that
  has left a greeting and a ping of cron's unanswered, or two of cron's, is bad. Two rounds of pings in
  a pair (`Silence`) let one node delete the other, be greeted by it while replies to the
  old pings are under way, and greet it again. Three nodes on a chain are what it takes
  for one node to hear of another one from a third; in `Prompt`, pings of the first two nodes are due
  on it, which may come before, within and behind a lookup.
* `Udp`: three threads let one read, one wait for the mutex and one wait for the
  socket; three datagrams put one behind another one and one in front of `udp_rearm`.
* `Bencode`: nine bytes hold a list in a list with an integer and a dictionary in a
  dictionary. The limits on strings and integers (1 digit and length 2; 2 digits and
  value 12, where `atol` stops) are small enough to be exceeded in both ways. `Tree` is
  lists of two items and dictionaries of one, nested twice, and dictionaries of two
  tuples, over strings of both lengths and integers of either sign, one and two digits and the
  largest value; their codes may be longer than nine bytes.
* `Dns`: `QName_Size = 5` for 256 and labels of 1, 2 and (too long) 9 bytes let a name fit,
  just fit and not fit; two questions let one be passed over; `MaxDatagram = 16` holds
  both. Bytes of a label are one letter, the dot and the zero.

### Fairness

* `FrontEnds`: the dns and the web thread run on, as their waits end after a second
  (`SO_RCVTIMEO`, `masala-dns.c`, `masala-web.c`); every lookup calls back, as
  `KeepsPromise` shows of `Lookup`.
* `Lookup`: cron runs, since thread 0 wakes up every two seconds, and time passes.
* `P2p`, run `p2p_prompt` only: what is sent arrives (`WF` of `Deliver`), and what can
  expire does so only when nothing is under way, as lookups last 5 seconds and
  announcements 10. A node without neighbours bootstraps. This is a stated
  condition on the network, not a property of the code.
* `Udp`: threads run on; a thread that waits for the mutex gets it (`SF`), as the
  others hold it for short times and thread 0 sleeps two seconds between two crons. This
  takes for granted that handlers and cron end: the endless splits of disagreement 1
  hold the mutex for ever, and neither cron nor a shutdown gets through then.

`List`, `HashTable`, `Neighborhood`, `Cache`, `Announce`, `Bencode`, `Dns` and `p2p_lossy` are
safety only. Deadlock is not checked where the
model may stop because its bounds are used up or a program has ended
(`Neighborhood`, `P2p`, `Udp`, `FrontEnds`, `Bencode`, `Dns`).

## 4. Abstract specifications

* `ListSeq`: a sequence with put, insert behind, delete. `List` maps its cells to the
  sequence they are linked in (`ImplementsSequence`, TLC and proved, `ListIsSequence`).
* `Resolver`: a request is new, waiting, or answered, once, in the end. `Lookup` maps
  its calls and lookups to it (`KeepsPromise`, TLC, with liveness; the steps are also
  proved, `LookupImplementsResolver`).
* `Database` by itself is what `FrontEnds` does to the tables: `FrontSpec => Spec`
  (`FrontEndsUseDatabase`, proved).

## 5. What is proved

All theorems hold for every value of the constants that the named assumptions
admit (`ClockAssumption`, `CacheAssumption`, `LookupAssumption`, `UdpAssumption`,
`BucketAssumption`, `NeighborhoodAssumption`,
`DatabaseAssumption`, `FrontEndsAssumption`, `DnsAssumption`, `BencodeAssumption`, `NullIsNoItem`,
`HashAssumption`: the bounds are naturals, the sizes of the DNS buffers positive, `MinGap <= MaxGap`, the own id is a node, the markers for "none" are
nothing else, there is a thread, a hash has a capacity). `P2pAssumption` also says that
the acquaintances the model starts with are mutual and that nobody is his own: a node
becomes good by answering a ping, and a node that hears of another for the first time
pings it too (`nbhd_put`), so nodes that are good when the model starts have
each answered the other. `AnnounceAssumption` also relates the times:
`FindLife + MaxGap <= MinAnnounceGap` (10 + 179 and 240 seconds),
`2 * (MaxAnnounceGap + MaxLag) + Delay <= EntryLife` (2 * (359 + 2) and 900 seconds, which
leaves a request the minute its key is good for), and `Delay <= KeyTime`.
`BencodeAssumption` says what a value is that a node may send: strings are not empty and
of `StrMaxSize` at most, integers between `-IntMaxSize` and `IntMaxSize`, whose digits are
not too many for `ben_validate`, and a value consists of values (`Tree` may be infinite).
Of the packets that come from elsewhere it says nothing.

* `CacheProofs`: the inductive invariant joins types, `InStep`, and for each key the
  bounds of its deadline in terms of when it was drawn. A key's deadline alone does
  not bound how long it stays: it needs that the timer of the expiry is never too
  far ahead, which is `ClockInv`: `time_now` is at most `MaxLag` behind and the next pass
  at most `MaxGap` after it. That is inductive by itself, and the reason why deadlines
  computed from `time_now` mean anything (its lemmas are here and in `LookupProofs`).
  Of the announcements: every request that was sent is remembered by its announcement
  (`Remembered`), which gives `AnnouncedOnce`. `InTurn` orders the timers: the expiry pass
  that deletes an announcement comes before the next is due, since passes are at most
  `MaxGap` apart. `InTime` says that cron is late by `MaxLag` at most, and `Entries` bounds,
  for a node that has missed none, one, or two announcements, when its entry ends
  against when the next announcement is due. `StaysKnown` is not inductive without
  all three.
* `LookupProofs`: the invariant says of each lookup when it was drawn and what that
  makes of its deadline, that two lookups never share a task, that a waiting task has
  not been called, and that every node a `LOOKUP` was sent to is remembered as asked.
  `CallbackOnce` and `AskOnce` are not inductive without the last three. The refinement
  goes action by action.
* `P2pProofs`: `GoodIsMutual` and `AnswersAreTrue` speak of what nodes keep, but they
  hold because of what is under way. The invariant says of every packet in the network
  what must be true at its sender and stay so (`Truthful`), of every request that was
  made why it will not be made again (`Spent`: its node is known, or remembered as asked,
  or no longer due), and of every entry that its host is at that node (`Stored`).
  A node becomes good through a reply only, and a reply comes from a node that has
  remembered whom it answers: it still knows it or has deleted it (`Knew`). As nodes
  are deleted, a greeting is spent only until the next deletion (`Met`), whose number is
  in the key of the greeting behind it.
  Of the workers (`Udp`): `OneReader` is not inductive; it needs `OneShot`: while a thread is
  between `recvfrom` and `udp_rearm` the socket is not armed, and epoll reports armed
  sockets only. `FreedLast`, which is only proved, holds because a thread that
  has left does not come back.
  `PutMeetsTimedCronOnly` follows from `OneReader` and `Holder`, who has the mutex and who
  gets to the timed cron.
* `HashTableProofs`, in three parts. The *cells*: `Wired` says that the links of the
  heap, read forwards and backwards, agree with one sequence of cells (`Chain`), that
  `start` is its first and `counter` its length; `Ended`, that `stop` is its last until
  `list_ins` has been used behind that (`behind`), and none when the list is empty, so that
  the next `list_put` is right again; each of `list_put`,
  `list_ins` and `list_del` is a lemma on how that sequence changes, and from it follow
  `WellLinked` and the refinement of `ListSeq`. The *loops*: a loop that fetches the
  successor before it deletes has passed the first r items of the list it started on,
  and what it has left is those behind r and the good ones before, in order
  (`Progress`); when it ends, this is `SweepResult`. The *table*: the buckets hold, for
  each object, one pair that points at it and no other pair (`Stored`), which gives
  `Findable`. An enumeration of the items a loop leaves stands in for recursion;
  induction over its length is done on sets of naturals (`NatInductionOnSet`, from the
  least element), since the library's induction theorems take an operator.
  These lemmas are in `SweepsProofs`.
* `FrontEndsProofs`. Of the database: an entry is what the last announcement of its host
  says (`Told`), and a pass, partial as it is, deletes stale entries only
  (`ExpireDeletesStale`). Of the threads: `Owned` says who holds a context in terms of sets instead of
  numbers, and that a thread that waits for a request holds none: without this the
  next request would overwrite what it has in hand. `Steady` says that the pointer of a
  client whose host stays shows the entry as it is in the database, which lives by
  `DatabaseIInv`; `Late`, that a thread at `recvfrom` has read "online". Each kind of step
  (a move, the top of a loop, taking a request up, handing it over) is a lemma that the
  actions of all front ends are instances of. Of the console's walk: it has printed what
  comes before the item it is at, each host once, less the hosts that have left since
  (`Underway`); a pass of `db_expire` keeps the order of what it leaves (`SweepIs`). Of a
  query: the string decoded so far is one byte shorter than what was read for it, and
  each question passed over makes "size" four bytes too large (`DnsInv`); `QueryIsRead` states
  both bounds. `NamesInv` adds that the string is the labels read so far with dots between
  them: some enumeration of the places in it says where each begins (`Written`). If no
  label has a dot in it, these are the places behind the dots that `strchr` finds
  (`BeginningsAre`), so `dns_code_domain` finds the same labels, which is `ResponseEchoes`.
* `NeighborhoodProofs`: ids of any width, any own id, any number of neighbours and splits.
  The invariant has a shape of the buckets and a place for the nodes. In the lower half of the
  own ids (`LowerShape`) the buckets are in order, and after L splits the own bucket has
  exactly the ids that agree with the own one in the first L bits and is never the last;
  that `bckt_compute_id` then finds the bit L, from the last set bits of two ids, is
  arithmetic of powers of two (`NextBitIs`, `LowerSplit`). It gives `KademliaTable` and one
  split per bit at most. In the upper half (`UpperShape`), where `list->stop` stays at the
  second bucket, every further split adds the same bucket behind it, which no search finds:
  the splits have no end, as the run `neighborhood_split` shows, but no node gets lost. In
  either half each bucket has the nodes that the search finds there, none twice
  (`Placed`): a split moves the buckets behind by one and shares the nodes of one bucket among
  two (`Shifted`, `GetsShare`). `NodesInPlace` and `NobodyLost` follow. Since tlapm knows
  nothing of `^`, that powers double (`PowerDoubles`) comes from the number of subsets of
  a finite set (`FS_SUBSET` of the library, whose own proof takes that law of powers for
  granted: it is the one fact here that no prover has checked).
* `SweepsProofs`: what both kinds of loops leave of a list, in terms of an enumeration of
  the places they keep.

* `BencodeProofs`: values nested to any depth, packets of any length, any limits. The
  three theorems build on each other. Everything rests on *tokens* (the beginning or the end of a
  list or dictionary, a string, a number): a packet is a row of them, and there is one
  way to read a token at a place and with a stack of calls (`TokenOnce`).
  `DecodeStaysWithinPacket`: `heads` are the places between tokens that `ben_validate` was
  at, with its stack there (`HeadsOK`), and the token it is in has been read in part
  (`Running`). `ben_dec` is always at one of these places, and has one value under construction
  for each call that `ben_validate` was in there (`Decoding`): so it finds a token, and
  ends at the last place, which is the end of the packet.
  `EncodeStaysWithinBuffer`: that two walks agree in the end says nothing of a step in
  between. `ben_enc_size` counts both ends of a list when it begins, `ben_enc_rec` writes
  the second one when it ends. So at each mark what has been written is what had been
  counted there, less the ends of what is open (`Place`), which is never more than
  `alloc`.
  `EncodedIsUnderstood`: what is written between two marks is one token, of the kind the stack
  of `ben_enc_rec` says (`MarkToken`). Since a token is read in one way, the head and the
  mark of the same number are at the same byte (`ReceivedOK`), and what
  `ben_dec` has under construction there is the part of each open value that `ben_enc_rec` had
  been through (`Values`, `DecodedOK`). Of decimal numbers it uses that `atol` reads back
  what is printed, which `Decimal` has by definition and `BencodeAssumption` grants to exist.

Every invariant and every action property that a passing run checks is stated by a theorem.
Only model-checked: liveness, which is out of the prover's reach (`WF`, `SF`, `ENABLED`).

## 6. What is not modelled

* Packets that lack a field: the handlers are modelled for complete packets, but for the
  reply to an announcement (`Announce`), and `Bencode` stops at the decoded value.
  `ben_validate` accepts a lone string or integer that is nothing but digits up to the end
  of the packet, for which `ben_dec` finds no end (`OutOfBytes`); `DecodesWithinPacket` is
  stated for lists and dictionaries.
* The console's `ping` and `print_nodes`, which use the cache and the buckets without the
  mutex as `print_database` uses the database; `masala-ctl`.
* The unlocked `nbhd_put` against the timed cron of thread 0, link by link: `Udp` says when
  the two meet, `P2p` takes `nbhd_put` as one step with the handler.
* What a thread does after it has used freed memory (`GetLost` in `FrontEnds`).
* Memory: `bckt_del` does not free the node it removes.
* `list_swap` and `ben_sort`, which nothing calls; sockets; the HTTP format, which is
  string searches in one buffer; the bytes of a DNS answer behind its question;
  `masala-libnss.c`, which runs in other processes and only asks the NSS thread;
  configuration, logging, files, SHA-1; randomness (ids are taken as unique); packaging.

## 7. Plan

1. The unlocked `nbhd_put` over the cells of `List`: what cron of thread 0, and a front
   end that walks the buckets for a lookup, may read in the middle of `list_put`.
2. Packets that lack a field: the searches of the handlers in a decoded value, with
   the session key that a broken reply has used up, for all five replies.
3. Proofs: that what a node of `P2p` keeps in one bucket is what `Neighborhood` keeps in
   many, by a refinement.
