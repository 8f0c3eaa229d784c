# Verification of the replicated hash table

This directory holds TLA+ models of the C program in `src/`: a key-value table
(`table.c`) served over TCP by a primary server and a backup
(`table-server.c`, `primary_backup.c`), and used by clients (`client_stub.c`,
`network_client.c`) that turn to the backup when the primary is gone. The
models are checked with TLC; the theorems about them are proved with TLAPS.

    tlc -config MCHashTable.cfg MCHashTable        # and the other .cfg files
    tlapm HashTableProofs.tla                      # and the other proof modules

## 1. The system

| Component | Source | State | Operations |
|---|---|---|---|
| Hash table | `table.c`, `entry.c`, `data.c` | array of entries (key, value, next), `next` (free pointer), `filled`, `collisions` | create, put, update, get, size, get_keys |
| Skeleton | `table-skel.c` | `tabelas`, `n_tabelas` | table_skel_init, invoke, invoke_server_version, get_tbl_keys |
| Server | `table-server.c` | `primario`, `o_server` (socket, state), `connections[]`, `nSockets`, the file that names the other server | start-up as primary, as secondary, or from a file; poll loop; pthread_main; shutdown |
| Primary/backup protocol | `primary_backup.c`, `network_server.c` | the connection between the servers | rtables_ip_port, rtables_sz_tbles, rtables_ack, rtables_put, rtables_update; hello, update_state |
| Client library | `client_stub.c`, `network_client.c` | two addresses, current socket, number of tables | bind, put, update, get, size, collisions, get_keys, switch_server |
| Client program | `table-client.c` | - | command line |
| Messages | `message.c` | - | encode, decode, read_all, write_all |

A client sends one request at a time on its connection and waits for the
answer. The server's loop calls `poll`, accepts at most one connection, then
goes once through its slots: the other server first, the clients after it. A
request is applied to the local tables (`invoke`); if the server is the primary,
takes the other one for up and the request is an accepted put or update, a
thread sends it to the other server and `main` waits for that thread before it
answers. A secondary that accepts a client becomes the primary.

What makes this hard, and hard to test:

- *the table*: puts into home slots take slots from under the free pointer;
  chains of different homes merge; `filled` is kept by hand;
- *start-up*: the secondary takes its first connection for the primary's,
  whoever made it;
- *failure*: either server may die at any step of a handshake or a replication,
  with a request on the wire, and the survivor learns of it only through `poll`;
- *what a failure does to the caller*: `network_send_receive` never returns
  NULL, its caller takes every outcome for success, a message is freed twice;
- *scheduling*: the loop works on a snapshot of `poll`, and `shift` moves slots
  under its index;
- *promotion and recovery*: the backup serves when a client comes to it, and a
  restarted server gets the tables back over a connection on which both ends
  send requests;
- *the greeting*: a server writes its number of tables to every connection it
  accepts; only `rtables_bind` reads it, the other programs that connect take it
  for the length of a message;
- *the stream*: `read_all` reports the end of the stream as 0, and every caller
  tests for -1;
- *files*: which role a server starts in depends on the files earlier lives left,
  and `file_remove` goes by the role of the moment.

PROJECT.json lists each of these at its line, under `hazards`, with the
properties that cover it or the reason why none does yet.

## 2. The modules

| Module | Models | Kind |
|---|---|---|
| `BoundedMap` | what `table.h` promises: a map of at most n keys | abstract specification |
| `HashTable` | `table.c`, slot by slot | detailed; one action per call, one per branch of `table_put` |
| `MCHashTable` | five keys, four slots and a hash function for TLC | model |
| `HashTableProofs` | invariants of `HashTable` for all constants; `HashTable` implements `BoundedMap` | proofs |
| `TableOps` | requests, and `invoke` on a table seen as a map | operators |
| `ReplicatedMap` | what the two servers promise clients: one map | abstract specification |
| `PrimaryBackup` | both servers, the protocol between them, clients, crashes | detailed |
| `MCPrimaryBackup` | symmetry for TLC | model |
| `PrimaryBackupProofs` | invariants of `PrimaryBackup` for all constants; the pair implements `ReplicatedMap` | proofs |
| `ServerLoop` | what the poll loop promises: a bounded set of clients, served fairly | abstract specification |
| `Connections` | `connections[]`, `nSockets`, `shift` and the loop over them | detailed |
| `MCConnections` | clients for TLC | model |
| `ConnectionsProofs` | invariants of `Connections` for any number of slots and clients; the array implements `ServerLoop` | proofs |
| `KeyHash` | `hash` on the bytes of a key | operators |
| `MessageFormat` | messages as bytes: `message_to_buffer`, `buffer_to_message` | operators |
| `MessageFormatProofs` | what is encoded is decoded again, for messages of any size | proofs |
| `MessageCodec`, `MCMessageCodec` | one message from its sender to its receiver, and the row its key names | detailed |
| `MessageChannel` | what a connection promises: messages, whole and in order | abstract specification |
| `Framing`, `MCFraming` | `write_all`, `read_all` and the length before a message | detailed |
| `FramingProofs` | `Framing` implements `MessageChannel`, for messages of any number and size | proofs |
| `Recovery`, `MCRecovery` | `update_state` of a restarted server against the transfer of the survivor | detailed |
| `TransferProofs` | invariants of `MessageCodec` and of `Recovery`, for any numbers of tables and pairs; the rows `hash` returns | proofs |
| `ClientFailover`, `MCClientFailover` | client program, stub and `network_send_receive` against two servers | detailed |
| `ClientFailoverProofs` | answers in step and puts that are repeated, for any keys, values, attempts and calls | proofs |
| `Lifecycle` | start-up, files, promotion, quit, crash and restart of both servers | detailed, with whole exchanges as steps |
| `LifecycleProofs` | files and stored data for any number of restarts | proofs |

How they fit together. `HashTable` shows that a table is a map, so the others
have maps. `Connections` shows that the loop over the array is `ServerLoop`, the
sets `served` and `ready` of `PrimaryBackup`. `Framing` and `MessageCodec` show
that a connection carries whole messages, as `PrimaryBackup` assumes, for as long
as the reader is in step; `Recovery` and `ClientFailover` have the two places where
it is not, and therefore keep the bytes of the stream. `PrimaryBackup` starts from
two fresh servers; `Lifecycle` has all starts, with the exchanges of
`PrimaryBackup` and `Recovery` drawn together.

Definitions whose comment begins with "Slip" are not part of the model: each is
a plausible mistake in the definition after it, and PROJECT.json (`mutants`)
says which property notices the mistake.

### HashTable

An entry is an index; `key[i]`, `value[i]` and `link[i]` are its fields, with
`NoKey`, `NoValue` and `NoLink` for NULL. `free` is `table->next`. `table_put`
has five outcomes, one action each: full, home slot free, duplicate in the home
slot, duplicate further down (which counts a collision and is then refused),
chained. `AtualizeNext` is `atualize_next`, the downward search for a free slot;
its third disjunct is the read below the array that the C code would make, and
`TypeOK` says it never happens. The walks along `next` are described by the set
of slots they meet (`Chain`), the least set that contains the start and is
closed under the links. `ret` is the last call with its arguments and its
result, so that the refinement of `BoundedMap` speaks of results too. `Hash` is
any function into the slots.

### PrimaryBackup

`"A"` is the server started with an address and table sizes, `"B"` the one
started with a port. `pc[s]` is the place in `main`: `connect`, `ip_port`,
`sz_tables`, `ack` (A waits for the answer to that message), `accept`, `sync` (B
answers until it has answered an ack), `loop`, `replicate` (`main` waits in
`pthread_join`), `stuck` (the write loop on the uninitialised counter), `dead`.
`primario`, `state` and `peer` are the globals; `served` and `ready` the client
slots and the part of poll's snapshot that is still to be handled; `pend` the
connection the kernel keeps for `accept` (the code listens with backlog 0).
`wireReq` and `wireRep` are the two directions of the connection between A and
B: at most one message is under way, because A waits for each answer. A server's
tables are one map; a key stands for a table number and a key in that table, and
`HashTable` shows that a table is such a map.

Abstractions. Messages are whole: TCP neither loses nor reorders, and a
connection ends by the death of a process only (no partition). The number of
tables that `accept` sends first, and what the client does with it, is left out.
`Capacity` bounds all tables together, where the code bounds each. Undefined
behaviour is a choice of outcomes: a double free kills the process or does
nothing; the write loop on an uninitialised counter ends or does not.

### Connections and ServerLoop

`connections[j]` has the descriptor and the events poll set; the descriptor of a
client is the client. `i` is the loop's index, `SOCKETS_NUMBER` standing for the
place before `poll`. `Shift` is the whole of `shift`: the used slots above the gap
move down by one, with their events. `CloseDead` has both tests of a pass, the
second of which sees the slot that has moved in. When stdin hangs up its slot is
closed like a client's, a client moves into it, and is from then on read with
`fgets`: `Compact` and `NoClientStarves` are stated for a stdin that is in its
place, the other properties for all. `fgets` then reads descriptor 0, which is
closed, or the connection of a later client to which `accept` has given it; with
the outcomes of `Command` both are covered: nothing is read and the buffer is not
initialised, a request starts with a byte 0 and is a line without a word, or
`fgets` blocks, which for safety is a stutter.

`ServerLoop` is the same loop on sets: it accepts while there is `room`, handles
the events of one poll before the next, closes only what is dead, and may put off
one other client whenever it closes some. `Loop` in `Connections` is the mapping.

### KeyHash, MessageFormat, MessageCodec, Framing

`Hash` sums characters as signed chars and takes C's remainder. `Encode` and
`Decode` are the two functions of `message.c`, on sequences of bytes, shorts and
ints in two's complement and network order, with `NoMessage` for NULL.
`MessageCodec` sends one message and looks at what was decoded.

In `Framing` a byte is a triple (message, part, position). `Write` and `Read` are
one `write` or `read` of `write_all` and `read_all` and take any part of what is
asked. At the end of the stream the callers go on with what was not received:
`network_receive_send` decodes it (`ReadEndOfBytes`), and what they make of it is
`Torn`. `MessageChannel` is what remains: whole messages in order, and
perhaps a torn last one.

### Recovery

R restarts, S survives. `toR` is the stream of bytes from S to R, because R reads
the greeting as a length (`ReadHelloSize`) and only some numbers of tables leave
it in step; `toS` has the messages the other way, which S reads in step. `step`
is the request of the transfer S is at. Undefined behaviour is a choice: the
double free at the end of the transfer, the writes of `get_tbl_keys` behind its
allocation, a promoted server that reads an array of keys it never had. Whoever
dies cuts the stream at any byte. Numbers of tables from 10 to 13 are left out:
there R takes zeros inside the reply to HELLO for a length of 0, and decodes what
`malloc(0)` has given it, which no model of the stream can tell.

### ClientFailover

The servers are `ReplicatedMap`'s promise: B has every write A has answered. The
client is `table-client.c` from bind to quit: `cPos` is where it is, `tries` counts
the attempts of `network_send_receive`, `stream` is what it has not read. `Attempt`
is a failed attempt with its `switch_server`; `Return` is the way back to `main`,
which unbinds after an error. `applied` counts how often the present call has
changed the table of each server, in one life of that server. A request on a
connection the client has closed while its server lives is in `left`: the server
serves it like any other, whenever its loop comes to it (`ServeLeft`), or never,
if the close resets the connection. It counts for the call it was made for.

### Lifecycle

`pos[s]` is the branch of `main` a server is in; `files[s]` its directory, which
survives it and may hold files of earlier lives in either role; `conn[s]` the
connection it has made and `peer` the one a secondary has accepted. The slots of
the loop are counted: three are its own, `clients[s]` are with clients, and
`link[s]` is the one the other server takes when it reaches a server in its loop
(after a HELLO, or as a fresh primary). `accepts` is the guard
`nSockets < SOCKETS_NUMBER` (`table-server.c:587`): with all slots taken the loop
leaves everyone in the queue. That queue has room for one connection (`listen`
with a backlog of 0, line 129), so a server that is in it is the next to be
accepted, and `connect` gives up if a client keeps the place (`Connects`).
`CloseOther` gives back the slot of another server that has ended. Tables are
`"none"`, `"empty"` or with `"data"`. An exchange that another module has in
detail is one or two steps with all its outcomes: `Handshake`,
`HandshakeWithLoop` (A starts afresh while B serves already), `Transfer` (all,
some or nothing arrives, either may die; whether it ends is not assumed, since
`Recovery` shows it may not).

## 3. The runs

| Run | Bounds | Shows |
|---|---|---|
| `hash_table` | 4 slots, 5 keys (two pairs share a home, one key's home is taken by displaced keys), one value and an empty one | all states of a table from empty to full, with merged chains; 7 invariants and the refinement of `BoundedMap` |
| `collisions_existing` | the same | `client_stub.h`'s "número de colisões existentes" is not what the counter holds |
| `primary_backup` | 1 key, 2 values, 2 clients, 1 slot, 2 crashes, clients reach B at any time | the invariants of the protocol |
| `replication` | 1 key, 2 values, 2 clients, 2 slots, 1 crash, clients reach B when A is dead | the refinement of `ReplicatedMap` and four liveness properties |
| `state_means_up` | as `primary_backup` | B never marks A up, against the comment of the field |
| `every_request_answered` | as `replication`, no crash | a get of a missing key ends the server |
| `connections` | 5 slots (2 for clients), 3 clients that come and go for ever, stdin may hang up, no other server, no typed lines | the array, the refinement of `ServerLoop`, no starvation |
| `message_codec` | the opcodes of all programs, numbers at the ends of their types, 6 keys, 3 data, lists of up to 3 keys, a table of 7 rows | decoding undoes encoding, in the bytes allocated; rows of ASCII keys |
| `framing` | 3 messages of 1, 5 and 3 bytes, a kernel that holds 6 bytes, both ends may die | the refinement of `MessageChannel`, delivery, the end is noticed |
| `recovery` | -1, 1, 2, 7, 8, 14, 15, 22 or 24 tables, up to 2 pairs, both servers may die | a recovery that reports success has recovered all |
| `client_failover` | 1 key, 2 values, 4 attempts, 2 calls, 1 restart, any crashes | calls and answers in step, repeated puts, calls that end |
| `lifecycle` | 8 starts in all, any files to begin with, 5 slots (2 for clients) | files, stored data, starts that end |

The runs check no deadlock, except `hash_table`: once the servers are dead, the
clients gone or the message decoded, nothing has to happen.

Why these bounds are enough. Four slots are the fewest in which a displaced key
takes the home slot of another, a third key starts a chain there, and a slot is
left to see the free pointer jump over used ones; five keys fill the table and
leave one to be refused. `MaxCollisions` bounds only the puts that are refused
and count a collision; others are bounded by the table. For the servers, one key
with two values tells a put from an update and an old value from a new one; one
slot with two clients gives a full server with a connection pending, two slots
give two clients in one snapshot, where one's departure makes the loop skip the
other. Each death needs one crash; two let both servers fail. The theorems say
the invariants hold beyond these bounds.

For the array, two slots for clients give a shift and one more after it, and the
third client a full server and a slot that is used again in the same pass; a
stdin that hangs up makes room for a third. The three sizes of `framing` are
below, above and at what is left in the kernel's buffer, so that every cut
occurs. The numbers of tables of `recovery` make R read the greeting as a length
that ends inside the reply to HELLO, at its end (14), behind it, or in the list of
sizes, where 24 is the one number for which the next length R reads is no longer
than what follows. The theorems about `Recovery` have all the others. Two calls
are one that loses its server and one that comes after. Eight starts let each
server start, crash and come back three times. Two slots for clients are one that
the dead life of the other server still has and one a client has, or two with
clients, so that the array is full for a while and full for good; in the code they
are four. The theorems about `Lifecycle` have no bound on either.

### Properties

`HashTable`: `FilledIsOccupied` (the counter is exact), `FreeSlotIsFree` (a
chained put overwrites nothing, the search stays in the array), `KeysReachable`
and `NoDuplicateKeys` (one chain is searched, yet what was stored is found and
is stored once), `ChainsEnd` (the loops end), `DisplacedAreCollisions`,
`IsBoundedMap`.

`PrimaryBackup`, safety: `BackupInStep` (B's tables are A's but for the one
write on its way, until a client reaches B), `BackupNeverRefuses` (A ignores
B's answer, so it must never be a refusal), `ProtocolInStep` (positions,
messages and beliefs of the two servers fit together). `IsReplicatedMap`: for
clients that turn to B only after A's death, no answered write is lost, no
request takes effect twice, no read goes back in time; a death may swallow a
request that is not answered yet, before or after its effect. Liveness:
`ReplicationEnds`, `StartupEnds`, `BackupDeathNoticed`, `NoRequestStarves`.

`Connections`: `Compact` (the used slots are the first ones, free slots carry no
events), `EveryClientHasASlot` (no descriptor is lost), `EventsTravel` (the events
of a slot are those of its connection, so that the only thread never blocks),
`OnlyDeadClosed`, `NoClientStarves` (although each pass may step over a slot) and
`IsServerLoop`.

`MessageCodec`: `DecodedIsSent`, `WritesWhatItAllocates`, `HashIsARow`. `Framing`:
`IsMessageChannel`, `Delivered`, `EndNoticed`.

`Recovery`: `UpdatedIsSame` (success means that R has S's tables, whatever was
misread on the way) and `UpdateReturnsInStep`. `ClientFailover`: `AnswersInStep`
(each call gets the answer to itself until the server is lost), `PutOnce`,
`CallReturns` (as long as no server restarts).

`Lifecycle`: `RunningHasFile` (a server that serves can recover in its role,
although `file_remove` may delete the file of the other), `WritesKept` (a server
that goes on keeps what is stored in it, until someone quits), `WaitEnds` (a start
that waits for the other server ends, or the other is busy for good). `Busy` lists
the ways in which a server comes to accept no one: it starts and waits itself, it
is in a transfer that is out of step, it is caught in `write_all`, it has taken a
client for its primary, or clients have all its slots. The last is a wait of the
code: `connect` succeeds through the queue, and the restarted server stays in
`read_all` for as long as those clients stay. A slot that the dead life of the
same server still has must not be one of the ways, and is not: the loop closes it.

### Fairness

Each `FairSpec` adds weak fairness of the steps of each process, as one
disjunction: a process is run by the operating system, and when it is not
blocked it eventually takes its next step, whichever that is. Nothing is assumed
of a single action, so the order of poll's slots has to do the work. Nothing is
assumed of clients (they may stay silent for ever), of the user, of crashes, or
of when a server is started. In `ClientFailover` the client in a call and the
servers are fair, the user is not. In `Lifecycle` each server is a fair process,
`Transfer` is under no fairness, and clients may come, leave and stay as they like.
That a waiting server is accepted at all is the order of the kernel's queue, not an
assumption of fairness: no client is accepted before it.

### Disagreements between the code and its documentation

Shown by runs that expect a violation:

- `collisions`: a refused put of a key that is further down a chain counts a
  collision (`table.c:127`).
- `o_server->state` of the secondary is 0 while the primary is up
  (`table-server.c:488`); harmless, since only a primary reads it.
- a get of a key that is not stored ends the server (`table-skel.c:174`, then
  `imprimir_resposta`), so a request may stay without an answer.

Further configurations, each with one property that states a comment of the code
and for which TLC finds a violation:

| Configuration (module) | Property | What the code does |
|---|---|---|
| `MCAllBytesReceived` (`MCFraming`) | `AllBytesReceived` | `read_all` "garante a receção de len bytes"; at the end of the stream it returns 0, which its callers do not test |
| `MCUpdateReturns` (`MCRecovery`) | `UpdateReturns` | with one table R reads the greeting as the length of the reply to HELLO, then waits for 2560 bytes while S waits for a reply |
| `MCSurvivorLives` (`MCRecovery`) | `SurvivorLives` | a complete transfer ends with `lista_entrys` freed twice |
| `MCEveryCallReturns` (`MCClientFailover`) | `EveryCallReturns` | the greeting that `switch_server` leaves in the stream puts the client out of step; after a restart a call waits for ever |
| `MCBoundKnowsTables` (`MCClientFailover`) | `BoundKnowsTables` | a promoted secondary greets with `argc - 3`, which is -1 |
| `MCRefusalReported` (`MCClientFailover`) | `RefusalReported` | `rtables_put` returns 0 for a put that was refused |
| `MCResponseOrNull` (`MCClientFailover`) | `ResponseOrNull` | after the last attempt an error message stands in for a reply |
| `MCBindsAgain` (`MCClientFailover`) | `BindsAgain` | after an error `rtables` is freed and used again |

Three more follow from the models: a client that turns to the promoted backup
reads its greeting of -1 as a length, for which `malloc` fails, and with the
first server down its call fails (`ReadSize`, `Attempt`): the backup may have
applied the write, its answer is never read. A stdin that hangs up costs the
client in slot 3 its server. A key with a byte above 127 may hash to a negative
row (theorem `AccentHashesToNoRow`).

## 4. The proofs

All theorems hold for every value of the constants that satisfies the named
assumptions:

| Assumption | What it says |
|---|---|
| `TableAssumption` | the table has a slot, `Hash` maps into the slots, NULL is no key and no value |
| `PrimaryBackupAssumption` | the names of clients, servers, messages and NULLs are distinct, `Keys` is finite |
| `ConnectionsAssumption` | there is a slot for a client, names are distinct |
| `LifecycleAssumption` | there is a slot for a client, `MaxRestarts` is a natural number |
| `FramingAssumption` | a message has a byte, an int and the kernel's buffer too |
| `RecoveryAssumption` | S has -1 tables or 1 to 255 of them, but not 10 to 13; keys are strings, values are not empty, a pair fits the format; the size of a table has at most ten digits |
| `MessageCodecAssumption` | keys and data are bytes, their lengths fit the short or the int the format gives them |
| `ClientFailoverAssumption` | data are bytes and not empty, a table and a message with a value have a size that is an int, there is an attempt |

Two theorems have a hypothesis of their own. `PairIsReplicatedMap` is stated for
`~SplitBrain`, clients that turn to B only when A is dead: with two primaries
there is no one map. `SentIsDecoded` is stated for opcodes
`buffer_to_message` knows.

`HashTableProofs`. The inductive invariant `IInv` joins the checked invariants:
`FreeSlotIsFree` needs `FilledIsOccupied` to know that a slot is free, `ChainsEnd`
and `KeysReachable` need `FreeSlotIsFree` to know that the slot linked last was
on no chain before. `CountInv` is proved first, since it does not depend on the
links. The lemmas on chains (`ChainHead`, `ChainClosed`, `ChainGrows`,
`ChainEndUnique`...) replace induction over a walk: a chain is the least closed
set, so a fact about all its slots follows from exhibiting one closed set.
Results: `TypeCorrect`, `CountsCorrect`, `FreeSlotCorrect`, `LookupCorrect`,
`KeysStoredOnce`, `WalksEnd`, `CollisionsCounted`. Under `Pairs`, the map of keys
to the values in their slots, each branch of `table_put` is a `Put` of
`BoundedMap`, refused or not, and every other call is its namesake:
`TableIsBoundedMap`.

`PrimaryBackupProofs`. `BackupInStep` is not inductive: that B's tables stay in
step rests on the messages that can be on the wire at each pair of positions.
`PInv` adds `ProtocolInStep`, in four parts: `LifeInStep` (what each position
implies by itself), `SnapshotInStep` (what poll saw is still true when its slot
is handled), `HandshakeInStep` (start-up, message by message) and `PairInStep`
(after start-up). One lemma per action shows that `PInv` is kept; the death of a
server, which several actions share, has its own (`DiesStep`). Results:
`PairTypeCorrect`, `ProtocolCorrect`, `BackupCorrect`, `BackupAccepts`. They
include `SplitBrain`: what clients do at B never disturbs the pair before the
promotion. `PairIsReplicatedMap` is the refinement. It needs one more
invariant, `ClientsInStep`: a client stays with the server it has chosen and B
has none before A is dead; while A waits for the thread it has one client's
write, and nothing else is on its way to B; and the client of a write that is
still on its way when A dies waits no more. With it each step takes effect in the
map, or does not, as the mapping says.

`ConnectionsProofs`. The inductive invariant has the type invariant, the array's
form (`CompactArray`, stated of any array and count, so that the lemma on
closing a slot can be used twice for `CloseDead`), `LinksInStep` (a client's
connection is off exactly when the server neither has it nor will accept it: a
client is never in two slots) and `EventsTravel`, which the form of the array
needs for the second close of a pass. `Base` is the first slot that may hold a
client: 3, or 2 once stdin has hung up and a client has moved into its slot, so
the theorems hold whether stdin hangs up or not. Results: `ArrayCompact`,
`NoClientLost`, `EventsStayTrue`, `OnlyDeadAreClosed`; and `ArrayIsServerLoop`,
for which a step of the loop's index has to be a step, or none, on the set of
clients with events left to handle (`NoIdleEvents`, `ReadyFrom`).

`LifecycleProofs`. `RunningHasFile` is kept by itself but for servers on their way
to the loop (`HasFile`). `WritesKept` rests on a fact about files: as long as nobody
has quit, once B has tables A has its file and is not starting as a fresh primary
(`NoFreshPrimary`), so that the sizes which would make B's tables anew are not
sent. The slots play no part in either, but for their number, which is a type:
`accepts` keeps it in bounds. Results: `ServersHaveFiles`, `DataKept`, and
`TypesHold` for the types.

`FramingProofs`. The inductive invariant `FInv` has the types and three facts: the
bytes on their way are consecutive and end before the one the sender writes next
(`StreamInStep`; all distances are compared, not only neighbours, because a write
or a read moves on by any number of bytes), what `read_all` has stored is the
beginning of the part it is at (`BufferInStep`), and the messages that have
arrived are 1, 2, ... up to the one that is being read, but for a torn last one
(`ArrivedInStep`). With them each byte of the detailed module is a stutter of
`MessageChannel`, and the last byte of a message is its arrival:
`MessagesArriveWhole`, and `FramingTypes` for the types.

`MessageFormatProofs`. `MessageRoundTrip`: an encoded message has exactly the
size that was allocated for it, and decoding gives it back. `Stands(b, p, s)` says
that the bytes `s` stand in `b` at `p`; a field that stands somewhere is read back
from there (`ShortStands`, `IntStands`, `BytesStand`), with the two's complement
of negative numbers, and what is put together of parts stands there part by part.
For a list of keys of any length three recursions have to meet: the size, the
writing and the reading. They are functions, not RECURSIVE operators, and the
induction over their steps is made on sets (`NumbersByInduction`, from the least
element of a set of naturals), since the provers here cannot instantiate the
library's induction rules.

`TransferProofs` first carries that to the specification of `MessageCodec`, with
`CInv`, that what has been sent fits the format: `WhatIsAllocatedIsWritten`,
`SentIsDecoded`. The remainder of a non-negative number is a row, so an ASCII key
of any length names one (`HashInTable`, `RequestsNameRows`); the bytes of an
accented letter hash to -1 (`AccentHashesToNoRow`). `hash` itself stays a parameter
of `HashTable`, whose assumption that it maps into the slots is what `HashInTable`
provides.

The larger part of `TransferProofs` is about `Recovery`, where R may be anywhere
in the stream. The argument:

- What S writes before it needs an answer is one sequence of bytes, `Opening(n)`:
  the greeting, the reply to HELLO, the list of n sizes. `LiesIn(p, b, k)` says that
  `p` is what stands in `b` behind the first `k` bytes, or the front of it; what is
  on its way to R lies in the opening behind the bytes R has read (`Early(k)`).
  Reading, writing and cutting the stream keep that (`LiesRest`, `LiesMore`,
  `LiesFront`).
- With n tables, n not 14, the first length R reads as a server is the int behind
  the byte 4 + n of the opening. It is negative, or longer than all that follows
  (`FirstLength`). The list of sizes has, for each table, a short of at most 10 and
  as many digits (`InKeys`), so that two bytes of it in a row are never both 0: the
  high bytes of that int are not both 0, but for 1, 15, 24 and 25 tables, which are
  looked at one by one (`FirstBytes`). With 24 what follows is long enough, and is
  no message (`FirstMessage`). So R waits, fails or dies; and if S dies, what R has got does not
  begin with the opcode of an ack (`FirstOpcode`), so that it is not taken for one.
- A promoted server greets with -1; R reads the reply to HELLO as a request and
  takes an empty list of sizes, and nothing follows (`PromotedStands`,
  `PromotedServed`).
- With 14 tables R is in step, and the i-th request is unsent, on its way, answered,
  or cut by the death of S (`InRequest(i)`). What R holds is then the first i - 1 or
  i pairs (`Done`), by the round trip of messages (`RequestRead`, `RequestServed`);
  with the ack it is all of them (`DoneAll`).

`RInv` joins these cases (`Positions`) with the types. It is inductive as a
whole only: that nothing is lost in step rests on what S has written when R read
its first length, and the types rest on R never taking what it misreads for a list
of sizes, whose length would be its number of tables. One lemma per action shows
that it is kept. TLC has checked `RInv` on the instance of the `recovery` run, with `k`
up to 600, before it was proved. Results: `RecoveryTypes`,
`UpdatedTablesAreSame`, and `OnlyInStepRecovers`: from a survivor that has not
exactly 14 tables nothing is ever recovered.

`ClientFailoverProofs`. `TInv` has the types and what bounds them: there is an
attempt left while a call is made, a length that has been read as a size is not
negative, and before the greeting is read nothing else is in the stream
(`Greeted`), so that the number of tables is 1 or -1 (`FailoverTypes`).
`LeftType`: what is left on closed connections are calls. `PutInv`: a server on
which the put of this call has had effect holds its key, so the repeated put is
refused there, as is one that was left at a closed connection; a server that
restarts inherits the effect only with the key (`PutTakesEffectOnce`). `SInv`: as
long as A runs in its first life, what is between it and the client is the request
of the call, its answer, or the rest of it (`InStep`). It rests on `MessageRoundTrip`: the length the client
reads is the length of the answer that follows, and every answer of a server
decodes (`AnswerWellFormed`), so that a misread, which would break the step, needs
a dead server. Result: `AnswersStayInStep`.

What the proofs changed in the models. `PutOnce` failed at the step
`PutApplied` as long as `applied` also counted requests of earlier calls that
were still on a wire: it meant the call, and now counts it alone. `Decode` and
`Answer` were CASE expressions with guards that overlap, of which TLA+ may choose
any; they now say which comes first, as the code does. The assumptions on sizes
that fit a short or an int were implicit in the small instances. `Recovery` had
left out 10 tables because of the length of 0 that R reads then; the proof of
`FirstLength` showed that 11, 12 and 13 lead to the same read. A step of R that
misreads was checked for eight numbers of tables; that only 24 gives it a length it
can read was not known.

Every invariant and action property and every refinement that a passing run
checks is also proved. Model-checked only: the liveness properties
(`ReplicationEnds`, `StartupEnds`, `BackupDeathNoticed`, `NoRequestStarves`,
`NoClientStarves`, `Delivered`, `EndNoticed`, `UpdateReturnsInStep`, `CallReturns`,
`WaitEnds`), since fairness and ENABLED are out of the prover's reach.
`OnlyInStepRecovers` says that a recovery out of step does not succeed, not whether
it fails or waits.

## 5. Not modelled, and what is left

Not modelled:

- `rtables_get_keys` and `rtables_collisions` of the stub: the first walks a list
  of strings and prints it, the second is `rtables_size` with another opcode. Their
  messages are in `MessageCodec`, their effect on a table in `HashTable`.
- The parsing of a command line, in the client and on the server's stdin; a typed
  line is `"quit"`, `"print"` or too short (`Connections`), and the `connections` run
  has none typed.
- Failures of `malloc`, `accept`, `fopen`; calls interrupted by a signal (the
  programs handle none); a network that fails while both servers live.
- A peer that stays silent in the middle of a message, which would keep the
  only thread of the server in `read_all`: `Connections` has requests whole.
- A client that resets its connection right after a request: in `Connections` the
  request may be lost with it, in `PrimaryBackup` it is answered first.
- Logging, the build files, the test program (it has no state), the release of
  memory at shutdown.

Left of the plan, in the order of its weight:

1. After a HELLO `o_server->socket` is also a client's slot (`table-server.c:291`):
   a model of descriptors that are closed and used again.
2. Both servers started in one directory, where each finds the other's file.
