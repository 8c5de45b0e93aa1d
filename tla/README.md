# Formal models of cursor-api

These modules describe the parts of the server that keep state, in TLA+. TLC
checks them on small instances, and TLAPS proves their safety properties for every
value of the constants. Paths are relative to the repository's root, written with
the prefix `src/` (the crate's own code is then under `src/src/`).

Contents: [the system](#the-system), [modules](#modules),
[runs](#runs), [assumptions](#assumptions-and-what-happens-without-them),
[fairness](#fairness), [refinement](#refinement), [proofs](#proofs),
[disagreements](#where-the-code-and-its-comments-disagree),
[what is left out](#what-is-not-modelled), [plan](#plan).

## The system

The program is an HTTP server (axum on tokio) that offers OpenAI's and
Anthropic's chat interfaces and serves them from an upstream server, with
credentials ("tokens") that an administrator manages.

| Component | State | Operations | Hard about it |
|---|---|---|---|
| Token store, `app/model/state/token.rs` | a vector of slots, `id_map`, `alias_map`, `id_to_alias`, `free_ids` | `add`, `remove`, `set_alias`, `TokenWriter` (changes a key when it is dropped), replacement of the whole store | five structures that must agree, since most reads are unchecked; ids are reused |
| Token queue, `state/token/queue.rs` | `vec`, `map`, static `QUEUE_HEADS` | `push`, `set_key`, `remove`, `select` | positions shift on removal; selects race on a head; heads outlive the store |
| Token routes, `core/route/tokens.rs` | the write lock while a handler runs | set, add, delete, status, alias, merge, config version, refresh, profile, proxy, time zone | batches that fail in part; awaits under the lock; lost connections |
| Token file, `token.rs` `save` and `load`, `main.rs` | a file written in place through `mmap` | save after a change and at shutdown, load at start | crash or dropped handler between truncation and copy; late file operations |
| Usage check, `core/service.rs` 269-327 and its twin 1071-1129 | an id carried over three locks | look up, store a profile, rename | the id may be stale at every later lock |
| Log actor, `app/model/log/manager.rs` | deque of logs, reference-counted tokens, a bounded channel | `AddLog`, `GetNextLogId`, `UpdateLog`, reads | id read and used in two commands; clients that go away; full channel |
| Proxy pool, `app/model/proxy_pool.rs`, and routes, `core/route/proxies.rs` | four `ArcSwap` statics and a file | set, add, delete, set general; update of clients | several stores without a lock; empty maps; unchecked lookups |
| Stream decoder, `core/stream/decoder.rs`, over `crates/grpc-stream/src/buffer.rs` | buffer, `first_result` with two flags, tool context | `decode`, `take_first_result` | chunk boundaries anywhere; messages kept aside; errors that leave bytes |
| Streamed responses, `core/service.rs` | flags for role, thinking, blocks, end | two phases, two formats | content and control in the right order whatever the chunks |
| Non-streamed responses, `core/service.rs` | texts, thoughts, blocks and tool arguments collected so far | collect chunk by chunk, send at the end | the same content as the streamed response; arguments collected per chunk |
| Chat requests and counters, `core/service.rs`, `app/model/state.rs` | totals of requests, active requests and errors | count, log, answer, fail | a handler may be dropped at any await; the counters are computed anew from the log file at every start |
| Debug log, `app/lazy/log.rs` | sequence number, channel, waiting lines, buffer, file | `debug!`, the writer's loop, flush at shutdown | one task per line, so lines arrive in any order; limits on what waits; a shutdown with a timeout |
| Interned strings, `crates/interned/src/arc_str.rs`, and cached tokens, `app/model/token/cache.rs` | a global map of pointers, a count in each cell | `new`, `clone`, `drop` | counts change without the lock that protects the map; keys that two values share |

The parts meet as follows. A chat request selects a token (read lock of the
store), starts a usage check as a task of its own, sends the log actor a
`GetNextLogId` and an `AddLog`, takes a client from the proxy pool, and turns
the upstream's chunks into events; it ends with one or two `UpdateLog`. Its
counters move with these steps. Every token it handles is a handle of the token
cache, and the proxy names of tokens are interned strings. The
administrator's routes change the store and the pool and save them. At shutdown
`AppState::save` writes all files while requests are still being served.

What makes each part correct: the store's indexes agree, so that no unchecked
access goes wrong; every usable token gets its turn; what is on disk is what is
in memory; a task writes to the token it was started for; the reference counts
are exact and an update reaches the log it is meant for; a chat request always
gets the client of the proxy its token names; a client receives what the
upstream sent, once, in order, in a well-formed response that ends; the counters
are those of the requests there are; memory is freed once, and only when nobody
uses it; and the debug log has every line, in order.

`PROJECT.json` lists all components, modelled or not, and the hazards at their
lines.

## Modules

    TokenManager <-- TokenRoutes           LogActor   <-- ChatRequest
                 <-- UsageCheck            ChatEvents <-- ChatStream
    TokenManager implements TokenStore     ProxyPool, InternPool, DebugLog

    TokenManager   <-- TokenManagerProofs
    TokenRoutes, TokenManagerProofs <-- TokenRoutesProofs
    UsageCheck, TokenManagerProofs  <-- UsageCheckProofs
    ChatRequest    <-- ChatRequestProofs (the log actor's proofs as well)
    ChatStream     <-- ChatStreamProofs
    ProxyPool      <-- ProxyPoolProofs
    InternPool     <-- InternPoolProofs
    DebugLog       <-- DebugLogProofs

An arrow is EXTENDS. `MC*` modules give the instances their constants.

**TokenManager** is the store and its queue. The vectors `tokens` and
`id_to_alias` are functions on `0..slots-1`, the hash maps functions on the keys
they hold. A mutation runs under the write lock and is one action: `Add`,
`Remove`, `SetAlias`, `WriteKey` (a `TokenWriter`'s `Drop`), `Reset`
(`handle_set_tokens`), `SetStatus`. `select` needs the read lock only and is two
actions, the load of the head and the scan with the store of the head; several
selects interleave. A token is a key and one of three states: usable, disabled,
and waiting for `backoff_until`, which the clock may pass at any time. An alias
is a given name, or the pair that stands for `unnamed-<id>`. `fault` becomes
TRUE when an `unwrap_unchecked`, `assert_unchecked` or `get_unchecked` is
reached in a state that does not allow it (or `Vec::remove` would panic);
nothing is modelled beyond.

**TokenStore** is what the store promises without slots, indexes or queue: a
table by key in which aliases are unique, each call changes the one token it
names, and a request is given a usable token if there is one.

**TokenRoutes** adds the lock's holder, the file and the life of the process. A
handler takes one item of its batch per step, then saves: `open` (truncation),
`len` (`set_len`), and the copy, with an await at the first two. `Cancel` drops
it at an await, and the file operation it has handed to the blocking pool
`Lands` later or never. Signal, shutdown save, exit, crash, start and load are
actions of their own; load replays the records through `add`. `UsageRename` is the
last step of a usage check: a chat request's task renames a token under the write
lock and saves nothing; the history variable `renamed` has the positions of the
tokens that got a name in this way since the file was written, as long as no save
has failed or been cut off (`FallsBehind`).

**UsageCheck** adds the task that a chat request spawns: find the id of its
token, read its alias, write the profile, rename the token if its alias was
generated. Each of them takes the lock anew; anything the store can do happens
in between, and nothing keeps the administrator from removing, renaming or merging
the very token the check is at. The history variable `fate` says what has become of
that token since the check found it. A name that the administrator gives between the
check's look at the alias and its renaming is overwritten; nothing in the repository
says otherwise.

**LogActor** has the actor (one action per command), the bounded channel, chat
requests and readers. The logs are numbered through; the deque is the window
`first..last`. A popped log gives up its reference, the new one takes its own,
all within `AddLog`. A request that has gone away leaves a oneshot channel
without a receiver, and the actor's `unwrap` ends it. The limit is positive; with 0
no id is asked for and no log added, and the updates, which are sent with the id 0
all the same (`service.rs:376`), find none.

**ChatRequest** composes LogActor with the handlers' counters: each step of a
request is the log actor's step together with what the handler does to
`total_requests`, `active_requests` and `error_requests` before it waits again.
`Dropped` and `DroppedAtOnce` are handlers that end at an await, `BreaksOff` is a
read error that is answered without an update. The file gets the logs when the
actor answers `clone_to_save`; writing it is one step here, since what happens
between truncation and copy is the same as in TokenRoutes. `Restart`, after a
shutdown or a crash, loads it and computes the counters.

**ProxyPool** has the four statics. Every load and every store of one is a
step, in the order of the code, with what the handler has loaded in `h`.
`Restart` loads the file and installs it. `get_client` is one expression, although a
chat request's three loads are three moments: for a name whose proxy stays the same
over them, which is what `ClientsKept` speaks of, the first finds that proxy at each.

**ChatEvents** has both versions of `process_messages` as operators from the
state kept between chunks and a batch of messages to the new state with the
events sent. **ChatStream** drives them: `ReceiveFirst` reads until the first
text has been decoded, `ReceiveRest` makes a piece of the body of every later
chunk, `LastPieceSent` is the tail that the handlers chain to the stream. A
frame is what its payload decodes to, and stands for its text by its number, so
that "sent once and in order" is about numbers. A chunk is the frames it
completes, and whether bytes of another one follow: none, fewer than the five
of a header, or more. A response that is not streamed is in the phase "collect":
`ReceiveAll` decodes a chunk and adds to the texts or the blocks, in `events` as
in a streamed response, and `SendCollected` sends the whole. An OpenAI response
without text is answered as a failure; texts are taken not to consist of
newlines only, which the handler trims.

**InternPool** is both pools of reference-counted values. Each atomic operation
on a count and each section under the map's lock is a step: `New` under the read
lock, `Create` under the write lock, `Clone`, `Drop` (the decrement) and `Free`
(what the last drop does under the write lock). A cell between `Drop` and `Free`
is in the map with a count of 0, and `New` may revive it; two owners can then be
about to free it, and the second (`FreeAgain`) reads memory that is gone. A
string is its own key, a raw token's key leaves a part of it out.

**DebugLog** has the tasks that send the lines, the writer's loop with one action
per arm, and the shutdown. A line is its number, so that order is an order of
numbers. The history variables `skipped`, `lost` and `missed` name the lines that
the code itself gives up, and say so in the properties. `Sorted` is the order in
which a BTreeMap gives its lines, by rank.

## Runs

Passing runs:

| Run | Instance | Shows |
|---|---|---|
| `token_store` | 3 keys, 3 slots, 1 queue, 2 racing selects, no given names | the indexes agree after every series of calls; removal keeps the round-robin place; the store implements TokenStore; every usable token is served again and again |
| `token_routes` | 2 keys, 1 name, 2 slots, 1 late operation of each kind | with all routes, lost connections, failing saves, crashes and restarts: aliases agree, the file follows the store but for names given by usage checks since, what is saved loads, and loads as what it was |
| `chat_request` | 2 requests, 1 reader that saves, 2 keys, limit 2, channel of 1, up to 2 loaded logs, 1 restart | reference counts are exact over evictions and restarts; ids increase; an update reaches its own log; nobody is held up for ever; no request is taken off the active ones twice; the counters agree with what a restart computes; only a dropped client ends the actor |
| `proxy_pool` | 2 handlers that do not overlap, 3 names, 2 proxies, all maps | the four statics agree between requests; chat requests keep their clients during an update; the file follows; only an empty map breaks the precondition of `set_general` |
| `chat_steady` | every kind of frame, up to 4, up to 2 per chunk, streamed or not | for an orderly upstream on a steady network: nothing twice, complete, in order, well-formed, ended |
| `intern_pool` | 4 owners, 1 string, 2 raw tokens with one key, 4 addresses | cells in use are never freed and counted exactly, none leaks, equal values share a cell, a double free needs a revival |
| `debug_log` | 5 lines, 2 may wait, a gap of 1, a buffer of 2 | the file is in order but for lines given up, no line disappears, each gets to the file |

Runs that end with a violation, each with an entry under "findings" and told
[below](#where-the-code-and-its-comments-disagree):

| Run | Instance | Violates |
|---|---|---|
| `usage_other` | 1 check, 2 keys, 2 names, 2 slots | `ProfileOfOwnToken`: a profile stored with another token |
| `active_leak` | as `chat_request` | `ActiveIsCurrent`: a dropped request counts as active |
| `log_overlap` | 2 requests, 1 reader, channel of 2 | `UpdateReachesOwnLog`: two requests with one log id |
| `chat_hung` | every kind of frame, up to 3, any cut | `Answered`: a handler waits for a lock that it holds |
| `chat_lost` | as `chat_hung` | `OpenAiShape`: a response without content |

Why the bounds are enough to be of interest. Three slots are the fewest in which
a removal shifts a position that is neither the removed nor the last one, and in
which a freed id is reused while another is free (FIFO or not then matters). A
head can be before, at and behind a removed position, at the length, and, after
a reset, beyond it. Names matter to the alias indexes only, so they are in
`token_routes` and `usage_other` (a name can be taken by the other token, given
back and taken again) and left out of `token_store`, whose invariants are also
proved without bounds. Two requests and up to two loaded logs over a limit of
two evict loaded logs as well as those of finished, unfinished and lost requests;
a channel of one place makes every sender wait; one restart after a save at any
time leaves pending logs, and logs the file has not seen. Three names are the
fewest with which the general name is deleted while two others remain to choose from. Four frames in chunks of up to two give
a kept first batch, a second kept one, a piece that sends both, and an end, with
a tool call's pieces on either side of a chunk boundary. `MaxEvents` only stops
a client's transcript from growing while an error is repeated. Four owners are two
that are about to free one cell, one that looks its value up, and one that has
another value of the same key. Five lines over two that may wait give a line that is
skipped, arrives late, moves `next_seq` back and is followed by others.

Keys are symmetric in `token_routes`, handlers in `proxy_pool`, owners, addresses and the
two raw tokens (which have the same key) in `intern_pool`; the properties there
are invariants and action properties, and no operator tells two of them apart.
The runs with liveness properties use no symmetry.

The type invariants of TokenManager, TokenRoutes, UsageCheck, LogActor, ChatRequest,
ChatStream, ProxyPool and InternPool are proved, and DebugLog's is part of the
invariant of its proof; the runs themselves check what is less evident.

Deadlock checking is off where the system may stop: a process that is down or
undefined after a fault, requests that are all done, a response that has ended, a
debug log that has been closed.

## Assumptions, and what happens without them

Some runs restrict the environment. Each restriction is an operator of its own,
and the specification without it is there as well, so that it can be lifted:

* `KeysDistinct` (TokenManager, TokenRoutes, UsageCheck): nobody stores a key
  twice. The handlers do not ensure it: `handle_set_tokens` and
  `handle_merge_tokens` do not look, and `handle_add_tokens` compares with what
  was stored before the request only. Under `Spec`, TLC finds `Documented` and
  then `NoFault` violated: the second removal of one key meets the unchecked
  accesses at `token.rs:365` and `queue.rs:204`.
* `OneAtATime` (LogActor, ChatRequest): no request asks for an id between another's id and
  log. `log_overlap` is the run without it.
* `Serial` (ProxyPool): the administrator's requests do not overlap with one another.
  Nothing in the code sees to it. Chat requests do overlap with them, and so do the
  file operations of handlers that are gone. Under `Spec`, with two handlers, the
  stores of one between the loads of the other leave `set_general` without its
  precondition (`proxy_pool.rs:149`), so that `FaultNeedsEmptyMap` and `PoolExact`
  fail, and an addition computed from an older map overwrites a proxy stored
  meanwhile (`proxies.rs:120`).
* `OrderlyChunk` (ChatStream): the upstream sends nothing after an end, an error
  or the last message of a tool call, nothing but more arguments within a call,
  some of them with its last message, and does not close before; with a last
  message that adds nothing `AnthropicShape` fails (`decoder.rs:368`).
  `SteadyChunk`: after the first text chunks end where frames end, and the end of
  the response is not in the chunk of its first text; of a response that is not
  streamed, the frames of a tool call are in one chunk.
  `chat_hung` and `chat_lost` are what `OrderlySpec` gives without the second,
  and without its last part `CollectedFaithful` fails.
* InternPool takes the counts as atomics on their own locations, in an order that
  all threads agree on; what Relaxed, Release and the locks mean for other
  locations is not modelled. `FaultNeedsRevival` says when a fault is possible, and TLC
  does reach one: without the excuse `~fault` is violated.
* `DiskCurrent` and `SavedIsCurrent` excuse saves that failed or whose handler
  was dropped (`behind`), until a later save succeeds. `DiskCurrent` also leaves out
  the names in `renamed`: those that usage checks gave (`service.rs:324`) since the
  file was written, and which a restart loses. The excuse also covers the end of the
  process: a handler's truncation may come after the shutdown's save, since the server
  goes on serving, and TLC finds that `Exit` with the state saved may leave
  `disk.state` torn, although `main.rs:233` reports the state as saved.

UsageCheck restricts nothing but `KeysDistinct`. What holds whatever happens between
the locks of a check is proved (`IdHolds`, `AliasesExact`); `usage_other` shows what
does not. `NoFault` fails under `UsageSpec` as well: a token that is removed between
two locks leaves the check with an empty slot, which it accesses unchecked.

## Fairness

* `FairSpec` (TokenManager): requests keep selecting from every queue, and a
  select that has loaded its head stores it (it waits for nothing in between).
  Nothing is assumed of the order of racing selects, and the conclusion is about
  administrators that come to rest: a stream of removals could well keep a token
  from its turn.
* `RequestSpec` (ChatRequest; `SerialSpec` is the same for LogActor alone): the
  actor takes commands as long as there are any (its loop does nothing else), and
  a sender that finds room again and again gets it: tokio's bounded channel queues
  waiting senders in order, which is what strong fairness per request stands for.
  Since an update is sent when the upstream server has answered, it also says that
  the server answers, fails or closes in the end: the HTTP client bounds the time
  to connect (`proxy_pool.rs:233`) but not the time to answer, so this is an
  assumption about the server. Nothing is assumed of readers, of requests that have
  not begun, and of crashes.
* `Fairness` (ChatStream): the upstream gets to the end of its response and
  closes its stream, and the client reads the body.
* `Spec` (DebugLog): the runtime runs the tasks that send lines, the writer takes
  lines while there are any, and its timer fires. Nothing is assumed of shutdown.

## Refinement

`TokenManager` declares `Abstract == INSTANCE TokenStore WITH ...`. The mapping
reads the store as callers do, through the key index: `Found[k]` has the status
of the slot that `id_map[k]` names and the alias `id_to_alias` has for it, and
the token a request was given is the one its select picked.
`ImplementsStore == Abstract!Spec` then says that every step of the detailed
store, with its slots, free list, four indexes, queue and heads, is one step of
the table or none: `Add` is a refused call (no step) or `Add` of the table,
`WriteKey` is `Rekey`, `Reset` is `Clear`, the load of a head is no step and the
scan is `Give`. It fails as soon as a call disturbs a second token, an alias is
shared, or a select answers "none" while a token is usable.

## Proofs

Every proof starts from an inductive invariant of its specification, which TLC
has checked on a small instance, and has a lemma per action, with a step under it
for each conjunct that the action can disturb.

| Module | From | Proves |
|---|---|---|
| `TokenManagerProofs` | `DistinctSpec` | `TypeCorrect`, `IndexesAgree` (`IdMapExact`, `AliasesExact`, `QueueExact`, `FreeIdsExact`), `DocumentedHolds`, `MemorySafe`, `UnnamedAdd`, `StoreImplemented` (the refinement), `PlaceSurvivesRemoval` |
| `TokenRoutesProofs` | `RouteSpec` | `RoutesKeepStore`, `AliasesSurvive`, `FileIsCurrent`, `StartNeverRefused`, `LoadsWhole` |
| `UsageCheckProofs` | `UsageSpec` | `ChecksTyped`, `IdsHold`, `AliasesKept` |
| `ChatRequestProofs` | `Spec` of LogActor | `TypeCorrect`, `CountsExact` |
| | `RequestSpec` | `RequestTypes`, `CountsSurvive`, `IdsUnique`, `UpdatesOwn`, `ActiveCount`, `CountersFollowLogs`, `ActorLives` |
| `ChatStreamProofs` | `Spec` | `TypeCorrect`, `SentAtMostOnce` |
| | `SteadySpec` | `StreamCarriesAll`, `OpenAiWellFormed`, `AnthropicWellFormed`, `CollectedCarriesAll` |
| `ProxyPoolProofs` | `SerialSpec` | `TypeCorrect`, `StaticsAgree`, `OnlyEmptyMapFaults`, `FileFollows`, `ChatsKeepClients` |
| `InternPoolProofs` | `Spec` | `MemoryInUse`, `SameValueSameCell`, `NothingLeaks`, `OnlyRevivalFaults` |
| `DebugLogProofs` | `Spec` | `LinesInOrder`, `LinesKept` |

The specifications restrict the environment as the section on assumptions says,
and no more: `DistinctSpec`, `RouteSpec` and `UsageSpec` have callers that store no key
twice, `SerialSpec` of ProxyPool administrator's requests that do not overlap,
`RequestSpec` one request at a time between its id and its log, `SteadySpec` an
orderly upstream server on a steady network (its fairness is not used). Those are
restrictions of the runs too, and the same section says what fails without them. The
constants are arbitrary but for the ASSUMEs of the modules: `None` is none of the
values it stands beside (`ConstantsDiffer`, `NoneAssumption`, `HolderAssumption`,
`PoolAssumption` of InternPool), given names are not generated aliases, limits are
numbers, a buffer and a deque hold something, frames have a kind, a length and a
mark (`FrameAssumption`), the statuses that a request may ask for
are statuses (`RequestStatusAssumption`), strings, raw tokens and their keys are
different things, `InternPool` has finitely many owners, and the system proxy is a
proxy (`PoolAssumption` of ProxyPool).

**Token store.** None of the parts of `IInv` is inductive by itself, which is why
it is their conjunction. `id_map` stays exact on a removal only because keys are
distinct; the queue is renumbered through the keys of the tokens its positions
stand for, so it needs `QueueExact` of the state before and the slot of every
position to be live; `NoFault` needs all of the indexes; that an unnamed token is
never refused needs `AutoAliasOwn` (a generated alias carries its own slot's id)
with `FreeIdsExact` (the next id is not in use); and a select in progress needs a
queue that is not empty, which holds since it keeps writers out. The long lemma is
`RemoveIInv`, where the positions behind the removed one shift.

The refinement is proved from `IInv` and a bound on the slots. `RowSlot` reads a
row of the table as the slot that the key's index entry names, and each
`...Refines` lemma then has one row to change and shows that all others keep their
slot. The interesting one is the select: that it may answer "none" only when no
token is usable takes `ScanMissesNone`, which rests on arithmetic (`Round`: counting
round from any start, stale or not, meets every position) and on the least
position that hits being the one the scan stops at (`LeastElement`).

**Routes and file.** `RouteInv` adds to `IInv` what the file may be (`DiskOK`: a
whole file has records numbered from 0 on, with different aliases), what a load has
got to (`LoadedSoFar`: slot i has the token of record i, its alias up to the number
in a generated one), and `FileFollows`, which extends `DiskCurrent` to a handler
that holds the lock and has changed nothing yet (`Clean`): that is what a handler
relies on which ends without a save. The names that usage checks gave are left out on
both sides (`Masked`): a renaming changes one position, and only its name. What save writes is numbered by rank among the
live slots; that ranks are exactly 0 to n-1 is a fact about cardinalities of
initial segments. A record is not refused on load since a given name was unique in
the store that was saved, and a generated one is generated anew for a new slot.

**Usage check.** `IdHolds` is inductive together with the store's `IInv`: a slot whose
key is that of a check is the one `id_map` has for it, a removal empties the one slot
whose key it names, and a merge or a refresh changes the key of a token where it is, so
that the id stays right although the key does not. `AliasesExact` needs `IInv` too,
since `set_alias` on an id that was read earlier meets whatever token is there, or none,
which it refuses.

**Log actor and chat requests.** The reference count of a key is the number of logs
in the deque that have it. The argument is about cardinalities: the logs that stay
and those that are evicted partition the window, so releasing the evicted ones
leaves the count of those that stay, and the new log adds one to its own key. In
particular no count becomes negative, and the `panic!` for a missing token in
`GetLogs` is not reached. Ids need what the channel may hold (`Orderly`, `Fitting`:
one log at a time, with the id that is next; a log before its updates; an update
with the id of its request) and when a log has arrived (`Landed`), after which its
id is not given out again, since the last log is never evicted without a later one.
`ChatRequestProofs` takes this over saves and restarts (`Loadable`) and adds where
each counted request is to be found: without a log yet, in the deque, or in updates
that are to be applied (`Told`, `Accounts`). Every step of a request moves it from
one of these sets to another, and the counters with it. A dropped request leaves
`InFlight` and the counter of active requests stays, so that only `>=` is kept
(`ActiveCovers`).

**Chat streams.** The decoder, `process_messages` and `collect` are loops, here
recursive functions on an interval. `DecodeRun`, `ProcessRun`, `CollectRun`, `OnlyRun`
and `WalkRun` say that such a function exists, so that each of its values is one turn
of the loop applied to the value before; `Upwards` is induction over an interval, for a set of
numbers in place of a predicate, from the well-foundedness of `<`. What a loop
computes is then an invariant of its turns.

That nothing is sent twice (`SentOnce`) holds for any upstream server: the frames
that have been sent are among those that have left the buffer, without the ones kept
in `first_result`, and the messages of one decoding carry each frame once (`Fine`). An
error leaves frames in the buffer that have been decoded but not sent, which is why
`Used` is about the buffer and not about what the decoder has seen.

The other theorems are about `SteadySpec`. `DecodeExact` says what the decoder makes of
a chunk: `Says(fs, n)` is what frame n stands for, whatever the chunk it comes in,
and `Exact` that the messages are these and no others. This takes `ArgsOf`, by which
`raw_args_len` is the length of the longest arguments so far, and that the frames are
orderly, since a decoder that has processed a call skips what follows. `StreamInv`
then has a clause for each phase: until the first text all that has arrived is in
`first_result` (`Keeping`); then it is there or it has all been sent (`Sending`); at
the end the message is closed (`Closed`) or an error has been sent (`Erred`). `Going`
and `Over` are the states of the two formats while the response goes on and after its
end. For Anthropic's they contain the walk over the events that `AnthropicShape`
speaks of, with the block that is open, so that each event has to fit where it is put.

`CollectInv` is the same for a response that is not streamed. `Content` says that the
body has the frames that are to be in it, in order, without the signatures that were
replaced. `Blocks` states the numbering for any two events, not for neighbours:
`SignBlock` takes an event out of the middle, and what holds of all pairs survives
that; no block's number is lost, since the new signature has that of the old one.
`Signed` says which
signatures the next one would replace, in terms of the block for the code and in terms
of the frames for the property `Overwritten`. That the arguments of a call parse
(`CallComplete`) is where `SteadyChunk` is used: all its frames are in one chunk.

**Proxy pool.** Between the loads and stores of an update the statics do not agree.
`Stage` says, for each place where a handler may be, how far they do and what of the
handler's copies is still current; `Underway` has this for the one handler that is
under way (`Alone`), and the agreement of all four at rest, which is `PoolExact`.

**Interned strings.** The counts are exact by themselves, but three things have to be
added to make the invariant inductive. `InUse`: an owner about to free a cell has a
pointer to a cell that is there, or has been marked as dangling when the cell went.
`Canonical`: a cell whose key is its own is the one in the map; without it the second
lookup of `new`, under the write lock, could miss a cell that has holders, and
`OneInstance` would not follow. `Unrevived`: until a count is raised from 0, whoever
is about to free a cell is alone with it and its count is 0, so nobody is left
dangling. `Reuse` and `Clone` share one lemma (`CountUpIInv`), since both raise the
count of a cell that is there.

**Debug log.** `Gapless` is what makes the order inductive: while the writer runs, a
number below `next_seq`, or below a line that is through, is through as well or was
given up. A line that still waits is not through (`Apart`), so if it is late, it was
given up. `FineJoin` and `FineSplit` say when lines that follow one another are in
order together, so that buffer and file can be cut anywhere, which is what
`flush_byte_buffer` does. `RunIs` and `SortedIs` are what the loop over
`pending_messages` comes to: the lines up to the first gap, by their numbers.

Only model-checked. Liveness (`EveryUsableServed`, `RequestsFinish`, `PendingEnds`,
`Answered`, `EventuallyWritten`) is out of the prover's reach. The five runs that end
with a violation have no counterpart here. Every invariant and every action property
that a passing run checks is proved. Two theorems go further than the runs:
`SentAtMostOnce` has any upstream and any cut, errors in the middle of a stream
included, where `chat_steady` has a steady one, and `IdsHold` has no passing run.

## Where the code and its comments disagree

Checked by runs of their own:

* `log_overlap`: two requests may be given the same log id, and the update of
  one then changes the other's log (`service.rs:245`).
* `chat_hung`: a chunk that is empty or leaves fewer than five bytes in the buffer
  (`decoder.rs:206`) makes the handler lock a mutex it holds (`service.rs:711`).
* `chat_lost`: a first text in the last chunk is never sent (`service.rs:731`).
* `usage_other`: a token deleted between two locks of a usage check whose id is
  reused: the other token gets the profile (`service.rs:311`), where the task is to
  update that of its own (`service.rs:291`).
* `active_leak`: a request that is dropped before the upstream's answer stays among
  the active ones for ever (`service.rs:203`), where the README has the number of
  requests that are active at present (`src/README.md:1288`). `ActiveCovers` is what
  remains true: the counter never falls below the requests that wait.

Found by TLC in specifications that the modules state, without a run in this project:

* If that id is not reused, the accesses of a usage check from `service.rs:301` on
  meet an empty slot, against the SAFETY comment at `token.rs:316` (`NoFault` under
  `UsageSpec`).
* The server serves until the process ends, so a handler may have truncated the token
  file after the state was reported as saved (`main.rs:233`): `Exit` of `RouteSpec`
  with `stop = "saved"` and a torn file.
* An addition whose map was computed before another request stored its own replaces
  that one's proxy of the same name (`proxies.rs:120`), where the README has duplicates
  ignored (`src/README.md:896`): `Spec` of ProxyPool with two handlers.

Seen while modelling, and stated by a property that has to excuse it:

* A client that goes away while it waits for an answer ends the log actor
  (`manager.rs:327`), which "should never happen" (`manager.rs:386`).
  `AliveUnlessDropped`: nothing else does.
* An empty map is replaced in `PROXIES` but not for the clients
  (`proxy_pool.rs:120`), and `set_general` unwraps a client that is not there.
  `FaultNeedsEmptyMap`: nothing else leads there.
* A read error before the first text is answered with an error, but the log stays
  at success and no error is counted (`service.rs:631`). A log that was pending
  when it was saved counts as an error after every later start (`manager.rs:101`)
  and is never finished. `CountersAgree` and `PendingEnds` say what remains true.
* `new` raises a count of 0 to 1 (`arc_str.rs:260`), against "the count must be at
  least 1" above `inc_strong` (`arc_str.rs:736`). If the new handle is dropped
  before the first drop has taken the lock, two drops are about to free one cell,
  and the second reads the count of a freed one. `FaultNeedsRevival`: this is the
  only way.
* Two raw tokens with the same key displace one another in the cache, and two
  handles of one of them may then differ although `==` compares pointers
  (`cache.rs:374`). `OneInstance` leaves these out.
* The arguments of a tool call that spans two chunks are collected for each chunk
  anew (`service.rs:1724`): the call is left out of a non-streamed response whose
  reason to stop is still `tool_use`.
* The last message of a tool call is skipped, with its mark, when it adds nothing
  to the arguments (`decoder.rs:368`).
* A debug line that arrives after its number was skipped waits until shutdown, or
  until too many lines wait, which moves `next_seq` back to it (`log.rs:133`); a
  tick moves `next_seq` on but writes nothing it could write now (`log.rs:161`);
  a line sent during the last flush is accepted and lost. `InOrder`,
  `NothingLost` and `EventuallyWritten` excuse these. The warnings compute
  `oldest_seq - 1` and `seq - 1`, which is below 0 for the line 0 that comes late;
  the number goes to the message only.

Seen while modelling, without a property: a removal can leave a head equal to the
length of the queue, where the comment at `queue.rs:104` has pointers that never
go out of bounds (`select` reduces it, so nothing goes wrong); a streamed tool
call's further pieces each open a content block of their own, since its block is
recorded as text (`service.rs:1452`, comment at 1422).

## What is not modelled

The bulk of the repository's lines is `src/patch/`, patched copies of third-party
crates (h2, hyper, reqwest, rustls, chrono, prost and others). They are not this
program's own logic and are left aside; what they do to it, connections that are
lost and chunks cut anywhere, is in the models.

Of the program itself: which token a request is served with (`core/auth/`), the
code-completion service, request and response bodies field by field, the adapters,
generated protobuf code, text conversions, configuration, time and NTP, static
pages, and the memory primitives of the crates `manually_init` and `rep_move`.
Left out of modelled parts: fields of a token that no property is about (client
key, checksum, proxy, time zone), the filters of `GetLogs`, the usage check's own
`TokenProfile` update of its log (which leaves the status alone, as the other
updates of kind "chain" do), the optional usage chunk of OpenAI's format, and the
bytes of the archives. Undefined behaviour ends a model rather than being explored: a
fault leads to no further step.

## Plan

1. Which token a request is served with (`core/auth/`): shared token, alias, key
   or a token of its own, over TokenManager.
2. The code-completion stream (`core/service/cpp.rs` and its decoder), beside
   ChatStream; the log file's truncation and copy, beside TokenRoutes.
3. Proofs: lemmas of the token store that a module on `core/auth/` will need; that
   ChatStream without `SteadyChunk` still sends a beginning of what it is to carry,
   which needs an invariant that allows for what stays in `first_result`.
