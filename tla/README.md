# CrabChat in TLA+

A TLA+ model of the CrabChat server, its database, its admin interface, its wire
protocol and its client, with TLC runs on small instances and TLAPS proofs for
every value of the constants. `PROJECT.json` maps each definition to the source
lines it stands for; this file is the tour.

To check: `tlc -config <run>.cfg <module>` for the runs of section 3, and `tlapm <module>.tla`
for the eight proof modules `CrabChatTypes`, `CrabChatProofs`, `PresenceProofs`, `MessageProofs`,
`CompositionProofs`, `FramingProofs`, `ArchiveProofs` and `SessionProofs`.

## 1. The system

| part | source | state | operations |
|---|---|---|---|
| accept loop | `server/src/lib.rs:517-613` | the shared `ServerState` | accept, spawn a handler, gauge up and down |
| connection handler | `lib.rs:244-404`, `422-504` | its `ClientInfo`, its socket, its broadcast receiver | login, receive, store, broadcast, forward, clean up |
| client registry | `lib.rs:121`, `268`, `400`, `446` | `clients: Arc<Mutex<HashMap<SocketAddr, ClientInfo>>>` | check a name, insert, remove; read by the admin's users page |
| broadcast channel | tokio, `lib.rs:545` | the last messages, one cursor per receiver | subscribe, send, recv, lag |
| database | `server/migrations/*.sql`, `lib.rs:154-224`, `admin.rs:412-506` | `users`, `messages`, sequences, row locks | select, insert, delete, cascade, commit, roll back |
| connection pool | sqlx, `lib.rs:525-528` | at most ten connections | acquire, give up, give back |
| admin interface | `server/src/admin.rs` | none of its own | delete a user (a transaction), delete a message, the users page, the messages page |
| metrics | `lib.rs:41-111` | a gauge, a counter | moved by the handlers |
| wire protocol | `utils/src/lib.rs:138-206`, `406-502` | bytes in flight | prefix, payload, limits, end of file |
| file storage | `utils/src/lib.rs:284-360` | files under `server_received` | save, read |
| client | `client/src/lib.rs` | the connection, two tasks, a shutdown channel | login, send lines, show what arrives, quit |

**How they interact.** Every connection has a task of its own on tokio's
multi-threaded runtime. Handlers share the `clients` map (one mutex), the
broadcast channel and the pool of database connections; admin requests share the
same three. A handler is sequential: one `select!` chooses between the next
message of its peer and the next broadcast, and the body of the chosen branch runs
to its end, writes included. Nothing but the database survives the process.

**What is hard.** Decisions taken under a lock that is released before they are
acted on (the uniqueness check); ids read at login and used for hours; a
transaction of several statements against sessions that insert between them;
deadlocks the database breaks by aborting; a bounded channel and slow readers; a
lock held across a write; a read that `select!` drops half way; a process killed
between any two steps; two sides of a connection that each wait for the other to
read; a page that joins reads made at different times; files written under one path
by several sessions; a pool whose connections are held by whoever waits for a row
lock. `PROJECT.json` lists each of these under `hazards` at its line, with the
property that covers it or the reason none does yet.

**What makes each part correct.**

- Registry: a name is in use by one client at a time *(the code does not
  guarantee this, see section 6)*; entries come and go with the handlers.
- Handler: replies in protocol order, every login decided, every exit cleaned up.
- Channel: the feed is in order, without repetition, and complete up to lag.
- Database: messages belong to the user who wrote them; removing a user removes
  all it wrote, at once; ids are never reused.
- Pool: nobody keeps a connection without a statement to run, and whoever waits for one is served.
- Admin: a deletion ends, however many run at once; the users page shows as online who is
  connected under that name; a Delete button hits the message it stands beside or nothing; a
  long content does not keep the page from being served *(cutting it may panic, section 6)*.
- Files: what is on the disk is one message's bytes unless two sessions had the path open, and it
  is there before the row is; the row names it *(an image's may not, section 6)*.
- Metrics: the gauge is the number of handlers.
- Wire protocol: what is received is what was sent, in order, within the limit.
- Client: lines leave in order and are heard in order, what arrives is shown, neither side hangs.

## 2. The modules

```
Broadcast ──┐
            ├── ChatServer ──┐
Database ───┤                ├── CrabChat ── MCCrabChat
            └── Admin ───────┘      │ ├───── UsersPage ────── MCUsersPage
                                    │ └───── ConnectionPool ─ MCConnectionPool
                                    └ implements ChatHistory
FileStore ── MessagesPage ── MCMessagesPage
Framing           ClientSession                                     (on their own)

proofs:  CrabChatTypes ── CrabChatProofs ─┬─ PresenceProofs ── CompositionProofs (of UsersPage
                                          └─ MessageProofs                       and ConnectionPool)
         FramingProofs (of Framing)  ArchiveProofs (of MessagesPage)  SessionProofs (of ClientSession)
```

**Broadcast** models `tokio::sync::broadcast` from its use: `log` is everything sent,
`next[a]` the cursor of a's receiver (0: none), and a cursor that is more than
`Capacity` behind is `Lagging` and gets moved (`RecvError::Lagged`). `send` with no
receiver is an error the server only logs; keeping the entry makes no difference to
anybody who subscribes later.

**Database** has the rows, the two sequences and the locks on users rows an open
transaction has deleted. Statements have their READ COMMITTED meaning: a SELECT
sees a row whose deletion is not committed, an INSERT that needs such a row waits, an
INSERT refused by a constraint uses up an id. `author` and `committed` are history.

**ChatServer** has one action per await point of `handle_client` and
`authenticate_client`; `pc[a]` is the step the task of address `a` takes next:

| `pc` | code |
|---|---|
| `login` | `receive` of the login message, `lib.rs:434` |
| `check`, `inUse` | under the mutex, `446-461`; the refusal is written while it is held |
| `select`, `insert` | `get_or_insert_user`, `158-175` |
| `refuse`, `rejected` | an error reply, then the caller's own error reply, `262` |
| `welcome`, `join` | `LoginOk`, then the join notice, `469-473` |
| `register`, `subscribe` | `268` and `275` |
| `loop` | `select!`, `278`: any outcome of `receive`, or the next broadcast |
| `save`, `store`, `storeFailed`, `announce` | `306-361`, the three kinds of message |
| `complain`, `complainLeave` | an error of `receive`, `291-303` |
| `forward` | writing a broadcast, `370` |
| `bye`, `unregister`, `exit` | `396`, `400`, `605` |

What a peer sends, whether a write reaches it and whether the database answers are
choices; a statement may succeed and its reply be lost. `inbox`, `since` and `missed`
are history variables (what was written to a socket, where it subscribed, what lag
took). An address connects again only after its handler has ended, since its socket
is open until then.

**Admin** has one action per statement of `delete_user_by_id`. A transaction's
deletions are kept aside (`doomed`, `rowLocks`) until `Commit`. The DELETE on `users` and the cascade
it triggers are two steps with a snapshot each, which is why a message inserted
between the two DELETE statements is still removed. `Abort` may come at any point.
Rows deleted by another open transaction are waited for, so two requests for one user
can deadlock.

**CrabChat** composes them and adds `Crash`: all tasks, locks, cursors and open
transactions vanish, the committed tables stay. (PostgreSQL notices a dead
connection after a while; the model rolls it back at once, which only makes the
locks shorter. A statement that was on its way when the process died is a store
whose reply was lost followed by the crash.) The safety and progress properties,
`TableInv` and the refinement mapping are here.

**ChatHistory** is the abstract specification of the two tables: users join under a
free name and a new id, post under their own name, and are removed together with all
their messages in one step. No connection, transaction, lock or crash.

**UsersPage** puts `list_users` beside the running server: the rows of one query (`listed`), then a
read of the clients map, for which the request waits behind the logins that hold the mutex.
Between the two a user may be deleted, log in again under a new id, or leave. A failed query is
an error page and changes nothing, so it is not an action.

**ConnectionPool** is `CrabChat` with every statement on a connection of the pool. `Acquire` gives a caller one,
first come, first served; a statement gives it back when it ends, also when it waited for a row lock in
between; a deletion keeps the one its transaction began on until commit or roll back.
`TaskTimesOut` and `RequestTimesOut` are sqlx's `PoolTimedOut`: the statement fails as any other.
The module restricts the steps of `CrabChat` and adds none of its own to them, which is
`PoolImplements`.

**FileStore** is what a session does with a File or an Image: `create`, the chunks of `write_all`, then
the row. `files` maps each path to the chunks at its offsets; a second `create` empties the
file under a writer, whose next chunk then leaves a hole. Image names are made from the
clock once for the file and again for the row (`ImagePath`, `ContentOf`), and the clock may tick in
between; hence a row has, beside its `content`, a history field `saved`: the path its own bytes were
written to, by which the properties find them whatever the content says. Any step may fail, and the process may be killed. Text messages are there too: they
are rows the admin sees. Users and deletions of users are `Database` and `Admin`; here a session is
its user.

**MessagesPage** adds the messages page: `get_messages` with its filters, its order by `sent_at` alone
(rows of one millisecond come in any order) and its limit, the truncation of long contents at a byte
offset, and the Delete buttons, which act on the page as it was when it was served. A text is the
sequence of its characters' sizes in bytes: all that `len()` and `[..97]` tell apart.

**Framing** is one direction of a connection byte by byte: `send_serialized_message` on
one side, `read_message_from_stream` inside a cancellable `receive` on the other. A byte
is the frame it belongs to and its place in it. Bytes that are not a prefix read as
one may spell any length. A peer may close at any time, also in the middle of its last frame
(`cutOff`), and a read may fail with any other error (`ReadFails`). `strayed` remembers what first broke the
frame boundaries: a frame over the limit (`oversize`), one whose length does not fit the prefix (`wrapped`), or a
receive dropped within a frame (`dropped`); after that the properties promise nothing but that an
oversize frame has been answered. The scale: two bytes of prefix instead of four, four
expressible lengths instead of 2^32, a limit of two bytes instead of 10^8; what matters (a
length at the limit, over it, and one that wraps, to zero and to a small number) is all present.

**ClientSession** is `run_client` (main loop and receiver task) with the handler's view of
the same connection. Frames are atomic here, buffers are bounded; either side may
be killed and the connection reset at any time. `align` says whether the handler's next read is at the
start of a frame. It is not after a receive was dropped within a frame, nor after a line over the size limit,
which the client sends without a check and whose payload the handler leaves in the stream
(`HandlerTooLarge`); then the handler may make anything of what follows (`HandlerMishears`), and
may by chance come to read at a frame's start again (`"regained"`).

## 3. The runs

| run | module | instance | states | question |
|---|---|---|---|---|
| `feed` | `MCCrabChat` | 2 addresses, 1 name, channel of 1, 3 connections, 2 messages, 1 crash | 905 000 | is what clients are shown stored, in order within its session, complete up to lag, after `LoginOk`, and counted? do notices, registry and gauge agree on every exit path? |
| `deletion` | `MCUsersPage` | 2 addresses, 2 names, 1 request, 1 message, 1 deletion, 1 crash, the users page | 838 000 | do the tables keep their promises and implement `ChatHistory`; is who is shown online connected? |
| `progress` | `MCUsersPage` | 2 addresses, 1 name, channel of 1, one peer that stops reading | 18 313 | is every login decided, every cleanup done, every feed drained, every page served? |
| `deletions` | `MCConnectionPool` | 1 address, 2 requests, 2 messages, 2 deletions, 2 connections of the pool | 19 924 | do deletions and stores end, and is whoever waits for a connection served, deadlock included? |
| `framing` | `Framing` | 2 frames of 1 to 5 bytes, limit 2, cancellable | 431 917 | is what is received what was sent until something breaks a frame, does it arrive, also after a close, and is a frame over the limit answered? |
| `session` | `ClientSession` | buffers of 1 frame each way, 3 lines, 3 broadcasts | 82 037 | order of lines and feed; does either side hang? |
| `archive` | `MCMessagesPage` | 2 sessions, 3 messages, files of 1 or 2 chunks, 2 clock values | 904 000 | are files whole and behind their rows; do the page's buttons hit their row? |
| `unique_names` | `MCCrabChat` | | violated | is a name unique among connected clients? |
| `reach` | `MCCrabChat` | | violated | does a broadcast reach every connected client? |
| `framing_cancel` | `Framing` | | violated | is a frame received as it was sent? |
| `truncation` | `MCMessagesPage` | | violated | is a content that is too long cut safely? |
| `image_names` | `MCMessagesPage` | | violated | does the content of an image's row name a file? |

(States are rounded where the run uses symmetry: TLC's count then varies a little with the order in which it
works.)

**Bounds.** `MaxAccepts`, `MaxReceives`, `MaxDeletes`, `MaxCrashes`, `MaxFrames`, `MaxLines`,
`MaxBroadcasts`, `MaxSends` and `MaxClock` cap counters that only grow; past them no new work arrives and
what there is runs to its end (`Finished` is the only state to stay in, or an admin's request that
is always possible, so deadlock is checked everywhere). Two sessions are what every race listed as a hazard needs: a
check and an insertion, a store and a deletion, a sender and a receiver. A third
connection in `feed` lets an address leave and come back while the other
watches. One name is enough there: names are compared at the login only, two logins under one name may both pass
the check (section 6) and then meet at any later time, and a login that finds it taken is refused; what each session
stores and is shown goes by its address. `deletion` has two names, for the tables. `feed` runs
`FeedSpec`, which is `Spec` without deletions, with its crash after the second connection at the earliest and its second
message stored before the third connection comes: a subset of the behaviours, within TLC's reach. Crashes and
deletions at any point are in `deletion`. A channel of one entry makes every receiver lag after two sends.
`Capacity` is 4 where lag is not the question: it then never happens. A pool of two is the smallest in
which a store that waits for a deletion's row lock and the deletion hold all there is, and a second
deletion waits for both. Three messages of two sessions let one session overtake the other on a path
and come back to it; two clock values let a name be made in one millisecond and again in the next.
In `archive` a content is over the limit of the page or far below it, and texts are cut between
characters, names within one; `truncation` adds contents at and around the limit.

**Symmetry** of addresses, names and requests is sound in the safety runs: no action compares
them but for equality, and `Stalled` is empty there. The liveness runs use none.

**Views.** `WithoutHistory` (in `MCUsersPage` and `MCConnectionPool`) leaves out of the fingerprint the variables no action's guard or
other variable's next value reads: the runs that use it check no property that mentions
them. `WithoutFeed` goes further, for `deletion`: of the channel it keeps, for each receiver, the senders
of the entries it has still to read, which is all that the actions read of it (they compare a sender
with the receiver and count what is left); none of that run's properties is about the feed.

**Mutants.** Each property of a passing run comes with a definition named `Mutant...` that
stands right before the action it changes: the bug a slip in that piece of code would
make (a guard kept alive, a reply forgotten, a cascade left out, a prefix off by one),
under which the property fails in the same run.

## 4. Fairness

The liveness properties assume this and nothing else (`CrabChat!Fairness`):

- *Weak fairness of a task's own steps*: the runtime polls every task that is ready. Replies of the
  login phase are among them, since the socket's buffer is empty at that point and a
  short write cannot wait.
- *Strong fairness of the steps that take the mutex*: tokio's `Mutex` is first come,
  first served. The same for statements that may wait for a row lock, and for the
  steps of a deletion.
- *Strong fairness of `recv` in the loop*: `select!` polls its branches in random order.
- *Weak fairness of a write in the loop, except to peers in `Stalled`*: a peer that stops reading
  may block its handler for ever. `progress` shows that it blocks nobody else.
- *PostgreSQL aborts one of two deadlocked transactions.* Any other abort, failure or crash may
  happen and need not.

Nothing is assumed of what peers or users do. The users page (`UsersPage!PageFairness`) waits for the same
mutex, hence strong fairness of its read. On the pool (`ConnectionPool!PoolFairness`) the assumptions are the same for
steps that have their connection, with strong fairness of `Acquire` since sqlx serves its waiters in
order; that a caller gives up after the timeout may happen and need not, so progress does not rest on
it. In `Framing`, a receive that has bytes to read is polled. `ClientSession` assumes that its two tasks and the
handler are polled, and that `select!` does not starve reading. Its handler's
unconditional progress while it stores is what `StoreCompletes` shows in the run `deletions`.

## 5. The proofs

For all `Addr`, `Username`, `Request`, `Capacity`, bounds and `Stalled`, from the named
assumptions of the modules (distinct constants, natural bounds, `Capacity` and `SocketBuffer` positive, in
`PageAssumption` that texts are sequences of character widths):

| theorem | what it states |
|---|---|
| `CrabChatTypes!TypesHold` | `Spec => []TypeOK` |
| `CrabChatProofs!HistoryInvariant`, `NoReassignment`, `Attribution` | `Spec => []HistoryInv`, `[]StaleIdNeverReassigned`, `[]MessagesHaveTheirAuthor` |
| `CrabChatProofs!Refinement` | `Spec => ImplementsHistory` |
| `PresenceProofs!GaugeHolds`, `RegistryHolds`, `NoticesHold` | `Spec => []GaugeCountsHandlers`, `[]PresenceMatchesRegistry`, `[]PresenceBracketsChat` |
| `MessageProofs!NothingShownUnstored`, `SessionsInOrder`, `AllCounted` | `Spec => []AnnouncedWasCommitted`, `[]OwnOrderKept`, `[]EveryMessageCounted` |
| `MessageProofs!RepliesInOrder`, `FeedsInOrder`, `OnlyLagLoses` | `Spec => []LoginReplyFirst`, `[]FeedInOrder`, `[]NothingLostButByLag` |
| `CompositionProofs!PagesImplement`, `OnlineHolds` | `PagesSpec => Spec`, `PagesSpec => []OnlineIsConnected` |
| `CompositionProofs!PoolImplements`, `PoolHolds` | `PoolSpec => Spec`, `PoolSpec => []PoolTypeOK` |
| `FramingProofs!ReceiveTyped`, `StaysInStep`, `OversizeAnswered` | `Spec => []TypeOK`, `[]InStep`, `[]OversizeIsTold` (of `Framing`) |
| `ArchiveProofs!ArchiveTyped`, `FilesAreWhole`, `RowsHaveFiles` | `Spec => []TypeOK`, `[]WholeUnlessShared`, `[]FilesBehindRows` (of `MessagesPage`, hence of `FileStore`'s part in it) |
| `ArchiveProofs!ButtonsHit` | `Spec => []ButtonsHitTheirRow` (of `MessagesPage`) |
| `SessionProofs!SessionTyped`, `LinesHeardInOrder`, `FeedShownInOrder` | `Spec => []TypeOK`, `[]LinesInOrder`, `[]ShownInOrder` (of `ClientSession`) |

So every invariant and every refinement the passing runs check is also proved for every instance.

*Types.* `TypeOK` is not inductive. A users row is well-formed only because the task that
inserts it has a well-formed name, and a delivered position is a number only because a
task that forwards has a cursor: `NamedTasks` and `EntryInHand` say so, and `TypeInv` is
inductive with them.

*Tables.* `MessagesHaveTheirAuthor` is not inductive either. A commit removes a users row;
its messages go with it because the transaction has marked them all (`CommitIsComplete`),
which stays true after the cascade because no session can insert another while the row
is locked, and the lock is this transaction's alone (`TargetHeld`). Other users' messages stay
because a transaction marks its target's only (`DoomedAreTargets`). An inserted message carries the name of
its session, and the row it refers to is that name's because ids are not
reassigned (`StaleIdNeverReassigned`), which rests on every id in use having been issued
(`IdsIssued`) and on the keys (`KeysUnique`). The conjunction is `TableInv`; TLC checks it
in `deletion` as `HistoryInv`.

*Refinement.* With `lastUser` the users sequence and `lastMessage` the messages sequence, a login's
INSERT is a `Join`, a refused INSERT a `SkipId`, a store a `Post`, a deletion's `Commit` a `RemoveUser`, and everything
else, a crash included, a stutter. A commit that found no users row changes nothing, because
there are then no messages of it either.

*Presence, store, feed.* A task has thirty-odd steps and each of these invariants minds a few. `Moves`,
`Passes` and `Hears` name those few, lemmas show that every step of a task is one of them (or keeps to
its side of them), and the invariant goes by their cases.
`PresenceInv` ties each `pc` to the registry and to the last notice of that address in the log, and
counts the tasks that are not idle. `StoredInv` says that every announced row, and every row a task is about
to announce, is committed, and that what a task holds is newer than all its session has shown (`HeldIsNew`), hence
order and no repetition; `CountInv` that what is shown or under way is within the counter. `FeedInv` is one client's
share: what it has been sent is below its cursor, in order, and what is missing below the cursor was its own,
was overtaken by the window, or is in hand. The other tasks only make the log longer, which `FeedInv` does not mind
(`Bystander`).

*Pages.* The rows in hand age while the server goes on. They stay comparable with what comes later
(`RowsStillTrue`): an id in them is issued, so whoever has it, then or later, has the same name. That follows
from what a step may do to ids (`IdStep`): new users rows and new infos carry new ids or those of the row of
that name.

*Pool.* A timeout is a failure `CrabChat` has already (`TimeoutIsFailure`), so `PoolSpec => Spec` and everything
above holds on the pool. A step of one process leaves the others among the callers, so no holder is left
without a statement.

*Framing.* `InStep` speaks of what has been returned; the invariant must speak of every byte under way.
The stream is described by what follows what: the next byte read is `Upcoming`, each byte on the wire is
followed by its `Successor`, the last by the first byte of the frame sent next. Reading a byte moves `Upcoming` to its
`Successor`; a full prefix is then the current frame's (`FullPrefix`), and so is a full payload. This is where `LengthPrefix` must give back the
length, which it does below `PrefixValues`.

*Files and the page.* None of the three properties is inductive. A file is followed through its saves
(`OpenedInv`): its last opener, if it still has the message in hand, is past `create`; and as long as that message is
alone at the path, whoever writes there is that session, and the file is the first `written` chunks of it. So the
next chunk goes to the end (`PutNext`) and the last makes the file whole; a second opener takes the first off `alone`
and nothing is claimed of the path until somebody is alone on it again. That a row has its bytes, at the path it was
`saved` to, goes by what its session had in hand before it (`Carried`, `Saved`, `RowBacked`). `OpenedInv` needs that numbers in hand are apart (`Distinct`). The page
outlives its rows, so its buttons rest on ids being given out once (`RowsInv`), not on the rows being there.

*Session.* Of each direction the invariant says what the frames on their way are. Towards the server they follow one
another from some number on (`Lined`), up to the line that is typed next (`Upcoming`); all that was heard is below that
number, and directly below it while the handler has kept its alignment (`LinesInv`). Towards the client they follow what
was shown, up to what the handler writes next (`ShowsInv`: `OnTheWay`). A reset or a death cuts a stream's end off
(`Cut`), which leaves the rest in order, and since nobody writes after a reset no gap can follow; hence the equalities
are stated only while there was none. `LoginOk` comes through the same stream: before it there is nothing in it, and
after a refusal no more than errors (`Unwelcome`), so what the main task takes for its answer is what starts the
receiver's count. Most actions are `LinesAside` and `Unseen`, which keep the two by one lemma each; the writes and
the reads have lemmas of their own.

TLC checked both inductive invariants, `ArchiveInv` and `SessionInv`, on the instances of `archive` and `session`
before they were proved.

*Only model-checked*: the liveness properties of `progress`, `deletions`, `framing` and `session`, since liveness under
fairness is out of the proof system's reach. The five runs of section 6 show what does not hold.

## 6. What the code does not do

Five runs end in a violation: the code differs from what its own documentation says.

- **Names are not unique** (`unique_names`). The check (`lib.rs:446-461`) and the registration
  (`lib.rs:268`) are separate; two logins under one name can pass the check together. `lib.rs:408`
  says the function "ensures it is unique among connected clients".
- **Not every connected client is reached** (`reach`). A client is registered (`268`) before it
  subscribes (`275`). `lib.rs:117`: "A broadcast channel for sending messages to all connected
  clients."
- **A frame can be lost half way** (`framing_cancel`). `receive` is a branch of `select!` (`lib.rs:278-279`), and the
  bytes its `read_exact` has taken are dropped with it. `utils/src/lib.rs:179`: "Asynchronously
  receives a length-prefixed message."
- **Cutting a long content may panic** (`truncation`). `&msg.content[..97]` (`admin.rs:248`) panics when byte 97 is
  inside a character, and with it the request for the messages page, for as long as the row is among those
  listed. `admin.rs:246`: "Safely truncate content if it's too long for display".
- **An image's row may name no file** (`image_names`). The name is made from the clock for the file (`lib.rs:343`)
  and again for the row (`lib.rs:205`), after the file was written. The migration says of the column `content`
  (line 11): "For Text messages or file names". The bytes themselves are on the disk, under the earlier name
  (`FilesBehindRows`), and in `raw_content`.

Three more disagreements met on the way need no run:

- The message counter runs on every outcome of `receive`, a closed connection included (`lib.rs:280`), while
  `lib.rs:48` says "Total number of messages sent through the server". `EveryMessageCounted` states the half that
  holds.
- The filter form sends an empty string for "All Users" and "All Types" (`admin.rs:280`, `340`). An empty
  `user_id` is not a number, so the request is refused; an empty `message_type` is taken at its word by the query
  (`admin.rs:459-467`), so nothing is listed. `AskedFor` has the latter among its filters.
- The integration test (`client_server_tests/tests/integration_test.rs:48-60`) has a client that never logs in, sends a
  Text as its first message and expects that Text back. The server answers an Error, "Expected Login message first",
  and closes (`lib.rs:491-502`, `262`); nobody's text is ever sent back to its author (`lib.rs:368`). The
  test passes all the same, because the assertion fails in a spawned task whose result is thrown away (line 63). The
  model follows the code: in `feed` every such client hears errors only, which is the second half of `LoginReplyFirst`.

## 7. Not modelled

- HTML, dates, message counts and the list of users in the filter form; the home page, a constant; the
  metrics exporter. They change no state and no property is about them.
- File contents beyond which message's chunk stands where; what a name means to the file system: a name is one file of
  its directory. Creating the directory is part of the step that creates the file.
- CBOR: a one-to-one encoding. `raw_content` and the kinds of messages in `CrabChat`: Text, File and Image take
  the same path there but for the saving.
- In the pool: the pages' queries, which lock nothing; a crash, which ends all connections with the process; the
  connection of `delete_message` while it waits for a row lock (it needs one to start, and holds none of the
  callers up for longer than that).
- `parse_input` beyond its outcomes, the wording of `ChatError` and its `From` conversions.
- A client's received files (it names images by the millisecond, `utils/src/lib.rs:306`): nothing reads them back.
- A host that vanishes without closing its connections: no read or write ever fails then, and the code has no
  timeout or heartbeat that would notice. Such a peer is a silent one.
- Command lines, logging, binding, migrations: no state of their own. The integration test starts one server and two
  clients of the kind modelled; where it and the code differ is in section 6.

## 8. What could come next

1. *An abstract chat room* for the feed (each client sees a subsequence of one log) with `ChatServer` as
   its refinement; its content is what `FeedInOrder` and `NothingLostButByLag` say now.
2. *Framing and ClientSession composed*, in place of `align`: the client's view of a frame that was dropped half way.
3. *More proofs*: that a login's refusal or an admin's deletion leaves everything else alone, as action properties of
   `CrabChat`; the rest of what the runs check and no theorem states is liveness.
