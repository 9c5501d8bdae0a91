# MyTwitter: a TLA+ verification project

MyTwitter is a small messaging service in C: a terminal client, a server that
forks one worker process per connection, a JSON protocol over TCP
(`spec_protocole.md`) and an SQLite database. This directory holds TLA+ models of
the server, of the client and of the two together, the TLC runs that check them, and
proofs for every value of their constants. Paths below are relative to the repository.

## 1. Inventory

| Component | Source | State it keeps | Operations | Talks to |
|---|---|---|---|---|
| Database schema | `init_db.sql` | seven tables on disk | single SQL statements | everyone, through `db.c` |
| Database access | `src/server/db.c` | one SQLite handle per worker, no transaction, no busy timeout | `exec_db` | handlers |
| Request handlers | `src/server/methods.c` | C locals of one request | 13 methods, each a run of statements | `db.c`, `json_communication.c` |
| Dispatch and answers | `handle_request.c`, `json_communication.c` | none | read, parse, call by name, write | a connection, handlers |
| Accept loop | `src/server/server.c` | `tab_clients`, `rset`, `newsockfd` | select, accept, fork, close | kernel, workers |
| Client network | `src/client/client.c` | socket, `cookie`, `username` | send one request, wait for its answer | server |
| Client commands | `src/client/methods.c` | `cookie`, `username`, request ids | one function per menu entry | client network, terminal |
| Terminal, tools | `terminal.c`, `tools.c` | cursor and counters | menu, prompts, colours | the user |
| Sample data, notes, build | `sql/`, `idee_implementation.md`, makefiles | | | |

What is hard, and the properties that make each component right:

* **Handlers.** A handler is a sequence of statements without a transaction. Workers
  of other connections run in between, any statement may fail on a lock (there is no
  busy timeout), and a worker may die anywhere. A check made by one statement is used
  by a later one. Right means: what is acknowledged is true and complete, what is
  refused changed nothing, the tables refer to rows that exist, replaced cookies stay
  dead, every request is answered.
* **Accept loop.** The worker that is forked for `sock_client` reads `newsockfd`, which
  is another variable. Right means: answers go to whoever asked, the table and the
  descriptor set agree, slots come free, a request is answered.
* **Wire.** One `read` is one request, an answer is cut at 1500 bytes. Right means: a
  request and its answer arrive whole, or the loss is noticed.
* **Client.** Right means: an answer is used for the request it answers, the menu
  matches the session, no command leaves the client stuck.

`PROJECT.json` lists every hazard at the line where it bites, with the property that
covers it or the reason why none does. Several cannot be forbidden, because they are what
the code does (a half-posted gazouilli, a cookie replaced by a connect that then fails, the
exits of the server); there the properties say what else holds, and the notes say so.

## 2. Modules

| Module | Models | Extends |
|---|---|---|
| `Store` | the tables, their UNIQUE constraints, what the SELECT statements return | |
| `Methods` | the workers: 13 handlers, dispatch, locks, crashes; properties | `Store` |
| `Service` | what the server promises for each request, without statements | `Store` |
| `MethodsService` | the refinement mapping from `Methods` to `Service` | `Methods` |
| `Client` | the client program: session, menu, commands, what it does with each code | |
| `System` | client programs and their workers together | `Methods`, instance of `Client` |
| `Wire` | the byte stream between one client and its worker | |
| `MethodsProofs` | typing and references | `Methods` |
| `SessionsProofs` | cookies and sessions | `MethodsProofs` |
| `AnswersProofs` | what the answers of the handlers promise | `SessionsProofs` |
| `ServiceProofs` | `Methods` implements `Service` | `MethodsService`, `AnswersProofs` |
| `SystemProofs` | clients and workers keep step | `System`, `AnswersProofs` |
| `WireProofs` | answers pair with requests on the byte stream | `Wire` |
| `ListenerProofs` | accept loop and workers | `Listener` |
| `Listener` | accept loop, workers as processes, clients as their environment | |
| `MCMethods`, `MCListener`, `MCSystem` | small instances for TLC | the module they name |

### Store

One variable per table, with the names of `init_db.sql`. `gazou` is a sequence: its
AUTOINCREMENT id is the index, and rows are never deleted. The other tables are sets
of rows; a row of `gazou_tag` or of a subscription is a pair. UNIQUE constraints are
guards of the writing statements (`InsertableUser`, `GazouUnique`, `UserUnique`); the
FOREIGN KEY clauses are not enforced by SQLite unless `PRAGMA foreign_keys` is issued,
and the code never does, so they appear as a *property*, `ReferencesHold`. A database
file outlives the server: `SeedUser` and `SeedGazou` are what it holds at the start.

`RelayedFor` and `WrittenFor` are the two halves of the UNION query of `get_gazou`;
`Pages` is its `ORDER BY date DESC LIMIT n`, ties cut anywhere; a negative `n` is no limit.

### Methods

`frame[c]` holds the locals of the worker of connection `c`; `frame[c].at` names the
statement it executes next. **One step is one SQL statement with the computation that
follows it**, because that is the granularity at which workers interleave. Each handler
is one operator, a disjunction over its statements in the order of the code, with each
early return as a disjunct that answers.

* *Locks.* A SELECT may fail while another worker is inside a writing statement, a
  writing statement while another worker is inside any statement (`ReadBusy`,
  `WriteBusy`). A failing statement changes nothing and makes `exec_db` return 1; the
  handlers answer error 11, except `user_name_from_cookie`, whose callers answer 14.
* *Crashes.* `Ended` is the end of a worker: between two statements (it is killed), and
  then the tables keep what was written, or after its answer. The connection is then used for a new client.
* *Answers.* `Answered` is `create_answer` followed by `fill_answer`: a request without
  `id` gets error 10 although it has been executed.
* *Cookies.* `Random` is `ABS(RANDOM() % (INT_MAX-1))`: any value of `Cookie`, or, with
  `Redraw = FALSE`, one never stored before. The session properties assume the latter
  (the code accepts the risk of a collision, methods.c:233-235); the reference
  properties do not.
* *History.* `drawn`, and the fields `wrote`, `stale`, `pending` of a frame, record the
  past for the properties and guard no step.

Abstracted: texts, names and dates are values without structure (`TooLong` says which
texts exceed 140 characters), user names are not empty and are shorter than the
buffers, logging is left out, `list_of_tags` is a set (the statements are
`INSERT OR IGNORE`, so order and repetition change nothing the tables keep). A number that
is missing from a request is read as 0, which is a value like others (`id_gazouilli = 0`
stands for every number that is no id). A request whose name, password, tag or date is
missing is not modelled: `%Q` makes SQL NULL of it, which compares with nothing and which
the tables accept where the column allows it; nor is a `send_gazou` without content or
without list of tags, the two parameters whose absence ends the worker by a null pointer.
The client always sends all of them.

### Listener

`tab_clients`, `rset`, `newsockfd`, `pset` are the variables of `main` in `server.c`; a
connection stands for its descriptor. `parent` says where the loop is: `Select`,
`Accept`, then one `Fork` per readable connection in slot order, then `Loop`. `Fork`
gives the worker `Inherited`, the descriptor that `newsockfd` denotes at that moment, or
a dangling one if the parent has closed it. `Read`, `Write`, `Finish` are the worker.
`exit(6)` (table full), `exit(7)` (fork fails; zombies are never reaped, so `MaxProc`
workers is the limit) make `parent = "dead"`; `exit(8)` and `exit(9)` end a worker.
`Finish` shuts down the connection the worker was forked for (`shut`), which need not be
the one it has read: another worker that is about to answer on it then fails
(`WriteFails`).
Clients send one request, wait, and may quit at any time, as `client.c` does.

### Service and MethodsService

`Service` says what a request may do, not how: after `Begin` and, for a method that needs
a cookie, `Identify`, a request takes effect in **one** step whose preconditions hold at
that instant (`Create`, `Relay`, `SubscribeToUser`, ...), or is refused with a code that
is true at that instant and changes nothing (`Misnamed`, `Inapplicable`, `Clashes`,
`Contended`). `Methods` implements it (`ImplementsService`): the checks of a handler by
earlier statements must still be true when it writes, whatever other workers do, and an
error must be the truth when it is given. Where the code promises less, `Service` says
so, and these are the places to look at in the code:

* `send_gazou` stores the gazouilli (`Post`), then one tag at a time (`Label`), and may be
  refused in between; `connect` replaces the cookie (`Grant`), then answers with the one
  that is there (`GiveCookie`), which may be that of a later login; `get_gazou` chooses
  its page (`TakePage`), then answers (`GivePage`);
* `relay_gazou` promises a new row, not the first relay of the user, because the date is
  part of the key; `unfollow_*` promise that the pair is gone, not that they removed it;
* `disconnect` (`Logout`) replaces whatever cookie the account has;
* error 14 may mean a lock (`Contended`) and not a bad cookie.

The mapping is total: `PhaseAt` reads how far a request is from the place of its worker,
`SessionAt` keeps the fields of the frame an answer is made of. The table `tag`, the
statements that only check, and the tags still to insert are hidden.

### Client and System

`cli[c]` holds the globals `cookie` and `username` and the locals of the command being
executed; `at` says where the program is: at the menu (`prompt`), in
`get_response_object` (`waiting`), at the prompt inside `relay_gazou` (`choosing`), in
its second wait (`relaying`), or `gone`. `Menu` is what `prompt_user` offers. There is
one operator per command for what it does with its answer: the codes its switch names,
then `Generic`, which is `handle_generic_error_code`. An unknown code ends the program
(`Abort`). `Quit` is the command, SIGINT, or the end of the input, at any moment.
`link[c] = "lost"` says that the worker has died: then `send` and `recv` fail, or `recv`
returns 0 for ever (the client stays in `waiting`).

`System` gives each client a worker of its own. `Ask` sends a request with the cookie the
client holds, `Serve` is a statement of the worker, `Receive` hands the answer to the
client, `Die` and `Restart` end either side and start the program again. A worker whose
client is gone goes on with its request. A program that is run again has a new socket and
a new worker; `c` names one connection after the other, and `Restart` waits until the name
is free. That is how names are reused, not a check that the code makes.

### Wire

Bytes carry the message they belong to, their place in it and its length. The client
sends one request and feeds pieces of any size up to `MAXDATASIZE` to the tokener
(`document`); white space before a document is skipped, and what follows one in the same
piece is thrown away. The worker takes one read of at most `BUFSIZE - 1` bytes for a
request, writes at most `BUFSIZE` bytes of the answer, then the newline by a second
write, which may reach the client after it has sent its next request. `torn` records that
a read did not return exactly one request.

## 3. Runs

| Run | Result | Question |
|---|---|---|
| `accounts` | holds | accounts and sessions under races: `AckedAccountIsMine`, `RevokedStaysRevoked`, `LogoutRevokes`, and the inductive `SessionsInv` |
| `posting` | holds | `AckedPostIsComplete`, `SettledGazouShownWhole`, `RefusalsAreClean`, `TypeOK`, and `ImplementsService` |
| `service` | holds | `ReferencesHold`, the inductive `ReferencesInv`, `HandedCookieIsMine` and `ImplementsService`, with colliding cookies |
| `answering` | holds | two posters: `AckedPostIsComplete`, `HalfPostsAreOwn`, `SettledGazouShownWhole`, `ReferencesHold`, and `EveryRequestAnswered` |
| `sessions` | holds | two programs and their workers: `InStep`, `SessionIsMine`, `ExitsAreNamed`, `WritesAreMine`, `CommandEnds` |
| `accepting` | holds | `AnswersAreMine`, `TableMatchesSet`, `SlotsAreReleased`, `TypeOK` |
| `serving` | holds | `RequestsAreAnswered` when clients arrive one after the other |
| `framing` | holds | `AnswersPair`, `AnswerArrives`, `TypeOK` |
| `arriving_together` | **violated** | `RequestsAreAnswered` when they do not: `server.c:137` |
| `contending` | **violated** | a lock is reported as an invalid cookie (`spec_protocole.md:127`) |
| `unfollowing` | **violated** | a refused `unfollow_user` ends the client (`spec_protocole.md:340`) |
| `long_page` | **violated** | answers of more than 1500 bytes never end (`spec_protocole.md:61`) |

What the runs that hold show beyond a restatement of the code:

* `service`: the code relies on the UNIQUE constraint and does not look whether a random
  cookie is free. With as many cookies as accounts nearly every draw collides, and the cookie
  that connect hands out still opens the account that was asked for and no other one
  (`HandedCookieIsMine`). That the accounts may change their cookies between the statement
  that draws one and the one that reads it back needs more cookies than the run has; the
  theorem covers it.
* `answering`: two workers are inside `new_gazou` at once, and each may meet the other's lock or
  be killed after any statement. No tag goes to the other's gazouilli, and none is linked
  that the table `tag` does not hold. A refusal with error 11 after the INSERT leaves the
  gazouilli of that request with some of its tags, and nobody completes it
  (`HalfPostsAreOwn`). ana reads without a limit what has one of the tags.
* `sessions`: the only thing that pairs an answer with its request is that the client
  waits (`InStep`; a program that went on after SIGINT would break it). A client that
  shows a user name acts in that name or is refused, although other programs log in to
  the account, out of it, and replace its cookie (`SessionIsMine`), and nothing is stored
  or struck out in a name that the waiting client does not show (`WritesAreMine`; with an
  `Authenticate` that loses its WHERE clause it is). Two kinds of answers
  end the program, and no others (`ExitsAreNamed`): code 2 to `unfollow_user`, and any
  failure of the second request of `relay_gazou`, which is reported as code 0
  (`client/methods.c:758`): another login replaces the cookie while a user chooses what to
  relay, or the relay meets a lock, and the client exits with status 0 instead of asking
  its user to log in or to try again.
* `framing`: the newline left over from one answer, pieces of any size and pieces that
  hold the end of one answer do no harm; only a request longer than a read or split by the
  network (`torn`), or an answer that was cut, can go unanswered or be misread.

What the four violations show:

* `arriving_together`: a client connects and sends; before the server has forked for it
  another one is accepted. The worker reads the second connection, the parent closes
  the first, and nobody reads its request again. That `AnswersAreMine` still holds is
  not obvious: several workers may read one socket, but each writes to the descriptor it
  has read.
* `contending`: the SELECT of `user_name_from_cookie` meets a lock, and the client is
  told that its valid cookie is invalid.
* `unfollowing`: the server answers 2 to a user who is not subscribed (`methods.c:546`),
  the protocol and the client have 1; the client takes 2 for an unknown code and exits.
* `long_page`: `dispatch_request` cuts the answer at 1500 bytes, and the tokener of the
  client waits for the rest. A page of 20 gazouillis, which is what the client asks for,
  may well be longer.

Other differences between documents and code, too plain for a run: a request without id
is answered with id -1 where `spec_protocole.md:121` has null; two logins to one account
may be answered the same cookie, where line 199 calls it unique (`Service!GiveCookie`);
the half of the query of `get_gazou` that returns relays keeps the conditions on author
and tag, so relays also reach people who do not follow the relayer (`rapport.md:28`,
`Store!RelayedFor`).

### Bounds

Two connections suffice for the races between handlers: each is between one worker's
check and another worker's write, and the invariants are proved for any number. Each run
gives every handler it sends values for both outcomes of each of its checks: two or
three names of which one may be missing, two passwords, ids that exist or not, texts that
are too long or already posted. Two tags make the loops of `new_gazou` interruptible in
the middle. `Cookie` has four values in `accounts`, so that two redraws are possible, and collisions
are excluded there (`Redraw = FALSE`); in `service` and `answering` two accounts share two
cookies and collide. `MaxGazou` bounds the table `gazou`: no `send_gazou` is read once it holds that
many; without it nothing else grows without limit. The values of `posting` admit one
gazouilli, because its question is one post between its readers and relayers; in
`answering` two of them are posted at once.
In `Listener` three clients meet two slots (so the table fills), two processes in
`accepting` (so fork fails) and three in `serving`, where the failure of fork is not the
question; `arriving_together` has three slots and three processes, so that neither exit of
the server can be what leaves a request unanswered; `MaxSent` bounds the requests of a client, one in `accepting` and two in the
runs about requests. `accepting` has one request per client because the slots do not
depend on it; two workers on one socket meet with it already.

In `sessions` two programs use two accounts and four cookies, so that two logins or
logouts may happen before cookies run out: `CookiesLeft` keeps a client from asking for a
cookie that could not be drawn. Requests of four methods and `connect` stand for the
commands: one with own codes (`follow_user`), the one with two requests, one that closes
the session, one with none of these. The other switches of the client, `unfollow_user`
apart, are translated and not exercised.

In `framing` `BUFSIZE = 4` and `MAXDATASIZE = 2`: requests are shorter than, as long as,
and longer than a read, answers shorter than, as long as, and longer than a write, and an
answer takes several pieces; three requests let a newline outlive its answer twice. `long_page` needs one request and one answer that is too long.

`CHECK_DEADLOCK FALSE` is set in the runs of `Listener` and `Wire` only: once the server is
dead or all clients have quit, or the requests are used up or the client waits for the
rest of a cut answer, nothing happens any more.

### Fairness

`Methods!LiveSpec`: weak fairness of `Handle(c)` for each worker. A worker is a process,
and no statement waits for another one: a lock makes it fail, not block. Requests need not
arrive and kills need not happen. `SystemLiveSpec`: weak fairness of `Serve(c)`, for the
same reason, and of `Receive(c)`, because a client in `recv` whose answer has come returns
from it. Users need not type. `Wire!LiveSpec`: weak fairness of reading what was sent and
of writing what was read, which TCP gives while both processes live. `Listener!LiveSpec`: weak fairness of the parent and of
each worker; clients may stay silent for ever. `Polite` is an assumption about the
environment, not a translation of code (`Unserved` is read by no program), and is used in `serving` alone: a client connects only when each connected
client has had its first answer, and none quits before its first answer. Weaker forms do
not do: a client that has merely sent is still lost, because accept runs before fork in one
round of select.

## 4. Proofs

tlapm checks seven modules of proofs, for all values of the constants: any number of
connections, users, cookies, tags, requests, slots and processes, any size of the buffers
and of the messages. Every safety property that a run checks is proved; so is the
refinement.

| Theorem | Property | Inductive invariant |
|---|---|---|
| `TypeCorrect`, `ReferencesCorrect` | `TypeOK`, `ReferencesHold` | `ReferencesInv` |
| `RevokedCorrect`, `LogoutCorrect` | `RevokedStaysRevoked`, `LogoutRevokes` | `SessionsInv` |
| `HandedCookieCorrect` | `HandedCookieIsMine` | `SessionsInv` |
| `AckedAccountCorrect`, `AckedPostCorrect`, `RefusalsCorrect`, `SettledCorrect` | `AckedAccountIsMine`, `AckedPostIsComplete`, `RefusalsAreClean`, `SettledGazouShownWhole` | `AnswersInv` |
| `HalfPostsCorrect` | `HalfPostsAreOwn` | `HalfInv`, with `AnswersInv` |
| `ServiceImplemented` | `ImplementsService` | `ReferencesInv`, `ReadyInv` |
| `SystemRunsWorkers` | `SystemSpec => Spec` | |
| `InStepCorrect`, `SessionIsMineCorrect`, `ExitsCorrect`, `WritesCorrect` | `InStep`, `SessionIsMine`, `ExitsAreNamed`, `WritesAreMine` | `SystemInv` |
| `ListenerTypeCorrect`, `TableCorrect`, `AnswersCorrect` | `TypeOK`, `TableMatchesSet`, `AnswersAreMine` | `TypeInv`, `TableInv`, `AnswerInv` |
| `WireTypeCorrect`, `PairCorrect` | `TypeOK`, `AnswersPair` | `TypeInv`, `PairInv` |

**References.** Neither `TypeOK` nor `ReferencesHold` is inductive. `insert_relay` writes
`frame[c].user`, which is a name, and not the empty buffer, only because the worker
authenticated some statements ago. `ReferencesInv` adds `CheckedBy(c)`: what the worker
of `c` has checked or written before the statement it is at (its own name is registered,
the name to follow too, the gazouilli to relay exists, the tags to link are in the
table). This survives the steps of others because accounts, tags and gazouillis are never
deleted. The proof has one lemma per handler for types (`...Type`) and one for references
(`...Refers`), which rest on lemmas about the common steps (`Select`, `Authenticate`,
`Aborts`, `NewRandomCookie`), and `NextReferences` puts them together.

**Sessions.** `SessionsInv`: cookies have one owner (the UNIQUE constraint, kept by every
write), every cookie that is or was stored is in `drawn`, and without repetition the
owners of a drawn cookie only decrease. So a cookie that is nobody's stays nobody's; a
worker whose request came with one never gets past authentication; and the cookie a
disconnect is about to replace belongs to the account whose row it will update, or to
nobody. `SessionsProofs` restates the invariant worker by worker (`SessionOf`) and shows
that it survives the steps of the others because cookies only grow (`CookiesGrow`), then
that a step of the worker itself keeps it; the types come from `TypeCorrect`. That cookies
have one owner does not depend on `Redraw`; `HandedCookieIsMine`, an action property, needs
nothing else of the invariant: the row that connect reads back is the only one with its
cookie.

**Answers.** A property of an answer says nothing of the statements before it, so
`AnswersInv` says, for each place of a handler, what is already done. `CleanOf`: only the
handlers that write more than once may have written at a place where they can still fail.
`AccountOf`: an acknowledged account is the one row of its name, and passwords never
change. `PostOf`: at `link_tag` the tags of the gazouilli and the tags still to link make up
those of the request. `OneOwner`: no two workers hold the same gazouilli id, without
which another worker could add tags to an acknowledged post; a new id is larger than
every id in use. `HalfInv` does the same for posts that were refused: a worker that is
linking has a tag left to link (so what a refusal leaves is not all), and never the id of a
half-posted gazouilli (`HalfApart`). `ShownOf`: the rows of a page that have been visited show all tags, those
to visit none, unless the gazouilli was half-posted when the page was read.

**Refinement.** `ServiceImplemented` maps each statement of each handler to one step of
`Service` or to a stutter. The steps that only check are hidden (`HiddenStep`), the others
have a lemma each (`...Serves`). What a handler has checked before it writes must still be
true: for names, ids and tags that is `CheckedBy`; `ReadyInv` adds the account and the
password that connect has found, the account that `unfollow_user` has found, and the
length of the text.

**Clients and workers.** Every step of `System` is one of `Methods` or leaves the workers
alone, so the invariants above hold there (`SystemRunsWorkers`). `SystemInv` pairs each
client with its worker (`PairOf`): same method, same user name, same cookie. It says of the
answer that its code is one of its method (`Codes`) and that the cookie of a successful
connect belongs to the name that was sent, or to nobody (`AnswerOf`); of the client that the
menu fits its session (`ClientOf`), and that its cookie is its own (`MineOf`). The worker
side shows, handler by handler, which codes can be answered (`...Serving`); the client side
shows that each command knows those codes (`UseOutcome`); `ExitsAreNamed` is where the two
meet. `SessionIsMine` needs the buffer of the worker too: what `Authenticate` copies is an
owner of the cookie of the request, which is the client's cookie. `WritesAreMine` is an
action property from the same invariant: each handler signs what it writes with that
buffer only (`HandleSigns`), its worker is then at work, so the client waits (`PairOf`) and
shows that name (`MineOf`).

**Accept loop.** `TableInv` adds that a connection is in the backlog, in the table or with
a worker, in one of them only; `AnswerInv` that a request waits in its socket or with one
worker, never in two places, and has no answer yet. The worker that reads a connection need
not be the one that was forked for it; the proof never uses that it is.

**Wire.** While no read has torn a request, an exchange is at rest, asked, being answered,
answered, or cut with the client gone (`PairInv`). In the phase `Answered` the bytes in the
tokener and the bytes on their way are the stream of the answer, its first byte behind at
most one newline of the answer before (`Streamed`); a recv of any size moves bytes from one
to the other (`TookStream`), and such a stream makes a whole document only with its last
byte (`StreamWhole`).

Assumptions: `NameAssumption`, `CookieAssumption`, `DateAssumption`, `SeedAssumption`
(the database file satisfies its constraints), `RequestAssumption`, `BoundAssumption`,
`ListenerAssumption`, `WireAssumption`. The runs evaluate all of them.

Only model-checked, because the prover has neither fairness nor ENABLED:
`EveryRequestAnswered`, `CommandEnds`, `SlotsAreReleased`, `RequestsAreAnswered`,
`AnswerArrives`. The bounds of the proofs are those of the model: `Redraw = FALSE` for the
session properties, and what section 5 leaves out.

## 5. Not modelled, and the plan

Not modelled: the layout of the screen and the texts on it; the splitting of a text into
tags and the reading of numbers and of the time, which are functions of what the user
types; user names that JSON escapes (the client would keep them in their escaped form);
memory layout (two reads or writes one byte outside a buffer are listed as hazards);
sample data and build files. `System` leaves the accept loop out: with the wrong
descriptor of `server.c:137` a request is lost (`arriving_together`), and a client that
has lost its request waits like one whose worker has died. It leaves the bytes out as
well: its requests fit one read and its answers one write, which `Wire` needs for
`AnswersPair` and `AnswerArrives`. Locks are those of statements that overlap, not the
stages of SQLite's locking.

Plan: the safety properties of the runs that hold, and the refinement, are proved. What is left is to
say more about single steps, as `WritesAreMine` does, with their theorems: rows of `user`,
`gazou` and `gazou_tag` are never removed, the owner of a cookie changes only by `connect`
and `disconnect` of that account, the request of a worker does not change until it has
answered.
