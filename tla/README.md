# Verification of 42_Lausanne

The repository collects the projects of one student at 42 Lausanne.  Many of
them are sequential programs of one process; others are systems whose actors
interleave, and those are where a test reaches least: `philo` (threads and
mutexes), the backend of `ft_transcendence` (tasks of an event loop, connections,
timers, a grace period), `webserv` (a poll loop with CGI programs), `minishell`,
`pipex` and `picoshell` (processes and pipes), and the chat server of `exam-06` (a
select loop).  Of the sequential ones, the two sorting programs have a state whose
invariants are worth a model.

This directory holds TLA+ models of them, the TLC runs that check the models and
the proofs, checked by TLAPS, that hold for every value of their constants.

## Inventory

| Part | State it keeps | Operations | What is hard | What makes it correct |
| --- | --- | --- | --- | --- |
| `philo` | forks (mutexes), meal counters and times, the end flag | take and drop forks, eat, sleep, think; scan of the supervisor; create and join threads | all interleavings of N + 2 threads, three more mutexes, circular wait | neighbours never eat together; the supervisor's verdict is true when published; starvation is noticed; nothing is locked when destroyed; what may block |
| `ft_transcendence/backend/game` | games, `player_games`, timers, `disconnected_players`, ratings | create, guess, timer, round end, surrender, end | timer tasks that cancel and replace themselves, objects read before an await and used later | every entry leads to a live game; a live game has a timer; games end once and at the target |
| lobbies and matchmaking | lobbies by code, the queue | create, join, leave, close, find a player | a user in the queue, in lobbies and in a game at once | an open lobby has its host; a ranked game has two different players |
| `ft_transcendence/backend/ws` | one connection per user, handlers, grace tasks | connect, disconnect, message, grace period | a handler suspended between two changes of state; reconnection in between; sends that raise | who is on the list of the disconnected is watched; nothing survives the end of a game |
| `webserv` sockets | three parallel vectors of descriptors, requests received so far and seconds of silence | poll, accept, read, answer, cut off | requests in pieces, erasing while iterating, accepts that fail, a CGI program that holds the loop | the vectors stay parallel; nobody is answered twice or early; only the silent are cut off; every connection ends |
| `webserv` requests, CGI | one request, the files, the upload counter | decide a status, serve, upload, delete, run a CGI | uploads of several clients, forms of which one file fails, two pipes with one process | what was answered 201 is on the disk as it was meant; nothing blocks but full pipes |
| `minishell`, `pipex`, `picoshell` | pipe ends, child processes, the last status | start a pipeline, run builtins, wait, Ctrl-C | who still holds which end of a pipe, commands that are not started, signals | a line ends, or stands still for a known reason; no child or descriptor is left; the status is that of the last command |
| `exam-06/mini_serv` | clients by descriptor, text not yet ended by a newline | accept, receive, broadcast, leave | partial lines, reused descriptors | every line reaches every other client once, in order |
| `push_swap` | two stacks | push, swap, rotate; price and target of each node | halves of the stacks that are looked up once and used while they rotate | the result is sorted; a node costs what it was chosen for |
| `cpp/09/ex02` (PmergeMe) | main and pend of every call | pair, recurse, insert | the order of insertions, the last step of it, equal numbers | the result is sorted and nothing is lost |
| `get_next_line`, `libft`, `ft_printf` | the rest of a line | read a line | buffer boundaries | the lines are those of the file |
| `fdf`, the rest of `cpp`, `exam-03` to `exam-05`, `inception`, the frontend, `build_ai` | none that outlives a call | drawing, exercises, configuration | nothing concurrent | out of scope |

How they interact: only inside a project.  In `philo` the threads share one
`t_table`; the main thread creates the others and joins them.  In the backend,
`WSManager` receives messages and calls `GameManager`, `game_logic` and
`lobby_logic`; these read the dictionary of connections (it is the same object,
`core/setup.py:13`) and emit messages as new tasks; timer tasks and grace tasks
call `game_logic` on their own.  In `webserv` one `SocketManager` owns the
descriptors and hands each complete request to a new `RequestManager`, which writes
the disk and runs CGI programs before it returns.  The shells share nothing but
pipes with the commands they start.

## Modules

| Module | Models | Extends |
| --- | --- | --- |
| `Philo` | `philo/*.c` | |
| `MCPhiloTables` | instances of `Philo` under fairness | |
| `ExtremeNumbers` | lemmas: a non-empty bounded set of numbers has a first and a last one | |
| `PhiloProofs` | proofs about `Philo` | `Philo`, `ExtremeNumbers` |
| `DrawGame` | `backend/game/game_logic.py`, `game_manager.py`, `utils/utils.py`: games, rounds, timers, ratings | |
| `DrawLobby` | `backend/game/lobby_logic.py`, `find_player` | `DrawGame` |
| `DrawServer` | `backend/ws/ws_manager.py`, `websocket.py`, `GET /api/surrender`; composes the other two | `DrawLobby` |
| `MCDraw` | symmetry and view for the runs | `DrawServer` |
| `DrawProofs` | proofs about `DrawServer` | `DrawServer` |
| `ChatRoom` | what `exam-06/mini_serv.c` promises to its clients | |
| `MiniServ` | `exam-06/mini_serv.c`; implements `ChatRoom` | |
| `MCMiniServ` | who types how much, for the runs | `MiniServ` |
| `MiniServProofs` | proofs about `MiniServ`, the refinement among them | `MiniServ` |
| `WebservText` | the text of a request and the searches the server makes in it | |
| `WebservRequest` | `webserv/srcs/RequestManager.cpp` | `WebservText` |
| `WebservSockets` | `webserv/srcs/SocketManager.cpp` and the clients; composes the other two | `WebservRequest` |
| `MCWebserv` | requests, locations and files for the run | `WebservSockets` |
| `WebservProofs` | proofs about `WebservSockets`: the vectors, silence | `WebservSockets` |
| `WebservAnswerProofs` | proofs about `WebservSockets`: texts, answers, the disk, CGI programs | `WebservProofs`, `ExtremeNumbers` |
| `Pipes` | pipes, processes and commands: the operating system | |
| `Minishell` | `minishell`: `main.c`, `execution`, `externs`, `signals` | `Pipes` |
| `Pipex` | `pipex/pipex.c` | `Pipes` |
| `Picoshell` | `exam-04/thkm/picoshell/picoshell.c` | `Pipes` |
| `Pipelines` | the three programs, each with its commands | the three |
| `MCPipelines` | lines for the run | `Pipelines` |
| `PipelinesProofs` | proofs about `Pipelines` | `Pipelines`, `ExtremeNumbers` |
| `Sorter` | what a sorting program promises | |
| `Arguments` | what both sorting programs are started with | |
| `PushSwap` | `push_swap/*.c` | `Arguments` |
| `PmergeMe` | `cpp/09/ex02` | `Arguments` |
| `Sorting` | either program on any arguments; implements `Sorter` | the two |
| `MCSorting` | lists for the run | `Sorting` |
| `SortingProofs` | proofs about `Sorting` | `Sorting`, `ExtremeNumbers` |

### Philo

One action is one access to shared data.  `log_mutex` and `end_mutex` protect a
single access each and nothing is locked inside them, so a critical section of
theirs is one step (`Log`, `TestEnd`, `SetEnd`).  `meal_mutex` is a variable, since
the supervisor holds it over a whole scan; a philosopher's critical section
(`RecordMeal`) is one step again, because it locks nothing else.  Forks are
`holder[f]`.  `pc[p]` names the point of `philo_routine`, `eat` or `take_forks`
a thread stands at: `"giveUpBoth"` and `"giveUpRight"` are the two unlocks of
`simulation.c:25`, `"dropRight"` is between lines 49 and 50.  The clock is the
predicate `overdue[p]`: `time_to_die` has passed since the last meal.  It may
become true at any moment before the supervisor returns and is reset by a meal.
The printed lines are not kept, but `late[p]` counts those that philosopher p
prints after the end flag is set.  Meal counters saturate at `MealCap`, which
changes nothing because they are only compared with `nb_must_eat`.

### DrawGame, DrawLobby, DrawServer

The backend is one event loop: a handler runs alone until an `await` really
suspends it.  The awaits that do are `asyncio.sleep`, `receive_json` and
`send_json`; `make_ai_guess`, `end_game` and the like are coroutines that return
without suspending, and `_emit` creates tasks.  So an operation of a game
is one step, and the places where a handler may be suspended between two changes
of state are phases of a handler:

- `DropOutsideGame` / `FinishDrop`: `disconnect` closes the lobbies of the user,
  tells their players, and forgets the user after that.
- `DropInGame` / `GraceStart`: `disconnect` tells the opponents and creates the
  grace task, which puts the user on the list when it first runs.
- `LeaveMsg` / `FinishLeave`: a lobby is left before the queue is.
- `GraceSurrender` / `GraceFinish`: the game is surrendered, the lobby's players
  are told, and the user is taken off the list.

A send may raise when the other side is gone; the rest of the handler is skipped
then (`AbortDrop`, and the second choice of `FinishLeave` and `GraceFinish`).
`HandlerFails` is the exception that `websocket_endpoint` does not catch.

Timers: `starting` are the games whose `game_created` event is not handled yet,
`timed` the keys of `game_timers`, `stray` the games with a task that runs on
although another one is registered (a first round may end before
`_start_game_timer` has run, which then overwrites the entry).

Abstractions: a score is reduced to who wins a round, so any player may complete
a score by a guess or by an increment of the timer, and a round may end in a tie;
a rating counts points, one per ranked game, on top of whichever rating
`end_game` was given.  Messages to clients are left out, `get_lobby` and `get_info`
change nothing.  A code of a lobby is its index.  If a user leaves several lobbies at
once, that is one step.  `GraceSurrender` with several entries of a user in the list
leaves the second removal to `GraceFinish` also when nobody had to be told.  The
branch of `handle_round_end` for a single player is left out because no game is
created with one.

### MiniServ and ChatRoom

The server is one thread, so what it does between two system calls sees nothing of
the clients: a step is one `select`, `accept`, `recv`, `send` or `close` with the
code up to the next.  `pc` is `"select"`, `"scan"` (the loop over `readset`, `fd` the
last descriptor looked at), or the call of `send_all` it is in: `"arrive"` (line 120),
`"leave"` (128), `"line"` (143, 144).  `out`, `except` and `to` are the strings still to
send, the argument of `send_all` and its loop variable.  `active`, `readset`, `maxfd`,
`next_id`, `ids` and `stock` are the globals of the program, with the null pointer and
the empty string as one value of `stock`, which `extract_message` and `str_join` do not
distinguish.

The operating system is as the code relies on it: `accept` takes the first of the
`backlog` and returns the lowest free descriptor, or fails at any time; what was sent
before a close can be received, then `recv` reports the end; a `send` waits while the
buffer of a client that does not read is full; a `send` to a client that has closed
succeeds and may bring a reset, and the `send` after a reset raises SIGPIPE, which ends
the program (`BrokenPipe`).  Clients connect once, type, read late and hang up at any
moment.

`ChatRoom` has no descriptors, buffers or loop: `Enter`, `Say` and `Leave` tell a
string to everybody else at one instant.  The mapping: who is `here` has a descriptor
and has not been announced as gone; what c has `typed` is its `stock` with what is in its
socket; what c has `heard` is what `send` took for it with what `send_all` has yet to send
to it (`Pending`), so that a broadcast happens when `out` is filled.

### WebservText, WebservRequest and WebservSockets

The server is one thread.  A step is one turn of one of the loops of `run`, with all the
calls it makes: `Poll`, a turn of the loop over the silent (`pc = "expire"`), a turn of the loop over
the ready (`"scan"`), the exchange with a CGI program (`"cgi"`) and the `write` that ends a
connection (`"write"`).  What the clients do comes in between.  The three vectors are three
sequences with the listening sockets first, `at` is the index of the loops, which goes on
after an erasure as the code's does.  `quiet[c]` and `stored[c]` are history variables: how
long c was silent, and what was kept for its request.

A text is a sequence of tokens, one for each piece that a search of the code tells apart
(a header, the empty line, the size of a chunk, a boundary).  The searches run over
tokens as the code's do over the string, the ones that are misled by data included; so there
are tokens for data that contains the end of a chunked body, and for a header that ends in
0.  `RequestManager` runs for one request at a time and is an operator on it that yields a
status and changes the disk; only a CGI program makes it last, and then the program's reads
and writes interleave with those of the server (`CgiFeed`, `CgiCollect`, ...).  Files are
names with their kind, permissions and text.  Roots and pages have an extension, as
`getResponseContentType` takes for granted.  Of an answer the status is kept.

What a client means is part of its request (`content`, `files`): `RequestsAssumption` says for
`Plain` requests, those in which no search is misled, that it is the body with the chunks
joined, and of a form the last file of each name.  `StoredAsSent` compares the disk with that.
`Dechunk` and `Files` are recursive functions on positions, so that proofs can unfold them.

### Pipes, Minishell, Pipex, Picoshell and Pipelines

Process 0 is the program and process i runs stage i of a line.  `held[q]` are the ends
of pipes q has open; a reader sees the end of its input when nobody has the write end, a writer
is killed when nobody has the read end, and both wait otherwise (`Pipes`).  Data is counted.
`kind` says what the program finds when it comes to a stage: a command to execute, a builtin
that runs in a child, one that runs in the shell, one that is not there, `exit`, and a fork that
fails.  A step of the program is its code from one call that another process can notice to
the next: in `Minishell` one node of the list (`Launch`, `NotFound`, `Inside`, `Exit`), one
return of `waitpid`, one Ctrl-C; a child first arranges its descriptors (`Start`), which is when
it stops running the shell's signal handler.  `last_pid`, `sig_nb`, `in_cmd` are the
globals; `status` is `$?`.

Abstractions: a pid is not used again for a later line; what is read from a terminal or a
file is at its end at once; an `exec` that fails in the child of minishell ends with 0, as the
code does; a node without a command counts as `exit` does, because `redirect_operator` returns at once
for both; a refused `exit` is a builtin that runs in the shell.  `last_pid` is 0 from the next line on, where
the code keeps the old pid, which could only be mistaken for a child's if the kernel used it again.

### Arguments, PushSwap, PmergeMe, Sorting and Sorter

A node of a stack is named by its value, which does not repeat.  One action is one turn of a
loop that moves nodes; `init_nodes` is one (`InitNodes`), and keeps what the later loops use of
it: the node, its target, its price and `above_median`, which stays as it was while the stacks
rotate and is set again where the code does (`BothRotated`, `FindSmallest`).  `moves` is a history
variable.  `fordJohnson` calls itself; `frames` are the calls that wait, with their `ogMain`,
`pend` and straggler, and one action is one insertion.  `JacobsthalOrder` is given position by
position: `StepEnd` is the Jacobsthal number that ends the step a position is in, cut off at the
number of pairs, `StepBefore` the one before, and a step runs down from one to the other.  The vector and the deque take the
same steps, so there is one container.  `Sorter` answers: refused, or sorted with the same
numbers, each as often (`Spec`); and it answers at last (`AnswersAtLast`), except for an empty
list, for which `push_swap` dereferences a null pointer (one argument of blanks, `TinySwap`).

## Runs

| Run | Instance | Asks |
| --- | --- | --- |
| `philo` | 3 philosophers, one meal each | the safety invariants; 2.0 million states |
| `philo_tables` | 1 philosopher; 2 with two meals; 2 without a number | liveness |
| `draw` | 3 users, 3 connections, 1 lobby of up to 3, 1 game, target 1 | invariants of lobbies, and of entries and the list of the disconnected while the players of a lobby are told |
| `draw_rematch` | 2 users, 3 connections, 2 games, target 2 | invariants of entries, timers, grace tasks and ends across a game that is over and the next one |
| `mini_serv` | 2 clients that type 2 and 1 characters, 2 descriptors, `recv` of at most 2 | the refinement, what may block, liveness |
| `webserv` | 3 clients of which two ask at once, one that resets, an accept that fails; or one client with each of 47 requests; 1 second of silence | all of `WebservSockets` |
| `pipelines` | 13 lines for minishell, two in a row, one Ctrl-C; 6 for pipex; 6 for picoshell; pipes of 2 | all of `Pipelines` |
| `sorting` | lists of up to 3 arguments, good or bad; all permutations of up to 7; lists of 6, 11 and 12 with and without repetitions | all of `Sorting` |
| `draw_ratings`, `draw_surrender`, `draw_grace` | as small as they can be | statements of the documentation that the code refutes |
| `mini_serv_lazy` | as `mini_serv`, one client may never read, a socket holds one string | the same, for the assignment's text |

Bounds.  Three philosophers are the fewest that have two different neighbours
and a circular wait that is not a pair; a second meal adds no new relation between
threads, since the loop of a thread depends on no counter.  With two users,
a third connection is a reconnection; with three users there is a tie of a
surrender with several opponents and a third party at the queue and in the lobby.
`RoundWinTarget` is 2 in the code and in `draw_rematch`; with 1 (in `draw`) the next
round is reached by a tie.  `MaxGames`, `MaxLobbies` and `MaxSockets` bound how
many are created in a behaviour; when they are used up, creation is disabled and
everything else goes on.

For `mini_serv`, a character is a newline or not.  With two characters a client
types an incomplete line, one in two pieces, or two lines at once; the other types while
it is told.  Two descriptors are enough for both clients at once and for one whose
first user has gone to be given to the other client.  Whether a third client changes anything is left to
the proof, which has no bound.  `MaxText` bounds what is typed; a client connects once.

For `webserv`, two clients that ask at once are enough for a vector to be erased from while
another client's place is behind or before it; pairs are chosen so that both pause (an upload
that arrives whole with one in chunks), one holds the server with a CGI program while the
other waits to be read, or an accept fails.  Every other request is made by one client alone,
and there is one for every status and every end of `RequestManager`; an upload that pauses
everywhere runs alone.  `Limit` is 1 instead of 5: the code only compares it.  A pipe holds
1 unit and bodies have 2, so that both pipes can be full.  `MaxFd`, `MaxVoid` and `Unlucky`
bound how often accept fails, `Abrupt` who resets.

For `pipelines`, pipes of 2 units and a first command that writes 3 are full before they are read;
the lines have every kind of node at the start, in the middle and at the end, and
redirections that leave a pipe out.  Two lines in a row show what a line inherits.

For `sorting`, four numbers are the fewest that use the second stack, seven have both parities of both
stacks and a cheapest node on every quarter; eleven and twelve numbers give PmergeMe four levels of
recursion and a Jacobsthal order whose last step is cut (6 pairs) and is not (3 pairs).

Symmetry and view: users are interchangeable and no property names one.  No step
of the backend asks for a rating before it acts, so `WithoutRatings` identifies the
states that differ in ratings and in handlers that are gone; `draw_ratings`, the
only run that asks for ratings, does not use it.

`CHECK_DEADLOCK FALSE` is set because the systems may stop: `philo` ends (or the
philosophers wait in a circle, which `OnlyTheCircleBlocks` and `EndLeadsToExit`
name as the only way to stop without ending), and the backend stops when the bounds
are used up and every handler is gone.  The clients of `webserv` may all be done, a
process may end or be stuck with a CGI program; a line of `pipelines` may stand still; a sorting
program ends.  What may stand still is what `OnlyFullPipesBlock` and
`OnlyTheUnstartedBlock` are about.

### What is checked of philo

`NeighboursNeverEatTogether`: from the log line of a meal until the first fork is
dropped.  `VerdictNotStale`: a philosopher declared dead has not eaten, and meals counted as
enough are still enough, when the end flag is set.  `AtMostTwoLinesAfterEnd`: the delay of the end flag is two lines per
philosopher and no more, which is what the placement of the tests in `take_forks`
buys.  `NothingLockedAtDestroy`: after all joins.  `OnlyTheCircleBlocks`: if
all threads that still run wait for a fork, then every philosopher holds its left
fork.  The program has no order of forks (philosophers with even ids start 0.9 ms
later), so this state is reachable, and in it the program does not return even
though the supervisor announces a death.

Liveness (`philo_tables`) assumes weak fairness of each thread: it goes on when its
next step stays possible.  That is what the scheduler of an operating system
gives.  Strong fairness of mutexes is not assumed, pthread mutexes do not have it:
a philosopher may be overtaken for ever at a fork, and `StarvationNoticed` says
that the program then ends instead.  `EndLeadsToExit` has the circular wait as its
exception, and none for a philosopher alone.

### What is checked of the backend

`EntriesLeadToLiveGames`: `player_games` never keeps the id of a game that is gone, so
`games[game_id]` in `ai_guess`, `surrender_game`, `disconnect` and
`_reconnect_user` cannot fail, even when `disconnect` forgets a user that came back
while it was suspended.  `LiveGamesAreTimed`: a game nobody plays still ends.
`EndedGamesStayEnded` and `GamesEndAtTheTarget`: one end per game, at the target or by
surrender.
`LobbiesKeepTheirHost`: every way out of a lobby closes it if it is the host's.  (The end of a grace
period after the game is not one: the lobby stays open and lists the host who is gone.)
`AwayIsWatched`: for each entry of `disconnected_players` there is a grace task that
sleeps, so nobody stays on the list for ever, also after sends that raised.  `EntriesLeadToLiveGames`
and `AwayIsWatched` are asked twice: in `draw_rematch` of two games one after the other, and in `draw` with a
lobby, whose players are told while a handler or a grace task is suspended, and where a send
may break it off.

Refuted, each by a run with the shortest behaviour TLC finds:

- `RatingsCountEveryRankedGame` (README.md:86): `ai_guess` passes the `User` read when
  the connection was opened; a winner's rating is computed from it.
- `WhoSurrendersDoesNotWin` (README.md:85): `surrender_game` lets the leader win
  before it asks who surrendered.
- `GraceSparesWhoIsBack` (README.md:84): a reconnection before the grace task's
  first step is not seen by it.

A disagreement that no run refutes: README.md:80 promises "ranked 1v1 matchmaking with an
expanding ELO range".  The backend has the constants of such a range (`core/config.py`:
`MATCHMAKING_RANGE_STEP`, `MATCHMAKING_MAX_RANGE`, `MATCHMAKING_WAIT_PER_STEP`), `game_manager.py:6-12`
imports them, and nothing uses them: `find_player` pairs the first who waits with whoever comes,
whatever their ratings.  The model does what the code does, and `elo` is not even asked in
`FindPlayer`.  So nothing is claimed of when a user is paired: with the range, two users might
have to wait together.  A property about ratings at the moment of pairing would be false by the
shape of `FindPlayer`, and a run would add nothing to this paragraph.  What is proved of
matchmaking holds with and without a range: the two are different users.

What the code does and no document forbids: the head of the queue is not asked whether
it is in a game (game_manager.py:56), so a host that waits for a match and starts its
lobby's game may be drawn into a second one.

### What is checked of mini_serv

`ImplementsRoom`: the promise of `ChatRoom`, for which pieces of lines, used-again
descriptors, arrivals and departures inside a scan have to work together.  `RecvNeverBlocks`:
`readset` is a snapshot, and still each descriptor the scan comes to is good, because only
its own turn receives from it or closes it, and a descriptor accepted during the scan
was not in the snapshot.  `NoLineKeptBack`: nothing complete waits in `stock` while
`select` does.  Liveness assumes weak fairness of the server, which is one thread that
the system runs, and of reading for the clients outside `Lazy`: `EverybodyIsServed`
(`HungUpIsAnnounced` and `EveryLineIsSaid`).  Both parts have the end of the program (SIGPIPE, a failed `malloc`) as an
exception, the second a failed `calloc` as well, after which the program goes on and
keeps the line back: a loss that these two properties do not count.

Refuted: `NeverHeldUp` (subject.txt:13).  `send_all` does not ask `select` whether it
may write, so a client that does not read stops the server for everybody.  With `Lazy = {}`
the same property holds.

### What is checked of webserv

`PlacesAgree`: whatever is erased from the vectors while a loop goes over them, they stay
parallel, each accepted client has one place, and the request that is answered belongs to the
client that gets the answer.  `NobodyIsAnsweredEarly`: one answer each, and for a request in which
the searches are not misled (`Plain`) not before all of it is there, in whatever pieces
it arrives, unless the length it declares is refused.  `StoredAsSent`: after a 201 the disk holds
what the client meant, however the chunks were cut, whatever other clients uploaded
under the counter meanwhile, in a form or not (DELETE beside uploads is left to the proof).  `OnlyTheSilentAreCutOff`: a connection closed without an answer was
silent for more than the limit, or a CGI program kept the server from it.
`OnlyFullPipesBlock`: the server and a CGI program wait for each other only if both write more
than a pipe holds and the program writes first.  `EveryConnectionEnds`: every client
that stays gets its answer or is closed.

Fairness: the server, one thread, goes on (weak fairness of `Run`, of the CGI program); seconds
pass and a client whose connection can be taken is taken in the end (strong fairness, since
both are possible only now and then).  The model of time assumes a server that is never late by
itself, only behind a CGI program: a second passes while `poll` waits with nothing to read, or
in an exchange with a CGI program.
Nothing is assumed of the clients.

### What is checked of the pipelines

`LinesAreSettled`: at a prompt every child is reaped and no end of a pipe is open (in pipex the
second command, which nobody waits for, is excepted); `$?` is that of the last node, or 130 when
a Ctrl-C came, once for each.  `OnlyTheUnstartedBlock`: a standstill, in which the program waits
and every child is blocked, comes only next to a node that minishell does not run in a child
(not found, cd, export, unset, a failed fork), whose pipe ends the shell keeps open while it waits;
or in pipex, which waits for the first command before the second one reads, over a first command that
writes more than the pipe holds.  `EveryLineEnds`: any other line ends.  Fairness: every process goes on
when it can; nobody has to type.

### What is checked of the sorting programs

`WorkStaysInOrder`: stack a is sorted but for a rotation whenever push_swap looks for a node or
rotates, which is what makes one target per node enough; PmergeMe inserts only into a sorted
main in which the larger partner still is, else `insertSmallBeforeBig` would drop a number
without a word.  `PriceIsPaid`: a node is pushed after no more rotations than its price, although
`finish_rotation` asks for the half a node was on before the rotations.  `ImplementsSorter`:
both programs refuse or sort, and lose and invent no number; it is the refinement of `Sorter`
with `a` or the container as the list.  `AnswersComeAtLast`: they end.  Fairness: the program goes on.

## Proofs

`PhiloProofs` proves, for every number of philosophers and every `MustEat`:
`TypeCorrect`, `MutualExclusion`, `VerdictHolds`, `EndIsJustified`, `LinesAfterEnd`,
`DestroyedUnlocked`, `CircleIsTheOnlyWait`.  None of the invariants is inductive alone.  The strengthening
`IInv` says of each program point which forks the thread holds and that nobody else
holds them (mutual exclusion follows), how many late lines are possible from each
program point (`LinesAfterEnd`), what the scan has established about the philosophers
before its index while `meal_mutex` is held (`VerdictHolds`, where counting to
`nb_philos` is turned into "everybody"), and that a thread has returned before it is
joined (`DestroyedUnlocked`).  Each part has a lemma that goes through the actions
of `Next`.  For `CircleIsTheOnlyWait`: a fork that somebody waits for is held by the other
neighbour of it, who waits too, so that waiting is passed on in one direction until it has
gone round the table; `ExtremeNumbers` gives the first and the last who would not take part.  The assumption on the constants is `PhiloAssumption`, what `input_is_valid` and
`ft_atoi` let through.

`DrawProofs` proves, for any users, connections, lobbies and games:
`TypeCorrect`, `LookupsSucceed`, `GamesAreTimed`,
`MatchmakingPairsTwo`, `HostsStay`, `TargetDecides`, `EntriesAreWatched`, and the action
property `EndIsFinal`.  What is claimed of games is inductive only together (`GameInv`): a round can
be added to a score within its type because no live game has reached the target; a guess
changes only live games because entries lead to live games, and that is kept because an
ended game drops the entries of its players.  So there is one lemma per
operation of `DrawGame` (`CreateGameKeeps`, `EndGameKeeps`, ...), which also shows
that no game that is over changes, then one per handler.  The server's part adds
`HandlersHaveUsers`: a handler or a grace task that may act works for a user.
`EntriesAreWatched` compares a count with a number of tasks: only a task that falls asleep makes an
entry (`OneSleeps`), one that wakes up finds none or takes one off (`OneWakes`), everything else only
takes entries off (`NobodyWakes`); and since only a handler that has ended left a task behind
(`GraceFollowsTheEnd`), no connection writes over a task that sleeps.
Assumptions: `None` is no user, the target is positive.

`MiniServProofs` proves, for any clients, characters, descriptors and sizes of buffers:
`TypeCorrect`, `ReceivesAtOnce`, `LinesAreNotKept`, and `Implementation`, that `Spec`
implements `ChatRoom!Spec`.  The inductive invariant says that the connected clients have
descriptors of their own, which are those in `active`, with their numbers (`DescriptorsInv`);
that who waits in the backlog waits once and has no descriptor (`BacklogInv`); that a
handler's client stays connected (`HandlerInv`); `ScanInv` and `LinesInv`, which are the
invariants above for all program points.  The refinement has one lemma per action
(`AcceptEnters`, `ExtractSays`, `EndLeaves`, `SendStutters`, ...).  They rest on
`Broadcast` (strings given to `send_all` are pending for exactly who is in the room and not left
out: the set that `send_all` goes through never changes while it does) and on lemmas
about texts: text that arrives later does not change the first line (`LineOfPrefix`),
and `recv` splits a text without loss (`Parts`).  The assumption is `MiniServAssumption`.

`WebservProofs` proves, for any clients, listening sockets, descriptors, requests, locations and
files: `VectorsStayParallel`, `SilentOnesAreCutOff`, and `AnsweredAtMostOnce`, the first part of
`NobodyIsAnsweredEarly`.  The inductive invariant says that the vectors have one length
(`VectorsInv`); that descriptors and places belong to each other (`PlacesInv`), which needs that who
waits in a backlog is not accepted (`BacklogInv`); that a client with an answer is done
(`AnswersInv`); what the loops' index points at (`LoopInv`); and that a connection is as old as its
client is quiet (`SilenceInv`).  Each action that erases or appends has a lemma about the shifted
places.  Assumptions: `SocketsAssumption` and `ClientsAssumption`.

`WebservAnswerProofs` goes on from there, for the same constants: `SocketTypes`,
`AnswersAreNotEarly`, `FilesAreAsSent` and `PipesBlockOnlyFull`.  The inductive invariant `AInv` adds
to that of `WebservProofs`: what is kept in `request_parts`, with what is in the socket
behind it, is what the client has sent so far, or, of a request that is not `Plain`, something that
begins as it did (`ReceivedInv`); who is answered has sent all (`AnswerInv`); each client used at
most one name of a store, so that the counter finds a free one (`CountInv`); a file on the
disk is what was meant, and a name counted already is not given to another (`DiskInv`); and the
units in the pipes add up to the body and the output (`ExchangeInv`).  `NobodyIsAnsweredEarly`
and `StoredAsSent` need each other's ground: that a store has the right text follows from the request
being whole.  The lemmas are about texts: the header of a
prefix is the header of the whole; a `Plain` text is `Terminated` only when it is whole; joining
chunks of a whole text yields the `content`; the parts of a form are found at the same places.
Where they need induction over positions they argue by the first position at which a claim fails
(`ExtremeNumbers`).  Assumptions: the two above, `DiskAssumption` (a store has as many names
`upload_n` as there are clients) and `RequestsAssumption`.

`PipelinesProofs` proves, for lines of any length, pipes of any size and any number of lines and
Ctrl-C: `TypeCorrect`, `StandstillsAreExcused` and `LinesSettle`.  The argument for the standstill:
if every child is blocked, take the first that waits for input; no running child before it holds
the write end, since it would itself be blocked as a writer on a full pipe, and the last of
those has no running reader after it.  So the end somebody waits for is held by the program,
and `HeldInv` says of which stages those are: stages not started yet, which there are none of
while it waits, or stages that are not run in a child.  `ChildInv` gives each child exactly the
ends of its stage; `StatusInv` relates the last pid, `sig_nb` and `$?` for `LinesSettle`.
Assumptions: `PipesAssumption` and `PipelinesAssumption`.

`SortingProofs` proves, for any lists of integers of any length: `SortingTypes`, `OrderIsKept`,
`NoNodeCostsMore` and the refinement `SortsOrRefuses`.  For push_swap (`SInv`): the stacks share no number and repeat none (`Stacks`); what
each loop finds (`Stages`), above all that stack a has one descent around its ring, and
that the node belongs where its target is; and that the rotations made with those still to come the
way each node goes now are within the price (`Payable`).  `PriceIsPaid` is not
inductive without the other two: a node's half changes while the stacks rotate.  The argument
is that each turn in a node's direction brings it one place nearer, whichever half it is on by
then (`TurnsFewer`), and that where the halves are looked up again the new way is no longer than
the old (`WayIs`).  Pushing a node on its target keeps the one descent (`PushOrders`).
For PmergeMe (`MInv`): each waiting call has its pairs with the smaller number in `pend`, and
its larger ones are all the numbers of the call inside it (`Nested`); main is sorted, has the larger
numbers all along, and each smaller one is in main or still in the order (`Passed`).  The last
part holds at the start of an insertion because `JacobsthalOrder` names every pair (`OrderIs`), whether
its last step is cut or not.

The refinement needs more, because order says nothing of what is lost (`KInv`).  The nodes of push_swap do not
repeat, so it is enough that the stacks have all of them between them (`NodesKept`).  PmergeMe takes
numbers that repeat, so `NumbersKept` counts: for every set of numbers, main, the pairs still in the
order and the straggler have as many in it as the call was given (`Hits`).  That is an
equation that each insertion keeps (`InsertHits`, `TailHits`), that holds at first because the order
names every pair once (`PermutationHits`, from `OrderIs` and a list that is no longer than what it
names), and that carries from one call to the one before because cutting a list into pairs keeps it
(`PairHits`).  A count for every set instead of every number is what lets the pairs be counted
by the numbers of their positions.  `SInv`, `MInv` and `KInv` (with a few of the sets) were
checked by TLC on the instance of `sorting` first.  Assumptions: `IntAssumption` and `InputsAssumption`.

Only model-checked: what needs fairness or ENABLED (`StarvationNoticed`, `EndLeadsToExit`,
`EverybodyIsServed`, `EveryConnectionEnds`, `EveryLineEnds`, `AnswersComeAtLast`), which TLAPS does
not treat here.

## Not modelled

Failures of `malloc`, `pthread_mutex_init` and `pthread_create` in `philo` (its results are
ignored or end the program before a thread exists), arithmetic of its arguments and of
`usleep(time_to_eat * 1000)`.  In the backend: authentication, HTTP endpoints that only read, the
database beyond the rating, the text of messages and the recognition network.  In
`mini_serv`, failures before the loop starts, an interrupted `select` (the loop tries
again), a `send` that takes a part of its string, and bytes that are zero (the program treats
what it received as a C string; subject.txt:25 promises printable characters).
In `webserv`, the configuration file and the setting up of sockets, an answer of which `write` takes
a part, what an answer says besides its status, and a counter of uploads that starts again in a new
process; and `body_len` of a request whose
`Transfer-Encoding` stands behind its last chunk, where the code still counts it.  In the shells, `pipe()` failing in
`create_pipes` (which does not look, and would use what was in its array), parsing, the environment, here-documents, what builtins do, an output file that cannot be
opened, `ft_popen` and `sandbox`.  In the sorting programs, how an argument is read as a number (a lone
sign is 0 for push_swap, "+5" is refused by PmergeMe: neither text is in the model), failed allocations, printing and
timing.

`get_next_line`, `libft`, `ft_printf`, `fdf`, the other exercises and `inception` are sequential
code without a protocol: a model would restate them.  `minilibx` is vendored.  The frontend renders what
the backend sends, and the recognition network is numerics.

## Plan

Done, in the order of what can go wrong: `Philo`, `DrawServer`, `MiniServ`, `WebservSockets`, `Pipelines`,
`Sorting`, with their runs; proofs about all of them.  Left:

1. `webserv`: an answer written in parts.
2. The cleanup of several lobbies in more than one step; authentication before a connection.
