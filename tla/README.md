# Verification of swh

swh is a front-end for the command line of a network switch: it runs
`ssh -T <host>`, strips the escape sequences from what the switch sends, tells
output and prompt apart and lets the user enter one line after the other. This
directory holds TLA+ modules that model it, the TLC configurations that check
them on small instances, and theorems with proofs checked by TLAPS.
Paths are relative to the repository; the C code is under `src/`.

## The system

| component | state | operations | talks to |
|---|---|---|---|
| `core.c`, main loop | none of its own | `core_init`, `core_run` | calls spawn, sc and uc in turn, sleeps in `selectfd` |
| `sc.c`, switch communication | `s_state` (BUSY, READY, WRITING, OFFLINE), four buffers, `s_nodataflag`, the current machine | `sc_start`, `sc_operate`, `sc_write`, getters | ssh through pipes, fsm, backend |
| `back/fsm.c`, state machine engine | current state of each machine | `fsm_feed`, `fsm_reset`, `fsm_error` | tokenizer, actions and reset of the backend |
| `back/hp/*.c`, HP backend | output and prompt buffers, two flags | three transition tables, `fsm_hp_mktok`, their actions | ansiseq; read by sc |
| `back/ansiseq.c` | the sequence being read | `ansiseq_eatone` | called by the tokenizer |
| `back/fsm_*.c`, `front/uc.c`, `front/noop` | function pointers | dispatch | - |
| `front/ia/uc_ia.c`, interactive front-end | a buffer of fixed size | `uc_ia_hasdata`, `uc_ia_getdata`, `uc_ia_putdata` | the terminal |
| `spawn.c`, the ssh process | pid, pipe ends, `s_sigchld` | `spawn_launch`, `spawn_operate`, the signal handler | the kernel |
| `common/common.c` | none | `selectfd`, `xread`, `xwrite`, `shiftbuf`, `growbuf`, transcripts | the kernel |
| `common/log.c`, `init.c`, `nami.c` | log levels, arguments | logging, start-up | - |

What makes it hard:

* The program never knows whether the switch has finished. It takes "there is
  nothing to read right now" for the end of an answer if the machine is in a
  state where the answer could end (`sc.c:273`). Everything depends on how the
  bytes are cut into reads.
* An escape sequence may be cut by the end of a read; its head has to stay in
  the buffer, which has to grow if it is full.
* Flags raised in the middle of a read are acted on after it (the two answers
  that the login wants).
* ssh may go away between any two steps, and is noticed in one of three ways:
  end of file, a failed write, or SIGCHLD, whose flag is looked at only at the
  top of the main loop.
* Buffers are reused for the next command; what is not purged shows up again.
* The front-end, the main loop and sc have a buffer each for what the user types,
  of different sizes; the user may type ahead.
* `read` and `write` take any part of what they are given and may be interrupted
  at any time; every piece is copied to a transcript by more writes.
* Everybody may wait for everybody: select for ssh, `wait` for ssh, ssh for
  its stderr pipe, uc for the user.

`PROJECT.json` lists these hazards one by one with the line where each bites and
the properties that would catch it.

## The modules

| module | models | kind |
|---|---|---|
| `AnsiSeq` | `back/ansiseq.c`: how long the sequence at the head of a buffer is | pure operators |
| `AnsiStore` | `back/ansiseq.c` byte by byte: the loop, its static state and what it stores | specification |
| `HpBackend` | `back/hp/`: tables, actions, tokenizer | pure operators |
| `Sc` | `sc.c`, `back/fsm.c` and the loop in `core.c` that drives them | actions of the program and of the two ends |
| `ScOpen` | Sc with an ssh that may send and do anything | specification |
| `Dialogue` | Sc with an HP switch behind ssh | specification, refines `Shell` |
| `Shell` | what swh promises its user | abstract specification |
| `UcIa` | `front/ia/uc_ia.c` and how the main loop calls it | specification |
| `RecBuf` | the output and prompt buffers of the backend and of `sc.c` as memory | specification, refines `Recorder` |
| `Recorder` | what these buffers are for: text, without sizes | abstract specification |
| `Relay` | `core_run` between UcIa and the write side of `sc.c` | extends UcIa, refines `Wire` |
| `Wire` | what the switch gets of what the user types | abstract specification |
| `IoWrap` | `common/common.c`: `selectfd`, `xread`, `xwrite`, `tscribe` | specification |
| `Startup` | `init.c`, the levels of `common/log.c`, `core_init`, the dispatch in `front/uc.c` and `back/fsm_*.c` | specification |
| `Session` | `core.c` and `spawn.c`: the process, its signals and pipes; sc reduced to what is left to write and to read | specification |
| `AnsiStoreProofs`, `DialogueProofs` (of `Sc` and of `Dialogue`), `SessionProofs`, `RelayProofs`, `RecBufProofs`, `IoWrapProofs`, `StartupProofs` | | proofs |
| `MinFacts` | | lemmas about the least and the greatest element of a set, and induction up to a number |
| `MC*` | | instances for TLC |

### Sc

The variables with an `s_` name are the ones of `sc.c`; a buffer and its count
are one sequence. `curst` holds the current state of the three machines, `hp`
the buffers and flags of the backend, `eaten` the index of `fsm_feed`. The
program is a single thread, so its place is one variable `pc`: at the head of
the loop that calls `sc_operate`, inside `fsm_feed`, or in `selectfd`. One action
is one path through a handler: `OperWriting` is `oper_writing`;
`BusyRead`, `NeedMoreData`, `FirstAnswer`, `FeedReturn`, `BusyNextByte`, `BusyDone`, `BusyWait` are the
ways through `oper_busy`, and `FeedToken` is an iteration of `fsm_feed`, so that
bytes may arrive and ssh may die between any two tokens, and between the two answers of the
login when both are due (`FirstAnswer` sends the first one). A read that has no room (`Room`)
returns 0, which is taken for the end of file (`BusyEof`); `GrownSz` keeps that from happening. `C()` ends the program
and leaves the reason in `exit`. The reasons fall in two groups: `SelfChecks`,
which sc.c makes on itself, and `Faults`, which the other side can cause.

A byte is one of a few representatives of every class that the tokenizers tell
apart (`Byte` in AnsiSeq). The two answers of the login are the tokens `AnyKey`
and `Report`. `CStr` models that output goes through `strlen`: what follows a NUL
is not shown. `wrote` and `asked` are histories.

### Dialogue and Shell

The switch is not part of the repository; it is modelled from what the machines
eat: greeting, key, report, prompt; an echo between escape sequences; output and
prompt, or just a prompt. `SwSend` sends a response in pieces. With `Coherent`, a
piece does not end right behind an escape sequence unless the response ends
there, which is the assumption on the network that swh depends on; the run
`dialogue_pause` shows what happens without it. `Shell` has the four steps that the
user sees (login, enter, answer, die); `TheShell` in Dialogue is the refinement
mapping. Its steps (`ShellSteps`) and its fairness (`ShellAnswers`) are checked as two
properties, `ImplementsShell` and `NoLineUnanswered`: the first is also proved.

### AnsiStore

`Sc` uses only the length of a sequence (`EatOne` in AnsiSeq). AnsiStore has the loop
of `ansiseq_eatone` itself, fed by the tokenizer with a stream that is cut anywhere,
and the actions of its table, whose results are static and survive a call that
runs out of data. `WellFormed` and `Parse` say without a machine what a sequence is
and what it means; `StopsAtFirst` also ties `EatOne` to the loop. `Parse` has its own `Without`,
`Number` and `Sorted`, as recursive functions and a choice, where the community modules' `SelectSeq`,
`FoldLeft` and `SetToSortSeq` would do: those take an operator, and the proofs must reach into them. `argv` and its count
are one sequence (nobody calls `ansiseq_init`, so the unused rest of the array is 0
and not `ABSENT`; nobody reads it).

### UcIa

`hasdata`, `read_more` and `getdata` with the buffer of fixed size; `Newlines` is
`strchr`, which does not look behind a NUL. `lines` records for each line what was
taken from the buffer, what was copied for the caller and what was returned. Its
properties are checked in the run `relay`, whose front-end moves as `UcIa` does and
sees any input; `uc_ia_result` and `uc_ia_full` run `UcIa` by itself.

### Session

ssh is running, stopped, exiting (its pipes are closed), dead (SIGCHLD has been
sent) or reaped. The handler may be good for one signal only: `configure.ac`
defines `_POSIX_C_SOURCE`, for which some C libraries give `signal` the semantics of
System V, so `sigchld` leaves either outcome open. `Init`, `spawn_launch`, `spawn_operate`, `dowait` and
`sigchld` are `spawn.c`; `oper_writing` and the `Busy` actions are `sc.c` with the
bytes counted instead of named. That sc takes an answer to be complete exactly
when it is, is what `Lockstep` shows in Dialogue. stderr has a capacity and no
reader.

### RecBuf and Recorder

`HpBackend` and `Sc` see the buffers as text. `RecBuf` has them as the code does: an
allocated size, a count and memory, in which the end of earlier and longer text stays
where it was. There are three pieces of code that make room, `growbuf` (`copy`), the
ones in `act_rec` and `act_recps` (`append`) and the one in `act_noout` (`noout`). The
machines take any tokens that their tables accept; sc is reduced to when it keeps,
purges and resets. `Recorder` is written with the operators of `HpBackend`, so that the
refinement ties the two views together.

### Relay and Wire

`Relay` conjoins the actions of `UcIa` with what the main loop does around them:
`GetAndWrite` is `uc_getdata` and `sc_write`, with core_run's `buf` in between. `buf` is
not initialised and a cut line has a result larger than what was copied, so the bytes
at its end, and behind it, are any bytes, each of them (`Memory`). sc writes a byte and waits for the answer
to it; that it does is what `Lockstep` shows in Dialogue. `Wire` promises for ordinary
input (lines that fit, no NUL) that everything is sent in order and complete lines
are sent in the end (`WireSteps` and `WireSends`, checked as `ImplementsWire` and
`CompleteLinesSent`); for other input it promises nothing, and `CutLinesKeepTheirPlace`
says what still holds.

### IoWrap

One call of a wrapper at a time; the kernel chooses how much it takes or gives. A call may
fail at any time, whether the peer is there or not, and a write may take nothing
(`WriteFails`, `WriteZero`, `ReadFails`): that is transcribed, and ends the program.
An interruption is a step that changes nothing, because the call is made again.
Bytes are numbered, so that a byte lost, repeated or out of order shows. `accepted` is
what the kernel has taken for the peer. `tscribe` is open, writes in pieces, close; its
text around the data is left out, and so is that its own partial writes do not
cross the four calls that it makes. Nothing in the program spares it SIGPIPE, but
whoever started it may have: a write to a peer that is gone has both outcomes.

### Startup

The environment is a sequence of settings, of a module, of the default or of something
that is neither; `Parsed` goes through them with the mark for "not set" that the code
uses. Options come in any order; every action of `process_args` that ends the program is
an outcome of `Option`. `attached` is the set of function pointers that are set; `Call`
ends the program with "null pointer" if one is called that is not. `log_log` initialises the log if
nobody has; since the first thing that `main` calls is `log_init`, it never has to.
`-c`, `-v` and `-q` all end in `update_logger`, which takes the level of init and gives the new one to
all modules. `LevelsAsConfigured` therefore speaks of the modules that the environment gives that
level, once there are such options, and of all modules as long as there are none. For the others usage() promises
what the code does not do: `OnlyQuietLowers` says so, and is violated.

## Runs

| run | shows |
|---|---|
| `sc_open` | against an ssh that sends anything: the read buffer and `fsm_feed`'s index stay in bounds (`TypeOK`); no self check of sc.c fires (`SelfChecksHold`); each login answer goes out at most once, in order and before user input, and every byte entered goes out once and in order (`SentInOrder`); the death of ssh ends the program (`SshDeathNoticed`) |
| `dialogue` | with a coherent switch the screen shows exactly the switch's answer (`Faithful`), no byte goes out before the last answer is eaten (`Lockstep`), the program ends only if ssh does (`EndsOnlyWithSsh`), every step is one of `Shell` or none (`ImplementsShell`), and no line is left without its answer (`NoLineUnanswered`). The read buffer is full with the first byte of a sequence, so it must grow before the next read, which would be asked for 0 bytes otherwise |
| `dialogue_pause` | violation: a response that pauses behind an escape sequence is cut in two, and its output is taken for the prompt |
| `uc_ia_result` | violation: for a line longer than the caller's buffer the result is not the number of bytes written |
| `uc_ia_full` | violation: a full buffer without a line makes `read` return 0, which is taken for the end of file |
| `ansi_store` | the recogniser stops at the first byte that completes a sequence of the grammar, wherever the stream is cut (`StopsAtFirst`); what it has stored then is what the bytes say, whatever came before (`StoredIsParsed`); nothing but a sequence that itself has too many arguments or a number that is too large takes it out of its array or overflows (`OutOfBoundsByItself`) |
| `session` | `wait` does not block unless ssh was stopped (`WaitsForTheDead`); after reaping nothing is read, written or shown (`SilentAfterReaping`); death ends the program (`DeathNoticed`); the prompt comes back unless ssh is stopped or stuck on stderr (`PromptComesBack`) |
| `rec_buf` | every write to a text buffer, its terminator included, is within what is allocated, and what is read is terminated (`InBounds`); with the rests of longer text in them the buffers still do what HpBackend and Sc say (`ImplementsRecorder`) |
| `relay` | lines come out of the front-end one at a time, whole and in order however they are read (`LineByLine`, `ShortLinesWhole`), and ordinary ones come out eventually, whatever is typed behind them (`LinesDelivered`); its buffer is not overrun (`TypeOK`); what is typed, ahead or not, is sent once and in order (`ImplementsWire`), and complete ordinary lines do reach the switch (`CompleteLinesSent`); a line that is cut keeps its length and its place and begins with what was copied of it (`CutLinesKeepTheirPlace`) |
| `io_wrap` | the peer gets every byte once and in order and all of them by the time `xwrite` returns (`OnceInOrder`); the transcripts say what was read and written, behind by the current entry at most (`TranscriptTells`); after select has said so, there is something to read (`ReadableIsRead`); calls return (`CallsReturn`) |
| `startup` | as long as there is no option for them, the levels are what the environment says, module by module; behind such options that still goes for the modules that it gives the level of init, moved by `-v` and `-q`; colors are as asked for (`LevelsAsConfigured`); ssh is launched only after everything asked for has been found and attached (`LaunchedWhenSetUp`); no call through a null pointer, in the main loop neither (`NoNullCall`) |
| `startup_levels` | violation: `-c` ("Use ANSI color sequences") and `-v` ("Be more verbose") lower the level of a module for which the environment has a higher one than for init (`OnlyQuietLowers`) |

Deadlock is checked in every run. `Idle` (Sc) and `Ended` (elsewhere) are the
states in which nothing more happens: the program has ended, or it waits for a
user who stays silent.

### Bounds

* `sc_open`: a read buffer of one byte at the start, so that it grows in the middle
  of a sequence and a sequence is cut at every place; three bytes from ssh at most
  that the machines have not eaten (`MaxUnread`), and ssh sends more only while at most
  one is recorded (`MaxText`); lines of one and two bytes with and without newline,
  two bytes in all (`MaxAsked`). Two unread bytes make every pair of token and state,
  every cut and every malformed sequence; with three, one feed meets the end of the
  "any key" prompt and what follows it, so that both login answers are due at once.
  The bounds are on what is stored, not on how long a session lasts.
* `dialogue`: a read buffer of one byte at the start, which the head of the first
  sequence fills, so that it has to grow; four bytes of input, so that a second
  command follows on the first; three replies: with output, without, and with a
  NUL in it.
* `uc_ia_result`, `uc_ia_full`, `relay`: a buffer of four bytes and a caller's buffer of three, five
  bytes typed: lines that fit both, one of them and none; a NUL among the bytes. In `relay` two
  different letters, and memory that nobody has written to holds a letter that may
  also be typed, or another one.
* `ansi_store`: a window of five bytes over eleven bytes that stand for every row and
  column of the table; enough for an argument in front of and behind a
  semicolon, a sequence cut off by another and one behind the other. A string
  buffer of two bytes, so that it is truncated, room for two arguments, so that
  a third does not fit, and a largest number that 70 does not exceed and 77 does.
* `rec_buf`: buffers of one and two bytes at the start and two recorded bytes each
  (`MaxRec`), so that all three ways to grow are taken, exactly at the limit too;
  one of the bytes is a NUL. Any number of commands.
* `io_wrap`: calls that write one and three bytes, four in all, so that a call is cut
  into up to three pieces; a pipe of two bytes, so that it fills up; two bytes to read.
* `startup`, `startup_levels`: two modules, two settings in the environment, three options: a level of 1
  that two `-q` take to the floor and a `-v` takes up again.
* `session`: two bytes a line, two pieces an answer, capacity one for both pipes,
  sessions of any length.

### Fairness

* Weak fairness of the program: it is a single thread that the kernel runs when
  it can; every action of it is one it will take (it does not choose among
  several: their guards exclude each other, except for the launch, which may
  fail, and the size of a read).
* Weak fairness of the switch (`Dialogue`) and of `SshSends` (`Session`): a switch that
  is connected sends what it has to send. Death of ssh is always possible and
  never required. `SshDead`: an exit that has begun completes.
* `Relay`: the program and, with it, the switch, which answers every byte as long as
  it is there.
* `IoWrap`: a system call that can be completed is not interrupted for ever
  (signals come from the death or the stop of one child), and the peer takes
  what is in its pipe. Failures are never required.
* The user is never assumed to do anything.

## Theorems

For every set of lines and bytes, every buffer size and every bound:

* `TypeCorrect`, `SelfChecksNeverFire`, `SentOnceInOrder` (`DialogueProofs`, first half), from one inductive
  invariant `Inv`. `SelfChecksHold` is not inductive: "meh" does not fire because the
  flag is up only from the first round without data until a read that cannot find
  the pipe empty, since select has seen something in it (`Flag`); "outbuf not empty"
  does not because the output buffer is empty outside READY, and so on
  (`Shape`). `SentInOrder` needs to know, during the login, which answers are sent,
  which are due and how far the initial chat has come (`Login`, six stages), and
  after it that both have been sent (`LoggedIn`). There is one lemma per action.
  `EatOneInside`, `DeltaType`, `ActType`, `MktokType` and `InitChat` are the
  facts about the recogniser and the tables that the step lemmas cite.
* `AlwaysInStep`, `ShowsTheAnswer`, `UnderstandsTheSwitch`, `IsAShell` (`DialogueProofs`): for every
  prompt, set of replies and set of lines, every buffer size and however the responses are
  cut, if `Coherent`. They rest on `Conversation`, that `DInv` is an invariant. None of the three properties
  is inductive, since none says what the machines and the pipe hold in the middle of a
  response. `Stream` says that what is buffered, what is in the pipe and what the switch has not sent yet
  are, in that order, the response behind the bytes eaten (`Pos` of them); `Turns` says whose
  turn it is and which response that is; `Places` gives for each machine and each of these
  positions its state and what its buffers have recorded. Each token eaten takes a place to
  the next one (`PlaceStep`, from `GreetingStep`, `EchoStep`, `ReplyStep` and the others); no place is an error (`PlaceIsNoError`); and the crux is
  `AcceptsAll`: when nothing is left to read, a machine is in an accepting state only at the end of the response.
  That is where `Coherent` is needed: a machine also accepts in front of a prompt, right behind
  an escape sequence, and only there. `IsAShell` takes each action to a step of
  `Shell` or a stutter; it needs one fact more, that a line has been asked for when a command
  runs (`Entered`).
* `WaitingIsShort`, `NothingAfterReaping` (`SessionProofs`), from `SInv`: the flag is up only
  if ssh is dead or was stopped (`SignalMeans`), and after reaping the pipes are
  closed and the program is in the loop that tries to use them (`ReapedOver`).

* `BufferKept`, `InputLineByLine`, `LinesWhole` (`RelayProofs`): a read asks for no more
  than there is room for, and `getdata` is entered only with a newline in the
  buffer, so the newline it looks for is in it. For `InputLineByLine` every step moves bytes
  between neighbours of the chain lines taken, buffer, unread input (`TakenStep` for the
  lines, whose concatenation is defined by recursion).
* `CutLinesStay`, `IsAWire` (`RelayProofs`), from `RInv` on top of the invariant above. The last place of core_run's
  `buf` is never written to, because at most `DestSz - 1` bytes are copied, so what a cut line has
  there is what was there at the start (`GetWrites`); what comes behind it may be anything (`Memory` is any set). Lines stand behind each other in what is sent,
  and none ends behind its end (`InPlace`; the second part keeps the places of earlier lines apart from
  the next one). While all that was typed fits, what is sent is what the front-end took (`InOrder`):
  `Short` speaks of positions in the input, and `ShortLine` finds the line that is taken there.
  For the refinement, what is about to be written is a part of a line that
  has its newline, so there is something to send in `Wire` too (`FirstPart`).
* `BuffersHold`, `TextKept` (`RecBufProofs`): the first from `Sound`, which every operation
  keeps for the buffer it works on (`AppendSound`, `ClearSound`, `CopySound`, `NooutSound`).
  `append` doubles once and that is enough because a sound buffer is never more than full;
  `growbuf` is enough because n doublings reach n (`DoubledEnough`). `TextKept` is the whole refinement
  `ImplementsRecorder`: what is behind a terminator never shows (`CStrCut`).
* `WrittenOnceInOrder`, `TranscriptsTell`, `SelectedIsRead` (`IoWrapProofs`), from `IInv`. What the
  peer has is what earlier calls were given and, of this one, what `bc` says (`Written`). While an
  entry is written, the transcript is behind by exactly the part of it that is left, and the entry is about the last bytes that were really moved
  (`Entry`, `Transcripts`); without that the transcript of a piece could be that of another. The third
  rests on `SelectedIsReadable`: only a read makes what is readable less, and it uses select's word up.
* `NothingNullIsCalled`, `LaunchedOnlyWhenSetUp` (`StartupProofs`), from `SInv`: the chosen name is the one of
  the last such option until "auto" is replaced (`Chosen`), an option for a list ends the
  program (`Stopped`), and each stage of `core_init` has attached what the next one calls (`Found`).
* `LevelsAsAsked` (`StartupProofs`), from `Levels`: for the modules and command lines that
  `LevelsAsConfigured` speaks of; what the options do to the others is what `startup_levels`
  shows. That what `Parsed` leaves is what the last setting says (`ParsedIsAsked`) goes along
  the settings. The level after a number of options with a floor at 0 is the greatest of the
  sums of the steps since any of them, or of all and the environment's level: one option more
  adds its step to each of these and one that is 0 to the set (`CandidatesNext`), and so to
  their maximum (`GreatestMoves`). `s_init` is part of the invariant, for the late
  initialisation in `log_log`.
* `RecogniserStops`, `StoreIsParse`, `OnlyByItself` (`AnsiStoreProofs`), from `Inv`. None of the
  three is inductive: each speaks of the end of a sequence and none says what is stored in the
  middle of one, or what half a sequence says. `Shape` says for each state of the loop which bytes
  behind the last escape lead there, so that the state is final exactly when they are well formed
  (`ShapeStep`, `NotYet`, `ScanShape`, `EndIsWellFormed`); `Holds` says for each state what is
  stored by then: class, text, the arguments that semicolons have closed (`Closed`), and the digits
  of the one being read (`Current`). `Reading` ties both to the data. When idle, `Inv` says nothing
  of the store: what a call that ran out of data leaves there may be anything, since the escape that
  the next one begins with resets it (`HoldsFirst`). `Parse` looks at a whole sequence at once and
  the loop at one byte after the other; what a byte more does to what `Parse` computes is
  `NumberAppend`, `WithoutAppend`, `TextAppend`, and for the fields `StartsAppend`, `FieldKept`,
  `FieldGoesOn`, `FieldEnds`. `HoldsStep`, which says that a byte takes what `Holds` says of one
  state to what it says of the next, has one lemma per state that is left. For `OnlyByItself`: if
  the bytes up to here fit, so does what is stored of them (`StoreFits`), since what semicolons have
  closed and the digits of the last argument are the fields of those bytes (`FieldsFit`).
* `EatsTheFirst` (`AnsiStoreProofs`): the operator `EatOne`, which stands for the recogniser in
  `Sc`, eats the shortest sequence of the grammar at the head of the data, and asks for more only if
  there is none.

The assumptions are the ones named in the modules: lines are nonempty sequences of bytes,
sizes are positive, the levels of the environment are natural numbers and no level is the mark for
"not set". In `Dialogue` the prompts and the replies of the switch hold no escapes (those around them
are added) and prompts are not empty (`DialogueAssumption`), and its theorems
are about a `Coherent` connection; they are of no use over another one, which `dialogue_pause` shows.
The theorems about `Sc`, `Session`, `IoWrap` and `Relay` say nothing of the peer.

Several definitions are recursive functions: the doubling of a size, the concatenation and the
places of the lines, the states of the recogniser (`Scan`), the value of digits and what is left of
a sequence (`Number`, `Without`), the settings (`Parsed`) and the sum of the options. What is
claimed of them for every number is proved by looking at the least number for which it fails
(`MinMember`), or by induction over the set of those for which it holds (`InductionUpTo`); neither
needs an induction theorem with an operator for a parameter. That such a function exists is
`RecursionExists`, for which its step is a function too; that two of them agree is `SameValues`. The
proofs then cite the equations of the function and not its definition (`ScanEquations`,
`NumberAppend`, `SumEquations`, `StartsEqs`).

Only model-checked: all liveness (`SshDeathNoticed`, `LinesDelivered`, `DeathNoticed`,
`PromptComesBack`, `CallsReturn`, `NoLineUnanswered`, `CompleteLinesSent`), which is out of the
prover's reach, as is `ENABLED`, which fairness is made of. Every invariant and every action
property or refinement that a run checks is proved; the violations are for TLC to find.

## Not modelled

* What happens after an argument of an escape sequence has been stored outside its
  array or has overflowed: AnsiStore ends there.
* `malloc` failing, which ends the program; `hexdump`, `msleep`, `setblocking`.
* The text of log messages and its layout (column widths, colors, call depth); an
  environment variable longer than the 128 bytes that log.c copies; numbers in it
  near the ends of int, one of which is the mark for "not set".
* The dump functions change nothing. `spawn_kill`, `log_setlvl`, `log_tcall`,
  `fsm_cmdout_anykey` and `fsm_cmdout_report` have no caller. The no-op front-end is
  not in the list of front-ends and cannot be selected; it has no state.
* `OFFLINE` is never assigned, so `sc offline` cannot happen; it is kept in the type.

## Plan

All modules of the table above, and the proofs of every safety property that the runs check, are
there. What could come next: the text of log messages and its column widths (`common/log.c`); what C
does once an argument is outside its array; and liveness, should the prover come to support it.
